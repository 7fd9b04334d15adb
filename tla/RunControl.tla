----------------------------- MODULE RunControl -----------------------------
(***************************************************************************)
(* PipelineRunManager (src/pipeline_run_manager.py): the API process       *)
(* starts `app.py` as a child process, one supervisor thread per job, and  *)
(* answers create, get and cancel requests on request threads of its own.  *)
(*                                                                         *)
(* Every section the code runs under `self._lock` is one action.  What it  *)
(* does outside the lock (launching, signalling and waiting for a process) *)
(* are actions of their own, so all the interleavings of a request with    *)
(* the supervisor, and of either with the child process, are there.        *)
(*                                                                         *)
(* Abstracted: timestamps, log lines, the stage text, the run identifier   *)
(* read from the log, and the configuration checks of create_run (a        *)
(* refused configuration changes nothing).                                 *)
(***************************************************************************)
EXTENDS Naturals, Sequences, FiniteSets

CONSTANTS
    Jobs,              \* the job identifiers the manager may hand out
    Cancellers,        \* the request threads that run cancel_job
    PersistMayFail,    \* os.replace keeps raising PermissionError
    VenvMayBeMissing,  \* no .venv python under the project root
    LaunchMayFail,     \* opening the log file or Popen raises
    KillMayTimeOut,    \* a killed process outlives the bounded waits
    MaxRestarts        \* how often the API process may be restarted

ASSUME RequestAssumption == Jobs \cap Cancellers = {}
ASSUME FaultAssumption ==
    /\ PersistMayFail \in BOOLEAN
    /\ VenvMayBeMissing \in BOOLEAN
    /\ LaunchMayFail \in BOOLEAN
    /\ KillMayTimeOut \in BOOLEAN
    /\ MaxRestarts \in Nat

VARIABLES
    jobs,        \* every job ever created, in that order
    status,      \* job.status; "none" for a job that is not in _jobs
    disk,        \* the status last written to job.json
    registered,  \* the keys of _processes
    proc,        \* the child process: not started, running, or how it exited
    signalled,   \* the jobs whose process was told to terminate
    spc,         \* where the supervisor thread of a job is
    cpc,         \* where a cancel request is
    target,      \* the job a cancel request is about
    orphans,     \* the jobs whose process outlived the API process
    cancelled,   \* history: the jobs a cancel request was accepted for
    restarts     \* how often the API process was restarted

vars == <<jobs, status, disk, registered, proc, signalled, spc, cpc, target,
          orphans, cancelled, restarts>>

ActiveStatuses == {"STARTING", "RUNNING", "CANCEL_REQUESTED"}
TerminalStatuses == {"COMPLETED", "FAILED", "CANCELLED"}
CancelStatuses == {"CANCEL_REQUESTED", "CANCELLED"}
Statuses == ActiveStatuses \cup TerminalStatuses

(* The keys of _jobs; the dictionary keeps the order of jobs. *)
Known == {j \in Jobs : status[j] # "none"}
Exited(j) == proc[j] \in {"ok", "error"}
NoJob == "no job"

(* Whether a write of job.json succeeds. *)
Saves == IF PersistMayFail THEN BOOLEAN ELSE {TRUE}

(* job.status = s under the lock, and _persist_job. *)
SetStatus(j, s, saved) ==
    /\ status' = [status EXCEPT ![j] = s]
    /\ disk' = IF saved THEN [disk EXCEPT ![j] = s] ELSE disk

TypeOK ==
    /\ jobs \in Seq(Jobs)
    /\ status \in [Jobs -> Statuses \cup {"none"}]
    /\ disk \in [Jobs -> Statuses \cup {"none"}]
    /\ registered \in SUBSET Jobs
    /\ proc \in [Jobs -> {"none", "running", "ok", "error"}]
    /\ signalled \in SUBSET Jobs
    /\ spc \in [Jobs -> {"none", "begin", "launch", "register", "drain",
                         "terminate", "wait", "finish", "fail", "done"}]
    /\ cpc \in [Cancellers -> {"idle", "signal", "await", "settle"}]
    /\ target \in [Cancellers -> Jobs \cup {NoJob}]
    /\ \A k \in Cancellers : cpc[k] # "idle" => target[k] \in Jobs
    /\ orphans \in SUBSET Jobs
    /\ cancelled \in SUBSET Jobs
    /\ restarts \in 0..MaxRestarts

Init ==
    /\ jobs = <<>>
    /\ status = [j \in Jobs |-> "none"]
    /\ disk = [j \in Jobs |-> "none"]
    /\ registered = {}
    /\ proc = [j \in Jobs |-> "none"]
    /\ signalled = {}
    /\ spc = [j \in Jobs |-> "none"]
    /\ cpc = [k \in Cancellers |-> "idle"]
    /\ target = [k \in Cancellers |-> NoJob]
    /\ orphans = {}
    /\ cancelled = {}
    /\ restarts = 0

-----------------------------------------------------------------------------
(* _refresh_process_state_locked: what it finds, and what it does. *)

ExitStatus(j) == IF proc[j] = "ok" THEN "COMPLETED" ELSE "FAILED"

Expired(j) == j \in registered /\ Exited(j) /\ status[j] \in ActiveStatuses

(* The jobs of S are refreshed; those of unsaved fail to be persisted. *)
Refreshed(S, unsaved, old) ==
    [j \in Jobs |-> IF j \in S \ unsaved /\ Expired(j) THEN ExitStatus(j)
                                                       ELSE old[j]]
Unexpired(S) == {j \in registered : ~(j \in S /\ Expired(j))}

(* _active_job_locked refreshes jobs in order until one is still active. *)
(* Mutant: a job that is still STARTING does not block another. *)
FaultyStillActive(j) ==
    status[j] \in {"RUNNING", "CANCEL_REQUESTED"} /\ ~Expired(j)
StillActive(j) == status[j] \in ActiveStatuses /\ ~Expired(j)
FirstJobs(n) == {jobs[i] : i \in 1..n} \cap Known
NoneActive(n) == \A j \in FirstJobs(n) : ~StillActive(j)

-----------------------------------------------------------------------------
(* Requests. *)

(* create_run: no job is active, so a new one is stored and persisted and  *)
(* its supervisor started; if the write raises, the job stays without one. *)
CreateRun(j) ==
    /\ \A i \in DOMAIN jobs : jobs[i] # j
    /\ NoneActive(Len(jobs))
    /\ jobs' = Append(jobs, j)
    /\ registered' = Unexpired(Known)
    /\ \E saved \in Saves :
        /\ status' = [Refreshed(Known, {}, status) EXCEPT ![j] = "STARTING"]
        /\ disk' = [Refreshed(Known, {}, disk) EXCEPT
                        ![j] = IF saved THEN "STARTING" ELSE @]
        /\ spc' = [spc EXCEPT ![j] = IF saved THEN "begin" ELSE "none"]
    /\ UNCHANGED <<proc, signalled, cpc, target, orphans, cancelled, restarts>>

(* create_run raises: jobs[n] is still active (a conflict), or it was      *)
(* refreshed and could not be persisted.  The jobs before it are refreshed. *)
CreateRunRaises ==
    /\ \E n \in DOMAIN jobs :
        /\ jobs[n] \in Known
        /\ NoneActive(n - 1)
        /\ \/ /\ StillActive(jobs[n])
              /\ disk' = Refreshed(FirstJobs(n - 1), {}, disk)
           \/ /\ Expired(jobs[n])
              /\ FALSE \in Saves
              /\ disk' = Refreshed(FirstJobs(n), {jobs[n]}, disk)
        /\ status' = Refreshed(FirstJobs(n), {}, status)
        /\ registered' = Unexpired(FirstJobs(n))
    /\ UNCHANGED <<jobs, proc, signalled, spc, cpc, target, orphans,
                   cancelled, restarts>>

(* get_job and get_logs refresh the job they are asked about. *)
GetJob(j) ==
    /\ j \in Known
    /\ Expired(j)
    /\ registered' = registered \ {j}
    /\ \E saved \in Saves : SetStatus(j, ExitStatus(j), saved)
    /\ UNCHANGED <<jobs, proc, signalled, spc, cpc, target, orphans,
                   cancelled, restarts>>

(* cancel_job, first locked section.  The process is looked up under the   *)
(* lock and used after it; without a process the request only settles.     *)
CancelRequest(k, j) ==
    /\ cpc[k] = "idle"
    /\ j \in Known
    /\ status[j] \notin TerminalStatuses
    /\ \E saved \in Saves :
        /\ SetStatus(j, "CANCEL_REQUESTED", saved)
        /\ IF saved
             THEN /\ cpc' = [cpc EXCEPT ![k] =
                          IF j \in registered THEN "signal" ELSE "settle"]
                  /\ target' = [target EXCEPT ![k] = j]
             ELSE UNCHANGED <<cpc, target>>
    /\ cancelled' = cancelled \cup {j}
    /\ UNCHANGED <<jobs, registered, proc, signalled, spc, orphans, restarts>>

(* process.poll() and _terminate_process_tree, outside the lock. *)
CancelSignal(k) ==
    /\ cpc[k] = "signal"
    /\ IF proc[target[k]] = "running"
         THEN /\ signalled' = signalled \cup {target[k]}
              /\ cpc' = [cpc EXCEPT ![k] = "await"]
         ELSE /\ cpc' = [cpc EXCEPT ![k] = "settle"]
              /\ UNCHANGED signalled
    /\ UNCHANGED <<jobs, status, disk, registered, proc, spc, target, orphans,
                   cancelled, restarts>>

(* The waits of _terminate_process_tree; their timeouts are swallowed. *)
CancelAwait(k) ==
    /\ cpc[k] = "await"
    /\ Exited(target[k]) \/ KillMayTimeOut
    /\ cpc' = [cpc EXCEPT ![k] = "settle"]
    /\ UNCHANGED <<jobs, status, disk, registered, proc, signalled, spc,
                   target, orphans, cancelled, restarts>>

(* cancel_job, second locked section: whatever the job became meanwhile,   *)
(* it is reported CANCELLED.                                               *)
CancelSettle(k) ==
    /\ cpc[k] = "settle"
    /\ IF status[target[k]] # "CANCELLED"
         THEN \E saved \in Saves : SetStatus(target[k], "CANCELLED", saved)
         ELSE UNCHANGED <<status, disk>>
    /\ cpc' = [cpc EXCEPT ![k] = "idle"]
    /\ target' = [target EXCEPT ![k] = NoJob]
    /\ UNCHANGED <<jobs, registered, proc, signalled, spc, orphans, cancelled,
                   restarts>>

-----------------------------------------------------------------------------
(* The supervisor thread of job j, _run_job_supervisor. *)

(* It sets STARTING whatever the status is.  This part is outside the try: *)
(* a failing write or a missing virtualenv ends the thread.                *)
SupBegin(j) ==
    /\ spc[j] = "begin"
    /\ \E saved \in Saves, venv \in (IF VenvMayBeMissing THEN BOOLEAN ELSE {TRUE}) :
        /\ SetStatus(j, "STARTING", saved)
        /\ spc' = [spc EXCEPT ![j] = IF saved /\ venv THEN "launch" ELSE "done"]
    /\ UNCHANGED <<jobs, registered, proc, signalled, cpc, target, orphans,
                   cancelled, restarts>>

SupLaunch(j) ==
    /\ spc[j] = "launch"
    /\ \/ /\ proc' = [proc EXCEPT ![j] = "running"]
          /\ spc' = [spc EXCEPT ![j] = "register"]
       \/ /\ LaunchMayFail
          /\ spc' = [spc EXCEPT ![j] = "fail"]
          /\ UNCHANGED proc
    /\ UNCHANGED <<jobs, status, disk, registered, signalled, cpc, target,
                   orphans, cancelled, restarts>>

(* The process is stored; a job cancelled meanwhile is to be terminated. *)
(* Mutant: the cancel that came during the launch is not looked at. *)
FaultySupRegister(j) ==
    /\ spc[j] = "register"
    /\ registered' = registered \cup {j}
    /\ \E saved \in Saves :
        /\ SetStatus(j, "RUNNING", saved)
        /\ spc' = [spc EXCEPT ![j] = IF saved THEN "drain" ELSE "fail"]
    /\ UNCHANGED <<jobs, proc, signalled, cpc, target, orphans, cancelled,
                   restarts>>
SupRegister(j) ==
    /\ spc[j] = "register"
    /\ registered' = registered \cup {j}
    /\ \E saved \in Saves :
        /\ SetStatus(j, IF status[j] \in CancelStatuses THEN status[j]
                                                        ELSE "RUNNING", saved)
        /\ spc' = [spc EXCEPT ![j] =
                     IF ~saved THEN "fail"
                     ELSE IF status[j] \in CancelStatuses THEN "terminate"
                     ELSE "drain"]
    /\ UNCHANGED <<jobs, proc, signalled, cpc, target, orphans, cancelled,
                   restarts>>

(* One line of _consume_process_output: the job is persisted as it is. *)
SupLine(j) ==
    /\ spc[j] = "drain"
    /\ \E saved \in Saves :
        /\ SetStatus(j, status[j], saved)
        /\ spc' = [spc EXCEPT ![j] = IF saved THEN "drain" ELSE "fail"]
    /\ UNCHANGED <<jobs, registered, proc, signalled, cpc, target, orphans,
                   cancelled, restarts>>

(* _terminate_process_tree of a job cancelled before it ran. *)
SupTerminate(j) ==
    /\ spc[j] = "terminate"
    /\ signalled' = signalled \cup {j}
    /\ spc' = [spc EXCEPT ![j] = "wait"]
    /\ UNCHANGED <<jobs, status, disk, registered, proc, cpc, target, orphans,
                   cancelled, restarts>>

(* The output ended and process.wait() returned. *)
SupExit(j) ==
    /\ spc[j] \in {"drain", "wait"}
    /\ Exited(j)
    /\ spc' = [spc EXCEPT ![j] = "finish"]
    /\ UNCHANGED <<jobs, status, disk, registered, proc, signalled, cpc,
                   target, orphans, cancelled, restarts>>

(* The last locked section; its write is still inside the try. *)
(* Mutants: the exit code is not looked at; the cancel is not looked at;   *)
(* the process stays registered.                                           *)
FinishAs(j, s, keep) ==
    /\ spc[j] = "finish"
    /\ registered' = registered \ ({j} \ keep)
    /\ \E saved \in Saves :
        /\ SetStatus(j, s, saved)
        /\ spc' = [spc EXCEPT ![j] = IF saved THEN "done" ELSE "fail"]
    /\ UNCHANGED <<jobs, proc, signalled, cpc, target, orphans, cancelled,
                   restarts>>
BlindSupFinish(j) ==
    FinishAs(j, IF status[j] \in CancelStatuses THEN "CANCELLED"
                                                ELSE "COMPLETED", {})
FaultySupFinish(j) == FinishAs(j, ExitStatus(j), {})
ForgetfulSupFinish(j) ==
    FinishAs(j, IF status[j] \in CancelStatuses THEN "CANCELLED"
                                                ELSE ExitStatus(j), {j})
SupFinish(j) ==
    /\ spc[j] = "finish"
    /\ registered' = registered \ {j}
    /\ \E saved \in Saves :
        /\ SetStatus(j, IF status[j] \in CancelStatuses THEN "CANCELLED"
                                                        ELSE ExitStatus(j), saved)
        /\ spc' = [spc EXCEPT ![j] = IF saved THEN "done" ELSE "fail"]
    /\ UNCHANGED <<jobs, proc, signalled, cpc, target, orphans, cancelled,
                   restarts>>

(* The except clause: the process is forgotten, not terminated. *)
(* Mutant: the failure is not recorded. *)
FaultySupFail(j) ==
    /\ spc[j] = "fail"
    /\ registered' = registered \ {j}
    /\ spc' = [spc EXCEPT ![j] = "done"]
    /\ UNCHANGED <<jobs, status, disk, proc, signalled, cpc, target, orphans,
                   cancelled, restarts>>
SupFail(j) ==
    /\ spc[j] = "fail"
    /\ registered' = registered \ {j}
    /\ \E saved \in Saves : SetStatus(j, "FAILED", saved)
    /\ spc' = [spc EXCEPT ![j] = "done"]
    /\ UNCHANGED <<jobs, proc, signalled, cpc, target, orphans, cancelled,
                   restarts>>

-----------------------------------------------------------------------------
(* The environment. *)

ProcessExit(j) ==
    /\ proc[j] = "running"
    /\ \E result \in {"ok", "error"} : proc' = [proc EXCEPT ![j] = result]
    /\ UNCHANGED <<jobs, status, disk, registered, signalled, spc, cpc, target,
                   orphans, cancelled, restarts>>

(* The API process dies with its threads and is started again.  _load_jobs *)
(* reads what was persisted, reports active jobs FAILED, and skips a job   *)
(* it cannot write.  The child processes live on.                          *)
(* Mutant: what was persisted is taken over as it is. *)
FaultyRestart ==
    /\ restarts < MaxRestarts
    /\ restarts' = restarts + 1
    /\ status' = disk
    /\ registered' = {}
    /\ orphans' = orphans \cup {j \in Jobs : proc[j] = "running"}
    /\ spc' = [j \in Jobs |-> "none"]
    /\ cpc' = [k \in Cancellers |-> "idle"]
    /\ target' = [k \in Cancellers |-> NoJob]
    /\ UNCHANGED <<jobs, disk, proc, signalled, cancelled>>
Restart ==
    /\ restarts < MaxRestarts
    /\ restarts' = restarts + 1
    /\ \E unsaved \in SUBSET {j \in Jobs : disk[j] \in ActiveStatuses} :
        /\ unsaved = {} \/ PersistMayFail
        /\ disk' = [j \in Jobs |-> IF disk[j] \in ActiveStatuses /\ j \notin unsaved
                                    THEN "FAILED" ELSE disk[j]]
        /\ status' = [j \in Jobs |-> IF j \in unsaved THEN "none" ELSE disk'[j]]
    /\ registered' = {}
    /\ orphans' = orphans \cup {j \in Jobs : proc[j] = "running"}
    /\ spc' = [j \in Jobs |-> "none"]
    /\ cpc' = [k \in Cancellers |-> "idle"]
    /\ target' = [k \in Cancellers |-> NoJob]
    /\ UNCHANGED <<jobs, proc, signalled, cancelled>>

(* The jobs are used up and every one is settled: only the model stops. *)
Idle(j) == spc[j] \in {"none", "done"} /\ \A k \in Cancellers : target[k] # j
Terminated ==
    /\ Len(jobs) = Cardinality(Jobs)
    /\ \A j \in Jobs : Idle(j) /\ proc[j] # "running"
    /\ UNCHANGED vars

Supervisor(j) ==
    \/ SupBegin(j) \/ SupLaunch(j) \/ SupRegister(j) \/ SupTerminate(j)
    \/ SupExit(j) \/ SupFinish(j) \/ SupFail(j)

Canceller(k) == CancelSignal(k) \/ CancelAwait(k) \/ CancelSettle(k)

Request ==
    \/ CreateRunRaises
    \/ \E j \in Jobs : CreateRun(j) \/ GetJob(j)
    \/ \E k \in Cancellers, j \in Jobs : CancelRequest(k, j)

Next ==
    \/ Request
    \/ \E k \in Cancellers : Canceller(k)
    \/ \E j \in Jobs : Supervisor(j) \/ SupLine(j) \/ ProcessExit(j)
    \/ Restart
    \/ Terminated

Spec == Init /\ [][Next]_vars

(* Threads are scheduled, and a process that is told to terminate, and at  *)
(* last killed, exits.                                                     *)
FairSpec ==
    /\ Spec
    /\ \A j \in Jobs : WF_vars(Supervisor(j))
    /\ \A k \in Cancellers : WF_vars(Canceller(k))
    /\ \A j \in Jobs : WF_vars(j \in signalled /\ ProcessExit(j))


-----------------------------------------------------------------------------
(* Properties. *)

(* A job is reported COMPLETED, in memory or in job.json, only when its    *)
(* process exited with code 0: neither a cancel, a refresh that overtakes  *)
(* the supervisor, a failed write nor a restart makes a success of a run   *)
(* that did not succeed.                                                   *)
CompletedMeansExitZero ==
    \A j \in Jobs : "COMPLETED" \in {status[j], disk[j]} => proc[j] = "ok"

(* When the supervisor of a known job and the requests about it are done,  *)
(* the job is terminal, job.json says the same, and the process is neither *)
(* registered nor running - whatever the order in which get_job, cancel_job *)
(* and the supervisor noticed its exit.                                    *)
SettledWhenIdle ==
    \A j \in Known :
        Idle(j) => /\ status[j] \in TerminalStatuses
                   /\ disk[j] = status[j]
                   /\ j \notin registered
                   /\ proc[j] = "running" => j \in orphans

(* Of the jobs nobody cancelled, whose process this API process started,   *)
(* at most one is active or has a process running.                         *)
Occupying == {j \in Jobs \ (cancelled \cup orphans) :
                 status[j] \in ActiveStatuses \/ proc[j] = "running"}
OneUncancelledRun == \A i, j \in Occupying : i = j

(* Once its supervisor has begun, the reported outcome of a job changes    *)
(* only by a cancel request in progress, or because the launch of an       *)
(* already cancelled job fails.                                            *)
OutcomeIsStable ==
    [][\A j \in Jobs :
        /\ status[j] \in TerminalStatuses
        /\ status'[j] # status[j]
        /\ spc[j] # "begin"
        => \/ status'[j] = "CANCELLED" /\ \E k \in Cancellers : target[k] = j
           \/ status[j] = "CANCELLED" /\ spc[j] = "fail"]_vars

(* A run the API process lost in a restart is never shown as running, and  *)
(* no request of the new process reaches it.                               *)
OrphansAreClosed ==
    \A j \in orphans : status[j] \in TerminalStatuses /\ spc[j] = "none"

(* If every run ends by itself, as one over finite videos does, every job  *)
(* ends up in a terminal status for good.                                  *)
RunsEnd == \A j \in Jobs : []<>(proc[j] # "running")
EveryJobSettles ==
    RunsEnd => \A j \in Jobs :
        (status[j] # "none") ~> [](status[j] \in TerminalStatuses)

(* A cancel request that finds the supervisor under way ends the process,  *)
(* even one that would never end by itself, unless the API process is      *)
(* restarted meanwhile.                                                    *)
CancelAfterBeginTerminates ==
    \A j \in Jobs :
        (status[j] = "CANCEL_REQUESTED" /\ spc[j] # "begin") ~>
            (status[j] \in TerminalStatuses /\ (proc[j] # "running" \/ j \in orphans))

(* What RUN_CONTROL.md says of cancelling: the subprocess is terminated.   *)
CancelTerminates ==
    \A j \in Jobs :
        (status[j] = "CANCEL_REQUESTED") ~>
            [](status[j] \in TerminalStatuses /\ proc[j] # "running")

=============================================================================
