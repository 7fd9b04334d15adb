-------------------------- MODULE RunControlProofs --------------------------
(***************************************************************************)
(* Theorems about RunControl for every set of jobs and of requests, every  *)
(* choice of the faults and every number of restarts:                      *)
(*   TypeCorrect       the type invariant;                                 *)
(*   SuccessIsReal     a job reported COMPLETED exited with code 0;        *)
(*   RunsAreExclusive  without write failures, the jobs nobody cancelled   *)
(*                     run one at a time;                                  *)
(*   IdleJobsAreSettled, OrphansStayClosed, OutcomesAreStable              *)
(*                     without write failures, what the reported outcome   *)
(*                     of a job has to do with its process and with time.  *)
(***************************************************************************)
EXTENDS RunControl, SequenceTheorems, TLAPS

(* Appending a fresh job, in terms of the elements of the sequence.        *)
LEMMA AppendJob ==
    ASSUME NEW s \in Seq(Jobs), NEW j \in Jobs
    PROVE  /\ Append(s, j) \in Seq(Jobs)
           /\ \A x : (\A i \in DOMAIN Append(s, j) : Append(s, j)[i] # x)
                        => x # j /\ \A i \in DOMAIN s : s[i] # x
<1>1. /\ Append(s, j) \in Seq(Jobs)
      /\ Len(Append(s, j)) = Len(s) + 1
      /\ \A i \in 1..Len(s) : Append(s, j)[i] = s[i]
      /\ Append(s, j)[Len(s) + 1] = j
      /\ DOMAIN s = 1..Len(s)
      /\ DOMAIN Append(s, j) = 1..(Len(s) + 1)
      /\ Len(s) \in Nat
  OBVIOUS
<1> QED
    BY <1>1

-----------------------------------------------------------------------------
(* Type correctness.                                                       *)

(* The initial state has the types of TypeOK.                              *)
LEMMA TypeInit == Init => TypeOK
  BY FaultAssumption DEF Init, TypeOK, FaultAssumption

(* What a refresh leaves of a status function is a status function.        *)
LEMMA RefreshedType ==
    ASSUME TypeOK, NEW S, NEW U,
           NEW old \in [Jobs -> Statuses \cup {"none"}]
    PROVE  /\ Refreshed(S, U, old) \in [Jobs -> Statuses \cup {"none"}]
           /\ Unexpired(S) \subseteq registered
  BY DEF Refreshed, Unexpired, ExitStatus, Statuses, TerminalStatuses

(* The locked update of one job keeps the types.                           *)
LEMMA SetStatusType ==
    ASSUME TypeOK, NEW j \in Jobs, NEW s \in Statuses \cup {"none"},
           NEW saved, SetStatus(j, s, saved)
    PROVE  /\ status' \in [Jobs -> Statuses \cup {"none"}]
           /\ disk' \in [Jobs -> Statuses \cup {"none"}]
  BY DEF SetStatus, TypeOK

(* Requests of the API keep the types.                                     *)
LEMMA TypeRequest == TypeOK /\ Request => TypeOK'
<1> SUFFICES ASSUME TypeOK, Request PROVE TypeOK'
  OBVIOUS
<1>1. ASSUME NEW j \in Jobs, CreateRun(j) PROVE TypeOK'
  <2>1. jobs' \in Seq(Jobs)
    BY <1>1, AppendJob DEF CreateRun, TypeOK
  <2>2. /\ Refreshed(Known, {}, status) \in [Jobs -> Statuses \cup {"none"}]
        /\ Refreshed(Known, {}, disk) \in [Jobs -> Statuses \cup {"none"}]
        /\ Unexpired(Known) \subseteq registered
    BY RefreshedType DEF TypeOK
  <2>3. /\ status' \in [Jobs -> Statuses \cup {"none"}]
        /\ disk' \in [Jobs -> Statuses \cup {"none"}]
    <3> HIDE DEF TypeOK
    <3> QED
        BY <1>1, <2>2 DEF CreateRun, Statuses, ActiveStatuses
  <2> QED
      BY <1>1, <2>1, <2>2, <2>3 DEF CreateRun, TypeOK
<1>2. ASSUME CreateRunRaises PROVE TypeOK'
  <2>1. PICK n \in DOMAIN jobs :
          /\ \/ disk' = Refreshed(FirstJobs(n - 1), {}, disk)
             \/ disk' = Refreshed(FirstJobs(n), {jobs[n]}, disk)
          /\ status' = Refreshed(FirstJobs(n), {}, status)
          /\ registered' = Unexpired(FirstJobs(n))
    BY <1>2 DEF CreateRunRaises
  <2>2. /\ status' \in [Jobs -> Statuses \cup {"none"}]
        /\ disk' \in [Jobs -> Statuses \cup {"none"}]
        /\ registered' \subseteq registered
    BY <2>1, RefreshedType DEF TypeOK
  <2> QED
      BY <1>2, <2>2 DEF CreateRunRaises, TypeOK
<1>3. ASSUME NEW j \in Jobs, GetJob(j) PROVE TypeOK'
  <2>1. ExitStatus(j) \in Statuses \cup {"none"}
    BY DEF ExitStatus, Statuses, TerminalStatuses
  <2>2. PICK saved \in Saves : SetStatus(j, ExitStatus(j), saved)
    BY <1>3 DEF GetJob
  <2>3. /\ status' \in [Jobs -> Statuses \cup {"none"}]
        /\ disk' \in [Jobs -> Statuses \cup {"none"}]
    BY <2>1, <2>2, SetStatusType
  <2> QED
      BY <1>3, <2>3 DEF GetJob, TypeOK
<1>4. ASSUME NEW k \in Cancellers, NEW j \in Jobs, CancelRequest(k, j)
      PROVE  TypeOK'
  <2>1. /\ status' \in [Jobs -> Statuses \cup {"none"}]
        /\ disk' \in [Jobs -> Statuses \cup {"none"}]
    BY <1>4, SetStatusType DEF CancelRequest, Statuses, ActiveStatuses
  <2> QED
      BY <1>4, <2>1 DEF CancelRequest, TypeOK
<1> QED
    BY <1>1, <1>2, <1>3, <1>4 DEF Request

(* A cancel request, once accepted, keeps the types.                       *)
LEMMA TypeCanceller ==
    ASSUME TypeOK, NEW k \in Cancellers, Canceller(k) PROVE TypeOK'
<1>1. CASE CancelSignal(k)
  BY <1>1 DEF CancelSignal, TypeOK
<1>2. CASE CancelAwait(k)
  BY <1>2 DEF CancelAwait, TypeOK
<1>3. CASE CancelSettle(k)
  <2>1. status' \in [Jobs -> Statuses \cup {"none"}]
        /\ disk' \in [Jobs -> Statuses \cup {"none"}]
    BY <1>3 DEF CancelSettle, SetStatus, TypeOK, Statuses, TerminalStatuses
  <2> QED
      BY <1>3, <2>1 DEF CancelSettle, TypeOK
<1> QED
    BY <1>1, <1>2, <1>3 DEF Canceller

(* The supervisor of a job and the lines it reads keep the types.          *)
LEMMA TypeSupervisor ==
    ASSUME TypeOK, NEW j \in Jobs, Supervisor(j) \/ SupLine(j) PROVE TypeOK'
<1> DEFINE Stored == /\ status' \in [Jobs -> Statuses \cup {"none"}]
                     /\ disk' \in [Jobs -> Statuses \cup {"none"}]
<1>0. /\ status[j] \in Statuses \cup {"none"}
      /\ ExitStatus(j) \in Statuses
      /\ {"STARTING", "RUNNING", "CANCELLED", "FAILED"} \subseteq Statuses
  BY DEF TypeOK, ExitStatus, Statuses, TerminalStatuses, ActiveStatuses
<1>1. CASE SupBegin(j)
  <2>1. Stored  BY <1>0, <1>1, SetStatusType DEF SupBegin
  <2> QED
      BY <1>1, <2>1 DEF SupBegin, TypeOK
<1>2. CASE SupLaunch(j)
  BY <1>2 DEF SupLaunch, TypeOK
<1>3. CASE SupRegister(j)
  <2>1. Stored  BY <1>0, <1>3, SetStatusType DEF SupRegister
  <2> QED
      BY <1>3, <2>1 DEF SupRegister, TypeOK
<1>4. CASE SupTerminate(j)
  BY <1>4 DEF SupTerminate, TypeOK
<1>5. CASE SupExit(j)
  BY <1>5 DEF SupExit, TypeOK
<1>6. CASE SupFinish(j)
  <2>1. Stored  BY <1>0, <1>6, SetStatusType DEF SupFinish
  <2> QED
      BY <1>6, <2>1 DEF SupFinish, TypeOK
<1>7. CASE SupFail(j)
  <2>1. Stored  BY <1>0, <1>7, SetStatusType DEF SupFail
  <2> QED
      BY <1>7, <2>1 DEF SupFail, TypeOK
<1>8. CASE SupLine(j)
  <2>1. Stored  BY <1>0, <1>8, SetStatusType DEF SupLine
  <2> QED
      BY <1>8, <2>1 DEF SupLine, TypeOK
<1> QED
    BY <1>1, <1>2, <1>3, <1>4, <1>5, <1>6, <1>7, <1>8 DEF Supervisor

(* The exit of a process, a restart and a stuttering step keep the types.  *)
LEMMA TypeEnvironment ==
    TypeOK /\ (Restart \/ Terminated \/ UNCHANGED vars
                 \/ \E j \in Jobs : ProcessExit(j)) => TypeOK'
<1> SUFFICES ASSUME TypeOK,
                    Restart \/ Terminated \/ UNCHANGED vars
                        \/ \E j \in Jobs : ProcessExit(j)
             PROVE  TypeOK'
  OBVIOUS
<1>1. CASE Restart
  <2>1. disk' \in [Jobs -> Statuses \cup {"none"}]
    BY <1>1 DEF Restart, TypeOK, Statuses, TerminalStatuses
  <2>2. status' \in [Jobs -> Statuses \cup {"none"}]
    BY <1>1, <2>1 DEF Restart, TypeOK
  <2>3. restarts' \in 0..MaxRestarts
    BY <1>1, FaultAssumption DEF Restart, TypeOK, FaultAssumption
  <2> QED
      BY <1>1, <2>1, <2>2, <2>3 DEF Restart, TypeOK
<1>2. CASE Terminated \/ UNCHANGED vars
  BY <1>2 DEF Terminated, vars, TypeOK
<1>3. CASE \E j \in Jobs : ProcessExit(j)
  BY <1>3 DEF ProcessExit, TypeOK
<1> QED
    BY <1>1, <1>2, <1>3

(* Every variable keeps its type in every reachable state.                 *)
THEOREM TypeCorrect == Spec => []TypeOK
<1>1. TypeOK /\ [Next]_vars => TypeOK'
  BY TypeRequest, TypeCanceller, TypeSupervisor, TypeEnvironment DEF Next
<1> QED
    BY <1>1, TypeInit, PTL DEF Spec

-----------------------------------------------------------------------------
(* What holds of a job at each stage of its supervisor, whatever fails.    *)

Fresh(j) == \A i \in DOMAIN jobs : jobs[i] # j

JobInv(j) ==
    /\ Fresh(j) => /\ status[j] = "none" /\ disk[j] = "none"
                   /\ proc[j] = "none" /\ spc[j] = "none"
                   /\ j \notin registered
    /\ spc[j] \in {"begin", "launch"} => proc[j] = "none"
    /\ spc[j] \in {"begin", "launch", "register"} => j \notin registered
    /\ spc[j] = "finish" => Exited(j)
    /\ "COMPLETED" \in {status[j], disk[j]} => proc[j] = "ok"

TargetInv(k) == cpc[k] # "idle" => ~Fresh(target[k])

StageInv == /\ TypeOK
            /\ \A j \in Jobs : JobInv(j)
            /\ \A k \in Cancellers : TargetInv(k)

(* No job exists at first.                                                 *)
LEMMA StageInit == Init => StageInv
  BY TypeInit DEF Init, StageInv, JobInv, TargetInv

(* Requests of the API keep the stages.                                    *)
LEMMA StageRequest ==
    ASSUME StageInv, Request, NEW x \in Jobs PROVE JobInv(x)'
<1> /\ TypeOK
    /\ JobInv(x)
  BY DEF StageInv
<1>1. ASSUME NEW j \in Jobs, CreateRun(j) PROVE JobInv(x)'
  <2>1. Fresh(x)' => x # j /\ Fresh(x)
    <3>1. jobs \in Seq(Jobs) /\ jobs' = Append(jobs, j)
      BY <1>1 DEF CreateRun, TypeOK
    <3> QED
        BY <3>1, AppendJob DEF Fresh
  <2>2. CASE x = j
    <3>1. Fresh(j)  BY <1>1 DEF CreateRun, Fresh
    <3>2. /\ proc[j] = "none" /\ j \notin registered
      BY <2>2, <3>1 DEF JobInv
    <3>3. /\ spc'[j] # "finish"
          /\ proc' = proc
          /\ registered' \subseteq registered
      BY <1>1 DEF CreateRun, TypeOK, Unexpired
    <3>4. /\ status'[j] = "STARTING"
          /\ disk'[j] # "COMPLETED"
      <4>1. PICK saved \in Saves :
              /\ status' = [Refreshed(Known, {}, status) EXCEPT ![j] = "STARTING"]
              /\ disk' = [Refreshed(Known, {}, disk) EXCEPT
                              ![j] = IF saved THEN "STARTING" ELSE @]
        BY <1>1 DEF CreateRun
      <4>2. Refreshed(Known, {}, disk)[j] = disk[j]
        BY <3>2 DEF Refreshed, Expired
      <4>3. disk[j] = "none"  BY <2>2, <3>1 DEF JobInv
      <4> QED
          BY <4>1, <4>2, <4>3 DEF Refreshed
    <3> QED
        BY <2>1, <2>2, <3>2, <3>3, <3>4 DEF JobInv
  <2>3. CASE x # j
    <3>1. /\ status'[x] = Refreshed(Known, {}, status)[x]
          /\ disk'[x] = Refreshed(Known, {}, disk)[x]
      BY <1>1, <2>3 DEF CreateRun, Refreshed
    <3>2. /\ spc'[x] = spc[x] /\ proc' = proc
          /\ registered' \subseteq registered
      BY <1>1, <2>3 DEF CreateRun, TypeOK, Unexpired
    <3> QED
        BY <2>1, <3>1, <3>2
             DEF JobInv, Refreshed, Expired, ExitStatus, Exited
  <2> QED
      BY <2>2, <2>3
<1>2. ASSUME CreateRunRaises PROVE JobInv(x)'
  BY <1>2 DEF CreateRunRaises, JobInv, Fresh, Refreshed, Unexpired, Expired,
              ExitStatus, Exited
<1>3. ASSUME NEW j \in Jobs, GetJob(j) PROVE JobInv(x)'
  BY <1>3 DEF GetJob, SetStatus, JobInv, Fresh, Known, Expired, ExitStatus,
              Exited, TypeOK
<1>4. ASSUME NEW k \in Cancellers, NEW j \in Jobs, CancelRequest(k, j)
      PROVE  JobInv(x)'
  BY <1>4 DEF CancelRequest, SetStatus, JobInv, Fresh, Known, Exited, TypeOK
<1> QED
    BY <1>1, <1>2, <1>3, <1>4 DEF Request

(* A cancel request, once accepted, keeps the stages.                      *)
LEMMA StageCanceller ==
    ASSUME StageInv, NEW k \in Cancellers, Canceller(k), NEW x \in Jobs
    PROVE  JobInv(x)'
<1> TypeOK /\ JobInv(x)
  BY DEF StageInv
<1>1. CASE CancelSignal(k)
  BY <1>1 DEF CancelSignal, StageInv, JobInv, Fresh, Exited
<1>2. CASE CancelAwait(k)
  BY <1>2 DEF CancelAwait, StageInv, JobInv, Fresh, Exited
<1>3. CASE CancelSettle(k)
  <2>1. target[k] \in Jobs /\ ~Fresh(target[k])
    BY <1>3 DEF CancelSettle, StageInv, TargetInv, TypeOK
  <2> QED
      BY <1>3, <2>1 DEF CancelSettle, JobInv, Fresh, Exited, SetStatus,
                             TypeOK
<1> QED
    BY <1>1, <1>2, <1>3 DEF Canceller

(* The supervisor of a job and the lines it reads keep the stages.         *)
LEMMA StageSupervisor ==
    ASSUME StageInv, NEW j \in Jobs, Supervisor(j) \/ SupLine(j), NEW x \in Jobs
    PROVE  JobInv(x)'
<1> TypeOK /\ JobInv(x) /\ JobInv(j)
  BY DEF StageInv
<1>1. CASE SupBegin(j)
  BY <1>1 DEF SupBegin, SetStatus, JobInv, Fresh, Exited, TypeOK
<1>2. CASE SupLaunch(j)
  BY <1>2 DEF SupLaunch, JobInv, Fresh, Exited, TypeOK
<1>3. CASE SupRegister(j)
  BY <1>3 DEF SupRegister, SetStatus, JobInv, Fresh, Exited, TypeOK
<1>4. CASE SupTerminate(j)
  BY <1>4 DEF SupTerminate, JobInv, Fresh, Exited, TypeOK
<1>5. CASE SupExit(j)
  BY <1>5 DEF SupExit, JobInv, Fresh, Exited, TypeOK
<1>6. CASE SupFinish(j)
  BY <1>6 DEF SupFinish, SetStatus, ExitStatus, JobInv, Fresh, Exited, TypeOK
<1>7. CASE SupFail(j)
  BY <1>7 DEF SupFail, SetStatus, JobInv, Fresh, Exited, TypeOK
<1>8. CASE SupLine(j)
  BY <1>8 DEF SupLine, SetStatus, JobInv, Fresh, Exited, TypeOK
<1> QED
    BY <1>1, <1>2, <1>3, <1>4, <1>5, <1>6, <1>7, <1>8 DEF Supervisor

(* The exit of a process, a restart and a stuttering step keep the stages. *)
LEMMA StageEnvironment ==
    ASSUME StageInv, NEW x \in Jobs,
           Restart \/ Terminated \/ UNCHANGED vars
              \/ \E j \in Jobs : ProcessExit(j)
    PROVE  JobInv(x)'
<1> TypeOK /\ JobInv(x)
  BY DEF StageInv
<1>1. CASE Restart
  BY <1>1 DEF Restart, JobInv, Fresh, TypeOK, Exited, ActiveStatuses
<1>2. CASE Terminated \/ UNCHANGED vars
  BY <1>2 DEF Terminated, vars, JobInv, Fresh, Exited
<1>3. ASSUME NEW j \in Jobs, ProcessExit(j) PROVE JobInv(x)'
  BY <1>3 DEF ProcessExit, JobInv, Fresh, Exited, TypeOK
<1> QED
    BY <1>1, <1>2, <1>3

(* A job somebody is cancelling exists.                                    *)
LEMMA TargetStep ==
    ASSUME StageInv, [Next]_vars, NEW m \in Cancellers PROVE TargetInv(m)'
<1> TypeOK /\ TargetInv(m)
  BY DEF StageInv
<1>1. ASSUME NEW j \in Jobs, CreateRun(j) PROVE TargetInv(m)'
  <2>1. ASSUME NEW x, Fresh(x)' PROVE Fresh(x)
    <3>1. jobs \in Seq(Jobs) /\ jobs' = Append(jobs, j)
      BY <1>1 DEF CreateRun, TypeOK
    <3> QED
        BY <2>1, <3>1, AppendJob DEF Fresh
  <2> QED
      BY <1>1, <2>1 DEF CreateRun, TargetInv
<1>2. CASE CreateRunRaises \/ \E j \in Jobs : GetJob(j)
  BY <1>2 DEF CreateRunRaises, GetJob, TargetInv, Fresh
<1>3. ASSUME NEW k \in Cancellers, NEW j \in Jobs, CancelRequest(k, j)
      PROVE  TargetInv(m)'
  <2>1. ~Fresh(j)
    BY <1>3 DEF CancelRequest, Known, StageInv, JobInv
  <2> QED
      BY <1>3, <2>1 DEF CancelRequest, TargetInv, Fresh, TypeOK
<1>4. ASSUME NEW k \in Cancellers, Canceller(k) PROVE TargetInv(m)'
  BY <1>4 DEF Canceller, CancelSignal, CancelAwait, CancelSettle, TargetInv,
              Fresh, TypeOK
<1>5. ASSUME NEW j \in Jobs, Supervisor(j) \/ SupLine(j) \/ ProcessExit(j)
      PROVE  TargetInv(m)'
  BY <1>5 DEF Supervisor, SupBegin, SupLaunch, SupRegister, SupTerminate,
              SupExit, SupFinish, SupFail, SupLine, ProcessExit, TargetInv, Fresh
<1>6. CASE Restart \/ Terminated \/ UNCHANGED vars
  BY <1>6 DEF Restart, Terminated, vars, TargetInv, Fresh
<1> QED
    BY <1>1, <1>2, <1>3, <1>4, <1>5, <1>6 DEF Next, Request

(* The stages hold in every reachable state.                               *)
LEMMA StageHolds == Spec => []StageInv
<1>1. StageInv /\ [Next]_vars => StageInv'
  <2> SUFFICES ASSUME StageInv, [Next]_vars PROVE StageInv'
    OBVIOUS
  <2>1. TypeOK'
    BY TypeRequest, TypeCanceller, TypeSupervisor, TypeEnvironment
       DEF Next, StageInv
  <2>2. ASSUME NEW x \in Jobs PROVE JobInv(x)'
    BY StageRequest, StageCanceller, StageSupervisor, StageEnvironment DEF Next
  <2>3. ASSUME NEW m \in Cancellers PROVE TargetInv(m)'
    BY TargetStep
  <2> QED
      BY <2>1, <2>2, <2>3 DEF StageInv
<1> QED
    BY <1>1, StageInit, PTL DEF Spec

(* Whatever fails, is cancelled or is restarted, and in whatever order the *)
(* threads take the lock, a job is reported COMPLETED - in memory or in    *)
(* job.json - only if its process exited with code 0.                      *)
THEOREM SuccessIsReal == Spec => []CompletedMeansExitZero
<1>1. StageInv => CompletedMeansExitZero
  BY DEF StageInv, JobInv, CompletedMeansExitZero
<1> QED
    BY <1>1, StageHolds, PTL

-----------------------------------------------------------------------------
(* Exclusion of the runs nobody cancelled, when writes do not fail.        *)

Counted(j) == j \notin cancelled /\ j \notin orphans
ActiveCounted(j) == Counted(j) /\ status[j] \in ActiveStatuses

RunJob(j) ==
    /\ spc[j] = "fail" => proc[j] = "none"
    /\ Counted(j) =>
         /\ proc[j] = "running" => status[j] \in ActiveStatuses
         /\ spc[j] \in {"begin", "launch", "register"} => status[j] = "STARTING"

RunInv ==
    /\ StageInv
    /\ \A j \in Jobs : RunJob(j)
    /\ \A k \in Cancellers : cpc[k] # "idle" => target[k] \in cancelled
    /\ \A i, j \in Jobs : ActiveCounted(i) /\ ActiveCounted(j) => i = j

(* create_run leaves no job active but the one it creates.                 *)
LEMMA CreateIsExclusive ==
    ASSUME RunInv, NEW j \in Jobs, CreateRun(j), NEW x \in Jobs, x # j
    PROVE  status'[x] \notin ActiveStatuses /\ RunJob(x)'
<1> TypeOK /\ JobInv(x) /\ RunJob(x)
  BY DEF RunInv, StageInv
<1>1. /\ status'[x] = Refreshed(Known, {}, status)[x]
      /\ spc'[x] = spc[x]
      /\ UNCHANGED <<proc, orphans, cancelled>>
      /\ NoneActive(Len(jobs))
  BY DEF CreateRun, Refreshed, TypeOK
<1>2. ~StillActive(x)
  <2>1. CASE Fresh(x)
    BY <2>1 DEF JobInv, StillActive, ActiveStatuses
  <2>2. CASE ~Fresh(x)
    <3>1. jobs \in Seq(Jobs) /\ DOMAIN jobs = 1..Len(jobs)
      BY DEF TypeOK
    <3> QED
        BY <1>1, <2>2, <3>1
             DEF Fresh, NoneActive, FirstJobs, Known, StillActive, ActiveStatuses
  <2> QED
      BY <2>1, <2>2
<1>3. status'[x] \notin ActiveStatuses
  <2>1. CASE Expired(x)
    BY <1>1, <2>1 DEF Refreshed, Expired, ExitStatus, Known, ActiveStatuses
  <2>2. CASE ~Expired(x)
    BY <1>1, <1>2, <2>2 DEF Refreshed, StillActive
  <2> QED
      BY <2>1, <2>2
<1>4. status[x] \in ActiveStatuses => Exited(x) /\ x \in registered
  BY <1>2 DEF StillActive, Expired
<1> QED
    BY <1>1, <1>3, <1>4
         DEF RunJob, Counted, JobInv, Exited, ActiveStatuses

(* Every other step makes no job active, and keeps RunJob.                 *)
Quiet(x) == RunJob(x)' /\ (ActiveCounted(x)' => ActiveCounted(x))

(* Refreshing requests and cancel requests are quiet.                      *)
LEMMA QuietRequest ==
    ASSUME RunInv, NEW x \in Jobs,
           \/ CreateRunRaises
           \/ \E j \in Jobs : GetJob(j)
           \/ \E k \in Cancellers, j \in Jobs : CancelRequest(k, j)
           \/ \E k \in Cancellers : Canceller(k)
    PROVE  Quiet(x)
<1> TypeOK /\ JobInv(x) /\ RunJob(x)
  BY DEF RunInv, StageInv
<1>1. CASE CreateRunRaises
  BY <1>1 DEF CreateRunRaises, Refreshed, Expired, ExitStatus, Exited, Quiet,
              RunJob, ActiveCounted, Counted, ActiveStatuses, JobInv, TypeOK
<1>2. ASSUME NEW j \in Jobs, GetJob(j) PROVE Quiet(x)
  BY <1>2 DEF GetJob, SetStatus, Expired, ExitStatus, Exited, Quiet, RunJob,
              ActiveCounted, Counted, ActiveStatuses, JobInv, TypeOK
<1>3. ASSUME NEW k \in Cancellers, NEW j \in Jobs, CancelRequest(k, j)
      PROVE  Quiet(x)
  BY <1>3 DEF CancelRequest, SetStatus, Quiet, RunJob, ActiveCounted, Counted,
              ActiveStatuses, TypeOK
<1>4. ASSUME NEW k \in Cancellers, Canceller(k) PROVE Quiet(x)
  <2>1. CASE CancelSignal(k) \/ CancelAwait(k)
    BY <2>1 DEF CancelSignal, CancelAwait, Quiet, RunJob, ActiveCounted, Counted
  <2>2. CASE CancelSettle(k)
    <3>1. target[k] \in cancelled
      BY <2>2 DEF CancelSettle, RunInv
    <3> QED
        BY <2>2, <3>1 DEF CancelSettle, SetStatus, Quiet, RunJob,
                               ActiveCounted, Counted, ActiveStatuses, TypeOK
  <2> QED
      BY <1>4, <2>1, <2>2 DEF Canceller
<1> QED
    BY <1>1, <1>2, <1>3, <1>4

(* The supervisors are quiet: they start what was already active, and give *)
(* a job up only when its process exited or was never launched.            *)
LEMMA QuietSupervisor ==
    ASSUME RunInv, PersistMayFail = FALSE, NEW x \in Jobs, NEW j \in Jobs,
           Supervisor(j) \/ SupLine(j)
    PROVE  Quiet(x)
<1> TypeOK /\ JobInv(j) /\ JobInv(x) /\ RunJob(j) /\ RunJob(x)
  BY DEF RunInv, StageInv
<1> Saves = {TRUE}
  BY DEF Saves
<1>1. CASE SupBegin(j)
  BY <1>1 DEF SupBegin, SetStatus, Quiet, RunJob, ActiveCounted, Counted,
              ActiveStatuses, JobInv, TypeOK
<1>2. CASE SupLaunch(j)
  BY <1>2 DEF SupLaunch, Quiet, RunJob, ActiveCounted, Counted,
              ActiveStatuses, JobInv, TypeOK
<1>3. CASE SupRegister(j)
  BY <1>3 DEF SupRegister, SetStatus, CancelStatuses, Quiet, RunJob,
              ActiveCounted, Counted, ActiveStatuses, TypeOK
<1>4. CASE SupTerminate(j) \/ SupExit(j)
  BY <1>4 DEF SupTerminate, SupExit, Quiet, RunJob, ActiveCounted, Counted,
              ActiveStatuses, TypeOK
<1>5. CASE SupFinish(j)
  BY <1>5 DEF SupFinish, SetStatus, ExitStatus, Exited, Quiet, RunJob,
              ActiveCounted, Counted, ActiveStatuses, JobInv, TypeOK
<1>6. CASE SupFail(j)
  BY <1>6 DEF SupFail, SetStatus, Quiet, RunJob, ActiveCounted, Counted,
              ActiveStatuses, TypeOK
<1>7. CASE SupLine(j)
  BY <1>7 DEF SupLine, SetStatus, Quiet, RunJob, ActiveCounted, Counted,
              ActiveStatuses, TypeOK
<1> QED
    BY <1>1, <1>2, <1>3, <1>4, <1>5, <1>6, <1>7 DEF Supervisor

(* So are the exit of a process and a restart, which makes orphans of the  *)
(* running processes.                                                      *)
LEMMA QuietEnvironment ==
    ASSUME RunInv, NEW x \in Jobs,
           Restart \/ Terminated \/ UNCHANGED vars
              \/ \E j \in Jobs : ProcessExit(j)
    PROVE  Quiet(x)
<1> TypeOK /\ JobInv(x) /\ RunJob(x)
  BY DEF RunInv, StageInv
<1>1. CASE Restart
  BY <1>1 DEF Restart, Quiet, RunJob, ActiveCounted, Counted, ActiveStatuses,
              TypeOK
<1>2. CASE Terminated \/ UNCHANGED vars
  BY <1>2 DEF Terminated, vars, Quiet, RunJob, ActiveCounted, Counted
<1>3. ASSUME NEW j \in Jobs, ProcessExit(j) PROVE Quiet(x)
  BY <1>3 DEF ProcessExit, Quiet, RunJob, ActiveCounted, Counted, TypeOK
<1> QED
    BY <1>1, <1>2, <1>3

(* A cancel request in progress is about a job counted as cancelled.       *)
LEMMA TargetsAreCancelled ==
    ASSUME RunInv, [Next]_vars, NEW m \in Cancellers, cpc'[m] # "idle"
    PROVE  target'[m] \in cancelled'
<1> TypeOK
  BY DEF RunInv, StageInv
<1> cpc[m] # "idle" => target[m] \in cancelled
  BY DEF RunInv
<1>1. ASSUME NEW j \in Jobs,
             CreateRun(j) \/ CreateRunRaises \/ GetJob(j) \/ Supervisor(j)
                \/ SupLine(j) \/ ProcessExit(j)
      PROVE  UNCHANGED <<cpc, target, cancelled>>
  BY <1>1 DEF CreateRun, CreateRunRaises, GetJob, Supervisor, SupBegin,
              SupLaunch, SupRegister, SupTerminate, SupExit, SupFinish,
              SupFail, SupLine, ProcessExit
<1>2. ASSUME NEW k \in Cancellers, NEW j \in Jobs, CancelRequest(k, j)
      PROVE  target'[m] \in cancelled'
  BY <1>2 DEF CancelRequest, TypeOK
<1>3. ASSUME NEW k \in Cancellers, Canceller(k)
      PROVE  target'[m] \in cancelled'
  BY <1>3 DEF Canceller, CancelSignal, CancelAwait, CancelSettle, TypeOK
<1>4. CASE Restart \/ Terminated \/ UNCHANGED vars
  BY <1>4 DEF Restart, Terminated, vars
<1>5. CASE CreateRunRaises
  BY <1>5 DEF CreateRunRaises
<1> QED
    BY <1>1, <1>2, <1>3, <1>4, <1>5 DEF Next, Request

(* Every step keeps the invariant.                                         *)
LEMMA RunStep ==
    ASSUME RunInv, PersistMayFail = FALSE, [Next]_vars, StageInv' PROVE RunInv'
<1>1. CASE \E j \in Jobs : CreateRun(j)
  <2>1. PICK j \in Jobs : CreateRun(j)
    BY <1>1
  <2>2. \A x \in Jobs \ {j} : status'[x] \notin ActiveStatuses /\ RunJob(x)'
    BY <2>1, CreateIsExclusive
  <2>3. RunJob(j)'
    <3>1. Fresh(j)
      BY <2>1 DEF CreateRun, Fresh
    <3>2. proc[j] = "none"
      BY <3>1 DEF RunInv, StageInv, JobInv
    <3>3. proc' = proc /\ status'[j] = "STARTING"
      BY <2>1 DEF CreateRun, Refreshed
    <3> QED
        BY <3>2, <3>3 DEF RunJob
  <2>4. \A i, h \in Jobs : ActiveCounted(i)' /\ ActiveCounted(h)' => i = h
    BY <2>2 DEF ActiveCounted
  <2> QED
      BY <2>2, <2>3, <2>4, TargetsAreCancelled DEF RunInv
<1>2. CASE ~\E j \in Jobs : CreateRun(j)
  <2>1. ASSUME NEW x \in Jobs PROVE Quiet(x)
    BY <1>2, QuietRequest, QuietSupervisor, QuietEnvironment DEF Next, Request
  <2>2. \A i, h \in Jobs : ActiveCounted(i)' /\ ActiveCounted(h)' => i = h
    BY <2>1 DEF Quiet, RunInv
  <2> QED
      BY <2>1, <2>2, TargetsAreCancelled DEF RunInv, Quiet
<1> QED
    BY <1>1, <1>2

(* When job.json can be written, at most one of the jobs nobody cancelled, *)
(* and no restart orphaned, is active or has its process running, however  *)
(* many create, get and cancel requests race with the supervisors.         *)
THEOREM RunsAreExclusive ==
    PersistMayFail = FALSE => (Spec => []OneUncancelledRun)
<1> SUFFICES ASSUME PersistMayFail = FALSE PROVE Spec => []OneUncancelledRun
  OBVIOUS
<1>1. Init => RunInv
  BY StageInit DEF Init, RunInv, RunJob, ActiveCounted, ActiveStatuses
<1>2. RunInv /\ [Next]_vars /\ StageInv' => RunInv'
  BY RunStep
<1>3. RunInv => OneUncancelledRun
  BY DEF RunInv, RunJob, OneUncancelledRun, Occupying, ActiveCounted, Counted
<1> QED
    BY <1>1, <1>2, <1>3, StageHolds, PTL DEF Spec

-----------------------------------------------------------------------------
(* The outcome of a job, when writes do not fail.                          *)

Closed(j) ==
    /\ status[j] \in TerminalStatuses
    /\ j \notin registered
    /\ proc[j] = "running" => j \in orphans

(* Disk follows memory; a job without a supervisor, for a restart took it  *)
(* or it is done, is closed; before its process is known nobody but a      *)
(* cancel touches the status, and afterwards a verdict is that of the exit.*)
OutcomeJob(j) ==
    /\ disk[j] = status[j]
    /\ ~Fresh(j) => status[j] # "none"
    /\ ~Fresh(j) /\ spc[j] = "none" => Closed(j)
    /\ ~VenvMayBeMissing /\ spc[j] = "done" => Closed(j)
    /\ j \in orphans => ~Fresh(j) /\ spc[j] = "none"
    /\ spc[j] = "fail" => proc[j] = "none" /\ j \notin registered
    /\ spc[j] \in {"launch", "register", "fail"} =>
           status[j] \in {"STARTING", "CANCEL_REQUESTED", "CANCELLED"}
    /\ spc[j] \in {"drain", "terminate", "wait", "finish"}
       /\ status[j] \in {"COMPLETED", "FAILED"} => Exited(j) /\ status[j] = ExitStatus(j)

OutcomeInv == StageInv /\ \A j \in Jobs : OutcomeJob(j)

(* No job exists at first.                                                 *)
LEMMA OutcomeInit == Init => OutcomeInv
  BY StageInit DEF Init, OutcomeInv, OutcomeJob, Fresh

(* Requests of the API keep it: a refresh gives a job the verdict of its   *)
(* exit, and no request touches a job that is closed.                      *)
LEMMA OutcomeRequest ==
    ASSUME OutcomeInv, PersistMayFail = FALSE, Request, NEW x \in Jobs
    PROVE  OutcomeJob(x)'
<1> TypeOK /\ JobInv(x) /\ OutcomeJob(x)
  BY DEF OutcomeInv, StageInv
<1> Saves = {TRUE}
  BY DEF Saves
<1>1. ASSUME NEW j \in Jobs, CreateRun(j) PROVE OutcomeJob(x)'
  <2>1. CASE x = j
    <3>1. Fresh(x)
      BY <1>1, <2>1 DEF CreateRun, Fresh
    <3>2. /\ status'[x] = "STARTING" /\ disk'[x] = "STARTING" /\ spc'[x] = "begin"
          /\ orphans' = orphans
      BY <1>1, <2>1 DEF CreateRun, Refreshed, TypeOK
    <3> QED
        BY <3>1, <3>2 DEF OutcomeJob
  <2>2. CASE x # j
    <3>1. Fresh(x)' => Fresh(x)
      <4>1. jobs \in Seq(Jobs) /\ jobs' = Append(jobs, j)
        BY <1>1 DEF CreateRun, TypeOK
      <4> QED
          BY <4>1, AppendJob DEF Fresh
    <3>2. Fresh(x) => Fresh(x)'
      <4>1. jobs \in Seq(Jobs) /\ jobs' = Append(jobs, j)
        BY <1>1 DEF CreateRun, TypeOK
      <4>2. /\ \A i \in DOMAIN jobs' : i \in DOMAIN jobs \/ jobs'[i] = j
            /\ \A i \in DOMAIN jobs : jobs'[i] = jobs[i]
        BY <4>1
      <4> QED
          BY <2>2, <4>2 DEF Fresh
    <3>3. /\ status'[x] = Refreshed(Known, {}, status)[x]
          /\ disk'[x] = Refreshed(Known, {}, disk)[x]
          /\ spc'[x] = spc[x] /\ UNCHANGED <<proc, orphans>>
          /\ registered' \subseteq registered
      BY <1>1, <2>2 DEF CreateRun, Refreshed, TypeOK, Unexpired
    <3> QED
        BY <3>1, <3>2, <3>3 DEF OutcomeJob, Closed, JobInv, Refreshed, Expired,
                 ExitStatus, Exited, ActiveStatuses, TerminalStatuses
  <2> QED
      BY <2>1, <2>2
<1>2. ASSUME CreateRunRaises PROVE OutcomeJob(x)'
  <2>1. PICK n \in DOMAIN jobs :
          \E S : /\ disk' = Refreshed(S, {}, disk) /\ status' = Refreshed(S, {}, status)
                 /\ registered' = Unexpired(S)
    <3>1. PICK n \in DOMAIN jobs :
            /\ StillActive(jobs[n])
            /\ disk' = Refreshed(FirstJobs(n - 1), {}, disk)
            /\ status' = Refreshed(FirstJobs(n), {}, status)
            /\ registered' = Unexpired(FirstJobs(n))
            /\ jobs[n] \in Known
      BY <1>2 DEF CreateRunRaises
    <3>2. \A i \in DOMAIN jobs : i \in 1 .. Len(jobs)
      BY DEF TypeOK
    <3>3. n \in Nat /\ n >= 1
      BY <3>2 DEF TypeOK
    <3>4. FirstJobs(n) = FirstJobs(n - 1) \cup {jobs[n]}
      BY <3>1, <3>3 DEF FirstJobs
    <3>5. ~ Expired(jobs[n])
      BY <3>1 DEF StillActive
    <3>6. Refreshed(FirstJobs(n), {}, disk) = Refreshed(FirstJobs(n - 1), {}, disk)
      BY <3>4, <3>5 DEF Refreshed
    <3> QED
        BY <3>1, <3>6
  <2>2. PICK S : /\ disk' = Refreshed(S, {}, disk) /\ status' = Refreshed(S, {}, status)
                 /\ registered' = Unexpired(S)
    BY <2>1
  <2>3. UNCHANGED <<jobs, proc, spc, orphans>>
    BY <1>2 DEF CreateRunRaises
  <2> QED
      BY <2>2, <2>3 DEF OutcomeJob, Closed, JobInv, Fresh, Refreshed, Unexpired,
               Expired, ExitStatus, Exited, ActiveStatuses, TerminalStatuses
<1>3. ASSUME NEW j \in Jobs, GetJob(j) PROVE OutcomeJob(x)'
  BY <1>3 DEF GetJob, SetStatus, OutcomeJob, Closed, JobInv, Fresh, Expired, ExitStatus,
              Exited, ActiveStatuses, TerminalStatuses, TypeOK
<1>4. ASSUME NEW k \in Cancellers, NEW j \in Jobs, CancelRequest(k, j)
      PROVE  OutcomeJob(x)'
  <2>1. /\ status' = [status EXCEPT ![j] = "CANCEL_REQUESTED"]
        /\ disk' = [disk EXCEPT ![j] = "CANCEL_REQUESTED"]
        /\ UNCHANGED <<jobs, registered, proc, spc, orphans>>
        /\ status[j] # "none" /\ status[j] \notin TerminalStatuses
    BY <1>4 DEF CancelRequest, SetStatus, Known
  <2> QED
      BY <2>1 DEF OutcomeJob, Closed, JobInv, Fresh, Exited, ExitStatus,
               TerminalStatuses, TypeOK
<1> QED
    BY <1>1, <1>2, <1>3, <1>4 DEF Request

(* A cancel request settles a job as CANCELLED, which is an outcome.       *)
LEMMA OutcomeCanceller ==
    ASSUME OutcomeInv, PersistMayFail = FALSE, NEW k \in Cancellers, Canceller(k),
           NEW x \in Jobs
    PROVE  OutcomeJob(x)'
<1> TypeOK /\ JobInv(x) /\ OutcomeJob(x)
  BY DEF OutcomeInv, StageInv
<1>1. CASE CancelSignal(k) \/ CancelAwait(k)
  BY <1>1 DEF CancelSignal, CancelAwait, OutcomeJob, Closed, Fresh, Exited, ExitStatus
<1>2. CASE CancelSettle(k)
  <2>1. target[k] \in Jobs /\ ~ Fresh(target[k])
    BY <1>2 DEF CancelSettle, OutcomeInv, StageInv, TargetInv, TypeOK
  <2>2. UNCHANGED <<jobs, registered, proc, spc, orphans>>
    BY <1>2 DEF CancelSettle
  <2>3. CASE x = target[k]
    <3>1. OutcomeJob(target[k])
      BY <2>3
    <3>2. status'[x] = "CANCELLED" /\ disk'[x] = "CANCELLED"
      BY <1>2, <2>1, <2>3, <3>1 DEF CancelSettle, SetStatus, Saves, OutcomeJob, TypeOK
    <3> QED
        BY <2>2, <3>2 DEF OutcomeJob, Closed, Fresh, TerminalStatuses
  <2>4. CASE x # target[k]
    <3>1. status'[x] = status[x] /\ disk'[x] = disk[x]
      BY <1>2, <2>1, <2>4 DEF CancelSettle, SetStatus, TypeOK
    <3> QED
        BY <2>2, <3>1 DEF OutcomeJob, Closed, Fresh, Exited, ExitStatus
  <2> QED
      BY <2>3, <2>4
<1> QED
    BY <1>1, <1>2 DEF Canceller

(* The supervisor leaves a job only when it is closed.                     *)
LEMMA OutcomeSupervisor ==
    ASSUME OutcomeInv, PersistMayFail = FALSE, NEW j \in Jobs,
           Supervisor(j) \/ SupLine(j), NEW x \in Jobs
    PROVE  OutcomeJob(x)'
<1> TypeOK /\ JobInv(x) /\ OutcomeJob(x) /\ JobInv(j) /\ OutcomeJob(j)
  BY DEF OutcomeInv, StageInv
<1> Saves = {TRUE}
  BY DEF Saves
<1>0. spc[j] # "none" /\ ~ Fresh(j) /\ j \notin orphans
  BY DEF JobInv, OutcomeJob, Supervisor, SupBegin, SupLaunch, SupRegister, SupTerminate,
         SupExit, SupFinish, SupFail, SupLine
<1>1. CASE SupBegin(j)
  <2>1. PICK venv \in (IF VenvMayBeMissing THEN BOOLEAN ELSE {TRUE}) :
          /\ status' = [status EXCEPT ![j] = "STARTING"]
          /\ disk' = [disk EXCEPT ![j] = "STARTING"]
          /\ spc' = [spc EXCEPT ![j] = IF venv THEN "launch" ELSE "done"]
    BY <1>1 DEF SupBegin, SetStatus
  <2>2. ~ VenvMayBeMissing => venv
    OBVIOUS
  <2>3. \/ spc' = [spc EXCEPT ![j] = "launch"]
        \/ VenvMayBeMissing /\ spc' = [spc EXCEPT ![j] = "done"]
    <3>1. CASE venv
      BY <2>1, <3>1
    <3>2. CASE ~ venv
      BY <2>1, <2>2, <3>2
    <3> QED
        BY <3>1, <3>2
  <2>4. spc[j] = "begin" /\ UNCHANGED <<jobs, registered, proc, orphans>>
    BY <1>1 DEF SupBegin
  <2> QED
      BY <1>0, <2>1, <2>3, <2>4
           DEF JobInv, OutcomeJob, Closed, Fresh, Exited, ExitStatus, TypeOK
<1>2. CASE SupLaunch(j)
  BY <1>0, <1>2 DEF SupLaunch, JobInv, OutcomeJob, Closed, Fresh, Exited, ExitStatus, TypeOK
<1>3. CASE SupRegister(j)
  BY <1>0, <1>3 DEF SupRegister, SetStatus, CancelStatuses, JobInv, OutcomeJob, Closed,
                    Fresh, Exited, ExitStatus, TypeOK
<1>4. CASE SupTerminate(j) \/ SupExit(j)
  BY <1>0, <1>4 DEF SupTerminate, SupExit, JobInv, OutcomeJob, Closed, Fresh, Exited,
                    ExitStatus, TypeOK
<1>5. CASE SupFinish(j)
  BY <1>0, <1>5 DEF SupFinish, SetStatus, ExitStatus, JobInv, OutcomeJob, Closed, Fresh,
                    Exited, TerminalStatuses, TypeOK
<1>6. CASE SupFail(j)
  BY <1>0, <1>6 DEF SupFail, SetStatus, JobInv, OutcomeJob, Closed, Fresh, Exited,
                    ExitStatus, TerminalStatuses, TypeOK
<1>7. CASE SupLine(j)
  BY <1>0, <1>7 DEF SupLine, SetStatus, JobInv, OutcomeJob, Closed, Fresh, Exited,
                    ExitStatus, TypeOK
<1> QED
    BY <1>1, <1>2, <1>3, <1>4, <1>5, <1>6, <1>7 DEF Supervisor

(* A restart closes every job and makes orphans of the running processes.  *)
LEMMA OutcomeEnvironment ==
    ASSUME OutcomeInv, PersistMayFail = FALSE, NEW x \in Jobs,
           Restart \/ Terminated \/ UNCHANGED vars
              \/ \E j \in Jobs : ProcessExit(j)
    PROVE  OutcomeJob(x)'
<1> TypeOK /\ JobInv(x) /\ OutcomeJob(x)
  BY DEF OutcomeInv, StageInv
<1>1. CASE Restart
  <2>1. /\ disk'[x] = IF disk[x] \in ActiveStatuses THEN "FAILED" ELSE disk[x]
        /\ status'[x] = disk'[x] /\ spc'[x] = "none" /\ registered' = {}
        /\ orphans' = orphans \cup {j \in Jobs : proc[j] = "running"}
        /\ UNCHANGED <<jobs, proc>>
    BY <1>1 DEF Restart
  <2> QED
      BY <2>1 DEF OutcomeJob, Closed, JobInv, Fresh, ActiveStatuses,
               TerminalStatuses, Statuses, TypeOK
<1>2. CASE Terminated \/ UNCHANGED vars
  BY <1>2 DEF Terminated, vars, OutcomeJob, Closed, Fresh, Exited, ExitStatus
<1>3. ASSUME NEW j \in Jobs, ProcessExit(j) PROVE OutcomeJob(x)'
  BY <1>3 DEF ProcessExit, OutcomeJob, Closed, Fresh, Exited, ExitStatus, TypeOK
<1> QED
    BY <1>1, <1>2, <1>3

(* The outcomes hold in every reachable state.                             *)
LEMMA OutcomeHolds == PersistMayFail = FALSE => (Spec => []OutcomeInv)
<1> SUFFICES ASSUME PersistMayFail = FALSE PROVE Spec => []OutcomeInv
  OBVIOUS
<1>1. OutcomeInv /\ [Next]_vars /\ StageInv' => OutcomeInv'
  BY OutcomeRequest, OutcomeCanceller, OutcomeSupervisor, OutcomeEnvironment
     DEF OutcomeInv, Next
<1> QED
    BY <1>1, OutcomeInit, StageHolds, PTL DEF Spec

(* If job.json can be written and the interpreter is there, a job that its *)
(* supervisor and the requests have left is terminal, in memory as on disk,*)
(* and holds no process, in whatever order they noticed its exit.          *)
THEOREM IdleJobsAreSettled ==
    PersistMayFail = FALSE /\ VenvMayBeMissing = FALSE => (Spec => []SettledWhenIdle)
<1> SUFFICES ASSUME PersistMayFail = FALSE, VenvMayBeMissing = FALSE
             PROVE  Spec => []SettledWhenIdle
  OBVIOUS
<1>1. OutcomeInv => SettledWhenIdle
  BY DEF OutcomeInv, OutcomeJob, Closed, StageInv, JobInv, Known, Idle, SettledWhenIdle
<1> QED
    BY <1>1, OutcomeHolds, PTL

(* If job.json can be written, a run lost in a restart stays closed: it is *)
(* never shown as running and no thread of the new process works on it.    *)
THEOREM OrphansStayClosed == PersistMayFail = FALSE => (Spec => []OrphansAreClosed)
<1> SUFFICES ASSUME PersistMayFail = FALSE PROVE Spec => []OrphansAreClosed
  OBVIOUS
<1>1. OutcomeInv => OrphansAreClosed
  BY DEF OutcomeInv, OutcomeJob, Closed, StageInv, TypeOK, OrphansAreClosed
<1> QED
    BY <1>1, OutcomeHolds, PTL

(* If job.json can be written, an outcome that was reported changes only   *)
(* while a cancel request is in progress, or when the launch of a job that *)
(* was cancelled before fails.                                             *)
THEOREM OutcomesAreStable == PersistMayFail = FALSE => (Spec => OutcomeIsStable)
<1> SUFFICES ASSUME PersistMayFail = FALSE PROVE Spec => OutcomeIsStable
  OBVIOUS
<1> DEFINE Stable(j) ==
      /\ status[j] \in TerminalStatuses
      /\ status'[j] # status[j]
      /\ spc[j] # "begin"
      => \/ status'[j] = "CANCELLED" /\ \E k \in Cancellers : target[k] = j
         \/ status[j] = "CANCELLED" /\ spc[j] = "fail"
<1>1. ASSUME OutcomeInv, [Next]_vars, NEW x \in Jobs PROVE Stable(x)
  <2> TypeOK /\ JobInv(x) /\ OutcomeJob(x)
    BY <1>1 DEF OutcomeInv, StageInv
  <2> Saves = {TRUE}
    BY DEF Saves
  <2>1. ASSUME NEW j \in Jobs, CreateRun(j) PROVE Stable(x)
    <3>1. CASE x = j
      <4>1. status[x] = "none"
        BY <2>1, <3>1 DEF CreateRun, JobInv, Fresh
      <4> QED
          BY <4>1 DEF TerminalStatuses
    <3>2. CASE x # j
      <4>1. status'[x] = Refreshed(Known, {}, status)[x]
        BY <2>1, <3>2 DEF CreateRun, Refreshed
      <4> QED
          BY <4>1 DEF Refreshed, Expired, ActiveStatuses, TerminalStatuses
    <3> QED
        BY <3>1, <3>2
  <2>2. CASE CreateRunRaises
    <3>1. PICK n \in DOMAIN jobs : status' = Refreshed(FirstJobs(n), {}, status)
      BY <2>2 DEF CreateRunRaises
    <3> QED
        BY <3>1 DEF Refreshed, Expired, ActiveStatuses, TerminalStatuses
  <2>3. ASSUME NEW j \in Jobs, GetJob(j) PROVE Stable(x)
    BY <2>3 DEF GetJob, SetStatus, Expired, ActiveStatuses, TerminalStatuses, TypeOK
  <2>4. ASSUME NEW k \in Cancellers, NEW j \in Jobs, CancelRequest(k, j) PROVE Stable(x)
    BY <2>4 DEF CancelRequest, SetStatus, TypeOK
  <2>5. ASSUME NEW k \in Cancellers, Canceller(k) PROVE Stable(x)
    BY <2>5 DEF Canceller, CancelSignal, CancelAwait, CancelSettle, SetStatus, TypeOK
  <2>6. ASSUME NEW j \in Jobs, Supervisor(j) \/ SupLine(j) PROVE Stable(x)
    <3>1. CASE x # j
      BY <2>6, <3>1 DEF Supervisor, SupBegin, SupLaunch, SupRegister, SupTerminate, SupExit,
         SupFinish, SupFail, SupLine, SetStatus, TypeOK
    <3>2. CASE x = j
      <4>1. CASE SupRegister(j)
        BY <3>2, <4>1 DEF SupRegister, SetStatus, OutcomeJob, CancelStatuses,
           TerminalStatuses, TypeOK
      <4>2. CASE SupFinish(j)
        BY <3>2, <4>2 DEF SupFinish, SetStatus, OutcomeJob, CancelStatuses,
           TerminalStatuses, TypeOK
      <4>3. CASE SupFail(j)
        BY <3>2, <4>3 DEF SupFail, SetStatus, OutcomeJob, TerminalStatuses, TypeOK
      <4>4. CASE SupBegin(j) \/ SupLaunch(j) \/ SupTerminate(j) \/ SupExit(j) \/ SupLine(j)
        BY <3>2, <4>4 DEF SupBegin, SupLaunch, SupTerminate, SupExit, SupLine, SetStatus,
           TypeOK
      <4> QED
          BY <2>6, <4>1, <4>2, <4>3, <4>4 DEF Supervisor
    <3> QED
        BY <3>1, <3>2
  <2>7. CASE Restart
    BY <2>7 DEF Restart, OutcomeJob, ActiveStatuses, TerminalStatuses
  <2>8. CASE Terminated \/ UNCHANGED vars \/ \E j \in Jobs : ProcessExit(j)
    BY <2>8 DEF Terminated, vars, ProcessExit
  <2> HIDE DEF Stable
  <2> QED
      BY <1>1, <2>1, <2>2, <2>3, <2>4, <2>5, <2>6, <2>7, <2>8 DEF Next, Request
<1>2. OutcomeInv /\ [Next]_vars => [\A j \in Jobs : Stable(j)]_vars
  BY <1>1
<1> QED
    BY <1>2, OutcomeHolds, PTL DEF Spec, OutcomeIsStable

=============================================================================
