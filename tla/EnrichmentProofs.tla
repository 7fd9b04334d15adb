-------------------------- MODULE EnrichmentProofs --------------------------
(***************************************************************************)
(* Proofs about Enrichment, for any set of tracks and any sizes.           *)
(***************************************************************************)
EXTENDS Enrichment, DataFacts

-----------------------------------------------------------------------------
(* Type correctness                                                        *)

(* The initial state is well typed.                                        *)
LEMMA TypeInit == Init => TypeOK
  BY SizesAssumption DEF SizesAssumption, Init, TypeOK, Ended

(* The queues and the unfinished count: what every step needs to know of   *)
(* them to keep them well typed.  Each unfinished task is in the queue or  *)
(* in the worker's hands.                                                  *)
Busy == IF wpc \in {"classify", "taskDone"} THEN 1 ELSE 0
TasksCounted == unfinished = Len(jobs) + Busy

TypeInv == TypeOK /\ TasksCounted

LEMMA CountInit == Init => TypeInv
  BY TypeInit DEF Init, TypeInv, TasksCounted, Busy

(* Recording an answer keeps its types.                                    *)
LEMMA AnswerType ==
    ASSUME TypeOK, NEW t \in Tracks, Answer(t)
    PROVE  answers' \in [Tracks -> Nat] /\ stored' \subseteq Tracks
  BY DEF TypeOK, Answer

(* The result drained is that of a track.                                  *)
LEMMA TakeResultType ==
    ASSUME TypeOK, TakeResult
    PROVE  /\ Head(results).track \in Tracks
           /\ results' \in Seq([track : Tracks, ok : BOOLEAN])
           /\ pending' \subseteq Tracks /\ enqueued' \subseteq Tracks
<1>1. results \in Seq([track : Tracks, ok : BOOLEAN]) /\ results # <<>>
  BY DEF TypeOK, TakeResult
<1>2. Head(results) \in [track : Tracks, ok : BOOLEAN]
      /\ Tail(results) \in Seq([track : Tracks, ok : BOOLEAN])
  BY <1>1, TailFacts
<1>3. QED
  BY <1>2 DEF TypeOK, TakeResult, Unregister

(* Every step of the main thread keeps the types and the count.            *)
LEMMA TypeMain ==
    ASSUME TypeInv, MainStep
    PROVE  TypeInv'
<1> USE DEF TypeInv, TypeOK, TasksCounted, Busy, Ended, configVars, trackVars,
            mainVars, historyVars, workerVars
<1>1. ASSUME NEW batch \in SUBSET Tracks, BeginCall(batch)
      PROVE  TypeInv'
  <2>1. \A t \in Tracks : submissions[t] + (IF t \in batch THEN 1 ELSE 0) \in Nat
    OBVIOUS
  <2>2. submissions' = [t \in Tracks |-> submissions[t] + (IF t \in batch THEN 1 ELSE 0)]
    BY <1>1 DEF BeginCall
  <2>3. submissions' \in [Tracks -> Nat]
    BY <2>1, <2>2
  <2>4. QED
    BY <1>1, <2>3 DEF BeginCall
<1>2. ASSUME NEW t \in Tracks, EnrichNow(t)
      PROVE  TypeInv'
  <2>1. answers' \in [Tracks -> Nat] /\ stored' \subseteq Tracks
    BY <1>2, AnswerType DEF EnrichNow
  <2>2. QED
    BY <1>2, <2>1 DEF EnrichNow
<1>3. ASSUME NEW t \in Tracks, SkipKnown(t)
      PROVE  TypeInv'
  BY <1>3 DEF SkipKnown
<1>4. ASSUME NEW t \in Tracks, EnrichRaises(t)
      PROVE  TypeInv'
  <2>1. answers' \in [Tracks -> Nat] /\ stored' \subseteq Tracks
    BY <1>4, AnswerType DEF EnrichRaises
  <2>2. QED
    BY <1>4, <2>1 DEF EnrichRaises, Raise
<1>5. ASSUME NEW t \in Tracks, PrepareAnswers(t)
      PROVE  TypeInv'
  <2>1. answers' \in [Tracks -> Nat] /\ stored' \subseteq Tracks
    BY <1>5, AnswerType DEF PrepareAnswers
  <2>2. QED
    BY <1>5, <2>1 DEF PrepareAnswers
<1>6. ASSUME NEW t \in Tracks, PrepareJob(t)
      PROVE  TypeInv'
  BY <1>6 DEF PrepareJob
<1>7. CASE EnqueueJob
  <2>1. current \in Tracks \cup {Shutdown} /\ jobs \in Seq(Tracks \cup {Shutdown})
    BY <1>7 DEF EnqueueJob
  <2>2. jobs' \in Seq(Tracks \cup {Shutdown}) /\ Len(jobs') = Len(jobs) + 1
    BY <1>7, <2>1, AppendFacts DEF EnqueueJob
  <2>3. Len(jobs') <= QueueSize
    BY <1>7, <2>1, <2>2, SizesAssumption DEF EnqueueJob, SizesAssumption
  <2>4. QED
    BY <1>7, <2>1, <2>2, <2>3 DEF EnqueueJob
<1>8. CASE TracksDone
  BY <1>8 DEF TracksDone
<1>9. CASE FinishResult
  <2>1. /\ Head(results).track \in Tracks
        /\ results' \in Seq([track : Tracks, ok : BOOLEAN])
        /\ pending' \subseteq Tracks /\ enqueued' \subseteq Tracks
    BY <1>9, TakeResultType DEF FinishResult
  <2>2. answers' \in [Tracks -> Nat] /\ stored' \subseteq Tracks
    BY <1>9, <2>1, AnswerType DEF FinishResult
  <2>3. QED
    BY <1>9, <2>1, <2>2 DEF FinishResult, TakeResult
<1>10. CASE FinishRaises
  <2>1. /\ Head(results).track \in Tracks
        /\ results' \in Seq([track : Tracks, ok : BOOLEAN])
        /\ pending' \subseteq Tracks /\ enqueued' \subseteq Tracks
    BY <1>10, TakeResultType DEF FinishRaises
  <2>2. QED
    BY <1>10, <2>1 DEF FinishRaises, TakeResult, Raise
<1>11. CASE DrainDone
  BY <1>11 DEF DrainDone
<1>12. CASE FinishRun
  BY <1>12 DEF FinishRun
<1>13. CASE RunRaises
  BY <1>13 DEF RunRaises, Raise
<1>14. CASE Publish
  BY <1>14 DEF Publish
<1>15. CASE JoinQueue
  BY <1>15 DEF JoinQueue
<1>16. CASE SendShutdown
  <2>1. jobs \in Seq(Tracks \cup {Shutdown})
    OBVIOUS
  <2>2. jobs' \in Seq(Tracks \cup {Shutdown}) /\ Len(jobs') = Len(jobs) + 1
    BY <1>16, <2>1, AppendFacts DEF SendShutdown
  <2>3. Len(jobs') <= QueueSize
    BY <1>16, <2>1, <2>2, SizesAssumption DEF SendShutdown, SizesAssumption
  <2>4. QED
    BY <1>16, <2>1, <2>2, <2>3 DEF SendShutdown
<1>17. CASE AwaitWorker
  BY <1>17 DEF AwaitWorker
<1>18. QED
  BY <1>1, <1>2, <1>3, <1>4, <1>5, <1>6, <1>7, <1>8, <1>9, <1>10, <1>11, <1>12,
     <1>13, <1>14, <1>15, <1>16, <1>17 DEF MainStep

(* So does every step of the worker.                                       *)
LEMMA TypeWorker ==
    ASSUME TypeInv, WorkerStep
    PROVE  TypeInv'
<1> USE DEF TypeInv, TypeOK, TasksCounted, Busy, Ended, configVars, trackVars,
            mainVars, historyVars, workerVars
<1>1. CASE WorkerGet
  <2>1. /\ Head(jobs) \in Tracks \cup {Shutdown}
        /\ jobs' \in Seq(Tracks \cup {Shutdown})
        /\ Len(jobs') = Len(jobs) - 1 /\ Len(jobs) \in Nat /\ Len(jobs) >= 1
    BY <1>1, TailFacts DEF WorkerGet
  <2>2. Len(jobs') <= QueueSize
    BY <2>1, SizesAssumption DEF SizesAssumption
  <2>3. QED
    BY <1>1, <2>1, <2>2 DEF WorkerGet
<1>2. ASSUME NEW ok \in BOOLEAN, WorkerDeliver(ok)
      PROVE  TypeInv'
  <2>1. wjob \in Tracks /\ [track |-> wjob, ok |-> ok] \in [track : Tracks, ok : BOOLEAN]
    BY <1>2 DEF WorkerDeliver
  <2>2. results' \in Seq([track : Tracks, ok : BOOLEAN])
    BY <1>2, <2>1, AppendFacts DEF WorkerDeliver
  <2>3. QED
    BY <1>2, <2>1, <2>2 DEF WorkerDeliver
<1>3. CASE WorkerTaskDone
  <2>1. jobs \in Seq(Tracks \cup {Shutdown}) /\ Len(jobs) \in Nat
    OBVIOUS
  <2>2. QED
    BY <1>3, <2>1 DEF WorkerTaskDone
<1>4. QED
  BY <1>1, <1>2, <1>3 DEF WorkerStep

LEMMA TypeNext == TypeInv /\ [Next]_vars => TypeInv'
<1> SUFFICES ASSUME TypeInv, [Next]_vars PROVE TypeInv'
  OBVIOUS
<1>1. CASE UNCHANGED vars
  BY <1>1 DEF vars, configVars, trackVars, mainVars, historyVars, workerVars,
              TypeInv, TypeOK, TasksCounted, Busy
<1>2. CASE Next
  BY <1>1, <1>2, TypeMain, TypeWorker DEF Next, Terminated
<1>3. QED
  BY <1>1, <1>2

(* The state is well typed, and join() counts exactly the jobs that are    *)
(* queued or in the worker's hands.                                        *)
THEOREM TypeCorrect == Spec => [](TypeOK /\ TasksCounted)
<1>1. TypeInv => TypeOK /\ TasksCounted
  BY DEF TypeInv
<1>2. QED
  BY <1>1, CountInit, TypeNext, PTL DEF Spec

-----------------------------------------------------------------------------
(* The phases of the main thread                                           *)

(* The phases in which nothing is left for the worker but its end marker:  *)
(* join() has returned, and only enrich_completed_tracks adds jobs.        *)
Quiet == {"signal", "await", "finalDrain", "publish"} \cup Ended

SyncPhases == {"run", "tracks", "publish"} \cup Ended

PhaseInv ==
    /\ mpc \in {"run", "tracks", "put", "drain"} => ending = "no"
    /\ mpc \in {"publish", "completed"} => ending = "success"
    /\ ~async => /\ jobs = <<>> /\ results = <<>> /\ pending = {} /\ enqueued = {}
                 /\ wpc = "exit" /\ mpc \in SyncPhases
    /\ mpc = "signal" => jobs = <<>>
    /\ mpc \in Quiet => InQueue = {} /\ wpc \notin {"classify", "taskDone"}
    /\ mpc = "put" => current \notin enqueued \cup completedIds

LEMMA InQueueElements == InQueue = Elements(jobs) \ {Shutdown}
  BY DEF InQueue, Elements

LEMMA PhaseInit == Init => PhaseInv
  BY DEF Init, PhaseInv, Quiet, Ended, SyncPhases, InQueue

(* A step that touches no queue, no book of the main thread and no worker  *)
(* keeps the set of tracks that are queued.                                *)
LEMMA InQueueKept == jobs' = jobs => InQueue' = InQueue
  BY DEF InQueue

(* Without asynchronous colour nothing is ever queued.                     *)
LEMMA SyncQueueEmpty == PhaseInv /\ ~async => InQueue = {}
  BY DEF PhaseInv, InQueue

(* Every step of the main thread keeps its phases.                         *)
LEMMA PhaseMain ==
    ASSUME TypeInv, PhaseInv, MainStep
    PROVE  PhaseInv'
<1> USE DEF PhaseInv, Quiet, Ended, SyncPhases, configVars, trackVars, mainVars,
            historyVars, workerVars
<1>1. ASSUME NEW batch \in SUBSET Tracks, BeginCall(batch)
      PROVE  PhaseInv'
  BY <1>1, InQueueKept DEF BeginCall
<1>2. ASSUME NEW t \in Tracks, EnrichNow(t)
      PROVE  PhaseInv'
  BY <1>2, InQueueKept DEF EnrichNow
<1>3. ASSUME NEW t \in Tracks, SkipKnown(t)
      PROVE  PhaseInv'
  BY <1>3, InQueueKept DEF SkipKnown
<1>4. ASSUME NEW t \in Tracks, EnrichRaises(t)
      PROVE  PhaseInv'
  BY <1>4, InQueueKept, SyncQueueEmpty DEF EnrichRaises, Raise
<1>5. ASSUME NEW t \in Tracks, PrepareAnswers(t)
      PROVE  PhaseInv'
  BY <1>5, InQueueKept DEF PrepareAnswers
<1>6. ASSUME NEW t \in Tracks, PrepareJob(t)
      PROVE  PhaseInv'
  BY <1>6, InQueueKept DEF PrepareJob, Known
<1>7. CASE EnqueueJob
  BY <1>7 DEF EnqueueJob
<1>8. CASE TracksDone
  BY <1>8, InQueueKept DEF TracksDone
<1>9. CASE FinishResult
  BY <1>9, InQueueKept DEF FinishResult, TakeResult
<1>10. CASE FinishRaises
  BY <1>10, InQueueKept DEF FinishRaises, TakeResult, Raise
<1>11. CASE DrainDone
  <2>1. InQueue' = InQueue
    BY <1>11, InQueueKept DEF DrainDone
  <2>2. CASE mpc = "drain"
    BY <1>11, <2>1, <2>2 DEF DrainDone
  <2>3. CASE mpc = "finalDrain"
    BY <1>11, <2>1, <2>3 DEF DrainDone
  <2>4. QED
    BY <1>11, <2>2, <2>3 DEF DrainDone
<1>12. CASE FinishRun
  BY <1>12, InQueueKept DEF FinishRun, InQueue
<1>13. CASE RunRaises
  BY <1>13, InQueueKept, SyncQueueEmpty DEF RunRaises, Raise
<1>14. CASE Publish
  BY <1>14, InQueueKept DEF Publish
<1>15. CASE JoinQueue
  <2>1. jobs \in Seq(Tracks \cup {Shutdown}) /\ Len(jobs) \in Nat
    BY DEF TypeInv, TypeOK
  <2>2. Len(jobs) = 0 /\ wpc \notin {"classify", "taskDone"}
    BY <1>15, <2>1 DEF JoinQueue, TypeInv, TasksCounted, Busy
  <2>3. jobs = <<>> /\ InQueue = {}
    BY <2>1, <2>2 DEF InQueue
  <2>4. QED
    BY <1>15, <2>2, <2>3, InQueueKept DEF JoinQueue
<1>16. CASE SendShutdown
  <2>1. /\ jobs \in Seq(Tracks \cup {Shutdown})
        /\ Shutdown \in Tracks \cup {Shutdown}
        /\ jobs' = Append(jobs, Shutdown)
    BY <1>16 DEF SendShutdown, TypeInv, TypeOK
  <2>2. Elements(jobs') = Elements(jobs) \cup {Shutdown}
    BY <2>1, AppendElements
  <2>3. Elements(jobs) = {}
    BY <1>16 DEF SendShutdown, Elements
  <2>4. InQueue' = {}
    BY <2>2, <2>3 DEF InQueue, Elements
  <2>5. QED
    BY <1>16, <2>4 DEF SendShutdown
<1>17. CASE AwaitWorker
  BY <1>17, InQueueKept DEF AwaitWorker
<1>18. QED
  BY <1>1, <1>2, <1>3, <1>4, <1>5, <1>6, <1>7, <1>8, <1>9, <1>10, <1>11, <1>12,
     <1>13, <1>14, <1>15, <1>16, <1>17 DEF MainStep

(* In a quiet phase the worker finds nothing but its end marker.           *)
LEMMA PhaseWorker ==
    ASSUME TypeInv, PhaseInv, WorkerStep
    PROVE  PhaseInv'
<1> USE DEF PhaseInv, Quiet, Ended, SyncPhases, configVars, trackVars, mainVars,
            historyVars, workerVars
<1>1. CASE WorkerGet
  <2>1. /\ jobs # <<>> /\ jobs' = Tail(jobs)
        /\ Head(jobs) = jobs[1]
        /\ Len(jobs) \in Nat /\ Len(jobs) >= 1
        /\ Len(Tail(jobs)) = Len(jobs) - 1
        /\ \A i \in 1 .. Len(jobs) - 1 : Tail(jobs)[i] = jobs[i + 1]
    BY <1>1, TailFacts DEF WorkerGet, TypeInv, TypeOK
  <2>2. InQueue' \subseteq InQueue
    BY <2>1 DEF InQueue
  <2>3. Head(jobs) # Shutdown => Head(jobs) \in InQueue
    BY <2>1 DEF InQueue
  <2>4. mpc # "signal" /\ async
    BY <1>1, <2>1 DEF WorkerGet
  <2>5. QED
    BY <1>1, <2>1, <2>2, <2>3, <2>4 DEF WorkerGet
<1>2. ASSUME NEW ok \in BOOLEAN, WorkerDeliver(ok)
      PROVE  PhaseInv'
  BY <1>2, InQueueKept DEF WorkerDeliver
<1>3. CASE WorkerTaskDone
  BY <1>3, InQueueKept DEF WorkerTaskDone
<1>4. QED
  BY <1>1, <1>2, <1>3 DEF WorkerStep

LEMMA PhaseNext == TypeInv /\ PhaseInv /\ [Next]_vars => PhaseInv'
<1> SUFFICES ASSUME TypeInv, PhaseInv, [Next]_vars PROVE PhaseInv'
  OBVIOUS
<1>1. CASE UNCHANGED vars
  BY <1>1, InQueueKept DEF vars, configVars, trackVars, mainVars, historyVars,
     workerVars, PhaseInv
<1>2. CASE Next
  BY <1>1, <1>2, PhaseMain, PhaseWorker DEF Next, Terminated
<1>3. QED
  BY <1>1, <1>2

(* However the run ends, it leaves no classification behind, waiting or    *)
(* under way.                                                              *)
THEOREM WorkerIsIdleAtEnd == Spec => []WorkerIdleAtEnd
<1>1. PhaseInv => WorkerIdleAtEnd
  BY DEF PhaseInv, WorkerIdleAtEnd, Quiet
<1>2. QED
  BY <1>1, CountInit, TypeNext, PhaseInit, PhaseNext, PTL DEF Spec

-----------------------------------------------------------------------------
(* The books of the main thread                                            *)

ResultTracks(q) == {q[i].track : i \in 1 .. Len(q)}
ResultsDiffer(q) == \A i, j \in 1 .. Len(q) : q[i].track = q[j].track => i = j

(* Appending a result adds its track; it repeats none that was not there.  *)
LEMMA AppendResult ==
    ASSUME NEW S, NEW q \in Seq(S), NEW e \in S
    PROVE  /\ ResultTracks(Append(q, e)) = ResultTracks(q) \cup {e.track}
           /\ ResultsDiffer(q) /\ e.track \notin ResultTracks(q)
                => ResultsDiffer(Append(q, e))
<1> DEFINE r == Append(q, e)
<1>1. /\ Len(q) \in Nat
      /\ Len(r) = Len(q) + 1
      /\ \A i \in 1 .. Len(q) : r[i] = q[i]
      /\ r[Len(q) + 1] = e
  BY AppendFacts
<1> HIDE DEF r
<1>2. ResultTracks(r) = ResultTracks(q) \cup {e.track}
  <2>1. \A x \in ResultTracks(r) : x \in ResultTracks(q) \cup {e.track}
    BY <1>1 DEF ResultTracks
  <2>2. \A x \in ResultTracks(q) : x \in ResultTracks(r)
    BY <1>1 DEF ResultTracks
  <2>3. e.track \in ResultTracks(r)
    BY <1>1 DEF ResultTracks
  <2>4. QED
    BY <2>1, <2>2, <2>3
<1>3. ASSUME ResultsDiffer(q), e.track \notin ResultTracks(q),
             NEW i \in 1 .. Len(r), NEW j \in 1 .. Len(r), r[i].track = r[j].track
      PROVE  i = j
  BY <1>1, <1>3 DEF ResultTracks, ResultsDiffer
<1>4. QED
  BY <1>2, <1>3 DEF r, ResultsDiffer

(* Taking the first result removes just its track.                         *)
LEMMA TailResult ==
    ASSUME NEW S, NEW q \in Seq(S), q # <<>>, ResultsDiffer(q)
    PROVE  /\ ResultTracks(Tail(q)) = ResultTracks(q) \ {Head(q).track}
           /\ Head(q).track \in ResultTracks(q)
           /\ ResultsDiffer(Tail(q))
<1> DEFINE r == Tail(q)
<1>1. /\ Len(q) \in Nat /\ Len(q) >= 1
      /\ Len(r) = Len(q) - 1
      /\ Head(q) = q[1]
      /\ \A i \in 1 .. Len(q) - 1 : r[i] = q[i + 1]
  BY TailFacts
<1> HIDE DEF r
<1>2. \A x \in ResultTracks(r) : x \in ResultTracks(q) \ {Head(q).track}
  BY <1>1 DEF ResultTracks, ResultsDiffer
<1>3. ASSUME NEW x \in ResultTracks(q), x # Head(q).track
      PROVE  x \in ResultTracks(r)
  <2>1. PICK i \in 1 .. Len(q) : x = q[i].track
    BY DEF ResultTracks
  <2>2. i # 1 /\ i - 1 \in 1 .. Len(r) /\ r[i - 1] = q[i]
    BY <1>1, <1>3, <2>1
  <2>3. QED
    BY <2>1, <2>2 DEF ResultTracks
<1>4. ResultsDiffer(r)
  BY <1>1 DEF ResultsDiffer
<1>5. ResultTracks(r) = ResultTracks(q) \ {Head(q).track}
  BY <1>2, <1>3
<1>6. Head(q).track \in ResultTracks(q)
  BY <1>1 DEF ResultTracks
<1>7. QED
  BY <1>4, <1>5, <1>6 DEF r

(* JobsMatchPending in the terms of these facts.                           *)
Books ==
    /\ pending = InQueue \cup AtWorker \cup InResults
    /\ enqueued = pending
    /\ InQueue \cap AtWorker = {}
    /\ (InQueue \cup AtWorker) \cap InResults = {}
    /\ NoRepeats(jobs)
    /\ ResultsDiffer(results)

LEMMA BooksMatch == Books <=> JobsMatchPending
  BY DEF Books, JobsMatchPending, NoRepeats, ResultsDiffer

LEMMA InResultsTracks == InResults = ResultTracks(results)
  BY DEF InResults, ResultTracks

LEMMA BooksInit == Init => Books
  BY DEF Init, Books, InQueue, AtWorker, InResults, NoRepeats, ResultsDiffer

(* A step that leaves the queues, the worker and the books alone keeps     *)
(* their agreement.                                                        *)
LEMMA BooksKept ==
    ASSUME Books, UNCHANGED <<jobs, results, wpc, wjob, pending, enqueued>>
    PROVE  Books'
<1>1. InQueue' = InQueue /\ AtWorker' = AtWorker /\ InResults' = InResults
  BY DEF InQueue, AtWorker, InResults
<1>2. NoRepeats(jobs)' /\ ResultsDiffer(results)'
  BY DEF Books, NoRepeats, ResultsDiffer
<1>3. QED
  BY <1>1, <1>2 DEF Books

(* Draining a result takes its track off the books and out of the queue.   *)
LEMMA BooksTake ==
    ASSUME TypeInv, Books, TakeResult
    PROVE  Books' /\ Head(results).track \in pending
<1>1. results \in Seq([track : Tracks, ok : BOOLEAN]) /\ results # <<>>
  BY DEF TypeInv, TypeOK, TakeResult
<1>2. /\ ResultTracks(results') = ResultTracks(results) \ {Head(results).track}
      /\ Head(results).track \in ResultTracks(results)
      /\ ResultsDiffer(results')
  BY <1>1, TailResult DEF TakeResult, Books
<1>3. InResults' = InResults \ {Head(results).track} /\ Head(results).track \in InResults
  BY <1>2 DEF InResults, ResultTracks
<1>4. InQueue' = InQueue /\ AtWorker' = AtWorker /\ NoRepeats(jobs)'
  BY DEF TakeResult, InQueue, AtWorker, workerVars, Books, NoRepeats
<1>5. QED
  BY <1>2, <1>3, <1>4 DEF Books, TakeResult, Unregister

(* Every step of the main thread keeps the books right.                    *)
LEMMA BooksMain ==
    ASSUME TypeInv, PhaseInv, Books, MainStep
    PROVE  Books'
<1> USE DEF configVars, trackVars, mainVars, historyVars, workerVars
<1>1. ASSUME NEW batch \in SUBSET Tracks, BeginCall(batch)
      PROVE  Books'
  BY <1>1, BooksKept DEF BeginCall
<1>2. ASSUME NEW t \in Tracks,
             EnrichNow(t) \/ SkipKnown(t) \/ EnrichRaises(t) \/ PrepareAnswers(t)
                \/ PrepareJob(t)
      PROVE  Books'
  BY <1>2, BooksKept DEF EnrichNow, SkipKnown, EnrichRaises, PrepareAnswers, PrepareJob
<1>3. CASE EnqueueJob
  <2>1. /\ jobs \in Seq(Tracks \cup {Shutdown})
        /\ current \in Tracks
        /\ current # Shutdown
        /\ jobs' = Append(jobs, current)
        /\ current \notin enqueued
    BY <1>3, MarkersAssumption
    DEF EnqueueJob, TypeInv, TypeOK, PhaseInv, MarkersAssumption
  <2>2. current \notin Elements(jobs)
    BY <2>1, InQueueElements DEF Books
  <2>3. Elements(jobs') = Elements(jobs) \cup {current} /\ NoRepeats(jobs')
    BY <2>1, <2>2, AppendElements DEF Books
  <2>4. InQueue' = InQueue \cup {current}
    BY <2>1, <2>3 DEF InQueue, Elements
  <2>5. AtWorker' = AtWorker /\ InResults' = InResults /\ ResultsDiffer(results)'
    BY <1>3 DEF EnqueueJob, AtWorker, InResults, ResultsDiffer, Books
  <2>6. NoRepeats(jobs)'
    BY <2>3
  <2>7. QED
    BY <1>3, <2>1, <2>4, <2>5, <2>6 DEF Books, EnqueueJob
<1>4. CASE FinishResult
  BY <1>4, BooksTake DEF FinishResult
<1>5. CASE FinishRaises
  BY <1>5, BooksTake DEF FinishRaises
<1>6. CASE SendShutdown
  <2>1. /\ jobs \in Seq(Tracks \cup {Shutdown})
        /\ Shutdown \in Tracks \cup {Shutdown}
        /\ jobs' = Append(jobs, Shutdown)
    BY <1>6 DEF SendShutdown, TypeInv, TypeOK, PhaseInv
  <2>2. Elements(jobs) = {} /\ NoRepeats(jobs)
    BY <1>6 DEF SendShutdown, PhaseInv, Elements, NoRepeats
  <2>3. Elements(jobs') = {Shutdown} /\ NoRepeats(jobs')
    <3>1. Elements(jobs') = Elements(jobs) \cup {Shutdown}
      BY <2>1, AppendElements
    <3>2. Shutdown \notin Elements(jobs) /\ NoRepeats(jobs) => NoRepeats(jobs')
      BY <2>1, AppendElements
    <3>3. QED
      BY <2>2, <3>1, <3>2
  <2>4. InQueue' = {} /\ InQueue = {}
    BY <2>2, <2>3 DEF InQueue, Elements
  <2>5. AtWorker' = AtWorker /\ InResults' = InResults /\ ResultsDiffer(results)'
    BY <1>6 DEF SendShutdown, AtWorker, InResults, ResultsDiffer, Books
  <2>6. NoRepeats(jobs)'
    BY <2>3
  <2>7. QED
    BY <1>6, <2>4, <2>5, <2>6 DEF Books, SendShutdown
<1>7. CASE TracksDone \/ DrainDone \/ FinishRun \/ RunRaises \/ Publish
             \/ JoinQueue \/ AwaitWorker
  BY <1>7, BooksKept
  DEF TracksDone, DrainDone, FinishRun, RunRaises, Publish, JoinQueue, AwaitWorker
<1>8. QED
  BY <1>1, <1>2, <1>3, <1>4, <1>5, <1>6, <1>7 DEF MainStep

(* The worker's result adds the track in its hands to those to be drained. *)
LEMMA ResultDelivered ==
    ASSUME TypeInv, Books, NEW ok \in BOOLEAN, WorkerDeliver(ok)
    PROVE  /\ AtWorker = {wjob} /\ AtWorker' = {}
           /\ InResults' = InResults \cup {wjob}
           /\ ResultsDiffer(results)'
<1> DEFINE e == [track |-> wjob, ok |-> ok]
<1>1. /\ results \in Seq([track : Tracks, ok : BOOLEAN])
      /\ e \in [track : Tracks, ok : BOOLEAN]
      /\ results' = Append(results, e)
  BY DEF WorkerDeliver, TypeInv, TypeOK
<1>2. AtWorker = {wjob} /\ AtWorker' = {}
  BY DEF WorkerDeliver, AtWorker
<1>3. e.track = wjob /\ wjob \notin ResultTracks(results)
  BY <1>2, InResultsTracks DEF Books
<1> HIDE DEF e
<1>4. ResultTracks(results') = ResultTracks(results) \cup {wjob} /\ ResultsDiffer(results')
  <2>1. ResultsDiffer(results)
    BY DEF Books
  <2>2. /\ ResultTracks(Append(results, e)) = ResultTracks(results) \cup {e.track}
        /\ ResultsDiffer(Append(results, e))
    BY <1>1, <1>3, <2>1, AppendResult
  <2>3. QED
    BY <1>1, <1>3, <2>2
<1>5. InResults' = InResults \cup {wjob} /\ ResultsDiffer(results)'
  BY <1>4 DEF InResults, ResultTracks
<1>6. QED
  BY <1>2, <1>5

(* The worker moves a track from the queue to its hands and on to the      *)
(* results, and never changes which tracks there are.                      *)
LEMMA BooksWorker ==
    ASSUME TypeInv, Books, WorkerStep
    PROVE  Books'
<1> USE DEF configVars, trackVars, mainVars, historyVars, workerVars
<1>1. CASE WorkerGet
  <2>1. jobs \in Seq(Tracks \cup {Shutdown}) /\ jobs # <<>> /\ jobs' = Tail(jobs)
    BY <1>1 DEF WorkerGet, TypeInv, TypeOK
  <2>2. /\ Elements(jobs') = Elements(jobs) \ {Head(jobs)}
        /\ Head(jobs) \in Elements(jobs)
        /\ NoRepeats(jobs')
    BY <2>1, TailElements DEF Books
  <2>3. InQueue' = InQueue \ {Head(jobs)} /\ NoRepeats(jobs)'
    BY <2>2 DEF InQueue, Elements
  <2>4. Head(jobs) # Shutdown => Head(jobs) \in InQueue
    BY <2>2, InQueueElements
  <2>5. AtWorker = {} /\ AtWorker' = IF Head(jobs) = Shutdown THEN {} ELSE {Head(jobs)}
    BY <1>1 DEF WorkerGet, AtWorker
  <2>6. InResults' = InResults /\ ResultsDiffer(results)'
    BY <1>1 DEF WorkerGet, InResults, ResultsDiffer, Books
  <2>7. Shutdown \notin InQueue
    BY DEF InQueue
  <2>8. pending' = pending /\ enqueued' = enqueued
    BY <1>1 DEF WorkerGet
  <2>9. QED
    BY <2>3, <2>4, <2>5, <2>6, <2>7, <2>8 DEF Books
<1>2. ASSUME NEW ok \in BOOLEAN, WorkerDeliver(ok)
      PROVE  Books'
  <2>1. InQueue' = InQueue /\ NoRepeats(jobs)'
    BY <1>2 DEF WorkerDeliver, InQueue, NoRepeats, Books
  <2>2. pending' = pending /\ enqueued' = enqueued
    BY <1>2 DEF WorkerDeliver
  <2>3. QED
    BY <1>2, <2>1, <2>2, ResultDelivered DEF Books
<1>3. CASE WorkerTaskDone
  <2>1. AtWorker = {} /\ AtWorker' = {}
    BY <1>3 DEF WorkerTaskDone, AtWorker
  <2>2. InQueue' = InQueue /\ InResults' = InResults /\ NoRepeats(jobs)' /\ ResultsDiffer(results)'
    BY <1>3 DEF WorkerTaskDone, InQueue, InResults, NoRepeats, ResultsDiffer, Books
  <2>3. QED
    BY <1>3, <2>1, <2>2 DEF WorkerTaskDone, Books
<1>4. QED
  BY <1>1, <1>2, <1>3 DEF WorkerStep

LEMMA BooksNext == TypeInv /\ PhaseInv /\ Books /\ [Next]_vars => Books'
<1> SUFFICES ASSUME TypeInv, PhaseInv, Books, [Next]_vars PROVE Books'
  OBVIOUS
<1>1. CASE UNCHANGED vars
  BY <1>1, BooksKept DEF vars, trackVars, workerVars
<1>2. CASE Next
  BY <1>1, <1>2, BooksMain, BooksWorker DEF Next, Terminated
<1>3. QED
  BY <1>1, <1>2

(* The tracks on the main thread's books are exactly those with a job in   *)
(* the queue, in the worker's hands or with a result to be drained, each   *)
(* of them in one place.                                                   *)
THEOREM BooksAreRight == Spec => []JobsMatchPending
  BY BooksMatch, CountInit, TypeNext, PhaseInit, PhaseNext, BooksInit, BooksNext,
     PTL DEF Spec

-----------------------------------------------------------------------------
(* No track is classified twice                                            *)

(* A track with a job, or about to get one, has not been classified; one   *)
(* that has been is waiting to be drained or remembered as completed, as   *)
(* long as the run goes on.                                                *)
Unclassified ==
    InQueue \cup AtWorker \cup (IF mpc = "put" THEN {current} ELSE {})

OnceInv ==
    /\ \A t \in Tracks : classified[t] <= 1
    /\ \A t \in Tracks : t \in Unclassified => classified[t] = 0
    /\ ending # "failure" =>
          \A t \in Tracks : classified[t] = 1 => t \in InResults \cup completedIds

LEMMA OnceInit == Init => OnceInv
  BY DEF Init, OnceInv, Unclassified, InQueue, AtWorker

(* The steps that touch neither what is waiting nor what was classified.   *)
LEMMA OnceKept ==
    ASSUME OnceInv, UNCHANGED <<jobs, results, wpc, wjob, classified>>,
           completedIds \subseteq completedIds',
           mpc' = "put" => mpc = "put" /\ current' = current,
           ending' # "failure" => ending # "failure"
    PROVE  OnceInv'
<1>1. InQueue' = InQueue /\ AtWorker' = AtWorker /\ InResults' = InResults
  BY DEF InQueue, AtWorker, InResults
<1>2. Unclassified' \subseteq Unclassified
  BY <1>1 DEF Unclassified
<1>3. QED
  BY <1>1, <1>2 DEF OnceInv

LEMMA OnceMain ==
    ASSUME TypeInv, PhaseInv, Books, OnceInv, MainStep
    PROVE  OnceInv'
<1> USE DEF configVars, trackVars, mainVars, historyVars, workerVars
<1>1. ASSUME NEW batch \in SUBSET Tracks, BeginCall(batch)
      PROVE  OnceInv'
  BY <1>1, OnceKept DEF BeginCall
<1>2. ASSUME NEW t \in Tracks,
             EnrichNow(t) \/ SkipKnown(t) \/ EnrichRaises(t) \/ PrepareAnswers(t)
      PROVE  OnceInv'
  <2>1. /\ UNCHANGED <<jobs, results, wpc, wjob, classified>>
        /\ completedIds \subseteq completedIds'
        /\ mpc' # "put"
        /\ ending' # "failure" => ending # "failure"
    BY <1>2 DEF EnrichNow, SkipKnown, EnrichRaises, Raise, PrepareAnswers
  <2>2. QED
    BY <2>1, OnceKept
<1>3. ASSUME NEW t \in Tracks, PrepareJob(t)
      PROVE  OnceInv'
  <2>1. InQueue' = InQueue /\ AtWorker' = AtWorker /\ InResults' = InResults
    BY <1>3 DEF PrepareJob, InQueue, AtWorker, InResults
  <2>2. Unclassified' \subseteq Unclassified \cup {t}
    BY <1>3, <2>1 DEF PrepareJob, Unclassified
  <2>3. ending # "failure" /\ t \notin InResults \cup completedIds
    BY <1>3 DEF PrepareJob, PhaseInv, Known, Books
  <2>4. classified[t] = 0
    BY <2>3 DEF OnceInv, TypeInv, TypeOK
  <2>5. QED
    BY <1>3, <2>1, <2>2, <2>4 DEF OnceInv, PrepareJob
<1>4. CASE EnqueueJob
  <2>1. /\ jobs \in Seq(Tracks \cup {Shutdown})
        /\ current \in Tracks \cup {Shutdown}
        /\ jobs' = Append(jobs, current)
    BY <1>4 DEF EnqueueJob, TypeInv, TypeOK
  <2>2. Elements(jobs') = Elements(jobs) \cup {current}
    BY <2>1, AppendElements
  <2>3. InQueue' \subseteq InQueue \cup {current}
    BY <2>2 DEF InQueue, Elements
  <2>4. AtWorker' = AtWorker /\ InResults' = InResults
    BY <1>4 DEF EnqueueJob, AtWorker, InResults
  <2>5. Unclassified' \subseteq Unclassified
    BY <1>4, <2>3, <2>4 DEF EnqueueJob, Unclassified
  <2>6. QED
    BY <1>4, <2>4, <2>5 DEF OnceInv, EnqueueJob
<1>5. CASE FinishResult
  <2> DEFINE t == Head(results).track
  <2>1. /\ results \in Seq([track : Tracks, ok : BOOLEAN]) /\ results # <<>>
        /\ ResultsDiffer(results)
    BY <1>5 DEF FinishResult, TakeResult, TypeInv, TypeOK, Books
  <2>2. ResultTracks(Tail(results)) = ResultTracks(results) \ {t}
    BY <2>1, TailResult
  <2>3. InResults' = InResults \ {t} /\ completedIds' = completedIds \cup {t}
    BY <1>5, <2>2 DEF FinishResult, TakeResult, InResults, ResultTracks
  <2>4. InQueue' = InQueue /\ AtWorker' = AtWorker
    BY <1>5 DEF FinishResult, TakeResult, InQueue, AtWorker
  <2>5. Unclassified' = Unclassified
    BY <1>5, <2>4 DEF FinishResult, Unclassified
  <2> HIDE DEF t
  <2>6. InResults' \cup completedIds' = InResults \cup completedIds \cup {t}
    BY <2>3
  <2>7. QED
    BY <1>5, <2>5, <2>6 DEF OnceInv, FinishResult, TakeResult
<1>6. CASE FinishRaises
  <2>1. InQueue' = InQueue /\ AtWorker' = AtWorker
    BY <1>6 DEF FinishRaises, TakeResult, InQueue, AtWorker
  <2>2. ending' = "failure" /\ mpc' # "put" /\ classified' = classified
    BY <1>6 DEF FinishRaises, TakeResult, Raise
  <2>3. Unclassified' \subseteq Unclassified
    BY <2>1, <2>2 DEF Unclassified
  <2>4. QED
    BY <2>2, <2>3 DEF OnceInv
<1>7. CASE SendShutdown
  <2>1. /\ jobs \in Seq(Tracks \cup {Shutdown})
        /\ Shutdown \in Tracks \cup {Shutdown}
        /\ jobs' = Append(jobs, Shutdown)
    BY <1>7 DEF SendShutdown, TypeInv, TypeOK
  <2>2. Elements(jobs') = Elements(jobs) \cup {Shutdown}
    BY <2>1, AppendElements
  <2>3. InQueue' = InQueue
    BY <2>2 DEF InQueue, Elements
  <2>4. AtWorker' = AtWorker /\ InResults' = InResults
    BY <1>7 DEF SendShutdown, AtWorker, InResults
  <2>5. Unclassified' \subseteq Unclassified
    BY <1>7, <2>3, <2>4 DEF SendShutdown, Unclassified
  <2>6. QED
    BY <1>7, <2>4, <2>5 DEF OnceInv, SendShutdown
<1>8. CASE TracksDone \/ DrainDone \/ FinishRun \/ RunRaises \/ Publish
             \/ JoinQueue \/ AwaitWorker
  <2>1. /\ UNCHANGED <<jobs, results, wpc, wjob, classified>>
        /\ completedIds \subseteq completedIds'
        /\ mpc' # "put"
        /\ ending' # "failure" => ending # "failure"
    BY <1>8
    DEF TracksDone, DrainDone, FinishRun, RunRaises, Raise, Publish, JoinQueue,
        AwaitWorker, PhaseInv
  <2>2. QED
    BY <2>1, OnceKept
<1>9. QED
  BY <1>1, <1>2, <1>3, <1>4, <1>5, <1>6, <1>7, <1>8 DEF MainStep

LEMMA OnceWorker ==
    ASSUME TypeInv, PhaseInv, Books, OnceInv, WorkerStep
    PROVE  OnceInv'
<1> USE DEF configVars, trackVars, mainVars, historyVars, workerVars
<1>1. CASE WorkerGet
  <2>1. jobs \in Seq(Tracks \cup {Shutdown}) /\ jobs # <<>> /\ jobs' = Tail(jobs)
    BY <1>1 DEF WorkerGet, TypeInv, TypeOK
  <2>2. /\ Elements(jobs') = Elements(jobs) \ {Head(jobs)}
        /\ Head(jobs) \in Elements(jobs)
    BY <2>1, TailElements DEF Books
  <2>3. InQueue' \subseteq InQueue
    BY <2>2 DEF InQueue, Elements
  <2>4. AtWorker' \subseteq InQueue
    BY <1>1, <2>2 DEF WorkerGet, AtWorker, InQueue, Elements
  <2>5. InResults' = InResults /\ Unclassified' \subseteq Unclassified
    BY <1>1, <2>3, <2>4 DEF WorkerGet, Unclassified, InResults
  <2>6. QED
    BY <1>1, <2>5 DEF WorkerGet, OnceInv
<1>2. ASSUME NEW ok \in BOOLEAN, WorkerDeliver(ok)
      PROVE  OnceInv'
  <2>1. wjob \in Tracks /\ AtWorker = {wjob} /\ AtWorker' = {}
        /\ InResults' = InResults \cup {wjob}
    BY <1>2, ResultDelivered DEF WorkerDeliver, TypeInv, TypeOK
  <2>2. classified[wjob] = 0 /\ classified' = [classified EXCEPT ![wjob] = 1]
    <3>1. classified[wjob] = 0
      BY <2>1 DEF OnceInv, Unclassified
    <3>2. classified \in [Tracks -> Nat]
      BY DEF TypeInv, TypeOK
    <3>3. classified' = [classified EXCEPT ![wjob] = classified[wjob] + 1]
      BY <1>2 DEF WorkerDeliver
    <3>4. QED
      BY <2>1, <3>1, <3>2, <3>3
  <2>3. InQueue' = InQueue /\ wjob \notin InQueue
    BY <1>2, <2>1 DEF WorkerDeliver, InQueue, Books
  <2>4. mpc = "put" => current # wjob
    BY <2>1 DEF Books, PhaseInv
  <2>5. QED
    BY <1>2, <2>1, <2>2, <2>3, <2>4
    DEF WorkerDeliver, OnceInv, Unclassified, TypeInv, TypeOK
<1>3. CASE WorkerTaskDone
  <2>1. InQueue' = InQueue /\ AtWorker' = AtWorker /\ InResults' = InResults
    BY <1>3 DEF WorkerTaskDone, InQueue, AtWorker, InResults
  <2>2. QED
    BY <1>3, <2>1 DEF WorkerTaskDone, OnceInv, Unclassified
<1>4. QED
  BY <1>1, <1>2, <1>3 DEF WorkerStep

LEMMA OnceNext ==
    TypeInv /\ PhaseInv /\ Books /\ OnceInv /\ [Next]_vars => OnceInv'
<1> SUFFICES ASSUME TypeInv, PhaseInv, Books, OnceInv, [Next]_vars PROVE OnceInv'
  OBVIOUS
<1>1. CASE UNCHANGED vars
  <2>1. UNCHANGED <<jobs, results, wpc, wjob, classified, completedIds, mpc,
                    current, ending>>
    BY <1>1 DEF vars, trackVars, workerVars, mainVars
  <2>2. QED
    BY <2>1, OnceKept
<1>2. CASE Next
  BY <1>1, <1>2, OnceMain, OnceWorker DEF Next, Terminated
<1>3. QED
  BY <1>1, <1>2

(* The worker classifies a track at most once, although the same track may *)
(* be passed again at any time.                                            *)
THEOREM TracksAreClassifiedOnce == Spec => []ClassifiedOnce
<1>1. OnceInv => ClassifiedOnce
  BY DEF OnceInv, ClassifiedOnce
<1>2. QED
  BY <1>1, CountInit, TypeNext, PhaseInit, PhaseNext, BooksInit, BooksNext,
     OnceInit, OnceNext, PTL DEF Spec

-----------------------------------------------------------------------------
(* Every track is answered                                                 *)

(* Where a track that was passed can be: answered, on the books, or still  *)
(* before the main thread; and if it was passed once, in one place.        *)
Trying == IF mpc = "put" THEN {current} ELSE {}

Places(t) ==
    answers[t] + (IF t \in pending THEN 1 ELSE 0) + (IF t \in todo THEN 1 ELSE 0)
      + (IF t \in Trying THEN 1 ELSE 0)

Account(t) ==
    /\ submissions[t] = 0 => Places(t) = 0 /\ t \notin completedIds
    /\ submissions[t] > 0 => t \in stored \cup pending \cup todo \cup Trying
    /\ submissions[t] = 1 => Places(t) = 1
    /\ t \in completedIds => t \in stored /\ answers[t] > 0

AnswerInv ==
    /\ mpc \notin {"tracks", "put"} => todo = {}
    /\ mpc \in {"publish", "completed"} => pending = {}
    /\ ending # "failure" => \A t \in Tracks : Account(t)

LEMMA AnswerInit == Init => AnswerInv
  BY DEF Init, AnswerInv, Account, Places, Trying

LEMMA AnswerKept ==
    ASSUME AnswerInv,
           UNCHANGED <<pending, todo, submissions, answers, stored, completedIds>>,
           Trying' = Trying,
           ending' # "failure" => ending # "failure",
           mpc' \notin {"tracks", "put"} => mpc \notin {"tracks", "put"} \/ todo = {},
           mpc' \in {"publish", "completed"} => mpc \in {"publish", "completed"} \/ pending = {}
    PROVE  AnswerInv'
  BY DEF AnswerInv, Account, Places

(* An exception ends the account.                                          *)
LEMMA AnswerRaise ==
    ASSUME PhaseInv, NEW reason, Raise(reason)
    PROVE  AnswerInv'
  BY DEF Raise, AnswerInv

LEMMA AnswerMain ==
    ASSUME TypeInv, PhaseInv, Books, AnswerInv, MainStep
    PROVE  AnswerInv'
<1> USE DEF configVars, trackVars, mainVars, historyVars, workerVars
<1>0. answers \in [Tracks -> Nat] /\ submissions \in [Tracks -> Nat]
  BY DEF TypeInv, TypeOK
<1>1. ASSUME NEW batch \in SUBSET Tracks, BeginCall(batch)
      PROVE  AnswerInv'
  <2>1. todo = {} /\ Trying = {} /\ Trying' = {} /\ ending # "failure"
    BY <1>1 DEF BeginCall, AnswerInv, Trying, PhaseInv
  <2>2. \A t \in Tracks : submissions'[t] = submissions[t] + (IF t \in batch THEN 1 ELSE 0)
    BY <1>1 DEF BeginCall
  <2>3. ASSUME NEW t \in Tracks PROVE Account(t)'
    <3>1. Account(t) /\ answers[t] \in Nat /\ submissions[t] \in Nat
      BY <1>0, <2>1 DEF AnswerInv
    <3>2. CASE t \in batch
      BY <1>1, <2>1, <2>2, <3>1, <3>2 DEF BeginCall, Account, Places
    <3>3. CASE t \notin batch
      BY <1>1, <2>1, <2>2, <3>1, <3>3 DEF BeginCall, Account, Places
    <3>4. QED
      BY <3>2, <3>3
  <2>4. QED
    BY <1>1, <2>3 DEF BeginCall, AnswerInv
<1>2. ASSUME NEW u \in Tracks, Answer(u), ending' = ending, todo' = todo \ {u},
             mpc = "tracks", mpc' = "tracks", u \in todo,
             UNCHANGED <<pending, submissions>>,
             completedIds' = completedIds \/ completedIds' = completedIds \cup {u}
      PROVE  AnswerInv'
  <2>1. Trying = {} /\ Trying' = {}
    BY <1>2 DEF Trying
  <2>2. ASSUME NEW t \in Tracks, Account(t) PROVE Account(t)'
    <3>1. CASE t = u
      <4>1. answers'[t] = answers[t] + 1 /\ t \in stored' /\ t \in todo /\ t \notin todo'
        BY <1>0, <1>2, <3>1 DEF Answer
      <4>2. submissions[t] \in Nat /\ answers[t] \in Nat
        BY <1>0
      <4>3. QED
        BY <1>2, <2>1, <2>2, <4>1, <4>2 DEF Account, Places
    <3>2. CASE t # u
      <4>1. answers'[t] = answers[t] /\ (t \in stored' <=> t \in stored)
            /\ (t \in todo' <=> t \in todo) /\ (t \in completedIds' <=> t \in completedIds)
        BY <1>0, <1>2, <3>2 DEF Answer
      <4>2. QED
        BY <1>2, <2>1, <2>2, <4>1 DEF Account, Places
    <3>3. QED
      BY <3>1, <3>2
  <2>3. QED
    BY <1>2, <2>2 DEF AnswerInv
<1>3. ASSUME NEW t \in Tracks, EnrichNow(t) \/ PrepareAnswers(t)
      PROVE  AnswerInv'
  BY <1>2, <1>3 DEF EnrichNow, PrepareAnswers
<1>4. ASSUME NEW t \in Tracks, EnrichRaises(t)
      PROVE  AnswerInv'
  <2>1. CASE failOpen
    BY <1>2, <1>4, <2>1 DEF EnrichRaises
  <2>2. CASE ~failOpen
    BY <1>4, <2>2, AnswerRaise DEF EnrichRaises
  <2>3. QED
    BY <2>1, <2>2
<1>5. ASSUME NEW u \in Tracks, SkipKnown(u)
      PROVE  AnswerInv'
  <2>1. Trying = {} /\ Trying' = {} /\ u \in pending \cup completedIds /\ u \in todo
    BY <1>5 DEF SkipKnown, Trying, Known, Books
  <2>2. ASSUME NEW t \in Tracks, Account(t) PROVE Account(t)'
    <3>1. answers[t] \in Nat /\ submissions[t] \in Nat
      BY <1>0
    <3>2. CASE t = u
      BY <1>5, <2>1, <2>2, <3>1, <3>2 DEF SkipKnown, Account, Places
    <3>3. CASE t # u
      BY <1>5, <2>1, <2>2, <3>3 DEF SkipKnown, Account, Places
    <3>4. QED
      BY <3>2, <3>3
  <2>3. QED
    BY <1>5, <2>2 DEF AnswerInv, SkipKnown
<1>6. ASSUME NEW u \in Tracks, PrepareJob(u)
      PROVE  AnswerInv'
  <2>1. Trying = {} /\ Trying' = {u}
    BY <1>6 DEF PrepareJob, Trying
  <2>2. ASSUME NEW t \in Tracks, Account(t) PROVE Account(t)'
    <3>1. answers[t] \in Nat
      BY <1>0
    <3>2. CASE t = u
      BY <1>6, <2>1, <2>2, <3>1, <3>2 DEF PrepareJob, Account, Places
    <3>3. CASE t # u
      BY <1>6, <2>1, <2>2, <3>3 DEF PrepareJob, Account, Places
    <3>4. QED
      BY <3>2, <3>3
  <2>3. QED
    BY <1>6, <2>2 DEF AnswerInv, PrepareJob
<1>7. CASE EnqueueJob
  <2>1. Trying = {current} /\ Trying' = {} /\ current \notin pending
    BY <1>7 DEF EnqueueJob, Trying, PhaseInv, Books
  <2>2. ASSUME NEW t \in Tracks, Account(t) PROVE Account(t)'
    <3>1. answers[t] \in Nat
      BY <1>0
    <3>2. CASE t = current
      BY <1>7, <2>1, <2>2, <3>1, <3>2 DEF EnqueueJob, Account, Places
    <3>3. CASE t # current
      BY <1>7, <2>1, <2>2, <3>3 DEF EnqueueJob, Account, Places
    <3>4. QED
      BY <3>2, <3>3
  <2>3. QED
    BY <1>7, <2>2 DEF AnswerInv, EnqueueJob
<1>8. CASE FinishResult
  <2> DEFINE u == Head(results).track
  <2>1. /\ u \in Tracks /\ u \in pending
        /\ mpc \in {"drain", "finalDrain"}
        /\ pending' = pending \ {u} /\ completedIds' = completedIds \cup {u}
        /\ Answer(u)
        /\ UNCHANGED <<mpc, todo, current, ending, submissions>>
    BY <1>8, TakeResultType DEF FinishResult, TakeResult, Unregister, TypeInv
  <2> HIDE DEF u
  <2>2. Trying = {} /\ Trying' = {} /\ todo = {} /\ todo' = {}
    BY <2>1 DEF Trying, AnswerInv
  <2>3. ASSUME NEW t \in Tracks, Account(t) PROVE Account(t)'
    <3>1. answers[t] \in Nat
      BY <1>0
    <3>2. CASE t = u
      <4>1. answers'[t] = answers[t] + 1 /\ t \in stored'
        BY <1>0, <2>1, <3>2 DEF Answer
      <4>2. QED
        BY <2>1, <2>2, <2>3, <3>1, <3>2, <4>1 DEF Account, Places
    <3>3. CASE t # u
      <4>1. answers'[t] = answers[t] /\ (t \in stored' <=> t \in stored)
        BY <1>0, <2>1, <3>3 DEF Answer
      <4>2. QED
        BY <2>1, <2>2, <2>3, <3>3, <4>1 DEF Account, Places
    <3>4. QED
      BY <3>2, <3>3
  <2>4. QED
    BY <2>1, <2>2, <2>3 DEF AnswerInv
<1>9. CASE FinishRaises \/ RunRaises
  BY <1>9, AnswerRaise DEF FinishRaises, RunRaises
<1>10. CASE DrainDone
  <2>1. mpc = "finalDrain" => pending = {}
    BY <1>10 DEF DrainDone, Books, PhaseInv, Quiet, AtWorker, InResults
  <2>2. QED
    BY <1>10, <2>1, AnswerKept DEF DrainDone, Trying
<1>11. CASE FinishRun
  <2>1. ~async => pending = {}
    BY DEF PhaseInv
  <2>2. QED
    BY <1>11, <2>1, AnswerKept DEF FinishRun, Trying, PhaseInv
<1>12. CASE TracksDone \/ Publish \/ JoinQueue \/ SendShutdown \/ AwaitWorker
  BY <1>12, AnswerKept
  DEF TracksDone, Publish, JoinQueue, SendShutdown, AwaitWorker, Trying
<1>13. QED
  BY <1>1, <1>3, <1>4, <1>5, <1>6, <1>7, <1>8, <1>9, <1>10, <1>11, <1>12 DEF MainStep

LEMMA AnswerNext ==
    TypeInv /\ PhaseInv /\ Books /\ AnswerInv /\ [Next]_vars => AnswerInv'
<1> SUFFICES ASSUME TypeInv, PhaseInv, Books, AnswerInv, [Next]_vars PROVE AnswerInv'
  OBVIOUS
<1>1. CASE UNCHANGED vars
  BY <1>1, AnswerKept DEF vars, trackVars, mainVars, historyVars, Trying
<1>2. CASE WorkerStep
  BY <1>2, AnswerKept
  DEF WorkerStep, WorkerGet, WorkerDeliver, WorkerTaskDone, trackVars, mainVars,
      historyVars, Trying
<1>3. QED
  BY <1>1, <1>2, AnswerMain DEF Next, Terminated

(* A run that completes has the result of every track it passed, and just  *)
(* one of a track it passed once.                                          *)
THEOREM NoTrackIsLost == Spec => []EveryTrackAnswered
<1>1. TypeInv /\ PhaseInv /\ AnswerInv => EveryTrackAnswered
  <2> SUFFICES ASSUME TypeInv, PhaseInv, AnswerInv, mpc \in {"publish", "completed"}
               PROVE  /\ pending = {}
                      /\ \A t \in Tracks : /\ submissions[t] > 0 => t \in stored
                                           /\ submissions[t] = 1 => answers[t] = 1
    BY DEF EveryTrackAnswered
  <2>1. todo = {} /\ pending = {} /\ Trying = {} /\ \A t \in Tracks : Account(t)
    BY DEF AnswerInv, PhaseInv, Trying
  <2>2. \A t \in Tracks : answers[t] \in Nat
    BY DEF TypeInv, TypeOK
  <2>3. QED
    BY <2>1, <2>2 DEF Account, Places
<1>2. QED
  BY <1>1, CountInit, TypeNext, PhaseInit, PhaseNext, BooksInit, BooksNext,
     AnswerInit, AnswerNext, PTL DEF Spec

=============================================================================
