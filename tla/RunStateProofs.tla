---------------------------- MODULE RunStateProofs ---------------------------
(***************************************************************************)
(* What is told and left of a run, for any number of tracks, clients, files*)
(* and requests: the event queues and the views of RuntimeEvents, the      *)
(* artifacts and rows of RunPublication, the files of ConfigSaves and the  *)
(* validated settings of ConfigRules.                                      *)
(***************************************************************************)
EXTENDS RuntimeEvents, RunPublication, ConfigSaves, ConfigRules, DataFacts

-----------------------------------------------------------------------------
(* RuntimeEvents: the queues                                               *)

(* The part of the type invariant the argument needs.                      *)
QueueTypes ==
    /\ updates \in Nat
    /\ event \in Events
    /\ targets \in SUBSET Clients /\ subscribed \in SUBSET Clients
    /\ delivery = NoDelivery \/ delivery \in [to : Clients, step : {"full", "again"}]
    /\ queue \in [Clients -> Seq(Events)]
    /\ listed \in [Clients -> Nat] /\ received \in [Clients -> Nat]

(* What makes the property inductive.  The thread puts one event at a time,*)
(* the last update's, into the queues of those it has listed; after it has *)
(* dropped an event there is room, whatever the client takes meanwhile.    *)
ThreadSound ==
    /\ event = NoEvent => targets = {} /\ delivery = NoDelivery
    /\ event # NoEvent => event.n = updates
    /\ delivery # NoDelivery => delivery.to \in targets
    /\ delivery.step = "again" => Len(queue[delivery.to]) < QueueSize
    /\ \A c \in targets : listed[c] = event.n

(* A queue q of a client that has taken the events up to rec and has been  *)
(* published those up to lst: between the two, in order.                   *)
InOrder(q, rec, lst) ==
    /\ Len(q) <= QueueSize
    /\ Increasing(q)
    /\ rec <= lst
    /\ \A i \in 1 .. Len(q) : rec < q[i].n /\ q[i].n <= lst

(* Everything published has been put into the queue.                       *)
UpToDate(q, rec, lst) == IF q = <<>> THEN rec = lst ELSE q[Len(q)].n = lst

(* A queue that is still to get the event numbered lst.                    *)
Waiting(q, rec, lst) == rec < lst /\ \A i \in 1 .. Len(q) : q[i].n < lst

QueuesSound ==
    \A c \in Clients :
        /\ InOrder(queue[c], received[c], listed[c])
        /\ listed[c] <= updates
        /\ c \in targets => Waiting(queue[c], received[c], listed[c])
        /\ c \notin targets => UpToDate(queue[c], received[c], listed[c])

LiveInv == QueueTypes /\ ThreadSound /\ QueuesSound

-----------------------------------------------------------------------------
(* Queues                                                                  *)

(* Putting the newest event into a queue with room.                        *)
LEMMA PutNewest ==
    ASSUME NEW q \in Seq(Events), NEW e \in Events, NEW rec \in Nat, NEW lst \in Nat,
           QueueSize \in Nat,
           InOrder(q, rec, lst), Waiting(q, rec, lst), e.n = lst, Len(q) < QueueSize
    PROVE  /\ Append(q, e) \in Seq(Events)
           /\ InOrder(Append(q, e), rec, lst)
           /\ UpToDate(Append(q, e), rec, lst)
<1> DEFINE r == Append(q, e)
<1>1. /\ r \in Seq(Events) /\ Len(q) \in Nat /\ Len(r) = Len(q) + 1
      /\ \A i \in 1 .. Len(q) : r[i] = q[i]
      /\ r[Len(q) + 1] = e
    BY AppendFacts
<1>2. \A i \in 1 .. Len(q) : q[i].n \in Nat
    <2>1. \A i \in 1 .. Len(q) : q[i] \in Events
        OBVIOUS
    <2> QED
        BY <2>1 DEF Events
<1>3. r # <<>>
    BY <1>1
<1> HIDE DEF r
<1>4. Increasing(r)
    <2>1. ASSUME NEW i \in 1 .. Len(r), NEW j \in 1 .. Len(r), i < j
          PROVE  r[i].n < r[j].n
        <3>1. i \in 1 .. Len(q)
            BY <1>1, <2>1
        <3>2. CASE j \in 1 .. Len(q)
            BY <3>1, <3>2, <2>1, <1>1 DEF InOrder, Increasing
        <3>3. CASE j = Len(q) + 1
            BY <3>1, <3>3, <1>1 DEF Waiting
        <3> QED
            BY <3>2, <3>3, <1>1
    <2> QED
        BY <2>1 DEF Increasing
<1>5. \A i \in 1 .. Len(r) : rec < r[i].n /\ r[i].n <= lst
    <2>1. ASSUME NEW i \in 1 .. Len(r)
          PROVE  rec < r[i].n /\ r[i].n <= lst
        <3>1. CASE i \in 1 .. Len(q)
            BY <3>1, <1>1 DEF InOrder
        <3>2. CASE i = Len(q) + 1
            BY <3>2, <1>1 DEF Waiting
        <3> QED
            BY <3>1, <3>2, <1>1
    <2> QED
        BY <2>1
<1>6. InOrder(r, rec, lst)
    BY <1>1, <1>4, <1>5 DEF InOrder
<1>7. UpToDate(r, rec, lst)
    BY <1>1, <1>3 DEF UpToDate
<1> QED
    BY <1>1, <1>6, <1>7 DEF r

(* Taking the oldest event leaves the order, and the newest event unless   *)
(* it was the only one.                                                    *)
LEMMA TakeOldest ==
    ASSUME NEW q \in Seq(Events), NEW rec \in Nat, NEW lst \in Nat,
           QueueSize \in Nat, InOrder(q, rec, lst), q # <<>>
    PROVE  /\ Tail(q) \in Seq(Events) /\ Head(q).n \in Nat
           /\ Len(Tail(q)) < QueueSize
           /\ InOrder(Tail(q), rec, lst)
           /\ InOrder(Tail(q), Head(q).n, lst)
           /\ UpToDate(q, rec, lst) => UpToDate(Tail(q), Head(q).n, lst)
           /\ Waiting(q, rec, lst) => /\ Waiting(Tail(q), rec, lst)
                                      /\ Waiting(Tail(q), Head(q).n, lst)
<1> DEFINE r == Tail(q)
<1>1. /\ r \in Seq(Events) /\ Len(q) \in Nat /\ Len(q) >= 1
      /\ Head(q) = q[1] /\ Len(r) = Len(q) - 1
      /\ \A i \in 1 .. Len(q) - 1 : r[i] = q[i + 1]
    BY TailFacts
<1>2. \A i \in 1 .. Len(q) : q[i].n \in Nat
    <2>1. \A i \in 1 .. Len(q) : q[i] \in Events
        OBVIOUS
    <2> QED
        BY <2>1 DEF Events
<1> HIDE DEF r
<1>3. r = <<>> <=> Len(q) = 1
    <2>1. r = <<>> <=> Len(r) = 0
        BY <1>1, EmptySeq
    <2> QED
        BY <1>1, <2>1
<1>4. Increasing(r)
    <2>1. ASSUME NEW i \in 1 .. Len(r), NEW j \in 1 .. Len(r), i < j
          PROVE  r[i].n < r[j].n
        <3>1. i + 1 \in 1 .. Len(q) /\ j + 1 \in 1 .. Len(q) /\ i + 1 < j + 1
            BY <2>1, <1>1
        <3>2. q[i + 1].n < q[j + 1].n
            BY <3>1 DEF InOrder, Increasing
        <3> QED
            BY <3>2, <1>1
    <2> QED
        BY <2>1 DEF Increasing
<1>5. \A i \in 1 .. Len(r) : /\ rec < r[i].n /\ r[i].n <= lst
                             /\ Head(q).n < r[i].n
    <2>1. ASSUME NEW i \in 1 .. Len(r)
          PROVE  rec < r[i].n /\ r[i].n <= lst /\ Head(q).n < r[i].n
        <3>1. i + 1 \in 1 .. Len(q) /\ 1 \in 1 .. Len(q) /\ 1 < i + 1 /\ r[i] = q[i + 1]
            BY <1>1
        <3>2. q[1].n < q[i + 1].n
            BY <3>1 DEF InOrder, Increasing
        <3>3. rec < q[i + 1].n /\ q[i + 1].n <= lst
            BY <3>1 DEF InOrder
        <3> QED
            BY <3>1, <3>2, <3>3, <1>1
    <2> QED
        BY <2>1
<1>6. Head(q).n \in Nat /\ Head(q).n <= lst
    BY <1>1, <1>2 DEF InOrder
<1>7. Len(r) < QueueSize /\ InOrder(r, rec, lst) /\ InOrder(r, Head(q).n, lst)
    BY <1>1, <1>4, <1>5, <1>6 DEF InOrder
<1>8. ASSUME UpToDate(q, rec, lst) PROVE UpToDate(r, Head(q).n, lst)
    BY <1>1, <1>3, <1>8 DEF UpToDate
<1>9. ASSUME Waiting(q, rec, lst) PROVE Waiting(r, rec, lst) /\ Waiting(r, Head(q).n, lst)
    BY <1>1, <1>9 DEF Waiting
<1> QED
    BY <1>1, <1>6, <1>7, <1>8, <1>9 DEF r
-----------------------------------------------------------------------------
(* Steps                                                                   *)

(* Before the first update every queue is empty.                           *)
LEMMA LiveInitInv == LiveInit => LiveInv
<1> SUFFICES ASSUME LiveInit PROVE LiveInv
    OBVIOUS
<1>1. QueueTypes
    BY DEF LiveInit, QueueTypes, NoEvent, NoDelivery, Events, Keys, Values
<1>2. ThreadSound
    BY DEF LiveInit, ThreadSound, NoDelivery
<1>3. QueuesSound
    <2>1. \A c \in Clients : queue[c] = <<>> /\ received[c] = 0 /\ listed[c] = 0
        BY DEF LiveInit
    <2>2. InOrder(<<>>, 0, 0) /\ UpToDate(<<>>, 0, 0)
        BY LiveAssumption DEF LiveAssumption, InOrder, UpToDate, Increasing
    <2> QED
        BY <2>1, <2>2 DEF LiveInit, QueuesSound
<1> QED
    BY <1>1, <1>2, <1>3 DEF LiveInv

(* An update of the run's thread: a new event, published to nobody yet.    *)
LEMMA LiveUpdates ==
    ASSUME LiveInv, NEW k \in Keys, NEW v \in Values, Update(k, v)
    PROVE  LiveInv'
<1>0. QueueTypes /\ ThreadSound /\ QueuesSound
    BY DEF LiveInv
<1>1. /\ event = NoEvent /\ updates \in Nat /\ updates' = updates + 1
      /\ event' = [n |-> updates', key |-> k, value |-> v]
      /\ UNCHANGED <<targets, delivery, subscribed, received, queue, listed>>
      /\ targets = {} /\ delivery = NoDelivery
    BY <1>0 DEF Update, Idle, clientVars, QueueTypes, ThreadSound
<1>2. event' \in Events /\ event'.n = updates' /\ updates' \in Nat /\ updates' # 0
    BY <1>1 DEF Events
<1>3. event' # NoEvent
    BY <1>2 DEF NoEvent
<1>4. QueueTypes'
    BY <1>0, <1>1, <1>2 DEF QueueTypes
<1>5. ThreadSound'
    BY <1>1, <1>2, <1>3 DEF ThreadSound, NoDelivery
<1>6. QueuesSound'
    BY <1>0, <1>1 DEF QueuesSound, QueueTypes
<1> QED
    BY <1>4, <1>5, <1>6 DEF LiveInv

(* The steps of the run's thread.                                          *)
LEMMA LiveThread ==
    ASSUME LiveInv,
           (\E t \in LiveTracks : ObserveTrack(t) \/ CompleteTrack(t) \/ ReportColour(t))
           \/ FinishLoop \/ CompleteRun \/ FailRun
    PROVE  LiveInv'
<1>1. CASE FinishLoop
    BY <1>1 DEF FinishLoop, LiveInv, QueueTypes, ThreadSound, QueuesSound, clientVars
<1>2. CASE ~ FinishLoop
    <2>1. \E k \in Keys, v \in Values : Update(k, v)
        <3>1. LiveTracks \subseteq Keys /\ "run" \in Keys
              /\ {"active", "coloured", "pending", "flushed", "completed", "failed"} \subseteq Values
            BY DEF Keys, Values
        <3>2. ASSUME NEW t \in LiveTracks, ObserveTrack(t) PROVE Update(t, "active")
            BY <3>2 DEF ObserveTrack
        <3>3. ASSUME NEW t \in LiveTracks, CompleteTrack(t)
              PROVE  Update(t, "coloured") \/ Update(t, "pending")
            <4>1. PICK last \in BOOLEAN : Update(t, IF last THEN "coloured" ELSE "pending")
                BY <3>3 DEF CompleteTrack
            <4>2. CASE last
                BY <4>1, <4>2
            <4>3. CASE ~ last
                BY <4>1, <4>3
            <4> QED
                BY <4>2, <4>3
        <3>4. ASSUME NEW t \in LiveTracks, ReportColour(t)
              PROVE  Update(t, "flushed") \/ Update(t, "coloured")
            <4>1. Update(t, IF record[t] = "active" THEN "flushed" ELSE "coloured")
                BY <3>4 DEF ReportColour
            <4>2. CASE record[t] = "active"
                BY <4>1, <4>2
            <4>3. CASE record[t] # "active"
                BY <4>1, <4>3
            <4> QED
                BY <4>2, <4>3
        <3>5. ASSUME CompleteRun \/ FailRun
              PROVE  Update("run", "completed") \/ Update("run", "failed")
            BY <3>5 DEF CompleteRun, FailRun
        <3> HIDE DEF Update
        <3> QED
            BY <1>2, <3>1, <3>2, <3>3, <3>4, <3>5
    <2> QED
        BY <2>1, LiveUpdates
<1> QED
    BY <1>1, <1>2

(* The subscribers are listed: each has yet to get the event.              *)
LEMMA LiveLists ==
    ASSUME LiveInv, ListSubscribers
    PROVE  LiveInv'
<1>0. QueueTypes /\ ThreadSound /\ QueuesSound
    BY DEF LiveInv
<1>1. /\ event # NoEvent /\ targets = {} /\ delivery = NoDelivery /\ event.n = updates
      /\ \A c \in subscribed : listed[c] # event.n
      /\ UNCHANGED <<updates, delivery, subscribed, received, queue>>
    BY <1>0 DEF ListSubscribers, runVars, clientVars, ThreadSound
<1>2. CASE subscribed = {}
    <2>1. event' = NoEvent /\ UNCHANGED <<targets, listed>>
        BY <1>2 DEF ListSubscribers
    <2>2. NoEvent \in Events
        BY DEF NoEvent, Events, Keys, Values
    <2>3. QueueTypes'
        BY <1>0, <1>1, <2>1, <2>2 DEF QueueTypes
    <2>4. ThreadSound' /\ QueuesSound'
        BY <1>0, <1>1, <2>1 DEF ThreadSound, QueuesSound, NoDelivery
    <2> QED
        BY <2>3, <2>4 DEF LiveInv
<1>3. CASE subscribed # {}
    <2>1. /\ targets' = subscribed /\ event' = event
          /\ listed' = [c \in Clients |-> IF c \in subscribed THEN event.n ELSE listed[c]]
        BY <1>3 DEF ListSubscribers
    <2>2. event.n \in Nat
        BY <1>0 DEF QueueTypes, Events
    <2>3. QueueTypes'
        BY <1>0, <1>1, <2>1, <2>2 DEF QueueTypes
    <2>4. ThreadSound'
        BY <1>0, <1>1, <2>1 DEF ThreadSound, QueueTypes, NoDelivery
    <2>5. ASSUME NEW c \in Clients
          PROVE  /\ InOrder(queue'[c], received'[c], listed'[c])
                 /\ listed'[c] <= updates'
                 /\ c \in targets' => Waiting(queue'[c], received'[c], listed'[c])
                 /\ c \notin targets' => UpToDate(queue'[c], received'[c], listed'[c])
        <3>1. CASE c \notin subscribed
            BY <3>1, <1>0, <1>1, <2>1 DEF QueuesSound
        <3>2. CASE c \in subscribed
            <4>1. listed[c] \in Nat /\ received[c] \in Nat /\ queue[c] \in Seq(Events)
                BY <1>0 DEF QueueTypes
            <4>2. /\ InOrder(queue[c], received[c], listed[c]) /\ listed[c] < event.n
                  /\ listed'[c] = event.n /\ queue'[c] = queue[c] /\ received'[c] = received[c]
                BY <3>2, <4>1, <1>0, <1>1, <2>1, <2>2 DEF QueuesSound
            <4>3. \A i \in 1 .. Len(queue[c]) : queue[c][i].n \in Nat
                <5>1. \A i \in 1 .. Len(queue[c]) : queue[c][i] \in Events
                    BY <4>1
                <5> QED
                    BY <5>1 DEF Events
            <4>4. InOrder(queue[c], received[c], event.n) /\ Waiting(queue[c], received[c], event.n)
                BY <4>1, <4>2, <4>3, <2>2 DEF InOrder, Waiting
            <4> QED
                BY <3>2, <4>2, <4>4, <1>1, <2>1, <2>2
        <3> QED
            BY <3>1, <3>2
    <2>6. QueuesSound'
        BY <2>5 DEF QueuesSound
    <2> QED
        BY <2>3, <2>4, <2>6 DEF LiveInv
<1> QED
    BY <1>2, <1>3

(* The event of a client is put into a queue that has room: the client is  *)
(* done with, and the thread goes on or has finished.                      *)
LEMMA LivePuts ==
    ASSUME LiveInv, NEW c \in targets, Len(queue[c]) < QueueSize,
           queue' = [queue EXCEPT ![c] = Append(queue[c], event)], Delivered(c),
           UNCHANGED <<runVars, clientVars, listed>>
    PROVE  LiveInv'
<1>0. QueueTypes /\ ThreadSound /\ QueuesSound
    BY DEF LiveInv
<1>1. /\ c \in Clients /\ event # NoEvent /\ listed[c] = event.n /\ event \in Events
      /\ queue[c] \in Seq(Events) /\ received[c] \in Nat /\ listed[c] \in Nat
      /\ InOrder(queue[c], received[c], listed[c])
      /\ Waiting(queue[c], received[c], listed[c])
    BY <1>0 DEF QueueTypes, ThreadSound, QueuesSound
<1>2. /\ Append(queue[c], event) \in Seq(Events)
      /\ InOrder(Append(queue[c], event), received[c], listed[c])
      /\ UpToDate(Append(queue[c], event), received[c], listed[c])
    BY <1>1, PutNewest, LiveAssumption DEF LiveAssumption
<1>3. /\ queue'[c] = Append(queue[c], event)
      /\ \A d \in Clients : d # c => queue'[d] = queue[d]
      /\ queue' \in [Clients -> Seq(Events)]
    BY <1>0, <1>1, <1>2 DEF QueueTypes
<1>4. /\ targets' = targets \ {c} /\ delivery' = NoDelivery
      /\ event' = IF targets' = {} THEN NoEvent ELSE event
      /\ UNCHANGED <<updates, subscribed, received, listed>>
    BY DEF Delivered, runVars, clientVars
<1>5. NoEvent \in Events
    BY DEF NoEvent, Events, Keys, Values
<1>6. QueueTypes'
    BY <1>0, <1>3, <1>4, <1>5 DEF QueueTypes
<1>7. ThreadSound'
    BY <1>0, <1>1, <1>4 DEF ThreadSound, NoDelivery
<1>8. QueuesSound'
    <2>1. ASSUME NEW d \in Clients
          PROVE  /\ InOrder(queue'[d], received'[d], listed'[d])
                 /\ listed'[d] <= updates'
                 /\ d \in targets' => Waiting(queue'[d], received'[d], listed'[d])
                 /\ d \notin targets' => UpToDate(queue'[d], received'[d], listed'[d])
        <3>1. CASE d = c
            BY <3>1, <1>0, <1>2, <1>3, <1>4 DEF QueuesSound
        <3>2. CASE d # c
            BY <3>2, <1>0, <1>3, <1>4 DEF QueuesSound
        <3> QED
            BY <3>1, <3>2
    <2> QED
        BY <2>1 DEF QueuesSound
<1> QED
    BY <1>6, <1>7, <1>8 DEF LiveInv

(* publish_event for one client: put, or drop the oldest and put again.    *)
LEMMA LiveDelivers ==
    ASSUME LiveInv, (\E c \in Clients : PutEvent(c)) \/ DropOldest \/ PutAgain
    PROVE  LiveInv'
<1>0. QueueTypes /\ ThreadSound /\ QueuesSound
    BY DEF LiveInv
<1>1. ASSUME NEW c \in Clients, PutEvent(c) PROVE LiveInv'
    <2>1. delivery = NoDelivery /\ c \in targets /\ UNCHANGED <<runVars, clientVars, listed>>
        BY <1>1 DEF PutEvent
    <2>2. CASE Len(queue[c]) < QueueSize
        <3>1. queue' = [queue EXCEPT ![c] = Append(queue[c], event)] /\ Delivered(c)
            BY <1>1, <2>2 DEF PutEvent
        <3> QED
            BY <2>1, <2>2, <3>1, LivePuts
    <2>3. CASE ~ (Len(queue[c]) < QueueSize)
        <3>1. /\ delivery' = [to |-> c, step |-> "full"]
              /\ UNCHANGED <<event, targets, queue, updates, subscribed, received, listed>>
            BY <1>1, <2>3 DEF PutEvent, runVars, clientVars
        <3>2. delivery' \in [to : Clients, step : {"full", "again"}]
              /\ delivery'.to = c /\ delivery'.step = "full"
            BY <3>1
        <3>3. QueueTypes'
            BY <1>0, <3>1, <3>2 DEF QueueTypes
        <3>4. ThreadSound'
            BY <1>0, <2>1, <3>1, <3>2 DEF ThreadSound
        <3>5. QueuesSound'
            BY <1>0, <3>1 DEF QueuesSound
        <3> QED
            BY <3>3, <3>4, <3>5 DEF LiveInv
    <2> QED
        BY <2>2, <2>3
<1>2. ASSUME DropOldest PROVE LiveInv'
    <2> DEFINE c == delivery.to
    <2>1. delivery # NoDelivery
        BY <1>2 DEF DropOldest, NoDelivery
    <2>2. /\ c \in targets /\ c \in Clients /\ delivery \in [to : Clients, step : {"full", "again"}]
          /\ queue[c] \in Seq(Events) /\ received[c] \in Nat /\ listed[c] \in Nat
          /\ InOrder(queue[c], received[c], listed[c])
          /\ Waiting(queue[c], received[c], listed[c])
        BY <1>0, <2>1 DEF QueueTypes, ThreadSound, QueuesSound
    <2>3. /\ queue' = [queue EXCEPT ![c] = IF queue[c] = <<>> THEN queue[c] ELSE Tail(queue[c])]
          /\ delivery' = [delivery EXCEPT !.step = "again"]
          /\ UNCHANGED <<updates, event, targets, subscribed, received, listed>>
        BY <1>2 DEF DropOldest, runVars, clientVars
    <2>4. delivery' \in [to : Clients, step : {"full", "again"}]
          /\ delivery'.to = c /\ delivery'.step = "again"
        BY <2>2, <2>3
    <2> HIDE DEF c
    <2>5. /\ queue'[c] = IF queue[c] = <<>> THEN queue[c] ELSE Tail(queue[c])
          /\ \A d \in Clients : d # c => queue'[d] = queue[d]
        BY <1>0, <2>2, <2>3 DEF QueueTypes
    <2>6. /\ queue'[c] \in Seq(Events) /\ Len(queue'[c]) < QueueSize
          /\ InOrder(queue'[c], received[c], listed[c])
          /\ Waiting(queue'[c], received[c], listed[c])
        <3>1. CASE queue[c] = <<>>
            BY <3>1, <2>2, <2>5, LiveAssumption DEF LiveAssumption
        <3>2. CASE queue[c] # <<>>
            BY <3>2, <2>2, <2>5, TakeOldest, LiveAssumption DEF LiveAssumption
        <3> QED
            BY <3>1, <3>2
    <2>7. queue' \in [Clients -> Seq(Events)]
        BY <1>0, <2>3, <2>5, <2>6 DEF QueueTypes
    <2>8. QueueTypes'
        BY <1>0, <2>3, <2>4, <2>7 DEF QueueTypes
    <2>9. ThreadSound'
        BY <1>0, <2>1, <2>2, <2>3, <2>4, <2>6 DEF ThreadSound
    <2>10. ASSUME NEW d \in Clients
           PROVE  /\ InOrder(queue'[d], received'[d], listed'[d])
                  /\ listed'[d] <= updates'
                  /\ d \in targets' => Waiting(queue'[d], received'[d], listed'[d])
                  /\ d \notin targets' => UpToDate(queue'[d], received'[d], listed'[d])
        <3>1. CASE d = c
            BY <3>1, <1>0, <2>2, <2>3, <2>6 DEF QueuesSound
        <3>2. CASE d # c
            BY <3>2, <1>0, <2>3, <2>5 DEF QueuesSound
        <3> QED
            BY <3>1, <3>2
    <2>11. QueuesSound'
        BY <2>10 DEF QueuesSound
    <2> QED
        BY <2>8, <2>9, <2>11 DEF LiveInv
<1>3. ASSUME PutAgain PROVE LiveInv'
    <2> DEFINE c == delivery.to
    <2>1. delivery # NoDelivery /\ delivery.step = "again"
        BY <1>3 DEF PutAgain, NoDelivery
    <2>2. c \in targets /\ Len(queue[c]) < QueueSize
        BY <1>0, <2>1 DEF ThreadSound
    <2>3. /\ queue' = [queue EXCEPT ![c] = IF Len(@) < QueueSize THEN Append(@, event) ELSE @]
          /\ Delivered(c) /\ UNCHANGED <<runVars, clientVars, listed>>
        BY <1>3 DEF PutAgain
    <2> HIDE DEF c
    <2>4. queue' = [queue EXCEPT ![c] = Append(queue[c], event)]
        BY <2>2, <2>3
    <2> QED
        BY <2>2, <2>3, <2>4, LivePuts
<1> QED
    BY <1>1, <1>2, <1>3

(* A client takes the oldest event of its queue.                           *)
LEMMA LiveTakes ==
    ASSUME LiveInv, NEW c \in Clients, SendEvent(c)
    PROVE  LiveInv'
<1>0. QueueTypes /\ ThreadSound /\ QueuesSound
    BY DEF LiveInv
<1>1. /\ queue[c] # <<>> /\ queue[c] \in Seq(Events)
      /\ received[c] \in Nat /\ listed[c] \in Nat
      /\ InOrder(queue[c], received[c], listed[c])
    BY <1>0 DEF SendEvent, QueueTypes, QueuesSound
<1>2. /\ queue' = [queue EXCEPT ![c] = Tail(queue[c])]
      /\ received' = [received EXCEPT ![c] = Head(queue[c]).n]
      /\ UNCHANGED <<updates, event, targets, delivery, subscribed, listed>>
    BY DEF SendEvent, runVars
<1>3. /\ Tail(queue[c]) \in Seq(Events) /\ Head(queue[c]).n \in Nat
      /\ Len(Tail(queue[c])) < QueueSize
      /\ InOrder(Tail(queue[c]), Head(queue[c]).n, listed[c])
      /\ UpToDate(queue[c], received[c], listed[c])
            => UpToDate(Tail(queue[c]), Head(queue[c]).n, listed[c])
      /\ Waiting(queue[c], received[c], listed[c])
            => Waiting(Tail(queue[c]), Head(queue[c]).n, listed[c])
    BY <1>1, TakeOldest, LiveAssumption DEF LiveAssumption
<1>4. /\ queue'[c] = Tail(queue[c]) /\ received'[c] = Head(queue[c]).n
      /\ \A d \in Clients : d # c => queue'[d] = queue[d] /\ received'[d] = received[d]
      /\ queue' \in [Clients -> Seq(Events)] /\ received' \in [Clients -> Nat]
    BY <1>0, <1>2, <1>3 DEF QueueTypes
<1>5. QueueTypes'
    BY <1>0, <1>2, <1>4 DEF QueueTypes
<1>6. ThreadSound'
    <2>1. ASSUME delivery.step = "again" PROVE Len(queue'[delivery.to]) < QueueSize
        <3>1. delivery # NoDelivery
            BY <2>1 DEF NoDelivery
        <3>2. delivery.to \in Clients /\ Len(queue[delivery.to]) < QueueSize
            BY <2>1, <3>1, <1>0 DEF ThreadSound, QueueTypes
        <3>3. CASE delivery.to = c
            BY <3>3, <1>3, <1>4
        <3>4. CASE delivery.to # c
            BY <3>2, <3>4, <1>4
        <3> QED
            BY <3>3, <3>4
    <2> QED
        BY <2>1, <1>0, <1>2 DEF ThreadSound
<1>7. ASSUME NEW d \in Clients
      PROVE  /\ InOrder(queue'[d], received'[d], listed'[d])
             /\ listed'[d] <= updates'
             /\ d \in targets' => Waiting(queue'[d], received'[d], listed'[d])
             /\ d \notin targets' => UpToDate(queue'[d], received'[d], listed'[d])
    <2>1. CASE d = c
        BY <2>1, <1>0, <1>2, <1>3, <1>4 DEF QueuesSound
    <2>2. CASE d # c
        BY <2>2, <1>0, <1>2, <1>4 DEF QueuesSound
    <2> QED
        BY <2>1, <2>2
<1>8. QueuesSound'
    BY <1>7 DEF QueuesSound
<1> QED
    BY <1>5, <1>6, <1>8 DEF LiveInv

(* Coming, reading the snapshot and going touch no queue.                  *)
LEMMA LiveHandlers ==
    ASSUME LiveInv, NEW c \in Clients,
           Connect(c) \/ SnapshotSystem(c) \/ SnapshotTracks(c) \/ Disconnect(c)
    PROVE  LiveInv'
<1>1. /\ UNCHANGED <<updates, event, targets, delivery, queue, listed, received>>
      /\ subscribed' \subseteq subscribed \cup {c}
    BY DEF Connect, SnapshotSystem, SnapshotTracks, Disconnect, runVars
<1> QED
    BY <1>1 DEF LiveInv, QueueTypes, ThreadSound, QueuesSound

(* Every step keeps the invariant.                                         *)
LEMMA LiveStep == LiveInv /\ [LiveNext]_liveVars => LiveInv'
<1> SUFFICES ASSUME LiveInv, [LiveNext]_liveVars PROVE LiveInv'
    OBVIOUS
<1>1. CASE UNCHANGED liveVars
    BY <1>1 DEF liveVars, runVars, clientVars, LiveInv, QueueTypes, ThreadSound, QueuesSound
<1>2. CASE (\E t \in LiveTracks : ObserveTrack(t) \/ CompleteTrack(t) \/ ReportColour(t))
           \/ FinishLoop \/ CompleteRun \/ FailRun
    BY <1>2, LiveThread
<1>3. CASE ListSubscribers
    BY <1>3, LiveLists
<1>4. CASE (\E c \in Clients : PutEvent(c)) \/ DropOldest \/ PutAgain
    BY <1>4, LiveDelivers
<1>5. ASSUME NEW c \in Clients, SendEvent(c) PROVE LiveInv'
    BY <1>5, LiveTakes
<1>6. ASSUME NEW c \in Clients,
             Connect(c) \/ SnapshotSystem(c) \/ SnapshotTracks(c) \/ Disconnect(c)
      PROVE  LiveInv'
    BY <1>6, LiveHandlers
<1> QED
    BY <1>1, <1>2, <1>3, <1>4, <1>5, <1>6 DEF LiveNext

(* The inductive invariant.                                                *)
THEOREM LiveInvariant == LiveSpec => []LiveInv
<1> QED
    BY LiveInitInv, LiveStep, PTL DEF LiveSpec

(* Every client gets its events in the order of the updates, and the       *)
(* newest event published to it waits in its queue or is the last it took, *)
(* however its queue overflows (publish_event, subscribe).                 *)
THEOREM NewestEventIsKept == LiveSpec => []NewestIsKept
<1>1. ASSUME LiveInv PROVE NewestIsKept
    <2>1. ASSUME NEW c \in Clients
          PROVE  /\ Increasing(queue[c])
                 /\ \A i \in 1..Len(queue[c]) : received[c] < queue[c][i].n
                 /\ c \notin targets =>
                        IF queue[c] = <<>> THEN received[c] = listed[c]
                        ELSE Last(queue[c]).n = listed[c]
        BY <1>1 DEF LiveInv, QueuesSound, InOrder, UpToDate, Last
    <2> QED
        BY <2>1 DEF NewestIsKept
<1> QED
    BY <1>1, LiveInvariant, PTL

-----------------------------------------------------------------------------
(* Colours                                                                 *)

(* While colours are reported, a track that was seen waits for its colour  *)
(* or has it; the status of the run changes last.                          *)
ColourInv ==
    /\ record \in [Keys -> Values]
    /\ phase \in {"loop", "colours", "over"}
    /\ record["run"] = "completed" => phase = "over"
    /\ phase = "colours" \/ record["run"] = "completed" =>
           \A t \in LiveTracks :
               \/ record[t] \in {"none"} \cup Coloured
               \/ phase = "colours" /\ t \in uncoloured

(* Every step keeps the account of the colours.                            *)
LEMMA ColourStep == ColourInv /\ [LiveNext]_liveVars => ColourInv'
<1> SUFFICES ASSUME ColourInv, [LiveNext]_liveVars PROVE ColourInv'
    OBVIOUS
<1>0. /\ LiveTracks \subseteq Keys /\ "run" \in Keys /\ "run" \notin LiveTracks
      /\ {"active", "coloured", "pending", "flushed", "completed", "failed"} \subseteq Values
    BY LiveAssumption DEF LiveAssumption, Keys, Values
<1>1. CASE UNCHANGED <<record, uncoloured, phase>>
    BY <1>1 DEF ColourInv
<1>2. ASSUME NEW t \in LiveTracks, ObserveTrack(t) \/ CompleteTrack(t) PROVE ColourInv'
    <2>1. PICK v \in {"active", "coloured", "pending"} : Update(t, v)
        <3>1. CASE ObserveTrack(t)
            BY <3>1 DEF ObserveTrack
        <3>2. CASE CompleteTrack(t)
            <4>1. PICK last \in BOOLEAN : Update(t, IF last THEN "coloured" ELSE "pending")
                BY <3>2 DEF CompleteTrack
            <4> QED
                BY <4>1
        <3> QED
            BY <1>2, <3>1, <3>2
    <2>2. phase = "loop" /\ UNCHANGED phase
        BY <1>2 DEF ObserveTrack, CompleteTrack, InLoop
    <2>3. record' = [record EXCEPT ![t] = v]
        BY <2>1 DEF Update
    <2> QED
        BY <1>0, <2>2, <2>3 DEF ColourInv
<1>3. ASSUME NEW t \in LiveTracks, ReportColour(t) PROVE ColourInv'
    <2>1. PICK v \in Coloured : record' = [record EXCEPT ![t] = v]
        BY <1>3 DEF ReportColour, Update, Coloured
    <2>2. phase = "colours" /\ phase' = phase /\ uncoloured' = uncoloured \ {t}
        BY <1>3 DEF ReportColour
    <2>3. Coloured \subseteq Values
        BY <1>0 DEF Coloured
    <2> QED
        BY <1>0, <2>1, <2>2, <2>3 DEF ColourInv
<1>4. CASE FinishLoop
    BY <1>4 DEF FinishLoop, ColourInv
<1>5. CASE CompleteRun
    BY <1>0, <1>5 DEF CompleteRun, Update, ColourInv
<1>6. CASE FailRun
    BY <1>0, <1>6 DEF FailRun, Update, ColourInv
<1>7. CASE UNCHANGED liveVars
    BY <1>1, <1>7 DEF liveVars, runVars
<1>8. ASSUME NEW c \in Clients,
             \/ ListSubscribers \/ PutEvent(c) \/ DropOldest \/ PutAgain
             \/ Connect(c) \/ SnapshotSystem(c) \/ SnapshotTracks(c) \/ SendEvent(c)
             \/ Disconnect(c)
      PROVE  ColourInv'
    BY <1>1, <1>8 DEF ListSubscribers, PutEvent, DropOldest, PutAgain, Connect, SnapshotSystem,
        SnapshotTracks, SendEvent, Disconnect, runVars
<1>9. CASE ListSubscribers \/ DropOldest \/ PutAgain
    BY <1>1, <1>9 DEF ListSubscribers, DropOldest, PutAgain, runVars
<1> QED
    BY <1>2, <1>3, <1>4, <1>5, <1>6, <1>7, <1>8, <1>9 DEF LiveNext

(* A run that completes has reported the colour of every track it has seen,*)
(* although observations reset it and results may come late (run_pipeline's*)
(* three calls that report colours).                                       *)
THEOREM EveryColourIsReported == LiveSpec => []ColoursAreReported
<1>1. LiveInit => ColourInv
    BY LiveAssumption DEF LiveAssumption, LiveInit, ColourInv, Keys, Values
<1>2. ColourInv => ColoursAreReported
    BY DEF ColourInv, ColoursAreReported
<1> QED
    BY <1>1, <1>2, ColourStep, PTL DEF LiveSpec

-----------------------------------------------------------------------------
(* RuntimeEvents: the views                                                *)

(* What is still under way to a client: the events of its queue, and the   *)
(* one being published unless the client was put it or joined too late.    *)
Owed(c) == event # NoEvent /\ (c \in targets \/ targets = {})
Names(q, k) == \E i \in 1..Len(q) : q[i].key = k
Reflects(q, k, v) ==
    \A i \in 1..Len(q) :
        q[i].key = k => q[i].value = v \/ \E j \in 1..Len(q) : i < j /\ q[j].key = k

(* The part of the snapshot that a client has read.                        *)
Told(c, k) == client[c] = "events" \/ (client[c] = "tracks" /\ k = "run")

(* The last that a client hears of a record is what the record holds: the  *)
(* event being published, the last of its queue, or what it has been told. *)
Follows(c, k) ==
    \/ Owed(c) /\ event.key = k
    \/ /\ Reflects(queue[c], k, record[k])
       /\ Told(c, k) /\ ~ Names(queue[c], k) => view[c][k] = record[k]

ViewTypes ==
    /\ record \in [Keys -> Values]
    /\ view \in [Clients -> [Keys -> Values]]
    /\ client \in [Clients -> {"out", "system", "tracks", "events", "gone"}]
    /\ overrun \in [Clients -> BOOLEAN]

ViewsFollow ==
    /\ event # NoEvent => event.value = record[event.key]
    /\ \A c \in Clients :
          /\ c \in subscribed <=> client[c] \in {"system", "tracks", "events"}
          /\ client[c] = "out" => queue[c] = <<>> /\ c \notin targets
          /\ c \in subscribed /\ ~ overrun[c] => \A k \in Keys : Follows(c, k)

ViewInv == LiveInv /\ ViewTypes /\ ViewsFollow

-----------------------------------------------------------------------------
(* An event put into a queue is the last of its record, and of no other.   *)
LEMMA AppendReflects ==
    ASSUME NEW q \in Seq(Events), NEW e \in Events, NEW k \in Keys, NEW v
    PROVE  /\ Reflects(Append(q, e), e.key, e.value)
           /\ e.key # k => /\ Reflects(q, k, v) => Reflects(Append(q, e), k, v)
                           /\ Names(Append(q, e), k) <=> Names(q, k)
           /\ Names(Append(q, e), e.key)
<1> DEFINE r == Append(q, e)
<1>1. /\ r \in Seq(Events) /\ Len(q) \in Nat /\ Len(r) = Len(q) + 1
      /\ \A i \in 1 .. Len(q) : r[i] = q[i]
      /\ r[Len(q) + 1] = e
    BY AppendFacts
<1> HIDE DEF r
<1>2. \A i \in 1..Len(r) : i \in 1..Len(q) \/ i = Len(q) + 1
    BY <1>1
<1>3. \A i \in 1..Len(q) : i \in 1..Len(r) /\ i < Len(q) + 1
    BY <1>1
<1>4. Len(q) + 1 \in 1..Len(r)
    BY <1>1
<1>5. Names(r, e.key)
    BY <1>1, <1>4 DEF Names
<1>6. Reflects(r, e.key, e.value)
    BY <1>1, <1>2, <1>3, <1>4 DEF Reflects
<1>7. ASSUME e.key # k PROVE Names(r, k) <=> Names(q, k)
    BY <1>1, <1>2, <1>3, <1>7 DEF Names
<1>8. ASSUME e.key # k, Reflects(q, k, v) PROVE Reflects(r, k, v)
    <2> SUFFICES ASSUME NEW i \in 1..Len(r), r[i].key = k
                 PROVE  r[i].value = v \/ \E j \in 1..Len(r) : i < j /\ r[j].key = k
        BY DEF Reflects
    <2>1. i \in 1..Len(q)
        BY <1>1, <1>2, <1>8
    <2> QED
        BY <1>1, <1>3, <1>8, <2>1 DEF Reflects
<1> QED
    BY <1>5, <1>6, <1>7, <1>8 DEF r

(* Taking the head of a queue leaves the last of each record, unless the   *)
(* head was that.                                                          *)
LEMMA TailReflects ==
    ASSUME NEW q \in Seq(Events), q # <<>>, NEW k \in Keys, NEW v, Reflects(q, k, v)
    PROVE  /\ Reflects(Tail(q), k, v)
           /\ Names(q, k) /\ ~ Names(Tail(q), k) => Head(q).key = k /\ Head(q).value = v
           /\ Head(q).key = k => Names(q, k)
<1> DEFINE r == Tail(q)
<1>1. /\ r \in Seq(Events) /\ Len(q) \in Nat /\ Len(q) >= 1
      /\ Head(q) = q[1] /\ Len(r) = Len(q) - 1
      /\ \A i \in 1 .. Len(q) - 1 : r[i] = q[i + 1]
    BY TailFacts
<1> HIDE DEF r
<1>2. \A i \in 1..Len(r) : i + 1 \in 1..Len(q) /\ r[i] = q[i + 1]
    BY <1>1
<1>3. \A j \in 1..Len(q) : j # 1 => j - 1 \in 1..Len(r) /\ r[j - 1] = q[j]
    BY <1>1
<1>4. Reflects(r, k, v)
    <2> SUFFICES ASSUME NEW i \in 1..Len(r), r[i].key = k
                 PROVE  r[i].value = v \/ \E j \in 1..Len(r) : i < j /\ r[j].key = k
        BY DEF Reflects
    <2>1. CASE q[i + 1].value = v
        BY <1>2, <2>1
    <2>2. CASE q[i + 1].value # v
        <3>1. PICK j \in 1..Len(q) : i + 1 < j /\ q[j].key = k
            BY <1>2, <2>2 DEF Reflects
        <3>2. j - 1 \in 1..Len(r) /\ r[j - 1].key = k /\ i < j - 1
            BY <1>1, <1>3, <3>1
        <3> QED
            BY <3>2
    <2> QED
        BY <2>1, <2>2
<1>5. ASSUME Names(q, k), ~ Names(r, k) PROVE Head(q).key = k /\ Head(q).value = v
    <2>1. \A j \in 1..Len(q) : q[j].key = k => j = 1
        BY <1>3, <1>5 DEF Names
    <2>2. 1 \in 1..Len(q) /\ q[1].key = k
        BY <2>1, <1>5 DEF Names
    <2> QED
        BY <1>1, <2>1, <2>2 DEF Reflects
<1>6. Head(q).key = k => Names(q, k)
    BY <1>1 DEF Names
<1> QED
    BY <1>4, <1>5, <1>6 DEF r

-----------------------------------------------------------------------------
(* What becomes of the queues and the snapshot matters to no other client. *)
LEMMA OthersFollow ==
    ASSUME ViewInv, LiveInv', NEW c \in Clients,
           UNCHANGED record, event' \in {event, NoEvent},
           ViewTypes',
           \A d \in Clients : d # c =>
              /\ d \in subscribed' <=> d \in subscribed
              /\ client'[d] = client[d] /\ queue'[d] = queue[d] /\ view'[d] = view[d]
              /\ overrun'[d] = overrun[d]
              /\ d \in subscribed => Owed(d)' = Owed(d)
              /\ d \in targets' => d \in targets,
           /\ c \in subscribed' <=> client'[c] \in {"system", "tracks", "events"}
           /\ client'[c] = "out" => queue'[c] = <<>> /\ c \notin targets'
           /\ c \in subscribed' /\ ~ overrun'[c] => \A k \in Keys : Follows(c, k)'
    PROVE  ViewInv'
<1>1. event' # NoEvent => event'.value = record'[event'.key]
    BY DEF ViewInv, ViewsFollow
<1>2. ASSUME NEW d \in Clients, d # c
      PROVE  /\ d \in subscribed' <=> client'[d] \in {"system", "tracks", "events"}
             /\ client'[d] = "out" => queue'[d] = <<>> /\ d \notin targets'
             /\ d \in subscribed' /\ ~ overrun'[d] => \A k \in Keys : Follows(d, k)'
    <2>1. /\ d \in subscribed <=> client[d] \in {"system", "tracks", "events"}
          /\ client[d] = "out" => queue[d] = <<>> /\ d \notin targets
          /\ d \in subscribed /\ ~ overrun[d] => \A k \in Keys : Follows(d, k)
        BY DEF ViewInv, ViewsFollow
    <2>2. ASSUME NEW k \in Keys, d \in subscribed, Follows(d, k) PROVE Follows(d, k)'
        <3>1. CASE Owed(d) /\ event.key = k
            <4>1. Owed(d)' /\ event' = event
                BY <1>2, <2>2, <3>1 DEF Owed
            <4> QED
                BY <3>1, <4>1 DEF Follows
        <3>2. CASE ~ (Owed(d) /\ event.key = k)
            BY <1>2, <2>2, <3>2 DEF Follows, Told
        <3> QED
            BY <3>1, <3>2
    <2> QED
        BY <1>2, <2>1, <2>2
<1> QED
    BY <1>1, <1>2 DEF ViewInv, ViewsFollow

(* An update is owed to every subscriber until it is listed.               *)
LEMMA UpdateFollows ==
    ASSUME ViewInv, LiveInv', NEW k \in Keys, NEW v \in Values, Update(k, v)
    PROVE  ViewInv'
<1>1. /\ event = NoEvent /\ targets = {} /\ targets' = {}
      /\ record' = [record EXCEPT ![k] = v]
      /\ event'.key = k /\ event'.value = v /\ event'.n = updates'
      /\ updates' = updates + 1 /\ updates \in Nat
      /\ UNCHANGED <<subscribed, client, view, queue, overrun>>
    BY DEF Update, Idle, ViewInv, LiveInv, ThreadSound, QueueTypes, clientVars
<1>2. event' # NoEvent
    BY <1>1 DEF NoEvent
<1>3. /\ record' \in [Keys -> Values] /\ record'[k] = v
      /\ \A j \in Keys : j # k => record'[j] = record[j]
    BY <1>1 DEF ViewInv, ViewTypes
<1>4. ASSUME NEW c \in Clients, c \in subscribed, ~ overrun[c], NEW j \in Keys
      PROVE  Follows(c, j)'
    <2>1. Follows(c, j) /\ ~ Owed(c)
        BY <1>1, <1>4 DEF ViewInv, ViewsFollow, Owed
    <2>2. Owed(c)'
        BY <1>1, <1>2 DEF Owed
    <2>3. CASE j = k
        BY <1>1, <2>2, <2>3 DEF Follows
    <2>4. CASE j # k
        BY <1>1, <1>3, <2>1, <2>4 DEF Follows, Told
    <2> QED
        BY <2>3, <2>4
<1> QED
    BY <1>1, <1>3, <1>4 DEF ViewInv, ViewTypes, ViewsFollow

(* Only an update of a record publishes one.                               *)
LEMMA UpdatesOnly ==
    ASSUME \/ \E t \in LiveTracks : ObserveTrack(t) \/ CompleteTrack(t) \/ ReportColour(t)
           \/ CompleteRun \/ FailRun
    PROVE  \E k \in Keys, v \in Values : Update(k, v)
<1>1. LiveTracks \subseteq Keys /\ "run" \in Keys
      /\ {"active", "coloured", "pending", "flushed", "completed", "failed"} \subseteq Values
    BY DEF Keys, Values
<1>2. ASSUME NEW t \in LiveTracks, ObserveTrack(t) PROVE Update(t, "active")
    BY <1>2 DEF ObserveTrack
<1>3. ASSUME NEW t \in LiveTracks, CompleteTrack(t)
      PROVE  Update(t, "coloured") \/ Update(t, "pending")
    <2>1. PICK last \in BOOLEAN : Update(t, IF last THEN "coloured" ELSE "pending")
        BY <1>3 DEF CompleteTrack
    <2>2. CASE last
        BY <2>1, <2>2
    <2>3. CASE ~ last
        BY <2>1, <2>3
    <2> QED
        BY <2>2, <2>3
<1>4. ASSUME NEW t \in LiveTracks, ReportColour(t)
      PROVE  Update(t, "flushed") \/ Update(t, "coloured")
    <2>1. Update(t, IF record[t] = "active" THEN "flushed" ELSE "coloured")
        BY <1>4 DEF ReportColour
    <2>2. CASE record[t] = "active"
        BY <2>1, <2>2
    <2>3. CASE record[t] # "active"
        BY <2>1, <2>3
    <2> QED
        BY <2>2, <2>3
<1>5. ASSUME CompleteRun \/ FailRun
      PROVE  Update("run", "completed") \/ Update("run", "failed")
    BY <1>5 DEF CompleteRun, FailRun
<1> HIDE DEF Update
<1> QED
    BY <1>1, <1>2, <1>3, <1>4, <1>5

(* The thread's part: updates, and the end of the loop, which has none.    *)
LEMMA ThreadFollows ==
    ASSUME ViewInv, LiveInv',
           (\E t \in LiveTracks : ObserveTrack(t) \/ CompleteTrack(t) \/ ReportColour(t))
           \/ FinishLoop \/ CompleteRun \/ FailRun
    PROVE  ViewInv'
<1>1. CASE FinishLoop
    BY <1>1 DEF FinishLoop, clientVars, ViewInv, ViewTypes, ViewsFollow, Follows, Owed, Told
<1>2. CASE ~ FinishLoop
    <2>1. PICK k \in Keys, v \in Values : Update(k, v)
        BY <1>2, UpdatesOnly
    <2> QED
        BY <2>1, UpdateFollows
<1> QED
    BY <1>1, <1>2

(* Listing owes the event to those it was owed to.                         *)
LEMMA ListFollows ==
    ASSUME ViewInv, LiveInv', ListSubscribers
    PROVE  ViewInv'
<1>1. /\ event # NoEvent /\ targets = {}
      /\ UNCHANGED <<record, subscribed, client, view, queue, overrun>>
      /\ \/ subscribed = {} /\ event' = NoEvent /\ targets' = {}
         \/ subscribed # {} /\ event' = event /\ targets' = subscribed
    BY DEF ListSubscribers, runVars, clientVars
<1>2. ASSUME NEW c \in Clients, c \in subscribed
      PROVE  Owed(c)' /\ Owed(c) /\ event' = event
    BY <1>1, <1>2 DEF Owed
<1>3. ASSUME NEW c \in Clients, c \in subscribed, ~ overrun[c], NEW k \in Keys
      PROVE  Follows(c, k)'
    <2>1. Follows(c, k)
        BY <1>3 DEF ViewInv, ViewsFollow
    <2> QED
        BY <1>1, <1>2, <1>3, <2>1 DEF Follows, Told
<1>4. \A c \in targets' : client[c] # "out"
    BY <1>1 DEF ViewInv, LiveInv, QueueTypes, ViewsFollow
<1> QED
    BY <1>1, <1>3, <1>4 DEF ViewInv, ViewTypes, ViewsFollow

(* The event a client is put is the last it hears of that record.          *)
LEMMA PutFollows ==
    ASSUME ViewInv, LiveInv', NEW c \in targets, Len(queue[c]) < QueueSize,
           queue' = [queue EXCEPT ![c] = Append(queue[c], event)], Delivered(c),
           UNCHANGED <<runVars, clientVars, overrun>>
    PROVE  ViewInv'
<1>1. /\ c \in Clients /\ event # NoEvent /\ event \in Events /\ event.key \in Keys
      /\ queue \in [Clients -> Seq(Events)] /\ queue[c] \in Seq(Events)
    BY DEF ViewInv, LiveInv, QueueTypes, ThreadSound, Events
<1>2. /\ targets' = targets \ {c}
      /\ event' = IF targets' = {} THEN NoEvent ELSE event
      /\ UNCHANGED <<record, subscribed, client, view, overrun>>
    BY DEF Delivered, runVars, clientVars
<1>3. /\ queue'[c] = Append(queue[c], event)
      /\ \A d \in Clients : d # c => queue'[d] = queue[d]
    BY <1>1
<1>4. ASSUME c \in subscribed, ~ overrun[c], NEW k \in Keys PROVE Follows(c, k)'
    <2>1. Follows(c, k) /\ event.value = record[event.key]
        BY <1>1, <1>4 DEF ViewInv, ViewsFollow
    <2>2. CASE event.key = k
        <3>1. Reflects(queue'[c], k, record[k]) /\ Names(queue'[c], k)
            BY <1>1, <1>3, <2>1, <2>2, AppendReflects
        <3> QED
            BY <1>2, <3>1 DEF Follows
    <2>3. CASE event.key # k
        <3>1. /\ Reflects(queue[c], k, record[k])
              /\ Told(c, k) /\ ~ Names(queue[c], k) => view[c][k] = record[k]
            BY <2>1, <2>3 DEF Follows
        <3>2. /\ Reflects(queue'[c], k, record[k])
              /\ Names(queue'[c], k) <=> Names(queue[c], k)
            BY <1>1, <1>3, <2>3, <3>1, AppendReflects
        <3> QED
            BY <1>2, <3>1, <3>2 DEF Follows, Told
    <2> QED
        BY <2>2, <2>3
<1>5. ASSUME NEW d \in Clients, d # c PROVE Owed(d)' = Owed(d)
    <2>1. d \in targets' <=> d \in targets
        BY <1>2, <1>5
    <2>2. CASE targets' = {}
        BY <1>2, <2>1, <2>2 DEF Owed
    <2>3. CASE targets' # {}
        BY <1>2, <2>1, <2>3 DEF Owed
    <2> QED
        BY <2>2, <2>3
<1>6. /\ c \in subscribed <=> client[c] \in {"system", "tracks", "events"}
      /\ client[c] # "out"
    BY <1>1 DEF ViewInv, ViewsFollow
<1>7. ViewTypes'
    BY <1>2 DEF ViewInv, ViewTypes
<1>8. event' \in {event, NoEvent} /\ UNCHANGED record
    BY <1>2
<1>9. \A d \in Clients : d # c =>
              /\ d \in subscribed' <=> d \in subscribed
              /\ client'[d] = client[d] /\ queue'[d] = queue[d] /\ view'[d] = view[d]
              /\ overrun'[d] = overrun[d]
              /\ d \in subscribed => Owed(d)' = Owed(d)
              /\ d \in targets' => d \in targets
    BY <1>2, <1>3, <1>5
<1>10. /\ c \in subscribed' <=> client'[c] \in {"system", "tracks", "events"}
       /\ client'[c] = "out" => queue'[c] = <<>> /\ c \notin targets'
       /\ c \in subscribed' /\ ~ overrun'[c] => \A k \in Keys : Follows(c, k)'
    BY <1>2, <1>4, <1>6
<1> QED
    BY <1>1, <1>7, <1>8, <1>9, <1>10, OthersFollow

(* publish_event for one client.                                           *)
LEMMA DeliveryFollows ==
    ASSUME ViewInv, LiveInv', (\E c \in Clients : PutEvent(c)) \/ DropOldest \/ PutAgain
    PROVE  ViewInv'
<1>1. ASSUME NEW c \in Clients, PutEvent(c) PROVE ViewInv'
    <2>1. c \in targets /\ UNCHANGED <<runVars, clientVars, overrun>>
        BY <1>1 DEF PutEvent
    <2>2. CASE Len(queue[c]) < QueueSize
        <3>1. queue' = [queue EXCEPT ![c] = Append(queue[c], event)] /\ Delivered(c)
            BY <1>1, <2>2 DEF PutEvent
        <3> QED
            BY <2>1, <2>2, <3>1, PutFollows
    <2>3. CASE ~ (Len(queue[c]) < QueueSize)
        <3>1. UNCHANGED <<event, targets, queue>>
            BY <1>1, <2>3 DEF PutEvent
        <3> QED
            BY <2>1, <3>1
            DEF runVars, clientVars, ViewInv, ViewTypes, ViewsFollow, Follows, Owed, Told
    <2> QED
        BY <2>2, <2>3
<1>2. ASSUME DropOldest PROVE ViewInv'
    <2>0. PICK c : c = delivery.to
        OBVIOUS
    <2>1. /\ delivery # NoDelivery /\ c \in targets /\ c \in Clients
          /\ queue \in [Clients -> Seq(Events)] /\ overrun \in [Clients -> BOOLEAN]
        BY <1>2, <2>0 DEF DropOldest, NoDelivery, ViewInv, ViewTypes, LiveInv, ThreadSound, QueueTypes
    <2>2. /\ queue' = [queue EXCEPT ![c] = IF queue[c] = <<>> THEN queue[c] ELSE Tail(queue[c])]
          /\ overrun' = [overrun EXCEPT ![c] = overrun[c] \/ queue[c] # <<>>]
          /\ UNCHANGED <<record, event, targets, subscribed, client, view>>
        BY <1>2, <2>0 DEF DropOldest, runVars, clientVars
    <2>3. /\ overrun' \in [Clients -> BOOLEAN]
          /\ overrun'[c] = (overrun[c] \/ queue[c] # <<>>)
          /\ queue'[c] = IF queue[c] = <<>> THEN queue[c] ELSE Tail(queue[c])
          /\ \A d \in Clients : d # c => overrun'[d] = overrun[d] /\ queue'[d] = queue[d]
        BY <2>1, <2>2
    <2>4. ViewTypes'
        BY <2>2, <2>3 DEF ViewInv, ViewTypes
    <2>5. \A d \in Clients : d # c =>
              /\ d \in subscribed' <=> d \in subscribed
              /\ client'[d] = client[d] /\ queue'[d] = queue[d] /\ view'[d] = view[d]
              /\ overrun'[d] = overrun[d]
              /\ d \in subscribed => Owed(d)' = Owed(d)
              /\ d \in targets' => d \in targets
        BY <2>2, <2>3 DEF Owed
    <2>6. ASSUME c \in subscribed', ~ overrun'[c], NEW k \in Keys PROVE Follows(c, k)'
        <3>1. queue'[c] = queue[c] /\ ~ overrun[c]
            BY <2>3, <2>6
        <3>2. Follows(c, k)
            BY <2>1, <2>2, <2>6, <3>1 DEF ViewInv, ViewsFollow
        <3> QED
            BY <2>2, <3>1, <3>2 DEF Follows, Owed, Told
    <2>7. client[c] # "out" /\ (c \in subscribed <=> client[c] \in {"system", "tracks", "events"})
        BY <2>1 DEF ViewInv, ViewsFollow
    <2>8. /\ c \in subscribed' <=> client'[c] \in {"system", "tracks", "events"}
          /\ client'[c] = "out" => queue'[c] = <<>> /\ c \notin targets'
          /\ c \in subscribed' /\ ~ overrun'[c] => \A k \in Keys : Follows(c, k)'
        BY <2>2, <2>6, <2>7
    <2>9. UNCHANGED record /\ event' \in {event, NoEvent}
        BY <2>2
    <2> QED
        BY <2>1, <2>4, <2>5, <2>8, <2>9, OthersFollow
<1>3. ASSUME PutAgain PROVE ViewInv'
    <2>0. PICK c : c = delivery.to
        OBVIOUS
    <2>1. delivery # NoDelivery /\ delivery.step = "again"
        BY <1>3 DEF PutAgain, NoDelivery
    <2>2. /\ c \in targets /\ c \in Clients /\ Len(queue[c]) < QueueSize
          /\ overrun \in [Clients -> BOOLEAN] /\ queue[c] \in Seq(Events)
        BY <2>0, <2>1 DEF ViewInv, ViewTypes, LiveInv, ThreadSound, QueueTypes
    <2>3. /\ queue' = [queue EXCEPT ![c] = IF Len(queue[c]) < QueueSize
                                         THEN Append(queue[c], event) ELSE queue[c]]
          /\ overrun' = [overrun EXCEPT ![c] = overrun[c] \/ Len(queue[c]) = QueueSize]
          /\ Delivered(c) /\ UNCHANGED <<runVars, clientVars>>
        BY <1>3, <2>0 DEF PutAgain
    <2>4. Len(queue[c]) # QueueSize
        BY <2>2, LiveAssumption DEF LiveAssumption
    <2>5. (overrun[c] \/ Len(queue[c]) = QueueSize) = overrun[c]
        BY <2>2, <2>4
    <2>6. overrun' = overrun
        <3>1. overrun' = [overrun EXCEPT ![c] = overrun[c]]
            BY <2>3, <2>5
        <3> QED
            BY <2>2, <3>1
    <2>7. queue' = [queue EXCEPT ![c] = Append(queue[c], event)]
        BY <2>2, <2>3
    <2> QED
        BY <2>2, <2>3, <2>6, <2>7, PutFollows
<1> QED
    BY <1>1, <1>2, <1>3

(* A client that takes an event knows the record, unless more is to come.  *)
LEMMA TakeFollows ==
    ASSUME ViewInv, LiveInv', NEW c \in Clients, SendEvent(c)
    PROVE  ViewInv'
<1> DEFINE e == Head(queue[c])
<1>1. /\ client[c] = "events" /\ queue[c] # <<>> /\ queue[c] \in Seq(Events)
      /\ e \in Events /\ e.key \in Keys /\ e.value \in Values
    <2>1. client[c] = "events" /\ queue[c] # <<>> /\ queue[c] \in Seq(Events)
        BY DEF SendEvent, ViewInv, LiveInv, QueueTypes
    <2>2. e \in Events
        BY <2>1, TailFacts
    <2> QED
        BY <2>1, <2>2 DEF Events
<1>2. /\ view' = [view EXCEPT ![c][e.key] = e.value]
      /\ queue' = [queue EXCEPT ![c] = Tail(queue[c])]
      /\ UNCHANGED <<record, event, targets, subscribed, client, overrun>>
    BY DEF SendEvent, runVars
<1> HIDE DEF e
<1>3. /\ view' \in [Clients -> [Keys -> Values]]
      /\ \A d \in Clients : d # c => view'[d] = view[d] /\ queue'[d] = queue[d]
      /\ queue'[c] = Tail(queue[c])
      /\ view'[c][e.key] = e.value
      /\ \A k \in Keys : k # e.key => view'[c][k] = view[c][k]
    <2>1. view \in [Clients -> [Keys -> Values]] /\ queue \in [Clients -> Seq(Events)]
        BY DEF ViewInv, ViewTypes, LiveInv, QueueTypes
    <2> QED
        BY <1>1, <1>2, <2>1
<1>4. ASSUME c \in subscribed, ~ overrun[c], NEW k \in Keys PROVE Follows(c, k)'
    <2>1. Follows(c, k) /\ Told(c, k)
        BY <1>1, <1>4 DEF ViewInv, ViewsFollow, Told
    <2>2. CASE Owed(c) /\ event.key = k
        BY <1>2, <2>2 DEF Follows, Owed
    <2>3. CASE ~ (Owed(c) /\ event.key = k)
        <3>1. /\ Reflects(queue[c], k, record[k])
              /\ ~ Names(queue[c], k) => view[c][k] = record[k]
            BY <2>1, <2>3 DEF Follows
        <3>2. /\ Reflects(queue'[c], k, record[k])
              /\ Names(queue[c], k) /\ ~ Names(queue'[c], k) =>
                    e.key = k /\ e.value = record[k]
              /\ e.key = k => Names(queue[c], k)
            BY <1>1, <1>3, <3>1, TailReflects DEF e
        <3>3. ~ Names(queue'[c], k) => view'[c][k] = record[k]
            BY <1>3, <3>1, <3>2
        <3> QED
            BY <1>2, <3>2, <3>3 DEF Follows
    <2> QED
        BY <2>2, <2>3
<1>5. \A d \in Clients : d # c =>
          /\ d \in subscribed' <=> d \in subscribed
          /\ client'[d] = client[d] /\ queue'[d] = queue[d] /\ view'[d] = view[d]
          /\ overrun'[d] = overrun[d]
          /\ d \in subscribed => Owed(d)' = Owed(d)
          /\ d \in targets' => d \in targets
    BY <1>2, <1>3 DEF Owed
<1>6. c \in subscribed <=> client[c] \in {"system", "tracks", "events"}
    BY DEF ViewInv, ViewsFollow
<1>7. ViewTypes'
    BY <1>2, <1>3 DEF ViewInv, ViewTypes
<1>8. UNCHANGED record /\ event' \in {event, NoEvent}
    BY <1>2
<1>9. /\ c \in subscribed' <=> client'[c] \in {"system", "tracks", "events"}
      /\ client'[c] = "out" => queue'[c] = <<>> /\ c \notin targets'
      /\ c \in subscribed' /\ ~ overrun'[c] => \A k \in Keys : Follows(c, k)'
    BY <1>1, <1>2, <1>4, <1>6
<1> QED
    BY <1>5, <1>7, <1>8, <1>9, OthersFollow

(* Subscribing comes first, then the parts of the snapshot.                *)
LEMMA HandlersFollow ==
    ASSUME ViewInv, LiveInv', NEW c \in Clients,
           Connect(c) \/ SnapshotSystem(c) \/ SnapshotTracks(c) \/ Disconnect(c)
    PROVE  ViewInv'
<1>0. /\ record \in [Keys -> Values] /\ view \in [Clients -> [Keys -> Values]]
      /\ client \in [Clients -> {"out", "system", "tracks", "events", "gone"}]
      /\ overrun \in [Clients -> BOOLEAN]
      /\ "run" \in Keys
    BY DEF ViewInv, ViewTypes, Keys
<1>1. /\ UNCHANGED <<record, event, targets, queue, overrun>>
      /\ \A d \in Clients : d # c => client'[d] = client[d] /\ view'[d] = view[d]
      /\ \A d \in Clients : d # c => (d \in subscribed' <=> d \in subscribed)
      /\ ViewTypes'
    <2>1. PICK w \in {"system", "tracks", "events", "gone"} : client' = [client EXCEPT ![c] = w]
        BY DEF Connect, SnapshotSystem, SnapshotTracks, Disconnect
    <2>2. PICK seen \in [Keys -> Values] : view' = [view EXCEPT ![c] = seen]
        <3>1. CASE SnapshotSystem(c)
            <4> DEFINE seen == [view[c] EXCEPT !["run"] = record["run"]]
            <4>1. view' = [view EXCEPT ![c] = seen]
                BY <3>1 DEF SnapshotSystem
            <4>2. seen \in [Keys -> Values]
                BY <1>0
            <4> QED
                BY <4>1, <4>2
        <3>2. CASE SnapshotTracks(c)
            <4> DEFINE seen == [k \in Keys |-> IF k = "run" THEN view[c][k] ELSE record[k]]
            <4>1. view' = [view EXCEPT ![c] = seen]
                BY <3>2 DEF SnapshotTracks
            <4>2. seen \in [Keys -> Values]
                BY <1>0
            <4> QED
                BY <4>1, <4>2
        <3>3. CASE Connect(c) \/ Disconnect(c)
            <4>1. view' = [view EXCEPT ![c] = view[c]] /\ view[c] \in [Keys -> Values]
                BY <1>0, <3>3 DEF Connect, Disconnect
            <4> QED
                BY <4>1
        <3> QED
            BY <3>1, <3>2, <3>3
    <2>3. /\ UNCHANGED <<record, event, targets, queue, overrun>>
          /\ \A d \in Clients : d # c => (d \in subscribed' <=> d \in subscribed)
        BY DEF runVars, Connect, SnapshotSystem, SnapshotTracks, Disconnect
    <2> QED
        BY <1>0, <2>1, <2>2, <2>3 DEF ViewTypes
<1>2. /\ c \in subscribed <=> client[c] \in {"system", "tracks", "events"}
      /\ client[c] = "out" => queue[c] = <<>> /\ c \notin targets
      /\ c \in subscribed /\ ~ overrun[c] => \A k \in Keys : Follows(c, k)
    BY DEF ViewInv, ViewsFollow
<1>3. \A d \in Clients : d # c =>
          /\ d \in subscribed' <=> d \in subscribed
          /\ client'[d] = client[d] /\ queue'[d] = queue[d] /\ view'[d] = view[d]
          /\ overrun'[d] = overrun[d]
          /\ d \in subscribed => Owed(d)' = Owed(d)
          /\ d \in targets' => d \in targets
    BY <1>1 DEF Owed
<1>4. CASE Connect(c)
    <2>1. client[c] = "out" /\ client'[c] = "system" /\ c \in subscribed'
        BY <1>0, <1>4 DEF Connect
    <2>2. \A k \in Keys : Follows(c, k)'
        <3>1. queue'[c] = <<>> /\ Len(<<>>) = 0
            BY <1>1, <1>2, <2>1
        <3> QED
            BY <2>1, <3>1 DEF Follows, Told, Reflects
    <2> QED
        BY <1>1, <1>3, <2>1, <2>2, OthersFollow
<1>5. CASE SnapshotSystem(c)
    <2>1. /\ client[c] = "system" /\ client'[c] = "tracks" /\ subscribed' = subscribed
          /\ view'[c]["run"] = record["run"]
        BY <1>0, <1>5 DEF SnapshotSystem
    <2>2. \A k \in Keys : Follows(c, k) => Follows(c, k)'
        BY <1>1, <2>1 DEF Follows, Told, Owed
    <2> QED
        BY <1>1, <1>2, <1>3, <2>1, <2>2, OthersFollow
<1>6. CASE SnapshotTracks(c)
    <2>1. /\ client[c] = "tracks" /\ client'[c] = "events" /\ subscribed' = subscribed
          /\ \A k \in Keys : view'[c][k] = IF k = "run" THEN view[c][k] ELSE record[k]
        BY <1>0, <1>6 DEF SnapshotTracks
    <2>2. \A k \in Keys : Follows(c, k) => Follows(c, k)'
        BY <1>1, <2>1 DEF Follows, Told, Owed
    <2> QED
        BY <1>1, <1>2, <1>3, <2>1, <2>2, OthersFollow
<1>7. CASE Disconnect(c)
    <2>1. client'[c] = "gone" /\ c \notin subscribed'
        BY <1>0, <1>7 DEF Disconnect
    <2> QED
        BY <1>1, <1>3, <2>1, OthersFollow
<1> QED
    BY <1>4, <1>5, <1>6, <1>7

(* Every step keeps what the clients are owed.                             *)
LEMMA ViewStep == ViewInv /\ [LiveNext]_liveVars => ViewInv'
<1> SUFFICES ASSUME ViewInv, [LiveNext]_liveVars PROVE ViewInv'
    OBVIOUS
<1>0. LiveInv'
    BY LiveStep DEF ViewInv
<1>1. CASE UNCHANGED liveVars
    BY <1>0, <1>1 DEF liveVars, runVars, clientVars, ViewInv, ViewTypes, ViewsFollow, Follows,
                      Owed, Told
<1>2. CASE (\E t \in LiveTracks : ObserveTrack(t) \/ CompleteTrack(t) \/ ReportColour(t))
           \/ FinishLoop \/ CompleteRun \/ FailRun
    BY <1>0, <1>2, ThreadFollows
<1>3. CASE ListSubscribers
    BY <1>0, <1>3, ListFollows
<1>4. CASE (\E c \in Clients : PutEvent(c)) \/ DropOldest \/ PutAgain
    BY <1>0, <1>4, DeliveryFollows
<1>5. ASSUME NEW c \in Clients, SendEvent(c) PROVE ViewInv'
    BY <1>0, <1>5, TakeFollows
<1>6. ASSUME NEW c \in Clients,
             Connect(c) \/ SnapshotSystem(c) \/ SnapshotTracks(c) \/ Disconnect(c)
      PROVE  ViewInv'
    BY <1>0, <1>6, HandlersFollow
<1> QED
    BY <1>1, <1>2, <1>3, <1>4, <1>5, <1>6 DEF LiveNext

(* A client that lost no event and has taken all it was sent sees every    *)
(* record as it is, whenever it connected and whatever was published while *)
(* it read its snapshot (live_updates: subscribe before the snapshot).     *)
THEOREM EveryClientCatchesUp == LiveSpec => []ClientsCatchUp
<1>1. LiveInit => ViewInv
    <2> SUFFICES ASSUME LiveInit PROVE ViewInv
        OBVIOUS
    <2>1. LiveInv
        BY LiveInitInv
    <2>2. ViewTypes
        BY DEF LiveInit, ViewTypes, Keys, Values
    <2>3. ViewsFollow
        BY DEF LiveInit, ViewsFollow
    <2> QED
        BY <2>1, <2>2, <2>3 DEF ViewInv
<1>2. ViewInv => ClientsCatchUp
    <2> SUFFICES ASSUME ViewInv, NEW c \in Clients, client[c] = "events", Idle,
                        queue[c] = <<>>, ~ overrun[c]
                 PROVE  view[c] = record
        BY DEF ClientsCatchUp
    <2>1. c \in subscribed /\ ~ Owed(c)
        BY DEF ViewInv, ViewsFollow, Owed, Idle
    <2>2. ASSUME NEW k \in Keys PROVE view[c][k] = record[k]
        <3>1. Follows(c, k) /\ Told(c, k)
            BY <2>1 DEF ViewInv, ViewsFollow, Told
        <3>2. ~ Names(queue[c], k)
            BY DEF Names
        <3> QED
            BY <2>1, <3>1, <3>2 DEF Follows
    <2>3. view[c] \in [Keys -> Values] /\ record \in [Keys -> Values]
        BY DEF ViewInv, ViewTypes
    <2> QED
        BY <2>2, <2>3
<1> QED
    BY <1>1, <1>2, ViewStep, PTL DEF LiveSpec

-----------------------------------------------------------------------------
(* RunPublication                                                          *)

(* The step of the body that writes an artifact.                           *)
WrittenBy(a) ==
    CASE a = "tracks" -> 5 [] a = "evidence" -> 6 [] a = "enrichment" -> 7 [] a = "vehicles" -> 8

(* What is on disk follows from how far the body has come, and its handler *)
(* touches the metadata and the summary only.  Nothing is imported before  *)
(* the body is past its import, and a run whose handler ended it is        *)
(* imported as FAILED.                                                     *)
BodyWrites ==
    script = "main" =>
        /\ at > 4 => disk["metadata"] = "COMPLETED"
        /\ at > 9 <=> disk["summary"] = "COMPLETED"
        /\ \A a \in Artifacts : at > WrittenBy(a) => Whole(a)
HandlerWrites ==
    script = "fail" =>
        /\ at \in 1..4
        /\ at > 1 => disk["metadata"] = "FAILED"
        /\ at > 3 => disk["summary"] = "FAILED"
        /\ disk["summary"] = "COMPLETED" => \A a \in Artifacts : Whole(a)
WritesAreOrdered ==
    /\ BodyWrites /\ HandlerWrites
    /\ torn # "none" => Running /\ Step[1] = "write" /\ Step[2] = torn
    /\ exitCode = "0" => script = "main" /\ at = 13
    /\ exitCode = "1" => script = "fail" /\ at = 4
ImportsAreLate ==
    LET complete == database.parts = Artifacts /\ database.status = "COMPLETED"
    IN /\ Running => database = NoRows \/ (script = "main" /\ at = 13)
       /\ script = "main" /\ at = 13 /\ database # NoRows => complete
       /\ exitCode = "1" => database = NoRows \/ database.status = "FAILED"
       /\ database # NoRows => "tracks" \in database.parts

PubInv == PubTypeOK /\ WritesAreOrdered /\ ImportsAreLate

-----------------------------------------------------------------------------

(* The body of run_pipeline, step by step.                                 *)
LEMMA MainSteps ==
    /\ Len(MainScript) = 13
    /\ MainScript[1] = <<"write", "metadata", "CREATED">>
    /\ MainScript[2] = <<"write", "metadata", "RUNNING">>
    /\ MainScript[3] = <<"process">>
    /\ MainScript[4] = <<"write", "metadata", "COMPLETED">>
    /\ MainScript[5] = <<"write", "tracks", "whole">>
    /\ MainScript[6] = <<"write", "evidence", "whole">>
    /\ MainScript[7] = <<"write", "enrichment", "whole">>
    /\ MainScript[8] = <<"write", "vehicles", "whole">>
    /\ MainScript[9] = <<"write", "summary", "COMPLETED">>
    /\ MainScript[10] = <<"announce", "COMPLETED">>
    /\ MainScript[11] = <<"reset">>
    /\ MainScript[12] = <<"import">>
    /\ MainScript[13] = <<"exit", "0">>
    BY DEF MainScript, StartSteps, TrackSteps, ResultSteps, SummarySteps, EndSteps

(* The steps of its exception handler.                                     *)
LEMMA FailSteps ==
    /\ FailScript[1] = <<"write", "metadata", "FAILED">>
    /\ FailScript[2] = <<"announce", "FAILED">>
    /\ FailScript[3] = <<"write", "summary", "FAILED">>
    /\ FailScript[4] = <<"exit", "1">>
    BY DEF FailScript

(* The step that writes a file of the body.                                *)
LEMMA BodyStep ==
    ASSUME at \in 1..13, script = "main"
    PROVE  /\ Step = MainScript[at]
           /\ Step[1] \in {"write", "process", "announce", "reset", "import", "exit"}
           /\ Step[1] = "process" <=> at = 3
           /\ Step[1] = "announce" <=> at = 10
           /\ Step[1] = "reset" <=> at = 11
           /\ Step[1] = "import" <=> at = 12
           /\ Step[1] = "exit" <=> at = 13
           /\ at = 10 => Step[2] = "COMPLETED"
           /\ at = 13 => Step[2] = "0"
           /\ Step[1] = "write" =>
                 /\ Step[2] \in Files
                 /\ Step[3] \in {"whole", "CREATED", "RUNNING", "COMPLETED"}
                 /\ Step[2] = "metadata" <=> at <= 4
                 /\ at = 4 => Step[3] = "COMPLETED"
                 /\ \A a \in Artifacts : Step[2] = a <=> at = WrittenBy(a)
                 /\ at \in 5..8 => Step[3] = "whole"
                 /\ Step[2] = "summary" <=> at = 9
                 /\ at = 9 => Step[3] = "COMPLETED"
<1>1. Step = MainScript[at]
    BY DEF Step
<1>2. \/ at = 1 \/ at = 2 \/ at = 3 \/ at = 4 \/ at = 5 \/ at = 6 \/ at = 7 \/ at = 8
      \/ at = 9 \/ at = 10 \/ at = 11 \/ at = 12 \/ at = 13
    OBVIOUS
<1>3. CASE at <= 4
    BY <1>1, <1>2, <1>3, MainSteps DEF Files, Artifacts, WrittenBy
<1>4. CASE at \in 5..8
    BY <1>1, <1>2, <1>4, MainSteps DEF Files, Artifacts, WrittenBy
<1>5. CASE at \in 9..13
    BY <1>1, <1>2, <1>5, MainSteps DEF Files, Artifacts, WrittenBy
<1> QED
    BY <1>3, <1>4, <1>5

(* The step of the handler that is next.                                   *)
LEMMA HandlerStep ==
    ASSUME at \in 1..4, script = "fail"
    PROVE  /\ Step[1] \in {"write", "announce", "exit"}
           /\ Step[1] = "announce" <=> at = 2
           /\ Step[1] = "exit" <=> at = 4
           /\ at = 2 => Step[2] = "FAILED"
           /\ at = 4 => Step[2] = "1"
           /\ Step[1] = "write" =>
                 /\ Step[3] = "FAILED"
                 /\ (at = 1 /\ Step[2] = "metadata") \/ (at = 3 /\ Step[2] = "summary")
<1>1. Step = FailScript[at]
    BY DEF Step
<1> QED
    BY <1>1, FailSteps

(* Every step keeps the order of the artifacts.                            *)
LEMMA PubStep == PubInv /\ [PubNext]_pubVars => PubInv'
<1> SUFFICES ASSUME PubInv, [PubNext]_pubVars PROVE PubInv'
    OBVIOUS
<1>0. /\ at \in 1..13 /\ at \in Nat
      /\ script \in {"main", "fail"}
      /\ \A a \in Artifacts : a \in Files /\ WrittenBy(a) \in 5..8
      /\ "metadata" \notin Artifacts /\ "summary" \notin Artifacts
      /\ "metadata" \in Files /\ "summary" \in Files
      /\ "none" \notin Files
    BY MainSteps DEF PubInv, PubTypeOK, WrittenBy, Artifacts, Files
<1>1. CASE BeginWrite
    <2>1. /\ Running /\ Step[1] = "write" /\ torn' = Step[2]
          /\ disk' = [disk EXCEPT ![Step[2]] = "torn"]
          /\ UNCHANGED <<script, at, exitCode, announced, database, imports>>
        BY <1>1 DEF BeginWrite
    <2>2. Step[2] \in Files
        BY <1>0, <2>1, BodyStep, HandlerStep DEF PubInv, WritesAreOrdered, HandlerWrites, Files
    <2>3. PubTypeOK'
        BY <2>1, <2>2 DEF PubInv, PubTypeOK
    <2>4. /\ disk'[Step[2]] = "torn" /\ \A f \in Files : f # Step[2] => disk'[f] = disk[f]
          /\ Step' = Step /\ Running'
        BY <2>1, <2>2 DEF PubInv, PubTypeOK, Step, Running
    <2>5. BodyWrites'
        <3> SUFFICES ASSUME script = "main" PROVE BodyWrites'
            BY <2>1 DEF BodyWrites
        <3> QED
            BY <1>0, <2>1, <2>4, BodyStep DEF PubInv, WritesAreOrdered, BodyWrites, Whole
    <2>6. HandlerWrites'
        <3> SUFFICES ASSUME script = "fail" PROVE HandlerWrites'
            BY <2>1 DEF HandlerWrites
        <3> QED
            BY <1>0, <2>1, <2>4, HandlerStep DEF PubInv, WritesAreOrdered, HandlerWrites, Whole
    <2>7. WritesAreOrdered'
        BY <2>1, <2>4, <2>5, <2>6 DEF PubInv, WritesAreOrdered, Running
    <2>8. ImportsAreLate'
        BY <2>1 DEF PubInv, ImportsAreLate, Running
    <2> QED
        BY <2>3, <2>7, <2>8 DEF PubInv
<1>2. CASE EndWrite
    <2>1. /\ Running /\ torn # "none" /\ at' = at + 1 /\ torn' = "none"
          /\ disk' = [disk EXCEPT ![torn] = Step[3]]
          /\ UNCHANGED <<script, exitCode, announced, database, imports>>
        BY <1>2 DEF EndWrite
    <2>2. Step[1] = "write" /\ torn = Step[2] /\ torn \in Files
        BY <2>1 DEF PubInv, PubTypeOK, WritesAreOrdered
    <2>3. /\ Step[3] \in {"whole", "CREATED", "RUNNING", "COMPLETED", "FAILED"}
          /\ at < 13
        BY <1>0, <2>2, BodyStep, HandlerStep DEF PubInv, WritesAreOrdered, HandlerWrites
    <2>4. PubTypeOK'
        BY <1>0, <2>1, <2>2, <2>3, MainSteps DEF PubInv, PubTypeOK
    <2>5. disk'[torn] = Step[3] /\ \A f \in Files : f # torn => disk'[f] = disk[f]
        BY <2>1, <2>2 DEF PubInv, PubTypeOK
    <2>6. BodyWrites'
        <3> SUFFICES ASSUME script = "main" PROVE BodyWrites'
            BY <2>1 DEF BodyWrites
        <3>1. at' > 4 => disk'["metadata"] = "COMPLETED"
            BY <1>0, <2>1, <2>2, <2>5, BodyStep DEF PubInv, WritesAreOrdered, BodyWrites
        <3>2. at' > 9 <=> disk'["summary"] = "COMPLETED"
            BY <1>0, <2>1, <2>2, <2>5, BodyStep DEF PubInv, WritesAreOrdered, BodyWrites
        <3>3. \A a \in Artifacts : at' > WrittenBy(a) => Whole(a)'
            BY <1>0, <2>1, <2>2, <2>5, BodyStep DEF PubInv, WritesAreOrdered, BodyWrites, Whole
        <3> QED
            BY <3>1, <3>2, <3>3 DEF BodyWrites
    <2>7. HandlerWrites'
        <3> SUFFICES ASSUME script = "fail" PROVE HandlerWrites'
            BY <2>1 DEF HandlerWrites
        <3> QED
            BY <1>0, <2>1, <2>2, <2>5, HandlerStep
            DEF PubInv, WritesAreOrdered, HandlerWrites, Whole
    <2>8. WritesAreOrdered'
        BY <2>1, <2>6, <2>7 DEF PubInv, WritesAreOrdered, Running
    <2>9. ImportsAreLate'
        BY <1>0, <2>1, <2>3 DEF PubInv, ImportsAreLate, Running
    <2> QED
        BY <2>4, <2>8, <2>9 DEF PubInv
<1>3. CASE Proceed \/ Announce
    <2>1. /\ Running /\ at' = at + 1 /\ Step[1] \in {"process", "reset", "announce"}
          /\ UNCHANGED <<script, disk, torn, exitCode, database, imports>>
        BY <1>3 DEF Proceed, Announce
    <2>2. (at < 13 /\ at \notin 4..9) \/ (script = "fail" /\ at = 2)
        BY <1>0, <2>1, BodyStep, HandlerStep DEF PubInv, WritesAreOrdered, HandlerWrites
    <2>3. PubTypeOK'
        <3>1. announced' \in {"none", "COMPLETED", "FAILED"} /\ imports' = imports
            BY <1>0, <1>3, BodyStep, HandlerStep
            DEF PubInv, PubTypeOK, Proceed, Announce, WritesAreOrdered, HandlerWrites
        <3>2. at' \in 1..Len(MainScript)
            BY <1>0, <2>1, <2>2, MainSteps
        <3> QED
            BY <2>1, <3>1, <3>2 DEF PubInv, PubTypeOK
    <2>4. torn' = "none"
        BY <2>1 DEF PubInv, WritesAreOrdered
    <2>5. BodyWrites'
        <3> SUFFICES ASSUME script = "main" PROVE BodyWrites'
            BY <2>1 DEF BodyWrites
        <3> QED
            BY <1>0, <2>1, <2>2 DEF PubInv, WritesAreOrdered, BodyWrites, Whole
    <2>6. HandlerWrites'
        <3> SUFFICES ASSUME script = "fail" PROVE HandlerWrites'
            BY <2>1 DEF HandlerWrites
        <3> QED
            BY <1>0, <2>1, HandlerStep DEF PubInv, WritesAreOrdered, HandlerWrites, Whole
    <2>7. WritesAreOrdered'
        BY <2>1, <2>4, <2>5, <2>6 DEF WritesAreOrdered, Running
    <2>8. ImportsAreLate'
        <3>1. script = "main" => at # 12 /\ at # 13
            BY <1>0, <2>1, BodyStep
        <3>2. at' = 13 => at = 12
            BY <1>0, <2>1
        <3> QED
            BY <2>1, <3>1, <3>2 DEF PubInv, ImportsAreLate, Running
    <2> QED
        BY <2>3, <2>7, <2>8 DEF PubInv
<1>4. CASE Exit
    <2>1. /\ Running /\ Step[1] = "exit" /\ exitCode' = Step[2]
          /\ UNCHANGED <<script, at, disk, torn, announced, database, imports>>
        BY <1>4 DEF Exit
    <2>2. \/ script = "main" /\ at = 13 /\ exitCode' = "0"
          \/ script = "fail" /\ at = 4 /\ exitCode' = "1"
        BY <1>0, <2>1, BodyStep, HandlerStep DEF PubInv, WritesAreOrdered, HandlerWrites
    <2>3. torn = "none"
        BY <2>1 DEF PubInv, WritesAreOrdered
    <2>4. PubTypeOK'
        BY <2>1, <2>2 DEF PubInv, PubTypeOK
    <2>5. WritesAreOrdered'
        BY <2>1, <2>2, <2>3
        DEF PubInv, WritesAreOrdered, BodyWrites, HandlerWrites, Whole
    <2>6. ImportsAreLate'
        BY <2>1, <2>2 DEF PubInv, ImportsAreLate, Running
    <2> QED
        BY <2>4, <2>5, <2>6 DEF PubInv
<1>5. CASE Raise
    <2>1. /\ Running /\ Step[1] \in {"write", "process", "reset"} /\ torn' = "none"
          /\ UNCHANGED <<disk, announced, database, imports>>
          /\ \/ script = "main" /\ script' = "fail" /\ at' = 1 /\ exitCode' = exitCode
             \/ exitCode' = "raised" /\ script' = script /\ at' = at
        BY <1>5 DEF Raise
    <2>2. script = "main" => at # 13
        BY <1>0, <2>1, BodyStep
    <2>3. PubTypeOK'
        BY <2>1, MainSteps DEF PubInv, PubTypeOK
    <2>4. script = "main" /\ disk["summary"] = "COMPLETED" => \A a \in Artifacts : Whole(a)
        BY <1>0 DEF PubInv, WritesAreOrdered, BodyWrites
    <2>5. WritesAreOrdered'
        BY <2>1, <2>4 DEF PubInv, WritesAreOrdered, BodyWrites, HandlerWrites, Whole, Running
    <2>6. ImportsAreLate'
        BY <2>1, <2>2 DEF PubInv, ImportsAreLate, Running
    <2> QED
        BY <2>3, <2>5, <2>6 DEF PubInv
<1>6. CASE Kill
    <2>1. WritesAreOrdered'
        BY <1>6 DEF Kill, PubInv, WritesAreOrdered, BodyWrites, HandlerWrites, Whole, Running
    <2>2. ImportsAreLate'
        BY <1>6 DEF Kill, PubInv, ImportsAreLate, Running
    <2>3. PubTypeOK'
        BY <1>6 DEF Kill, PubInv, PubTypeOK
    <2> QED
        BY <2>1, <2>2, <2>3 DEF PubInv
<1>7. CASE ImportAfterRun \/ OperatorImport
    <2>1. ImportedStatus \in {"UNKNOWN", "CREATED", "RUNNING", "COMPLETED", "FAILED"}
        BY DEF ImportedStatus, Statuses
    <2>2. \/ database' = database
          \/ /\ "tracks" \in database'.parts
             /\ database' = [status |-> ImportedStatus, parts |-> {a \in Artifacts : Whole(a)}]
        BY <1>7 DEF ImportAfterRun, OperatorImport, ImportRun, Importable, Artifacts
    <2>3. database' \in [status : {"absent", "UNKNOWN", "CREATED", "RUNNING", "COMPLETED",
                                   "FAILED"}, parts : SUBSET Artifacts]
        BY <2>1, <2>2 DEF PubInv, PubTypeOK
    <2>4. script = "main" /\ at > 11 =>
             /\ ImportedStatus = "COMPLETED"
             /\ {a \in Artifacts : Whole(a)} = Artifacts
        BY <1>0 DEF PubInv, WritesAreOrdered, BodyWrites, ImportedStatus, Statuses
    <2>5. script = "fail" /\ at = 4 => ImportedStatus = "FAILED"
        BY DEF PubInv, WritesAreOrdered, HandlerWrites, ImportedStatus, Statuses
    <2>6. /\ UNCHANGED <<script, disk, torn, exitCode, announced>>
          /\ \/ /\ Running /\ script = "main" /\ at = 12 /\ at' = 13 /\ torn = "none"
                /\ imports' = imports
             \/ /\ ~ Running /\ at' = at /\ imports' = imports + 1
        <3>1. CASE ImportAfterRun
            <4>1. /\ Running /\ Step[1] = "import" /\ at' = at + 1 /\ imports' = imports
                  /\ UNCHANGED <<script, disk, torn, exitCode, announced>>
                BY <3>1 DEF ImportAfterRun
            <4>2. script = "main"
                BY <1>0, <4>1, HandlerStep DEF PubInv, WritesAreOrdered, HandlerWrites
            <4>3. at = 12
                BY <1>0, <4>1, <4>2, BodyStep
            <4>4. torn = "none"
                BY <4>1 DEF PubInv, WritesAreOrdered
            <4> QED
                BY <4>1, <4>2, <4>3, <4>4
        <3>2. CASE OperatorImport
            BY <3>2 DEF OperatorImport
        <3> QED
            BY <1>7, <3>1, <3>2
    <2>7. PubTypeOK'
        BY <1>0, <2>3, <2>6, MainSteps DEF PubInv, PubTypeOK
    <2>8. WritesAreOrdered'
        BY <1>0, <2>6 DEF PubInv, WritesAreOrdered, BodyWrites, HandlerWrites, Whole, Running
    <2>9. ImportsAreLate'
        <3>1. database # NoRows => "tracks" \in database.parts
            BY DEF PubInv, ImportsAreLate
        <3>2. CASE Running
            BY <2>2, <2>4, <2>6, <3>1, <3>2 DEF PubInv, ImportsAreLate, Running
        <3>3. CASE ~ Running
            BY <2>2, <2>4, <2>5, <2>6, <3>1, <3>3
            DEF PubInv, ImportsAreLate, Running, WritesAreOrdered
        <3> QED
            BY <3>2, <3>3
    <2> QED
        BY <2>7, <2>8, <2>9 DEF PubInv
<1>8. CASE UNCHANGED pubVars
    BY <1>8 DEF pubVars, PubInv, PubTypeOK, WritesAreOrdered, BodyWrites, HandlerWrites,
                ImportsAreLate, Whole, Running, Step
<1> QED
    BY <1>1, <1>2, <1>3, <1>4, <1>5, <1>6, <1>7, <1>8 DEF PubNext

(* The writes of a run, its status and its import keep their order         *)
(* (run_pipeline).                                                         *)
LEMMA PubInvariant == PubSpec => []PubInv
<1>1. PubInit => PubInv
    BY MainSteps DEF PubInit, PubInv, PubTypeOK, WritesAreOrdered, BodyWrites, HandlerWrites,
                     ImportsAreLate, Running, Files, Artifacts, WrittenBy, NoRows
<1> QED
    BY <1>1, PubStep, PTL DEF PubSpec

(* A summary or an exit code that says COMPLETED is about a run whose      *)
(* artifacts are all there and whom both readers call COMPLETED; after an  *)
(* exit code of one both say FAILED (run_pipeline and its handler).        *)
THEOREM OutcomesAreTrueTheorem == PubSpec => []OutcomesAreTrue
<1>1. PubInv => OutcomesAreTrue
    <2> SUFFICES ASSUME PubInv PROVE OutcomesAreTrue
        OBVIOUS
    <2>1. at \in 1..13 /\ script \in {"main", "fail"}
        BY MainSteps DEF PubInv, PubTypeOK
    <2>2. \A a \in Artifacts : WrittenBy(a) \in 5..8
        BY DEF WrittenBy, Artifacts
    <2>3. script = "main" /\ at > 9 => \A a \in Artifacts : Whole(a)
        BY <2>1, <2>2 DEF PubInv, WritesAreOrdered, BodyWrites
    <2>4. disk["summary"] = "COMPLETED" => \A a \in Artifacts : Whole(a)
        BY <2>1, <2>3 DEF PubInv, WritesAreOrdered, BodyWrites, HandlerWrites
    <2>5. ASSUME exitCode = "0"
          PROVE  /\ ListedStatus = "COMPLETED" /\ ImportedStatus = "COMPLETED"
                 /\ \A a \in Artifacts : Whole(a)
        <3>1. script = "main" /\ at = 13
            BY <2>5 DEF PubInv, WritesAreOrdered
        <3>2. disk["summary"] = "COMPLETED" /\ disk["metadata"] = "COMPLETED"
            BY <3>1 DEF PubInv, WritesAreOrdered, BodyWrites
        <3> QED
            BY <2>4, <3>2 DEF ListedStatus, ImportedStatus, Statuses
    <2>6. ASSUME exitCode = "1"
          PROVE  ListedStatus = "FAILED" /\ ImportedStatus = "FAILED"
        <3>1. script = "fail" /\ at = 4
            BY <2>6 DEF PubInv, WritesAreOrdered
        <3>2. disk["summary"] = "FAILED" /\ disk["metadata"] = "FAILED"
            BY <3>1 DEF PubInv, WritesAreOrdered, HandlerWrites
        <3> QED
            BY <3>2 DEF ListedStatus, ImportedStatus, Statuses
    <2> QED
        BY <2>4, <2>5, <2>6 DEF OutcomesAreTrue
<1> QED
    BY <1>1, PubInvariant, PTL

(* Rows exist only with the tracks, those of a run whose process ended by  *)
(* itself hold everything, and those that say COMPLETED and hold less are  *)
(* of a run whose process died (import_completed_run).                     *)
THEOREM RowsAreWholeTheorem == PubSpec => []RowsAreWhole
<1>1. PubInv => RowsAreWhole
    <2> SUFFICES ASSUME PubInv PROVE RowsAreWhole
        OBVIOUS
    <2>1. exitCode \in {"none", "0", "1", "raised", "killed"}
        BY DEF PubInv, PubTypeOK
    <2>2. exitCode = "0" => script = "main" /\ at = 13
        BY DEF PubInv, WritesAreOrdered
    <2>3. NoRows.status = "absent"
        BY DEF NoRows
    <2> QED
        BY <2>1, <2>2, <2>3 DEF PubInv, ImportsAreLate, RowsAreWhole, Running
<1> QED
    BY <1>1, PubInvariant, PTL

-----------------------------------------------------------------------------
(* ConfigSaves                                                             *)

Writing == {"checked", "filling", "filled"}

(* What makes the properties inductive.  A request that has passed its     *)
(* check keeps an accepted payload until it replaces a file, ...           *)
PayloadsAreAccepted ==
    \A r \in Requests :
        request[r].at \in Writing =>
            /\ request[r].op \in {"save", "clone"}
            /\ request[r].payload \in Contents /\ Accepts(request[r].payload)

(* ... the file a run was accepted with stays one the API would accept     *)
(* until the run reads it, whoever replaces it, ...                        *)
StartsStayAdmitted ==
    \A r \in Requests :
        request[r].at = "starting" =>
            request[r].op = "start" /\ Admitted(files[request[r].name])

(* ... any two requests under way know one another, ...                    *)
RivalsKnown ==
    \A r, s \in Requests :
        r # s /\ request[r].at \in Underway /\ request[s].at \in Underway
            => s \in rivals[r]

(* ... the name a clone has found free is free, or a rival has taken it,   *)
(* and a request replaces a file only at its end ...                       *)
NameFreeOrRivals ==
    \A r \in Requests :
        /\ request[r].op = "clone" /\ request[r].at \in Writing
               => \/ ~ Exists(request[r].name)
                  \/ author[request[r].name] \in rivals[r]
        /\ overwrote[r] # "nobody" => request[r].at = "done"

(* ... and before a kill the temporary files are those being filled, and   *)
(* hold the payload when they are.                                         *)
TempsAreOpen ==
    \A r \in Requests :
        /\ ~ crashed /\ temps[r] # "absent" => request[r].at \in {"filling", "filled"}
        /\ request[r].at = "filled" => temps[r] = request[r].payload

ConfigInv ==
    /\ ConfigTypeOK
    /\ RunsReadValidConfigs
    /\ ClonesReplaceOnlyRivals
    /\ PayloadsAreAccepted
    /\ StartsStayAdmitted
    /\ RivalsKnown
    /\ NameFreeOrRivals
    /\ TempsAreOpen

-----------------------------------------------------------------------------
(* What a request can be: it is its record, and a step of it changes where *)
(* it is and keeps the rest.                                               *)
LEMMA ConfigTyped ==
    ASSUME ConfigTypeOK, NEW r \in Requests
    PROVE  /\ request[r].at \in Underway \cup {"idle", "done", "refused", "failed", "killed"}
           /\ request[r].at \notin {"idle", "refused"} =>
                  /\ request[r].name \in ConfigNames
                  /\ request[r].op \in {"save", "clone", "start"}
                  /\ request[r].payload \in Contents \cup {"torn"}
                  /\ request[r] # NoRequest
                  /\ request[r] \in Request
    BY DEF ConfigTypeOK, NoRequest, Refusal, Request, Underway

(* A content that is admitted is valid if nothing can be taken off it, and *)
(* what is accepted is admitted.                                           *)
LEMMA AdmittedFacts ==
    ASSUME NEW c
    PROVE  /\ Admitted(c) /\ Cleaned(c) = c => Valid(c)
           /\ c \in Contents /\ Accepts(c) => Admitted(c)
           /\ Admitted(c) => c \in Contents /\ c # "absent" /\ c # "torn"
           /\ c \in Contents => Cleaned(c) \in Contents
    BY ConfigAssumption DEF Admitted, Accepts, Valid, Contents, ConfigAssumption, Cleaned

(* Moving a request on changes where it is.                                *)
LEMMA Moved ==
    ASSUME ConfigTypeOK, NEW r \in Requests, request[r].at \notin {"idle", "refused"},
           NEW x \in Underway \cup {"done", "failed"},
           request' = [request EXCEPT ![r].at = x]
    PROVE  /\ request'[r].at = x
           /\ request'[r].op = request[r].op
           /\ request'[r].name = request[r].name
           /\ request'[r].payload = request[r].payload
           /\ \A s \in Requests : s # r => request'[s] = request[s]
           /\ request' \in [Requests -> {NoRequest, Refusal} \cup Request]
<1>1. DOMAIN request = Requests /\ request[r] \in Request
    BY ConfigTyped DEF ConfigTypeOK
<1>2. /\ request' = [request EXCEPT ![r] = [request[r] EXCEPT !.at = x]]
    OBVIOUS
<1>3. /\ request'[r] = [request[r] EXCEPT !.at = x]
      /\ \A s \in Requests : s # r => request'[s] = request[s]
      /\ DOMAIN request' = Requests
      /\ request' = [s \in Requests |-> request'[s]]
    BY <1>1, <1>2
<1>4. /\ request'[r].at = x
      /\ request'[r].op = request[r].op
      /\ request'[r].name = request[r].name
      /\ request'[r].payload = request[r].payload
      /\ request'[r] \in Request
    BY <1>1, <1>3 DEF Request
<1>5. \A s \in Requests : request'[s] \in {NoRequest, Refusal} \cup Request
    BY <1>3, <1>4 DEF ConfigTypeOK
<1> QED
    BY <1>3, <1>4, <1>5

(* The initial states satisfy the invariant.                               *)
LEMMA ConfigInitInv == ConfigInit => ConfigInv
<1> SUFFICES ASSUME ConfigInit PROVE ConfigInv
    OBVIOUS
<1>1. \A r \in Requests : request[r].at = "idle" /\ request[r].op = "none" /\ overwrote[r] = "nobody"
    BY DEF ConfigInit, NoRequest
<1>2. ConfigTypeOK
    BY DEF ConfigInit, ConfigTypeOK
<1>4. \A r \in Requests : temps[r] = "absent"
    BY DEF ConfigInit
<1>3. \A n \in ConfigNames : files[n] # "torn"
    BY ConfigAssumption DEF ConfigInit, Contents, ConfigAssumption
<1> QED
    BY <1>1, <1>2, <1>3, <1>4
    DEF ConfigInit, ConfigInv, RunsReadValidConfigs, ClonesReplaceOnlyRivals, PayloadsAreAccepted,
        StartsStayAdmitted, RivalsKnown, NameFreeOrRivals, TempsAreOpen, Underway, Writing

(* A request comes in: it was idle, so nothing is known of it yet, and it  *)
(* learns who is under way as they learn of it.                            *)
LEMMA ConfigAccept ==
    ASSUME ConfigInv, NEW r \in Requests, NEW op \in {"save", "clone", "start"},
           NEW n \in ConfigNames, NEW payload \in Contents,
           NEW ok \in BOOLEAN, NEW stop \in {"checked", "starting"},
           Accept(r, op, n, payload, ok, stop),
           ok /\ op # "start" => Accepts(payload) /\ (op = "clone" => ~ Exists(n)),
           ok /\ op = "start" => stop = "starting" /\ Admitted(files[n]),
           op # "start" => stop = "checked"
    PROVE  ConfigInv'
<1>0. /\ ConfigTypeOK /\ RunsReadValidConfigs /\ ClonesReplaceOnlyRivals
      /\ PayloadsAreAccepted /\ StartsStayAdmitted /\ RivalsKnown /\ NameFreeOrRivals /\ TempsAreOpen
    BY DEF ConfigInv
<1> DEFINE made == [op |-> op, name |-> n, payload |-> payload, at |-> stop]
           new == IF ok THEN made ELSE Refusal
<1>1. /\ request[r].at = "idle" /\ request[r].op = "none"
      /\ request' = [request EXCEPT ![r] = new]
      /\ UNCHANGED <<files, temps, overwrote, author, crashed>>
    BY DEF Accept, NoRequest
<1>2. /\ new \in {Refusal} \cup Request
      /\ ok => new.op = op /\ new.name = n /\ new.payload = payload /\ new.at = stop
      /\ ~ ok => new.op = "none" /\ new.at = "refused"
    BY DEF Underway, Request, Refusal, NoRequest
<1>3. /\ rivals' \in [Requests -> SUBSET Requests]
      /\ ok => rivals'[r] = Others(r)
      /\ \A s \in Requests : s # r =>
             rivals'[s] = IF ok /\ s \in Others(r) THEN rivals[s] \cup {r} ELSE rivals[s]
    BY <1>0 DEF Accept, ConfigTypeOK, Others
<1> HIDE DEF made, new
<1>10. request'[r] = new /\ \A s \in Requests : s # r => request'[s] = request[s]
    BY <1>0, <1>1 DEF ConfigTypeOK
<1>4. ConfigTypeOK'
    <2>1. request' \in [Requests -> {NoRequest, Refusal} \cup Request]
        BY <1>0, <1>1, <1>2 DEF ConfigTypeOK
    <2> QED
        BY <2>1, <1>0, <1>1, <1>3 DEF ConfigTypeOK
<1>5. RunsReadValidConfigs'
    BY <1>0, <1>1, <1>2, <1>10 DEF RunsReadValidConfigs
<1>6. ClonesReplaceOnlyRivals' /\ NameFreeOrRivals'
    <2>1. ASSUME NEW s \in Requests
          PROVE  /\ overwrote'[s] # "nobody" => request'[s].at = "done"
                 /\ request'[s].op = "clone" /\ overwrote'[s] # "nobody" => overwrote'[s] \in rivals'[s]
                 /\ request'[s].op = "clone" /\ request'[s].at \in Writing
                      => \/ files'[request'[s].name] = "absent"
                         \/ author'[request'[s].name] \in rivals'[s]
        <3>1. CASE s = r
            BY <3>1, <1>0, <1>1, <1>2, <1>3, <1>10 DEF NameFreeOrRivals, Exists, Writing
        <3>2. CASE s # r
            BY <3>2, <1>0, <1>1, <1>3, <1>10
            DEF NameFreeOrRivals, ClonesReplaceOnlyRivals, Exists, Writing
        <3> QED
            BY <3>1, <3>2
    <2> QED
        BY <2>1 DEF ClonesReplaceOnlyRivals, NameFreeOrRivals, Exists
<1>7. PayloadsAreAccepted' /\ StartsStayAdmitted'
    <2>1. ASSUME NEW s \in Requests
          PROVE  /\ request'[s].at \in Writing =>
                      /\ request'[s].op \in {"save", "clone"}
                      /\ request'[s].payload \in Contents /\ Accepts(request'[s].payload)
                 /\ request'[s].at = "starting" =>
                      request'[s].op = "start" /\ Admitted(files'[request'[s].name])
        <3>1. CASE s = r
            BY <3>1, <1>1, <1>2, <1>10 DEF Writing
        <3>2. CASE s # r
            BY <3>2, <1>0, <1>1, <1>10 DEF PayloadsAreAccepted, StartsStayAdmitted
        <3> QED
            BY <3>1, <3>2
    <2> QED
        BY <2>1 DEF PayloadsAreAccepted, StartsStayAdmitted, Accepts, Admitted, Cleaned, Valid
<1>8. RivalsKnown'
    <2>1. ASSUME NEW s \in Requests, NEW q \in Requests, s # q,
                 request'[s].at \in Underway, request'[q].at \in Underway
          PROVE  q \in rivals'[s]
        <3>1. CASE s = r
            BY <3>1, <2>1, <1>2, <1>3, <1>10 DEF Others, Underway
        <3>2. CASE q = r
            BY <3>2, <2>1, <1>2, <1>3, <1>10 DEF Others, Underway
        <3>3. CASE s # r /\ q # r
            BY <3>3, <2>1, <1>0, <1>3, <1>10 DEF RivalsKnown
        <3> QED
            BY <3>1, <3>2, <3>3
    <2> QED
        BY <2>1 DEF RivalsKnown
<1>9. TempsAreOpen'
    BY <1>0, <1>1, <1>2, <1>10 DEF TempsAreOpen
<1> QED
    BY <1>4, <1>5, <1>6, <1>7, <1>8, <1>9 DEF ConfigInv

(* The three ways in.                                                      *)
LEMMA ConfigChecks ==
    ASSUME ConfigInv, NEW r \in Requests, CheckSave(r) \/ CheckClone(r) \/ CheckStart(r)
    PROVE  ConfigInv'
<1>0. \A n \in ConfigNames : Exists(n) => files[n] \in Contents
    BY DEF ConfigInv, ConfigTypeOK, RunsReadValidConfigs, Exists
<1>1. CASE CheckSave(r)
    <2>1. PICK n \in ConfigNames, c \in Contents :
              Accept(r, "save", n, Cleaned(c),
                     Exists(n) /\ Accepts(Cleaned(c)), "checked")
        BY <1>1 DEF CheckSave
    <2>2. PICK p : p = Cleaned(c)
        OBVIOUS
    <2>3. p \in Contents /\ Accept(r, "save", n, p, Exists(n) /\ Accepts(p), "checked")
        BY <2>1, <2>2, AdmittedFacts
    <2> QED
        BY <2>3, ConfigAccept, Zenon
<1>2. CASE CheckClone(r)
    <2>0. PICK n \in ConfigNames, source \in ConfigNames :
              \E c \in Contents \cup {files[source]} :
                  /\ Exists(source)
                  /\ Accept(r, "clone", n, Cleaned(c),
                            ~ Exists(n) /\ Accepts(Cleaned(c)), "checked")
        BY <1>2 DEF CheckClone
    <2>1. PICK c \in Contents \cup {files[source]} :
              /\ Exists(source)
              /\ Accept(r, "clone", n, Cleaned(c),
                        ~ Exists(n) /\ Accepts(Cleaned(c)), "checked")
        BY <2>0
    <2>2. PICK p : p = Cleaned(c)
        OBVIOUS
    <2>3. p \in Contents /\ Accept(r, "clone", n, p, ~ Exists(n) /\ Accepts(p), "checked")
        BY <1>0, <2>1, <2>2, AdmittedFacts
    <2> QED
        BY <2>3, ConfigAccept, Zenon
<1>3. CASE CheckStart(r)
    <2>1. PICK n \in ConfigNames :
              /\ Exists(n)
              /\ Accept(r, "start", n, files[n], Accepts(Cleaned(files[n])), "starting")
        BY <1>3 DEF CheckStart
    <2>2. /\ files[n] \in Contents
          /\ Accepts(Cleaned(files[n])) => Admitted(files[n])
        BY <1>0, <2>1 DEF Admitted
    <2>3. ASSUME NEW ok \in BOOLEAN, ok <=> Accepts(Cleaned(files[n])),
                 Accept(r, "start", n, files[n], ok, "starting")
          PROVE  ConfigInv'
        BY <2>2, <2>3, ConfigAccept
    <2>4. Accepts(Cleaned(files[n])) \in BOOLEAN
        BY DEF Accepts, Valid
    <2> QED
        BY <2>1, <2>3, <2>4
<1> QED
    BY <1>1, <1>2, <1>3

(* A request moves on without touching a file of the directory: opening    *)
(* and filling the temporary file, and giving up.                          *)
LEMMA ConfigMoves ==
    ASSUME ConfigInv, NEW r \in Requests, OpenTemp(r) \/ FillTemp(r) \/ WriteFails(r)
    PROVE  ConfigInv'
<1>0. /\ ConfigTypeOK /\ RunsReadValidConfigs /\ ClonesReplaceOnlyRivals
      /\ PayloadsAreAccepted /\ StartsStayAdmitted /\ RivalsKnown /\ NameFreeOrRivals /\ TempsAreOpen
    BY DEF ConfigInv
<1>1. PICK x \in {"filling", "filled", "failed"} :
          /\ request' = [request EXCEPT ![r].at = x]
          /\ request[r].at \in Writing
          /\ temps' = [temps EXCEPT ![r] = IF x = "filling" THEN "torn"
                                           ELSE IF x = "filled" THEN request[r].payload
                                           ELSE "absent"]
          /\ UNCHANGED <<files, rivals, overwrote, author, crashed>>
    BY DEF OpenTemp, FillTemp, WriteFails, Writing
<1>2. /\ request'[r].at = x
      /\ request'[r].op = request[r].op
      /\ request'[r].name = request[r].name
      /\ request'[r].payload = request[r].payload
      /\ \A s \in Requests : s # r => request'[s] = request[s]
      /\ request' \in [Requests -> {NoRequest, Refusal} \cup Request]
    <2>1. x \in Underway \cup {"done", "failed"} /\ request[r].at \notin {"idle", "refused"}
        BY <1>1 DEF Underway, Writing
    <2> QED
        BY <1>0, <1>1, <2>1, Moved
<1>9. /\ temps' \in [Requests -> Contents \cup {"absent", "torn"}]
      /\ temps'[r] = IF x = "filling" THEN "torn"
                     ELSE IF x = "filled" THEN request[r].payload ELSE "absent"
      /\ \A s \in Requests : s # r => temps'[s] = temps[s]
    <2>1. request[r].payload \in Contents
        BY <1>0, <1>1 DEF PayloadsAreAccepted
    <2> QED
        BY <1>0, <1>1, <2>1 DEF ConfigTypeOK
<1>3. ConfigTypeOK'
    BY <1>0, <1>1, <1>2, <1>9 DEF ConfigTypeOK
<1>4. RunsReadValidConfigs' /\ ClonesReplaceOnlyRivals'
    BY <1>0, <1>1, <1>2 DEF RunsReadValidConfigs, ClonesReplaceOnlyRivals, PayloadsAreAccepted
<1>5. PayloadsAreAccepted' /\ StartsStayAdmitted'
    BY <1>0, <1>1, <1>2
    DEF PayloadsAreAccepted, StartsStayAdmitted, Accepts, Admitted, Cleaned, Valid, Writing
<1>6. RivalsKnown'
    BY <1>0, <1>1, <1>2 DEF RivalsKnown, Underway, Writing
<1>7. NameFreeOrRivals'
    BY <1>0, <1>1, <1>2 DEF NameFreeOrRivals, Exists, Writing
<1>8. TempsAreOpen'
    BY <1>0, <1>1, <1>2, <1>9 DEF TempsAreOpen
<1> QED
    BY <1>3, <1>4, <1>5, <1>6, <1>7, <1>8 DEF ConfigInv

(* The rename: what it writes is valid, and the file it takes from another *)
(* request is a rival's.                                                   *)
LEMMA ConfigReplaces ==
    ASSUME ConfigInv, NEW r \in Requests, ReplaceFile(r)
    PROVE  ConfigInv'
<1>0. /\ ConfigTypeOK /\ RunsReadValidConfigs /\ ClonesReplaceOnlyRivals
      /\ PayloadsAreAccepted /\ StartsStayAdmitted /\ RivalsKnown /\ NameFreeOrRivals /\ TempsAreOpen
    BY DEF ConfigInv
<1> DEFINE n == request[r].name
<1>1. /\ request[r].at = "filled" /\ request[r].at \in Writing /\ request[r].at \in Underway
      /\ request' = [request EXCEPT ![r].at = "done"]
      /\ temps' = [temps EXCEPT ![r] = "absent"]
      /\ UNCHANGED <<rivals, crashed>>
    BY DEF ReplaceFile, Writing, Underway
<1>2. /\ request'[r].at = "done"
      /\ request'[r].op = request[r].op
      /\ request'[r].name = request[r].name
      /\ request'[r].payload = request[r].payload
      /\ \A s \in Requests : s # r => request'[s] = request[s]
      /\ request' \in [Requests -> {NoRequest, Refusal} \cup Request]
    <2>1. request[r].at \notin {"idle", "refused"} /\ "done" \in Underway \cup {"done", "failed"}
        BY <1>1
    <2> QED
        BY <1>0, <1>1, <2>1, Moved
<1>3. /\ n \in ConfigNames /\ request[r].payload \in Contents
      /\ Accepts(request[r].payload) /\ temps[r] = request[r].payload
    BY <1>0, <1>1, ConfigTyped DEF PayloadsAreAccepted, TempsAreOpen
<1>4. /\ files'[n] = request[r].payload /\ author'[n] = r
      /\ \A m \in ConfigNames : m # n => files'[m] = files[m] /\ author'[m] = author[m]
      /\ files' \in [ConfigNames -> Contents \cup {"absent", "torn"}]
      /\ author' \in [ConfigNames -> Requests \cup {"operator"}]
    BY <1>0, <1>3 DEF ReplaceFile, ConfigTypeOK
<1>5. /\ overwrote'[r] = IF Exists(n) THEN author[n] ELSE "nobody"
      /\ \A s \in Requests : s # r => overwrote'[s] = overwrote[s]
      /\ overwrote' \in [Requests -> Requests \cup {"nobody", "operator"}]
    BY <1>0, <1>3 DEF ReplaceFile, ConfigTypeOK
<1>6. /\ files'[n] # "absent" /\ files'[n] # "torn"
      /\ files'[n] \in Contents /\ Accepts(files'[n]) /\ Admitted(files'[n])
      /\ Cleaned(files'[n]) = files'[n] => Valid(files'[n])
    BY <1>3, <1>4, AdmittedFacts
<1> HIDE DEF n
<1>7. ConfigTypeOK'
    BY <1>0, <1>1, <1>2, <1>4, <1>5 DEF ConfigTypeOK
<1>8. RunsReadValidConfigs'
    <2>1. ASSUME NEW m \in ConfigNames
          PROVE  /\ files'[m] # "torn"
                 /\ author'[m] # "operator" =>
                       /\ Accepts(files'[m])
                       /\ Cleaned(files'[m]) = files'[m] => Valid(files'[m])
        <3>1. CASE m = n
            BY <1>6, <3>1
        <3>2. CASE m # n
            BY <1>0, <1>4, <3>2 DEF RunsReadValidConfigs
        <3> QED
            BY <3>1, <3>2
    <2>2. ASSUME NEW s \in Requests, request'[s].op = "start", request'[s].at = "done"
          PROVE  request'[s] = request[s]
        BY <1>0, <1>1, <1>2, <2>2 DEF PayloadsAreAccepted
    <2>3. ASSUME NEW s \in Requests, request'[s].op = "start", request'[s].at = "done"
          PROVE  /\ Admitted(request'[s].payload)
                 /\ Cleaned(request'[s].payload) = request'[s].payload
                       => Valid(request'[s].payload)
        BY <1>0, <2>2, <2>3 DEF RunsReadValidConfigs
    <2> QED
        BY <2>1, <2>3 DEF RunsReadValidConfigs, Accepts, Admitted, Cleaned, Valid
<1>9. PayloadsAreAccepted' /\ StartsStayAdmitted'
    <2>1. ASSUME NEW s \in Requests
          PROVE  /\ request'[s].at \in Writing =>
                      /\ request'[s].op \in {"save", "clone"}
                      /\ request'[s].payload \in Contents /\ Accepts(request'[s].payload)
                 /\ request'[s].at = "starting" =>
                      request'[s].op = "start" /\ Admitted(files'[request'[s].name])
        <3>1. CASE s = r
            BY <3>1, <1>2 DEF Writing
        <3>2. CASE s # r
            <4>1. request[s].at = "starting" => request[s].name \in ConfigNames
                BY <1>0, ConfigTyped
            <4> QED
                BY <3>2, <4>1, <1>0, <1>2, <1>4, <1>6 DEF PayloadsAreAccepted, StartsStayAdmitted
        <3> QED
            BY <3>1, <3>2
    <2> QED
        BY <2>1 DEF PayloadsAreAccepted, StartsStayAdmitted, Accepts, Admitted, Cleaned, Valid
<1>10. RivalsKnown'
    BY <1>0, <1>1, <1>2 DEF RivalsKnown, Underway
<1>11. ClonesReplaceOnlyRivals' /\ NameFreeOrRivals'
    <2>1. ASSUME NEW s \in Requests
          PROVE  /\ overwrote'[s] # "nobody" => request'[s].at = "done"
                 /\ request'[s].op = "clone" /\ overwrote'[s] # "nobody" => overwrote'[s] \in rivals'[s]
                 /\ request'[s].op = "clone" /\ request'[s].at \in Writing
                      => \/ files'[request'[s].name] = "absent"
                         \/ author'[request'[s].name] \in rivals'[s]
        <3>1. CASE s = r
            BY <3>1, <1>0, <1>1, <1>2, <1>5 DEF NameFreeOrRivals, Writing, n
        <3>2. CASE s # r
            <4>1. ASSUME request[s].op = "clone", request[s].at \in Writing
                  PROVE  \/ files'[request[s].name] = "absent"
                         \/ author'[request[s].name] \in rivals'[s]
                <5>1. request[s].name \in ConfigNames /\ request[s].at \in Underway
                    BY <4>1, <1>0, ConfigTyped DEF Writing, Underway
                <5>2. CASE request[s].name = n
                    BY <5>1, <5>2, <3>2, <1>0, <1>1, <1>4 DEF RivalsKnown
                <5>3. CASE request[s].name # n
                    BY <5>1, <5>3, <4>1, <1>0, <1>1, <1>4 DEF NameFreeOrRivals, Exists
                <5> QED
                    BY <5>2, <5>3
            <4> QED
                BY <3>2, <4>1, <1>0, <1>1, <1>2, <1>5
                     DEF NameFreeOrRivals, ClonesReplaceOnlyRivals
        <3> QED
            BY <3>1, <3>2
    <2> QED
        BY <2>1 DEF ClonesReplaceOnlyRivals, NameFreeOrRivals, Exists
<1>12. TempsAreOpen'
    BY <1>0, <1>1, <1>2 DEF TempsAreOpen, ConfigTypeOK
<1> QED
    BY <1>7, <1>8, <1>9, <1>10, <1>11, <1>12 DEF ConfigInv

(* The process of the run reads the file it was accepted with.             *)
LEMMA ConfigRunReads ==
    ASSUME ConfigInv, NEW r \in Requests, RunReads(r)
    PROVE  ConfigInv'
<1>0. /\ ConfigTypeOK /\ RunsReadValidConfigs /\ ClonesReplaceOnlyRivals
      /\ PayloadsAreAccepted /\ StartsStayAdmitted /\ RivalsKnown /\ NameFreeOrRivals /\ TempsAreOpen
    BY DEF ConfigInv
<1>1. /\ request[r].at = "starting" /\ request[r].op = "start"
      /\ Admitted(files[request[r].name])
      /\ UNCHANGED <<files, temps, rivals, overwrote, author, crashed>>
    BY <1>0 DEF RunReads, StartsStayAdmitted
<1> DEFINE c == files[request[r].name]
           read == [op |-> "start", name |-> request[r].name, payload |-> c, at |-> "done"]
<1>2. request[r] \in Request
    BY <1>0, <1>1, ConfigTyped
<1>3. request' = [request EXCEPT ![r] = read]
    BY <1>0, <1>1, <1>2 DEF RunReads, ConfigTypeOK
<1>4. /\ read \in Request /\ read.op = "start" /\ read.at = "done" /\ read.payload = c
      /\ Admitted(c) /\ (Cleaned(c) = c => Valid(c))
    BY <1>1, <1>2, AdmittedFacts DEF Request
<1> HIDE DEF c, read
<1>5. /\ request'[r] = read
      /\ \A s \in Requests : s # r => request'[s] = request[s]
      /\ request' \in [Requests -> {NoRequest, Refusal} \cup Request]
    BY <1>0, <1>3, <1>4 DEF ConfigTypeOK
<1>6. ConfigTypeOK'
    BY <1>0, <1>1, <1>5 DEF ConfigTypeOK
<1>7. RunsReadValidConfigs'
    BY <1>0, <1>1, <1>4, <1>5 DEF RunsReadValidConfigs, Accepts, Admitted, Cleaned, Valid
<1>8. ClonesReplaceOnlyRivals' /\ NameFreeOrRivals'
    BY <1>0, <1>1, <1>4, <1>5 DEF ClonesReplaceOnlyRivals, NameFreeOrRivals, Exists, Writing
<1>9. PayloadsAreAccepted' /\ StartsStayAdmitted'
    BY <1>0, <1>1, <1>4, <1>5
    DEF PayloadsAreAccepted, StartsStayAdmitted, Accepts, Admitted, Cleaned, Valid,
        Writing
<1>10. RivalsKnown'
    BY <1>0, <1>1, <1>4, <1>5 DEF RivalsKnown, Underway
<1>11. TempsAreOpen'
    BY <1>0, <1>1, <1>4, <1>5 DEF TempsAreOpen
<1> QED
    BY <1>6, <1>7, <1>8, <1>9, <1>10, <1>11 DEF ConfigInv

(* A kill ends the requests being written and spares the runs.             *)
LEMMA ConfigKill ==
    ASSUME ConfigInv, KillServer
    PROVE  ConfigInv'
<1>0. /\ ConfigTypeOK /\ RunsReadValidConfigs /\ ClonesReplaceOnlyRivals
      /\ PayloadsAreAccepted /\ StartsStayAdmitted /\ RivalsKnown /\ NameFreeOrRivals /\ TempsAreOpen
    BY DEF ConfigInv
<1>1. /\ crashed' = TRUE
      /\ UNCHANGED <<files, temps, rivals, overwrote, author>>
    BY DEF KillServer
<1>2. ASSUME NEW s \in Requests
      PROVE  /\ request'[s] \in {NoRequest, Refusal} \cup Request
             /\ request'[s].op = request[s].op /\ request'[s].name = request[s].name
             /\ request'[s].payload = request[s].payload
             /\ request'[s].at = IF request[s].at \in Writing THEN "killed" ELSE request[s].at
    <2>1. request'[s] = IF request[s].at \in Writing
                        THEN [request[s] EXCEPT !.at = "killed"] ELSE request[s]
        BY DEF KillServer, Writing
    <2>2. CASE request[s].at \in Writing
        <3>1. request[s] \in Request
            BY <2>2, <1>0, ConfigTyped DEF Writing
        <3> QED
            BY <2>1, <2>2, <3>1 DEF Request
    <2>3. CASE request[s].at \notin Writing
        BY <2>1, <2>3, <1>0 DEF ConfigTypeOK
    <2> QED
        BY <2>2, <2>3
<1>3. request' = [s \in Requests |-> request'[s]]
    BY DEF KillServer
<1>4. ConfigTypeOK'
    BY <1>0, <1>1, <1>2, <1>3 DEF ConfigTypeOK
<1>5. RunsReadValidConfigs'
    BY <1>0, <1>1, <1>2 DEF RunsReadValidConfigs, Writing
<1>6. ClonesReplaceOnlyRivals' /\ NameFreeOrRivals'
    BY <1>0, <1>1, <1>2 DEF ClonesReplaceOnlyRivals, NameFreeOrRivals, Exists, Writing
<1>7. PayloadsAreAccepted' /\ StartsStayAdmitted'
    BY <1>0, <1>1, <1>2
    DEF PayloadsAreAccepted, StartsStayAdmitted, Accepts, Admitted, Cleaned, Valid,
        Writing
<1>8. RivalsKnown'
    BY <1>0, <1>1, <1>2 DEF RivalsKnown, Underway
<1>9. TempsAreOpen'
    BY <1>0, <1>1, <1>2 DEF TempsAreOpen, Writing
<1> QED
    BY <1>4, <1>5, <1>6, <1>7, <1>8, <1>9 DEF ConfigInv

(* Every step keeps the invariant.                                         *)
LEMMA ConfigStep == ConfigInv /\ [ConfigNext]_configVars => ConfigInv'
<1> SUFFICES ASSUME ConfigInv, [ConfigNext]_configVars PROVE ConfigInv'
    OBVIOUS
<1>1. CASE UNCHANGED configVars
    BY <1>1 DEF configVars, ConfigInv, ConfigTypeOK, RunsReadValidConfigs,
        ClonesReplaceOnlyRivals, PayloadsAreAccepted, StartsStayAdmitted, RivalsKnown,
        NameFreeOrRivals, TempsAreOpen, Exists
<1>2. CASE KillServer
    BY <1>2, ConfigKill
<1>3. ASSUME NEW r \in Requests,
             CheckSave(r) \/ CheckClone(r) \/ CheckStart(r) \/ OpenTemp(r) \/ FillTemp(r)
             \/ ReplaceFile(r) \/ WriteFails(r) \/ RunReads(r)
      PROVE  ConfigInv'
    BY <1>3, ConfigChecks, ConfigMoves, ConfigReplaces, ConfigRunReads
<1> QED
    BY <1>1, <1>2, <1>3 DEF ConfigNext

(* The inductive invariant.                                                *)
THEOREM ConfigInvariant == ConfigSpec => []ConfigInv
<1> QED
    BY ConfigInitInv, ConfigStep, PTL DEF ConfigSpec

(* A run that create_run accepted reads a whole file that the API accepts, *)
(* and every file a request wrote is whole and accepted, whatever is       *)
(* saved, cloned, killed or fails in between; where normalization finds    *)
(* nothing to take off, the run accepts it too (_atomic_write_yaml,        *)
(* validate_config).                                                       *)
THEOREM RunsStartFromValidFiles == ConfigSpec => []RunsReadValidConfigs
<1>1. ConfigInv => RunsReadValidConfigs
    BY DEF ConfigInv
<1> QED
    BY <1>1, ConfigInvariant, PTL

(* clone_config replaces a file only when a request that was under way at  *)
(* the same time wrote it.                                                 *)
THEOREM OnlyRivalsAreReplaced == ConfigSpec => []ClonesReplaceOnlyRivals
<1>1. ConfigInv => ClonesReplaceOnlyRivals
    BY DEF ConfigInv
<1> QED
    BY <1>1, ConfigInvariant, PTL

(* Without a kill no request leaves its temporary file behind.             *)
THEOREM TempsAreRemoved == ConfigSpec => []NoTempsLeft
<1>1. ConfigInv => NoTempsLeft
    BY DEF ConfigInv, ConfigTypeOK, TempsAreOpen, NoTempsLeft
<1> QED
    BY <1>1, ConfigInvariant, PTL

-----------------------------------------------------------------------------
(* ConfigRules                                                             *)

(* One element in front of one or two others.                              *)
LEMMA TwoInSequence ==
    ASSUME NEW S, NEW a \in S, NEW b \in S
    PROVE  /\ <<a>> \in Seq(S) /\ <<b>> \in Seq(S) /\ <<a, b>> \in Seq(S)
           /\ <<a>> \o <<b>> = <<a, b>>
<1>1. PICK p \in Seq(S) : p = <<a>> /\ Len(p) = 1 /\ p[1] = a
    <2>1. <<a>> \in Seq(S)
        OBVIOUS
    <2>2. Len(<<a>>) = 1 /\ <<a>>[1] = a
        OBVIOUS
    <2> QED
        BY <2>1, <2>2, Zenon
<1>2. PICK q \in Seq(S) : q = <<b>> /\ Len(q) = 1 /\ q[1] = b
    <2>1. <<b>> \in Seq(S)
        OBVIOUS
    <2>2. Len(<<b>>) = 1 /\ <<b>>[1] = b
        OBVIOUS
    <2> QED
        BY <2>1, <2>2, Zenon
<1>3. PICK r \in Seq(S) : r = <<a, b>> /\ Len(r) = 2 /\ r[1] = a /\ r[2] = b
    <2>1. <<a, b>> \in Seq(S)
        OBVIOUS
    <2>2. Len(<<a, b>>) = 2 /\ <<a, b>>[1] = a /\ <<a, b>>[2] = b
        OBVIOUS
    <2> QED
        BY <2>1, <2>2, Zenon
<1>4. p \o q = r
    <2>1. p \o q \in Seq(S) /\ Len(p \o q) = 2 /\ (p \o q)[1] = a /\ (p \o q)[2] = b
        BY <1>1, <1>2
    <2>2. \A i \in 1 .. Len(r) : (p \o q)[i] = r[i]
        BY <1>3, <2>1
    <2> QED
        BY <1>3, <2>1, <2>2, SeqEqual
<1> QED
    BY <1>1, <1>2, <1>3, <1>4, Zenon

(* One element in front of two others.                                     *)
LEMMA ThreeInSequence ==
    ASSUME NEW S, NEW a \in S, NEW b \in S, NEW c \in S
    PROVE  <<a>> \o <<b, c>> = <<a, b, c>>
<1>1. PICK p \in Seq(S) : p = <<a>> /\ Len(p) = 1 /\ p[1] = a
    <2>1. <<a>> \in Seq(S)
        OBVIOUS
    <2>2. Len(<<a>>) = 1 /\ <<a>>[1] = a
        OBVIOUS
    <2> QED
        BY <2>1, <2>2, Zenon
<1>2. PICK q \in Seq(S) : q = <<b, c>> /\ Len(q) = 2 /\ q[1] = b /\ q[2] = c
    <2>1. <<b, c>> \in Seq(S)
        OBVIOUS
    <2>2. Len(<<b, c>>) = 2 /\ <<b, c>>[1] = b /\ <<b, c>>[2] = c
        OBVIOUS
    <2> QED
        BY <2>1, <2>2, Zenon
<1>3. PICK r \in Seq(S) : r = <<a, b, c>> /\ Len(r) = 3 /\ r[1] = a /\ r[2] = b /\ r[3] = c
    <2>1. <<a, b, c>> \in Seq(S)
        OBVIOUS
    <2>2. Len(<<a, b, c>>) = 3 /\ <<a, b, c>>[1] = a /\ <<a, b, c>>[2] = b /\ <<a, b, c>>[3] = c
        OBVIOUS
    <2> QED
        BY <2>1, <2>2, Zenon
<1>4. p \o q = r
    <2>1. p \o q \in Seq(S) /\ Len(p \o q) = 3
          /\ (p \o q)[1] = a /\ (p \o q)[2] = b /\ (p \o q)[3] = c
        BY <1>1, <1>2
    <2>2. \A i \in 1 .. Len(r) : (p \o q)[i] = r[i]
        BY <1>3, <2>1
    <2> QED
        BY <1>3, <2>1, <2>2, SeqEqual
<1> QED
    BY <1>1, <1>2, <1>3, <1>4, Zenon

(* Mappings that set some of the fields, and the zones made of them.       *)
SomeFields(e) == /\ DOMAIN e \subseteq Fields
                 /\ e = [f \in DOMAIN e |-> e[f]]
                 /\ \A f \in DOMAIN e : e[f] \in Nat
HasSections(s) ==
    /\ SomeFields(s.root) /\ SomeFields(s.default)
    /\ \A c \in DOMAIN s.class : SomeFields(s.class[c])
    /\ s.class = [c \in DOMAIN s.class |-> s.class[c]]
HasShape(zone) ==
    /\ HasSections(zone)
    /\ \A k \in DOMAIN zone.cameras : HasSections(zone.cameras[k])

RulesTypes ==
    /\ stage \in {"loaded", "validated", "collecting", "rejected", "refused"}
    /\ \A name \in DOMAIN rawLimits : rawLimits[name] \in Int
    /\ rawCameras \in Seq([id : {"a", "b", ""}, enabled : BOOLEAN, sound : BOOLEAN])
    /\ HasShape(rawZone)

(* What a stage says of the configuration.                                 *)
StagesAreEarned ==
    /\ stage \in {"validated", "collecting", "refused"} =>
          /\ LimitsAccepted(rawLimits) /\ CamerasAccepted(rawCameras)
          /\ validated = ValidatedZone(rawZone)
          /\ \A p \in Profiles(validated) : Sound(p)
    /\ stage \in {"collecting", "refused"} => collected = validated
    /\ stage = "collecting" => Limit(rawLimits, "maximum_candidates_per_track") >= 1
    /\ stage = "refused" => Limit(rawLimits, "maximum_candidates_per_track") < 1

RulesInv == RulesTypes /\ StagesAreEarned

-----------------------------------------------------------------------------
(* Layers                                                                  *)

Complete(p) == p = [f \in Fields |-> p[f]]

(* A complete profile is not changed by what completes it.                 *)
LEMMA OverComplete ==
    ASSUME NEW p, Complete(p), NEW fallback
    PROVE  Over(p, fallback) = p
<1>1. DOMAIN p = Fields
    BY DEF Complete
<1> QED
    BY <1>1 DEF Over, Complete

(* What lies over the defaults has every field.                            *)
LEMMA OverIsComplete ==
    ASSUME NEW e, NEW fallback
    PROVE  Complete(Over(e, fallback))
    BY DEF Over, Complete

(* Nor is a complete default, with or without itself at the root.          *)
LEMMA DefaultComplete ==
    ASSUME NEW s, Complete(s.default), s.root = s.default \/ s.root = Nothing, NEW fallback
    PROVE  DefaultProfile(s, fallback) = s.default
<1>1. DOMAIN s.default = Fields
    BY DEF Complete
<1>2. DOMAIN Nothing = {}
    BY DEF Nothing
<1>3. Merge(s.default, s.root) = s.default
    <2>1. CASE s.root = s.default
        BY <1>1, <2>1 DEF Merge, Complete
    <2>2. CASE s.root = Nothing
        BY <1>1, <1>2, <2>2 DEF Merge, Complete
    <2> QED
        BY <2>1, <2>2
<1> QED
    BY <1>3, OverComplete DEF DefaultProfile

(* Normalizing what was validated changes nothing: each of its profiles is *)
(* complete, and every fallback gives way to it.                           *)
LEMMA NormalizedTwice ==
    ASSUME NEW zone
    PROVE  CollectedZone(ValidatedZone(zone)) = ValidatedZone(zone)
<1>1. PICK default : default = DefaultProfile(zone, BaseProfile)
    OBVIOUS
<1>2. PICK classes : classes = ClassProfiles(zone, default)
    OBVIOUS
<1>3. PICK cameras : cameras = [k \in DOMAIN zone.cameras |->
                                  CameraProfile(zone.cameras[k], classes, default)]
    OBVIOUS
<1>4. PICK v : v = ValidatedZone(zone)
    OBVIOUS
<1>5. v = [root |-> default, default |-> default, class |-> classes, cameras |-> cameras]
    BY <1>1, <1>2, <1>3, <1>4 DEF ValidatedZone
<1>6. v.root = default /\ v.default = default /\ v.class = classes /\ v.cameras = cameras
    BY <1>5
<1>7. Complete(default)
    BY <1>1, OverIsComplete DEF DefaultProfile
<1>8. DefaultProfile(v, BaseProfile) = default
    BY <1>6, <1>7, DefaultComplete
<1>9. [c \in DOMAIN v.class |-> Over(v.class[c], default)] = classes
    <2>1. \A c \in DOMAIN classes : Complete(classes[c])
        BY <1>2, OverIsComplete DEF ClassProfiles
    <2>2. \A c \in DOMAIN classes : Over(classes[c], default) = classes[c]
        BY <2>1, OverComplete
    <2>3. classes = [c \in DOMAIN classes |-> classes[c]]
        BY <1>2 DEF ClassProfiles
    <2> QED
        BY <1>6, <2>2, <2>3
<1>10. ASSUME NEW k \in DOMAIN cameras
       PROVE  LET own == DefaultProfile(cameras[k], default)
              IN  [root |-> Nothing, default |-> own,
                   class |-> [c \in DOMAIN cameras[k].class |->
                                Over(cameras[k].class[c],
                                     IF c \in DOMAIN classes THEN classes[c] ELSE own)]]
                  = cameras[k]
    <2>1. PICK entry : entry = zone.cameras[k]
        OBVIOUS
    <2>2. PICK d : d = DefaultProfile(entry, default)
        OBVIOUS
    <2>3. PICK cs : cs = [c \in DOMAIN entry.class |->
                             Over(entry.class[c], ClassFallback(c, classes, d))]
        OBVIOUS
    <2>4. cameras[k] = [root |-> Nothing, default |-> d, class |-> cs]
        BY <1>3, <2>1, <2>2, <2>3 DEF CameraProfile
    <2>5. cameras[k].root = Nothing /\ cameras[k].default = d /\ cameras[k].class = cs
        BY <2>4
    <2>6. Complete(d)
        BY <2>2, OverIsComplete DEF DefaultProfile
    <2>7. DefaultProfile(cameras[k], default) = d
        BY <2>5, <2>6, DefaultComplete
    <2>8. \A c \in DOMAIN cs : Complete(cs[c])
        BY <2>3, OverIsComplete
    <2>9. \A c \in DOMAIN cs : Over(cs[c], IF c \in DOMAIN classes THEN classes[c] ELSE d) = cs[c]
        BY <2>8, OverComplete
    <2>10. [c \in DOMAIN cs |-> Over(cs[c], IF c \in DOMAIN classes THEN classes[c] ELSE d)] = cs
        <3>1. cs = [c \in DOMAIN cs |-> cs[c]]
            BY <2>3
        <3> QED
            BY <2>9, <3>1
    <2> QED
        BY <2>4, <2>5, <2>7, <2>10
<1>11. [k \in DOMAIN cameras |->
            LET own == DefaultProfile(cameras[k], default)
            IN  [root |-> Nothing, default |-> own,
                 class |-> [c \in DOMAIN cameras[k].class |->
                              Over(cameras[k].class[c],
                                   IF c \in DOMAIN classes THEN classes[c] ELSE own)]]]
       = cameras
    <2>1. cameras = [k \in DOMAIN cameras |-> cameras[k]]
        BY <1>3
    <2> QED
        BY <1>10, <2>1
<1>12. CollectedZone(v) =
          [root |-> default, default |-> default, class |-> classes, cameras |-> cameras]
    BY <1>6, <1>8, <1>9, <1>11 DEF CollectedZone
<1> QED
    BY <1>4, <1>5, <1>12

-----------------------------------------------------------------------------
(* The first layer that sets a field, if the rest sets it or it does.      *)
LEMMA FirstThenRest ==
    ASSUME NEW S, NEW e \in S, NEW rest \in Seq(S), NEW f,
           \E i \in 1..Len(rest) : f \in DOMAIN rest[i]
    PROVE  /\ FirstSet(<<e>> \o rest, f) =
                  IF f \in DOMAIN e THEN e[f] ELSE FirstSet(rest, f)
           /\ <<e>> \o rest \in Seq(S)
           /\ \E i \in 1..Len(<<e>> \o rest) : f \in DOMAIN (<<e>> \o rest)[i]
<1>1. PICK all : all = <<e>> \o rest
    OBVIOUS
<1>2. /\ all \in Seq(S) /\ Len(all) = Len(rest) + 1 /\ Len(rest) \in Nat
      /\ all[1] = e /\ \A i \in 1..Len(rest) : all[i + 1] = rest[i]
    BY <1>1
<1>3. DOMAIN all = 1..Len(all) /\ DOMAIN rest = 1..Len(rest)
    BY <1>2
<1> DEFINE Sets(q, i) == /\ i \in 1..Len(q) /\ f \in DOMAIN q[i]
                         /\ \A j \in 1..(i - 1) : f \notin DOMAIN q[j]
<1>4. FirstSet(all, f) = all[CHOOSE i \in 1..Len(all) :
                                /\ f \in DOMAIN all[i]
                                /\ \A j \in 1..(i - 1) : f \notin DOMAIN all[j]][f]
      /\ FirstSet(rest, f) = rest[CHOOSE i \in 1..Len(rest) :
                                /\ f \in DOMAIN rest[i]
                                /\ \A j \in 1..(i - 1) : f \notin DOMAIN rest[j]][f]
    BY <1>3 DEF FirstSet
<1>5. PICK r : Sets(rest, r)
    <2> DEFINE D == {i \in 1..Len(rest) : f \in DOMAIN rest[i]}
    <2>1. D \in SUBSET Nat /\ D # {}
        OBVIOUS
    <2> HIDE DEF D
    <2>2. PICK m \in D : \A n \in D : m <= n
        BY <2>1, LeastNat
    <2>3. m \in 1..Len(rest) /\ f \in DOMAIN rest[m]
        BY DEF D
    <2>4. \A j \in 1..(m - 1) : j \notin D /\ j \in 1..Len(rest)
        BY <1>2, <2>2, <2>3
    <2> QED
        BY <2>3, <2>4 DEF D
<1>6. \A i : Sets(rest, i) => i = r
    BY <1>2, <1>5
<1>7. FirstSet(rest, f) = rest[r][f]
    BY <1>4, <1>5, <1>6
<1>8. CASE f \in DOMAIN e
    <2>1. Sets(all, 1) /\ \A i : Sets(all, i) => i = 1
        BY <1>2, <1>8
    <2>2. FirstSet(all, f) = all[1][f]
        BY <1>4, <2>1
    <2> QED
        BY <1>1, <1>2, <1>8, <2>1, <2>2
<1>9. CASE f \notin DOMAIN e
    <2>1. Sets(all, r + 1)
        <3>1. \A j \in 1..r : f \notin DOMAIN all[j]
            <4> TAKE j \in 1..r
            <4>1. CASE j = 1
                BY <1>2, <1>9, <4>1
            <4>2. CASE j # 1
                <5>1. j - 1 \in 1..(r - 1) /\ j - 1 \in 1..Len(rest) /\ (j - 1) + 1 = j
                    BY <1>2, <1>5, <4>2
                <5>2. all[(j - 1) + 1] = rest[j - 1]
                    BY <1>2, <5>1
                <5> QED
                    BY <1>5, <5>1, <5>2
            <4> QED
                BY <4>1, <4>2
        <3>2. r + 1 \in 1..Len(all) /\ (r + 1) - 1 = r /\ all[r + 1] = rest[r]
            BY <1>2, <1>5
        <3> QED
            BY <1>5, <3>1, <3>2
    <2>2. ASSUME NEW i, Sets(all, i) PROVE i = r + 1
        <3>1. i \in Nat /\ i >= 1 /\ r + 1 \in Nat /\ r + 1 >= 1
            BY <1>2, <1>5, <2>2
        <3>2. ~ (i < r + 1)
            <4>1. i < r + 1 => i \in 1..((r + 1) - 1)
                BY <3>1
            <4> QED
                BY <2>1, <2>2, <4>1
        <3>3. ~ (r + 1 < i)
            <4>1. r + 1 < i => r + 1 \in 1..(i - 1)
                BY <3>1
            <4> QED
                BY <2>1, <2>2, <4>1
        <3> QED
            BY <3>1, <3>2, <3>3
    <2>3. FirstSet(all, f) = all[r + 1][f]
        BY <1>4, <2>1, <2>2
    <2> QED
        BY <1>1, <1>2, <1>5, <1>7, <1>9, <2>1, <2>3
<1> QED
    BY <1>8, <1>9

-----------------------------------------------------------------------------
(* The profile of a camera and a class, field by field, and the layers.    *)

Layer == UNION {[T -> Nat] : T \in SUBSET Fields}

(* The layers that the fields are looked up in.                            *)
LEMMA LayersAre ==
    /\ \A e : SomeFields(e) => e \in Layer
    /\ BaseProfile \in Layer /\ \A f \in Fields : f \in DOMAIN BaseProfile
    BY DEF SomeFields, Layer, BaseProfile, Fields

(* The general layers, and a default profile.                              *)
LEMMA GeneralLayers ==
    ASSUME NEW S, BaseProfile \in S, NEW a \in S, NEW b \in S, NEW f \in Fields
    PROVE  /\ FirstSet(<<a, b, BaseProfile>>, f) = Over(Merge(b, a), BaseProfile)[f]
           /\ <<a, b, BaseProfile>> \in Seq(S)
           /\ \E i \in 1..Len(<<a, b, BaseProfile>>) : f \in DOMAIN <<a, b, BaseProfile>>[i]
<1>1. PICK z \in S : z = BaseProfile /\ f \in DOMAIN z
    BY LayersAre
<1>2. PICK one : one = <<z>>
    OBVIOUS
<1>3. one \in Seq(S) /\ one[1] = z /\ Len(one) = 1 /\ DOMAIN one = {1}
    <2>1. <<z>>[1] = z /\ Len(<<z>>) = 1 /\ DOMAIN <<z>> = {1}
        OBVIOUS
    <2>2. <<z>> \in Seq(S)
        OBVIOUS
    <2> QED
        BY <1>2, <2>1, <2>2
<1>4. FirstSet(one, f) = z[f]
    <2>1. (CHOOSE i \in DOMAIN one : /\ f \in DOMAIN one[i]
                                     /\ \A j \in 1..(i - 1) : f \notin DOMAIN one[j]) = 1
        BY <1>1, <1>3
    <2> QED
        BY <1>3, <2>1 DEF FirstSet
<1>5. \E i \in 1..Len(one) : f \in DOMAIN one[i]
    BY <1>1, <1>3
<1>6. PICK two : two = <<b>> \o one
    OBVIOUS
<1>7. /\ FirstSet(two, f) = IF f \in DOMAIN b THEN b[f] ELSE z[f]
      /\ two \in Seq(S)
      /\ \E i \in 1..Len(two) : f \in DOMAIN two[i]
    BY <1>3, <1>4, <1>5, <1>6, FirstThenRest
<1>8. PICK three : three = <<a>> \o two
    OBVIOUS
<1>9. /\ FirstSet(three, f) = IF f \in DOMAIN a THEN a[f] ELSE FirstSet(two, f)
      /\ three \in Seq(S)
      /\ \E i \in 1..Len(three) : f \in DOMAIN three[i]
    BY <1>7, <1>8, FirstThenRest
<1>10. three = <<a, b, z>>
    <2>1. <<b>> \o <<z>> = <<b, z>> /\ <<a>> \o <<b, z>> = <<a, b, z>>
        BY TwoInSequence, ThreeInSequence, Zenon
    <2> QED
        BY <1>2, <1>6, <1>8, <2>1
<1>11. Over(Merge(b, a), z)[f] =
          IF f \in DOMAIN a THEN a[f] ELSE IF f \in DOMAIN b THEN b[f] ELSE z[f]
    BY DEF Over, Merge
<1>12. FirstSet(three, f) = Over(Merge(b, a), z)[f]
    BY <1>7, <1>9, <1>11
<1> QED
    BY <1>1, <1>9, <1>10, <1>12

(* Two layers of a camera's own before the others.                         *)
LEMMA OwnLayers ==
    ASSUME NEW S, NEW a \in S, NEW b \in S, NEW rest \in Seq(S), NEW f \in Fields,
           \E i \in 1..Len(rest) : f \in DOMAIN rest[i],
           NEW default, default[f] = FirstSet(rest, f)
    PROVE  /\ FirstSet(<<a, b>> \o rest, f) = Over(Merge(b, a), default)[f]
           /\ <<a, b>> \o rest \in Seq(S)
           /\ \E i \in 1..Len(<<a, b>> \o rest) : f \in DOMAIN (<<a, b>> \o rest)[i]
<1>1. PICK low : low = <<b>> \o rest
    OBVIOUS
<1>2. /\ FirstSet(low, f) = IF f \in DOMAIN b THEN b[f] ELSE FirstSet(rest, f)
      /\ low \in Seq(S)
      /\ \E i \in 1..Len(low) : f \in DOMAIN low[i]
    BY <1>1, FirstThenRest
<1>3. PICK high : high = <<a>> \o low
    OBVIOUS
<1>4. /\ FirstSet(high, f) = IF f \in DOMAIN a THEN a[f] ELSE FirstSet(low, f)
      /\ high \in Seq(S)
      /\ \E i \in 1..Len(high) : f \in DOMAIN high[i]
    BY <1>2, <1>3, FirstThenRest
<1>5. high = <<a, b>> \o rest
    <2>1. <<a>> \in Seq(S) /\ <<b>> \in Seq(S) /\ <<a>> \o <<b>> = <<a, b>>
        BY TwoInSequence, Zenon
    <2>2. <<a>> \o (<<b>> \o rest) = (<<a>> \o <<b>>) \o rest
        BY <2>1, ConcatAssociative
    <2> QED
        BY <1>1, <1>3, <2>1, <2>2
<1>6. Over(Merge(b, a), default)[f] =
          IF f \in DOMAIN a THEN a[f] ELSE IF f \in DOMAIN b THEN b[f] ELSE default[f]
    BY DEF Over, Merge
<1>7. FirstSet(high, f) = Over(Merge(b, a), default)[f]
    BY <1>2, <1>4, <1>6
<1> QED
    BY <1>4, <1>5, <1>7

(* The profile of a camera and a class takes every field from the first    *)
(* layer that sets it.                                                     *)
LEMMA ProfilesFollowLayers ==
    ASSUME HasShape(rawZone), NEW camera, NEW class, NEW f \in Fields
    PROVE  ProfileFor(ValidatedZone(rawZone), camera, class)[f]
              = FirstSet(LayersFor(camera, class), f)
<1>0. PICK S : S = Layer
    OBVIOUS
<1>0a. BaseProfile \in S /\ \A e : SomeFields(e) => e \in S
    BY <1>0, LayersAre
<1>1. PICK default : default = DefaultProfile(rawZone, BaseProfile)
    OBVIOUS
<1>2. PICK classes : classes = ClassProfiles(rawZone, default)
    OBVIOUS
<1>3. PICK v : v = ValidatedZone(rawZone)
    OBVIOUS
<1>4. /\ v.default = default /\ v.class = classes
      /\ DOMAIN v.cameras = DOMAIN rawZone.cameras
      /\ \A k \in DOMAIN rawZone.cameras :
            v.cameras[k] = CameraProfile(rawZone.cameras[k], classes, default)
    BY <1>1, <1>2, <1>3 DEF ValidatedZone
<1>5. PICK general : general = <<rawZone.root, rawZone.default, BaseProfile>>
    OBVIOUS
<1>6. rawZone.root \in S /\ rawZone.default \in S
    BY <1>0a DEF HasShape, HasSections
<1>7. /\ default[f] = FirstSet(general, f) /\ general \in Seq(S)
      /\ \E i \in 1..Len(general) : f \in DOMAIN general[i]
    BY <1>0a, <1>1, <1>5, <1>6, GeneralLayers DEF DefaultProfile
<1>8. DOMAIN classes = DOMAIN rawZone.class
    BY <1>2 DEF ClassProfiles
<1>9. ASSUME class \in DOMAIN rawZone.class
      PROVE  /\ FirstSet(<<rawZone.class[class]>> \o general, f) = classes[class][f]
             /\ <<rawZone.class[class]>> \o general \in Seq(S)
             /\ \E i \in 1..Len(<<rawZone.class[class]>> \o general) :
                   f \in DOMAIN (<<rawZone.class[class]>> \o general)[i]
    <2>1. PICK e : e = rawZone.class[class]
        OBVIOUS
    <2>2. e \in S
        BY <1>9, <2>1, <1>0a DEF HasShape, HasSections
    <2>3. classes[class][f] = IF f \in DOMAIN e THEN e[f] ELSE default[f]
        BY <1>2, <1>9, <2>1 DEF ClassProfiles, Over
    <2>4. /\ FirstSet(<<e>> \o general, f) =
                 IF f \in DOMAIN e THEN e[f] ELSE FirstSet(general, f)
          /\ <<e>> \o general \in Seq(S)
          /\ \E i \in 1..Len(<<e>> \o general) : f \in DOMAIN (<<e>> \o general)[i]
        BY <1>7, <2>2, FirstThenRest
    <2> QED
        BY <1>7, <2>1, <2>3, <2>4
<1>10. PICK byClass : byClass = IF class \in DOMAIN rawZone.class
                                THEN <<rawZone.class[class]>> ELSE <<>>
    OBVIOUS
<1>11. LayersFor(camera, class) =
          IF camera \notin DOMAIN rawZone.cameras THEN byClass \o general
          ELSE LET own == rawZone.cameras[camera]
               IN  IF class \notin DOMAIN own.class THEN <<own.root, own.default>> \o general
                   ELSE IF byClass # <<>> THEN <<own.class[class]>> \o byClass \o general
                   ELSE <<own.class[class], own.root, own.default>> \o general
    BY <1>5, <1>10 DEF LayersFor
<1>12. CASE camera \notin DOMAIN rawZone.cameras
    <2>1. ProfileFor(v, camera, class) =
             IF class \in DOMAIN classes THEN classes[class] ELSE default
        BY <1>4, <1>12 DEF ProfileFor
    <2>2. CASE class \in DOMAIN rawZone.class
        BY <1>3, <1>8, <1>9, <1>10, <1>11, <1>12, <2>1, <2>2
    <2>3. CASE class \notin DOMAIN rawZone.class
        <3>1. LayersFor(camera, class) = general
            BY <1>7, <1>10, <1>11, <1>12, <2>3
        <3> QED
            BY <1>3, <1>7, <1>8, <2>1, <2>3, <3>1
    <2> QED
        BY <2>2, <2>3
<1>13. CASE camera \in DOMAIN rawZone.cameras
    <2>1. PICK own : own = rawZone.cameras[camera]
        OBVIOUS
    <2>2. /\ own.root \in S /\ own.default \in S
          /\ \A c \in DOMAIN own.class : own.class[c] \in S
        BY <1>13, <2>1, <1>0a DEF HasShape, HasSections
    <2>3. PICK mine : mine = DefaultProfile(own, default)
        OBVIOUS
    <2>4. /\ v.cameras[camera].default = mine
          /\ DOMAIN v.cameras[camera].class = DOMAIN own.class
          /\ \A c \in DOMAIN own.class :
                v.cameras[camera].class[c] = Over(own.class[c], ClassFallback(c, classes, mine))
        <3>1. PICK cs : cs = [c \in DOMAIN own.class |->
                                 Over(own.class[c], ClassFallback(c, classes, mine))]
            OBVIOUS
        <3>2. v.cameras[camera] = CameraProfile(own, classes, default)
            BY <1>4, <1>13, <2>1
        <3>3. v.cameras[camera] = [root |-> Nothing, default |-> mine, class |-> cs]
            BY <2>3, <3>1, <3>2 DEF CameraProfile
        <3>4. v.cameras[camera].default = mine /\ v.cameras[camera].class = cs
            BY <3>3
        <3> QED
            BY <3>1, <3>4
    <2>5. ProfileFor(v, camera, class) =
             IF class \in DOMAIN own.class THEN Over(own.class[class], ClassFallback(class, classes, mine))
             ELSE mine
        BY <1>4, <1>13, <2>4 DEF ProfileFor
    <2>6. /\ mine[f] = FirstSet(<<own.root, own.default>> \o general, f)
          /\ <<own.root, own.default>> \o general \in Seq(S)
          /\ \E i \in 1..Len(<<own.root, own.default>> \o general) :
                f \in DOMAIN (<<own.root, own.default>> \o general)[i]
        BY <1>7, <2>2, <2>3, OwnLayers DEF DefaultProfile
    <2>7. CASE class \notin DOMAIN own.class
        <3>1. LayersFor(camera, class) = <<own.root, own.default>> \o general
            BY <1>11, <1>13, <2>1, <2>7
        <3> QED
            BY <1>3, <2>5, <2>6, <2>7, <3>1
    <2>8. CASE class \in DOMAIN own.class
        <3>1. PICK e : e = own.class[class]
            OBVIOUS
        <3>2. e \in S
            BY <2>2, <2>8, <3>1
        <3>3. ProfileFor(v, camera, class)[f] =
                 IF f \in DOMAIN e THEN e[f] ELSE ClassFallback(class, classes, mine)[f]
            BY <2>5, <2>8, <3>1 DEF Over
        <3>4. CASE class \in DOMAIN rawZone.class
            <4>1. byClass = <<rawZone.class[class]>> /\ byClass # <<>>
                BY <1>10, <3>4
            <4>2. rawZone.class[class] \in S
                BY <3>4, <1>0a DEF HasShape, HasSections
            <4>3. LayersFor(camera, class) = <<e>> \o byClass \o general
                BY <1>11, <1>13, <2>1, <2>8, <3>1, <4>1
            <4>4. (<<e>> \o byClass) \o general = <<e>> \o (byClass \o general)
                <5>1. <<e>> \in Seq(S) /\ byClass \in Seq(S)
                    BY <3>2, <4>1, <4>2
                <5> QED
                    BY <1>7, <5>1, ConcatAssociative
            <4>5. FirstSet(<<e>> \o (byClass \o general), f) =
                     IF f \in DOMAIN e THEN e[f] ELSE FirstSet(byClass \o general, f)
                <5>1. /\ byClass \o general \in Seq(S)
                      /\ \E i \in 1..Len(byClass \o general) : f \in DOMAIN (byClass \o general)[i]
                    BY <1>9, <3>4, <4>1
                <5>2. PICK low : low = byClass \o general
                    OBVIOUS
                <5>3. low \in Seq(S) /\ \E i \in 1..Len(low) : f \in DOMAIN low[i]
                    BY <5>1, <5>2
                <5>4. /\ FirstSet(<<e>> \o low, f) =
                             IF f \in DOMAIN e THEN e[f] ELSE FirstSet(low, f)
                      /\ <<e>> \o low \in Seq(S)
                      /\ \E i \in 1..Len(<<e>> \o low) : f \in DOMAIN (<<e>> \o low)[i]
                    BY <3>2, <5>3, FirstThenRest
                <5> QED
                    BY <5>2, <5>4
            <4>6. FirstSet(byClass \o general, f) = classes[class][f]
                BY <1>9, <3>4, <4>1
            <4>7. ClassFallback(class, classes, mine) = classes[class]
                BY <1>8, <3>4 DEF ClassFallback
            <4> QED
                BY <1>3, <3>3, <4>3, <4>4, <4>5, <4>6, <4>7
        <3>5. CASE class \notin DOMAIN rawZone.class
            <4>1. byClass = <<>>
                BY <1>10, <3>5
            <4>2. LayersFor(camera, class) = <<e, own.root, own.default>> \o general
                BY <1>11, <1>13, <2>1, <2>8, <3>1, <4>1
            <4>3. <<e, own.root, own.default>> \o general
                      = <<e>> \o (<<own.root, own.default>> \o general)
                <5>1. PICK a \in S, b \in S : a = own.root /\ b = own.default
                    BY <2>2
                <5>2. <<e>> \in Seq(S) /\ <<a, b>> \in Seq(S) /\ <<e>> \o <<a, b>> = <<e, a, b>>
                    BY <3>2, TwoInSequence, ThreeInSequence
                <5>3. (<<e>> \o <<a, b>>) \o general = <<e>> \o (<<a, b>> \o general)
                    BY <1>7, <5>2, ConcatAssociative
                <5> QED
                    BY <5>1, <5>2, <5>3
            <4>4. FirstSet(<<e>> \o (<<own.root, own.default>> \o general), f) =
                     IF f \in DOMAIN e THEN e[f]
                     ELSE FirstSet(<<own.root, own.default>> \o general, f)
                <5>1. PICK low : low = <<own.root, own.default>> \o general
                    OBVIOUS
                <5>2. low \in Seq(S) /\ \E i \in 1..Len(low) : f \in DOMAIN low[i]
                    BY <2>6, <5>1
                <5>3. /\ FirstSet(<<e>> \o low, f) =
                             IF f \in DOMAIN e THEN e[f] ELSE FirstSet(low, f)
                      /\ <<e>> \o low \in Seq(S)
                      /\ \E i \in 1..Len(<<e>> \o low) : f \in DOMAIN (<<e>> \o low)[i]
                    BY <3>2, <5>2, FirstThenRest
                <5> QED
                    BY <5>1, <5>3
            <4>5. ClassFallback(class, classes, mine) = mine
                BY <1>8, <3>5 DEF ClassFallback
            <4> QED
                BY <1>3, <2>6, <3>3, <4>2, <4>3, <4>4, <4>5
        <3> QED
            BY <3>4, <3>5
    <2> QED
        BY <2>7, <2>8
<1> QED
    BY <1>12, <1>13

-----------------------------------------------------------------------------

(* Limits that are not given have their defaults.                          *)
LEMMA LimitIsInt ==
    ASSUME \A name \in DOMAIN rawLimits : rawLimits[name] \in Int, NEW n \in LimitNames
    PROVE  Limit(rawLimits, n) \in Int
<1>1. DefaultLimit(n) \in Int
    BY DEF DefaultLimit, LimitNames
<1> QED
    BY <1>1 DEF Limit

(* An entry of a file sets some of the fields.                             *)
LEMMA EntriesHaveShape ==
    ASSUME NEW e \in Entries
    PROVE  SomeFields(e)
<1>1. PICK S \in SUBSET Fields : e \in [S -> TopRatios \cup BottomRatios]
    BY DEF Entries
<1> QED
    BY <1>1, RulesAssumption DEF SomeFields, RulesAssumption

(* A partial map is a function.                                            *)
LEMMA MapsHaveShape ==
    ASSUME NEW D, NEW V, NEW m \in PartialMaps(D, V)
    PROVE  m = [d \in DOMAIN m |-> m[d]] /\ \A d \in DOMAIN m : m[d] \in V
    BY DEF PartialMaps

(* The zones of a file have the shape that validation expects.             *)
LEMMA FilesHaveShape == (\A z \in Zones : HasShape(z)) /\ HasShape(PlainZone)
<1>1. ASSUME NEW z \in Zones PROVE HasShape(z)
    <2>1. /\ z.root \in Entries /\ z.default \in Entries
          /\ z.class \in PartialMaps(ZoneClasses, Entries)
          /\ z.cameras \in PartialMaps(ZoneCameras, CameraEntries)
        BY DEF Zones
    <2>2. HasSections(z)
        BY <2>1, EntriesHaveShape, MapsHaveShape DEF HasSections
    <2>3. ASSUME NEW k \in DOMAIN z.cameras PROVE HasSections(z.cameras[k])
        <3>1. z.cameras[k] \in CameraEntries
            BY <2>1, MapsHaveShape
        <3>2. PICK c : c = z.cameras[k]
            OBVIOUS
        <3>3. /\ c.root \in Entries /\ c.default \in Entries
              /\ c.class \in PartialMaps(ZoneClasses, Entries)
            BY <3>1, <3>2 DEF CameraEntries
        <3>4. HasSections(c)
            BY <3>3, EntriesHaveShape, MapsHaveShape DEF HasSections
        <3> QED
            BY <3>2, <3>4
    <2> QED
        BY <2>2, <2>3 DEF HasShape
<1>2. HasShape(PlainZone)
    <2>1. PICK n : n = Nothing
        OBVIOUS
    <2>2. DOMAIN n = {} /\ n = [f \in DOMAIN n |-> n[f]]
        BY <2>1 DEF Nothing
    <2>3. PICK p : p = PlainZone
        OBVIOUS
    <2>4. p.root = n /\ p.default = n /\ p.class = n /\ p.cameras = n
        BY <2>1, <2>3 DEF PlainZone
    <2>5. HasShape(p)
        BY <2>2, <2>4 DEF HasShape, HasSections, SomeFields
    <2> QED
        BY <2>3, <2>5
<1> QED
    BY <1>1, <1>2

(* It holds of every file that is read.                                    *)
LEMMA RulesStart ==
    ASSUME RulesInit
    PROVE  RulesInv
<1> DEFINE R == [id : {"a", "b", ""}, enabled : BOOLEAN, sound : BOOLEAN]
<1>1. rawCameras \in Seq(R)
    <2>1. [id |-> "a", enabled |-> TRUE, sound |-> TRUE] \in R
        OBVIOUS
    <2>2. CASE rawCameras = <<[id |-> "a", enabled |-> TRUE, sound |-> TRUE]>>
        BY <2>1, <2>2
    <2>3. CASE rawCameras \in UNION {[1..n -> R] : n \in 0..2}
        <3> HIDE DEF R
        <3>1. PICK n \in 0..2 : rawCameras \in [1..n -> R]
            BY <2>3
        <3>2. n \in Nat
            BY <3>1
        <3> QED
            BY <3>1, <3>2, IsASeq
    <2> QED
        BY <2>2, <2>3 DEF RulesInit
<1>2. \A name \in DOMAIN rawLimits : rawLimits[name] \in Int
    <2>1. CASE rawLimits \in PartialMaps(LimitNames, LimitValues)
        BY <2>1, MapsHaveShape, RulesAssumption DEF RulesAssumption
    <2>2. CASE rawLimits = [name \in {"max_frames_per_camera"} |-> 1]
        BY <2>2
    <2> QED
        BY <2>1, <2>2 DEF RulesInit
<1>3. HasShape(rawZone)
    BY FilesHaveShape DEF RulesInit
<1>4. stage = "loaded"
    BY DEF RulesInit
<1> QED
    BY <1>1, <1>2, <1>3, <1>4 DEF RulesInv, RulesTypes, StagesAreEarned

(* Every step of the validation keeps it.                                  *)
LEMMA RulesStep ==
    ASSUME RulesInv, [RulesNext]_rulesVars
    PROVE  RulesInv'
<1> USE DEF RulesInv
<1>1. CASE ValidateConfig
    <2>1. UNCHANGED <<rawLimits, rawCameras, rawZone>>
        BY <1>1 DEF ValidateConfig
    <2>2. stage' \in {"validated", "rejected"}
        BY <1>1 DEF ValidateConfig
    <2>3. RulesTypes'
        BY <2>1, <2>2 DEF RulesTypes, HasShape
    <2>4. ASSUME stage' = "validated"
          PROVE  /\ LimitsAccepted(rawLimits) /\ CamerasAccepted(rawCameras)
                 /\ validated' = ValidatedZone(rawZone)
                 /\ \A p \in Profiles(ValidatedZone(rawZone)) : Sound(p)
        BY <1>1, <2>4 DEF ValidateConfig
    <2>5. StagesAreEarned'
        BY <2>1, <2>2, <2>4 DEF StagesAreEarned
    <2> QED
        BY <2>3, <2>5
<1>2. CASE CreateCollector
    <2>1. stage = "validated" /\ UNCHANGED <<rawLimits, rawCameras, rawZone, validated>>
        BY <1>2 DEF CreateCollector
    <2>2. stage' \in {"collecting", "refused"}
        BY <1>2 DEF CreateCollector
    <2>3. RulesTypes'
        BY <2>1, <2>2 DEF RulesTypes, HasShape
    <2>4. /\ LimitsAccepted(rawLimits) /\ CamerasAccepted(rawCameras)
          /\ validated = ValidatedZone(rawZone)
          /\ \A p \in Profiles(validated) : Sound(p)
        BY <2>1 DEF StagesAreEarned
    <2>5. CollectedZone(validated) = validated
        BY <2>4, NormalizedTwice
    <2>6. /\ collected' = validated
          /\ stage' = "collecting" <=> Limit(rawLimits, "maximum_candidates_per_track") >= 1
        BY <1>2, <2>4, <2>5 DEF CreateCollector
    <2>7. Limit(rawLimits, "maximum_candidates_per_track") \in Int
        BY LimitIsInt DEF RulesTypes, LimitNames
    <2>8. stage' = "refused" => Limit(rawLimits, "maximum_candidates_per_track") < 1
        BY <2>2, <2>6, <2>7
    <2>9. StagesAreEarned'
        BY <2>1, <2>2, <2>4, <2>6, <2>8 DEF StagesAreEarned
    <2> QED
        BY <2>3, <2>9
<1>3. CASE UNCHANGED rulesVars
    BY <1>3 DEF rulesVars, RulesTypes, HasShape, StagesAreEarned
<1> QED
    BY <1>1, <1>2, <1>3 DEF RulesNext

(* What a stage of the validation found is true of the file that the next  *)
(* one reads (_validate_config, EvidenceCollector).                        *)
THEOREM RulesInvariant == RulesSpec => []RulesInv
<1>1. RulesInit => RulesInv
    BY RulesStart
<1>2. RulesInv /\ [RulesNext]_rulesVars => RulesInv'
    BY RulesStep
<1> QED
    BY <1>1, <1>2, PTL DEF RulesSpec

(* The zone that the collector works with is the one that was validated:   *)
(* normalizing it again, by other code, changes nothing and refuses        *)
(* nothing but a limit on candidates (_normalize_capture_zone_config).     *)
THEOREM NormalizedOnceTheorem == RulesSpec => []NormalizedOnce
<1>1. RulesInv => NormalizedOnce
    BY DEF RulesInv, StagesAreEarned, NormalizedOnce
<1> QED
    BY <1>1, RulesInvariant, PTL

(* After both normalizations a field of the profile in use is the one that *)
(* the strongest layer sets, whatever the file sets where                  *)
(* (_resolve_capture_zone_profile).                                        *)
THEOREM LayersDecideTheorem == RulesSpec => []LayersDecide
<1>1. RulesInv => LayersDecide
    <2>1. SUFFICES ASSUME RulesInv, stage = "collecting",
                          NEW camera \in ZoneCameras, NEW class \in ZoneClasses, NEW f \in Fields
                   PROVE  ProfileFor(collected, camera, class)[f]
                             = FirstSet(LayersFor(camera, class), f)
        BY DEF LayersDecide
    <2>2. HasShape(rawZone) /\ collected = ValidatedZone(rawZone)
        BY <2>1 DEF RulesInv, RulesTypes, StagesAreEarned
    <2> QED
        BY <2>2, ProfilesFollowLayers
<1> QED
    BY <1>1, RulesInvariant, PTL

(* A run that starts has the limits and the cameras that the modules of    *)
(* ingestion, tracking and evidence assume (_validate_config).             *)
THEOREM LimitsFitTheorem == RulesSpec => []LimitsFitTheModules
<1>1. ASSUME RulesInv, stage = "collecting"
      PROVE  /\ \A name \in LimitNames \ {"maximum_lost_frames"} : Limit(rawLimits, name) \in Nat \ {0}
             /\ Limit(rawLimits, "maximum_lost_frames") \in Nat
             /\ Cardinality({rawCameras[i].id : i \in DOMAIN rawCameras}) = Len(rawCameras)
             /\ rawCameras # <<>>
    <2>1. /\ LimitsAccepted(rawLimits) /\ CamerasAccepted(rawCameras)
          /\ Limit(rawLimits, "maximum_candidates_per_track") >= 1
        BY <1>1 DEF RulesInv, StagesAreEarned
    <2>2. \A name \in LimitNames : Limit(rawLimits, name) \in Int
        BY <1>1, LimitIsInt DEF RulesInv, RulesTypes
    <2>3. \A name \in LimitNames \ {"maximum_lost_frames"} : Limit(rawLimits, name) \in Nat \ {0}
        BY <2>1, <2>2 DEF LimitsAccepted
    <2>4. Limit(rawLimits, "maximum_lost_frames") \in Nat
        BY <2>1, <2>2 DEF LimitsAccepted, LimitNames
    <2>5. PICK R : rawCameras \in Seq(R)
        BY <1>1 DEF RulesInv, RulesTypes
    <2>6. PICK n \in Nat : n = Len(rawCameras) /\ DOMAIN rawCameras = 1..n
        BY <2>5
    <2>7. PICK T : T = {rawCameras[i].id : i \in 1..n}
        OBVIOUS
    <2>8. Cardinality(T) = n
        <3>1. PICK g : g = [i \in 1..n |-> rawCameras[i].id]
            OBVIOUS
        <3>2. \A i, j \in 1..n : g[i] = g[j] => i = j
            BY <2>1, <2>6, <3>1 DEF CamerasAccepted
        <3>3. g \in [1..n -> T] /\ \A t \in T : \E i \in 1..n : g[i] = t
            BY <2>7, <3>1
        <3>4. g \in Bijection(1..n, T)
            BY <3>2, <3>3 DEF Bijection, Injection, Surjection, IsInjective
        <3>5. IsFiniteSet(1..n) /\ Cardinality(1..n) = n
            <4>1. 1 \in Int /\ n \in Int /\ (1 > n => n = 0) /\ n - 1 + 1 = n
                BY <2>6
            <4> QED
                BY <4>1, FS_Interval
        <3> QED
            BY <3>4, <3>5, FS_Bijection DEF ExistsBijection
    <2>9. rawCameras # <<>>
        <3>1. Len(rawCameras) # 0
            <4>1. PICK i \in 1..n : rawCameras[i].enabled
                BY <2>1, <2>6 DEF CamerasAccepted
            <4> QED
                BY <2>6, <4>1
        <3> QED
            BY <3>1
    <2> QED
        BY <2>3, <2>4, <2>6, <2>7, <2>8, <2>9
<1>2. RulesInv => LimitsFitTheModules
    BY <1>1 DEF LimitsFitTheModules
<1> QED
    BY <1>2, RulesInvariant, PTL
=============================================================================
