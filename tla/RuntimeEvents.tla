----------------------------- MODULE RuntimeEvents -----------------------------
(***************************************************************************)
(* Live state and live events (src/runtime_state.py): the run's thread     *)
(* updates the records of tracks and the status of the run under a lock,   *)
(* and publishes an event of each update outside it; every client of       *)
(* /ws/live (src/api_app.py) has a bounded queue of its own, from          *)
(* which it is sent a snapshot and then the events.                        *)
(*                                                                         *)
(* Modelled: the records' status and colour as run_pipeline reports them,  *)
(* the end of the run, the delivery of an event to one queue after the     *)
(* other, the three steps by which the oldest event of a full queue gives  *)
(* way, and the clients in between.  Cameras behave as tracks without a    *)
(* colour and are left out, as are metrics and heartbeats.                 *)
(***************************************************************************)
EXTENDS Integers, Sequences, SequencesExt

CONSTANTS
    LiveTracks,    \* the tracks of the run
    Clients,       \* connections to /ws/live
    QueueSize,     \* maxsize of subscribe
    MaxUpdates     \* bound: events of a run but for the colours at its end

ASSUME LiveAssumption ==
    /\ QueueSize \in Nat \ {0} /\ MaxUpdates \in Nat
    /\ "run" \notin LiveTracks

VARIABLES
    record,      \* what list_tracks and get_system_status would say
    answered,    \* tracks with an enrichment result in the run's list
    uncoloured,  \* results whose colour the end of the run has yet to report
    phase,       \* of run_pipeline: "loop", "colours", "over"
    updates,     \* the number of the last update
    event,       \* the event being published
    targets,     \* the subscribers it has yet to be put into
    delivery,    \* how far the put into one of them is
    subscribed,  \* the clients in _subscribers
    queue,       \* their queues
    client,      \* where the handler of a connection is
    view,        \* what a client has been told of each record
    listed,      \* the last event published to a client
    received,    \* the last event a client took
    overrun      \* whether an event of a client was dropped

runVars == <<record, answered, uncoloured, phase, updates>>
clientVars == <<subscribed, client, view, received>>
liveVars == <<runVars, event, targets, delivery, clientVars, queue, listed, overrun>>

Keys == LiveTracks \cup {"run"}
(* Of a track: its status and whether its colour is known; "flushed" is an *)
(* active record with a colour.                                            *)
Values == {"none", "active", "pending", "coloured", "flushed",
           "running", "completed", "failed"}
Coloured == {"coloured", "flushed"}
NoEvent == [n |-> 0, key |-> "run", value |-> "none"]
NoDelivery == [to |-> "nobody", step |-> "idle"]
Events == [n : Nat, key : Keys, value : Values]

LiveTypeOK ==
    /\ record \in [Keys -> Values]
    /\ answered \in SUBSET LiveTracks /\ uncoloured \in SUBSET LiveTracks
    /\ phase \in {"loop", "colours", "over"}
    /\ updates \in Nat
    /\ event \in Events
    /\ targets \in SUBSET Clients
    /\ delivery = NoDelivery \/ delivery \in [to : Clients, step : {"full", "again"}]
    /\ subscribed \in SUBSET Clients
    /\ queue \in [Clients -> Seq(Events)]
    /\ client \in [Clients -> {"out", "system", "tracks", "events", "gone"}]
    /\ view \in [Clients -> [Keys -> Values]]
    /\ listed \in [Clients -> Nat]
    /\ received \in [Clients -> Nat]
    /\ overrun \in [Clients -> BOOLEAN]

(* After initialize_run. *)
LiveInit ==
    /\ record = [k \in Keys |-> IF k = "run" THEN "running" ELSE "none"]
    /\ answered = {} /\ uncoloured = {} /\ phase = "loop" /\ updates = 0
    /\ event = NoEvent /\ targets = {} /\ delivery = NoDelivery
    /\ subscribed = {} /\ queue = [c \in Clients |-> <<>>]
    /\ client = [c \in Clients |-> "out"]
    /\ view = [c \in Clients |-> [k \in Keys |-> "none"]]
    /\ listed = [c \in Clients |-> 0] /\ received = [c \in Clients |-> 0]
    /\ overrun = [c \in Clients |-> FALSE]

-----------------------------------------------------------------------------
(* The run's thread *)

Idle == event = NoEvent

(* The locked part of an update: the record, and the event to publish. *)
Update(k, v) ==
    /\ Idle
    /\ record' = [record EXCEPT ![k] = v]
    /\ updates' = updates + 1
    /\ event' = [n |-> updates', key |-> k, value |-> v]
    /\ UNCHANGED <<targets, delivery, clientVars, queue, listed, overrun>>

InLoop == phase = "loop" /\ updates < MaxUpdates

(* update_track_runtime for a detection of the frame: the colour is reset. *)
ObserveTrack(t) ==
    /\ InLoop /\ record[t] \in {"none", "active"}
    /\ Update(t, "active")
    /\ UNCHANGED <<answered, uncoloured, phase>>

(* update_track_runtime for a completed track: its result is looked for    *)
(* among as many of the last results as tracks were completed, here one.   *)
(* The call may also return results of tracks completed earlier, and the   *)
(* track's own may come later.                                             *)
CompleteTrack(t) ==
    /\ InLoop /\ record[t] = "active"
    /\ \E late \in SUBSET ({u \in LiveTracks : record[u] = "pending"} \ answered),
          mine \in BOOLEAN, last \in BOOLEAN :
         /\ last => mine
         /\ mine /\ ~ last => late # {}
         /\ answered' = answered \cup late \cup (IF mine THEN {t} ELSE {})
         /\ Update(t, IF last THEN "coloured" ELSE "pending")
    /\ UNCHANGED <<uncoloured, phase>>

(* The end of the loop: the tracks that are left are flushed without an    *)
(* update, and finalize_async_colour returns the results that are missing. *)
FinishLoop ==
    /\ phase = "loop" /\ Idle
    /\ phase' = "colours"
    /\ answered' = {t \in LiveTracks : record[t] # "none"}
    /\ uncoloured' = answered'
    /\ UNCHANGED <<record, updates, event, targets, delivery, clientVars, queue, listed,
                   overrun>>

(* update_track_colour for each result: the status of the record stays. *)
ReportColour(t) ==
    /\ phase = "colours" /\ t \in uncoloured
    /\ uncoloured' = uncoloured \ {t}
    /\ Update(t, IF record[t] = "active" THEN "flushed" ELSE "coloured")
    /\ UNCHANGED <<answered, phase>>

(* mark_run_completed, on the success path and in the handler. *)
CompleteRun ==
    /\ phase = "colours" /\ uncoloured = {}
    /\ phase' = "over"
    /\ Update("run", "completed")
    /\ UNCHANGED <<answered, uncoloured>>

FailRun ==
    /\ phase \in {"loop", "colours"}
    /\ phase' = "over"
    /\ Update("run", "failed")
    /\ UNCHANGED <<answered, uncoloured>>

-----------------------------------------------------------------------------
(* publish_event *)

(* The subscribers are copied under the lock. *)
ListSubscribers ==
    /\ event # NoEvent /\ targets = {} /\ delivery = NoDelivery
    /\ \A c \in subscribed : listed[c] # event.n
    /\ IF subscribed = {} THEN event' = NoEvent /\ UNCHANGED <<targets, listed>>
       ELSE /\ targets' = subscribed
            /\ listed' = [c \in Clients |-> IF c \in subscribed THEN event.n ELSE listed[c]]
            /\ UNCHANGED event
    /\ UNCHANGED <<runVars, delivery, clientVars, queue, overrun>>

(* The event is in c's queue or given up: go on with the next subscriber. *)
Delivered(c) ==
    /\ targets' = targets \ {c}
    /\ delivery' = NoDelivery
    /\ event' = IF targets' = {} THEN NoEvent ELSE event

(* put_nowait *)
(* Mutant: a full queue keeps what it has. *)
FaultyPutEvent(c) ==
    /\ delivery = NoDelivery /\ c \in targets
    /\ queue' = [queue EXCEPT ![c] =
                     IF Len(queue[c]) < QueueSize THEN Append(queue[c], event) ELSE queue[c]]
    /\ Delivered(c)
    /\ UNCHANGED <<runVars, clientVars, listed, overrun>>
PutEvent(c) ==
    /\ delivery = NoDelivery /\ c \in targets
    /\ IF Len(queue[c]) < QueueSize
       THEN queue' = [queue EXCEPT ![c] = Append(@, event)] /\ Delivered(c)
       ELSE /\ delivery' = [to |-> c, step |-> "full"]
            /\ UNCHANGED <<event, targets, queue>>
    /\ UNCHANGED <<runVars, clientVars, listed, overrun>>

(* get_nowait, which finds what the client has left. *)
DropOldest ==
    /\ delivery.step = "full"
    /\ LET c == delivery.to IN
       /\ queue' = [queue EXCEPT ![c] = IF @ = <<>> THEN @ ELSE Tail(@)]
       /\ overrun' = [overrun EXCEPT ![c] = @ \/ queue[c] # <<>>]
    /\ delivery' = [delivery EXCEPT !.step = "again"]
    /\ UNCHANGED <<runVars, event, targets, clientVars, listed>>

(* put_nowait once more. *)
PutAgain ==
    /\ delivery.step = "again"
    /\ LET c == delivery.to IN
       /\ queue' = [queue EXCEPT ![c] = IF Len(@) < QueueSize THEN Append(@, event) ELSE @]
       /\ overrun' = [overrun EXCEPT ![c] = @ \/ Len(queue[c]) = QueueSize]
       /\ Delivered(c)
    /\ UNCHANGED <<runVars, clientVars, listed>>

-----------------------------------------------------------------------------
(* The handler of a connection *)

(* Mutant: the snapshot is read before the queue is registered. *)
FaultyConnect(c) ==
    /\ \/ /\ client[c] = "out"
          /\ client' = [client EXCEPT ![c] = "system"]
          /\ view' = [view EXCEPT ![c] = record]
          /\ UNCHANGED subscribed
       \/ /\ client[c] = "system"
          /\ client' = [client EXCEPT ![c] = "events"]
          /\ subscribed' = subscribed \cup {c}
          /\ UNCHANGED view
    /\ UNCHANGED <<runVars, event, targets, delivery, queue, listed, received, overrun>>
Connect(c) ==
    /\ client[c] = "out"
    /\ client' = [client EXCEPT ![c] = "system"]
    /\ subscribed' = subscribed \cup {c}
    /\ UNCHANGED <<runVars, event, targets, delivery, queue, view, listed, received, overrun>>

(* The snapshot: each part under the lock, one after the other. *)
SnapshotSystem(c) ==
    /\ client[c] = "system"
    /\ client' = [client EXCEPT ![c] = "tracks"]
    /\ view' = [view EXCEPT ![c]["run"] = record["run"]]
    /\ UNCHANGED <<runVars, event, targets, delivery, queue, subscribed, listed, received,
                   overrun>>

SnapshotTracks(c) ==
    /\ client[c] = "tracks"
    /\ client' = [client EXCEPT ![c] = "events"]
    /\ view' = [view EXCEPT ![c] =
                    [k \in Keys |-> IF k = "run" THEN view[c][k] ELSE record[k]]]
    /\ UNCHANGED <<runVars, event, targets, delivery, queue, subscribed, listed, received,
                   overrun>>

SendEvent(c) ==
    /\ client[c] = "events" /\ queue[c] # <<>>
    /\ LET e == Head(queue[c]) IN
       /\ view' = [view EXCEPT ![c][e.key] = e.value]
       /\ received' = [received EXCEPT ![c] = e.n]
    /\ queue' = [queue EXCEPT ![c] = Tail(@)]
    /\ UNCHANGED <<runVars, event, targets, delivery, subscribed, client, listed, overrun>>

(* unsubscribe: the run's thread may have listed the client already. *)
Disconnect(c) ==
    /\ client[c] \in {"tracks", "events"}
    /\ client' = [client EXCEPT ![c] = "gone"]
    /\ subscribed' = subscribed \ {c}
    /\ UNCHANGED <<runVars, event, targets, delivery, queue, view, listed, received, overrun>>

LiveNext ==
    \/ \E t \in LiveTracks : ObserveTrack(t) \/ CompleteTrack(t) \/ ReportColour(t)
    \/ FinishLoop \/ CompleteRun \/ FailRun
    \/ ListSubscribers
    \/ \E c \in Clients : PutEvent(c)
    \/ DropOldest \/ PutAgain
    \/ \E c \in Clients : \/ Connect(c) \/ SnapshotSystem(c) \/ SnapshotTracks(c)
                          \/ SendEvent(c) \/ Disconnect(c)

LiveSpec == LiveInit /\ [][LiveNext]_liveVars

-----------------------------------------------------------------------------
(* Properties *)

Increasing(q) == \A i, j \in 1..Len(q) : i < j => q[i].n < q[j].n

(* A client gets its events in the order of the updates, however the       *)
(* queue overflows and whoever takes what in between, and the newest event *)
(* published to it is never the one that is lost: it is in the queue, or   *)
(* the client has it (publish_event's drop of the oldest event).           *)
NewestIsKept ==
    \A c \in Clients :
        /\ Increasing(queue[c])
        /\ \A i \in 1..Len(queue[c]) : received[c] < queue[c][i].n
        /\ c \notin targets =>
               IF queue[c] = <<>> THEN received[c] = listed[c] ELSE Last(queue[c]).n = listed[c]

(* A client that lost no event and has taken all it was sent knows every   *)
(* record as it is, whenever it connected (the order of subscribe and the  *)
(* parts of the snapshot in live_updates).                                 *)
ClientsCatchUp ==
    \A c \in Clients :
        client[c] = "events" /\ Idle /\ queue[c] = <<>> /\ ~ overrun[c] => view[c] = record

(* A run that completes has reported the colour of every track, although   *)
(* every observation reports "pending" anew, a result may come after its   *)
(* track was reported, and three places of run_pipeline report colours.    *)
ColoursAreReported ==
    record["run"] = "completed" =>
        \A t \in LiveTracks : record[t] \in {"none"} \cup Coloured
=============================================================================
