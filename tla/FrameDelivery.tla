--------------------------- MODULE FrameDelivery ---------------------------
(***************************************************************************)
(* What frame ingestion promises to run_pipeline: the frames a camera      *)
(* yields are handed over one by one in the order of capture, with no gap  *)
(* and no duplicate, at most Window of them are ever in flight, and the    *)
(* stream is closed normally only when every captured frame was delivered. *)
(* A run that was stopped may lose the frames still in flight.             *)
(* Ingestion.tla implements this specification.                            *)
(***************************************************************************)
EXTENDS Naturals

CONSTANTS
    Cameras,        \* the enabled cameras
    MaxFrames,      \* bound on the frames of one camera
    Window          \* bound on the frames of one camera in flight

VARIABLES
    captured,       \* number of frames read from each camera
    delivered,      \* number of frames of each camera processed by the run
    stopped,        \* ingestion was told to stop, or the run has failed
    closed          \* the run's consumer loop has ended

vars == <<captured, delivered, stopped, closed>>

Init ==
    /\ captured = [c \in Cameras |-> 0]
    /\ delivered = [c \in Cameras |-> 0]
    /\ stopped = FALSE
    /\ closed = FALSE

Capture(c) ==
    /\ closed => stopped
    /\ captured[c] < MaxFrames
    /\ captured[c] - delivered[c] < Window
    /\ captured' = [captured EXCEPT ![c] = @ + 1]
    /\ UNCHANGED <<delivered, stopped, closed>>

Deliver(c) ==
    /\ ~closed
    /\ delivered[c] < captured[c]
    /\ delivered' = [delivered EXCEPT ![c] = @ + 1]
    /\ UNCHANGED <<captured, stopped, closed>>

(* The stop event, or an exception in the consumer, which also ends it. *)
Stop ==
    /\ stopped' = TRUE
    /\ closed' \in {closed, TRUE}
    /\ UNCHANGED <<captured, delivered>>

Close ==
    /\ ~closed
    /\ stopped \/ delivered = captured
    /\ closed' = TRUE
    /\ UNCHANGED <<captured, delivered, stopped>>

Next == (\E c \in Cameras : Capture(c) \/ Deliver(c)) \/ Stop \/ Close

Spec == Init /\ [][Next]_vars

(* Every captured frame is delivered in the end, unless the run is stopped. *)
EveryFrameDelivered ==
    \A c \in Cameras : \A n \in 1 .. MaxFrames :
        captured[c] >= n ~> (delivered[c] >= n \/ stopped)
=============================================================================
