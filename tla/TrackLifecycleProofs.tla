------------------------ MODULE TrackLifecycleProofs ------------------------
(***************************************************************************)
(* Proofs about TrackLifecycle, for any cameras, native ids, thresholds    *)
(* and number of frames.                                                   *)
(***************************************************************************)
EXTENDS TrackLifecycle, DataFacts, SequenceTheorems, FiniteSetTheorems

-----------------------------------------------------------------------------
(* Facts about the values of the model                                     *)

(* No live track is NoTrack, whose identity is 0.                          *)
LEMMA TrackIsNotNoTrack == \A t \in Track : t # NoTrack
  BY DEF Track, NoTrack

LEMMA LiveIsTrack ==
    ASSUME TypeOK, NEW k \in Key, tracks[k] # NoTrack
    PROVE  tracks[k] \in Track
  BY DEF TypeOK

LEMMA FrameFacts ==
    ASSUME TypeOK, pc \in {"assign", "order", "update", "missing"}
    PROVE  /\ frame \in Frame
           /\ frame.camera \in Cameras /\ frame.number \in Nat
           /\ frame.natives \in Seq(Natives)
<1>1. frame \in Frame
  BY DEF TypeOK
<1>2. QED
  BY <1>1 DEF Frame

LEMMA KeyFacts ==
    ASSUME NEW k \in Key
    PROVE  k[1] \in Cameras /\ k[2] \in Natives
  BY DEF Key

LEMMA MakeKey ==
    ASSUME NEW c \in Cameras, NEW n \in Natives
    PROVE  <<c, n>> \in Key /\ <<c, n>>[1] = c
  BY DEF Key

LEMMA DetectionsAreSequences == Detections \subseteq Seq(Natives)
<1> SUFFICES ASSUME NEW s \in Detections PROVE s \in Seq(Natives)
  OBVIOUS
<1>1. Cardinality(Natives) \in Nat
  BY FS_CardinalityType, LimitsAssumption DEF LimitsAssumption
<1>2. PICK n \in 0 .. Cardinality(Natives) : s \in [1 .. n -> Natives]
  BY DEF Detections
<1>3. n \in Nat
  BY <1>1, <1>2
<1>4. QED
  BY <1>2, <1>3, SeqDef

LEMMA StatusType == \A n \in Nat : StatusFor(n) \in LiveStatus
  BY DEF StatusFor, LiveStatus

LEMMA NewTrackFacts ==
    ASSUME TypeOK, pc = "update", NEW id \in Nat \ {0}, NEW c \in Cameras
    PROVE  /\ NewTrack(id, c) \in Track
           /\ NewTrack(id, c).id = id
           /\ NewTrack(id, c).count = 1
           /\ NewTrack(id, c).lost = 0
           /\ NewTrack(id, c).last = frame.number
           /\ NewTrack(id, c).frames = {frame.number}
           /\ NewTrack(id, c).seenAt = updates[c]
           /\ NewTrack(id, c).status = StatusFor(1)
<1>1. frame.number \in Nat
  BY FrameFacts
<1>2. updates[c] \in Nat
  BY DEF TypeOK
<1>3. StatusFor(1) \in LiveStatus
  BY StatusType
<1>4. QED
  BY <1>1, <1>2, <1>3 DEF NewTrack, Track

LEMMA ObservedFacts ==
    ASSUME TypeOK, pc = "update", NEW t \in Track, NEW c \in Cameras
    PROVE  /\ Observed(t, c) \in Track
           /\ Observed(t, c).id = t.id
           /\ Observed(t, c).count = t.count + 1
           /\ Observed(t, c).lost = 0
           /\ Observed(t, c).last = frame.number
           /\ Observed(t, c).frames = t.frames \cup {frame.number}
           /\ Observed(t, c).seenAt = updates[c]
           /\ Observed(t, c).status = StatusFor(t.count + 1)
<1>1. frame.number \in Nat
  BY FrameFacts
<1>2. updates[c] \in Nat
  BY DEF TypeOK
<1>3. t.count \in Nat /\ t.frames \in SUBSET Nat /\ t.id \in Nat \ {0}
  BY DEF Track
<1>4. StatusFor(t.count + 1) \in LiveStatus
  BY <1>3, StatusType
<1>5. t.count + 1 \in Nat /\ t.frames \cup {frame.number} \in SUBSET Nat
  BY <1>1, <1>3
<1>6. QED
  BY <1>1, <1>2, <1>3, <1>4, <1>5 DEF Observed, Track

(* A live track that is missed once more.                                  *)
Missed(t) == [t EXCEPT !.lost = @ + 1, !.status = "LOST"]

LEMMA MissedFacts ==
    ASSUME NEW t \in Track
    PROVE  /\ Missed(t) \in Track
           /\ Missed(t).id = t.id
           /\ Missed(t).count = t.count
           /\ Missed(t).lost = t.lost + 1
           /\ Missed(t).last = t.last
           /\ Missed(t).frames = t.frames
           /\ Missed(t).seenAt = t.seenAt
           /\ Missed(t).status = "LOST"
<1>1. /\ Missed(t).id = t.id
      /\ Missed(t).count = t.count
      /\ Missed(t).lost = t.lost + 1
      /\ Missed(t).last = t.last
      /\ Missed(t).frames = t.frames
      /\ Missed(t).seenAt = t.seenAt
      /\ Missed(t).status = "LOST"
  BY DEF Missed, Track
<1>2. t.lost + 1 \in Nat /\ "LOST" \in LiveStatus
  BY DEF Track, LiveStatus
<1>3. Missed(t) \in Track
  BY <1>2 DEF Missed, Track
<1>4. QED
  BY <1>1, <1>3

-----------------------------------------------------------------------------
(* Type correctness                                                        *)

(* A track was last seen at a frame of its camera that was applied: the    *)
(* frames it is missing from are a natural number.                         *)
SeenBefore == \A k \in Key : tracks[k] # NoTrack => tracks[k].seenAt <= updates[k[1]]

(* The tracks that have still to be visited are live.                      *)
UnseenAreLive ==
    pc = "missing" => \A k \in unseen : tracks[k] # NoTrack /\ k[1] = frame.camera

TypeInv == TypeOK /\ SeenBefore /\ UnseenAreLive

LEMMA TypeInit == Init => TypeInv
  BY DEF Init, TypeInv, TypeOK, SeenBefore, UnseenAreLive

LEMMA ClosedType ==
    ASSUME TypeOK, NEW c \in Cameras, NEW t \in Track, t.seenAt <= updates[c],
           NEW reason \in Reasons
    PROVE  Closed(c, t, reason) \in FinalTrack
<1>1. updates[c] \in Nat /\ t.seenAt \in Nat
  BY DEF TypeOK, Track
<1>2. updates[c] - t.seenAt \in Nat
  BY <1>1
<1>3. t.id \in Nat \ {0} /\ t.count \in Nat /\ t.lost \in Nat
  BY DEF Track
<1>4. (IF t.count < MinObservations /\ reason # "END_OF_STREAM"
       THEN "INSUFFICIENT_OBSERVATIONS" ELSE reason) \in Reasons
  BY DEF Reasons
<1>5. QED
  BY <1>2, <1>3, <1>4 DEF Closed, FinalTrack

(* What mapping a native id to an identity does.                           *)
LEMMA AssignFacts ==
    ASSUME TypeOK, NEW k \in Key, AssignLogicalId(k)
    PROVE  /\ logical' \in [Key -> Nat]
           /\ nextNumber' \in [Cameras -> Nat \ {0}]
           /\ LogicalId(k) \in Nat \ {0}
           /\ logical'[k] = LogicalId(k)
           /\ \A l \in Key : l # k => logical'[l] = logical[l]
<1>1. k[1] \in Cameras /\ nextNumber[k[1]] \in Nat \ {0} /\ logical[k] \in Nat
  BY KeyFacts DEF TypeOK
<1>2. nextNumber[k[1]] + 1 \in Nat \ {0}
  BY <1>1
<1>3. logical \in [Key -> Nat] /\ nextNumber \in [Cameras -> Nat \ {0}]
  BY DEF TypeOK
<1>4. CASE logical[k] # 0
  BY <1>1, <1>3, <1>4 DEF AssignLogicalId, LogicalId
<1>5. CASE logical[k] = 0
  BY <1>1, <1>2, <1>3, <1>5 DEF AssignLogicalId, LogicalId
<1>6. QED
  BY <1>4, <1>5

(* Finalizing a track keeps the types.                                     *)
LEMMA FinalizeType ==
    ASSUME TypeInv, NEW k \in Key, NEW t \in Track, t.seenAt <= updates[k[1]],
           NEW reason \in Reasons, NEW next, Finalize(k, t, reason, next)
    PROVE  /\ tracks' = [tracks EXCEPT ![k] = NoTrack]
           /\ tracks' \in [Key -> Track \cup {NoTrack}]
           /\ logical' \in [Key -> Nat]
           /\ finalized' \subseteq Cameras \X Nat
           /\ completed' \subseteq FinalTrack /\ discarded' \subseteq FinalTrack
           /\ pc' \in {next, "flush"}
<1>1. k[1] \in Cameras /\ t.id \in Nat
  BY KeyFacts DEF Track
<1>2. Closed(k[1], t, reason) \in FinalTrack
  BY <1>1, ClosedType DEF TypeInv
<1>3. QED
  BY <1>1, <1>2 DEF Finalize, TypeInv, TypeOK

(* The three outcomes of a detection.                                      *)
Creates(k) ==
    /\ tracks[k] = NoTrack
    /\ tracks' = [tracks EXCEPT ![k] = NewTrack(LogicalId(k), k[1])]
    /\ todo' = Tail(todo) /\ pc' = pc
Rejects(k) ==
    /\ tracks[k] # NoTrack
    /\ tracks[k].id # LogicalId(k) \/ frame.number \in tracks[k].frames
    /\ pc' = "flush" /\ tracks' = tracks /\ todo' = todo
Observes(k) ==
    /\ tracks[k] # NoTrack
    /\ tracks[k].id = LogicalId(k) /\ frame.number \notin tracks[k].frames
    /\ tracks' = [tracks EXCEPT ![k] = Observed(tracks[k], k[1])]
    /\ todo' = Tail(todo) /\ pc' = pc

LEMMA UpdateOneFacts ==
    ASSUME TypeOK, UpdateOne, NEW k, k = <<frame.camera, Head(todo)>>
    PROVE  /\ k \in Key /\ k[1] = frame.camera
           /\ Tail(todo) \in Seq(Natives) /\ todo # <<>> /\ pc = "update"
           /\ AssignLogicalId(k)
           /\ Creates(k) \/ Rejects(k) \/ Observes(k)
           /\ UNCHANGED <<finalized, completed, discarded, lastFrame, updates,
                          frame, unseen>>
<1>1. frame.camera \in Cameras /\ todo \in Seq(Natives) /\ todo # <<>>
  BY FrameFacts DEF UpdateOne, TypeOK
<1>2. Head(todo) \in Natives /\ Tail(todo) \in Seq(Natives)
  BY <1>1, TailFacts
<1>3. k \in Key /\ k[1] = frame.camera
  BY <1>1, <1>2, MakeKey
<1>4. QED
  BY <1>1, <1>2, <1>3 DEF UpdateOne, Creates, Rejects, Observes

(* The two outcomes of a live track that is missing from a frame.          *)
LEMMA MissOneFacts ==
    ASSUME TypeInv, NEW k \in Key, MissOne(k)
    PROVE  /\ tracks[k] # NoTrack /\ tracks[k] \in Track /\ k[1] = frame.camera
           /\ pc = "missing" /\ k \in unseen /\ unseen' = unseen \ {k}
           /\ UNCHANGED <<nextNumber, lastFrame, updates, frame, todo>>
           /\ \/ /\ Missed(tracks[k]).lost > MaxLost
                 /\ Finalize(k, Missed(tracks[k]), "LOST_TIMEOUT", "missing")
              \/ /\ ~(Missed(tracks[k]).lost > MaxLost)
                 /\ tracks' = [tracks EXCEPT ![k] = Missed(tracks[k])]
                 /\ UNCHANGED <<logical, finalized, completed, discarded, pc>>
<1>1. tracks[k] # NoTrack /\ k[1] = frame.camera
  BY DEF MissOne, TypeInv, UnseenAreLive
<1>2. tracks[k] \in Track
  BY <1>1, LiveIsTrack DEF TypeInv
<1>3. QED
  BY <1>1, <1>2 DEF MissOne, Missed

LEMMA FlushOneFacts ==
    ASSUME TypeInv, NEW k \in Key, FlushOne(k)
    PROVE  /\ tracks[k] # NoTrack /\ tracks[k] \in Track /\ pc = "flush"
           /\ Finalize(k, tracks[k], "END_OF_STREAM", "flush")
           /\ UNCHANGED <<nextNumber, lastFrame, updates, frame, todo, unseen>>
  BY LiveIsTrack DEF FlushOne, TypeInv, Live

LEMMA TypeNext == TypeInv /\ [Next]_vars => TypeInv'
<1> SUFFICES ASSUME TypeInv, [Next]_vars PROVE TypeInv'
  OBVIOUS
<1>0. TypeOK
  BY DEF TypeInv
<1>1. ASSUME NEW c \in Cameras, NEW n \in 1 .. MaxFrame, NEW natives \in Detections,
             BeginFrame(c, n, natives)
      PROVE  TypeInv'
  <2>1. natives \in Seq(Natives) /\ n \in Nat /\ n # 0
    BY DetectionsAreSequences
  <2>2. frame' \in Frame /\ frame' # NoFrame
    BY <1>1, <2>1 DEF BeginFrame, Frame, NoFrame
  <2>3. QED
    BY <1>1, <2>1, <2>2 DEF BeginFrame, TypeInv, TypeOK, SeenBefore, UnseenAreLive
<1>2. CASE AssignOne
  <2>1. pc = "assign" /\ todo \in Seq(Natives) /\ todo # <<>>
    BY <1>2, <1>0 DEF AssignOne, TypeOK
  <2>2. Head(todo) \in Natives /\ Tail(todo) \in Seq(Natives)
    BY <2>1, TailFacts
  <2>3. <<frame.camera, Head(todo)>> \in Key
    BY <1>0, <2>1, <2>2, FrameFacts, MakeKey
  <2>4. logical' \in [Key -> Nat] /\ nextNumber' \in [Cameras -> Nat \ {0}]
    BY <1>0, <1>2, <2>3, AssignFacts DEF AssignOne
  <2>5. QED
    BY <1>2, <2>2, <2>4 DEF AssignOne, TypeInv, TypeOK, SeenBefore, UnseenAreLive
<1>3. CASE AssignDone
  BY <1>3 DEF AssignDone, TypeInv, TypeOK, SeenBefore, UnseenAreLive
<1>4. CASE CheckOrder
  <2>1. pc = "order"
    BY <1>4 DEF CheckOrder
  <2>2. frame.camera \in Cameras /\ frame.number \in Nat /\ frame.natives \in Seq(Natives)
    BY <1>0, <2>1, FrameFacts
  <2>3. updates' \in [Cameras -> Nat] /\ \A c \in Cameras : updates[c] <= updates'[c]
    <3>1. updates \in [Cameras -> Nat]
      BY <1>0 DEF TypeOK
    <3>2. \/ updates' = updates
          \/ updates' = [updates EXCEPT ![frame.camera] = updates[frame.camera] + 1]
      BY <1>4 DEF CheckOrder
    <3>3. QED
      BY <2>2, <3>1, <3>2
  <2>4. \A k \in Key : tracks[k] # NoTrack => tracks[k].seenAt \in Nat /\ k[1] \in Cameras
    BY <1>0, LiveIsTrack, KeyFacts DEF Track
  <2>5. SeenBefore'
    <3> SUFFICES ASSUME NEW k \in Key, tracks'[k] # NoTrack
                 PROVE  tracks'[k].seenAt <= updates'[k[1]]
      BY DEF SeenBefore
    <3>1. tracks'[k] = tracks[k]
      BY <1>4 DEF CheckOrder
    <3>2. tracks[k].seenAt <= updates[k[1]] /\ tracks[k].seenAt \in Nat /\ k[1] \in Cameras
      BY <2>4, <3>1 DEF TypeInv, SeenBefore
    <3>3. updates[k[1]] <= updates'[k[1]] /\ updates[k[1]] \in Nat /\ updates'[k[1]] \in Nat
      BY <2>3, <3>2 DEF TypeInv, TypeOK
    <3>4. QED
      BY <3>1, <3>2, <3>3
  <2>6. UnseenAreLive'
    BY <1>4, <2>1 DEF CheckOrder, UnseenAreLive
  <2>7. QED
    BY <1>4, <2>2, <2>3, <2>5, <2>6 DEF CheckOrder, TypeInv, TypeOK
<1>5. CASE UpdateOne
  <2> DEFINE k == <<frame.camera, Head(todo)>>
  <2>1. /\ k \in Key /\ k[1] = frame.camera
        /\ Tail(todo) \in Seq(Natives) /\ pc = "update"
        /\ AssignLogicalId(k)
        /\ Creates(k) \/ Rejects(k) \/ Observes(k)
        /\ UNCHANGED <<finalized, completed, discarded, lastFrame, updates,
                       frame, unseen>>
    BY <1>0, <1>5, UpdateOneFacts
  <2> HIDE DEF k
  <2>2. /\ logical' \in [Key -> Nat] /\ nextNumber' \in [Cameras -> Nat \ {0}]
        /\ LogicalId(k) \in Nat \ {0}
    BY <1>0, <2>1, AssignFacts
  <2>3. tracks \in [Key -> Track \cup {NoTrack}] /\ k[1] \in Cameras /\ todo \in Seq(Natives)
    BY <1>0, <2>1, KeyFacts DEF TypeOK
  <2>4. tracks' \in [Key -> Track \cup {NoTrack}] /\ SeenBefore'
    <3>1. CASE Creates(k)
      <4>1. /\ NewTrack(LogicalId(k), k[1]) \in Track
            /\ NewTrack(LogicalId(k), k[1]).seenAt = updates[k[1]]
        BY <1>0, <2>1, <2>2, <2>3, NewTrackFacts
      <4>2. updates[k[1]] \in Nat
        BY <1>0, <2>3 DEF TypeOK
      <4>3. QED
        BY <2>1, <2>3, <3>1, <4>1, <4>2 DEF Creates, SeenBefore, TypeInv
    <3>2. CASE Rejects(k)
      BY <2>1, <2>3, <3>2 DEF Rejects, SeenBefore, TypeInv
    <3>3. CASE Observes(k)
      <4>1. tracks[k] \in Track
        BY <1>0, <2>1, <3>3, LiveIsTrack DEF Observes
      <4>2. /\ Observed(tracks[k], k[1]) \in Track
            /\ Observed(tracks[k], k[1]).seenAt = updates[k[1]]
        BY <1>0, <2>1, <2>3, <4>1, ObservedFacts
      <4>3. updates[k[1]] \in Nat
        BY <1>0, <2>3 DEF TypeOK
      <4>4. QED
        BY <2>1, <2>3, <3>3, <4>2, <4>3 DEF Observes, SeenBefore, TypeInv
    <3>4. QED
      BY <2>1, <3>1, <3>2, <3>3
  <2>5. pc' \in {"update", "flush"} /\ todo' \in Seq(Natives)
    BY <2>1, <2>3 DEF Creates, Rejects, Observes
  <2>6. QED
    BY <2>1, <2>2, <2>4, <2>5 DEF TypeInv, TypeOK, UnseenAreLive
<1>6. CASE BeginMissing
  BY <1>6 DEF BeginMissing, TypeInv, TypeOK, SeenBefore, UnseenAreLive, Live
<1>7. ASSUME NEW k \in Key, MissOne(k)
      PROVE  TypeInv'
  <2>1. /\ tracks[k] # NoTrack /\ tracks[k] \in Track /\ k[1] = frame.camera
        /\ pc = "missing" /\ k \in unseen /\ unseen' = unseen \ {k}
        /\ UNCHANGED <<nextNumber, lastFrame, updates, frame, todo>>
    BY <1>7, MissOneFacts
  <2>2. Missed(tracks[k]) \in Track /\ Missed(tracks[k]).seenAt = tracks[k].seenAt
    BY <2>1, MissedFacts
  <2>3. tracks[k].seenAt <= updates[k[1]]
    BY <2>1 DEF TypeInv, SeenBefore
  <2>4. CASE Finalize(k, Missed(tracks[k]), "LOST_TIMEOUT", "missing")
    <3>1. /\ tracks' = [tracks EXCEPT ![k] = NoTrack]
          /\ tracks' \in [Key -> Track \cup {NoTrack}]
          /\ logical' \in [Key -> Nat]
          /\ finalized' \subseteq Cameras \X Nat
          /\ completed' \subseteq FinalTrack /\ discarded' \subseteq FinalTrack
          /\ pc' \in {"missing", "flush"}
      BY <2>2, <2>3, <2>4, FinalizeType DEF Reasons
    <3>2. SeenBefore'
      BY <2>1, <3>1 DEF TypeInv, TypeOK, SeenBefore
    <3>3. UnseenAreLive'
      BY <2>1, <3>1 DEF TypeInv, TypeOK, UnseenAreLive
    <3>4. QED
      BY <2>1, <3>1, <3>2, <3>3 DEF TypeInv, TypeOK
  <2>5. CASE /\ tracks' = [tracks EXCEPT ![k] = Missed(tracks[k])]
             /\ UNCHANGED <<logical, finalized, completed, discarded, pc>>
    <3>1. tracks' \in [Key -> Track \cup {NoTrack}]
      BY <1>0, <2>2, <2>5 DEF TypeOK
    <3>2. SeenBefore'
      BY <1>0, <2>1, <2>2, <2>3, <2>5 DEF TypeInv, TypeOK, SeenBefore
    <3>3. UnseenAreLive'
      BY <1>0, <2>1, <2>5 DEF TypeInv, TypeOK, UnseenAreLive
    <3>4. QED
      BY <2>1, <2>5, <3>1, <3>2, <3>3 DEF TypeInv, TypeOK
  <2>6. QED
    BY <1>7, <2>4, <2>5, MissOneFacts
<1>8. ASSUME NEW k \in Key, FlushOne(k)
      PROVE  TypeInv'
  <2>1. /\ tracks[k] # NoTrack /\ tracks[k] \in Track /\ pc = "flush"
        /\ Finalize(k, tracks[k], "END_OF_STREAM", "flush")
        /\ UNCHANGED <<nextNumber, lastFrame, updates, frame, todo, unseen>>
    BY <1>8, FlushOneFacts
  <2>2. tracks[k].seenAt <= updates[k[1]]
    BY <2>1 DEF TypeInv, SeenBefore
  <2>3. /\ tracks' = [tracks EXCEPT ![k] = NoTrack]
        /\ tracks' \in [Key -> Track \cup {NoTrack}]
        /\ logical' \in [Key -> Nat]
        /\ finalized' \subseteq Cameras \X Nat
        /\ completed' \subseteq FinalTrack /\ discarded' \subseteq FinalTrack
        /\ pc' = "flush"
    BY <2>1, <2>2, FinalizeType DEF Reasons
  <2>4. SeenBefore'
    BY <2>1, <2>3 DEF TypeInv, TypeOK, SeenBefore
  <2>5. QED
    BY <2>1, <2>3, <2>4 DEF TypeInv, TypeOK, UnseenAreLive
<1>9. CASE EndFrame
  BY <1>9 DEF EndFrame, TypeInv, TypeOK, SeenBefore, UnseenAreLive
<1>10. CASE Stop
  BY <1>10 DEF Stop, TypeInv, TypeOK, SeenBefore, UnseenAreLive
<1>11. CASE FlushDone
  BY <1>11 DEF FlushDone, TypeInv, TypeOK, SeenBefore, UnseenAreLive
<1>12. CASE UNCHANGED vars
  BY <1>12 DEF vars, TypeInv, TypeOK, SeenBefore, UnseenAreLive
<1>13. QED
  BY <1>1, <1>2, <1>3, <1>4, <1>5, <1>6, <1>7, <1>8, <1>9, <1>10, <1>11, <1>12
  DEF Next, Terminated

(* The state is well typed; in particular the age of a track is never      *)
(* negative, and only live tracks are visited as missing.                  *)
THEOREM TypeCorrect == Spec => [](TypeOK /\ SeenBefore /\ UnseenAreLive)
<1>1. TypeInv => TypeOK /\ SeenBefore /\ UnseenAreLive
  BY DEF TypeInv
<1>2. QED
  BY <1>1, TypeInit, TypeNext, PTL DEF Spec

-----------------------------------------------------------------------------
(* Identities                                                              *)

(* A live track has the identity its native id is mapped to.               *)
LiveIsMapped == \A k \in Key : tracks[k] # NoTrack => tracks[k].id = logical[k]

IdInv == IdentitiesAreUnique /\ LiveIsMapped

LEMMA IdInit == Init => IdInv
  BY DEF Init, IdInv, IdentitiesAreUnique, LiveIsMapped

(* Handing out a new number keeps identities unique: it is above all that  *)
(* are mapped or were finalized.                                           *)
LEMMA AssignIds ==
    ASSUME TypeOK, IdentitiesAreUnique, NEW k \in Key, AssignLogicalId(k),
           finalized' = finalized
    PROVE  IdentitiesAreUnique'
<1>1. /\ logical \in [Key -> Nat] /\ nextNumber \in [Cameras -> Nat \ {0}]
      /\ finalized \subseteq Cameras \X Nat
      /\ k[1] \in Cameras /\ nextNumber[k[1]] \in Nat \ {0}
  BY KeyFacts DEF TypeOK
<1>2. CASE logical[k] # 0
  BY <1>2 DEF AssignLogicalId, IdentitiesAreUnique
<1>3. CASE logical[k] = 0
  <2> DEFINE new == nextNumber[k[1]]
  <2>1. /\ logical' = [logical EXCEPT ![k] = new]
        /\ nextNumber' = [nextNumber EXCEPT ![k[1]] = new + 1]
    BY <1>3 DEF AssignLogicalId
  <2>2. new \in Nat /\ new # 0 /\ new + 1 \in Nat
    BY <1>1
  <2> HIDE DEF new
  <2>3. \A l \in Key : l[1] \in Cameras /\ logical[l] \in Nat
    BY <1>1, KeyFacts
  <2>4. /\ \A l \in Key : logical'[l] = IF l = k THEN new ELSE logical[l]
        /\ \A c \in Cameras : nextNumber'[c] = IF c = k[1] THEN new + 1 ELSE nextNumber[c]
    BY <1>1, <2>1
  <2>5. \A l \in Key : l[1] = k[1] /\ logical[l] # 0 => logical[l] < new
    BY DEF IdentitiesAreUnique, new
  <2>6. \A f \in finalized : f[1] = k[1] => f[2] < new
    BY DEF IdentitiesAreUnique, new
  <2>7. \A f \in finalized : f[1] \in Cameras /\ f[2] \in Nat
    BY <1>1
  <2>8. ASSUME NEW l \in Key, NEW m \in Key, l[1] = m[1], logical'[l] # 0,
               logical'[l] = logical'[m]
        PROVE  l = m
    <3>1. CASE l = k
      BY <2>2, <2>3, <2>4, <2>5, <2>8, <3>1
    <3>2. CASE m = k /\ l # k
      BY <2>2, <2>3, <2>4, <2>5, <2>8, <3>2
    <3>3. CASE l # k /\ m # k
      BY <2>4, <2>8, <3>3 DEF IdentitiesAreUnique
    <3>4. QED
      BY <3>1, <3>2, <3>3
  <2>9. ASSUME NEW l \in Key, logical'[l] # 0
        PROVE  <<l[1], logical'[l]>> \notin finalized' /\ logical'[l] < nextNumber'[l[1]]
    <3>1. CASE l = k
      <4>1. logical'[l] = new /\ nextNumber'[l[1]] = new + 1
        BY <1>1, <2>4, <3>1
      <4>2. <<k[1], new>> \notin finalized
        BY <2>2, <2>6
      <4>3. QED
        BY <2>2, <3>1, <4>1, <4>2
    <3>2. CASE l # k
      <4>1. logical'[l] = logical[l] /\ l[1] \in Cameras /\ logical[l] \in Nat
        BY <2>3, <2>4, <3>2
      <4>2. <<l[1], logical[l]>> \notin finalized /\ logical[l] < nextNumber[l[1]]
        BY <2>9, <4>1 DEF IdentitiesAreUnique
      <4>3. \/ nextNumber'[l[1]] = nextNumber[l[1]]
            \/ l[1] = k[1] /\ nextNumber'[l[1]] = new + 1
        BY <2>4, <4>1
      <4>4. CASE nextNumber'[l[1]] = nextNumber[l[1]]
        BY <4>1, <4>2, <4>4
      <4>5. CASE l[1] = k[1] /\ nextNumber'[l[1]] = new + 1
        BY <2>2, <2>5, <2>9, <4>1, <4>2, <4>5
      <4>6. QED
        BY <4>3, <4>4, <4>5
    <3>3. QED
      BY <3>1, <3>2
  <2>10. ASSUME NEW f \in finalized'
         PROVE  f[2] < nextNumber'[f[1]]
    <3>1. f \in finalized /\ f[1] \in Cameras /\ f[2] \in Nat
      BY <2>7
    <3>2. f[2] < nextNumber[f[1]]
      BY <3>1 DEF IdentitiesAreUnique
    <3>3. CASE f[1] = k[1]
      BY <2>2, <2>4, <2>6, <3>1, <3>3
    <3>4. CASE f[1] # k[1]
      BY <2>4, <3>1, <3>2, <3>4
    <3>5. QED
      BY <3>3, <3>4
  <2>11. QED
    BY <2>8, <2>9, <2>10 DEF IdentitiesAreUnique
<1>4. QED
  BY <1>2, <1>3

(* Finalizing a live track: its identity was not finalized before, so that *)
(* nothing is raised.                                                      *)
LEMMA FinalizeIds ==
    ASSUME TypeOK, IdentitiesAreUnique, NEW k \in Key, NEW t, t.id = logical[k],
           logical[k] # 0, NEW reason, NEW next, Finalize(k, t, reason, next),
           nextNumber' = nextNumber
    PROVE  /\ IdentitiesAreUnique'
           /\ <<k[1], t.id>> \notin finalized
           /\ pc' = next
           /\ finalized' = finalized \cup {<<k[1], t.id>>}
<1>1. /\ <<k[1], t.id>> \notin finalized /\ t.id < nextNumber[k[1]]
      /\ logical \in [Key -> Nat] /\ k[1] \in Cameras
  BY KeyFacts DEF IdentitiesAreUnique, TypeOK
<1>2. /\ pc' = next
      /\ finalized' = finalized \cup {<<k[1], t.id>>}
      /\ logical' = [logical EXCEPT ![k] = 0]
  BY <1>1 DEF Finalize
<1>3. \A l \in Key : logical'[l] = IF l = k THEN 0 ELSE logical[l]
  BY <1>1, <1>2
<1>4. ASSUME NEW l \in Key, logical'[l] # 0
      PROVE  <<l[1], logical'[l]>> \notin finalized' /\ logical'[l] < nextNumber'[l[1]]
  <2>1. l # k /\ logical'[l] = logical[l]
    BY <1>3, <1>4
  <2>2. ~(l[1] = k[1] /\ logical[l] = logical[k])
    BY <1>4, <2>1 DEF IdentitiesAreUnique
  <2>3. <<l[1], logical[l]>> # <<k[1], t.id>>
    BY <2>2
  <2>4. QED
    BY <1>2, <1>4, <2>1, <2>3 DEF IdentitiesAreUnique
<1>5. \A l, m \in Key :
         l[1] = m[1] /\ logical'[l] # 0 /\ logical'[l] = logical'[m] => l = m
  BY <1>3 DEF IdentitiesAreUnique
<1>6. \A f \in finalized' : f[2] < nextNumber'[f[1]]
  BY <1>1, <1>2 DEF IdentitiesAreUnique
<1>7. QED
  BY <1>1, <1>2, <1>4, <1>5, <1>6 DEF IdentitiesAreUnique

(* A step that touches no identity keeps them.                             *)
LEMMA IdKept ==
    ASSUME IdInv, UNCHANGED <<tracks, logical, nextNumber, finalized>>
    PROVE  IdInv'
  BY DEF IdInv, IdentitiesAreUnique, LiveIsMapped

(* A detection leaves its live track with the identity it was given.       *)
LEMMA UpdateIds ==
    ASSUME TypeOK, IdInv, UpdateOne
    PROVE  IdInv'
<1> DEFINE k == <<frame.camera, Head(todo)>>
<1>1. /\ k \in Key /\ pc = "update" /\ k[1] \in Cameras
      /\ AssignLogicalId(k)
      /\ Creates(k) \/ Rejects(k) \/ Observes(k)
      /\ finalized' = finalized
  BY UpdateOneFacts, KeyFacts
<1> HIDE DEF k
<1>2. /\ LogicalId(k) \in Nat \ {0}
      /\ logical'[k] = LogicalId(k)
      /\ \A l \in Key : l # k => logical'[l] = logical[l]
  BY <1>1, AssignFacts
<1>3. IdentitiesAreUnique'
  BY <1>1, AssignIds DEF IdInv
<1>4. tracks \in [Key -> Track \cup {NoTrack}]
  BY DEF TypeOK
<1>5. ASSUME NEW l \in Key, tracks'[l] # NoTrack
      PROVE  tracks'[l].id = logical'[l]
  <2>1. CASE l # k
    <3>1. tracks'[l] = tracks[l]
      BY <1>1, <1>4, <2>1 DEF Creates, Rejects, Observes
    <3>2. QED
      BY <1>2, <1>5, <2>1, <3>1 DEF IdInv, LiveIsMapped
  <2>2. CASE l = k
    <3>1. CASE Creates(k)
      <4>1. tracks'[k] = NewTrack(LogicalId(k), k[1])
        BY <1>1, <1>4, <3>1 DEF Creates
      <4>2. QED
        BY <1>1, <1>2, <2>2, <4>1, NewTrackFacts
    <3>2. CASE Rejects(k)
      <4>1. tracks'[k] = tracks[k] /\ tracks[k].id = logical[k] /\ logical[k] # 0
        BY <1>1, <3>2, LiveIsTrack DEF Rejects, IdInv, LiveIsMapped, Track
      <4>2. QED
        BY <1>2, <2>2, <4>1 DEF LogicalId
    <3>3. CASE Observes(k)
      <4>1. tracks'[k] = Observed(tracks[k], k[1]) /\ tracks[k].id = LogicalId(k)
            /\ tracks[k] \in Track
        BY <1>1, <1>4, <3>3, LiveIsTrack DEF Observes
      <4>2. QED
        BY <1>1, <1>2, <2>2, <4>1, ObservedFacts
    <3>4. QED
      BY <1>1, <3>1, <3>2, <3>3
  <2>3. QED
    BY <2>1, <2>2
<1>6. QED
  BY <1>3, <1>5 DEF IdInv, LiveIsMapped

(* Finalizing the live track k leaves the others with their identities.    *)
LEMMA FinalizeLive ==
    ASSUME TypeOK, IdInv, NEW k \in Key, tracks[k] # NoTrack, NEW t,
           t.id = tracks[k].id, NEW reason, NEW next, Finalize(k, t, reason, next),
           nextNumber' = nextNumber
    PROVE  /\ IdInv'
           /\ pc' = next
           /\ t.id = logical[k] /\ logical[k] # 0
           /\ <<k[1], t.id>> \notin finalized
           /\ finalized' = finalized \cup {<<k[1], t.id>>}
<1>1. t.id = logical[k] /\ logical[k] # 0
  BY LiveIsTrack DEF IdInv, LiveIsMapped, Track
<1>2. /\ IdentitiesAreUnique' /\ pc' = next
      /\ <<k[1], t.id>> \notin finalized
      /\ finalized' = finalized \cup {<<k[1], t.id>>}
  BY <1>1, FinalizeIds DEF IdInv
<1>3. /\ tracks' = [tracks EXCEPT ![k] = NoTrack] /\ logical' = [logical EXCEPT ![k] = 0]
      /\ tracks \in [Key -> Track \cup {NoTrack}] /\ logical \in [Key -> Nat]
  BY DEF Finalize, TypeOK
<1>4. LiveIsMapped'
  BY <1>3 DEF IdInv, LiveIsMapped
<1>5. QED
  BY <1>1, <1>2, <1>4 DEF IdInv

LEMMA IdNext == TypeInv /\ IdInv /\ [Next]_vars => IdInv'
<1> SUFFICES ASSUME TypeInv, IdInv, [Next]_vars PROVE IdInv'
  OBVIOUS
<1>0. TypeOK
  BY DEF TypeInv
<1>1. CASE AssignOne
  <2>1. pc = "assign" /\ todo \in Seq(Natives) /\ todo # <<>>
    BY <1>0, <1>1 DEF AssignOne, TypeOK
  <2>2. Head(todo) \in Natives
    BY <2>1, TailFacts
  <2> DEFINE k == <<frame.camera, Head(todo)>>
  <2>3. k \in Key
    BY <1>0, <2>1, <2>2, FrameFacts, MakeKey
  <2>4. AssignLogicalId(k) /\ UNCHANGED <<tracks, finalized>>
    BY <1>1 DEF AssignOne
  <2> HIDE DEF k
  <2>5. IdentitiesAreUnique'
    BY <1>0, <2>3, <2>4, AssignIds DEF IdInv
  <2>6. \A l \in Key : logical[l] # 0 => logical'[l] = logical[l]
    BY <1>0, <2>3, <2>4, AssignFacts DEF LogicalId
  <2>7. \A l \in Key : tracks[l] # NoTrack => logical[l] # 0
    BY <1>0, LiveIsTrack DEF IdInv, LiveIsMapped, Track
  <2>8. LiveIsMapped'
    BY <2>4, <2>6, <2>7 DEF IdInv, LiveIsMapped
  <2>9. QED
    BY <2>5, <2>8 DEF IdInv
<1>2. CASE UpdateOne
  BY <1>0, <1>2, UpdateIds
<1>3. ASSUME NEW k \in Key, MissOne(k)
      PROVE  IdInv'
  <2>1. /\ tracks[k] # NoTrack /\ tracks[k] \in Track /\ nextNumber' = nextNumber
        /\ Missed(tracks[k]) \in Track /\ Missed(tracks[k]).id = tracks[k].id
    BY <1>3, MissOneFacts, MissedFacts
  <2>2. CASE Finalize(k, Missed(tracks[k]), "LOST_TIMEOUT", "missing")
    BY <1>0, <2>1, <2>2, FinalizeLive
  <2>3. CASE /\ tracks' = [tracks EXCEPT ![k] = Missed(tracks[k])]
             /\ UNCHANGED <<logical, finalized, completed, discarded, pc>>
    <3>1. tracks \in [Key -> Track \cup {NoTrack}]
      BY <1>0 DEF TypeOK
    <3>2. LiveIsMapped'
      BY <2>1, <2>3, <3>1 DEF IdInv, LiveIsMapped
    <3>3. IdentitiesAreUnique'
      BY <2>1, <2>3 DEF IdInv, IdentitiesAreUnique
    <3>4. QED
      BY <3>2, <3>3 DEF IdInv
  <2>4. QED
    BY <1>3, <2>2, <2>3, MissOneFacts
<1>4. ASSUME NEW k \in Key, FlushOne(k)
      PROVE  IdInv'
  BY <1>0, <1>4, FlushOneFacts, FinalizeLive
<1>5. CASE \/ \E c \in Cameras, n \in 1 .. MaxFrame, natives \in Detections :
                 BeginFrame(c, n, natives)
           \/ AssignDone \/ CheckOrder \/ BeginMissing \/ EndFrame \/ Stop
           \/ FlushDone \/ UNCHANGED vars
  <2>1. UNCHANGED <<tracks, logical, nextNumber, finalized>>
    BY <1>5
    DEF BeginFrame, AssignDone, CheckOrder, BeginMissing, EndFrame, Stop, FlushDone, vars
  <2>2. QED
    BY <2>1, IdKept
<1>6. QED
  BY <1>1, <1>2, <1>3, <1>4, <1>5 DEF Next, Terminated

(* A logical identity belongs to one native id for one lifetime, and is    *)
(* finalized once: the duplicate-identity error cannot be raised.          *)
THEOREM IdentitiesStayUnique == Spec => []IdentitiesAreUnique
<1>1. IdInv => IdentitiesAreUnique
  BY DEF IdInv
<1>2. QED
  BY <1>1, TypeInit, TypeNext, IdInit, IdNext, PTL DEF Spec

-----------------------------------------------------------------------------
(* Mappings and tracks                                                     *)

(* The native ids of the frame that have a mapping, but perhaps no track   *)
(* yet: all of them until the detections are applied, then those that are  *)
(* still to be applied.                                                    *)
KeysOf(q) == {<<frame.camera, x>> : x \in Elements(q)}

MappedAreLive(K) == \A k \in Key : logical[k] # 0 => tracks[k] # NoTrack \/ k \in K

WaitInv ==
    /\ pc \in {"idle", "missing"} => MappedAreLive({})
    /\ pc \in {"assign", "order"} => MappedAreLive(KeysOf(frame.natives))
    /\ pc = "update" => MappedAreLive(KeysOf(todo))
    /\ pc = "assign" => Elements(todo) \subseteq Elements(frame.natives)

LEMMA WaitInit == Init => WaitInv
  BY DEF Init, WaitInv, MappedAreLive

LEMMA WaitNext == TypeInv /\ IdInv /\ WaitInv /\ [Next]_vars => WaitInv'
<1> SUFFICES ASSUME TypeInv, IdInv, WaitInv, [Next]_vars PROVE WaitInv'
  OBVIOUS
<1>0. TypeOK
  BY DEF TypeInv
<1>1. ASSUME NEW c \in Cameras, NEW n \in 1 .. MaxFrame, NEW natives \in Detections,
             BeginFrame(c, n, natives)
      PROVE  WaitInv'
  <2>1. /\ pc = "idle" /\ pc' = "assign" /\ todo' = natives
        /\ frame'.natives = natives /\ UNCHANGED <<tracks, logical>>
    BY <1>1 DEF BeginFrame
  <2>2. MappedAreLive({})
    BY <2>1 DEF WaitInv
  <2>3. MappedAreLive(KeysOf(frame.natives))'
    BY <2>1, <2>2 DEF MappedAreLive
  <2>4. (Elements(todo) \subseteq Elements(frame.natives))'
    BY <2>1
  <2>5. QED
    BY <2>1, <2>3, <2>4 DEF WaitInv
<1>2. CASE AssignOne
  <2> DEFINE k == <<frame.camera, Head(todo)>>
  <2>1. /\ pc = "assign" /\ pc' = "assign" /\ frame' = frame /\ tracks' = tracks
        /\ todo' = Tail(todo) /\ AssignLogicalId(k)
        /\ todo \in Seq(Natives) /\ todo # <<>>
    BY <1>0, <1>2 DEF AssignOne, TypeOK
  <2>2. Head(todo) \in Natives
    BY <2>1, TailFacts
  <2>3. Head(todo) \in Elements(todo) /\ Elements(Tail(todo)) \subseteq Elements(todo)
    BY <2>1, TailCovers
  <2>4. k \in Key
    BY <1>0, <2>1, <2>2, FrameFacts, MakeKey
  <2>5. k \in KeysOf(frame.natives)
    BY <2>1, <2>3 DEF WaitInv, KeysOf
  <2> HIDE DEF k
  <2>6. \A l \in Key : l # k => logical'[l] = logical[l]
    BY <1>0, <2>1, <2>4, AssignFacts
  <2>7. KeysOf(frame.natives)' = KeysOf(frame.natives)
    BY <2>1 DEF KeysOf, Elements
  <2>8. MappedAreLive(KeysOf(frame.natives))'
    BY <2>1, <2>5, <2>6, <2>7 DEF WaitInv, MappedAreLive
  <2>9. (Elements(todo) \subseteq Elements(frame.natives))'
    <3>1. Elements(todo') \subseteq Elements(frame.natives)
      BY <2>1, <2>3 DEF WaitInv
    <3>2. QED
      BY <2>1, <3>1 DEF Elements
  <2>10. QED
    BY <2>1, <2>8, <2>9 DEF WaitInv
<1>3. CASE CheckOrder
  <2>1. /\ pc = "order" /\ UNCHANGED <<tracks, logical, frame>>
        /\ pc' = "flush" \/ (pc' = "update" /\ todo' = frame.natives)
    BY <1>3 DEF CheckOrder
  <2>2. CASE pc' = "update" /\ todo' = frame.natives
    <3>1. KeysOf(todo)' = KeysOf(frame.natives)
      BY <2>1, <2>2 DEF KeysOf, Elements
    <3>2. MappedAreLive(KeysOf(todo))'
      BY <2>1, <3>1 DEF WaitInv, MappedAreLive
    <3>3. QED
      BY <2>2, <3>2 DEF WaitInv
  <2>3. QED
    BY <2>1, <2>2 DEF WaitInv
<1>4. CASE UpdateOne
  <2> DEFINE k == <<frame.camera, Head(todo)>>
  <2>1. /\ k \in Key /\ pc = "update" /\ AssignLogicalId(k)
        /\ Creates(k) \/ Rejects(k) \/ Observes(k)
        /\ frame' = frame /\ todo # <<>> /\ todo \in Seq(Natives)
        /\ k[1] \in Cameras
    BY <1>0, <1>4, UpdateOneFacts, KeyFacts DEF TypeOK
  <2>2. KeysOf(todo) \subseteq KeysOf(Tail(todo)) \cup {k}
    BY <2>1, TailCovers DEF KeysOf
  <2> HIDE DEF k
  <2>3. /\ \A l \in Key : l # k => logical'[l] = logical[l]
        /\ LogicalId(k) \in Nat \ {0}
    BY <1>0, <2>1, AssignFacts
  <2>4. CASE Rejects(k)
    BY <2>4 DEF Rejects, WaitInv
  <2>5. CASE Creates(k) \/ Observes(k)
    <3>1. pc' = "update" /\ todo' = Tail(todo)
      BY <2>1, <2>5 DEF Creates, Observes
    <3>2. tracks'[k] # NoTrack /\ \A l \in Key : l # k => tracks'[l] = tracks[l]
      <4>1. tracks \in [Key -> Track \cup {NoTrack}]
        BY <1>0 DEF TypeOK
      <4>2. CASE Creates(k)
        <5>1. NewTrack(LogicalId(k), k[1]) # NoTrack
          BY <1>0, <2>1, <2>3, NewTrackFacts, TrackIsNotNoTrack
        <5>2. QED
          BY <2>1, <4>1, <4>2, <5>1 DEF Creates
      <4>3. CASE Observes(k)
        <5>1. tracks[k] \in Track
          BY <1>0, <2>1, <4>3, LiveIsTrack DEF Observes
        <5>2. Observed(tracks[k], k[1]) # NoTrack
          BY <1>0, <2>1, <5>1, ObservedFacts, TrackIsNotNoTrack
        <5>3. QED
          BY <2>1, <4>1, <4>3, <5>2 DEF Observes
      <4>4. QED
        BY <2>5, <4>2, <4>3
    <3>3. KeysOf(todo)' = KeysOf(Tail(todo))
      BY <2>1, <3>1 DEF KeysOf, Elements
    <3>4. MappedAreLive(KeysOf(todo))'
      BY <2>1, <2>2, <2>3, <3>2, <3>3 DEF WaitInv, MappedAreLive
    <3>5. QED
      BY <3>1, <3>4 DEF WaitInv
  <2>6. QED
    BY <2>1, <2>4, <2>5
<1>5. CASE BeginMissing
  <2>1. /\ pc = "update" /\ todo = <<>> /\ pc' = "missing"
        /\ UNCHANGED <<tracks, logical>>
    BY <1>5 DEF BeginMissing
  <2>2. KeysOf(todo) = {}
    BY <2>1, NoElements DEF KeysOf
  <2>3. MappedAreLive({})'
    BY <2>1, <2>2 DEF WaitInv, MappedAreLive
  <2>4. QED
    BY <2>1, <2>3 DEF WaitInv
<1>6. ASSUME NEW k \in Key, MissOne(k)
      PROVE  WaitInv'
  <2>1. /\ tracks[k] # NoTrack /\ tracks[k] \in Track /\ pc = "missing"
        /\ nextNumber' = nextNumber
        /\ Missed(tracks[k]) \in Track /\ Missed(tracks[k]).id = tracks[k].id
    BY <1>6, MissOneFacts, MissedFacts
  <2>2. tracks \in [Key -> Track \cup {NoTrack}] /\ logical \in [Key -> Nat]
    BY <1>0 DEF TypeOK
  <2>3. MappedAreLive({})
    BY <2>1 DEF WaitInv
  <2>4. CASE Finalize(k, Missed(tracks[k]), "LOST_TIMEOUT", "missing")
    <3>1. pc' = "missing"
      BY <1>0, <2>1, <2>4, FinalizeLive
    <3>2. /\ tracks' = [tracks EXCEPT ![k] = NoTrack]
          /\ logical' = [logical EXCEPT ![k] = 0]
      BY <2>4 DEF Finalize
    <3>3. MappedAreLive({})'
      BY <2>2, <2>3, <3>2 DEF MappedAreLive
    <3>4. QED
      BY <3>1, <3>3 DEF WaitInv
  <2>5. CASE /\ tracks' = [tracks EXCEPT ![k] = Missed(tracks[k])]
             /\ UNCHANGED <<logical, finalized, completed, discarded, pc>>
    <3>1. Missed(tracks[k]) # NoTrack
      BY <2>1, TrackIsNotNoTrack
    <3>2. MappedAreLive({})'
      BY <2>2, <2>3, <2>5, <3>1 DEF MappedAreLive
    <3>3. QED
      BY <2>1, <2>5, <3>2 DEF WaitInv
  <2>6. QED
    BY <1>6, <2>4, <2>5, MissOneFacts
<1>7. ASSUME NEW k \in Key, FlushOne(k)
      PROVE  WaitInv'
  <2>1. pc' = "flush"
    BY <1>0, <1>7, FlushOneFacts, FinalizeLive
  <2>2. QED
    BY <2>1 DEF WaitInv
<1>8. CASE EndFrame
  <2>1. pc = "missing" /\ pc' = "idle" /\ UNCHANGED <<tracks, logical>>
    BY <1>8 DEF EndFrame
  <2>2. QED
    BY <2>1 DEF WaitInv, MappedAreLive
<1>9. CASE Stop \/ FlushDone
  BY <1>9 DEF Stop, FlushDone, WaitInv
<1>10. CASE AssignDone
  <2>1. pc = "assign" /\ pc' = "order" /\ UNCHANGED <<tracks, logical, frame>>
    BY <1>10 DEF AssignDone
  <2>2. KeysOf(frame.natives)' = KeysOf(frame.natives)
    BY <2>1 DEF KeysOf, Elements
  <2>3. QED
    BY <2>1, <2>2 DEF WaitInv, MappedAreLive
<1>11. CASE UNCHANGED vars
  BY <1>11 DEF vars, WaitInv, MappedAreLive, KeysOf, Elements
<1>12. QED
  BY <1>1, <1>2, <1>3, <1>4, <1>5, <1>6, <1>7, <1>8, <1>9, <1>10, <1>11
  DEF Next, Terminated

(* A live track carries the identity its native id is mapped to, and       *)
(* between two frames there is no mapping without a track.                 *)
THEOREM MappingsHaveTracks == Spec => []MappingFollowsTracks
<1>1. IdInv /\ WaitInv => MappingFollowsTracks
  BY DEF IdInv, LiveIsMapped, WaitInv, MappedAreLive, MappingFollowsTracks, Live
<1>2. QED
  BY <1>1, TypeInit, TypeNext, IdInit, IdNext, WaitInit, WaitNext, PTL DEF Spec

-----------------------------------------------------------------------------
(* The account of every track                                              *)

HandedOut == \A c \in Cameras : \A n \in 1 .. nextNumber[c] - 1 :
    <<c, n>> \in finalized \/ \E k \in Key : k[1] = c /\ logical[k] = n

Stored ==
    /\ finalized = {<<t.camera, t.id>> : t \in completed \cup discarded}
    /\ IsFiniteSet(finalized) /\ IsFiniteSet(completed) /\ IsFiniteSet(discarded)
    /\ Cardinality(finalized) = Cardinality(completed) + Cardinality(discarded)
    /\ \A t \in completed : t.count >= MinObservations
    /\ \A t \in discarded : t.count < MinObservations

AccountInv == HandedOut /\ Stored

LEMMA AccountInit == Init => AccountInv
<1> SUFFICES ASSUME Init PROVE AccountInv
  OBVIOUS
<1>1. \A c \in Cameras : 1 .. nextNumber[c] - 1 = {}
  BY DEF Init
<1>2. IsFiniteSet({}) /\ Cardinality({}) = 0
  BY FS_EmptySet
<1>3. Stored
  BY <1>2 DEF Init, Stored
<1>4. QED
  BY <1>1, <1>3 DEF AccountInv, HandedOut

(* A new number is mapped, and nothing that was mapped is dropped.         *)
LEMMA AssignHandedOut ==
    ASSUME TypeOK, HandedOut, NEW k \in Key, AssignLogicalId(k), finalized' = finalized
    PROVE  HandedOut'
<1>1. /\ logical \in [Key -> Nat] /\ nextNumber \in [Cameras -> Nat \ {0}]
      /\ k[1] \in Cameras
  BY KeyFacts DEF TypeOK
<1>2. CASE logical[k] # 0
  <2>1. logical' = logical /\ nextNumber' = nextNumber /\ finalized' = finalized
    BY <1>2 DEF AssignLogicalId
  <2> SUFFICES ASSUME NEW c \in Cameras, NEW n \in 1 .. nextNumber'[c] - 1
               PROVE  <<c, n>> \in finalized' \/ \E l \in Key : l[1] = c /\ logical'[l] = n
    BY DEF HandedOut
  <2>2. n \in 1 .. nextNumber[c] - 1
    BY <2>1
  <2>3. <<c, n>> \in finalized \/ \E l \in Key : l[1] = c /\ logical[l] = n
    BY <2>2 DEF HandedOut
  <2>4. QED
    BY <2>1, <2>3
<1>3. CASE logical[k] = 0
  <2>1. /\ logical' = [logical EXCEPT ![k] = nextNumber[k[1]]]
        /\ nextNumber' = [nextNumber EXCEPT ![k[1]] = nextNumber[k[1]] + 1]
    BY <1>3 DEF AssignLogicalId
  <2> SUFFICES ASSUME NEW c \in Cameras, NEW n \in 1 .. nextNumber'[c] - 1
               PROVE  <<c, n>> \in finalized \/ \E l \in Key : l[1] = c /\ logical'[l] = n
    BY DEF HandedOut
  <2>2. nextNumber[c] \in Nat /\ n \in Nat /\ n # 0
    BY <1>1
  <2>3. CASE n \in 1 .. nextNumber[c] - 1
    <3>1. CASE <<c, n>> \in finalized
      BY <3>1
    <3>2. CASE <<c, n>> \notin finalized
      <4>1. PICK l \in Key : l[1] = c /\ logical[l] = n
        BY <2>3, <3>2 DEF HandedOut
      <4>2. logical'[l] = n
        BY <1>1, <1>3, <2>1, <2>2, <4>1
      <4>3. QED
        BY <4>1, <4>2
    <3>3. QED
      BY <3>1, <3>2
  <2>4. CASE n \notin 1 .. nextNumber[c] - 1
    <3>1. c = k[1] /\ n = nextNumber[k[1]]
      BY <1>1, <2>1, <2>2, <2>4
    <3>2. logical'[k] = n
      BY <1>1, <2>1, <3>1
    <3>3. QED
      BY <3>1, <3>2
  <2>5. QED
    BY <2>3, <2>4
<1>4. QED
  BY <1>2, <1>3

(* Finalizing a live track stores it once, by its observations.            *)
LEMMA FinalizeAccount ==
    ASSUME TypeInv, IdInv, AccountInv, NEW k \in Key, tracks[k] # NoTrack,
           NEW t \in Track, t.id = tracks[k].id, NEW reason \in Reasons, NEW next,
           Finalize(k, t, reason, next), nextNumber' = nextNumber
    PROVE  AccountInv'
<1> DEFINE r == Closed(k[1], t, reason)
           p == <<k[1], t.id>>
<1>1. /\ t.id = logical[k] /\ logical[k] # 0
      /\ p \notin finalized /\ finalized' = finalized \cup {p}
  BY FinalizeLive DEF TypeInv
<1>2. /\ logical' = [logical EXCEPT ![k] = 0] /\ logical \in [Key -> Nat]
      /\ IF t.count >= MinObservations
         THEN completed' = completed \cup {r} /\ discarded' = discarded
         ELSE discarded' = discarded \cup {r} /\ completed' = completed
  BY <1>1 DEF Finalize, TypeInv, TypeOK
<1>3. r.camera = k[1] /\ r.id = t.id /\ r.count = t.count
  BY DEF Closed
<1>4. t.count \in Nat /\ MinObservations \in Nat
  BY LimitsAssumption DEF Track, LimitsAssumption
<1>5. HandedOut'
  <2> SUFFICES ASSUME NEW c \in Cameras, NEW n \in 1 .. nextNumber[c] - 1
               PROVE  <<c, n>> \in finalized' \/ \E l \in Key : l[1] = c /\ logical'[l] = n
    BY DEF HandedOut
  <2>1. CASE <<c, n>> \in finalized
    BY <1>1, <2>1
  <2>2. CASE <<c, n>> \notin finalized
    <3>1. PICK l \in Key : l[1] = c /\ logical[l] = n
      BY <2>2 DEF AccountInv, HandedOut
    <3>2. CASE l = k
      BY <1>1, <3>1, <3>2
    <3>3. CASE l # k
      <4>1. logical'[l] = n
        BY <1>2, <3>1, <3>3
      <4>2. QED
        BY <3>1, <4>1
    <3>4. QED
      BY <3>2, <3>3
  <2>3. QED
    BY <2>1, <2>2
<1> HIDE DEF r, p
<1>6. r \notin completed /\ r \notin discarded
  BY <1>1, <1>3 DEF AccountInv, Stored, p
<1>7. /\ IsFiniteSet(finalized) /\ IsFiniteSet(completed) /\ IsFiniteSet(discarded)
      /\ Cardinality(finalized) = Cardinality(completed) + Cardinality(discarded)
  BY DEF AccountInv, Stored
<1>8. Cardinality(completed) \in Nat /\ Cardinality(discarded) \in Nat
  BY <1>7, FS_CardinalityType
<1>9. /\ IsFiniteSet(finalized') /\ IsFiniteSet(completed') /\ IsFiniteSet(discarded')
      /\ Cardinality(finalized') = Cardinality(completed') + Cardinality(discarded')
  <2>1. IsFiniteSet(finalized') /\ Cardinality(finalized') = Cardinality(finalized) + 1
    BY <1>1, <1>7, FS_AddElement
  <2>2. CASE t.count >= MinObservations
    <3>1. /\ IsFiniteSet(completed') /\ discarded' = discarded
          /\ Cardinality(completed') = Cardinality(completed) + 1
      BY <1>2, <1>6, <1>7, <2>2, FS_AddElement
    <3>2. QED
      BY <1>7, <1>8, <2>1, <3>1
  <2>3. CASE ~(t.count >= MinObservations)
    <3>1. /\ IsFiniteSet(discarded') /\ completed' = completed
          /\ Cardinality(discarded') = Cardinality(discarded) + 1
      BY <1>2, <1>6, <1>7, <2>3, FS_AddElement
    <3>2. QED
      BY <1>7, <1>8, <2>1, <3>1
  <2>4. QED
    BY <2>2, <2>3
<1>10. completed' \cup discarded' = completed \cup discarded \cup {r}
  BY <1>2
<1>11. finalized' = {<<u.camera, u.id>> : u \in completed' \cup discarded'}
  <2>1. <<r.camera, r.id>> = p
    BY <1>3 DEF p
  <2>2. finalized = {<<u.camera, u.id>> : u \in completed \cup discarded}
    BY DEF AccountInv, Stored
  <2>3. QED
    BY <1>1, <1>10, <2>1, <2>2
<1>12. /\ \A u \in completed' : u.count >= MinObservations
       /\ \A u \in discarded' : u.count < MinObservations
  BY <1>2, <1>3, <1>4 DEF AccountInv, Stored
<1>13. Stored'
  BY <1>9, <1>11, <1>12 DEF Stored
<1>14. QED
  BY <1>5, <1>13 DEF AccountInv

LEMMA AccountNext ==
    TypeInv /\ IdInv /\ AccountInv /\ [Next]_vars => AccountInv'
<1> SUFFICES ASSUME TypeInv, IdInv, AccountInv, [Next]_vars PROVE AccountInv'
  OBVIOUS
<1>0. TypeOK
  BY DEF TypeInv
<1>1. CASE AssignOne
  <2>1. pc = "assign" /\ todo \in Seq(Natives) /\ todo # <<>>
    BY <1>0, <1>1 DEF AssignOne, TypeOK
  <2>2. Head(todo) \in Natives
    BY <2>1, TailFacts
  <2>3. <<frame.camera, Head(todo)>> \in Key
    BY <1>0, <2>1, <2>2, FrameFacts, MakeKey
  <2>4. /\ AssignLogicalId(<<frame.camera, Head(todo)>>)
        /\ UNCHANGED <<finalized, completed, discarded>>
    BY <1>1 DEF AssignOne
  <2>5. HandedOut'
    BY <1>0, <2>3, <2>4, AssignHandedOut DEF AccountInv
  <2>6. QED
    BY <2>4, <2>5 DEF AccountInv, Stored
<1>2. CASE UpdateOne
  <2> DEFINE k == <<frame.camera, Head(todo)>>
  <2>1. /\ k \in Key /\ AssignLogicalId(k)
        /\ UNCHANGED <<finalized, completed, discarded>>
    BY <1>0, <1>2, UpdateOneFacts
  <2> HIDE DEF k
  <2>2. HandedOut'
    BY <1>0, <2>1, AssignHandedOut DEF AccountInv
  <2>3. QED
    BY <2>1, <2>2 DEF AccountInv, Stored
<1>3. ASSUME NEW k \in Key, MissOne(k)
      PROVE  AccountInv'
  <2>1. /\ tracks[k] # NoTrack /\ tracks[k] \in Track /\ nextNumber' = nextNumber
        /\ Missed(tracks[k]) \in Track /\ Missed(tracks[k]).id = tracks[k].id
    BY <1>3, MissOneFacts, MissedFacts
  <2>2. CASE Finalize(k, Missed(tracks[k]), "LOST_TIMEOUT", "missing")
    BY <2>1, <2>2, FinalizeAccount DEF Reasons
  <2>3. CASE /\ tracks' = [tracks EXCEPT ![k] = Missed(tracks[k])]
             /\ UNCHANGED <<logical, finalized, completed, discarded, pc>>
    BY <2>1, <2>3 DEF AccountInv, HandedOut, Stored
  <2>4. QED
    BY <1>3, <2>2, <2>3, MissOneFacts
<1>4. ASSUME NEW k \in Key, FlushOne(k)
      PROVE  AccountInv'
  BY <1>4, FlushOneFacts, FinalizeAccount DEF Reasons
<1>5. CASE \/ \E c \in Cameras, n \in 1 .. MaxFrame, natives \in Detections :
                 BeginFrame(c, n, natives)
           \/ AssignDone \/ CheckOrder \/ BeginMissing \/ EndFrame \/ Stop
           \/ FlushDone \/ UNCHANGED vars
  <2>1. UNCHANGED <<logical, nextNumber, finalized, completed, discarded>>
    BY <1>5
    DEF BeginFrame, AssignDone, CheckOrder, BeginMissing, EndFrame, Stop, FlushDone, vars
  <2>2. QED
    BY <2>1 DEF AccountInv, HandedOut, Stored
<1>6. QED
  BY <1>1, <1>2, <1>3, <1>4, <1>5 DEF Next, Terminated

(* Every identity handed out and mapped no more was finalized, once, as    *)
(* completed or as discarded according to its observations.                *)
THEOREM EveryTrackIsAccounted == Spec => []TracksAreAccounted
<1>1. AccountInv => TracksAreAccounted
  BY DEF AccountInv, HandedOut, Stored, TracksAreAccounted
<1>2. QED
  BY <1>1, TypeInit, TypeNext, IdInit, IdNext, AccountInit, AccountNext, PTL DEF Spec

-----------------------------------------------------------------------------
(* Ages and observations                                                   *)

(* The frames of a camera that a track is missing from: those applied      *)
(* since it was seen.                                                      *)
Absence(k) == updates[k[1]] - tracks[k].seenAt

(* The age of a track is its absence; while a frame is applied, the tracks *)
(* that are not yet known to be in it lag by that frame.                   *)
Aged(k) ==
    /\ tracks[k].lost = Absence(k)
    /\ tracks[k].lost <= MaxLost
    /\ tracks[k].status = "LOST" <=> tracks[k].lost > 0
Lagging(k) ==
    /\ tracks[k].lost + 1 = Absence(k)
    /\ tracks[k].lost <= MaxLost
    /\ tracks[k].status = "LOST" <=> tracks[k].lost > 0

AgeInv ==
    /\ pc \in {"idle", "assign", "order"} =>
          \A k \in Key : tracks[k] # NoTrack => Aged(k)
    /\ pc = "update" =>
          \A k \in Key : tracks[k] # NoTrack =>
             /\ k[1] # frame.camera => Aged(k)
             /\ k[1] = frame.camera => Aged(k) \/ Lagging(k)
             /\ k \in KeysOf(frame.natives) \ KeysOf(todo) => Aged(k)
             /\ Aged(k) /\ k[1] = frame.camera => k \in KeysOf(frame.natives)
    /\ pc = "update" => KeysOf(todo) \subseteq KeysOf(frame.natives)
    /\ pc = "missing" =>
          \A k \in Key : tracks[k] # NoTrack =>
             IF k \in unseen THEN Lagging(k) ELSE Aged(k)
    /\ \A t \in completed : t.reason = "LOST_TIMEOUT" => t.missed = MaxLost + 1

LEMMA AgeInit == Init => AgeInv
  BY DEF Init, AgeInv

LEMMA AgeNumbers ==
    ASSUME TypeInv, NEW k \in Key, tracks[k] # NoTrack
    PROVE  /\ tracks[k].lost \in Nat /\ tracks[k].seenAt \in Nat
           /\ k[1] \in Cameras /\ updates[k[1]] \in Nat /\ MaxLost \in Nat
  BY LiveIsTrack, KeyFacts, LimitsAssumption DEF TypeInv, TypeOK, Track, LimitsAssumption

(* A step that leaves a track and its camera's frames alone.               *)
LEMMA AgedKept ==
    ASSUME NEW k \in Key, tracks'[k] = tracks[k], updates' = updates
    PROVE  (Aged(k)' <=> Aged(k)) /\ (Lagging(k)' <=> Lagging(k))
  BY DEF Aged, Lagging, Absence

LEMMA NotBoth ==
    ASSUME TypeInv, NEW k \in Key, tracks[k] # NoTrack, Lagging(k)
    PROVE  ~Aged(k)
  BY AgeNumbers DEF Aged, Lagging, Absence

(* Applying a frame makes every track of its camera lag by one.            *)
LEMMA AgeOrder ==
    ASSUME TypeInv, TypeInv', AgeInv, CheckOrder
    PROVE  AgeInv'
<1>1. /\ pc = "order" /\ UNCHANGED <<tracks, completed, frame>>
      /\ \/ pc' = "flush"
         \/ /\ pc' = "update" /\ todo' = frame.natives
            /\ updates' = [updates EXCEPT ![frame.camera] = updates[frame.camera] + 1]
  BY DEF CheckOrder
<1>2. CASE pc' = "flush"
  BY <1>1, <1>2 DEF AgeInv
<1>3. CASE /\ pc' = "update" /\ todo' = frame.natives
           /\ updates' = [updates EXCEPT ![frame.camera] = updates[frame.camera] + 1]
  <2>1. KeysOf(todo)' = KeysOf(frame.natives)'
    BY <1>1, <1>3 DEF KeysOf
  <2>2. frame.camera \in Cameras /\ updates \in [Cameras -> Nat]
    BY <1>1, FrameFacts DEF TypeInv, TypeOK
  <2>3. ASSUME NEW k \in Key, tracks'[k] # NoTrack
        PROVE  /\ k[1] # frame.camera => Aged(k)'
               /\ k[1] = frame.camera => Lagging(k)' /\ ~Aged(k)'
    <3>1. tracks'[k] = tracks[k] /\ Aged(k) /\ k[1] \in Cameras
      BY <1>1, <2>3, KeyFacts DEF AgeInv
    <3>2. /\ tracks[k].lost \in Nat /\ tracks[k].seenAt \in Nat /\ updates[k[1]] \in Nat
      BY <2>3, <3>1, AgeNumbers
    <3>3. CASE k[1] # frame.camera
      <4>1. updates'[k[1]] = updates[k[1]]
        BY <1>3, <2>2, <3>1, <3>3
      <4>2. QED
        BY <3>1, <3>3, <4>1 DEF Aged, Absence
    <3>4. CASE k[1] = frame.camera
      <4>1. updates'[k[1]] = updates[k[1]] + 1
        BY <1>3, <2>2, <3>1, <3>4
      <4>2. Lagging(k)'
        BY <3>1, <3>2, <4>1 DEF Aged, Lagging, Absence
      <4>3. ~Aged(k)'
        BY <3>1, <3>2, <4>1 DEF Aged, Absence
      <4>4. QED
        BY <3>4, <4>2, <4>3
    <3>5. QED
      BY <3>3, <3>4
  <2>4. QED
    BY <1>1, <1>3, <2>1, <2>3 DEF AgeInv
<1>4. QED
  BY <1>1, <1>2, <1>3

(* A detection gives its track the age 0.                                  *)
LEMMA AgeUpdate ==
    ASSUME TypeInv, AgeInv, UpdateOne
    PROVE  AgeInv'
<1>0. TypeOK
  BY DEF TypeInv
<1>k. PICK k \in Key : k = <<frame.camera, Head(todo)>>
  BY <1>0, UpdateOneFacts
<1>1. /\ k \in Key /\ k[1] = frame.camera /\ pc = "update" /\ AssignLogicalId(k)
      /\ Creates(k) \/ Rejects(k) \/ Observes(k)
      /\ UNCHANGED <<completed, updates, frame>>
      /\ todo # <<>> /\ todo \in Seq(Natives) /\ k[1] \in Cameras
  BY <1>0, <1>k, UpdateOneFacts, KeyFacts DEF TypeOK
<1>2. /\ KeysOf(todo) \subseteq KeysOf(Tail(todo)) \cup {k}
      /\ KeysOf(Tail(todo)) \subseteq KeysOf(todo)
      /\ k \in KeysOf(todo)
  BY <1>1, <1>k, TailCovers DEF KeysOf
<1>3. CASE Rejects(k)
  BY <1>1, <1>3 DEF Rejects, AgeInv
<1>4. CASE Creates(k) \/ Observes(k)
  <2>1. pc' = "update" /\ todo' = Tail(todo)
    BY <1>1, <1>4 DEF Creates, Observes
  <2>2. \A l \in Key : l # k => tracks'[l] = tracks[l]
    BY <1>0, <1>1, <1>4 DEF TypeOK, Creates, Observes
  <2>3. tracks'[k].lost = 0 /\ tracks'[k].seenAt = updates[k[1]] /\ tracks'[k].status # "LOST"
    <3>1. tracks \in [Key -> Track \cup {NoTrack}]
      BY <1>0 DEF TypeOK
    <3>2. \A n \in Nat : StatusFor(n) # "LOST"
      BY DEF StatusFor
    <3>3. CASE Creates(k)
      <4>1. tracks'[k] = NewTrack(LogicalId(k), k[1]) /\ LogicalId(k) \in Nat \ {0}
        BY <1>0, <1>1, <3>1, <3>3, AssignFacts DEF Creates
      <4>2. QED
        BY <1>0, <1>1, <3>2, <4>1, NewTrackFacts
    <3>4. CASE Observes(k)
      <4>1. tracks'[k] = Observed(tracks[k], k[1]) /\ tracks[k] \in Track
        BY <1>0, <1>1, <3>1, <3>4, LiveIsTrack DEF Observes
      <4>2. tracks[k].count + 1 \in Nat
        BY <4>1 DEF Track
      <4>3. QED
        BY <1>0, <1>1, <3>2, <4>1, <4>2, ObservedFacts
    <3>5. QED
      BY <1>4, <3>3, <3>4
  <2>4. Aged(k)'
    <3>1. updates[k[1]] \in Nat /\ MaxLost \in Nat
      BY <1>0, <1>1, LimitsAssumption DEF TypeOK, LimitsAssumption
    <3>2. QED
      BY <1>1, <2>3, <3>1 DEF Aged, Absence
  <2>5. \A l \in Key : l # k => (Aged(l)' <=> Aged(l)) /\ (Lagging(l)' <=> Lagging(l))
    BY <1>1, <2>2, AgedKept
  <2>6. KeysOf(todo)' = KeysOf(Tail(todo)) /\ KeysOf(frame.natives)' = KeysOf(frame.natives)
    BY <1>1, <2>1 DEF KeysOf, Elements
  <2>7. ASSUME NEW l \in Key, tracks'[l] # NoTrack
        PROVE  /\ l[1] # frame.camera => Aged(l)'
               /\ l[1] = frame.camera => Aged(l)' \/ Lagging(l)'
               /\ l \in KeysOf(frame.natives) \ KeysOf(Tail(todo)) => Aged(l)'
               /\ Aged(l)' /\ l[1] = frame.camera => l \in KeysOf(frame.natives)
    <3>1. CASE l = k
      BY <1>1, <1>2, <2>4, <3>1 DEF AgeInv
    <3>2. CASE l # k
      BY <1>1, <1>2, <2>2, <2>5, <2>7, <3>2 DEF AgeInv
    <3>3. QED
      BY <3>1, <3>2
  <2>8. KeysOf(Tail(todo)) \subseteq KeysOf(frame.natives)
    BY <1>1, <1>2 DEF AgeInv
  <2>9. QED
    BY <1>1, <2>1, <2>6, <2>7, <2>8 DEF AgeInv
<1>5. QED
  BY <1>1, <1>3, <1>4

(* The tracks to be visited as missing are those that lag.                 *)
LEMMA AgeBegin ==
    ASSUME TypeInv, AgeInv, BeginMissing
    PROVE  AgeInv'
<1>1. /\ pc = "update" /\ todo = <<>> /\ pc' = "missing"
      /\ unseen' = {k \in Live : k[1] = frame.camera} \ Present
      /\ UNCHANGED <<tracks, completed, updates, frame>>
  BY DEF BeginMissing
<1>2. KeysOf(todo) = {}
  BY <1>1, NoElements DEF KeysOf
<1>3. frame.natives \in Seq(Natives)
  BY <1>1, FrameFacts DEF TypeInv
<1>4. Present = KeysOf(frame.natives)
  BY <1>3 DEF Present, KeysOf, Elements
<1>5. ASSUME NEW k \in Key, tracks'[k] # NoTrack
      PROVE  IF k \in unseen' THEN Lagging(k)' ELSE Aged(k)'
  <2>1. tracks'[k] = tracks[k] /\ updates' = updates
    BY <1>1
  <2>2. k \in unseen' <=> k[1] = frame.camera /\ k \notin KeysOf(frame.natives)
    BY <1>1, <1>4, <1>5, <2>1 DEF Live
  <2>3. QED
    BY <1>1, <1>2, <1>5, <2>1, <2>2, AgedKept DEF AgeInv
<1>6. QED
  BY <1>1, <1>5 DEF AgeInv

(* A missed track catches up with its absence, or has just exceeded the    *)
(* limit.                                                                  *)
LEMMA AgeMiss ==
    ASSUME TypeInv, IdInv, AgeInv, NEW k \in Key, MissOne(k)
    PROVE  AgeInv'
<1>0. TypeOK
  BY DEF TypeInv
<1> DEFINE t == Missed(tracks[k])
<1>1. /\ tracks[k] # NoTrack /\ tracks[k] \in Track /\ pc = "missing"
      /\ k \in unseen /\ unseen' = unseen \ {k}
      /\ UNCHANGED <<nextNumber, updates, frame, todo>>
      /\ \/ t.lost > MaxLost /\ Finalize(k, t, "LOST_TIMEOUT", "missing")
         \/ /\ ~(t.lost > MaxLost)
            /\ tracks' = [tracks EXCEPT ![k] = t]
            /\ UNCHANGED <<logical, finalized, completed, discarded, pc>>
  BY MissOneFacts
<1>2. /\ t.id = tracks[k].id /\ t.lost = tracks[k].lost + 1
      /\ t.seenAt = tracks[k].seenAt /\ t.status = "LOST"
  BY <1>1, MissedFacts
<1> HIDE DEF t
<1>3. Lagging(k)
  BY <1>1 DEF AgeInv
<1>4. /\ tracks[k].lost \in Nat /\ tracks[k].seenAt \in Nat
      /\ updates[k[1]] \in Nat /\ MaxLost \in Nat
  BY <1>1, AgeNumbers
<1>5. tracks \in [Key -> Track \cup {NoTrack}]
  BY <1>0 DEF TypeOK
<1>6. CASE t.lost > MaxLost /\ Finalize(k, t, "LOST_TIMEOUT", "missing")
  <2>1. pc' = "missing" /\ <<k[1], t.id>> \notin finalized
    BY <1>0, <1>1, <1>2, <1>6, FinalizeLive
  <2>2. tracks' = [tracks EXCEPT ![k] = NoTrack]
    BY <1>6 DEF Finalize
  <2>3. completed' \subseteq completed \cup {Closed(k[1], t, "LOST_TIMEOUT")}
    BY <1>6, <2>1 DEF Finalize
  <2>4. Closed(k[1], t, "LOST_TIMEOUT").missed = MaxLost + 1
    BY <1>2, <1>3, <1>4, <1>6 DEF Closed, Lagging, Absence
  <2>5. ASSUME NEW l \in Key, tracks'[l] # NoTrack
        PROVE  IF l \in unseen' THEN Lagging(l)' ELSE Aged(l)'
    <3>1. l # k /\ tracks'[l] = tracks[l] /\ updates' = updates
      BY <1>1, <1>5, <2>2, <2>5
    <3>2. QED
      BY <1>1, <2>5, <3>1, AgedKept DEF AgeInv
  <2>6. QED
    BY <2>1, <2>3, <2>4, <2>5 DEF AgeInv
<1>7. CASE /\ ~(t.lost > MaxLost)
           /\ tracks' = [tracks EXCEPT ![k] = t]
           /\ UNCHANGED <<logical, finalized, completed, discarded, pc>>
  <2>1. tracks'[k] = t /\ \A l \in Key : l # k => tracks'[l] = tracks[l]
    BY <1>5, <1>7
  <2>2. Aged(k)'
    BY <1>1, <1>2, <1>3, <1>4, <1>7, <2>1 DEF Aged, Lagging, Absence
  <2>3. ASSUME NEW l \in Key, tracks'[l] # NoTrack
        PROVE  IF l \in unseen' THEN Lagging(l)' ELSE Aged(l)'
    <3>1. CASE l = k
      BY <1>1, <2>2, <3>1
    <3>2. CASE l # k
      BY <1>1, <2>1, <2>3, <3>2, AgedKept DEF AgeInv
    <3>3. QED
      BY <3>1, <3>2
  <2>4. QED
    BY <1>1, <1>7, <2>3 DEF AgeInv
<1>8. QED
  BY <1>1, <1>6, <1>7

LEMMA AgeNext ==
    TypeInv /\ TypeInv' /\ IdInv /\ AgeInv /\ [Next]_vars => AgeInv'
<1> SUFFICES ASSUME TypeInv, TypeInv', IdInv, AgeInv, [Next]_vars PROVE AgeInv'
  OBVIOUS
<1>0. TypeOK
  BY DEF TypeInv
<1>1. CASE CheckOrder
  BY <1>1, AgeOrder
<1>2. CASE UpdateOne
  BY <1>2, AgeUpdate
<1>3. CASE BeginMissing
  BY <1>3, AgeBegin
<1>4. ASSUME NEW k \in Key, MissOne(k)
      PROVE  AgeInv'
  BY <1>4, AgeMiss
<1>5. ASSUME NEW k \in Key, FlushOne(k)
      PROVE  AgeInv'
  <2>1. /\ tracks[k] # NoTrack /\ nextNumber' = nextNumber
        /\ Finalize(k, tracks[k], "END_OF_STREAM", "flush")
    BY <1>5, FlushOneFacts
  <2>2. pc' = "flush" /\ <<k[1], tracks[k].id>> \notin finalized
    BY <1>0, <2>1, FinalizeLive
  <2>3. completed' \subseteq completed \cup {Closed(k[1], tracks[k], "END_OF_STREAM")}
    BY <2>1, <2>2 DEF Finalize
  <2>4. Closed(k[1], tracks[k], "END_OF_STREAM").reason # "LOST_TIMEOUT"
    BY DEF Closed
  <2>5. QED
    BY <2>2, <2>3, <2>4 DEF AgeInv
<1>6. CASE \/ \E c \in Cameras, n \in 1 .. MaxFrame, natives \in Detections :
                 BeginFrame(c, n, natives)
           \/ AssignOne \/ AssignDone \/ EndFrame
  <2>1. /\ UNCHANGED <<tracks, updates, completed>>
        /\ pc' \in {"idle", "assign", "order"}
        /\ pc \in {"idle", "assign"} \/ (pc = "missing" /\ unseen = {})
    BY <1>6 DEF BeginFrame, AssignOne, AssignDone, EndFrame
  <2>2. \A k \in Key : tracks[k] # NoTrack => Aged(k)
    BY <2>1 DEF AgeInv
  <2>3. \A k \in Key : tracks'[k] # NoTrack => Aged(k)'
    BY <2>1, <2>2 DEF Aged, Absence
  <2>4. QED
    BY <2>1, <2>3 DEF AgeInv
<1>7. CASE Stop \/ FlushDone
  BY <1>7 DEF Stop, FlushDone, AgeInv
<1>8. CASE UNCHANGED vars
  BY <1>8 DEF vars, AgeInv, Aged, Lagging, Absence, KeysOf, Elements
<1>9. QED
  BY <1>1, <1>2, <1>3, <1>4, <1>5, <1>6, <1>7, <1>8 DEF Next, Terminated

(* A track ages by one for each frame of its own camera it is missing      *)
(* from, is revived by any observation, and times out exactly when the     *)
(* camera has had MaxLost + 1 frames without it.                           *)
THEOREM AgesAreAbsences == Spec => []AgeIsAbsence
<1>1. AgeInv => AgeIsAbsence
  BY DEF AgeInv, AgeIsAbsence, Live, Aged, Absence
<1>2. QED
  BY <1>1, TypeInit, TypeNext, IdInit, IdNext, AgeInit, AgeNext, PTL DEF Spec

-----------------------------------------------------------------------------
(* The observations of a track                                             *)

(* A track's last observation is one of its frames and not after the last  *)
(* frame of its camera, which is the frame that is being applied.          *)
LastOk(k) == tracks[k].last <= lastFrame[k[1]] /\ tracks[k].last \in tracks[k].frames
LastInv ==
    /\ \A k \in Key : tracks[k] # NoTrack => LastOk(k)
    /\ pc = "update" => frame.number = lastFrame[frame.camera]

LEMMA LastInit == Init => LastInv
  BY DEF Init, LastInv

(* The steps that change no last frame, and of the tracks at most one: it  *)
(* disappears or keeps its observations.                                   *)
LEMMA LastKept ==
    ASSUME LastInv, NEW k \in Key, lastFrame' = lastFrame, pc' # "update",
           \A l \in Key : l # k => tracks'[l] = tracks[l],
           tracks'[k] # NoTrack => /\ tracks[k] # NoTrack
                                   /\ tracks'[k].last = tracks[k].last
                                   /\ tracks'[k].frames = tracks[k].frames
    PROVE  LastInv'
<1>1. ASSUME NEW l \in Key, tracks'[l] # NoTrack
      PROVE  LastOk(l)'
  BY <1>1 DEF LastInv, LastOk
<1>2. QED
  BY <1>1 DEF LastInv

(* What the two steps do that end or miss a track.                         *)
LEMMA MissOrFlushTrack ==
    ASSUME TypeInv, NEW k \in Key, MissOne(k) \/ FlushOne(k)
    PROVE  /\ lastFrame' = lastFrame /\ pc' \in {"missing", "flush"}
           /\ tracks[k] # NoTrack /\ tracks[k] \in Track
           /\ \/ tracks' = [tracks EXCEPT ![k] = NoTrack]
              \/ tracks' = [tracks EXCEPT ![k] = Missed(tracks[k])]
<1>1. CASE MissOne(k)
  BY <1>1, MissOneFacts DEF Finalize
<1>2. CASE FlushOne(k)
  BY <1>2, FlushOneFacts DEF Finalize
<1>3. QED
  BY <1>1, <1>2

LEMMA LastNext == TypeInv /\ LastInv /\ [Next]_vars => LastInv'
<1> SUFFICES ASSUME TypeInv, LastInv, [Next]_vars PROVE LastInv'
  OBVIOUS
<1>0. TypeOK /\ tracks \in [Key -> Track \cup {NoTrack}]
  BY DEF TypeInv, TypeOK
<1>1. CASE CheckOrder
  <2>1. /\ frame.camera \in Cameras /\ frame.number \in Nat /\ frame' = frame
        /\ tracks' = tracks /\ lastFrame \in [Cameras -> Nat]
    BY <1>0, <1>1, FrameFacts DEF CheckOrder, TypeOK
  <2>2. CASE frame.number < lastFrame[frame.camera]
    BY <1>1, <2>1, <2>2 DEF CheckOrder, LastInv, LastOk
  <2>3. CASE ~(frame.number < lastFrame[frame.camera])
    <3>1. lastFrame' = [lastFrame EXCEPT ![frame.camera] = frame.number]
      BY <1>1, <2>3 DEF CheckOrder
    <3>2. frame.number = lastFrame'[frame.camera]
      BY <2>1, <3>1
    <3>3. ASSUME NEW k \in Key, tracks'[k] # NoTrack
          PROVE  LastOk(k)'
      <4>1. k[1] \in Cameras /\ tracks[k].last \in Nat
        BY <1>0, <2>1, <3>3, KeyFacts, LiveIsTrack DEF Track
      <4>2. lastFrame[k[1]] \in Nat /\ lastFrame[k[1]] <= lastFrame'[k[1]]
            /\ lastFrame'[k[1]] \in Nat
        BY <2>1, <2>3, <3>1, <4>1
      <4>3. LastOk(k)
        BY <2>1, <3>3 DEF LastInv
      <4>4. QED
        BY <2>1, <4>1, <4>2, <4>3 DEF LastOk
    <3>4. QED
      BY <2>1, <3>2, <3>3 DEF LastInv
  <2>4. QED
    BY <2>2, <2>3
<1>2. CASE UpdateOne
  <2>1. PICK k \in Key : k = <<frame.camera, Head(todo)>>
    BY <1>0, <1>2, UpdateOneFacts
  <2>2. /\ k[1] = frame.camera /\ pc = "update" /\ AssignLogicalId(k)
        /\ Creates(k) \/ Rejects(k) \/ Observes(k)
        /\ lastFrame' = lastFrame /\ frame' = frame /\ k[1] \in Cameras
    BY <1>0, <1>2, <2>1, UpdateOneFacts, KeyFacts
  <2>3. /\ frame.number = lastFrame[k[1]] /\ frame.number \in Nat
        /\ frame.number = lastFrame'[frame'.camera] /\ frame'.number = frame.number
    BY <1>0, <2>2, FrameFacts DEF LastInv
  <2>4. CASE Rejects(k)
    BY <2>2, <2>4 DEF Rejects, LastInv, LastOk
  <2>5. CASE Creates(k) \/ Observes(k)
    <3>1. \A l \in Key : l # k => tracks'[l] = tracks[l]
      BY <1>0, <2>5 DEF Creates, Observes
    <3>2. tracks'[k].last = frame.number /\ frame.number \in tracks'[k].frames
      <4>1. CASE Creates(k)
        <5>1. tracks'[k] = NewTrack(LogicalId(k), k[1]) /\ LogicalId(k) \in Nat \ {0}
          BY <1>0, <2>2, <4>1, AssignFacts DEF Creates
        <5>2. QED
          BY <1>0, <2>2, <5>1, NewTrackFacts
      <4>2. CASE Observes(k)
        <5>1. tracks'[k] = Observed(tracks[k], k[1]) /\ tracks[k] \in Track
          BY <1>0, <4>2, LiveIsTrack DEF Observes
        <5>2. QED
          BY <1>0, <2>2, <5>1, ObservedFacts
      <4>3. QED
        BY <2>5, <4>1, <4>2
    <3>3. LastOk(k)'
      BY <2>2, <2>3, <3>2 DEF LastOk
    <3>4. ASSUME NEW l \in Key, tracks'[l] # NoTrack
          PROVE  LastOk(l)'
      BY <2>2, <3>1, <3>3, <3>4 DEF LastInv, LastOk
    <3>5. QED
      BY <2>3, <3>4 DEF LastInv
  <2>6. QED
    BY <2>2, <2>4, <2>5
<1>3. ASSUME NEW k \in Key, MissOne(k) \/ FlushOne(k)
      PROVE  LastInv'
  <2>1. /\ lastFrame' = lastFrame /\ pc' # "update"
        /\ tracks[k] # NoTrack /\ tracks[k] \in Track
        /\ \/ tracks' = [tracks EXCEPT ![k] = NoTrack]
           \/ tracks' = [tracks EXCEPT ![k] = Missed(tracks[k])]
    BY <1>3, MissOrFlushTrack
  <2>2. /\ Missed(tracks[k]).last = tracks[k].last
        /\ Missed(tracks[k]).frames = tracks[k].frames
    BY <2>1, MissedFacts
  <2>3. /\ \A l \in Key : l # k => tracks'[l] = tracks[l]
        /\ tracks'[k] # NoTrack => /\ tracks'[k].last = tracks[k].last
                                   /\ tracks'[k].frames = tracks[k].frames
    BY <1>0, <2>1, <2>2
  <2>4. QED
    BY <2>1, <2>3, LastKept
<1>4. CASE \/ \E c \in Cameras, n \in 1 .. MaxFrame, natives \in Detections :
                 BeginFrame(c, n, natives)
           \/ AssignOne \/ AssignDone \/ BeginMissing \/ EndFrame \/ Stop \/ FlushDone
  <2>1. UNCHANGED <<tracks, lastFrame>> /\ pc' # "update"
    BY <1>4 DEF BeginFrame, AssignOne, AssignDone, BeginMissing, EndFrame, Stop, FlushDone
  <2>2. QED
    BY <2>1 DEF LastInv, LastOk
<1>5. CASE UNCHANGED vars
  BY <1>5 DEF vars, LastInv, LastOk
<1>6. QED
  BY <1>1, <1>2, <1>3, <1>4, <1>5 DEF Next, Terminated

GoesForward(k) ==
    tracks[k] # NoTrack /\ tracks'[k] # NoTrack /\ tracks'[k].id = tracks[k].id
      => \/ tracks'[k].count = tracks[k].count
         \/ tracks'[k].last > tracks[k].last

LEMMA StepGoesForward ==
    ASSUME TypeInv, LastInv, [Next]_vars, NEW k \in Key
    PROVE  GoesForward(k)
<1>0. TypeOK /\ tracks \in [Key -> Track \cup {NoTrack}]
  BY DEF TypeInv, TypeOK
<1>1. CASE UpdateOne
  <2>1. PICK l \in Key : l = <<frame.camera, Head(todo)>>
    BY <1>0, <1>1, UpdateOneFacts
  <2>2. /\ l[1] = frame.camera /\ pc = "update" /\ l[1] \in Cameras
        /\ Creates(l) \/ Rejects(l) \/ Observes(l)
    BY <1>0, <1>1, <2>1, UpdateOneFacts, KeyFacts
  <2>3. CASE l # k \/ Creates(l) \/ Rejects(l)
    BY <1>0, <2>2, <2>3 DEF GoesForward, Creates, Rejects, Observes
  <2>4. CASE l = k /\ Observes(l)
    <3>1. tracks'[k] = Observed(tracks[k], k[1]) /\ tracks[k] \in Track
      BY <1>0, <2>4, LiveIsTrack DEF Observes
    <3>2. tracks'[k].last = frame.number
      BY <1>0, <2>2, <2>4, <3>1, ObservedFacts
    <3>3. /\ tracks[k].last <= frame.number /\ tracks[k].last \in tracks[k].frames
          /\ frame.number \notin tracks[k].frames
      BY <2>2, <2>4 DEF LastInv, LastOk, Observes
    <3>4. tracks[k].last \in Nat /\ frame.number \in Nat
      BY <1>0, <2>2, <3>1, FrameFacts DEF Track
    <3>5. tracks'[k].last > tracks[k].last
      BY <3>2, <3>3, <3>4
    <3>6. QED
      BY <3>5 DEF GoesForward
  <2>5. QED
    BY <2>2, <2>3, <2>4
<1>2. ASSUME NEW l \in Key, MissOne(l) \/ FlushOne(l)
      PROVE  GoesForward(k)
  <2>1. /\ tracks[l] \in Track
        /\ \/ tracks' = [tracks EXCEPT ![l] = NoTrack]
           \/ tracks' = [tracks EXCEPT ![l] = Missed(tracks[l])]
    BY <1>2, MissOrFlushTrack
  <2>2. Missed(tracks[l]).count = tracks[l].count
    BY <2>1, MissedFacts
  <2>3. QED
    BY <1>0, <2>1, <2>2 DEF GoesForward
<1>3. CASE \/ \E c \in Cameras, n \in 1 .. MaxFrame, natives \in Detections :
                 BeginFrame(c, n, natives)
           \/ AssignOne \/ AssignDone \/ CheckOrder \/ BeginMissing \/ EndFrame
           \/ Stop \/ FlushDone \/ UNCHANGED vars
  <2>1. tracks' = tracks
    BY <1>3 DEF BeginFrame, AssignOne, AssignDone, CheckOrder, BeginMissing, EndFrame,
                Stop, FlushDone, vars
  <2>2. QED
    BY <2>1 DEF GoesForward
<1>4. QED
  BY <1>1, <1>2, <1>3 DEF Next, Terminated

(* An observation that is added to a track is later than those it has.     *)
THEOREM ObservationsAreOrdered == Spec => ObservationsGoForward
<1>1. TypeInv /\ LastInv /\ [Next]_vars =>
        [\A k \in Key :
          tracks[k] # NoTrack /\ tracks'[k] # NoTrack /\ tracks'[k].id = tracks[k].id
            => \/ tracks'[k].count = tracks[k].count
               \/ tracks'[k].last > tracks[k].last]_vars
  BY StepGoesForward DEF GoesForward
<1>2. QED
  BY <1>1, TypeInit, TypeNext, LastInit, LastNext, PTL DEF Spec, ObservationsGoForward

=============================================================================
