---------------------------- MODULE EvidenceProofs ---------------------------
(***************************************************************************)
(* EvidenceCache and CaptureZone for any tracks, scores, places and limits *)
(* and any number of frames: the reference counts and the frames in memory *)
(* follow the candidates, no record misses its frame, the best candidate   *)
(* of a live track is never lost, and the crop files of the capture zone   *)
(* are those of its crops, few and far enough from each other.             *)
(* And what is made of the crops of a track: TrackAttributes, for any      *)
(* crops, labels and answers; PlateOwnership and PlateReading, for any     *)
(* claims, margins, patterns and readings.                                 *)
(***************************************************************************)
EXTENDS EvidenceCache, CaptureZone, TrackAttributes, PlateOwnership, PlateReading,
        DataFacts

(* Two candidates of one track are never of one frame.                     *)
OnePerFrame(cs) == \A c, d \in cs : c.frame = d.frame => c = d

(* What makes the properties inductive.  A pool is bounded, has one        *)
(* candidate for each of its frames and no better one than was offered;    *)
(* candidates are held only while their track is being finalized, when its *)
(* pool is empty; ...                                                      *)
PoolsAreSound ==
    \A t \in EvTracks :
        /\ IsFiniteSet(pool[t]) /\ Cardinality(pool[t]) <= MaxCandidates
        /\ OnePerFrame(pool[t]) /\ OnePerFrame(held[t])
        /\ \A c \in pool[t] : c.score <= offered[t]
        /\ pool[t] # {} => t \in seen /\ t \notin ended
        /\ held[t] # {} => /\ pool[t] = {} /\ t \in ended
                           /\ evPhase \in {"finalize", "release", "failed"}

(* ... the tracks still to be visited are not finalized yet, and the run   *)
(* ends when all are; ...                                                  *)
PhasesAreSound ==
    /\ evPhase = "finalize" => closing \cap ended = {}
    /\ evPhase = "over" => seen = ended

(* ... and at every step the counts are exact and only counted frames are  *)
(* in memory.                                                              *)
Counted == \A f \in EvFrames : refs[f] = Cardinality(Holders(f))
Cached == cache = {f \in EvFrames : refs[f] > 0}

EvInv ==
    /\ EvTypeOK /\ PoolsAreSound /\ PhasesAreSound /\ Counted /\ Cached
    /\ ~ missing /\ BestCandidateSurvives

-----------------------------------------------------------------------------
(* Least elements                                                          *)

(* The weakest candidate exists and is weaker than all others.             *)
LEMMA WeakestIsWeakest ==
    ASSUME NEW cs \in SUBSET Candidate, cs # {}, OnePerFrame(cs), Scores \subseteq Nat
    PROVE  /\ Weakest(cs) \in cs
           /\ \A x \in cs \ {Weakest(cs)} : Weaker(Weakest(cs), x)
<1>0. \A c \in cs : c.score \in Nat /\ c.frame \in Nat
    <2>1. \A c \in Candidate : c.score \in Scores /\ c.frame \in Nat
        BY DEF Candidate, EvFrames
    <2> QED
        BY <2>1
<1> DEFINE S == {c.score : c \in cs}
<1>1. S \in SUBSET Nat /\ S # {}
    BY DEF Candidate
<1>2. PICK m \in S : \A n \in S : m <= n
    <2> HIDE DEF S
    <2> QED
        BY <1>1, LeastNat
<1> DEFINE F == {c.frame : c \in {c \in cs : c.score = m}}
<1>3. F \in SUBSET Nat /\ F # {}
    BY DEF Candidate, EvFrames
<1>4. PICK f \in F : \A g \in F : f <= g
    <2> HIDE DEF F
    <2> QED
        BY <1>3, LeastNat
<1>5. PICK w \in cs : w.score = m /\ w.frame = f
    BY <1>4
<1>6. ASSUME NEW x \in cs \ {w} PROVE Weaker(w, x)
    <2>1. x.score \in Nat /\ w.score \in Nat /\ x.frame \in Nat /\ w.frame \in Nat
        BY <1>0
    <2>2. m <= x.score
        BY <1>2
    <2>3. x.frame # w.frame
        BY DEF OnePerFrame
    <2>4. x.score = m => f <= x.frame
        BY <1>4
    <2> QED
        BY <1>5, <2>1, <2>2, <2>3, <2>4 DEF Weaker
<1>7. \E v \in cs : \A x \in cs \ {v} : Weaker(v, x)
    BY <1>6
<1> HIDE DEF S, F
<1> QED
    BY <1>7 DEF Weakest

(* _select_roles chooses frames of the candidates it is given.             *)
LEMMA SelectedAreOfPool ==
    ASSUME NEW cs \in SUBSET Candidate, cs # {}, Scores \subseteq Nat, LastEvFrame \in Nat,
           NEW top \in Nat, \A c \in cs : c.score <= top
    PROVE  SelectedFrames(cs) \subseteq FramesOf(cs)
<1> DEFINE F == FramesOf(cs)
           first == CHOOSE f \in F : \A g \in F : f <= g
           last  == CHOOSE f \in F : \A g \in F : g <= f
           Off(f) == IF 2 * f >= first + last THEN 2 * f - (first + last)
                     ELSE (first + last) - 2 * f
           middle == CHOOSE f \in F : \A g \in F :
                         Off(f) < Off(g) \/ (Off(f) = Off(g) /\ f <= g)
           best == CHOOSE c \in cs : \A x \in cs :
                         x.score < c.score \/ (x.score = c.score /\ c.frame <= x.frame)
<1>1. SelectedFrames(cs) = {first, middle, last, best.frame}
    BY DEF SelectedFrames
<1>2. F \in SUBSET EvFrames /\ F # {} /\ EvFrames \subseteq Nat
    BY DEF FramesOf, Candidate, EvFrames
<1>3. first \in F
    <2>1. \E f \in F : \A g \in F : f <= g
        <3> HIDE DEF F
        <3> QED
            BY <1>2, LeastNat
    <2> HIDE DEF F
    <2> QED
        BY <2>1
<1>4. last \in F
    <2>1. \E f \in F : \A g \in F : g <= f
        <3>1. \A f \in F : f <= LastEvFrame
            BY <1>2 DEF EvFrames
        <3> HIDE DEF F
        <3> QED
            BY <1>2, <3>1, GreatestNat
    <2> HIDE DEF F
    <2> QED
        BY <2>1
<1>5. middle \in F
    <2>1. first \in Nat /\ last \in Nat /\ F \subseteq Nat /\ F # {}
        BY <1>2, <1>3, <1>4
    <2> HIDE DEF F, first, last
    <2>2. \A f \in F : Off(f) \in Nat
        BY <2>1
    <2> HIDE DEF Off
    <2> DEFINE D == {Off(f) : f \in F}
    <2>3. D \in SUBSET Nat /\ D # {}
        BY <2>1, <2>2
    <2>4. PICK m \in D : \A n \in D : m <= n
        <3> HIDE DEF D
        <3> QED
            BY <2>3, LeastNat
    <2> DEFINE E == {f \in F : Off(f) = m}
    <2>5. E \in SUBSET Nat /\ E # {}
        BY <2>1, <2>4
    <2>6. PICK f \in E : \A g \in E : f <= g
        <3> HIDE DEF E
        <3> QED
            BY <2>5, LeastNat
    <2>7. ASSUME NEW g \in F
          PROVE  Off(f) < Off(g) \/ (Off(f) = Off(g) /\ f <= g)
        <3>1. Off(f) = m /\ m \in Nat /\ Off(g) \in Nat /\ m <= Off(g)
            BY <2>2, <2>4, <2>6
        <3>2. Off(g) = m => f <= g
            BY <2>6
        <3> QED
            BY <3>1, <3>2
    <2>8. \E h \in F : \A g \in F : Off(h) < Off(g) \/ (Off(h) = Off(g) /\ h <= g)
        BY <2>6, <2>7
    <2> HIDE DEF D, E
    <2> QED
        BY <2>8
<1>6. best \in cs
    <2> DEFINE D == {top - c.score : c \in cs}
    <2>1. \A c \in cs : c.score \in Nat /\ c.frame \in Nat
        BY <1>2 DEF Candidate, EvFrames
    <2>2. D \in SUBSET Nat /\ D # {}
        BY <2>1
    <2>3. PICK m \in D : \A n \in D : m <= n
        <3> HIDE DEF D
        <3> QED
            BY <2>2, LeastNat
    <2> DEFINE E == {c.frame : c \in {c \in cs : top - c.score = m}}
    <2>4. E \in SUBSET Nat /\ E # {}
        BY <2>1, <2>3
    <2>5. PICK f \in E : \A g \in E : f <= g
        <3> HIDE DEF E
        <3> QED
            BY <2>4, LeastNat
    <2>6. PICK c \in cs : top - c.score = m /\ c.frame = f
        BY <2>5
    <2>7. ASSUME NEW x \in cs
          PROVE  x.score < c.score \/ (x.score = c.score /\ c.frame <= x.frame)
        <3>1. m <= top - x.score /\ (top - x.score = m => f <= x.frame)
            BY <2>3, <2>5
        <3> QED
            BY <3>1, <2>1, <2>6
    <2>8. \E d \in cs : \A x \in cs :
              x.score < d.score \/ (x.score = d.score /\ d.frame <= x.frame)
        BY <2>7
    <2> HIDE DEF D, E
    <2> QED
        BY <2>8
<1>7. best.frame \in F
    BY <1>6 DEF FramesOf
<1> HIDE DEF F, first, last, middle, best
<1>8. SelectedFrames(cs) \subseteq F
    BY <1>1, <1>3, <1>4, <1>5, <1>7
<1> QED
    BY <1>8 DEF F
-----------------------------------------------------------------------------
(* Counts                                                                  *)

(* The tracks that hold a frame are finitely many.                         *)
LEMMA HoldersFinite ==
    ASSUME NEW f
    PROVE  IsFiniteSet(Holders(f)) /\ Cardinality(Holders(f)) \in Nat
<1>1. Holders(f) \in SUBSET EvTracks
    BY DEF Holders
<1>2. IsFiniteSet(Holders(f))
    BY <1>1, FS_Subset, EvidenceAssumption DEF EvidenceAssumption
<1> QED
    BY <1>2, FS_CardinalityType

(* A frame some candidate is on is counted and in memory.                  *)
LEMMA HeldIsCached ==
    ASSUME EvTypeOK, Counted, Cached, NEW t \in EvTracks, NEW c \in pool[t] \cup held[t]
    PROVE  c.frame \in EvFrames /\ refs[c.frame] > 0 /\ c.frame \in cache
<1>1. c \in Candidate
    BY DEF EvTypeOK
<1>2. c.frame \in EvFrames /\ t \in Holders(c.frame)
    BY <1>1 DEF Candidate, Holders, FramesOf
<1>3. Cardinality(Holders(c.frame)) # 0 /\ Cardinality(Holders(c.frame)) \in Nat
    BY <1>2, HoldersFinite, FS_EmptySet
<1> QED
    BY <1>2, <1>3 DEF Counted, Cached

(* When only the candidates of one track change, only its share of each    *)
(* count does.                                                             *)
LEMMA HoldersChange ==
    ASSUME NEW t \in EvTracks,
           \A s \in EvTracks : s # t => pool'[s] = pool[s] /\ held'[s] = held[s],
           NEW f, NEW g \in BOOLEAN, g <=> f \in FramesOf(pool'[t] \cup held'[t])
    PROVE  Cardinality(Holders(f)') =
               IF g /\ t \notin Holders(f) THEN Cardinality(Holders(f)) + 1
               ELSE IF ~ g /\ t \in Holders(f) THEN Cardinality(Holders(f)) - 1
               ELSE Cardinality(Holders(f))
<1>1. Holders(f)' = IF g THEN Holders(f) \cup {t} ELSE Holders(f) \ {t}
    BY DEF Holders
<1>2. IsFiniteSet(Holders(f))
    BY HoldersFinite
<1>3. g /\ t \in Holders(f) => Holders(f)' = Holders(f)
    BY <1>1
<1>4. ~ g /\ t \notin Holders(f) => Holders(f)' = Holders(f)
    BY <1>1
<1> HIDE DEF Holders
<1> QED
    BY <1>1, <1>2, <1>3, <1>4, FS_AddElement, FS_RemoveElement

(* A candidate that is kept is counted, and those it replaces no longer    *)
(* are.                                                                    *)
LEMMA KeepCounts ==
    ASSUME EvTypeOK, Counted, Cached, NEW t \in EvTracks, NEW c \in Candidate,
           held[t] = {}, OnePerFrame(pool[t]), c.frame \notin FramesOf(pool[t]),
           NEW old \in SUBSET pool[t], Keep(t, c, old), UNCHANGED held
    PROVE  /\ refs' \in [EvFrames -> Nat] /\ cache' \subseteq EvFrames
           /\ Counted' /\ Cached'
           /\ pool' \in [EvTracks -> SUBSET Candidate]
           /\ pool'[t] = (pool[t] \ old) \cup {c}
           /\ \A s \in EvTracks : s # t => pool'[s] = pool[s]
<1>1. /\ pool' \in [EvTracks -> SUBSET Candidate]
      /\ pool'[t] = (pool[t] \ old) \cup {c}
      /\ \A s \in EvTracks : s # t => pool'[s] = pool[s]
      /\ held'[t] = {} /\ \A s \in EvTracks : held'[s] = held[s]
    BY DEF Keep, EvTypeOK
<1>2. c.frame \in EvFrames /\ FramesOf(old) \subseteq FramesOf(pool[t])
    BY DEF Candidate, FramesOf
<1>3. \A f \in EvFrames : refs[f] \in Nat
    BY DEF EvTypeOK
<1>4. \A f \in EvFrames :
         refs'[f] = IF f = c.frame THEN refs[f] + 1
                    ELSE IF f \in FramesOf(old) /\ refs[f] > 0 THEN refs[f] - 1
                    ELSE refs[f]
    BY DEF Keep
<1>5. \A f \in FramesOf(pool[t]) : f \in EvFrames /\ refs[f] > 0
    BY HeldIsCached DEF FramesOf
<1>6. ASSUME NEW f \in EvFrames
      PROVE  refs'[f] = Cardinality(Holders(f)')
    <2>1. f \in FramesOf(pool'[t] \cup held'[t]) <=>
              f = c.frame \/ (f \in FramesOf(pool[t]) /\ f \notin FramesOf(old))
        BY <1>1 DEF FramesOf, OnePerFrame
    <2>2. t \in Holders(f) <=> f \in FramesOf(pool[t])
        BY DEF Holders
    <2>3. refs[f] = Cardinality(Holders(f))
        BY DEF Counted
    <2> DEFINE g == f = c.frame \/ (f \in FramesOf(pool[t]) /\ f \notin FramesOf(old))
    <2>4. Cardinality(Holders(f)') =
               IF g /\ t \notin Holders(f) THEN Cardinality(Holders(f)) + 1
               ELSE IF ~ g /\ t \in Holders(f) THEN Cardinality(Holders(f)) - 1
               ELSE Cardinality(Holders(f))
        <3>1. g \in BOOLEAN /\ (g <=> f \in FramesOf(pool'[t] \cup held'[t]))
            BY <2>1
        <3> HIDE DEF g
        <3> QED
            BY <1>1, <3>1, HoldersChange
    <2>5. CASE f = c.frame
        BY <2>2, <2>3, <2>4, <2>5, <1>4
    <2>6. CASE f # c.frame /\ f \in FramesOf(old)
        BY <2>2, <2>3, <2>4, <2>6, <1>2, <1>4, <1>5
    <2>7. CASE f # c.frame /\ f \notin FramesOf(old)
        BY <2>2, <2>3, <2>4, <2>7, <1>4
    <2> QED
        BY <2>5, <2>6, <2>7
<1>7. refs' \in [EvFrames -> Nat]
    <2>1. \A f \in EvFrames : refs'[f] \in Nat
        BY <1>3, <1>4
    <2> QED
        BY <2>1 DEF Keep
<1>8. cache' = {f \in EvFrames : refs'[f] > 0}
    <2>1. cache' = (cache \ {f \in FramesOf(old) : refs[f] <= 1}) \cup {c.frame}
        BY DEF Keep
    <2>2. ASSUME NEW f \in EvFrames
          PROVE  f \in cache' <=> refs'[f] > 0
        BY <2>1, <1>2, <1>3, <1>4, <1>5 DEF Cached
    <2>3. cache' \subseteq EvFrames
        BY <2>1, <1>2 DEF EvTypeOK
    <2> QED
        BY <2>2, <2>3
<1> QED
    BY <1>1, <1>6, <1>7, <1>8 DEF Counted, Cached
-----------------------------------------------------------------------------
(* Steps                                                                   *)

(* The initial states satisfy the invariant.                               *)
LEMMA EvInitInv == EvInit => EvInv
<1> SUFFICES ASSUME EvInit PROVE EvInv
    OBVIOUS
<1>1. EvTypeOK
    <2>1. /\ pool \in [EvTracks -> SUBSET Candidate]
          /\ held \in [EvTracks -> SUBSET Candidate]
          /\ offered \in [EvTracks -> Nat]
        BY DEF EvInit
    <2>2. refs \in [EvFrames -> Nat] /\ cache \subseteq EvFrames
        BY DEF EvInit
    <2>3. now \in 0..LastEvFrame /\ left \in Nat
        BY EvidenceAssumption DEF EvInit, EvidenceAssumption
    <2> QED
        BY <2>1, <2>2, <2>3 DEF EvInit, EvTypeOK
<1>2. PoolsAreSound
    BY FS_EmptySet, EvidenceAssumption
    DEF EvInit, PoolsAreSound, OnePerFrame, EvidenceAssumption
<1>3. Counted /\ Cached
    <2>1. \A f \in EvFrames : Holders(f) = {} /\ refs[f] = 0
        BY DEF EvInit, Holders, FramesOf
    <2> QED
        BY <2>1, FS_EmptySet DEF EvInit, Counted, Cached
<1>4. PhasesAreSound /\ ~ missing /\ BestCandidateSurvives
    BY DEF EvInit, PhasesAreSound, BestCandidateSurvives
<1> QED
    BY <1>1, <1>2, <1>3, <1>4 DEF EvInv

(* A candidate that _retain_candidate keeps: it replaces nothing, or one   *)
(* that is no better; it is the best of its track, or the best one stays.  *)
LEMMA EvKept ==
    ASSUME EvInv, evPhase = "register", NEW t \in EvTracks \ ended, NEW c \in Candidate,
           NEW old \in SUBSET pool[t], Keep(t, c, old),
           c.frame \notin FramesOf(pool[t]),
           \A x \in old : x.score <= c.score,
           IsFiniteSet((pool[t] \ old) \cup {c}),
           Cardinality((pool[t] \ old) \cup {c}) <= MaxCandidates,
           seen' = seen \cup {t}, left' \in Nat, copied' \in BOOLEAN,
           offered' = [offered EXCEPT ![t] = IF c.score > @ THEN c.score ELSE @],
           UNCHANGED <<held, evPhase, now, ended, closing, missing>>
    PROVE  EvInv'
<1>0. EvTypeOK /\ PoolsAreSound /\ PhasesAreSound /\ Counted /\ Cached /\ ~ missing
      /\ BestCandidateSurvives
    BY DEF EvInv
<1>1. held[t] = {} /\ OnePerFrame(pool[t])
    BY <1>0 DEF PoolsAreSound
<1>2. /\ refs' \in [EvFrames -> Nat] /\ cache' \subseteq EvFrames
      /\ Counted' /\ Cached'
      /\ pool' \in [EvTracks -> SUBSET Candidate]
      /\ pool'[t] = (pool[t] \ old) \cup {c}
      /\ \A s \in EvTracks : s # t => pool'[s] = pool[s]
    BY <1>0, <1>1, KeepCounts
<1>3. c.score \in Nat \ {0} /\ \A x \in pool[t] : x.score \in Nat /\ x \in Candidate
    <2>1. \A x \in Candidate : x.score \in Nat \ {0}
        BY EvidenceAssumption DEF EvidenceAssumption, Candidate
    <2> QED
        BY <2>1, <1>0 DEF EvTypeOK
<1>4. /\ offered' \in [EvTracks -> Nat]
      /\ offered[t] \in Nat
      /\ offered'[t] = IF c.score > offered[t] THEN c.score ELSE offered[t]
      /\ \A s \in EvTracks : s # t => offered'[s] = offered[s]
    BY <1>0, <1>3 DEF EvTypeOK
<1>5. EvTypeOK'
    BY <1>0, <1>2, <1>4 DEF EvTypeOK
<1>6. PoolsAreSound'
    <2>1. OnePerFrame(pool'[t])
        BY <1>1, <1>2 DEF OnePerFrame, FramesOf
    <2>2. \A x \in pool'[t] : x.score <= offered'[t]
        BY <1>0, <1>2, <1>3, <1>4 DEF PoolsAreSound
    <2>3. IsFiniteSet(pool'[t]) /\ Cardinality(pool'[t]) <= MaxCandidates
        BY <1>2
    <2>4. ASSUME NEW s \in EvTracks
          PROVE  /\ IsFiniteSet(pool'[s]) /\ Cardinality(pool'[s]) <= MaxCandidates
                 /\ OnePerFrame(pool'[s]) /\ OnePerFrame(held'[s])
                 /\ \A x \in pool'[s] : x.score <= offered'[s]
                 /\ pool'[s] # {} => s \in seen' /\ s \notin ended'
                 /\ held'[s] # {} => /\ pool'[s] = {} /\ s \in ended'
                                     /\ evPhase' \in {"finalize", "release", "failed"}
        <3>1. CASE s = t
            BY <3>1, <2>1, <2>2, <2>3, <1>0, <1>1 DEF PoolsAreSound
        <3>2. CASE s # t
            BY <3>2, <1>0, <1>2, <1>4 DEF PoolsAreSound
        <3> QED
            BY <3>1, <3>2
    <2> QED
        BY <2>4 DEF PoolsAreSound
<1>7. PhasesAreSound' /\ ~ missing'
    BY <1>0 DEF PhasesAreSound
<1>8. BestCandidateSurvives'
    <2>1. \E x \in pool'[t] : x.score = offered'[t]
        <3>1. CASE c.score >= offered[t]
            BY <3>1, <1>2, <1>3, <1>4
        <3>2. CASE c.score < offered[t]
            <4>1. PICK x \in pool[t] : x.score = offered[t]
                BY <3>2, <1>0, <1>3, <1>4 DEF BestCandidateSurvives
            <4>2. x \notin old
                BY <4>1, <3>2, <1>3, <1>4
            <4> QED
                BY <4>1, <4>2, <3>2, <1>2, <1>3, <1>4
        <3> QED
            BY <3>1, <3>2, <1>3, <1>4
    <2>2. ASSUME NEW s \in EvTracks \ ended, s # t, offered'[s] > 0
          PROVE  \E x \in pool'[s] : x.score = offered'[s]
        BY <2>2, <1>0, <1>2, <1>4 DEF BestCandidateSurvives
    <2> QED
        BY <2>1, <2>2 DEF BestCandidateSurvives
<1> QED
    BY <1>2, <1>5, <1>6, <1>7, <1>8 DEF EvInv

(* Steps that leave the candidates and the counts alone, but for the frame *)
(* of the call in the cache.                                               *)
LEMMA EvStays ==
    ASSUME EvInv, UNCHANGED <<pool, held, refs, missing>>,
           cache' = cache, EvTypeOK', PhasesAreSound',
           \A t \in EvTracks : held[t] # {} => evPhase' \in {"finalize", "release", "failed"},
           seen \subseteq seen', ended' = ended, offered' = offered
    PROVE  EvInv'
<1>1. PoolsAreSound'
    BY DEF EvInv, PoolsAreSound
<1>2. Counted' /\ Cached'
    BY DEF EvInv, Counted, Cached, Holders
<1>3. BestCandidateSurvives'
    BY DEF EvInv, BestCandidateSurvives
<1> QED
    BY <1>1, <1>2, <1>3 DEF EvInv

(* A candidate that is not kept: a track's best one is at least as good.   *)
LEMMA EvRejected ==
    ASSUME EvInv, evPhase = "register", NEW t \in EvTracks \ ended, NEW c \in Candidate,
           c.frame = now, Reject(now), \E x \in pool[t] : c.score <= x.score,
           seen' = seen \cup {t}, left' \in Nat, copied' \in BOOLEAN,
           offered' = [offered EXCEPT ![t] = IF c.score > @ THEN c.score ELSE @],
           UNCHANGED <<held, evPhase, now, ended, closing, missing>>
    PROVE  EvInv'
<1>0. EvTypeOK /\ PoolsAreSound /\ PhasesAreSound /\ Cached
    BY DEF EvInv
<1>1. \A x \in Candidate : x.score \in Nat
    BY EvidenceAssumption DEF EvidenceAssumption, Candidate
<1>2. PICK x \in pool[t] : c.score <= x.score
    OBVIOUS
<1>3. x \in Candidate /\ x.score <= offered[t] /\ offered[t] \in Nat
    BY <1>0 DEF PoolsAreSound, EvTypeOK
<1>4. offered' = offered
    <2>1. ~ (c.score > offered[t])
        BY <1>1, <1>2, <1>3
    <2> QED
        BY <2>1, <1>0 DEF EvTypeOK
<1>5. now \in EvFrames /\ refs[now] \in Nat
    BY <1>0 DEF EvTypeOK
<1>6. cache' = cache
    BY <1>0, <1>5 DEF Reject, Cached
<1>7. EvTypeOK' /\ PhasesAreSound'
    BY <1>0, <1>4, <1>6 DEF Reject, EvTypeOK, PhasesAreSound
<1>8. \A s \in EvTracks : held[s] # {} => evPhase' \in {"finalize", "release", "failed"}
    BY <1>0 DEF PoolsAreSound
<1> QED
    BY <1>4, <1>6, <1>7, <1>8, EvStays DEF Reject

(* _retain_candidate of a candidate on a frame its track has none of.      *)
LEMMA EvRetained ==
    ASSUME EvInv, evPhase = "register", NEW t \in EvTracks \ ended, NEW c \in Candidate,
           c.frame = now, now \notin FramesOf(pool[t]), Retain(t, c),
           seen' = seen \cup {t}, left' \in Nat, copied' \in BOOLEAN,
           offered' = [offered EXCEPT ![t] = IF c.score > @ THEN c.score ELSE @],
           UNCHANGED <<held, evPhase, now, ended, closing, missing>>
    PROVE  EvInv'
<1>1. /\ \A x \in Candidate : x.score \in Nat
      /\ pool[t] \subseteq Candidate /\ IsFiniteSet(pool[t])
      /\ Cardinality(pool[t]) <= MaxCandidates /\ Cardinality(pool[t]) \in Nat
      /\ MaxCandidates \in Nat \ {0}
    <2>1. \A x \in Candidate : x.score \in Nat
        BY EvidenceAssumption DEF EvidenceAssumption, Candidate
    <2>2. IsFiniteSet(pool[t]) /\ Cardinality(pool[t]) <= MaxCandidates
        BY DEF EvInv, PoolsAreSound
    <2> QED
        BY <2>1, <2>2, EvidenceAssumption, FS_CardinalityType
             DEF EvInv, EvTypeOK, EvidenceAssumption
<1>2. c \notin pool[t]
    BY DEF FramesOf
<1>3. ASSUME NEW x \in pool[t]
      PROVE  /\ IsFiniteSet((pool[t] \ {x}) \cup {c})
             /\ Cardinality((pool[t] \ {x}) \cup {c}) <= MaxCandidates
    <2>1. /\ IsFiniteSet(pool[t] \ {x})
          /\ Cardinality(pool[t] \ {x}) = Cardinality(pool[t]) - 1
        BY <1>1, FS_RemoveElement
    <2>2. c \notin pool[t] \ {x}
        BY <1>2
    <2>3. /\ IsFiniteSet((pool[t] \ {x}) \cup {c})
          /\ Cardinality((pool[t] \ {x}) \cup {c}) = Cardinality(pool[t] \ {x}) + 1
        BY <2>1, <2>2, FS_AddElement
    <2> QED
        BY <1>1, <2>1, <2>3
<1>4. CASE SimilarTo(t, c) # {}
    <2>1. PICK x \in SimilarTo(t, c) :
              IF c.score > x.score THEN Keep(t, c, {x}) ELSE Reject(c.frame)
        BY <1>4 DEF Retain
    <2>2. x \in pool[t]
        BY DEF SimilarTo
    <2>3. CASE c.score > x.score
        <3>1. Keep(t, c, {x}) /\ {x} \in SUBSET pool[t] /\ \A y \in {x} : y.score <= c.score
            BY <2>1, <2>2, <2>3, <1>1
        <3> QED
            BY <3>1, <2>2, <1>3, EvKept
    <2>4. CASE ~ (c.score > x.score)
        <3>1. Reject(now) /\ \E y \in pool[t] : c.score <= y.score
            BY <2>1, <2>2, <2>4, <1>1
        <3> QED
            BY <3>1, EvRejected
    <2> QED
        BY <2>3, <2>4
<1>5. CASE SimilarTo(t, c) = {} /\ Cardinality(pool[t]) < MaxCandidates
    <2>1. Keep(t, c, {}) /\ {} \in SUBSET pool[t]
        BY <1>5 DEF Retain
    <2>2. (pool[t] \ {}) \cup {c} = pool[t] \cup {c}
        OBVIOUS
    <2>3. /\ IsFiniteSet(pool[t] \cup {c})
          /\ Cardinality(pool[t] \cup {c}) = Cardinality(pool[t]) + 1
        BY <1>1, <1>2, FS_AddElement
    <2>4. Cardinality(pool[t] \cup {c}) <= MaxCandidates
        BY <1>1, <1>5, <2>3
    <2> QED
        BY <2>1, <2>2, <2>3, <2>4, EvKept
<1>6. CASE SimilarTo(t, c) = {} /\ ~ (Cardinality(pool[t]) < MaxCandidates)
    <2> DEFINE w == Weakest(pool[t] \cup {c})
    <2>1. IF w = c THEN Reject(c.frame) ELSE Keep(t, c, {w})
        BY <1>6 DEF Retain
    <2>2. OnePerFrame(pool[t] \cup {c})
        BY DEF EvInv, PoolsAreSound, OnePerFrame, FramesOf
    <2>3. /\ w \in pool[t] \cup {c}
          /\ \A x \in (pool[t] \cup {c}) \ {w} : Weaker(w, x)
        <3>1. pool[t] \cup {c} \in SUBSET Candidate /\ pool[t] \cup {c} # {}
              /\ Scores \subseteq Nat
            BY <1>1, EvidenceAssumption DEF EvidenceAssumption
        <3> QED
            BY <3>1, <2>2, WeakestIsWeakest
    <2> HIDE DEF w
    <2>4. CASE w = c
        <3>1. pool[t] # {}
            BY <1>1, <1>6, FS_EmptySet
        <3>2. PICK x \in pool[t] : TRUE
            BY <3>1
        <3>3. Weaker(c, x)
            BY <2>3, <2>4, <3>2, <1>2
        <3>4. c.score <= x.score
            BY <3>3, <3>2, <1>1 DEF Weaker
        <3> QED
            BY <2>1, <2>4, <3>2, <3>4, EvRejected
    <2>5. CASE w # c
        <3>1. w \in pool[t] /\ Keep(t, c, {w}) /\ Weaker(w, c)
            BY <2>1, <2>3, <2>5
        <3>2. w.score <= c.score
            BY <3>1, <1>1 DEF Weaker
        <3> QED
            BY <3>1, <3>2, <1>3, EvKept
    <2> QED
        BY <2>4, <2>5
<1> QED
    BY <1>4, <1>5, <1>6

(* register_frame of a detection, valid or not.                            *)
LEMMA EvDetection ==
    ASSUME EvInv, InvalidDetection \/ ValidDetection
    PROVE  EvInv'
<1>0. EvTypeOK /\ PoolsAreSound /\ PhasesAreSound /\ Counted /\ Cached
    BY DEF EvInv
<1>1. CASE InvalidDetection
    <2>1. EvTypeOK' /\ PhasesAreSound'
        BY <1>0, <1>1 DEF InvalidDetection, EvTypeOK, PhasesAreSound
    <2>2. \A s \in EvTracks : held[s] # {} => evPhase' \in {"finalize", "release", "failed"}
        BY <1>0, <1>1 DEF PoolsAreSound, InvalidDetection
    <2> QED
        BY <1>1, <2>1, <2>2, EvStays DEF InvalidDetection
<1>2. CASE ValidDetection
    <2>1. PICK t \in EvTracks \ ended, s \in Scores, p \in Places :
              OfferCandidate(t, [frame |-> now, score |-> s, place |-> p])
        BY <1>2 DEF ValidDetection
    <2> DEFINE c == [frame |-> now, score |-> s, place |-> p]
    <2>2. evPhase = "register" /\ left > 0 /\ now \in EvFrames
        BY <1>0, <1>2 DEF ValidDetection, EvTypeOK
    <2>3. c \in Candidate /\ c.frame = now /\ OfferCandidate(t, c)
        BY <2>1, <2>2 DEF Candidate
    <2> HIDE DEF c
    <2>4. /\ seen' = seen \cup {t} /\ left' \in Nat /\ copied' \in BOOLEAN
          /\ UNCHANGED <<held, evPhase, now, ended, closing, missing>>
        BY <2>2, <2>3, <1>0 DEF OfferCandidate, EvTypeOK
    <2>5. CASE now \in FramesOf(pool[t])
        <3>1. UNCHANGED <<pool, refs, offered>>
              /\ cache' = IF copied THEN cache ELSE cache \cup {now}
            BY <2>3, <2>5 DEF OfferCandidate
        <3>2. now \in cache
            BY <2>5, <1>0, HeldIsCached DEF FramesOf
        <3>3. cache' = cache
            BY <3>1, <3>2
        <3>4. EvTypeOK' /\ PhasesAreSound'
            BY <1>0, <2>2, <2>4, <3>1, <3>3 DEF EvTypeOK, PhasesAreSound
        <3>5. \A q \in EvTracks : held[q] # {} => evPhase' \in {"finalize", "release", "failed"}
            BY <1>0, <2>4 DEF PoolsAreSound
        <3> QED
            BY <2>4, <3>1, <3>3, <3>4, <3>5, EvStays
    <2>6. CASE now \notin FramesOf(pool[t])
        <3>1. /\ offered' = [offered EXCEPT ![t] = IF c.score > @ THEN c.score ELSE @]
              /\ Retain(t, c)
            BY <2>3, <2>6 DEF OfferCandidate
        <3> QED
            BY <2>2, <2>3, <2>4, <2>6, <3>1, EvRetained
    <2> QED
        BY <2>5, <2>6
<1> QED
    BY <1>1, <1>2

(* The steps between the loops touch no candidate and no frame.            *)
LEMMA EvQuiet ==
    ASSUME EvInv, NextFrame \/ EndOfFrame \/ BeginFinalize \/ EndOfFinalize \/ EndOfRelease
                  \/ EndOfRun
    PROVE  EvInv'
<1>0. EvTypeOK /\ PoolsAreSound /\ PhasesAreSound
    BY DEF EvInv
<1>1. UNCHANGED <<pool, held, refs, cache, seen, ended, missing, offered>>
    BY DEF NextFrame, EndOfFrame, BeginFinalize, EndOfFinalize, EndOfRelease, EndOfRun
<1>2. EvTypeOK'
    <2>1. CASE NextFrame
        <3>1. now' \in EvFrames /\ now' \in 0..LastEvFrame
            BY <1>0, <2>1, EvidenceAssumption DEF NextFrame, EvTypeOK, EvFrames, EvidenceAssumption
        <3>2. left' \in Nat
            BY <2>1, EvidenceAssumption DEF NextFrame, EvidenceAssumption
        <3> QED
            BY <1>0, <2>1, <3>1, <3>2 DEF NextFrame, EvTypeOK
    <2>2. CASE EndOfFrame \/ EndOfFinalize \/ EndOfRelease \/ EndOfRun
        BY <1>0, <2>2 DEF EvTypeOK, EndOfFrame, EndOfFinalize, EndOfRelease, EndOfRun
    <2>3. CASE BeginFinalize
        <3>1. closing' \subseteq EvTracks
            BY <1>0, <2>3 DEF EvTypeOK, BeginFinalize
        <3> QED
            BY <1>0, <2>3, <3>1 DEF EvTypeOK, BeginFinalize
    <2> QED
        BY <2>1, <2>2, <2>3
<1>3. PhasesAreSound'
    <2>1. CASE NextFrame \/ EndOfFrame \/ EndOfFinalize \/ EndOfRelease
        BY <2>1 DEF PhasesAreSound, NextFrame, EndOfFrame, EndOfFinalize, EndOfRelease
    <2>2. CASE BeginFinalize
        BY <2>2 DEF PhasesAreSound, BeginFinalize
    <2>3. CASE EndOfRun
        BY <2>3 DEF PhasesAreSound, EndOfRun
    <2> QED
        BY <2>1, <2>2, <2>3
<1>4. ASSUME NEW t \in EvTracks, held[t] # {}
      PROVE  evPhase' \in {"finalize", "release", "failed"}
    <2>1. evPhase \in {"finalize", "release", "failed"}
        BY <1>0, <1>4 DEF PoolsAreSound
    <2> QED
        BY <1>4, <2>1
             DEF NextFrame, EndOfFrame, BeginFinalize, EndOfFinalize, EndOfRelease, EndOfRun
<1> QED
    BY <1>1, <1>2, <1>3, <1>4, EvStays

(* A track that is visited hands its candidates over: they are counted as  *)
(* before, and the frames of its records are in memory.                    *)
LEMMA EvFinalized ==
    ASSUME EvInv, NEW t \in EvTracks, NEW completed \in BOOLEAN,
           FinalizeTrack(t, completed) \/ FinalizeRaises(t)
    PROVE  EvInv'
<1>0. EvTypeOK /\ PoolsAreSound /\ PhasesAreSound /\ Counted /\ Cached /\ ~ missing
      /\ BestCandidateSurvives
    BY DEF EvInv
<1>1. /\ evPhase = "finalize" /\ t \in closing
      /\ evPhase' \in {"finalize", "failed"} /\ closing' \subseteq closing
      /\ evPhase' = "finalize" => closing' = closing \ {t}
      /\ ended' = ended \cup {t}
      /\ held' = [held EXCEPT ![t] = pool[t]]
      /\ pool' = [pool EXCEPT ![t] = {}]
      /\ UNCHANGED <<refs, cache, now, left, copied, seen, offered>>
    BY DEF FinalizeTrack, FinalizeRaises
<1>2. t \notin ended /\ held[t] = {}
    BY <1>0, <1>1 DEF PhasesAreSound, PoolsAreSound
<1>3. /\ pool'[t] = {} /\ held'[t] = pool[t]
      /\ \A s \in EvTracks : s # t => pool'[s] = pool[s] /\ held'[s] = held[s]
      /\ pool' \in [EvTracks -> SUBSET Candidate]
      /\ held' \in [EvTracks -> SUBSET Candidate]
    BY <1>0, <1>1 DEF EvTypeOK
<1>4. ~ missing'
    <2>1. ASSUME pool[t] # {} PROVE ~ MissesFrame(pool[t])
        <3>1. SelectedFrames(pool[t]) \subseteq FramesOf(pool[t])
            <4>1. pool[t] \in SUBSET Candidate /\ Scores \subseteq Nat /\ LastEvFrame \in Nat
                  /\ offered[t] \in Nat
                BY <1>0, EvidenceAssumption DEF EvTypeOK, EvidenceAssumption
            <4>2. \A c \in pool[t] : c.score <= offered[t]
                BY <1>0 DEF PoolsAreSound
            <4> QED
                BY <2>1, <4>1, <4>2, SelectedAreOfPool
        <3>2. FramesOf(pool[t]) \subseteq cache
            BY <1>0, HeldIsCached DEF FramesOf
        <3> QED
            BY <3>1, <3>2 DEF MissesFrame
    <2> QED
        BY <2>1, <1>0 DEF FinalizeTrack, FinalizeRaises
<1>5. EvTypeOK'
    <2>1. closing' \subseteq EvTracks /\ ended' \subseteq EvTracks
          /\ evPhase' # "register" /\ missing' \in BOOLEAN
        BY <1>0, <1>1, <1>4 DEF EvTypeOK, FinalizeTrack, FinalizeRaises
    <2> QED
        BY <2>1, <1>0, <1>1, <1>3 DEF EvTypeOK
<1>6. PoolsAreSound'
    <2>1. IsFiniteSet({}) /\ Cardinality({}) <= MaxCandidates
        BY FS_EmptySet, EvidenceAssumption DEF EvidenceAssumption
    <2>2. ASSUME NEW s \in EvTracks
          PROVE  /\ IsFiniteSet(pool'[s]) /\ Cardinality(pool'[s]) <= MaxCandidates
                 /\ OnePerFrame(pool'[s]) /\ OnePerFrame(held'[s])
                 /\ \A c \in pool'[s] : c.score <= offered'[s]
                 /\ pool'[s] # {} => s \in seen' /\ s \notin ended'
                 /\ held'[s] # {} => /\ pool'[s] = {} /\ s \in ended'
                                     /\ evPhase' \in {"finalize", "release", "failed"}
        <3>1. CASE s = t
            <4>1. OnePerFrame({}) /\ OnePerFrame(pool[t])
                BY <1>0 DEF PoolsAreSound, OnePerFrame
            <4> QED
                BY <3>1, <4>1, <2>1, <1>1, <1>3
        <3>2. CASE s # t
            BY <3>2, <1>0, <1>1, <1>3 DEF PoolsAreSound
        <3> QED
            BY <3>1, <3>2
    <2> QED
        BY <2>2 DEF PoolsAreSound
<1>7. PhasesAreSound'
    BY <1>0, <1>1 DEF PhasesAreSound
<1>8. Counted' /\ Cached'
    <2>1. \A s \in EvTracks : pool'[s] \cup held'[s] = pool[s] \cup held[s]
        BY <1>2, <1>3
    <2>2. \A f \in EvFrames : Holders(f)' = Holders(f)
        BY <2>1 DEF Holders
    <2> QED
        BY <2>2, <1>0, <1>1 DEF Counted, Cached
<1>9. BestCandidateSurvives'
    BY <1>0, <1>1, <1>3 DEF BestCandidateSurvives
<1> QED
    BY <1>4, <1>5, <1>6, <1>7, <1>8, <1>9 DEF EvInv

(* Releasing the candidates of a track takes back its share of each count. *)
LEMMA EvReleased ==
    ASSUME EvInv, NEW t \in EvTracks, ReleaseTrack(t)
    PROVE  EvInv'
<1>0. EvTypeOK /\ PoolsAreSound /\ PhasesAreSound /\ Counted /\ Cached /\ ~ missing
      /\ BestCandidateSurvives
    BY DEF EvInv
<1>1. /\ evPhase \in {"release", "failed"} /\ held[t] # {}
      /\ held' = [held EXCEPT ![t] = {}]
      /\ refs' = [f \in EvFrames |-> IF f \in FramesOf(held[t]) /\ refs[f] > 0
                                     THEN refs[f] - 1 ELSE refs[f]]
      /\ cache' = cache \ {f \in FramesOf(held[t]) : refs[f] <= 1}
      /\ UNCHANGED <<pool, evPhase, now, left, copied, seen, ended, closing, missing, offered>>
    BY DEF ReleaseTrack, Released
<1>2. /\ held'[t] = {} /\ pool[t] = {}
      /\ \A s \in EvTracks : s # t => held'[s] = held[s]
      /\ held' \in [EvTracks -> SUBSET Candidate]
    <2>1. pool[t] = {}
        BY <1>0, <1>1 DEF PoolsAreSound
    <2> QED
        BY <2>1, <1>0, <1>1 DEF EvTypeOK
<1>3. \A f \in FramesOf(held[t]) : f \in EvFrames /\ refs[f] > 0
    BY <1>0, HeldIsCached DEF FramesOf
<1>4. \A f \in EvFrames : refs[f] \in Nat
    BY <1>0 DEF EvTypeOK
<1>5. \A f \in EvFrames : refs'[f] \in Nat /\
          refs'[f] = IF f \in FramesOf(held[t]) THEN refs[f] - 1 ELSE refs[f]
    BY <1>1, <1>3, <1>4
<1>6. cache' \subseteq EvFrames /\ Cached'
    <2>1. ASSUME NEW f \in EvFrames PROVE f \in cache' <=> refs'[f] > 0
        BY <1>0, <1>1, <1>3, <1>4, <1>5 DEF Cached
    <2>2. cache' \subseteq EvFrames
        BY <1>0, <1>1 DEF EvTypeOK
    <2> QED
        BY <2>1, <2>2 DEF Cached
<1>7. Counted'
    <2>1. ASSUME NEW f \in EvFrames PROVE refs'[f] = Cardinality(Holders(f)')
        <3>1. t \in Holders(f) <=> f \in FramesOf(held[t])
            BY <1>2 DEF Holders, FramesOf
        <3>2. FALSE <=> f \in FramesOf(pool'[t] \cup held'[t])
            BY <1>1, <1>2 DEF FramesOf
        <3>3. Cardinality(Holders(f)') =
                 IF t \in Holders(f) THEN Cardinality(Holders(f)) - 1
                 ELSE Cardinality(Holders(f))
            <4>1. \A s \in EvTracks : s # t => pool'[s] = pool[s] /\ held'[s] = held[s]
                BY <1>1, <1>2
            <4>2. Cardinality(Holders(f)') =
                     IF FALSE /\ t \notin Holders(f) THEN Cardinality(Holders(f)) + 1
                     ELSE IF ~ FALSE /\ t \in Holders(f) THEN Cardinality(Holders(f)) - 1
                     ELSE Cardinality(Holders(f))
                BY <3>2, <4>1, HoldersChange
            <4> QED
                BY <4>2
        <3> QED
            BY <3>1, <3>3, <1>0, <1>5 DEF Counted
    <2> QED
        BY <2>1 DEF Counted
<1>8. EvTypeOK'
    <2>1. refs' \in [EvFrames -> Nat]
        BY <1>1, <1>5
    <2> QED
        BY <2>1, <1>0, <1>1, <1>2, <1>6 DEF EvTypeOK
<1>9. PoolsAreSound'
    BY <1>0, <1>1, <1>2 DEF PoolsAreSound, OnePerFrame
<1>10. PhasesAreSound' /\ ~ missing' /\ BestCandidateSurvives'
    BY <1>0, <1>1 DEF PhasesAreSound, BestCandidateSurvives
<1> QED
    BY <1>6, <1>7, <1>8, <1>9, <1>10 DEF EvInv

(* Every step keeps the invariant.                                         *)
LEMMA EvStep == EvInv /\ [EvNext]_evVars => EvInv'
<1> SUFFICES ASSUME EvInv, [EvNext]_evVars PROVE EvInv'
    OBVIOUS
<1>1. CASE UNCHANGED evVars
    BY <1>1 DEF evVars, EvInv, EvTypeOK, PoolsAreSound, PhasesAreSound, Counted, Cached,
        Holders, BestCandidateSurvives
<1>2. CASE InvalidDetection \/ ValidDetection
    BY <1>2, EvDetection
<1>3. CASE NextFrame \/ EndOfFrame \/ BeginFinalize \/ EndOfFinalize \/ EndOfRelease \/ EndOfRun
    BY <1>3, EvQuiet
<1>4. ASSUME NEW t \in EvTracks, NEW completed \in BOOLEAN, FinalizeTrack(t, completed)
      PROVE  EvInv'
    BY <1>4, EvFinalized
<1>5. ASSUME NEW t \in EvTracks, FinalizeRaises(t)
      PROVE  EvInv'
    BY <1>5, EvFinalized
<1>6. ASSUME NEW t \in EvTracks, ReleaseTrack(t)
      PROVE  EvInv'
    BY <1>6, EvReleased
<1> QED
    BY <1>1, <1>2, <1>3, <1>4, <1>5, <1>6 DEF EvNext

(* The inductive invariant.                                                *)
THEOREM EvidenceInvariant == EvSpec => []EvInv
<1> QED
    BY EvInitInv, EvStep, PTL DEF EvSpec

(* A frame is counted once for every track with a candidate on it, and     *)
(* between two calls exactly the frames some candidate needs are in memory *)
(* (_retain_candidate, register_frame, _release_candidates).               *)
THEOREM FramesAreAccounted == EvSpec => []CacheFollowsPools
<1>1. EvInv => CacheFollowsPools
    BY DEF EvInv, Counted, Cached, CacheFollowsPools
<1> QED
    BY <1>1, EvidenceInvariant, PTL

(* No record misses its frame, no frame outlives the run, and no pool      *)
(* exceeds its limit (finalize_tracks, flush_camera).                      *)
THEOREM RecordsHaveFrames == EvSpec => []EvidenceHasItsFrames
<1>1. ASSUME EvInv, evPhase = "over" PROVE cache = {}
    <2>1. \A t \in EvTracks : pool[t] = {} /\ held[t] = {}
        BY <1>1 DEF EvInv, PoolsAreSound, PhasesAreSound
    <2>2. \A f \in EvFrames : Holders(f) = {}
        BY <2>1 DEF Holders, FramesOf
    <2>3. \A f \in EvFrames : refs[f] = 0
        BY <2>2, <1>1, FS_EmptySet DEF EvInv, Counted
    <2> QED
        BY <2>3, <1>1 DEF EvInv, Cached
<1>2. EvInv => EvidenceHasItsFrames
    BY <1>1 DEF EvInv, PoolsAreSound, EvidenceHasItsFrames
<1> QED
    BY <1>2, EvidenceInvariant, PTL

(* A live track always keeps a candidate with the best score it was ever   *)
(* offered (_retain_candidate, _find_duplicate_candidate).                 *)
THEOREM BestIsNeverLost == EvSpec => []BestCandidateSurvives
<1>1. EvInv => BestCandidateSurvives
    BY DEF EvInv
<1> QED
    BY <1>1, EvidenceInvariant, PTL

-----------------------------------------------------------------------------
(* CaptureZone                                                             *)

(* What makes the two properties inductive.  The crops of a track are of   *)
(* different frames it was observed in, none later than its last capture,  *)
(* and what was once kept of it, or could not be removed, is of a frame it *)
(* has already been seen in.                                               *)
CropsAreSound ==
    \A t \in ZoneTracks :
        /\ IsFiniteSet(crops[t])
        /\ crops[t] # {} => /\ zone[t] # NoZone
                            /\ zone[t].lastCapture <= zone[t].lastSeen
        /\ zone[t].lastSeen <= zoneFrame
        /\ \A c \in crops[t] : 1 <= c.frame /\ c.frame <= zone[t].lastCapture
        /\ \A c, d \in crops[t] : c.frame = d.frame => c = d

HistoriesAreSound ==
    \A t \in ZoneTracks : t \notin zoneDone =>
        /\ \A x \in taken[t] : x.frame <= zone[t].lastSeen
        /\ \A f \in Nat : <<t, f>> \in leftovers => f <= zone[t].lastSeen

(* Records are written when a track is finalized, which is the last that   *)
(* happens to it.                                                          *)
RecordsAreSound == \A r \in records : r[1] \in zoneDone /\ zone[r[1]] = NoZone

ZoneInv ==
    /\ ZoneTypeOK /\ CropsAreSound /\ HistoriesAreSound /\ RecordsAreSound
    /\ CropFilesMatch /\ CropsAreSpaced

-----------------------------------------------------------------------------
(* Steps                                                                   *)

(* The evidence follows from the records and the crops.                    *)
LEMMA EvidenceFollows ==
    ASSUME records' = records, crops' = crops
    PROVE  /\ EvidenceFiles' = EvidenceFiles
           /\ \A s \in ZoneTracks : EvidenceFrames(s)' = EvidenceFrames(s)
    BY DEF EvidenceFiles, EvidenceFrames, KeptFiles

(* Nothing but the zone of a track changes, which keeps the frame of its   *)
(* last capture and is seen in this frame.                                 *)
LEMMA ObservationKeeps ==
    ASSUME ZoneInv, NEW t \in ZoneTracks, MayObserve(t), NEW z, z \in ZoneState,
           z.lastSeen = zoneFrame,
           z.lastCapture = (IF zone[t] = NoZone THEN 0 ELSE zone[t].lastCapture),
           zone' = [zone EXCEPT ![t] = z], zoneDone' \in {zoneDone, ZoneTracks},
           UNCHANGED <<crops, cropFiles, taken, leftovers, records, verdict, zoneFrame>>
    PROVE  ZoneInv'
<1>1. /\ zone' \in [ZoneTracks -> ZoneState \cup {NoZone}]
      /\ zone'[t] = z /\ \A s \in ZoneTracks : s # t => zone'[s] = zone[s]
      /\ z # NoZone /\ zoneFrame \in Nat /\ z.lastCapture \in Nat
    BY CaptureAssumption DEF ZoneInv, ZoneTypeOK, ZoneState, NoZone, CaptureAssumption
<1>2. ZoneTypeOK'
    BY <1>1 DEF ZoneInv, ZoneTypeOK
<1>3. zone[t].lastSeen < zoneFrame /\ zone[t].lastSeen \in Nat
    BY DEF MayObserve, ZoneInv, ZoneTypeOK, ZoneState, NoZone
<1>4. CropsAreSound'
    <2> SUFFICES ASSUME NEW s \in ZoneTracks
                 PROVE  /\ crops'[s] # {} => /\ zone'[s] # NoZone
                                             /\ zone'[s].lastCapture <= zone'[s].lastSeen
                        /\ zone'[s].lastSeen <= zoneFrame'
                        /\ \A c \in crops'[s] : 1 <= c.frame /\ c.frame <= zone'[s].lastCapture
        BY DEF CropsAreSound, ZoneInv
    <2>1. CASE s # t
        BY <1>1, <2>1 DEF CropsAreSound, ZoneInv
    <2>2. CASE s = t
        <3>1. crops[t] # {} => /\ zone[t] # NoZone /\ zone[t].lastCapture <= zone[t].lastSeen
            BY DEF CropsAreSound, ZoneInv
        <3>2. zone[t] # NoZone => zone[t].lastCapture \in Nat /\ zone[t].lastSeen \in Nat
            BY DEF ZoneInv, ZoneTypeOK, ZoneState
        <3>3. \A c \in crops[t] : 1 <= c.frame /\ c.frame <= zone[t].lastCapture
            BY DEF CropsAreSound, ZoneInv
        <3> QED
            BY <1>1, <1>3, <2>2, <3>1, <3>2, <3>3
    <2> QED
        BY <2>1, <2>2
<1>5. HistoriesAreSound'
    <2> SUFFICES ASSUME NEW s \in ZoneTracks, s \notin zoneDone'
                 PROVE  /\ \A x \in taken[s] : x.frame <= zone'[s].lastSeen
                        /\ \A f \in Nat : <<s, f>> \in leftovers => f <= zone'[s].lastSeen
        BY DEF HistoriesAreSound
    <2>1. s \notin zoneDone
        BY DEF ZoneInv, ZoneTypeOK
    <2>2. \A x \in taken[s] : x.frame \in Nat
        BY DEF ZoneInv, ZoneTypeOK
    <2>3. /\ \A x \in taken[s] : x.frame <= zone[s].lastSeen
          /\ \A f \in Nat : <<s, f>> \in leftovers => f <= zone[s].lastSeen
        BY <2>1 DEF HistoriesAreSound, ZoneInv
    <2>4. CASE s # t
        BY <1>1, <2>3, <2>4
    <2>5. CASE s = t
        BY <1>1, <1>3, <2>2, <2>3, <2>5
    <2> QED
        BY <2>4, <2>5
<1>6. RecordsAreSound'
    <2>1. zoneDone \subseteq zoneDone' /\ t \notin zoneDone
        BY DEF ZoneInv, ZoneTypeOK, MayObserve
    <2>2. \A r \in records : r[1] \in ZoneTracks /\ r[1] # t
        BY <2>1 DEF RecordsAreSound, ZoneInv, ZoneTypeOK
    <2> QED
        BY <1>1, <2>1, <2>2 DEF RecordsAreSound, ZoneInv
<1>7. CropFilesMatch' /\ CropsAreSpaced'
    <2>1. /\ EvidenceFiles' = EvidenceFiles
          /\ \A s \in ZoneTracks : EvidenceFrames(s)' = EvidenceFrames(s)
        BY EvidenceFollows
    <2> QED
        BY <2>1 DEF CropFilesMatch, CropsAreSpaced, ZoneInv
<1> QED
    BY <1>2, <1>4, <1>5, <1>6, <1>7 DEF ZoneInv

(* What the running state of a track is after an observation.              *)
LEMMA ObservedFacts ==
    ASSUME ZoneInv, NEW t \in ZoneTracks, NEW y \in Heights, NEW p \in CaptureProfiles
    PROVE  /\ Observed(t, y, p) \in ZoneState
           /\ Observed(t, y, p).lastSeen = zoneFrame
           /\ Observed(t, y, p).lastCapture =
                  (IF zone[t] = NoZone THEN 0 ELSE zone[t].lastCapture)
<1>1. zoneFrame \in Nat /\ Inside(y, p) \in BOOLEAN /\ p.top \in Nat
    BY CaptureAssumption DEF ZoneInv, ZoneTypeOK, CaptureAssumption, Inside, Profile
<1>2. CASE zone[t] = NoZone
    BY <1>1, <1>2 DEF Observed, ZoneState
<1>3. CASE zone[t] # NoZone
    <2>1. zone[t] \in ZoneState
        BY <1>3 DEF ZoneInv, ZoneTypeOK
    <2>2. Observed(t, y, p) =
            [count |-> zone[t].count + 1, top |-> p.top,
             highest |-> IF y >= zone[t].highest THEN y ELSE zone[t].highest,
             entered |-> zone[t].entered \/ Inside(y, p),
             lastSeen |-> zoneFrame, lastCapture |-> zone[t].lastCapture,
             attempts |-> zone[t].attempts]
        BY <1>3, <2>1 DEF Observed, ZoneState
    <2> QED
        BY <1>1, <1>3, <2>1, <2>2 DEF ZoneState
<1> QED
    BY <1>2, <1>3

(* Of crops of different frames more than the limit one is released, the   *)
(* last in the order, and no other.                                        *)
LEMMA OneIsLetGo ==
    ASSUME NEW cs \in SUBSET Crop, IsFiniteSet(cs), NEW limit \in Nat,
           \A c, d \in cs : c.frame = d.frame => c = d
    PROVE  \/ Cardinality(cs) <= limit /\ LetGo(cs, limit) = {}
           \/ /\ Cardinality(cs) > limit
              /\ \E w \in cs : LetGo(cs, limit) = {w}
<1>1. /\ \A c \in cs : c.score \in Nat /\ c.frame \in Nat
      /\ Cardinality(cs) \in Nat
    BY CaptureAssumption, FS_CardinalityType DEF Crop, CaptureAssumption
<1>2. CASE Cardinality(cs) <= limit
    BY <1>1, <1>2 DEF LetGo
<1>3. CASE Cardinality(cs) > limit
    <2> DEFINE R == {p \in cs \X cs : Better(p[2], p[1])}
    <2>1. /\ \A x \in cs : <<x, x>> \notin R
          /\ \A x, y \in cs : <<x, y>> \in R <=> Better(y, x)
        BY <1>1 DEF Better
    <2>2. \A x, y, z \in cs : <<x, y>> \in R /\ <<y, z>> \in R => <<x, z>> \in R
        BY <1>1 DEF Better
    <2>3. cs # {}
        BY <1>1, <1>3, FS_EmptySet
    <2> HIDE DEF R
    <2>4. PICK w \in cs : \A y \in cs : <<y, w>> \notin R
        BY <2>1, <2>2, <2>3, MinimalElement, Zenon
    <2>5. ASSUME NEW y \in cs \ {w} PROVE Better(y, w) /\ ~ Better(w, y)
        <3>1. ~ Better(w, y) /\ y.frame # w.frame
            BY <2>1, <2>4
        <3>2. /\ y.frame \in Nat /\ w.frame \in Nat
              /\ y.score \in Nat /\ w.score \in Nat
            BY <1>1
        <3> QED
            BY <3>1, <3>2 DEF Better
    <2>6. w \in LetGo(cs, limit)
        BY <1>3, <2>5 DEF LetGo
    <2>7. \A x \in LetGo(cs, limit) : x = w
        BY <2>5 DEF LetGo
    <2> QED
        BY <1>3, <2>6, <2>7
<1> QED
    BY <1>1, <1>2, <1>3

(* The frames of the crops of a track, and how many there are.             *)
FramesOfCrops(cs) == {c.frame : c \in cs}

LEMMA FramesAreFew ==
    ASSUME NEW cs, IsFiniteSet(cs)
    PROVE  /\ IsFiniteSet(FramesOfCrops(cs)) /\ Cardinality(FramesOfCrops(cs)) \in Nat
           /\ Cardinality(FramesOfCrops(cs)) <= Cardinality(cs)
<1> DEFINE g == [c \in cs |-> c.frame]
           frames == FramesOfCrops(cs)
<1>1. /\ \A c \in cs : g[c] \in frames
      /\ \A f \in frames : \E c \in cs : g[c] = f
    BY DEF FramesOfCrops
<1> HIDE DEF g, frames
<1>2. /\ IsFiniteSet(frames)
      /\ Cardinality(frames) \in Nat /\ Cardinality(cs) \in Nat
      /\ Cardinality(frames) <= Cardinality(cs)
    BY <1>1, FewValues, Zenon
<1> QED
    BY <1>2 DEF frames

(* The frames of the evidence of a track that is not finalized are those   *)
(* of its crops.                                                           *)
LEMMA FramesAlive ==
    ASSUME ZoneTypeOK, CropsAreSound, NEW t \in ZoneTracks,
           \A f \in Nat : <<t, f>> \notin records
    PROVE  EvidenceFrames(t) = FramesOfCrops(crops[t])
<1>1. \A c \in crops[t] : c.frame \in Nat /\ c.frame \in 1..LastZoneFrame
    <2> TAKE c \in crops[t]
    <2>1. zone[t] # NoZone /\ zone[t] \in ZoneState /\ c \in Crop
        BY DEF ZoneTypeOK, CropsAreSound
    <2>2. /\ c.frame \in Nat /\ zone[t].lastCapture \in Nat /\ zone[t].lastSeen \in Nat
          /\ zoneFrame \in Nat /\ zoneFrame <= LastZoneFrame /\ LastZoneFrame \in Nat
        BY <2>1, CaptureAssumption DEF ZoneTypeOK, CaptureAssumption, Crop, ZoneState
    <2>3. /\ 1 <= c.frame /\ c.frame <= zone[t].lastCapture
          /\ zone[t].lastCapture <= zone[t].lastSeen /\ zone[t].lastSeen <= zoneFrame
        BY DEF CropsAreSound
    <2> QED
        BY <2>2, <2>3
<1>2. \A f \in Nat : <<t, f>> \in EvidenceFiles <=> \E c \in crops[t] : f = c.frame
    BY DEF EvidenceFiles, KeptFiles
<1>3. \A f : f \in EvidenceFrames(t) <=> f \in 1..LastZoneFrame /\ <<t, f>> \in EvidenceFiles
    BY DEF EvidenceFrames
<1>4. 1..LastZoneFrame \subseteq Nat
    BY CaptureAssumption DEF CaptureAssumption
<1> QED
    BY <1>1, <1>2, <1>3, <1>4 DEF FramesOfCrops

(* A crop is written and kept, or written and let go, or another one is    *)
(* let go for it; the file of the one let go is removed or left over.      *)
LEMMA CaptureKeeps ==
    ASSUME ZoneInv, NEW t \in ZoneTracks, NEW y \in Heights, NEW p \in CaptureProfiles,
           NEW score \in CropScores, NEW removed \in BOOLEAN,
           CaptureCrop(t, y, p, score, removed)
    PROVE  ZoneInv'
<1> DEFINE z == Observed(t, y, p)
           c == [frame |-> zoneFrame, score |-> score]
           x0 == [frame |-> zoneFrame, profile |-> p]
           all == crops[t] \cup {c}
           out == LetGo(all, p.saved)
           gone == {<<t, x.frame>> : x \in out}
           z2 == [z EXCEPT !.attempts = @ + 1,
                           !.lastCapture = IF c \in out THEN @ ELSE zoneFrame]
<1>1. /\ MayObserve(t) /\ MayCapture(z, p)
      /\ crops' = [crops EXCEPT ![t] = all \ out]
      /\ cropFiles' = (cropFiles \cup {<<t, zoneFrame>>}) \ (IF removed THEN gone ELSE {})
      /\ leftovers' = leftovers \cup (IF removed THEN {} ELSE gone)
      /\ zone' = [zone EXCEPT ![t] = z2]
      /\ taken' = [taken EXCEPT ![t] = IF c \in out THEN @ ELSE @ \cup {x0}]
      /\ UNCHANGED <<records, verdict, zoneFrame, zoneDone>>
    BY DEF CaptureCrop, SaveCrop
<1>2. /\ z \in ZoneState /\ z.lastSeen = zoneFrame
      /\ z.lastCapture = (IF zone[t] = NoZone THEN 0 ELSE zone[t].lastCapture)
    BY ObservedFacts
<1> HIDE DEF z
<1>3. /\ zoneFrame \in Nat /\ zoneFrame > 0 /\ zoneFrame \in 1..LastZoneFrame
      /\ LastZoneFrame \in Nat /\ p.gap \in Nat /\ p.saved \in Nat /\ p.saved # 0
    BY <1>1, CaptureAssumption DEF ZoneInv, ZoneTypeOK, MayObserve, CaptureAssumption, Profile
<1>4. /\ z2 \in ZoneState /\ z2.lastSeen = zoneFrame
      /\ z2.lastCapture = IF c \in out THEN z.lastCapture ELSE zoneFrame
    <2>1. PICK last : last = IF c \in out THEN z.lastCapture ELSE zoneFrame
        OBVIOUS
    <2> HIDE DEF c, out
    <2>2. z2 = [count |-> z.count, top |-> z.top, highest |-> z.highest,
                entered |-> z.entered, lastSeen |-> z.lastSeen,
                lastCapture |-> last, attempts |-> z.attempts + 1]
        <3>1. z2 = [z EXCEPT !.attempts = z.attempts + 1, !.lastCapture = last]
            BY <2>1
        <3> HIDE DEF z2
        <3> QED
            BY <1>2, <3>1 DEF ZoneState
    <2>3. last \in Nat
        BY <1>2, <1>3, <2>1 DEF ZoneState
    <2> HIDE DEF z2
    <2> QED
        BY <1>2, <1>3, <2>1, <2>2, <2>3 DEF ZoneState
<1> HIDE DEF z2
<1>5. \A d \in crops[t] : /\ d \in Crop /\ d.frame \in Nat /\ 1 <= d.frame
                          /\ zone[t] # NoZone /\ d.frame <= z.lastCapture
    BY <1>2 DEF ZoneInv, ZoneTypeOK, CropsAreSound, Crop
<1>6. zone[t] # NoZone => zone[t].lastCapture \in Nat /\ zone[t].lastSeen \in Nat
    BY DEF ZoneInv, ZoneTypeOK, ZoneState
<1>7. /\ z.lastCapture \in Nat /\ (crops[t] # {} => z.lastCapture < zoneFrame)
      /\ zone[t].lastSeen < zoneFrame /\ zone[t].lastSeen \in Nat /\ t \notin zoneDone
    <2>1. zone[t].lastSeen < zoneFrame /\ zone[t].lastSeen \in Nat /\ t \notin zoneDone
        BY <1>1 DEF MayObserve, ZoneInv, ZoneTypeOK, ZoneState, NoZone
    <2>2. crops[t] # {} => zone[t] # NoZone /\ zone[t].lastCapture <= zone[t].lastSeen
        BY DEF ZoneInv, CropsAreSound
    <2> QED
        BY <1>2, <1>3, <1>6, <2>1, <2>2
<1>8. \A d \in crops[t] : d.frame < zoneFrame /\ zoneFrame - d.frame >= p.gap
    <2> TAKE d \in crops[t]
    <2>1. d.frame \in Nat /\ 1 <= d.frame /\ d.frame <= z.lastCapture
        BY <1>5
    <2>2. z.lastCapture < zoneFrame
        BY <1>7
    <2>3. z.lastCapture = 0 \/ zoneFrame - z.lastCapture >= p.gap
        BY <1>1 DEF MayCapture
    <2> QED
        BY <1>3, <1>7, <2>1, <2>2, <2>3
<1>9. c \in Crop /\ c.frame = zoneFrame /\ x0.frame = zoneFrame /\ x0.profile = p
    BY <1>3 DEF Crop
<1> HIDE DEF c, x0
<1>10. \A d, e \in all : d.frame = e.frame => d = e
    <2>1. \A d, e \in crops[t] : d.frame = e.frame => d = e
        BY DEF ZoneInv, CropsAreSound
    <2> QED
        BY <1>3, <1>5, <1>8, <1>9, <2>1
<1>11. /\ all \in SUBSET Crop /\ IsFiniteSet(all)
       /\ IsFiniteSet(crops[t])
    <2>1. IsFiniteSet(crops[t])
        BY DEF ZoneInv, CropsAreSound
    <2>2. IsFiniteSet(all)
        BY <2>1, FS_AddElement
    <2> QED
        BY <1>5, <1>9, <2>1, <2>2
<1>12. \/ Cardinality(all) <= p.saved /\ out = {}
       \/ Cardinality(all) > p.saved /\ \E w \in all : out = {w}
    <2> HIDE DEF all
    <2> QED
        BY <1>3, <1>10, <1>11, OneIsLetGo
<1>13. out \subseteq all
    BY <1>12
<1> HIDE DEF out
<1>14. /\ crops' \in [ZoneTracks -> SUBSET Crop] /\ crops'[t] = all \ out
       /\ \A s \in ZoneTracks : s # t => crops'[s] = crops[s]
       /\ zone' \in [ZoneTracks -> ZoneState \cup {NoZone}] /\ zone'[t] = z2
       /\ \A s \in ZoneTracks : s # t => zone'[s] = zone[s]
       /\ z2 # NoZone /\ z2.lastCapture \in Nat
    BY <1>1, <1>3, <1>4, <1>7, <1>11 DEF ZoneInv, ZoneTypeOK, ZoneState, NoZone
<1>15. /\ taken' \in [ZoneTracks -> SUBSET [frame : Nat, profile : CaptureProfiles]]
       /\ taken'[t] = IF c \in out THEN taken[t] ELSE taken[t] \cup {x0}
       /\ \A s \in ZoneTracks : s # t => taken'[s] = taken[s]
    <2>1. x0 \in [frame : Nat, profile : CaptureProfiles]
        BY <1>3 DEF x0
    <2> QED
        BY <1>1, <2>1 DEF ZoneInv, ZoneTypeOK
<1>16. gone \subseteq {t} \X Nat /\ \A q \in gone : \E w \in all : w \in out /\ q = <<t, w.frame>>
    BY <1>5, <1>9, <1>13, <1>3
<1>17. ZoneTypeOK'
    <2>1. leftovers' \subseteq ZoneTracks \X Nat /\ cropFiles' \subseteq ZoneTracks \X Nat
        BY <1>1, <1>3, <1>16 DEF ZoneInv, ZoneTypeOK
    <2> QED
        BY <1>1, <1>3, <1>14, <1>15, <2>1 DEF ZoneInv, ZoneTypeOK
<1>18. CropsAreSound'
    <2> SUFFICES ASSUME NEW s \in ZoneTracks
                 PROVE  /\ IsFiniteSet(crops'[s])
                        /\ crops'[s] # {} => /\ zone'[s] # NoZone
                                             /\ zone'[s].lastCapture <= zone'[s].lastSeen
                        /\ zone'[s].lastSeen <= zoneFrame'
                        /\ \A d \in crops'[s] : 1 <= d.frame /\ d.frame <= zone'[s].lastCapture
                        /\ \A d, e \in crops'[s] : d.frame = e.frame => d = e
        BY DEF CropsAreSound
    <2>1. CASE s # t
        BY <1>1, <1>14, <2>1 DEF CropsAreSound, ZoneInv
    <2>2. CASE s = t
        <3>1. crops'[t] # {} => zone'[t].lastCapture <= zoneFrame
            <4>1. CASE c \in out
                <5>1. crops'[t] # {} => crops[t] # {}
                    BY <1>14, <4>1
                <5> QED
                    BY <1>3, <1>4, <1>7, <1>14, <4>1, <5>1
            <4> QED
                BY <1>3, <1>4, <1>14, <4>1
        <3>2. \A d \in crops'[t] : 1 <= d.frame /\ d.frame <= z2.lastCapture
            <4>1. CASE c \in out
                BY <1>4, <1>5, <1>14, <4>1
            <4>2. CASE c \notin out
                BY <1>3, <1>4, <1>5, <1>8, <1>9, <1>14, <4>2
            <4> QED
                BY <4>1, <4>2
        <3>3. IsFiniteSet(crops'[t])
            BY <1>11, <1>14, FS_Subset
        <3> QED
            BY <1>1, <1>3, <1>4, <1>10, <1>14, <2>2, <3>1, <3>2, <3>3
    <2> QED
        BY <2>1, <2>2
<1>19. HistoriesAreSound'
    <2> SUFFICES ASSUME NEW s \in ZoneTracks, s \notin zoneDone'
                 PROVE  /\ \A x \in taken'[s] : x.frame <= zone'[s].lastSeen
                        /\ \A f \in Nat : <<s, f>> \in leftovers' => f <= zone'[s].lastSeen
        BY DEF HistoriesAreSound
    <2>1. /\ \A x \in taken[s] : x.frame <= zone[s].lastSeen /\ x.frame \in Nat
          /\ \A f \in Nat : <<s, f>> \in leftovers => f <= zone[s].lastSeen
        BY <1>1 DEF HistoriesAreSound, ZoneInv, ZoneTypeOK
    <2>2. CASE s # t
        <3>1. \A f \in Nat : <<s, f>> \in leftovers' => <<s, f>> \in leftovers
            BY <1>1, <1>16, <2>2
        <3> QED
            BY <1>14, <1>15, <2>1, <2>2, <3>1
    <2>3. CASE s = t
        <3>1. \A w \in all : w.frame \in Nat /\ w.frame <= zoneFrame
            BY <1>3, <1>5, <1>8, <1>9
        <3>2. \A f \in Nat : <<t, f>> \in leftovers' => <<t, f>> \in leftovers \/ f <= zoneFrame
            BY <1>1, <1>16, <3>1
        <3> QED
            BY <1>3, <1>4, <1>7, <1>9, <1>14, <1>15, <2>1, <2>3, <3>2
    <2> QED
        BY <2>2, <2>3
<1>20. \A f \in Nat : <<t, f>> \notin records
    BY <1>7 DEF RecordsAreSound, ZoneInv
<1>21. RecordsAreSound'
    <2>1. \A r \in records : r[1] \in ZoneTracks /\ r[1] # t
        BY <1>7 DEF RecordsAreSound, ZoneInv, ZoneTypeOK
    <2> QED
        BY <1>1, <1>14, <2>1 DEF RecordsAreSound, ZoneInv
<1>22. EvidenceFiles' = (EvidenceFiles \cup {<<t, zoneFrame>>}) \ gone
    <2>1. \A q : q \in EvidenceFiles <=>
             q \in records \/ \E s \in ZoneTracks : \E d \in crops[s] : q = <<s, d.frame>>
        BY DEF EvidenceFiles, KeptFiles
    <2>2. \A q : q \in EvidenceFiles' <=>
             q \in records \/ \E s \in ZoneTracks : \E d \in crops'[s] : q = <<s, d.frame>>
        BY <1>1 DEF EvidenceFiles, KeptFiles
    <2>3. \A q : q \in gone => q \notin EvidenceFiles'
        <3> TAKE q
        <3> HAVE q \in gone
        <3>1. PICK w \in all : w \in out /\ q = <<t, w.frame>>
            BY <1>16
        <3>2. q \notin records
            BY <1>5, <1>9, <1>3, <1>20, <3>1
        <3>3. \A d \in crops'[t] : d.frame # w.frame
            BY <1>10, <1>14, <3>1
        <3> QED
            BY <2>2, <3>1, <3>2, <3>3
    <2>4. \A q : q \in EvidenceFiles' => q \in EvidenceFiles \/ q = <<t, zoneFrame>>
        BY <1>9, <1>14, <2>1, <2>2
    <2>5. \A q : q \in EvidenceFiles \/ q = <<t, zoneFrame>> => q \in gone \/ q \in EvidenceFiles'
        <3> TAKE q
        <3> HAVE q \in EvidenceFiles \/ q = <<t, zoneFrame>>
        <3>1. CASE q \in records
            BY <2>2, <3>1
        <3>2. CASE \E s \in ZoneTracks : s # t /\ \E d \in crops[s] : q = <<s, d.frame>>
            BY <1>14, <2>2, <3>2
        <3>3. CASE \E d \in all : q = <<t, d.frame>>
            BY <1>14, <2>2, <3>3
        <3> QED
            BY <1>9, <2>1, <3>1, <3>2, <3>3
    <2> QED
        BY <2>3, <2>4, <2>5
<1>23. CropFilesMatch'
    <2>1. cropFiles = EvidenceFiles \cup leftovers /\ leftovers \cap EvidenceFiles = {}
        BY DEF ZoneInv, CropFilesMatch
    <2>2. <<t, zoneFrame>> \notin leftovers
        BY <1>3, <1>7 DEF HistoriesAreSound, ZoneInv
    <2>3. gone \subseteq EvidenceFiles \cup {<<t, zoneFrame>>}
        BY <1>9, <1>16 DEF EvidenceFiles, KeptFiles
    <2> HIDE DEF gone
    <2> DEFINE before == EvidenceFiles
               after  == EvidenceFiles'
               mine   == <<t, zoneFrame>>
               lost   == leftovers
               lost2  == leftovers'
               files  == cropFiles
               files2 == cropFiles'
    <2>4. /\ files = before \cup lost /\ lost \cap before = {} /\ mine \notin lost
          /\ gone \subseteq before \cup {mine} /\ after = (before \cup {mine}) \ gone
          /\ files2 = (files \cup {mine}) \ (IF removed THEN gone ELSE {})
          /\ lost2 = lost \cup (IF removed THEN {} ELSE gone)
        BY <1>1, <1>22, <2>1, <2>2, <2>3
    <2> HIDE DEF before, after, mine, lost, lost2, files, files2
    <2>5. files2 = after \cup lost2 /\ lost2 \cap after = {}
        <3>1. CASE removed
            BY <2>4, <3>1
        <3>2. CASE ~ removed
            BY <2>4, <3>2
        <3> QED
            BY <3>1, <3>2
    <2> QED
        BY <2>5 DEF CropFilesMatch, files2, after, lost2
<1>24. \A s \in ZoneTracks : s # t => EvidenceFrames(s)' = EvidenceFrames(s)
    <2> SUFFICES ASSUME NEW s \in ZoneTracks, s # t
                 PROVE  EvidenceFrames(s)' = EvidenceFrames(s)
        OBVIOUS
    <2>1. \A f : <<s, f>> \in EvidenceFiles' <=> <<s, f>> \in EvidenceFiles
        BY <1>16, <1>22
    <2> QED
        BY <2>1 DEF EvidenceFrames
<1>25. /\ EvidenceFrames(t) = FramesOfCrops(crops[t])
       /\ EvidenceFrames(t)' = FramesOfCrops(all \ out)
    <2>1. EvidenceFrames(t) = FramesOfCrops(crops[t])
        BY <1>20, FramesAlive DEF ZoneInv
    <2>2. \A f \in Nat : f <= LastZoneFrame /\ f >= 1 <=> f \in 1..LastZoneFrame
        BY <1>3
    <2>3. \A d \in all : d.frame \in 1..LastZoneFrame
        <3>1. \A d \in crops[t] : d.frame \in EvidenceFrames(t)
            BY <2>1 DEF FramesOfCrops
        <3> QED
            BY <1>3, <1>9, <3>1 DEF EvidenceFrames
    <2>4. \A f \in Nat : <<t, f>> \in EvidenceFiles' <=> \E d \in all \ out : f = d.frame
        BY <1>1, <1>14, <1>20 DEF EvidenceFiles, KeptFiles
    <2>5. \A f : f \in EvidenceFrames(t)' <=> f \in 1..LastZoneFrame /\ <<t, f>> \in EvidenceFiles'
        BY DEF EvidenceFrames
    <2>6. \A f : f \in 1..LastZoneFrame => f \in Nat
        BY <1>3
    <2> QED
        BY <2>1, <2>3, <2>4, <2>5, <2>6 DEF FramesOfCrops
<1>26. \A x \in taken[t] : x.frame \in Nat /\ x.frame < zoneFrame
    <2>1. \A x \in taken[t] : x.frame \in Nat /\ x.frame <= zone[t].lastSeen
        BY <1>7 DEF HistoriesAreSound, ZoneInv, ZoneTypeOK
    <2> QED
        BY <1>3, <1>7, <2>1
<1>27. \A x \in taken'[t], f \in FramesOfCrops(all \ out) :
          x.frame \in FramesOfCrops(all \ out) /\ f < x.frame => x.frame - f >= x.profile.gap
    <2> SUFFICES ASSUME NEW x \in taken'[t], NEW f \in FramesOfCrops(all \ out),
                        x.frame \in FramesOfCrops(all \ out), f < x.frame
                 PROVE  x.frame - f >= x.profile.gap
        OBVIOUS
    <2>1. PICK d \in all \ out : d.frame = f
        BY DEF FramesOfCrops
    <2>2. PICK e \in all \ out : e.frame = x.frame
        BY DEF FramesOfCrops
    <2>3. CASE x \in taken[t]
        <3>1. e \in crops[t] /\ d \in crops[t]
            BY <1>3, <1>9, <1>26, <2>1, <2>2, <2>3
        <3>2. f \in EvidenceFrames(t) /\ x.frame \in EvidenceFrames(t)
            BY <1>25, <2>1, <2>2, <3>1 DEF FramesOfCrops
        <3> QED
            BY <2>3, <3>2 DEF ZoneInv, CropsAreSpaced
    <2>4. CASE x \notin taken[t]
        <3>1. x = x0
            BY <1>15, <2>4
        <3>2. d \in crops[t]
            BY <1>3, <1>9, <2>1, <3>1
        <3> QED
            BY <1>8, <1>9, <2>1, <3>1, <3>2
    <2> QED
        BY <2>3, <2>4
<1>28. FramesOfCrops(all \ out) # {} =>
          \E x \in taken'[t] : Cardinality(FramesOfCrops(all \ out)) <= x.profile.saved
    <2>1. CASE Cardinality(all) <= p.saved /\ out = {}
        <3>1. all \ out = all
            BY <2>1
        <3>2. /\ Cardinality(FramesOfCrops(all)) \in Nat
              /\ Cardinality(FramesOfCrops(all)) <= Cardinality(all)
            BY <1>11, FramesAreFew
        <3>3. Cardinality(all) \in Nat
            BY <1>11, FS_CardinalityType
        <3>4. Cardinality(FramesOfCrops(all)) <= p.saved
            BY <1>3, <2>1, <3>2, <3>3
        <3>5. x0 \in taken'[t]
            BY <1>15, <2>1
        <3> QED
            BY <1>9, <3>1, <3>4, <3>5
    <2>2. CASE Cardinality(all) > p.saved /\ \E w \in all : out = {w}
        <3>1. PICK w \in all : out = {w}
            BY <2>2
        <3> DEFINE F == FramesOfCrops(crops[t])
                   G == FramesOfCrops(all \ out)
        <3>2. G = (F \cup {zoneFrame}) \ {w.frame}
            BY <1>9, <1>10, <3>1 DEF FramesOfCrops
        <3>3. zoneFrame \notin F /\ w.frame \in F \cup {zoneFrame}
            BY <1>5, <1>8, <1>9, <1>3, <3>1 DEF FramesOfCrops
        <3>4. IsFiniteSet(F) /\ Cardinality(F) \in Nat
            BY <1>11, FramesAreFew
        <3>5. F # {}
            <4>1. CASE crops[t] = {}
                <5>1. all = {c} /\ Cardinality({c}) = 1
                    BY <4>1, FS_Singleton
                <5> QED
                    BY <1>3, <2>2, <5>1
            <4> QED
                BY <4>1 DEF FramesOfCrops
        <3>6. PICK x \in taken[t] : Cardinality(F) <= x.profile.saved
            BY <1>25, <3>5 DEF ZoneInv, CropsAreSpaced
        <3>7. x \in taken'[t]
            BY <1>15, <3>6
        <3>8. Cardinality(G) = Cardinality(F)
            <4> HIDE DEF F, G
            <4> DEFINE H == F \cup {zoneFrame}
            <4>1. IsFiniteSet(H) /\ Cardinality(H) = Cardinality(F) + 1
                BY <3>3, <3>4, FS_AddElement
            <4>2. G = H \ {w.frame} /\ w.frame \in H
                BY <3>2, <3>3
            <4> HIDE DEF H
            <4>3. Cardinality(G) = Cardinality(H) - 1
                BY <4>1, <4>2, FS_RemoveElement
            <4> QED
                BY <3>4, <4>1, <4>3
        <3> QED
            BY <3>6, <3>7, <3>8
    <2> QED
        BY <1>12, <2>1, <2>2
<1>29. CropsAreSpaced'
    <2> SUFFICES ASSUME NEW s \in ZoneTracks
                 PROVE  /\ \A x \in taken'[s], f \in EvidenceFrames(s)' :
                              x.frame \in EvidenceFrames(s)' /\ f < x.frame
                              => x.frame - f >= x.profile.gap
                        /\ EvidenceFrames(s)' # {} =>
                              \E x \in taken'[s] :
                                  Cardinality(EvidenceFrames(s)') <= x.profile.saved
        BY DEF CropsAreSpaced
    <2>1. CASE s # t
        BY <1>15, <1>24, <2>1 DEF CropsAreSpaced, ZoneInv
    <2>2. CASE s = t
        BY <1>25, <1>27, <1>28, <2>2
    <2> QED
        BY <2>1, <2>2
<1> QED
    BY <1>17, <1>18, <1>19, <1>21, <1>23, <1>29 DEF ZoneInv

(* The crops of a finalized track become records, with their files.        *)
LEMMA FinalizeKeeps ==
    ASSUME ZoneInv, NEW t \in ZoneTracks, FinalizeZone(t)
    PROVE  ZoneInv'
<1> DEFINE kept == KeptFiles(t)
           recorded == kept \cap cropFiles
<1>1. /\ records' = records \cup recorded
      /\ verdict' = [verdict EXCEPT ![t] = GeometryStatus(zone[t], recorded)]
      /\ zone' = [zone EXCEPT ![t] = NoZone]
      /\ crops' = [crops EXCEPT ![t] = {}]
      /\ zoneDone' = zoneDone \cup {t}
      /\ t \notin zoneDone /\ zone[t] # NoZone
      /\ UNCHANGED <<cropFiles, taken, leftovers, zoneFrame>>
    BY DEF FinalizeZone, KeptFiles
<1>2. recorded = kept
    BY DEF EvidenceFiles, CropFilesMatch, ZoneInv
<1>3. \A q : q \in kept <=> \E c \in crops[t] : q = <<t, c.frame>>
    BY DEF KeptFiles
<1> HIDE DEF recorded, kept
<1>4. kept \subseteq {t} \X Nat
    BY <1>3 DEF ZoneInv, ZoneTypeOK, Crop
<1>5. /\ crops' \in [ZoneTracks -> SUBSET Crop] /\ crops'[t] = {}
      /\ \A s \in ZoneTracks : s # t => crops'[s] = crops[s]
      /\ zone' \in [ZoneTracks -> ZoneState \cup {NoZone}] /\ zone'[t] = NoZone
      /\ \A s \in ZoneTracks : s # t => zone'[s] = zone[s]
      /\ GeometryStatus(zone[t], recorded) \in Verdicts
    BY <1>1 DEF ZoneInv, ZoneTypeOK, GeometryStatus, Verdicts
<1>6. ZoneTypeOK'
    BY <1>1, <1>2, <1>4, <1>5 DEF ZoneInv, ZoneTypeOK
<1>7. CropsAreSound'
    <2> SUFFICES ASSUME NEW s \in ZoneTracks
                 PROVE  /\ IsFiniteSet(crops'[s])
                        /\ crops'[s] # {} => /\ zone'[s] # NoZone
                                             /\ zone'[s].lastCapture <= zone'[s].lastSeen
                        /\ zone'[s].lastSeen <= zoneFrame'
                        /\ \A d \in crops'[s] : 1 <= d.frame /\ d.frame <= zone'[s].lastCapture
                        /\ \A d, e \in crops'[s] : d.frame = e.frame => d = e
        BY DEF CropsAreSound
    <2>1. CASE s # t
        BY <1>1, <1>5, <2>1 DEF CropsAreSound, ZoneInv
    <2>2. CASE s = t
        <3>1. zone'[t].lastSeen <= zoneFrame'
            BY <1>1, <1>5 DEF NoZone, ZoneInv, ZoneTypeOK
        <3> QED
            BY <1>5, <2>2, <3>1, FS_EmptySet
    <2> QED
        BY <2>1, <2>2
<1>8. HistoriesAreSound'
    BY <1>1, <1>5 DEF HistoriesAreSound, ZoneInv
<1>9. RecordsAreSound'
    <2>1. \A r \in records : r[1] \in ZoneTracks /\ r[1] # t
        BY <1>1 DEF RecordsAreSound, ZoneInv, ZoneTypeOK
    <2>2. \A r \in kept : r[1] = t
        BY <1>4
    <2> QED
        BY <1>1, <1>2, <1>5, <2>1, <2>2 DEF RecordsAreSound, ZoneInv
<1>10. EvidenceFiles' = EvidenceFiles
    <2>1. \A q : q \in EvidenceFiles <=>
             q \in records \/ \E s \in ZoneTracks : \E d \in crops[s] : q = <<s, d.frame>>
        BY DEF EvidenceFiles, KeptFiles
    <2>2. \A q : q \in EvidenceFiles' <=>
             q \in records' \/ \E s \in ZoneTracks : \E d \in crops'[s] : q = <<s, d.frame>>
        BY DEF EvidenceFiles, KeptFiles
    <2>3. \A q : q \in EvidenceFiles' => q \in EvidenceFiles
        BY <1>1, <1>2, <1>3, <1>5, <2>1, <2>2
    <2>4. \A q : q \in EvidenceFiles => q \in EvidenceFiles'
        <3> TAKE q
        <3> HAVE q \in EvidenceFiles
        <3>1. CASE q \in records \/ q \in kept
            BY <1>1, <1>2, <2>2, <3>1
        <3>2. CASE \E s \in ZoneTracks : s # t /\ \E d \in crops[s] : q = <<s, d.frame>>
            BY <1>5, <2>2, <3>2
        <3> QED
            BY <1>3, <2>1, <3>1, <3>2
    <2> QED
        BY <2>3, <2>4
<1>11. CropFilesMatch' /\ CropsAreSpaced'
    <2>1. \A s \in ZoneTracks : EvidenceFrames(s)' = EvidenceFrames(s)
        BY <1>10 DEF EvidenceFrames
    <2> QED
        BY <1>1, <1>10, <2>1 DEF CropFilesMatch, CropsAreSpaced, ZoneInv
<1> QED
    BY <1>6, <1>7, <1>8, <1>9, <1>11 DEF ZoneInv

(* Every step keeps it.                                                    *)
LEMMA ZoneStep == ZoneInv /\ [ZoneNext]_zoneVars => ZoneInv'
<1> SUFFICES ASSUME ZoneInv, [ZoneNext]_zoneVars PROVE ZoneInv'
    OBVIOUS
<1>1. CASE UNCHANGED zoneVars
    <2>1. UNCHANGED <<zone, crops, cropFiles, taken, leftovers, records, verdict, zoneFrame,
                      zoneDone>>
        BY <1>1 DEF zoneVars, evidenceVars
    <2>2. /\ EvidenceFiles' = EvidenceFiles
          /\ \A s \in ZoneTracks : EvidenceFrames(s)' = EvidenceFrames(s)
        BY <2>1, EvidenceFollows
    <2>3. ZoneTypeOK' /\ CropsAreSound' /\ HistoriesAreSound' /\ RecordsAreSound'
        BY <2>1 DEF ZoneInv, ZoneTypeOK, CropsAreSound, HistoriesAreSound, RecordsAreSound
    <2> QED
        BY <2>1, <2>2, <2>3 DEF ZoneInv, CropFilesMatch, CropsAreSpaced
<1>2. CASE NextZoneFrame
    <2>1. /\ zoneFrame \in Nat /\ LastZoneFrame \in Nat /\ zoneFrame' = zoneFrame + 1
          /\ zoneFrame' \in 0..LastZoneFrame
          /\ UNCHANGED <<zone, crops, cropFiles, taken, leftovers, records, verdict, zoneDone>>
        BY <1>2, CaptureAssumption
        DEF CaptureAssumption, NextZoneFrame, ZoneInv, ZoneTypeOK, evidenceVars
    <2>2. /\ EvidenceFiles' = EvidenceFiles
          /\ \A s \in ZoneTracks : EvidenceFrames(s)' = EvidenceFrames(s)
        BY <2>1, EvidenceFollows
    <2>3. ZoneTypeOK'
        BY <2>1 DEF ZoneInv, ZoneTypeOK
    <2>4. \A s \in ZoneTracks : zone[s].lastSeen \in Nat
        BY DEF ZoneInv, ZoneTypeOK, ZoneState, NoZone
    <2>5. CropsAreSound'
        BY <2>1, <2>4 DEF CropsAreSound, ZoneInv
    <2>6. HistoriesAreSound' /\ RecordsAreSound'
        BY <2>1 DEF HistoriesAreSound, RecordsAreSound, ZoneInv
    <2>7. CropFilesMatch' /\ CropsAreSpaced'
        BY <2>1, <2>2 DEF CropFilesMatch, CropsAreSpaced, ZoneInv
    <2> QED
        BY <2>3, <2>5, <2>6, <2>7 DEF ZoneInv
<1>3. ASSUME NEW t \in ZoneTracks, NEW y \in Heights, NEW p \in CaptureProfiles,
             PassBy(t, y, p) \/ RejectCrop(t, y, p) \/ WriteRaises(t, y, p)
      PROVE  ZoneInv'
    <2> DEFINE z == Observed(t, y, p)
    <2>1. /\ z \in ZoneState /\ z.lastSeen = zoneFrame
          /\ z.lastCapture = (IF zone[t] = NoZone THEN 0 ELSE zone[t].lastCapture)
        BY ObservedFacts
    <2>2. /\ MayObserve(t) /\ zoneDone' \in {zoneDone, ZoneTracks}
          /\ UNCHANGED <<crops, cropFiles, taken, leftovers, records, verdict, zoneFrame>>
          /\ zone' \in {[zone EXCEPT ![t] = z],
                        [zone EXCEPT ![t] = [z EXCEPT !.attempts = @ + 1]]}
        BY <1>3 DEF PassBy, RejectCrop, WriteRaises, evidenceVars
    <2> HIDE DEF z
    <2>3. PICK z2 \in {z, [z EXCEPT !.attempts = @ + 1]} : zone' = [zone EXCEPT ![t] = z2]
        BY <2>2
    <2>4. [z EXCEPT !.attempts = @ + 1] =
              [count |-> z.count, top |-> z.top, highest |-> z.highest,
               entered |-> z.entered, lastSeen |-> z.lastSeen,
               lastCapture |-> z.lastCapture, attempts |-> z.attempts + 1]
        BY <2>1 DEF ZoneState
    <2>5. /\ z2 \in ZoneState /\ z2.lastSeen = z.lastSeen /\ z2.lastCapture = z.lastCapture
        BY <2>1, <2>3, <2>4 DEF ZoneState
    <2>6. /\ z2.lastSeen = zoneFrame
          /\ z2.lastCapture = (IF zone[t] = NoZone THEN 0 ELSE zone[t].lastCapture)
        BY <2>1, <2>5
    <2> QED
        BY <2>2, <2>3, <2>5, <2>6, ObservationKeeps
<1> QED
    BY <1>1, <1>2, <1>3, CaptureKeeps, FinalizeKeeps DEF ZoneNext

(* The evidence of a track keeps its files, its gaps and its limit         *)
(* (_register_capture_zone_frame, _finalize_capture_zone_track).           *)
LEMMA ZoneInvariant == ZoneSpec => []ZoneInv
<1>1. ZoneInit => ZoneInv
    <2> SUFFICES ASSUME ZoneInit PROVE ZoneInv
        OBVIOUS
    <2>1. LastZoneFrame \in Nat
        BY CaptureAssumption DEF CaptureAssumption
    <2>2. ZoneTypeOK
        BY <2>1 DEF ZoneInit, ZoneTypeOK, Verdicts
    <2>3. CropsAreSound
        BY FS_EmptySet DEF ZoneInit, CropsAreSound, NoZone
    <2>4. HistoriesAreSound /\ RecordsAreSound
        BY DEF ZoneInit, HistoriesAreSound, RecordsAreSound
    <2>5. \A q : q \notin EvidenceFiles
        BY DEF ZoneInit, EvidenceFiles, KeptFiles
    <2>6. CropFilesMatch
        BY <2>5 DEF ZoneInit, CropFilesMatch
    <2>7. CropsAreSpaced
        <3>1. \A t \in ZoneTracks : taken[t] = {} /\ EvidenceFrames(t) = {}
            BY <2>5 DEF ZoneInit, EvidenceFrames
        <3> QED
            BY <3>1 DEF CropsAreSpaced
    <2> QED
        BY <2>2, <2>3, <2>4, <2>6, <2>7 DEF ZoneInv
<1> QED
    BY <1>1, ZoneStep, PTL DEF ZoneSpec

(* No crop of a track has lost its file to another crop's removal, and a   *)
(* file whose removal failed never becomes evidence again                  *)
(* (_retain_capture_zone_candidate, _remove_file_if_exists).               *)
THEOREM CropFilesMatchTheorem == ZoneSpec => []CropFilesMatch
<1>1. ZoneInv => CropFilesMatch
    BY DEF ZoneInv
<1> QED
    BY <1>1, ZoneInvariant, PTL

(* The crops of a track are as few as one of the profiles they were taken  *)
(* under allows, and each comes its profile's gap after the one before,    *)
(* however often the class vote changes (_register_capture_zone_frame,     *)
(* last_capture_frame).                                                    *)
THEOREM CropsAreSpacedTheorem == ZoneSpec => []CropsAreSpaced
<1>1. ZoneInv => CropsAreSpaced
    BY DEF ZoneInv
<1> QED
    BY <1>1, ZoneInvariant, PTL

-----------------------------------------------------------------------------
(* TrackAttributes                                                         *)

(* Keys of one length are ordered from the left, and no two keys tie.      *)
LEMMA LargerFacts ==
    ASSUME NEW k \in Nat, NEW a \in [1 .. k -> Int], NEW b \in [1 .. k -> Int]
    PROVE  /\ ~ Larger(a, a)
           /\ a # b => Larger(a, b) \/ Larger(b, a)
           /\ \A c \in [1 .. k -> Int] : Larger(a, b) /\ Larger(b, c) => Larger(a, c)
<1>1. ~ Larger(a, a)
    <2>1. \A n \in 1 .. k : ~ (a[n] > a[n])
        OBVIOUS
    <2> QED
        BY <2>1 DEF Larger
<1>2. ASSUME a # b
      PROVE  Larger(a, b) \/ Larger(b, a)
    <2> DEFINE D == {n \in 1 .. k : a[n] # b[n]}
    <2>1. D \in SUBSET Nat /\ D # {}
        BY <1>2
    <2>2. PICK m \in D : \A n \in D : m <= n
        <3> HIDE DEF D
        <3> QED
            BY <2>1, LeastNat
    <2>3. m \in 1 .. k /\ a[m] # b[m] /\ a[m] \in Int /\ b[m] \in Int
        OBVIOUS
    <2>4. \A n \in 1 .. (m - 1) : a[n] = b[n]
        <3>1. SUFFICES ASSUME NEW n \in 1 .. (m - 1), a[n] # b[n] PROVE FALSE
            OBVIOUS
        <3>2. n \in D /\ n < m
            BY <2>3, <3>1
        <3> QED
            BY <2>2, <2>3, <3>2
    <2>5. DOMAIN a = 1 .. k /\ DOMAIN b = 1 .. k
        OBVIOUS
    <2>6. a[m] > b[m] \/ b[m] > a[m]
        BY <2>3
    <2> QED
        BY <2>3, <2>4, <2>5, <2>6 DEF Larger
<1>3. ASSUME NEW c \in [1 .. k -> Int], Larger(a, b), Larger(b, c)
      PROVE  Larger(a, c)
    <2>1. DOMAIN a = 1 .. k /\ DOMAIN b = 1 .. k
        OBVIOUS
    <2>2. PICK n \in 1 .. k : a[n] > b[n] /\ \A m \in 1 .. (n - 1) : a[m] = b[m]
        BY <1>3, <2>1 DEF Larger
    <2>3. PICK l \in 1 .. k : b[l] > c[l] /\ \A m \in 1 .. (l - 1) : b[m] = c[m]
        BY <1>3, <2>1 DEF Larger
    <2>4. \A i \in 1 .. k : a[i] \in Int /\ b[i] \in Int /\ c[i] \in Int
        OBVIOUS
    <2>5. PICK i \in 1 .. k : i <= n /\ i <= l /\ (i = n \/ i = l)
        <3> DEFINE Low(i) == i <= n /\ i <= l /\ (i = n \/ i = l)
        <3>1. Low(n) \/ Low(l)
            OBVIOUS
        <3>2. n \in 1 .. k /\ l \in 1 .. k
            OBVIOUS
        <3> HIDE DEF Low
        <3>3. \E i \in 1 .. k : Low(i)
            BY <3>1, <3>2
        <3> QED
            BY <3>3 DEF Low
    <2>6. a[i] > c[i]
        <3>1. CASE i = n /\ i = l
            BY <2>2, <2>3, <2>4, <3>1
        <3>2. CASE i = n /\ i < l
            BY <2>2, <2>3, <2>4, <3>2
        <3>3. CASE i = l /\ i < n
            BY <2>2, <2>3, <2>4, <3>3
        <3> QED
            BY <2>5, <3>1, <3>2, <3>3
    <2>7. \A m \in 1 .. (i - 1) : a[m] = c[m]
        BY <2>2, <2>3, <2>5
    <2> QED
        BY <2>1, <2>6, <2>7 DEF Larger
<1> QED
    BY <1>1, <1>2, <1>3

(* A finite set has an order by its keys and places (the sorts of          *)
(* EnrichmentManager and of VehicleAttributeFlow).                         *)
LEMMA SortedFacts ==
    ASSUME NEW S, IsFiniteSet(S), NEW k \in Nat, NEW key, NEW place,
           \A i \in S : key[i] \in [1 .. k -> Int],
           \A i \in S : place[i] \in Int,
           \A i, j \in S : place[i] = place[j] => i = j
    PROVE  Sorted(S, key, place) \in SetToSeqs(S)
<1> DEFINE before(i, j) == \/ Larger(key[i], key[j])
                           \/ key[i] = key[j] /\ place[i] < place[j]
           R == {p \in S \X S : before(p[1], p[2])}
           n == Cardinality(S)
<1>1. n \in Nat
    BY FS_CardinalityType
<1>2. \A i, j \in S : <<i, j>> \in R <=> before(i, j)
    OBVIOUS
<1> HIDE DEF R
<1>3. \A i \in S : <<i, i>> \notin R
    <2>1. \A i \in S : ~ Larger(key[i], key[i])
        BY LargerFacts
    <2> QED
        BY <1>2, <2>1
<1>4. ASSUME NEW x \in S, NEW y \in S, NEW z \in S, <<x, y>> \in R, <<y, z>> \in R
      PROVE  <<x, z>> \in R
    <2>1. Larger(key[x], key[y]) /\ Larger(key[y], key[z]) => Larger(key[x], key[z])
        <3>1. key[x] \in [1 .. k -> Int] /\ key[y] \in [1 .. k -> Int] /\ key[z] \in [1 .. k -> Int]
            OBVIOUS
        <3> QED
            BY <3>1, LargerFacts
    <2>2. before(x, y) /\ before(y, z)
        BY <1>2, <1>4
    <2>3. before(x, z)
        BY <2>1, <2>2
    <2> QED
        BY <1>2, <2>3
<1>5. ASSUME NEW x \in S, NEW y \in S, x # y
      PROVE  <<x, y>> \in R \/ <<y, x>> \in R
    <2>1. key[x] # key[y] => Larger(key[x], key[y]) \/ Larger(key[y], key[x])
        <3>1. key[x] \in [1 .. k -> Int] /\ key[y] \in [1 .. k -> Int]
            OBVIOUS
        <3> QED
            BY <3>1, LargerFacts
    <2>2. place[x] < place[y] \/ place[y] < place[x]
        BY <1>5
    <2>3. before(x, y) \/ before(y, x)
        BY <2>1, <2>2
    <2> QED
        BY <1>2, <2>3
<1>6. PICK z \in [1 .. n -> S] :
         /\ \A i, j \in 1 .. n : i # j => z[i] # z[j]
         /\ \A i, j \in 1 .. n : i < j => <<z[i], z[j]>> \in R
    <2> HIDE DEF before
    <2> QED
        BY <1>3, <1>4, <1>5, SortingExists
<1> HIDE DEF before
<1>7. z \in SetToSeqs(S) /\ \A i, j \in DOMAIN z : i < j => before(z[i], z[j])
    <2>1. z \in SetToSeqs(S)
        BY <1>6 DEF SetToSeqs
    <2> QED
        BY <1>2, <1>6, <2>1
<1> DEFINE sorted == CHOOSE s \in SetToSeqs(S) : \A i, j \in DOMAIN s : i < j => before(s[i], s[j])
<1>8. sorted \in SetToSeqs(S)
    BY <1>7
<1> QED
    BY <1>8 DEF Sorted, before

(* A listing of a finite set is a sequence of all of it without repeats.   *)
LEMMA ListFacts ==
    ASSUME NEW S, IsFiniteSet(S), NEW s \in SetToSeqs(S)
    PROVE  /\ s \in Seq(S) /\ Len(s) = Cardinality(S) /\ Range(s) = S
           /\ NoRepeats(s)
<1>1. s \in [1 .. Cardinality(S) -> S] /\ \A i, j \in 1 .. Cardinality(S) : i # j => s[i] # s[j]
    BY DEF SetToSeqs
<1>2. Cardinality(S) \in Nat
    BY FS_CardinalityType
<1>3. \A x \in S : \E i \in 1 .. Cardinality(S) : s[i] = x
    BY <1>1, ListingCovers
<1>4. s \in Seq(S) /\ Len(s) = Cardinality(S) /\ DOMAIN s = 1 .. Cardinality(S)
    BY <1>1, <1>2
<1> QED
    BY <1>1, <1>3, <1>4 DEF Range, NoRepeats

(* The crops that are kept are some of the given ones, and in the flow no  *)
(* two of them are less than three frames apart (_select_body_type_items). *)
LEMMA SpacedFacts ==
    ASSUME NEW T, NEW ordered \in Seq(T), \A i \in T : given[i].frame \in Int
    PROVE  /\ Spaced(ordered) \in Seq(T)
           /\ mode # "classifiers" =>
                 \A i, j \in Range(Spaced(ordered)) :
                    i # j => given[i].frame - given[j].frame \notin -2..2
<1> DEFINE N == Len(ordered)
           Distant(k) == mode # "classifiers" =>
                 \A i, j \in Range(k) : i # j => given[i].frame - given[j].frame \notin -2..2
           K == {k \in Seq(T) : Distant(k)}
           Add(kept, i) == IF Len(kept) >= MaxCrops \/ \E j \in Range(kept) : Close(i, j)
                            THEN kept ELSE Append(kept, i)
           step == [p \in K \X (1 .. N) |-> Add(p[1], ordered[p[2]])]
           Body(g) == [n \in 0 .. N |-> IF n = 0 THEN <<>> ELSE Add(g[n - 1], ordered[n])]
           kept == CHOOSE g : g = Body(g)
<1>1. N \in Nat /\ \A n \in 1 .. N : ordered[n] \in T
    OBVIOUS
<1>2. <<>> \in K
    BY DEF Range
<1>3. ASSUME NEW k \in K, NEW i \in T
      PROVE  Add(k, i) \in K
    <2>1. CASE Len(k) >= MaxCrops \/ \E j \in Range(k) : Close(i, j)
        <3> HIDE DEF K
        <3> QED
            BY <2>1
    <2>2. CASE ~ (Len(k) >= MaxCrops \/ \E j \in Range(k) : Close(i, j))
        <3>1. Add(k, i) = Append(k, i) /\ k \in Seq(T) /\ Distant(k)
            BY <2>2
        <3>2. Append(k, i) \in Seq(T)
            BY <3>1
        <3>3. Range(Append(k, i)) = Range(k) \cup {i} /\ Range(k) \subseteq T
            <4>1. Elements(Append(k, i)) = Elements(k) \cup {i}
                BY <3>1, AppendElements
            <4>2. Range(Append(k, i)) = Elements(Append(k, i)) /\ Range(k) = Elements(k)
                BY <3>1, <3>2 DEF Range, Elements
            <4>3. Range(k) \subseteq T
                BY <3>1 DEF Range
            <4> QED
                BY <4>1, <4>2, <4>3
        <3>4. ASSUME mode # "classifiers", NEW x \in Range(k) \cup {i}, NEW y \in Range(k) \cup {i},
                     x # y
              PROVE  given[x].frame - given[y].frame \notin -2..2
            <4>1. given[x].frame \in Int /\ given[y].frame \in Int
                BY <3>3
            <4>2. CASE x \in Range(k) /\ y \in Range(k)
                BY <3>1, <3>4, <4>2
            <4>3. CASE x = i /\ y \in Range(k)
                BY <2>2, <3>4, <4>3 DEF Close
            <4>4. CASE y = i /\ x \in Range(k)
                <5>1. given[y].frame - given[x].frame \notin -2..2
                    BY <2>2, <3>4, <4>4 DEF Close
                <5> QED
                    BY <4>1, <5>1
            <4> QED
                BY <3>4, <4>2, <4>3, <4>4
        <3>5. Distant(Append(k, i))
            BY <3>3, <3>4
        <3> HIDE DEF Add, Distant
        <3> QED
            BY <3>1, <3>2, <3>5
    <2> QED
        BY <2>1, <2>2
<1> HIDE DEF K, Add
<1>4. step \in [K \X (1 .. N) -> K]
    BY <1>1, <1>3
<1>5. PICK h \in [0 .. N -> K] : h[0] = <<>> /\ \A i \in 1 .. N : h[i] = step[<<h[i - 1], i>>]
    <2> HIDE DEF step, N
    <2>1. \E h : Unrolls(h, K, <<>>, N, step)
        BY <1>1, <1>2, <1>4, RecursionExists
    <2> QED
        BY <2>1 DEF Unrolls
<1>6. \A i \in 1 .. N : i # 0 /\ i - 1 \in 0 .. N /\ i \in 0 .. N
    BY <1>1
<1>7. \A k \in K, i \in 1 .. N : step[<<k, i>>] = Add(k, ordered[i])
    OBVIOUS
<1>8. h = Body(h)
    <2>1. \A n \in 0 .. N : n = 0 \/ n \in 1 .. N
        BY <1>1
    <2>2. \A n \in 1 .. N : h[n] = Add(h[n - 1], ordered[n])
        <3> HIDE DEF step, N
        <3> QED
            BY <1>5, <1>6, <1>7
    <2>3. \A n \in 0 .. N : h[n] = Body(h)[n]
        BY <1>5, <2>1, <2>2
    <2> HIDE DEF N
    <2> QED
        BY <1>5, <2>3
<1>9. kept = Body(kept)
    <2> HIDE DEF Body
    <2>1. \E g : g = Body(g)
        BY <1>8
    <2> QED
        BY <2>1
<1> HIDE DEF kept
<1>10. kept[0] = <<>> /\ \A i \in 1 .. N : kept[i] = Add(kept[i - 1], ordered[i])
    <2>1. \A n \in 0 .. N : kept[n] = IF n = 0 THEN <<>> ELSE Add(kept[n - 1], ordered[n])
        BY <1>9
    <2>2. 0 \in 0 .. N
        BY <1>1
    <2> HIDE DEF N
    <2> QED
        BY <1>6, <2>1, <2>2
<1>11. \A i \in 1 .. N : kept[i - 1] \in K => kept[i] = step[<<kept[i - 1], i>>]
    <2> HIDE DEF step, N
    <2> QED
        BY <1>7, <1>10
<1>12. kept[N] \in K
    <2> HIDE DEF step, N
    <2>1. \A i \in 0 .. N : kept[i] \in K
        BY <1>1, <1>2, <1>4, <1>10, <1>11, RecursionIsUnique
    <2>2. N \in 0 .. N
        BY <1>1
    <2> QED
        BY <2>1, <2>2
<1>13. Spaced(ordered) = kept[N]
    BY DEF Spaced, kept, Add
<1> QED
    BY <1>12, <1>13 DEF K

(* What the calls of a track are about, and what they answer.              *)
CallsOf == [attribute : {"colour", "body"}, crop : Evidence]
AnswersOf == [attribute : {"colour", "body"}, crop : Evidence, label : Labels \cup {"unknown", "error"}]

(* The crops that calls for an attribute are about.                        *)
CropsIn(q, attribute) == {q[n].crop : n \in {m \in DOMAIN q : q[m].attribute = attribute}}

(* A crop below the minimum is there only if all are.                      *)
FairlyTaken(i) == given[i].tier = "below" => \A j \in Evidence : ~ LargeEnough(j)

(* Every crop that is or was asked about was taken fairly.                 *)
CropsAreFair(open, answers) ==
    /\ \A n \in DOMAIN open : FairlyTaken(open[n].crop)
    /\ \A n \in DOMAIN answers : FairlyTaken(answers[n].crop)

(* Crops of cars only are asked for a body type, and in the flow of frames *)
(* at least three apart (_select_body_type_items).                         *)
BodyCallsApart(open, answers) ==
    LET bodies == CropsIn(open, "body") \cup CropsIn(answers, "body")
    IN  /\ bodies # {} => vehicle = "CAR"
        /\ mode # "classifiers" =>
              \A i, j \in bodies : i # j => given[i].frame - given[j].frame \notin -2..2

(* With the adaptive strategy a colour ends the colour calls               *)
(* (_adaptive_colour_result).                                              *)
ColoursStop(open, answers) ==
    mode = "adaptive" =>
        \A n \in DOMAIN answers : answers[n].attribute = "colour" /\ answers[n].label \in Labels =>
            /\ \A m \in DOMAIN answers : n < m => answers[m].attribute # "colour"
            /\ \A m \in DOMAIN open : open[m].attribute # "colour"

(* In the flow the calls still to make are those for the colour, one for   *)
(* each crop and none made before, and then those for the body type.       *)
ColourCallsFirst(open, answers) ==
    mode # "classifiers" =>
        /\ \A n, m \in DOMAIN open : n < m /\ open[m].attribute = "colour" =>
              open[n].attribute = "colour"
        /\ \A n, m \in DOMAIN open :
              /\ open[n].attribute = "colour" /\ open[m].attribute = "colour"
              /\ open[n].crop = open[m].crop
              => n = m
        /\ CropsIn(open, "colour") \cap CropsIn(answers, "colour") = {}

(* A row of the flow has no reason, or that its file is missing, exactly   *)
(* if its crop is or was asked for the colour.                             *)
RowsFollow(open, answers, notes) ==
    mode # "classifiers" =>
        \A i \in DOMAIN notes :
            notes[i] \in {"none", "missing_crop"} <=>
                i \in CropsIn(open, "colour") \cup CropsIn(answers, "colour")

(* The calls to make, the answers and the rows of a track: what keeps      *)
(* holding until the last call, and what each answer leaves of it.         *)
CallsCohere(open, answers, notes) ==
    /\ open \in Seq(CallsOf) /\ answers \in Seq(AnswersOf)
    /\ CropsAreFair(open, answers) /\ BodyCallsApart(open, answers) /\ ColoursStop(open, answers)
    /\ ColourCallsFirst(open, answers) /\ RowsFollow(open, answers, notes)

(* The tier and the colour of the result follow from the answers.          *)
ResultIsDerived ==
    Answered =>
        /\ result.tier = "low_resolution" =>
              \E n \in DOMAIN made :
                 made[n].attribute = "colour" /\ given[made[n].crop].tier = "below"
        /\ mode # "adaptive" => result.colour = Decision(Votes("colour"), LeastWeight)

(* What every step of the classification of a track keeps.                 *)
AttrInv ==
    /\ given \in Seq(Crops) /\ attrStage \in {"given", "asking", "done"}
    /\ attrStage = "given" => made = <<>> /\ rowNotes = NoNotes
    /\ attrStage # "asking" => calls = <<>>
    /\ CallsCohere(calls, made, rowNotes)
    /\ ResultIsDerived

(* The evidence is some of the crops of the track.                         *)
LEMMA EvidenceIsGiven ==
    ASSUME given \in Seq(Crops)
    PROVE  /\ Evidence \subseteq 1 .. Len(given) /\ IsFiniteSet(Evidence) /\ Evidence \subseteq Int
           /\ \A i \in Evidence : given[i] \in Crops /\ i # 0
<1>1. Len(given) \in Nat /\ DOMAIN given = 1 .. Len(given)
    OBVIOUS
<1>2. Evidence \subseteq 1 .. Len(given)
    BY <1>1 DEF Evidence, Adapted
<1>3. IsFiniteSet(1 .. Len(given))
    BY <1>1, FS_Interval
<1>4. IsFiniteSet(Evidence)
    BY <1>2, <1>3, FS_Subset
<1> QED
    BY <1>1, <1>2, <1>4

(* The keys that crops are sorted by are numbers.                          *)
LEMMA KeysAreNumbers ==
    ASSUME NEW i, given[i] \in Crops, i \in Int
    PROVE  /\ Rank(i) \in [1 .. 5 -> Int]
           /\ <<Bool(given[i].size = "preferred"), given[i].quality,
                Bool(given[i].source = "zone")>> \in [1 .. 3 -> Int]
           /\ <<Bool(given[i].tier = "preferred"), given[i].quality>> \in [1 .. 2 -> Int]
           /\ given[i].frame \in Int /\ given[i].quality \in Nat
<1>1. given[i].frame \in Int /\ given[i].quality \in Nat
    BY DEF Crops
<1>2. \A b : Bool(b) \in Int
    BY DEF Bool
<1>3. (IF Penalized(i) THEN 20 ELSE 0) \in Int
    OBVIOUS
<1>4. (CASE given[i].tier = "preferred" -> 12 [] given[i].tier = "acceptable" -> 5
         [] OTHER -> -25) \in Int
    OBVIOUS
<1>5. Score(i) \in Int
    BY <1>1, <1>3, <1>4 DEF Score
<1>6. Rank(i) \in [1 .. 5 -> Int]
    BY <1>1, <1>2, <1>5 DEF Rank
<1>7. <<Bool(given[i].size = "preferred"), given[i].quality,
                Bool(given[i].source = "zone")>> \in [1 .. 3 -> Int]
    BY <1>1, <1>2
<1>8. <<Bool(given[i].tier = "preferred"), given[i].quality>> \in [1 .. 2 -> Int]
    BY <1>1, <1>2
<1> QED
    BY <1>1, <1>6, <1>7, <1>8

(* The first few of a sequence are some of its elements, as often.         *)
LEMMA FirstFew ==
    ASSUME NEW T, NEW s \in Seq(T), NEW k \in Nat \ {0}
    PROVE  /\ SubSeq(s, 1, Min({k, Len(s)})) \in Seq(T)
           /\ Range(SubSeq(s, 1, Min({k, Len(s)}))) \subseteq Range(s)
           /\ NoRepeats(s) => NoRepeats(SubSeq(s, 1, Min({k, Len(s)})))
<1> DEFINE m == Min({k, Len(s)})
           p == SubSeq(s, 1, m)
<1>1. m \in Nat /\ m <= Len(s)
    <2>1. \E x \in {k, Len(s)} : \A y \in {k, Len(s)} : x <= y
        OBVIOUS
    <2>2. m \in {k, Len(s)} /\ \A y \in {k, Len(s)} : m <= y
        BY <2>1 DEF Min
    <2> QED
        BY <2>2
<1> HIDE DEF m
<1>2. p \in Seq(T) /\ Len(p) = m /\ \A n \in 1 .. m : p[n] = s[n]
    BY <1>1
<1>3. DOMAIN p = 1 .. m /\ DOMAIN s = 1 .. Len(s) /\ \A n \in 1 .. m : n \in DOMAIN s
    BY <1>1, <1>2
<1> HIDE DEF p
<1>4. Range(p) \subseteq Range(s)
    BY <1>2, <1>3 DEF Range
<1>5. ASSUME NoRepeats(s)
      PROVE  NoRepeats(p)
    BY <1>2, <1>3, <1>5 DEF NoRepeats
<1> QED
    BY <1>2, <1>4, <1>5 DEF p, m

(* The selected crops are evidence, each once, and one is too small only   *)
(* if all of the evidence is (_select_best_evidence).                      *)
LEMMA SelectedFacts ==
    ASSUME given \in Seq(Crops)
    PROVE  /\ SelectedCrops(Evidence) \in Seq(Evidence) /\ NoRepeats(SelectedCrops(Evidence))
           /\ \A i \in Range(SelectedCrops(Evidence)) : FairlyTaken(i)
<1> DEFINE E == Evidence
           large == {i \in E : LargeEnough(i)}
           eligible == IF large # {} THEN large ELSE {i \in E : Readable(i)}
           key == [i \in E |-> Rank(i)]
           place == [i \in E |-> i]
           ranked == Sorted(eligible, key, place)
<1>1. /\ E \subseteq Int /\ IsFiniteSet(E) /\ eligible \subseteq E
      /\ \A i \in E : given[i] \in Crops
    BY EvidenceIsGiven
<1>2. IsFiniteSet(eligible)
    BY <1>1, FS_Subset
<1>3. \A i \in eligible : key[i] \in [1 .. 5 -> Int] /\ place[i] = i /\ i \in Int
    BY <1>1, KeysAreNumbers
<1>4. \A i \in eligible : FairlyTaken(i)
    <2>1. CASE large = {}
        BY <2>1 DEF FairlyTaken
    <2>2. CASE large # {}
        <3>1. \A i \in eligible : given[i].tier # "below"
            BY <2>2 DEF LargeEnough
        <3> QED
            BY <3>1 DEF FairlyTaken
    <2> QED
        BY <2>1, <2>2
<1>5. ranked \in SetToSeqs(eligible)
    <2> HIDE DEF eligible, key, place
    <2>1. /\ \A i \in eligible : key[i] \in [1 .. 5 -> Int] /\ place[i] \in Int
          /\ \A i, j \in eligible : place[i] = place[j] => i = j
        BY <1>3
    <2> QED
        BY <1>2, <2>1, SortedFacts
<1>6. ranked \in Seq(eligible) /\ NoRepeats(ranked) /\ Range(ranked) = eligible
    <2> HIDE DEF eligible, ranked
    <2> QED
        BY <1>2, <1>5, ListFacts
<1> DEFINE items == SubSeq(ranked, 1, Min({BestCrops, Len(ranked)}))
<1>7. SelectedCrops(E) = items
    BY DEF SelectedCrops
<1>8. ranked \in Seq(E)
    BY <1>1, <1>6
<1>9. items \in Seq(E) /\ Range(items) \subseteq eligible /\ NoRepeats(items)
    <2>1. BestCrops \in Nat \ {0}
        BY AttributeAssumption
    <2> HIDE DEF ranked, eligible
    <2> QED
        BY <1>6, <1>8, <2>1, FirstFew
<1> HIDE DEF items, eligible
<1> QED
    BY <1>4, <1>7, <1>9

(* The crops that are asked about, sorted by a key and by their place.     *)
LEMMA SortedByPlace ==
    ASSUME given \in Seq(Crops), NEW items \in Seq(Evidence), NEW S \in SUBSET Range(items),
           NEW k \in Nat, NEW key, \A i \in S : key[i] \in [1 .. k -> Int]
    PROVE  /\ Spaced(Sorted(S, key, PlaceIn(items))) \in Seq(S)
           /\ mode # "classifiers" =>
                 \A i, j \in Range(Spaced(Sorted(S, key, PlaceIn(items)))) :
                    i # j => given[i].frame - given[j].frame \notin -2..2
<1>1. Range(items) \subseteq Evidence
    BY DEF Range
<1>2. IsFiniteSet(S) /\ \A i \in S : given[i].frame \in Int
    <2>1. IsFiniteSet(S)
        BY <1>1, EvidenceIsGiven, FS_Subset
    <2>2. \A i \in S : given[i] \in Crops
        BY <1>1, EvidenceIsGiven
    <2> QED
        BY <2>1, <2>2 DEF Crops
<1>3. /\ \A i \in Range(items) : PlaceIn(items)[i] \in DOMAIN items /\ items[PlaceIn(items)[i]] = i
      /\ DOMAIN items \subseteq Int
    BY DEF PlaceIn, Range
<1> PICK place : place = PlaceIn(items)
    OBVIOUS
<1>4. /\ \A i \in S : place[i] \in Int
      /\ \A i, j \in S : place[i] = place[j] => i = j
    BY <1>3
<1>5. Sorted(S, key, place) \in SetToSeqs(S)
    BY <1>2, <1>4, SortedFacts
<1> PICK ordered : ordered = Sorted(S, key, place)
    OBVIOUS
<1>6. ordered \in Seq(S)
    BY <1>2, <1>5, ListFacts
<1>7. /\ Spaced(ordered) \in Seq(S)
      /\ mode # "classifiers" =>
            \A i, j \in Range(Spaced(ordered)) :
               i # j => given[i].frame - given[j].frame \notin -2..2
    BY <1>2, <1>6, SpacedFacts
<1> QED
    BY <1>7

(* Which crops are asked about: those selected, each once in the flow, for *)
(* the body type those of cars only and three frames apart.                *)
LEMMA AskedFacts ==
    ASSUME given \in Seq(Crops), NEW items \in Seq(Evidence), NoRepeats(items)
    PROVE  /\ AskedColours(items) \in Seq(Range(items))
           /\ vehicle = "UNKNOWN" => AskedColours(items) = <<>>
           /\ mode # "classifiers" /\ vehicle # "UNKNOWN" => AskedColours(items) = Prefix(items)
           /\ mode # "classifiers" => NoRepeats(AskedColours(items))
           /\ AskedBodies(items) \in Seq(Range(items))
           /\ vehicle # "CAR" => AskedBodies(items) = <<>>
           /\ mode # "classifiers" =>
                 \A i, j \in Range(AskedBodies(items)) :
                    i # j => given[i].frame - given[j].frame \notin -2..2
<1>1. /\ Prefix(items) \in Seq(Evidence) /\ Range(Prefix(items)) \subseteq Range(items)
      /\ NoRepeats(Prefix(items))
    <2>1. MaxCrops \in Nat \ {0}
        BY AttributeAssumption
    <2> QED
        BY <2>1, FirstFew DEF Prefix
<1>2. \A s \in Seq(Evidence) : s \in Seq(Range(s)) /\ Range(s) \subseteq Evidence
    BY DEF Range
<1>3. \A i \in Range(items) : i \in Int /\ given[i] \in Crops
    BY <1>2, EvidenceIsGiven
<1>4. Prefix(items) \in Seq(Range(items))
    <2> PICK T : T = Range(items)
        OBVIOUS
    <2> PICK p : p = Prefix(items)
        OBVIOUS
    <2>1. p \in Seq(Range(p)) /\ Range(p) \subseteq T
        BY <1>1, <1>2
    <2> QED
        BY <2>1
<1>5. NoRepeats(<<>>) /\ <<>> \in Seq(Range(items)) /\ Range(<<>>) = {}
    BY DEF NoRepeats, Range
<1>6. \A S \in SUBSET Range(items) : ByQuality(items, S) \in Seq(S)
    <2> SUFFICES ASSUME NEW S \in SUBSET Range(items)
                 PROVE  ByQuality(items, S) \in Seq(S)
        OBVIOUS
    <2> DEFINE key == [i \in Range(items) |->
                          <<Bool(given[i].tier = "preferred"), given[i].quality>>]
    <2>1. \A i \in S : key[i] \in [1 .. 2 -> Int]
        BY <1>3, KeysAreNumbers
    <2> HIDE DEF key
    <2>2. Spaced(Sorted(S, key, PlaceIn(items))) \in Seq(S)
        BY <2>1, SortedByPlace
    <2> QED
        BY <2>2 DEF ByQuality, key
<1>7. /\ FlowBodies(Prefix(items)) \in Seq(Range(items))
      /\ mode # "classifiers" =>
            \A i, j \in Range(FlowBodies(Prefix(items))) :
               i # j => given[i].frame - given[j].frame \notin -2..2
    <2> PICK few : few = Prefix(items)
        OBVIOUS
    <2> DEFINE key == [i \in Range(few) |->
                          <<Bool(given[i].size = "preferred"), given[i].quality,
                            Bool(given[i].source = "zone")>>]
               usable == {i \in Range(few) : given[i].size # "small" /\ ~ Penalized(i)}
               bodies == Spaced(Sorted(usable, key, PlaceIn(few)))
    <2>1. few \in Seq(Evidence) /\ Range(few) \subseteq Range(items) /\ usable \in SUBSET Range(few)
        BY <1>1
    <2>2. \A i \in usable : key[i] \in [1 .. 3 -> Int]
        BY <1>3, <2>1, KeysAreNumbers
    <2> HIDE DEF key, usable
    <2>3. bodies \in Seq(usable)
        BY <2>1, <2>2, SortedByPlace
    <2>4. mode # "classifiers" =>
             \A i, j \in Range(bodies) : i # j => given[i].frame - given[j].frame \notin -2..2
        BY <2>1, <2>2, SortedByPlace
    <2>5. bodies = FlowBodies(Prefix(items))
        BY DEF FlowBodies, key, usable
    <2>6. Range(items) = Range(items) /\ usable \subseteq Range(items)
        BY <2>1
    <2> HIDE DEF bodies
    <2>7. bodies \in Seq(Range(items))
        <3> PICK T : T = Range(items)
            OBVIOUS
        <3> QED
            BY <2>3, <2>6
    <2> QED
        BY <2>4, <2>5, <2>7
<1>8. /\ AskedColours(items) \in Seq(Range(items))
      /\ vehicle = "UNKNOWN" => AskedColours(items) = <<>>
      /\ mode # "classifiers" /\ vehicle # "UNKNOWN" => AskedColours(items) = Prefix(items)
      /\ mode # "classifiers" => NoRepeats(AskedColours(items))
    <2>1. ByQuality(items, Range(items)) \in Seq(Range(items))
        BY <1>6
    <2> QED
        BY <1>1, <1>4, <1>5, <2>1 DEF AskedColours
<1>9. AskedBodies(items) \in Seq(Range(items))
    <2> DEFINE S == {i \in Range(items) : LargeEnough(i) /\ ~ Penalized(i)}
    <2>1. ByQuality(items, S) \in Seq(S) /\ S \subseteq Range(items)
        BY <1>6
    <2>2. ByQuality(items, S) \in Seq(Range(items))
        <3> PICK T : T = Range(items)
            OBVIOUS
        <3> HIDE DEF S
        <3> QED
            BY <2>1
    <2> QED
        BY <1>5, <1>7, <2>2 DEF AskedBodies
<1>10. vehicle # "CAR" => AskedBodies(items) = <<>>
    BY DEF AskedBodies
<1>11. mode # "classifiers" =>
          \A i, j \in Range(AskedBodies(items)) :
             i # j => given[i].frame - given[j].frame \notin -2..2
    BY <1>5, <1>7 DEF AskedBodies
<1> QED
    BY <1>8, <1>9, <1>10, <1>11

(* The calls for one attribute, in the order of their crops.               *)
LEMMA CallsForFacts ==
    ASSUME NEW S \in SUBSET Evidence, NEW asked \in Seq(S), NEW a \in {"colour", "body"}
    PROVE  /\ CallsFor(a, asked) \in Seq(CallsOf) /\ Len(CallsFor(a, asked)) = Len(asked)
           /\ \A n \in 1 .. Len(asked) :
                 CallsFor(a, asked)[n].attribute = a /\ CallsFor(a, asked)[n].crop = asked[n]
<1>1. DOMAIN asked = 1 .. Len(asked) /\ Len(asked) \in Nat /\ \A n \in 1 .. Len(asked) : asked[n] \in Evidence
    OBVIOUS
<1>2. \A n \in 1 .. Len(asked) : CallsFor(a, asked)[n] = [attribute |-> a, crop |-> asked[n]]
    BY <1>1 DEF CallsFor
<1>3. CallsFor(a, asked) \in [1 .. Len(asked) -> CallsOf]
    BY <1>1 DEF CallsFor, CallsOf
<1> QED
    BY <1>1, <1>2, <1>3

(* The calls that are planned for a track cohere with its rows.            *)
LEMMA PreparedCallsCohere ==
    ASSUME given \in Seq(Crops), NEW items, items = SelectedCrops(Evidence),
           NEW open, NEW notes,
           open = IF mode = "classifiers"
                  THEN CallsFor("body", AskedBodies(items)) \o CallsFor("colour", AskedColours(items))
                  ELSE CallsFor("colour", AskedColours(items)) \o CallsFor("body", AskedBodies(items)),
           notes = [i \in Range(Prefix(items)) |->
                       IF vehicle = "UNKNOWN" THEN "not_eligible" ELSE "none"]
    PROVE  CallsCohere(open, <<>>, notes)
<1>1. /\ items \in Seq(Evidence) /\ NoRepeats(items)
      /\ \A i \in Range(items) : FairlyTaken(i)
    BY SelectedFacts
<1> PICK S : S = Range(items)
    OBVIOUS
<1> PICK ac : ac = AskedColours(items)
    OBVIOUS
<1> PICK ab : ab = AskedBodies(items)
    OBVIOUS
<1>2. /\ ac \in Seq(S) /\ ab \in Seq(S) /\ S \in SUBSET Evidence
      /\ vehicle = "UNKNOWN" => ac = <<>>
      /\ mode # "classifiers" /\ vehicle # "UNKNOWN" => ac = Prefix(items)
      /\ mode # "classifiers" => NoRepeats(ac)
      /\ vehicle # "CAR" => ab = <<>>
      /\ mode # "classifiers" =>
            \A i, j \in Range(ab) : i # j => given[i].frame - given[j].frame \notin -2..2
    <2>1. S \in SUBSET Evidence
        BY <1>1 DEF Range
    <2> QED
        BY <1>1, <2>1, AskedFacts
<1> PICK c : c = CallsFor("colour", ac)
    OBVIOUS
<1> PICK b : b = CallsFor("body", ab)
    OBVIOUS
<1>3. /\ c \in Seq(CallsOf) /\ Len(c) = Len(ac)
      /\ \A n \in 1 .. Len(ac) : c[n].attribute = "colour" /\ c[n].crop = ac[n]
    BY <1>2, CallsForFacts
<1>4. /\ b \in Seq(CallsOf) /\ Len(b) = Len(ab)
      /\ \A n \in 1 .. Len(ab) : b[n].attribute = "body" /\ b[n].crop = ab[n]
    BY <1>2, CallsForFacts
<1>5. /\ b \o c \in Seq(CallsOf) /\ Joins(b \o c, b, c)
       /\ c \o b \in Seq(CallsOf) /\ Joins(c \o b, c, b)
    <2>1. b \in Seq(CallsOf) /\ c \in Seq(CallsOf)
        BY <1>3, <1>4
    <2> QED
        BY <2>1, ConcatParts, Zenon
<1>6. /\ Len(ac) \in Nat /\ Len(ab) \in Nat /\ Len(c) = Len(ac) /\ Len(b) = Len(ab)
      /\ Range(ac) = {ac[n] : n \in 1 .. Len(ac)} /\ Range(ab) = {ab[n] : n \in 1 .. Len(ab)}
    <2>1. DOMAIN ac = 1 .. Len(ac) /\ DOMAIN ab = 1 .. Len(ab) /\ Len(ac) \in Nat /\ Len(ab) \in Nat
        BY <1>2
    <2> QED
        BY <1>3, <1>4, <2>1 DEF Range
<1>7. /\ \A n \in 1 .. Len(c) : c[n].attribute = "colour" /\ c[n].crop \in Range(ac)
      /\ \A n \in 1 .. Len(b) : b[n].attribute = "body" /\ b[n].crop \in Range(ab)
    BY <1>3, <1>4, <1>6
<1>8. /\ open \in Seq(CallsOf) /\ <<>> \in Seq(AnswersOf)
      /\ \A n \in DOMAIN open : \/ open[n].attribute = "colour" /\ open[n].crop \in Range(ac)
                                \/ open[n].attribute = "body" /\ open[n].crop \in Range(ab)
    <2>1. CASE mode = "classifiers"
        <3>1. open = b \o c
            BY <2>1
        <3>2. open \in Seq(CallsOf) /\ Joins(open, b, c)
            BY <1>5, <3>1
        <3> QED
            BY <1>7, <3>2 DEF Joins
    <2>2. CASE mode # "classifiers"
        <3>1. open = c \o b
            BY <2>2
        <3>2. open \in Seq(CallsOf) /\ Joins(open, c, b)
            BY <1>5, <3>1
        <3> QED
            BY <1>7, <3>2 DEF Joins
    <2> QED
        BY <2>1, <2>2
<1>9. CropsAreFair(open, <<>>)
    <2>1. Range(ac) \subseteq Range(items) /\ Range(ab) \subseteq Range(items)
        BY <1>2 DEF Range
    <2> QED
        BY <1>1, <1>8, <2>1 DEF CropsAreFair
<1>10. \A a \in {"colour", "body"} : CropsIn(<<>>, a) = {}
    BY DEF CropsIn
<1>11. BodyCallsApart(open, <<>>)
    <2>1. CropsIn(open, "body") \subseteq Range(ab)
        BY <1>8 DEF CropsIn
    <2>2. ab = <<>> => Range(ab) = {}
        BY DEF Range
    <2> QED
        BY <1>2, <1>10, <2>1, <2>2 DEF BodyCallsApart
<1>12. ColoursStop(open, <<>>)
    BY DEF ColoursStop
<1>13. ASSUME mode # "classifiers"
       PROVE  /\ \A n \in 1 .. Len(ac) :
                    n \in DOMAIN open /\ open[n].attribute = "colour" /\ open[n].crop = ac[n]
              /\ \A n \in DOMAIN open : open[n].attribute = "colour" => n \in 1 .. Len(ac)
    <2>1. open = c \o b
        BY <1>13
    <2>2. Joins(open, c, b)
        BY <1>5, <2>1
    <2> QED
        BY <1>3, <1>6, <1>7, <2>2 DEF Joins
<1>14. ColourCallsFirst(open, <<>>)
    <2>1. SUFFICES ASSUME mode # "classifiers"
                   PROVE  /\ \A n, m \in DOMAIN open : n < m /\ open[m].attribute = "colour" =>
                                open[n].attribute = "colour"
                          /\ \A n, m \in DOMAIN open :
                                /\ open[n].attribute = "colour" /\ open[m].attribute = "colour"
                                /\ open[n].crop = open[m].crop
                                => n = m
        BY <1>10 DEF ColourCallsFirst
    <2>2. \A n, m \in DOMAIN open : n < m /\ m \in 1 .. Len(ac) => n \in 1 .. Len(ac)
        <3>1. \A n \in DOMAIN open : n \in Int /\ n >= 1
            BY <1>8
        <3> QED
            BY <1>6, <3>1
    <2>3. \A n, m \in DOMAIN open :
             n < m /\ open[m].attribute = "colour" => open[n].attribute = "colour"
        BY <1>13, <2>1, <2>2
    <2>4. ASSUME NEW n \in DOMAIN open, NEW m \in DOMAIN open,
                 open[n].attribute = "colour", open[m].attribute = "colour",
                 open[n].crop = open[m].crop
          PROVE  n = m
        <3>1. n \in 1 .. Len(ac) /\ m \in 1 .. Len(ac)
            BY <1>13, <2>1, <2>4
        <3>2. ac[n] = ac[m]
            BY <1>13, <2>1, <2>4, <3>1
        <3> QED
            BY <1>2, <2>1, <3>1, <3>2 DEF NoRepeats
    <2> QED
        BY <2>3, <2>4
<1>15. RowsFollow(open, <<>>, notes)
    <2>1. SUFFICES ASSUME mode # "classifiers", NEW i \in DOMAIN notes
                   PROVE  notes[i] \in {"none", "missing_crop"} <=> i \in CropsIn(open, "colour")
        BY <1>10 DEF RowsFollow
    <2>2. i \in Range(Prefix(items))
        OBVIOUS
    <2>3. CropsIn(open, "colour") = Range(ac)
        <3>1. \A j : j \in CropsIn(open, "colour") <=>
                       \E n \in DOMAIN open : open[n].attribute = "colour" /\ open[n].crop = j
            BY DEF CropsIn
        <3>2. \A j : j \in CropsIn(open, "colour") <=> j \in Range(ac)
            BY <1>6, <1>13, <2>1, <3>1
        <3> QED
            BY <3>2
    <2>4. CASE vehicle = "UNKNOWN"
        <3>1. notes[i] = "not_eligible"
            BY <2>4
        <3>2. Range(ac) = {}
            BY <1>2, <2>4 DEF Range
        <3> QED
            BY <2>3, <3>1, <3>2
    <2>5. CASE vehicle # "UNKNOWN"
        <3>1. notes[i] = "none"
            BY <2>5
        <3> QED
            BY <1>2, <2>1, <2>2, <2>3, <2>5, <3>1
    <2> QED
        BY <2>4, <2>5
<1> QED
    BY <1>8, <1>9, <1>11, <1>12, <1>14, <1>15 DEF CallsCohere

(* The answer ends the colour calls.                                       *)
StopsAfter(label) ==
    mode = "adaptive" /\ Head(calls).attribute = "colour" /\ label \in Labels

(* The first k calls are over.                                             *)
CallsOver(k, label) ==
    /\ CallsLeft(label) \in Seq(CallsOf) /\ LeftAfter(CallsLeft(label), calls, k)
    /\ k # 1 => StopsAfter(label)
    /\ \A m \in 2 .. k : calls[m].attribute = "colour"
    /\ StopsAfter(label) => \A m \in (k + 1) .. Len(calls) : calls[m].attribute # "colour"

(* An answer ends the first call, and with the adaptive strategy all other *)
(* colour calls, which are those in front (_adaptive_colour_result).       *)
LEMMA CallsLeftFacts ==
    ASSUME calls \in Seq(CallsOf), calls # <<>>, NEW label, NEW answers,
           ColourCallsFirst(calls, answers)
    PROVE  \E k \in 1 .. Len(calls) : CallsOver(k, label)
<1>1. Len(calls) \in Nat /\ Len(calls) >= 1 /\ DOMAIN calls = 1 .. Len(calls) /\ Head(calls) = calls[1]
    OBVIOUS
<1>2. CASE ~ StopsAfter(label)
    <2>1. CallsLeft(label) = Tail(calls)
        BY <1>2 DEF StopsAfter, CallsLeft
    <2>2. Tail(calls) = SubSeq(calls, 1 + 1, Len(calls))
        BY <1>1
    <2>3. SubSeq(calls, 1 + 1, Len(calls)) \in Seq(CallsOf) /\ LeftAfter(SubSeq(calls, 1 + 1, Len(calls)), calls, 1)
        <3>1. 1 \in 0 .. Len(calls)
            BY <1>1
        <3> QED
            BY <3>1, SubSeqParts, Zenon
    <2>4. CallsLeft(label) \in Seq(CallsOf) /\ LeftAfter(CallsLeft(label), calls, 1)
        BY <2>1, <2>2, <2>3
    <2>5. \A m \in 2 .. 1 : calls[m].attribute = "colour"
        OBVIOUS
    <2>6. CallsOver(1, label)
        BY <1>2, <2>4, <2>5 DEF CallsOver
    <2> QED
        BY <1>1, <2>6
<1>3. CASE StopsAfter(label)
    <2> DEFINE bodies == {n \in DOMAIN calls : calls[n].attribute # "colour"}
    <2>1. mode = "adaptive" /\ calls[1].attribute = "colour"
        BY <1>1, <1>3 DEF StopsAfter
    <2>2. CallsLeft(label) = IF bodies = {} THEN <<>> ELSE SubSeq(calls, Min(bodies), Len(calls))
        BY <1>3 DEF StopsAfter, CallsLeft
    <2>3. CASE bodies = {}
        <3>1. CallsLeft(label) = <<>> /\ CallsLeft(label) \in Seq(CallsOf)
            BY <2>2, <2>3
        <3>2. LeftAfter(CallsLeft(label), calls, Len(calls))
            BY <1>1, <3>1 DEF LeftAfter
        <3>3. \A m \in 1 .. Len(calls) : calls[m].attribute = "colour"
            BY <1>1, <2>3
        <3>4. CallsOver(Len(calls), label)
            BY <1>1, <1>3, <3>1, <3>2, <3>3 DEF CallsOver
        <3> QED
            BY <1>1, <3>4
    <2>4. CASE bodies # {}
        <3>1. PICK b \in bodies : \A n \in bodies : b <= n
            <4>1. bodies \in SUBSET Nat
                BY <1>1
            <4> HIDE DEF bodies
            <4> QED
                BY <2>4, <4>1, LeastNat
        <3>2. b \in 1 .. Len(calls) /\ calls[b].attribute # "colour" /\ b # 1
            BY <1>1, <2>1
        <3>3. Min(bodies) = b
            <4>1. \A n \in bodies : n \in Int
                BY <1>1
            <4> HIDE DEF bodies
            <4>2. \A x \in bodies : (\A n \in bodies : x <= n) => x = b
                BY <3>1, <4>1
            <4> QED
                BY <3>1, <4>2 DEF Min
        <3>4. CallsLeft(label) = SubSeq(calls, b, Len(calls))
            BY <2>2, <2>4, <3>3
        <3>5. PICK k \in 1 .. Len(calls) : b = k + 1
            <4>1. b - 1 \in 1 .. Len(calls) /\ b = (b - 1) + 1
                BY <1>1, <3>2
            <4> QED
                BY <4>1
        <3>6. SubSeq(calls, k + 1, Len(calls)) \in Seq(CallsOf) /\ LeftAfter(SubSeq(calls, k + 1, Len(calls)), calls, k)
            <4>1. k \in 0 .. Len(calls)
                BY <1>1
            <4> QED
                BY <4>1, SubSeqParts, Zenon
        <3>7. \A m \in 2 .. k : calls[m].attribute = "colour"
            <4>1. \A m \in 2 .. k : m \in DOMAIN calls /\ ~ (b <= m)
                BY <1>1, <3>5
            <4> QED
                BY <3>1, <4>1
        <3>8. \A m \in (k + 1) .. Len(calls) : calls[m].attribute # "colour"
            <4>1. \A m \in (k + 1) .. Len(calls) : m \in DOMAIN calls /\ (m = b \/ b < m) /\ b \in DOMAIN calls
                BY <1>1, <3>2, <3>5
            <4>2. \A n, m \in DOMAIN calls : n < m /\ calls[m].attribute = "colour" =>
                     calls[n].attribute = "colour"
                BY <2>1 DEF ColourCallsFirst
            <4> QED
                BY <3>2, <4>1, <4>2
        <3>9. CallsOver(k, label)
            BY <1>3, <3>4, <3>5, <3>6, <3>7, <3>8 DEF CallsOver
        <3> QED
            BY <3>9
    <2> QED
        BY <2>3, <2>4
<1> QED
    BY <1>2, <1>3

(* An answer keeps calls, answers and rows coherent (classify).            *)
LEMMA AskingKeepsCoherence ==
    ASSUME calls # <<>>, CallsCohere(calls, made, rowNotes),
           NEW label \in Labels \cup {"unknown", "error"}
    PROVE  CallsCohere(CallsLeft(label),
                       Append(made, [attribute |-> Head(calls).attribute, crop |-> Head(calls).crop,
                                     label |-> label]),
                       Notes(Head(calls), label))
<1> PICK call : call = Head(calls)
    OBVIOUS
<1> PICK r : r = [attribute |-> call.attribute, crop |-> call.crop, label |-> label]
    OBVIOUS
<1> PICK open : open = CallsLeft(label)
    OBVIOUS
<1> PICK answers : answers = Append(made, r)
    OBVIOUS
<1>1. /\ calls \in Seq(CallsOf) /\ made \in Seq(AnswersOf)
      /\ CropsAreFair(calls, made) /\ BodyCallsApart(calls, made) /\ ColoursStop(calls, made)
      /\ ColourCallsFirst(calls, made) /\ RowsFollow(calls, made, rowNotes)
    BY DEF CallsCohere
<1>2. /\ Len(calls) \in Nat /\ Len(calls) >= 1 /\ DOMAIN calls = 1 .. Len(calls)
      /\ call = calls[1] /\ call \in CallsOf /\ 1 \in DOMAIN calls
    BY <1>1
<1>3. /\ r \in AnswersOf /\ r.attribute = call.attribute /\ r.crop = call.crop /\ r.label = label
    BY <1>2 DEF CallsOf, AnswersOf
<1>4. PICK k \in 1 .. Len(calls) : CallsOver(k, label)
    BY <1>1, CallsLeftFacts
<1>5. /\ open \in Seq(CallsOf) /\ DOMAIN open = 1 .. (Len(calls) - k)
      /\ \A n \in DOMAIN open : open[n] = calls[n + k] /\ n + k \in DOMAIN calls
    BY <1>4 DEF CallsOver, LeftAfter
<1>6. /\ k # 1 => StopsAfter(label)
      /\ \A m \in 2 .. k : calls[m].attribute = "colour"
      /\ StopsAfter(label) => \A m \in (k + 1) .. Len(calls) : calls[m].attribute # "colour"
    BY <1>4 DEF CallsOver
<1>7. /\ answers \in Seq(AnswersOf) /\ Len(made) \in Nat
      /\ DOMAIN made = 1 .. Len(made) /\ DOMAIN answers = 1 .. (Len(made) + 1)
      /\ \A n \in DOMAIN made : answers[n] = made[n]
      /\ answers[Len(made) + 1] = r
    <2> PICK T : T = AnswersOf
        OBVIOUS
    <2>1. made \in Seq(T) /\ r \in T
        BY <1>1, <1>3
    <2> QED
        BY <2>1
<1>8. \A n \in DOMAIN answers : n \in DOMAIN made \/ n = Len(made) + 1
    BY <1>7
<1>9. \A i, a : i \in CropsIn(open, a) =>
         \E n \in (k + 1) .. Len(calls) : calls[n].attribute = a /\ calls[n].crop = i
    <2> SUFFICES ASSUME NEW a, NEW i \in CropsIn(open, a)
                 PROVE  \E n \in (k + 1) .. Len(calls) : calls[n].attribute = a /\ calls[n].crop = i
        OBVIOUS
    <2>1. PICK n \in DOMAIN open : open[n].attribute = a /\ open[n].crop = i
        BY DEF CropsIn
    <2>2. n + k \in (k + 1) .. Len(calls) /\ open[n] = calls[n + k]
        BY <1>2, <1>5
    <2> QED
        BY <2>1, <2>2
<1>10. \A i, a : i \in CropsIn(answers, a) => i \in CropsIn(made, a) \/ (i = call.crop /\ call.attribute = a)
    BY <1>3, <1>7, <1>8 DEF CropsIn
<1>11. \A i, a : i \in CropsIn(made, a) \/ (i = call.crop /\ call.attribute = a) => i \in CropsIn(answers, a)
    <2>1. \A i, a : i \in CropsIn(made, a) => i \in CropsIn(answers, a)
        <3>1. \A n \in DOMAIN made : n \in DOMAIN answers
            BY <1>7
        <3> QED
            BY <1>7, <3>1 DEF CropsIn
    <2>2. Len(made) + 1 \in DOMAIN answers /\ answers[Len(made) + 1] = r
        BY <1>7
    <2>3. \A a : call.attribute = a => call.crop \in CropsIn(answers, a)
        BY <1>3, <2>2 DEF CropsIn
    <2> QED
        BY <2>1, <2>3
<1>12. \A n \in (k + 1) .. Len(calls) : n \in DOMAIN calls
    BY <1>2
<1>13. call.crop \in CropsIn(calls, call.attribute)
    BY <1>2 DEF CropsIn
<1>14. \A a : CropsIn(open, a) \subseteq CropsIn(calls, a)
    <2> SUFFICES ASSUME NEW a, NEW i \in CropsIn(open, a)
                 PROVE  i \in CropsIn(calls, a)
        OBVIOUS
    <2>1. PICK n \in (k + 1) .. Len(calls) : calls[n].attribute = a /\ calls[n].crop = i
        BY <1>9
    <2> QED
        BY <1>12, <2>1 DEF CropsIn
<1>15. \A a : CropsIn(open, a) \cup CropsIn(answers, a) \subseteq CropsIn(calls, a) \cup CropsIn(made, a)
    BY <1>10, <1>13, <1>14
<1>16. CropsAreFair(open, answers)
    <2>1. \A n \in DOMAIN open : FairlyTaken(open[n].crop)
        BY <1>1, <1>5 DEF CropsAreFair
    <2>2. FairlyTaken(r.crop)
        BY <1>1, <1>2, <1>3 DEF CropsAreFair
    <2>3. \A n \in DOMAIN answers : FairlyTaken(answers[n].crop)
        BY <1>1, <1>7, <1>8, <2>2 DEF CropsAreFair
    <2> QED
        BY <2>1, <2>3 DEF CropsAreFair
<1>17. BodyCallsApart(open, answers)
    <2> PICK B : B = CropsIn(calls, "body") \cup CropsIn(made, "body")
        OBVIOUS
    <2> PICK D : D = CropsIn(open, "body") \cup CropsIn(answers, "body")
        OBVIOUS
    <2>1. D \subseteq B
        BY <1>15
    <2>2. /\ B # {} => vehicle = "CAR"
          /\ mode # "classifiers" =>
                \A i, j \in B : i # j => given[i].frame - given[j].frame \notin -2..2
        BY <1>1 DEF BodyCallsApart
    <2>3. /\ D # {} => vehicle = "CAR"
          /\ mode # "classifiers" =>
                \A i, j \in D : i # j => given[i].frame - given[j].frame \notin -2..2
        BY <2>1, <2>2
    <2> QED
        BY <2>3 DEF BodyCallsApart
<1>18. ColoursStop(open, answers)
    <2> SUFFICES ASSUME mode = "adaptive", NEW n \in DOMAIN answers,
                        answers[n].attribute = "colour", answers[n].label \in Labels
                 PROVE  /\ \A m \in DOMAIN answers : n < m => answers[m].attribute # "colour"
                        /\ \A m \in DOMAIN open : open[m].attribute # "colour"
        BY DEF ColoursStop
    <2>1. CASE n \in DOMAIN made
        <3>1. /\ \A m \in DOMAIN made : n < m => made[m].attribute # "colour"
              /\ \A m \in DOMAIN calls : calls[m].attribute # "colour"
            BY <1>1, <1>7, <2>1 DEF ColoursStop
        <3>2. r.attribute # "colour"
            BY <1>2, <1>3, <3>1
        <3> QED
            BY <1>5, <1>7, <1>8, <3>1, <3>2
    <2>2. CASE n = Len(made) + 1
        <3>1. r.attribute = "colour" /\ r.label \in Labels
            BY <1>7, <2>2
        <3>2. StopsAfter(label)
            BY <1>3, <3>1 DEF StopsAfter
        <3>3. \A m \in DOMAIN open : open[m].attribute # "colour"
            <4>1. \A m \in DOMAIN open : m + k \in (k + 1) .. Len(calls)
                BY <1>2, <1>5
            <4> QED
                BY <1>5, <1>6, <3>2, <4>1
        <3>4. \A m \in DOMAIN answers : ~ (n < m)
            BY <1>7, <2>2
        <3> QED
            BY <3>3, <3>4
    <2> QED
        BY <1>8, <2>1, <2>2
<1>19. ASSUME mode # "classifiers"
       PROVE  /\ \A n, m \in DOMAIN calls : n < m /\ calls[m].attribute = "colour" =>
                    calls[n].attribute = "colour"
              /\ \A n, m \in DOMAIN calls :
                    /\ calls[n].attribute = "colour" /\ calls[m].attribute = "colour"
                    /\ calls[n].crop = calls[m].crop
                    => n = m
              /\ \A i : ~ (i \in CropsIn(calls, "colour") /\ i \in CropsIn(made, "colour"))
    BY <1>1, <1>19 DEF ColourCallsFirst
<1>20. ColourCallsFirst(open, answers)
    <2> SUFFICES ASSUME mode # "classifiers"
                 PROVE  /\ \A n, m \in DOMAIN open : n < m /\ open[m].attribute = "colour" =>
                              open[n].attribute = "colour"
                        /\ \A n, m \in DOMAIN open :
                              /\ open[n].attribute = "colour" /\ open[m].attribute = "colour"
                              /\ open[n].crop = open[m].crop
                              => n = m
                        /\ CropsIn(open, "colour") \cap CropsIn(answers, "colour") = {}
        BY DEF ColourCallsFirst
    <2>1. \A n, m \in DOMAIN open : (n < m => n + k < m + k) /\ (n + k = m + k => n = m)
        BY <1>2, <1>5
    <2>2. \A n, m \in DOMAIN open : n < m /\ open[m].attribute = "colour" =>
             open[n].attribute = "colour"
        BY <1>5, <1>19, <2>1
    <2>3. ASSUME NEW n \in DOMAIN open, NEW m \in DOMAIN open,
                 open[n].attribute = "colour", open[m].attribute = "colour",
                 open[n].crop = open[m].crop
          PROVE  n = m
        <3>1. n + k = m + k
            BY <1>5, <1>19, <2>3
        <3> QED
            BY <2>1, <3>1
    <2>4. ASSUME NEW i, i \in CropsIn(open, "colour"), i \in CropsIn(answers, "colour")
          PROVE  FALSE
        <3>1. PICK n \in (k + 1) .. Len(calls) : calls[n].attribute = "colour" /\ calls[n].crop = i
            BY <1>9, <2>4
        <3>2. i \in CropsIn(calls, "colour")
            BY <1>14, <2>4
        <3>3. i = call.crop /\ call.attribute = "colour"
            BY <1>10, <1>19, <2>4, <3>2
        <3>4. n = 1
            BY <1>2, <1>12, <1>19, <3>1, <3>3
        <3> QED
            BY <1>2, <3>4
    <2> QED
        BY <2>2, <2>3, <2>4
<1> DEFINE dropped == {c.crop : c \in Range(Tail(calls)) \ Range(open)}
           notes == [i \in DOMAIN rowNotes |->
                        IF i \in dropped THEN "not_needed"
                        ELSE IF call = [attribute |-> "colour", crop |-> i] /\ label = "error"
                        THEN "missing_crop" ELSE rowNotes[i]]
<1>21. Notes(call, label) = notes
    BY DEF Notes
<1>22. /\ DOMAIN Tail(calls) = 1 .. (Len(calls) - 1)
       /\ \A n \in 1 .. (Len(calls) - 1) : Tail(calls)[n] = calls[n + 1]
    BY <1>1
<1>23. \A i \in dropped : \E m \in 2 .. k : calls[m].crop = i
    <2> SUFFICES ASSUME NEW c \in Range(Tail(calls)), c \notin Range(open)
                 PROVE  \E m \in 2 .. k : calls[m].crop = c.crop
        OBVIOUS
    <2>1. PICK n \in 1 .. (Len(calls) - 1) : c = calls[n + 1]
        BY <1>22 DEF Range
    <2>2. CASE n + 1 <= k
        <3>1. n + 1 \in 2 .. k
            BY <1>2, <2>2
        <3> QED
            BY <2>1, <3>1
    <2>3. CASE ~ (n + 1 <= k)
        <3>1. PICK m \in DOMAIN open : m + k = n + 1
            <4>1. (n + 1) - k \in DOMAIN open /\ ((n + 1) - k) + k = n + 1
                BY <1>2, <1>5, <2>3
            <4> QED
                BY <4>1
        <3>2. open[m] = c
            BY <1>5, <2>1, <3>1
        <3> QED
            BY <3>2 DEF Range
    <2> QED
        BY <2>2, <2>3
<1>24. ASSUME mode # "classifiers", NEW m \in 2 .. k
       PROVE  calls[m].crop \in dropped
    <2>1. m \in DOMAIN calls /\ m - 1 \in 1 .. (Len(calls) - 1) /\ (m - 1) + 1 = m
        BY <1>2
    <2>2. calls[m] = Tail(calls)[m - 1]
        BY <1>22, <2>1
    <2>3. calls[m] \in Range(Tail(calls))
        BY <1>22, <2>1, <2>2 DEF Range
    <2>4. ASSUME calls[m] \in Range(open)
          PROVE  FALSE
        <3>1. PICK n \in DOMAIN open : open[n] = calls[m]
            BY <2>4 DEF Range
        <3>2. calls[n + k] = calls[m] /\ n + k \in DOMAIN calls /\ n + k # m
            BY <1>2, <1>5, <3>1
        <3> QED
            BY <1>6, <1>19, <1>24, <2>1, <3>2
    <2> QED
        BY <2>3, <2>4
<1> HIDE DEF dropped
<1>25. RowsFollow(open, answers, notes)
    <2> SUFFICES ASSUME mode # "classifiers", NEW i \in DOMAIN notes
                 PROVE  notes[i] \in {"none", "missing_crop"} <=>
                            i \in CropsIn(open, "colour") \cup CropsIn(answers, "colour")
        BY DEF RowsFollow
    <2>1. /\ i \in DOMAIN rowNotes
          /\ rowNotes[i] \in {"none", "missing_crop"} <=>
                i \in CropsIn(calls, "colour") \cup CropsIn(made, "colour")
        BY <1>1 DEF RowsFollow
    <2>2. CASE i \in dropped
        <3>1. notes[i] = "not_needed"
            BY <2>1, <2>2
        <3>2. PICK m \in 2 .. k : calls[m].crop = i
            BY <1>23, <2>2
        <3>3. m \in DOMAIN calls /\ calls[m].attribute = "colour" /\ m # 1 /\ k # 1
            BY <1>2, <1>6
        <3>4. i \notin CropsIn(open, "colour")
            BY <1>6, <1>9, <3>3
        <3>5. i \in CropsIn(calls, "colour")
            BY <3>2, <3>3 DEF CropsIn
        <3>6. ~ (i = call.crop /\ call.attribute = "colour")
            BY <1>2, <1>19, <3>2, <3>3
        <3>7. i \notin CropsIn(answers, "colour")
            BY <1>10, <1>19, <3>5, <3>6
        <3> QED
            BY <3>1, <3>4, <3>7
    <2>3. CASE i \notin dropped
        <3>1. i \in CropsIn(calls, "colour") =>
                 i \in CropsIn(open, "colour") \/ i \in CropsIn(answers, "colour")
            <4> SUFFICES ASSUME i \in CropsIn(calls, "colour")
                         PROVE  i \in CropsIn(open, "colour") \/ i \in CropsIn(answers, "colour")
                OBVIOUS
            <4>1. PICK n \in DOMAIN calls : calls[n].attribute = "colour" /\ calls[n].crop = i
                BY DEF CropsIn
            <4>2. CASE n = 1
                BY <1>2, <1>11, <4>1, <4>2
            <4>3. CASE n # 1
                <5>1. n \notin 2 .. k
                    BY <1>24, <2>3, <4>1
                <5>2. n - k \in DOMAIN open /\ (n - k) + k = n
                    BY <1>2, <1>5, <4>3, <5>1
                <5>3. open[n - k] = calls[n]
                    BY <1>5, <5>2
                <5>4. i \in CropsIn(open, "colour")
                    BY <4>1, <5>2, <5>3 DEF CropsIn
                <5> QED
                    BY <5>4
            <4> QED
                BY <4>2, <4>3
        <3>2. i \in CropsIn(open, "colour") \cup CropsIn(answers, "colour") <=>
                 i \in CropsIn(calls, "colour") \cup CropsIn(made, "colour")
            BY <1>11, <1>15, <3>1
        <3>3. CASE call = [attribute |-> "colour", crop |-> i] /\ label = "error"
            <4>1. notes[i] = "missing_crop"
                BY <2>1, <2>3, <3>3
            <4>2. i \in CropsIn(answers, "colour")
                BY <1>11, <3>3
            <4> QED
                BY <4>1, <4>2
        <3>4. CASE ~ (call = [attribute |-> "colour", crop |-> i] /\ label = "error")
            <4>1. notes[i] = rowNotes[i]
                BY <2>1, <2>3, <3>4
            <4> QED
                BY <2>1, <3>2, <4>1
        <3> QED
            BY <3>3, <3>4
    <2> QED
        BY <2>2, <2>3
<1> HIDE DEF notes
<1>26. CallsCohere(open, answers, notes)
    BY <1>5, <1>7, <1>16, <1>17, <1>18, <1>20, <1>25 DEF CallsCohere
<1> QED
    BY <1>21, <1>26

(* Before anything is planned they cohere.                                 *)
LEMMA NothingAskedCoheres ==
    ASSUME NEW open, open = <<>>, NEW answers, answers = <<>>, NEW notes, notes = NoNotes
    PROVE  CallsCohere(open, answers, notes)
<1>1. open \in Seq(CallsOf) /\ answers \in Seq(AnswersOf)
    OBVIOUS
<1>2. DOMAIN open = {} /\ DOMAIN answers = {} /\ DOMAIN notes = {}
    BY DEF NoNotes
<1>3. \A a : CropsIn(open, a) = {} /\ CropsIn(answers, a) = {}
    BY <1>2 DEF CropsIn
<1> QED
    BY <1>1, <1>2, <1>3
    DEF CallsCohere, CropsAreFair, BodyCallsApart, ColoursStop, ColourCallsFirst, RowsFollow

(* When the model cannot be loaded they cohere without rows.               *)
LEMMA FewerCallsCohere ==
    ASSUME CallsCohere(calls, made, rowNotes), NEW notes, notes = NoNotes
    PROVE  CallsCohere(<<>>, made, notes)
<1>1. DOMAIN notes = {} /\ <<>> \in Seq(CallsOf)
    BY DEF NoNotes
<1>2. \A a : CropsIn(<<>>, a) = {}
    BY DEF CropsIn
<1>3. /\ made \in Seq(AnswersOf) /\ CropsAreFair(calls, made) /\ BodyCallsApart(calls, made)
      /\ ColoursStop(calls, made)
    BY DEF CallsCohere
<1>4. CropsAreFair(<<>>, made)
    BY <1>3 DEF CropsAreFair
<1>5. BodyCallsApart(<<>>, made)
    <2> PICK B : B = CropsIn(made, "body")
        OBVIOUS
    <2>1. /\ B # {} => vehicle = "CAR"
          /\ mode # "classifiers" =>
                \A i, j \in B : i # j => given[i].frame - given[j].frame \notin -2..2
        BY <1>3 DEF BodyCallsApart
    <2>2. CropsIn(<<>>, "body") \cup CropsIn(made, "body") = B
        BY <1>2
    <2> QED
        BY <2>1, <2>2 DEF BodyCallsApart
<1>6. ColoursStop(<<>>, made)
    BY <1>3 DEF ColoursStop
<1>7. ColourCallsFirst(<<>>, made)
    BY <1>2 DEF ColourCallsFirst
<1>8. RowsFollow(<<>>, made, notes)
    BY <1>1 DEF RowsFollow
<1> QED
    BY <1>1, <1>3, <1>4, <1>5, <1>6, <1>7, <1>8 DEF CallsCohere

(* Coherence is about the crops of the track, which do not change.         *)
LEMMA CoherenceIsOfTheInputs ==
    ASSUME UNCHANGED inputVars, CallsCohere(calls', made', rowNotes')
    PROVE  CallsCohere(calls, made, rowNotes)'
<1>1. given' = given /\ source' = source /\ mode' = mode /\ vehicle' = vehicle
    BY DEF inputVars
<1>2. \A o : Adapted(o)' = Adapted(o)
    BY <1>1 DEF Adapted
<1>3. Evidence' = Evidence
    BY <1>1 DEF Evidence, Adapted
<1>4. CallsOf' = CallsOf /\ AnswersOf' = AnswersOf
    BY <1>3 DEF CallsOf, AnswersOf
<1>5. CropsAreFair(calls, made)'
    <2>1. CropsAreFair(calls', made')
        BY DEF CallsCohere
    <2> QED
        BY <1>1, <1>3, <2>1 DEF CropsAreFair, FairlyTaken, LargeEnough, Readable
<1>6. BodyCallsApart(calls, made)'
    <2>1. BodyCallsApart(calls', made')
        BY DEF CallsCohere
    <2> QED
        BY <1>1, <2>1 DEF BodyCallsApart
<1>7. ColoursStop(calls, made)' /\ ColourCallsFirst(calls, made)'
    <2>1. ColoursStop(calls', made') /\ ColourCallsFirst(calls', made')
        BY DEF CallsCohere
    <2> QED
        BY <1>1, <2>1 DEF ColoursStop, ColourCallsFirst
<1>8. RowsFollow(calls, made, rowNotes)'
    <2>1. RowsFollow(calls', made', rowNotes')
        BY DEF CallsCohere
    <2> QED
        BY <1>1, <2>1 DEF RowsFollow
<1>9. calls' \in Seq(CallsOf) /\ made' \in Seq(AnswersOf)
    BY DEF CallsCohere
<1> QED
    BY <1>4, <1>5, <1>6, <1>7, <1>8, <1>9 DEF CallsCohere

(* It holds of every track that is given.                                  *)
LEMMA AttrInitially == AttrInit => AttrInv
<1> SUFFICES ASSUME AttrInit
             PROVE  AttrInv
    OBVIOUS
<1>1. given \in Seq(Crops)
    BY AttributeAssumption DEF AttrInit
<1>2. CallsCohere(calls, made, rowNotes)
    BY NothingAskedCoheres DEF AttrInit
<1> QED
    BY <1>1, <1>2 DEF AttrInit, AttrInv, ResultIsDerived, Answered

(* Every step keeps it.                                                    *)
LEMMA AttrStep == AttrInv /\ [AttrNext]_attrVars => AttrInv'
<1> SUFFICES ASSUME AttrInv, [AttrNext]_attrVars
             PROVE  AttrInv'
    OBVIOUS
<1>1. /\ given \in Seq(Crops) /\ attrStage \in {"given", "asking", "done"}
      /\ attrStage = "given" => made = <<>> /\ rowNotes = NoNotes
      /\ attrStage # "asking" => calls = <<>>
      /\ CallsCohere(calls, made, rowNotes)
    BY DEF AttrInv
<1>2. CASE PrepareTrack
    <2> PICK items : items = SelectedCrops(Evidence)
        OBVIOUS
    <2>1. /\ UNCHANGED inputVars /\ attrStage = "given" /\ attrStage' = "asking" /\ made' = made
          /\ calls' = IF mode = "classifiers"
                      THEN CallsFor("body", AskedBodies(items)) \o CallsFor("colour", AskedColours(items))
                      ELSE CallsFor("colour", AskedColours(items)) \o CallsFor("body", AskedBodies(items))
          /\ rowNotes' = [i \in Range(Prefix(items)) |->
                             IF vehicle = "UNKNOWN" THEN "not_eligible" ELSE "none"]
        BY <1>2 DEF PrepareTrack
    <2>2. CallsCohere(calls', <<>>, rowNotes')
        <3> PICK open : open = calls'
            OBVIOUS
        <3> PICK notes : notes = rowNotes'
            OBVIOUS
        <3>1. CallsCohere(open, <<>>, notes)
            BY <1>1, <2>1, PreparedCallsCohere
        <3> QED
            BY <3>1
    <2>3. made' = <<>>
        BY <1>1, <2>1
    <2>4. CallsCohere(calls, made, rowNotes)'
        BY <2>1, <2>2, <2>3, CoherenceIsOfTheInputs
    <2>5. given' = given
        BY <2>1 DEF inputVars
    <2> QED
        BY <1>1, <2>1, <2>4, <2>5 DEF AttrInv, ResultIsDerived, Answered
<1>3. CASE NoEvidence
    <2>1. /\ UNCHANGED inputVars /\ calls' = calls /\ made' = made /\ rowNotes' = rowNotes
          /\ attrStage' = "done" /\ attrStage = "given" /\ result' = [status |-> "NO_EVIDENCE"]
        BY <1>3 DEF NoEvidence
    <2>2. CallsCohere(calls, made, rowNotes)'
        BY <1>1, <2>1, CoherenceIsOfTheInputs
    <2>3. given' = given /\ result'.status # "COMPLETED"
        BY <2>1 DEF inputVars
    <2> QED
        BY <1>1, <2>1, <2>2, <2>3 DEF AttrInv, ResultIsDerived, Answered
<1>4. CASE LoadFails
    <2>1. /\ UNCHANGED inputVars /\ calls' = <<>> /\ made' = made /\ rowNotes' = NoNotes
          /\ attrStage' = "done" /\ result' = [status |-> "ERROR"]
        BY <1>4 DEF LoadFails
    <2>2. CallsCohere(calls', made', rowNotes')
        BY <1>1, <2>1, FewerCallsCohere
    <2>3. CallsCohere(calls, made, rowNotes)'
        BY <2>1, <2>2, CoherenceIsOfTheInputs
    <2>4. given' = given /\ result'.status # "COMPLETED"
        BY <2>1 DEF inputVars
    <2> QED
        BY <1>1, <2>1, <2>3, <2>4 DEF AttrInv, ResultIsDerived, Answered
<1>5. CASE AskModel
    <2>1. UNCHANGED inputVars /\ attrStage = "asking" /\ attrStage' = "asking" /\ calls # <<>>
        BY <1>5 DEF AskModel
    <2>2. PICK label \in Labels \cup {"unknown", "error"} :
             /\ made' = Append(made, [attribute |-> Head(calls).attribute,
                                      crop |-> Head(calls).crop, label |-> label])
             /\ calls' = CallsLeft(label) /\ rowNotes' = Notes(Head(calls), label)
        <3>1. PICK first \in Labels \cup {"unknown", "error"}, second \in Labels \cup {"unknown", "error"} :
                LET call == Head(calls)
                    twice == mode = "classifiers" /\ call.attribute = "colour"
                    label == IF twice THEN PromptOutcome(first, second) ELSE first
                IN  /\ made' = Append(made, [attribute |-> call.attribute, crop |-> call.crop,
                                             label |-> label])
                    /\ calls' = CallsLeft(label)
                    /\ rowNotes' = Notes(call, label)
            BY <1>5 DEF AskModel
        <3>2. PromptOutcome(first, second) \in Labels \cup {"unknown", "error"}
            BY DEF PromptOutcome
        <3>3. PICK l : l = IF mode = "classifiers" /\ Head(calls).attribute = "colour"
                           THEN PromptOutcome(first, second) ELSE first
            OBVIOUS
        <3>4. l \in Labels \cup {"unknown", "error"}
            BY <3>2, <3>3
        <3> QED
            BY <3>1, <3>3, <3>4
    <2>3. CallsCohere(calls', made', rowNotes')
        BY <1>1, <2>1, <2>2, AskingKeepsCoherence
    <2>4. CallsCohere(calls, made, rowNotes)'
        BY <2>1, <2>3, CoherenceIsOfTheInputs
    <2>5. given' = given
        BY <2>1 DEF inputVars
    <2> QED
        BY <1>1, <2>1, <2>4, <2>5 DEF AttrInv, ResultIsDerived, Answered
<1>6. CASE DecideAttributes
    <2>1. /\ UNCHANGED inputVars /\ calls' = calls /\ made' = made /\ rowNotes' = rowNotes
          /\ attrStage' = "done" /\ calls = <<>>
        BY <1>6 DEF DecideAttributes
    <2>2. result'.tier = ReportedTier /\ result'.colour = ColourAnswer
        BY <1>6 DEF DecideAttributes
    <2>3. CallsCohere(calls, made, rowNotes)'
        BY <1>1, <2>1, CoherenceIsOfTheInputs
    <2>4. given' = given /\ mode' = mode
        BY <2>1 DEF inputVars
    <2>5. ReportedTier = "low_resolution" =>
             \E n \in DOMAIN made :
                made[n].attribute = "colour" /\ given[made[n].crop].tier = "below"
        BY DEF ReportedTier, Votes
    <2>6. Votes("colour")' = Votes("colour") /\ LeastWeight' = LeastWeight
        BY <2>1, <2>4 DEF Votes, LeastWeight
    <2>7. mode # "adaptive" => ColourAnswer = Decision(Votes("colour"), LeastWeight)
        BY DEF ColourAnswer
    <2>8. ResultIsDerived'
        BY <2>1, <2>2, <2>4, <2>5, <2>6, <2>7 DEF ResultIsDerived
    <2> QED
        BY <1>1, <2>1, <2>3, <2>4, <2>8 DEF AttrInv
<1>7. CASE UNCHANGED attrVars
    <2>1. /\ UNCHANGED inputVars /\ calls' = calls /\ made' = made /\ rowNotes' = rowNotes
          /\ attrStage' = attrStage /\ result' = result
        BY <1>7 DEF attrVars
    <2>2. CallsCohere(calls, made, rowNotes)'
        BY <1>1, <2>1, CoherenceIsOfTheInputs
    <2>3. given' = given /\ mode' = mode
        BY <2>1 DEF inputVars
    <2>4. Votes("colour")' = Votes("colour") /\ LeastWeight' = LeastWeight
        BY <2>1, <2>3 DEF Votes, LeastWeight
    <2>5. ResultIsDerived
        BY DEF AttrInv
    <2>6. ResultIsDerived'
        BY <2>1, <2>3, <2>4, <2>5 DEF ResultIsDerived, Answered
    <2> QED
        BY <1>1, <2>1, <2>2, <2>3, <2>6 DEF AttrInv
<1> QED
    BY <1>2, <1>3, <1>4, <1>5, <1>6, <1>7 DEF AttrNext

(* The sum of the weights of some votes.                                   *)
WeightOf(votes, S) == SumFunctionOnSet([v \in votes |-> v.weight], S)

(* Votes that can be summed.                                               *)
Measurable(votes) == IsFiniteSet(votes) /\ \A v \in votes : v.weight \in Nat

(* The weight of a label is a natural number.                              *)
LEMMA WeightFacts ==
    ASSUME NEW votes, Measurable(votes), NEW a
    PROVE  /\ Weight(votes, a) \in Nat
           /\ Weight(votes, a) = WeightOf(votes, {v \in votes : v.label = a})
<1> DEFINE f == [v \in votes |-> v.weight]
           S == {v \in votes : v.label = a}
<1>1. IsFiniteSet(S) /\ S \subseteq votes
    BY FS_Subset DEF Measurable
<1>2. \A v \in S : f[v] \in Nat
    BY <1>1 DEF Measurable
<1>3. SumFunctionOnSet(f, S) \in Nat
    <2> HIDE DEF f, S
    <2> QED
        BY <1>1, <1>2, SumFacts
<1>4. Weight(votes, a) = SumFunctionOnSet(f, S)
    BY DEF Weight
<1> QED
    BY <1>3, <1>4 DEF WeightOf

(* The weight of a label depends on the votes for it alone.                *)
LEMMA SameVotesWeighTheSame ==
    ASSUME NEW v1, Measurable(v1), NEW v2, NEW a, {v \in v1 : v.label = a} = {v \in v2 : v.label = a}
    PROVE  Weight(v2, a) = Weight(v1, a)
<1> DEFINE f == [v \in v1 |-> v.weight]
           g == [v \in v2 |-> v.weight]
           S == {v \in v1 : v.label = a}
<1>1. IsFiniteSet(S) /\ S \subseteq v1 /\ S \subseteq v2
    BY FS_Subset DEF Measurable
<1>2. \A v \in S : f[v] \in Nat /\ g[v] = f[v]
    BY <1>1 DEF Measurable
<1>3. SumFunctionOnSet(g, S) = SumFunctionOnSet(f, S)
    <2> HIDE DEF f, g, S
    <2> QED
        BY <1>1, <1>2, SumFacts
<1>4. Weight(v1, a) = SumFunctionOnSet(f, S) /\ Weight(v2, a) = SumFunctionOnSet(g, S)
    BY DEF Weight
<1> QED
    BY <1>3, <1>4

(* A vote more adds its weight to its label and to no other.               *)
LEMMA OneVoteMore ==
    ASSUME NEW votes, Measurable(votes), NEW x, x \notin votes, x.weight \in Nat
    PROVE  /\ Measurable(votes \cup {x})
           /\ Weight(votes \cup {x}, x.label) = x.weight + Weight(votes, x.label)
           /\ \A b : b # x.label => Weight(votes \cup {x}, b) = Weight(votes, b)
<1> DEFINE more == votes \cup {x}
           f == [v \in more |-> v.weight]
           g == [v \in votes |-> v.weight]
           S == {v \in votes : v.label = x.label}
<1>1. Measurable(more)
    BY FS_AddElement DEF Measurable
<1>2. IsFiniteSet(S) /\ S \subseteq votes /\ x \notin S
    BY FS_Subset DEF Measurable
<1>3. \A v \in S : f[v] \in Nat /\ g[v] \in Nat /\ g[v] = f[v]
    BY <1>2 DEF Measurable
<1>4. f[x] \in Nat /\ f[x] = x.weight
    OBVIOUS
<1>5. /\ SumFunctionOnSet(f, S \cup {x}) = f[x] + SumFunctionOnSet(f, S)
      /\ SumFunctionOnSet(g, S) = SumFunctionOnSet(f, S)
    <2> HIDE DEF f, g, S
    <2> QED
        BY <1>2, <1>3, <1>4, SumFacts
<1>6. {v \in more : v.label = x.label} = S \cup {x}
    OBVIOUS
<1>7. /\ Weight(more, x.label) = SumFunctionOnSet(f, S \cup {x})
      /\ Weight(votes, x.label) = SumFunctionOnSet(g, S)
    BY <1>6 DEF Weight
<1>8. ASSUME NEW b, b # x.label
      PROVE  Weight(more, b) = Weight(votes, b)
    <2>1. {v \in votes : v.label = b} = {v \in more : v.label = b}
        BY <1>8
    <2> HIDE DEF more
    <2> QED
        BY <2>1, SameVotesWeighTheSame
<1> QED
    BY <1>1, <1>4, <1>5, <1>7, <1>8

(* What the votes must be for c to win.                                    *)
NamedLabels(votes) == {v.label : v \in votes} \cap Labels
TotalOf(votes, labels) == SumFunctionOnSet([a \in labels |-> Weight(votes, a)], labels)
Wins(votes, weakest, c) ==
    /\ c \in NamedLabels(votes)
    /\ \/ NamedLabels(votes) = {c} /\ Weight(votes, c) >= weakest
       \/ /\ NamedLabels(votes) # {c}
          /\ \A b \in NamedLabels(votes) \ {c} :
                /\ (Weight(votes, c) - Weight(votes, b)) * 100 > 500
                /\ (Weight(votes, c) - Weight(votes, b)) * 100 > 15 * Weight(votes, c)
          /\ 5 * Weight(votes, c) >= 3 * TotalOf(votes, NamedLabels(votes))

(* Finitely many votes name finitely many labels.                          *)
LEMMA NamedAreFinite ==
    ASSUME NEW votes, Measurable(votes)
    PROVE  IsFiniteSet(NamedLabels(votes))
<1> DEFINE T == {v.label : v \in votes}
           g == [v \in votes |-> v.label]
<1>1. (\A v \in votes : g[v] \in T) /\ (\A y \in T : \E v \in votes : g[v] = y)
    OBVIOUS
<1>2. IsFiniteSet(T)
    <2> HIDE DEF g, T
    <2> QED
        BY <1>1, FewValues DEF Measurable
<1> QED
    BY <1>2, FS_Subset DEF NamedLabels

(* A finite set of numbers has the greatest as its Max.                    *)
LEMMA GreatestOfFew ==
    ASSUME NEW S, IsFiniteSet(S), S # {}, S \subseteq Nat
    PROVE  \E m \in S : Max(S) = m /\ \A n \in S : n <= m
<1> DEFINE R == {p \in S \X S : p[1] > p[2]}
<1>1. \A x, y \in S : <<x, y>> \in R <=> x > y
    OBVIOUS
<1> HIDE DEF R
<1>2. PICK m \in S : \A n \in S : <<n, m>> \notin R
    <2>1. \A x \in S : <<x, x>> \notin R
        BY <1>1
    <2>2. \A x, y, z \in S : <<x, y>> \in R /\ <<y, z>> \in R => <<x, z>> \in R
        BY <1>1
    <2> QED
        BY <2>1, <2>2, MinimalElement
<1>3. ASSUME NEW n \in S
      PROVE  n <= m
    <2>1. ~ (n > m)
        BY <1>1, <1>2
    <2>2. n \in Nat /\ m \in Nat
        OBVIOUS
    <2> QED
        BY <2>1, <2>2
<1>4. \A x \in S : (\A n \in S : n <= x) => x = m
    BY <1>3
<1>5. Max(S) = m
    BY <1>3, <1>4 DEF Max
<1> QED
    BY <1>3, <1>5

(* The vote decides for the label that wins, and for no other              *)
(* (aggregate_predictions).                                                *)
LEMMA DecisionMeansWinning ==
    ASSUME NEW votes, Measurable(votes), NEW weakest \in Nat, NEW c \in Labels
    PROVE  Decision(votes, weakest) = c <=> Wins(votes, weakest, c)
<1> DEFINE labels == NamedLabels(votes)
           W(a) == Weight(votes, a)
           top == CHOOSE a \in labels : \A b \in labels : W(b) <= W(a)
           others == {W(b) : b \in labels \ {top}}
           second == Max(others)
           total == TotalOf(votes, labels)
<1>1. c # "unknown"
    BY AttributeAssumption
<1>2. \A a : W(a) \in Nat
    BY WeightFacts
<1>3. IsFiniteSet(labels) /\ labels \subseteq Labels
    BY NamedAreFinite DEF NamedLabels
<1>4. Decision(votes, weakest) =
        IF labels = {} THEN "unknown"
        ELSE IF labels = {top} THEN IF W(top) < weakest THEN "unknown" ELSE top
        ELSE IF (W(top) - second) * 100 <= Max({500, 15 * W(top)}) THEN "unknown"
        ELSE IF 5 * W(top) >= 3 * total THEN top ELSE "unknown"
    BY DEF Decision, NamedLabels, TotalOf
<1> HIDE DEF labels, W, total
<1>5. ASSUME labels # {}
      PROVE  top \in labels /\ \A b \in labels : W(b) <= W(top)
    <2> DEFINE T == {W(a) : a \in labels}
               g == [a \in labels |-> W(a)]
    <2>1. IsFiniteSet(T) /\ T # {} /\ T \subseteq Nat
        <3>1. (\A a \in labels : g[a] \in T) /\ (\A y \in T : \E a \in labels : g[a] = y)
            OBVIOUS
        <3>2. T # {} /\ T \subseteq Nat
            BY <1>2, <1>5
        <3> HIDE DEF g, T
        <3> QED
            BY <1>3, <3>1, <3>2, FewValues
    <2>2. PICK m \in T : \A n \in T : n <= m
        <3> HIDE DEF T
        <3> QED
            BY <2>1, GreatestOfFew
    <2>3. \E a \in labels : \A b \in labels : W(b) <= W(a)
        BY <2>2
    <2> QED
        BY <2>3
<1> HIDE DEF top
<1>6. ASSUME labels # {}, labels # {top}
      PROVE  /\ \A b \in labels \ {top} : W(b) <= second
             /\ \E b \in labels \ {top} : W(b) = second
             /\ second \in Nat
    <2> DEFINE rest == labels \ {top}
               g == [a \in rest |-> W(a)]
    <2>1. IsFiniteSet(rest) /\ rest # {}
        BY <1>3, <1>5, <1>6, FS_Subset
    <2>2. IsFiniteSet(others) /\ others # {} /\ others \subseteq Nat
        <3>1. (\A a \in rest : g[a] \in others) /\ (\A y \in others : \E a \in rest : g[a] = y)
            OBVIOUS
        <3>2. others # {} /\ others \subseteq Nat
            BY <1>2, <2>1
        <3> HIDE DEF g, others, rest
        <3> QED
            BY <2>1, <3>1, <3>2, FewValues
    <2>3. PICK m \in others : Max(others) = m /\ \A n \in others : n <= m
        <3> HIDE DEF others
        <3> QED
            BY <2>2, GreatestOfFew
    <2> QED
        BY <2>2, <2>3
<1>7. ASSUME NEW n \in Nat
      PROVE  Max({500, n}) \in {500, n} /\ Max({500, n}) >= 500 /\ Max({500, n}) >= n
    <2>1. \E x \in {500, n} : \A y \in {500, n} : x >= y
        OBVIOUS
    <2> QED
        BY <2>1 DEF Max
<1> HIDE DEF others, second
<1>8. ASSUME Decision(votes, weakest) = c
      PROVE  Wins(votes, weakest, c)
    <2>1. labels # {} /\ top = c
        BY <1>1, <1>4, <1>8
    <2>2. c \in labels /\ \A b \in labels : W(b) <= W(c)
        BY <1>5, <2>1
    <2>3. CASE labels = {c}
        <3>1. W(c) >= weakest
            BY <1>1, <1>2, <1>4, <1>8, <2>1, <2>3
        <3> QED
            BY <2>2, <2>3, <3>1 DEF Wins, labels, W
    <2>4. CASE labels # {c}
        <3>1. ~ ((W(c) - second) * 100 <= Max({500, 15 * W(c)})) /\ 5 * W(c) >= 3 * total
            BY <1>1, <1>4, <1>8, <2>1, <2>4
        <3>2. /\ \A b \in labels \ {c} : W(b) <= second
              /\ second \in Nat
            BY <1>6, <2>1, <2>4
        <3>3. PICK w \in Nat : w = W(c)
            BY <1>2
        <3>4. PICK most : most = Max({500, 15 * w})
            OBVIOUS
        <3>5. most \in Nat /\ most >= 500 /\ most >= 15 * w
            <4>1. 15 * w \in Nat
                OBVIOUS
            <4> QED
                BY <1>7, <3>4, <4>1
        <3>6. (w - second) * 100 > most
            BY <3>1, <3>2, <3>3, <3>4, <3>5
        <3>7. ASSUME NEW b \in labels \ {c}
              PROVE  (w - W(b)) * 100 > 500 /\ (w - W(b)) * 100 > 15 * w
            <4>1. W(b) \in Nat /\ W(b) <= second
                BY <1>2, <3>2
            <4> QED
                BY <3>2, <3>5, <3>6, <4>1
        <3> QED
            BY <2>2, <2>4, <3>1, <3>3, <3>7 DEF Wins, labels, W, total
    <2> QED
        BY <2>3, <2>4
<1>9. ASSUME Wins(votes, weakest, c)
      PROVE  Decision(votes, weakest) = c
    <2>1. c \in labels /\ labels # {}
        BY <1>9 DEF Wins, labels
    <2>2. CASE labels = {c}
        <3>1. W(c) >= weakest
            BY <1>9, <2>2 DEF Wins, labels, W
        <3>2. top = c
            BY <1>5, <2>1, <2>2
        <3>3. ~ (W(c) < weakest)
            BY <1>2, <3>1
        <3> QED
            BY <1>4, <2>1, <2>2, <3>2, <3>3
    <2>3. CASE labels # {c}
        <3>1. /\ \A b \in labels \ {c} :
                    (W(c) - W(b)) * 100 > 500 /\ (W(c) - W(b)) * 100 > 15 * W(c)
              /\ 5 * W(c) >= 3 * total
            BY <1>9, <2>3 DEF Wins, labels, W, total
        <3>2. PICK w \in Nat : w = W(c)
            BY <1>2
        <3>3. top = c
            <4>1. SUFFICES ASSUME top # c
                           PROVE  FALSE
                OBVIOUS
            <4>2. top \in labels \ {c} /\ W(top) \in Nat /\ w <= W(top)
                BY <1>2, <1>5, <2>1, <3>2, <4>1
            <4>3. (w - W(top)) * 100 > 500
                BY <3>1, <3>2, <4>2
            <4> QED
                BY <4>2, <4>3
        <3>4. PICK b \in labels \ {c} : W(b) = second
            BY <1>6, <2>1, <2>3, <3>3
        <3>5. second \in Nat /\ (w - second) * 100 > 500 /\ (w - second) * 100 > 15 * w
            BY <1>2, <3>1, <3>2, <3>4
        <3>6. ~ ((w - second) * 100 <= Max({500, 15 * w}))
            <4>1. 15 * w \in Nat
                OBVIOUS
            <4>2. Max({500, 15 * w}) \in {500, 15 * w}
                BY <1>7, <4>1
            <4> QED
                BY <3>5, <4>1, <4>2
        <3> QED
            BY <1>4, <2>1, <2>3, <3>1, <3>2, <3>3, <3>6
    <2> QED
        BY <2>2, <2>3
<1> QED
    BY <1>8, <1>9

(* A label that wins still wins with a vote more.                          *)
LEMMA AgreementWins ==
    ASSUME NEW votes, Measurable(votes), NEW weakest \in Nat, NEW c \in Labels,
           Wins(votes, weakest, c), NEW x, x \notin votes, x.label = c, x.weight \in Nat
    PROVE  Wins(votes \cup {x}, weakest, c)
<1> DEFINE more == votes \cup {x}
           labels == NamedLabels(votes)
           others == labels \ {c}
<1> PICK w \in Nat : w = x.weight
    OBVIOUS
<1> PICK W \in Nat : W = Weight(votes, c)
    BY WeightFacts
<1>1. /\ Measurable(more) /\ Weight(more, c) = w + W
      /\ \A b : b # c => Weight(more, b) = Weight(votes, b)
    BY OneVoteMore
<1>2. c \in labels /\ IsFiniteSet(labels)
    BY NamedAreFinite DEF Wins
<1>3. NamedLabels(more) = labels
    <2>1. {v.label : v \in more} = {v.label : v \in votes} \cup {c}
        OBVIOUS
    <2> QED
        BY <1>2, <2>1 DEF NamedLabels
<1>4. TotalOf(more, labels) = w + TotalOf(votes, labels) /\ TotalOf(votes, labels) \in Nat
      /\ TotalOf(votes, labels) >= 0
    <2> DEFINE f == [a \in labels |-> Weight(votes, a)]
               g == [a \in labels |-> Weight(more, a)]
    <2>1. IsFiniteSet(others) /\ c \notin others /\ others \cup {c} = labels
        BY <1>2, FS_Subset
    <2>2. \A a \in labels : f[a] \in Nat /\ g[a] \in Nat
        BY <1>1, WeightFacts
    <2>3. \A a \in others : g[a] = f[a]
        BY <1>1
    <2>4. f[c] = W /\ g[c] = w + W
        BY <1>1, <1>2
    <2> HIDE DEF f, g, others
    <2> PICK n \in Nat : n = SumFunctionOnSet(f, others)
        BY <2>1, <2>2, SumFacts
    <2>5. SumFunctionOnSet(g, others) = n
        BY <2>1, <2>2, <2>3, SumFacts
    <2>6. /\ SumFunctionOnSet(f, others \cup {c}) = f[c] + SumFunctionOnSet(f, others)
          /\ SumFunctionOnSet(g, others \cup {c}) = g[c] + SumFunctionOnSet(g, others)
        <3>1. \A a \in others : f[a] \in Nat /\ g[a] \in Nat
            BY <2>1, <2>2
        <3>2. f[c] \in Nat /\ g[c] \in Nat
            BY <1>2, <2>2
        <3> QED
            BY <2>1, <3>1, <3>2, SumFacts
    <2>7. SumFunctionOnSet(f, labels) = W + n /\ SumFunctionOnSet(g, labels) = (w + W) + n
        BY <2>1, <2>4, <2>5, <2>6
    <2>8. TotalOf(votes, labels) = SumFunctionOnSet(f, labels)
        BY DEF TotalOf, f
    <2>9. TotalOf(more, labels) = SumFunctionOnSet(g, labels)
        BY DEF TotalOf, g
    <2> QED
        BY <2>7, <2>8, <2>9
<1>5. CASE labels = {c}
    <2>1. W >= weakest
        BY <1>5 DEF Wins
    <2>2. Weight(more, c) >= weakest
        BY <1>1, <2>1
    <2>3. NamedLabels(more) = {c} /\ c \in NamedLabels(more)
        BY <1>3, <1>5
    <2> QED
        BY <2>2, <2>3 DEF Wins
<1>6. CASE labels # {c}
    <2>1. \A b \in others :
             (W - Weight(votes, b)) * 100 > 500 /\ (W - Weight(votes, b)) * 100 > 15 * W
        BY <1>6 DEF Wins
    <2>2. 5 * W >= 3 * TotalOf(votes, labels)
        BY <1>6 DEF Wins
    <2>3. ASSUME NEW b \in others
          PROVE  /\ (Weight(more, c) - Weight(more, b)) * 100 > 500
                 /\ (Weight(more, c) - Weight(more, b)) * 100 > 15 * Weight(more, c)
        <3> PICK u \in Nat : u = Weight(votes, b)
            BY WeightFacts
        <3>1. Weight(more, b) = u /\ (W - u) * 100 > 500 /\ (W - u) * 100 > 15 * W
            BY <1>1, <2>1
        <3>2. ((w + W) - u) * 100 > 500 /\ ((w + W) - u) * 100 > 15 * (w + W)
            BY <3>1
        <3> QED
            BY <1>1, <3>1, <3>2
    <2>4. 5 * Weight(more, c) >= 3 * TotalOf(more, labels)
        <3> PICK t \in Nat : t = TotalOf(votes, labels)
            BY <1>4
        <3>1. 5 * (w + W) >= 3 * (w + t)
            BY <2>2
        <3> QED
            BY <1>1, <1>4, <3>1
    <2> QED
        BY <1>2, <1>3, <1>6, <2>3, <2>4 DEF Wins
<1> QED
    BY <1>5, <1>6

(* In the flow a label that wins also wins with its own votes alone.       *)
LEMMA AgreeingAloneWin ==
    ASSUME NEW votes, Measurable(votes), NEW c \in Labels, Wins(votes, 0, c)
    PROVE  Wins({v \in votes : v.label = c}, 0, c)
<1> DEFINE agreeing == {v \in votes : v.label = c}
<1>1. Measurable(agreeing)
    BY FS_Subset DEF Measurable
<1>2. PICK v \in votes : v.label = c
    BY DEF Wins, NamedLabels
<1>3. NamedLabels(agreeing) = {c}
    BY <1>2 DEF NamedLabels
<1>4. Weight(agreeing, c) \in Nat
    BY <1>1, WeightFacts
<1>5. Weight(agreeing, c) >= 0
    BY <1>4
<1> QED
    BY <1>3, <1>5 DEF Wins

(* The votes of a track are finitely many and have natural weights, and    *)
(* none is of the crop 0 that AgreementCounts adds.                        *)
LEMMA VotesAreMeasurable ==
    ASSUME AttrInv, NEW a
    PROVE  Measurable(Votes(a)) /\ \A v \in Votes(a) : v.crop # 0
<1>1. given \in Seq(Crops) /\ made \in Seq(AnswersOf)
    BY DEF AttrInv, CallsCohere
<1>2. ASSUME NEW n \in DOMAIN made
      PROVE  made[n].crop \in Evidence
    <2>1. made[n] \in AnswersOf
        BY <1>1
    <2> QED
        BY <2>1 DEF AnswersOf
<1>3. \A n \in DOMAIN made : given[made[n].crop] \in Crops /\ made[n].crop # 0
    BY <1>1, <1>2, EvidenceIsGiven
<1>4. \A v \in Votes(a) : v.weight \in Nat /\ v.crop # 0
    BY <1>3 DEF Votes, Crops
<1> DEFINE S == {m \in DOMAIN made : made[m].attribute = a}
           g == [n \in S |-> [crop |-> made[n].crop, label |-> made[n].label,
                              weight |-> given[made[n].crop].quality]]
<1>5. IsFiniteSet(S)
    <2>1. DOMAIN made = 1 .. Len(made) /\ Len(made) \in Nat
        BY <1>1
    <2>2. IsFiniteSet(1 .. Len(made))
        BY <2>1, FS_Interval
    <2> QED
        BY <2>1, <2>2, FS_Subset
<1>6. (\A n \in S : g[n] \in Votes(a)) /\ (\A v \in Votes(a) : \E n \in S : g[n] = v)
    BY DEF Votes
<1>7. IsFiniteSet(Votes(a))
    <2> HIDE DEF S, g
    <2> QED
        BY <1>5, <1>6, FewValues
<1> QED
    BY <1>4, <1>7 DEF Measurable

(* Agreement never undoes a colour.                                        *)
LEMMA AgreementHolds == AttrInv => AgreementCounts
<1> SUFFICES ASSUME AttrInv, Answered, mode # "adaptive", result.colour \in Labels
             PROVE  AgreementCounts
    BY DEF AgreementCounts
<1> PICK votes : votes = Votes("colour")
    OBVIOUS
<1> PICK c \in Labels : c = result.colour
    OBVIOUS
<1> PICK least \in Nat : least = LeastWeight
    BY DEF LeastWeight
<1>1. Measurable(votes) /\ \A v \in votes : v.crop # 0
    BY VotesAreMeasurable
<1>2. Decision(votes, least) = c
    BY DEF AttrInv, ResultIsDerived
<1>3. Wins(votes, least, c)
    BY <1>1, <1>2, DecisionMeansWinning
<1>4. ASSUME NEW w \in {0, 20, 100}
      PROVE  Decision(votes \cup {[crop |-> 0, label |-> c, weight |-> w]}, least) = c
    <2> PICK x : x = [crop |-> 0, label |-> c, weight |-> w]
        OBVIOUS
    <2>1. x.crop = 0 /\ x.label = c /\ x.weight = w /\ w \in Nat
        OBVIOUS
    <2>2. x \notin votes
        BY <1>1, <2>1
    <2>3. Wins(votes \cup {x}, least, c)
        BY <1>1, <1>3, <2>1, <2>2, AgreementWins
    <2>4. Measurable(votes \cup {x})
        BY <1>1, <2>1, <2>2, OneVoteMore
    <2> QED
        BY <2>3, <2>4, DecisionMeansWinning
<1>5. ASSUME mode = "flow"
      PROVE  Decision({v \in votes : v.label = c}, least) = c
    <2>1. least = 0
        BY <1>5 DEF LeastWeight
    <2>2. Wins({v \in votes : v.label = c}, least, c)
        BY <1>1, <1>3, <2>1, AgreeingAloneWin
    <2>3. Measurable({v \in votes : v.label = c})
        BY <1>1, FS_Subset DEF Measurable
    <2> QED
        BY <2>2, <2>3, DecisionMeansWinning
<1> QED
    BY <1>4, <1>5 DEF AgreementCounts

(* A small crop was asked about only where the evidence had no other.      *)
LEMMA SmallCropsHold == AttrInv => SmallCropsAreLast
<1> SUFFICES ASSUME AttrInv, Answered, result.tier = "low_resolution"
             PROVE  \A i \in Evidence : ~ LargeEnough(i)
    BY DEF SmallCropsAreLast
<1>1. PICK n \in DOMAIN made : given[made[n].crop].tier = "below"
    BY DEF AttrInv, ResultIsDerived
<1>2. FairlyTaken(made[n].crop)
    BY DEF AttrInv, CallsCohere, CropsAreFair
<1> QED
    BY <1>1, <1>2 DEF FairlyTaken

(* The crops that were asked about are those of the answers.               *)
LEMMA AskedAreAnswers ==
    ASSUME NEW a
    PROVE  CropsAsked(a) = CropsIn(made, a)
<1> DEFINE vote(n) == [crop |-> made[n].crop, label |-> made[n].label,
                       weight |-> given[made[n].crop].quality]
<1>1. Votes(a) = {vote(n) : n \in {m \in DOMAIN made : made[m].attribute = a}}
    BY DEF Votes
<1>2. \A n : vote(n).crop = made[n].crop
    OBVIOUS
<1> HIDE DEF vote
<1>3. CropsAsked(a) = {vote(n).crop : n \in {m \in DOMAIN made : made[m].attribute = a}}
    BY <1>1 DEF CropsAsked
<1> QED
    BY <1>2, <1>3 DEF CropsIn

(* The crops of body calls are of a car and apart.                         *)
LEMMA BodiesHold == AttrInv => BodiesAreApart
<1> SUFFICES ASSUME AttrInv
             PROVE  BodiesAreApart
    OBVIOUS
<1> PICK B : B = CropsIn(made, "body")
    OBVIOUS
<1> PICK D : D = CropsIn(calls, "body") \cup B
    OBVIOUS
<1>1. /\ D # {} => vehicle = "CAR"
      /\ mode # "classifiers" =>
            \A i, j \in D : i # j => given[i].frame - given[j].frame \notin -2..2
    BY DEF AttrInv, CallsCohere, BodyCallsApart
<1>2. B \subseteq D /\ CropsAsked("body") = B
    BY AskedAreAnswers
<1> QED
    BY <1>1, <1>2 DEF BodiesAreApart

(* The rows account for the crops that were asked about and the others.    *)
LEMMA ColoursHold == AttrInv => ColoursAreAccounted
<1> SUFFICES ASSUME AttrInv
             PROVE  ColoursAreAccounted
    OBVIOUS
<1>1. ASSUME mode = "adaptive", NEW n \in DOMAIN made, NEW m \in DOMAIN made,
             n < m, made[n].attribute = "colour", made[m].attribute = "colour"
      PROVE  made[n].label \notin Labels
    BY <1>1 DEF AttrInv, CallsCohere, ColoursStop
<1>2. ASSUME Answered, mode # "classifiers", NEW i \in DOMAIN rowNotes
      PROVE  rowNotes[i] \in {"none", "missing_crop"} <=> i \in CropsAsked("colour")
    <2>1. calls = <<>>
        BY <1>2 DEF AttrInv, Answered
    <2>2. CropsIn(calls, "colour") = {}
        BY <2>1 DEF CropsIn
    <2>3. RowsFollow(calls, made, rowNotes)
        BY DEF AttrInv, CallsCohere
    <2>4. rowNotes[i] \in {"none", "missing_crop"} <=>
             i \in CropsIn(calls, "colour") \cup CropsIn(made, "colour")
        BY <1>2, <2>3 DEF RowsFollow
    <2> QED
        BY <2>2, <2>4, AskedAreAnswers
<1> QED
    BY <1>1, <1>2 DEF ColoursAreAccounted

-----------------------------------------------------------------------------
(* PlateOwnership                                                          *)

(* Every track has made its claim, and its fits are numbers.               *)
MeasuredClaims(in) ==
    /\ DOMAIN in = PlateTracks
    /\ \A t \in PlateTracks : in[t].frame \in Nat
    /\ \A t, u \in PlateTracks : in[t].fit[u] \in Nat

(* No frame between those of two tracks is followed by a gap that is wider *)
(* than the window: they are in one cluster of their group.                *)
LinkedTracks(in, group, t, u) ==
    \A v \in group :
        \/ in[t].frame <= in[v].frame /\ in[v].frame < in[u].frame
        \/ in[u].frame <= in[v].frame /\ in[v].frame < in[t].frame
        => \E w \in group : in[v].frame < in[w].frame /\ in[w].frame <= in[v].frame + Window

(* The tracks that keep their plate, without an order of arrival.          *)
KeptPlates(in) ==
    {t \in Remaining(in) : \A u \in Group(in, t) \ {t} :
        LinkedTracks(in, Group(in, t), t, u) => in[t].fit[t] - in[u].fit[u] >= ConflictMargin}

(* The claims of a group in the order of their frames, whichever arrived   *)
(* first (_resolve_plate_association_conflicts).                           *)
LEMMA OrderedFacts ==
    ASSUME NEW in, MeasuredClaims(in), NEW group \in SUBSET PlateTracks,
           NEW arrival \in SetToSeqs(PlateTracks)
    PROVE  LET s == Ordered(in, group, arrival)
               n == Cardinality(group)
           IN  /\ IsFiniteSet(group) /\ n \in Nat /\ s \in [1 .. n -> group]
               /\ \A i, j \in 1 .. n : i # j => s[i] # s[j]
               /\ \A x \in group : \E i \in 1 .. n : s[i] = x
               /\ \A i, j \in 1 .. n : i < j => in[s[i]].frame <= in[s[j]].frame
<1> DEFINE n == Cardinality(group)
           at(t) == CHOOSE i \in DOMAIN arrival : arrival[i] = t
           before(t, u) ==
            \/ in[t].frame < in[u].frame
            \/ in[t].frame = in[u].frame /\ in[t].fit[t] > in[u].fit[u]
            \/ in[t].frame = in[u].frame /\ in[t].fit[t] = in[u].fit[u] /\ at(t) < at(u)
           R == {p \in group \X group : before(p[1], p[2])}
<1>1. IsFiniteSet(group) /\ n \in Nat
    BY PlateAssumption, FS_Subset, FS_CardinalityType
<1>2. \A t \in PlateTracks : at(t) \in Nat /\ arrival[at(t)] = t
    <2>1. /\ arrival \in [1 .. Cardinality(PlateTracks) -> PlateTracks]
          /\ \A i, j \in 1 .. Cardinality(PlateTracks) : i # j => arrival[i] # arrival[j]
        BY DEF SetToSeqs
    <2>2. \A t \in PlateTracks : \E i \in 1 .. Cardinality(PlateTracks) : arrival[i] = t
        BY <2>1, PlateAssumption, ListingCovers
    <2>3. DOMAIN arrival = 1 .. Cardinality(PlateTracks)
        BY <2>1
    <2> QED
        BY <2>2, <2>3
<1> HIDE DEF at
<1>3. \A t \in group : in[t].frame \in Nat /\ in[t].fit[t] \in Nat /\ at(t) \in Nat
    BY <1>2 DEF MeasuredClaims
<1>4. \A t, u \in group : <<t, u>> \in R <=> before(t, u)
    OBVIOUS
<1> HIDE DEF R
<1>5. \A x \in group : <<x, x>> \notin R
    BY <1>3, <1>4
<1>6. \A x, y, z \in group : <<x, y>> \in R /\ <<y, z>> \in R => <<x, z>> \in R
    BY <1>3, <1>4
<1>7. \A x, y \in group : x # y => <<x, y>> \in R \/ <<y, x>> \in R
    <2>1. \A x, y \in group : x # y => at(x) # at(y)
        BY <1>2
    <2> QED
        BY <1>3, <1>4, <2>1
<1>8. PICK z \in [1 .. n -> group] :
         /\ \A i, j \in 1 .. n : i # j => z[i] # z[j]
         /\ \A i, j \in 1 .. n : i < j => <<z[i], z[j]>> \in R
    <2> HIDE DEF before
    <2> QED
        BY <1>1, <1>5, <1>6, <1>7, SortingExists
<1>9. \E s \in SetToSeqs(group) : \A i, j \in DOMAIN s : i < j => before(s[i], s[j])
    <2>1. z \in SetToSeqs(group)
        BY <1>8 DEF SetToSeqs
    <2>2. \A i, j \in DOMAIN z : i < j => before(z[i], z[j])
        <3> HIDE DEF before
        <3> QED
            BY <1>4, <1>8
    <2> HIDE DEF before
    <2> QED
        BY <2>1, <2>2
<1> DEFINE s == CHOOSE s \in SetToSeqs(group) : \A i, j \in DOMAIN s : i < j => before(s[i], s[j])
<1>10. s \in SetToSeqs(group) /\ \A i, j \in DOMAIN s : i < j => before(s[i], s[j])
    <2> HIDE DEF before
    <2> QED
        BY <1>9
<1>11. s = Ordered(in, group, arrival)
    BY DEF Ordered, at
<1> HIDE DEF s
<1>12. s \in [1 .. n -> group] /\ \A i, j \in 1 .. n : i # j => s[i] # s[j]
    BY <1>10 DEF SetToSeqs
<1>13. \A x \in group : \E i \in 1 .. n : s[i] = x
    BY <1>1, <1>12, ListingCovers
<1>14. ASSUME NEW i \in 1 .. n, NEW j \in 1 .. n, i < j
       PROVE  in[s[i]].frame <= in[s[j]].frame
    <2>1. s[i] \in group /\ s[j] \in group /\ before(s[i], s[j])
        BY <1>10, <1>12, <1>14
    <2> QED
        BY <1>3, <2>1
<1> QED
    BY <1>1, <1>11, <1>12, <1>13, <1>14

(* The owner of a cluster is the claim that beats all others by the        *)
(* margin, if there is one.                                                *)
LEMMA ClusterOwnersFacts ==
    ASSUME NEW in, MeasuredClaims(in), NEW n \in Nat, n # 0,
           NEW c \in [1 .. n -> PlateTracks]
    PROVE  \A x : x \in ClusterOwners(in, c) <=>
              \E k \in 1 .. n : x = c[k] /\
                 \A j \in 1 .. n \ {k} : in[c[k]].fit[c[k]] - in[c[j]].fit[c[j]] >= ConflictMargin
<1> DEFINE fit(i) == in[c[i]].fit[c[i]]
           best(i) == \A j \in 1 .. n : fit(i) > fit(j) \/ (fit(i) = fit(j) /\ i <= j)
           winner == CHOOSE i \in DOMAIN c :
                      \A j \in DOMAIN c : fit(i) > fit(j) \/ (fit(i) = fit(j) /\ i <= j)
           V == 1 .. n
           R == {p \in V \X V : fit(p[1]) > fit(p[2]) \/ (fit(p[1]) = fit(p[2]) /\ p[1] < p[2])}
<1>1. DOMAIN c = V /\ c \in Seq(PlateTracks) /\ Len(c) = n
    OBVIOUS
<1>2. \A i \in V : fit(i) \in Nat
    BY DEF MeasuredClaims
<1>3. ConflictMargin \in Nat /\ ConflictMargin >= 1
    BY PlateAssumption
<1> HIDE DEF fit
<1>4. IsFiniteSet(V) /\ V # {}
    <2>1. 1 \in Int /\ n \in Int
        OBVIOUS
    <2>2. IsFiniteSet(1 .. n)
        BY <2>1, FS_Interval
    <2>3. 1 \in V
        OBVIOUS
    <2> QED
        BY <2>2, <2>3
<1>5. \E w \in V : best(w)
    <2>1. \A x, y \in V : <<x, y>> \in R <=> fit(x) > fit(y) \/ (fit(x) = fit(y) /\ x < y)
        OBVIOUS
    <2> HIDE DEF R
    <2>2. \A x \in V : <<x, x>> \notin R
        BY <1>2, <2>1
    <2>3. \A x, y, z \in V : <<x, y>> \in R /\ <<y, z>> \in R => <<x, z>> \in R
        BY <1>2, <2>1
    <2>4. PICK w \in V : \A y \in V : <<y, w>> \notin R
        <3> HIDE DEF V
        <3> QED
            BY <1>4, <2>2, <2>3, MinimalElement
    <2>5. ASSUME NEW j \in V
          PROVE  fit(w) > fit(j) \/ (fit(w) = fit(j) /\ w <= j)
        <3>1. ~ (fit(j) > fit(w)) /\ ~ (fit(j) = fit(w) /\ j < w)
            BY <2>1, <2>4
        <3> QED
            BY <1>2, <3>1
    <2> QED
        BY <2>5
<1>6. winner \in V /\ best(winner)
    <2>1. winner = CHOOSE i \in V : best(i)
        BY <1>1
    <2> HIDE DEF winner, best
    <2> QED
        BY <1>5, <2>1
<1>7. ClusterOwners(in, c) =
        IF Len(c) <= 1 THEN Range(c)
        ELSE IF \E i \in V \ {winner} : fit(winner) - fit(i) < ConflictMargin
        THEN {} ELSE {c[winner]}
    BY <1>1 DEF ClusterOwners, fit
<1> HIDE DEF winner
<1>8. SUFFICES ASSUME NEW x
               PROVE  x \in ClusterOwners(in, c) <=>
                        \E k \in V : x = c[k] /\
                           \A j \in V \ {k} : fit(k) - fit(j) >= ConflictMargin
    BY DEF fit
<1>9. CASE n = 1
    <2>1. V = {1}
        BY <1>9
    <2>2. Range(c) = {c[1]}
        BY <1>1, <2>1 DEF Range
    <2>3. ClusterOwners(in, c) = {c[1]}
        BY <1>1, <1>7, <1>9, <2>2
    <2> HIDE DEF V
    <2> QED
        BY <2>1, <2>3
<1>10. CASE n # 1
    <2>1. ~ (Len(c) <= 1)
        BY <1>1, <1>10
    <2>2. ASSUME NEW k \in V, \A j \in V \ {k} : fit(k) - fit(j) >= ConflictMargin
          PROVE  k = winner
        <3>1. SUFFICES ASSUME k # winner PROVE FALSE
            OBVIOUS
        <3>2. fit(k) - fit(winner) >= ConflictMargin
            BY <1>6, <2>2, <3>1
        <3>3. fit(winner) >= fit(k)
            BY <1>2, <1>6
        <3> HIDE DEF V, best
        <3> QED
            BY <1>2, <1>3, <1>6, <3>2, <3>3
    <2>3. CASE \E i \in V \ {winner} : fit(winner) - fit(i) < ConflictMargin
        <3>1. ClusterOwners(in, c) = {}
            BY <1>7, <2>1, <2>3
        <3>2. PICK i \in V \ {winner} : fit(winner) - fit(i) < ConflictMargin
            BY <2>3
        <3>3. ~ (fit(winner) - fit(i) >= ConflictMargin)
            BY <1>2, <1>3, <1>6, <3>2
        <3> HIDE DEF V, best
        <3> QED
            BY <2>2, <3>1, <3>2, <3>3
    <2>4. CASE \A i \in V \ {winner} : ~ (fit(winner) - fit(i) < ConflictMargin)
        <3>1. ClusterOwners(in, c) = {c[winner]}
            BY <1>7, <2>1, <2>4
        <3>2. \A i \in V \ {winner} : fit(winner) - fit(i) >= ConflictMargin
            BY <1>2, <1>3, <1>6, <2>4
        <3> HIDE DEF V, best
        <3> QED
            BY <1>6, <2>2, <3>1, <3>2
    <2> QED
        BY <2>3, <2>4
<1> QED
    BY <1>9, <1>10

(* The tracks that claim one plate are one group for each of them.         *)
LEMMA GroupFacts ==
    ASSUME NEW in, MeasuredClaims(in), NEW t \in Remaining(in), NEW x \in Group(in, t)
    PROVE  /\ Remaining(in) \subseteq PlateTracks
           /\ Group(in, t) \subseteq Remaining(in)
           /\ x \in Remaining(in) /\ x \in Group(in, x) /\ Group(in, x) = Group(in, t)
    BY DEF MeasuredClaims, Remaining, Group

(* The owner of a cluster is kept, whatever the order of arrival.          *)
LEMMA ClusterOwnersAreKept ==
    ASSUME NEW in, MeasuredClaims(in), NEW t \in Remaining(in),
           NEW arrival \in SetToSeqs(PlateTracks),
           NEW c \in Clusters(in, Ordered(in, Group(in, t), arrival)),
           NEW x \in ClusterOwners(in, c)
    PROVE  x \in KeptPlates(in)
<1> DEFINE G == Group(in, t)
           s == Ordered(in, G, arrival)
           n == Cardinality(G)
           fit(y) == in[y].fit[y]
           F(y) == in[y].frame
<1>1. G \subseteq PlateTracks /\ G \subseteq Remaining(in)
    BY GroupFacts, t \in Group(in, t) DEF Group
<1>2. /\ n \in Nat /\ s \in [1 .. n -> G]
      /\ \A y \in G : \E i \in 1 .. n : s[i] = y
      /\ \A i, j \in 1 .. n : i < j => F(s[i]) <= F(s[j])
    BY <1>1, OrderedFacts
<1>3. \A y \in PlateTracks : F(y) \in Nat /\ fit(y) \in Nat
    BY DEF MeasuredClaims
<1>4. Window \in Nat
    BY PlateAssumption
<1>5. PICK a \in 1 .. n, b \in 1 .. n :
         /\ a = 1 \/ Apart(in, s, a)
         /\ b = n \/ Apart(in, s, b + 1)
         /\ a <= b
         /\ c = SubSeq(s, a, b)
    <2>1. DOMAIN s = 1 .. n /\ Len(s) = n
        BY <1>2
    <2> HIDE DEF s
    <2> QED
        BY <2>1 DEF Clusters, s
<1> HIDE DEF G, n, s
<1>6. /\ c \in [1 .. b - a + 1 -> G]
      /\ \A k \in 1 .. b - a + 1 : a + k - 1 \in a .. b /\ c[k] = s[a + k - 1]
      /\ \A m \in a .. b : m - a + 1 \in 1 .. b - a + 1 /\ c[m - a + 1] = s[m]
    <2>1. n \in Nat /\ s \in [1 .. n -> G] /\ a <= b
        BY <1>2, <1>5
    <2>2. IsPart(SubSeq(s, a, b), s, a, b, G)
        BY <2>1, ClusterMembers
    <2> QED
        BY <1>5, <2>2 DEF IsPart
<1>7. PICK k \in 1 .. b - a + 1 : x = c[k] /\
         \A j \in 1 .. b - a + 1 \ {k} : fit(c[k]) - fit(c[j]) >= ConflictMargin
    <2>1. b - a + 1 \in Nat /\ b - a + 1 # 0
        BY <1>2, <1>5
    <2>2. c \in [1 .. b - a + 1 -> PlateTracks]
        BY <1>1, <1>6
    <2> QED
        BY <2>1, <2>2, ClusterOwnersFacts
<1> DEFINE p == a + k - 1
<1>8. p \in a .. b /\ p \in 1 .. n /\ x = s[p] /\ x \in G
    BY <1>2, <1>5, <1>6, <1>7
<1>9. x \in Remaining(in) /\ Group(in, x) = G
    BY <1>8, GroupFacts DEF G
<1> HIDE DEF p
<1>10. ASSUME NEW u \in G \ {x}, LinkedTracks(in, G, x, u)
       PROVE  fit(x) - fit(u) >= ConflictMargin
    <2>1. PICK m \in 1 .. n : s[m] = u
        BY <1>2
    <2>2. m # p
        BY <1>8, <2>1
    <2> DEFINE f == [i \in 1 .. n |-> F(s[i])]
    <2>3. /\ f \in [1 .. n -> Nat]
          /\ \A i, j \in 1 .. n : i < j => f[i] <= f[j]
          /\ \A i \in 1 .. n : f[i] = F(s[i])
        BY <1>1, <1>2, <1>3
    <2>4. ASSUME NEW i \in 2 .. n, Apart(in, s, i),
                 \/ F(x) <= F(s[i - 1]) /\ F(s[i]) <= F(u)
                 \/ F(u) <= F(s[i - 1]) /\ F(s[i]) <= F(x)
          PROVE  FALSE
        <3>1. i \in 1 .. n /\ i - 1 \in 1 .. n
            BY <1>2
        <3>2. f[i] - f[i - 1] > Window /\ f[i] \in Nat /\ f[i - 1] \in Nat
            BY <2>3, <2>4, <3>1 DEF Apart
        <3>3. f[i - 1] = F(s[i - 1]) /\ f[i] = F(s[i]) /\ s[i - 1] \in G
            BY <1>2, <2>3, <3>1
        <3> HIDE DEF f
        <3>4. \A q \in 1 .. n : ~ (f[i - 1] < f[q] /\ f[q] <= f[i - 1] + Window)
            BY <1>2, <1>4, <2>3, <3>2, GapSeparates
        <3>5. F(x) \in Nat /\ F(u) \in Nat
            BY <1>1, <1>3, <1>8
        <3>6. \/ F(x) <= F(s[i - 1]) /\ F(s[i - 1]) < F(u)
              \/ F(u) <= F(s[i - 1]) /\ F(s[i - 1]) < F(x)
            <4>1. F(s[i - 1]) < F(s[i])
                BY <1>4, <3>2, <3>3
            <4>2. F(s[i - 1]) \in Nat /\ F(s[i]) \in Nat
                BY <3>2, <3>3
            <4> HIDE DEF F
            <4> QED
                BY <2>4, <3>5, <4>1, <4>2
        <3>7. PICK w \in G : F(s[i - 1]) < F(w) /\ F(w) <= F(s[i - 1]) + Window
            BY <1>10, <3>3, <3>6 DEF LinkedTracks
        <3>8. PICK q \in 1 .. n : s[q] = w
            BY <1>2
        <3>9. f[q] = F(w)
            BY <2>3, <3>8
        <3> QED
            BY <3>3, <3>4, <3>7, <3>9
    <2> HIDE DEF F
    <2>5. \A i, j \in 1 .. n : i <= j => F(s[i]) <= F(s[j])
        <3>1. \A i \in 1 .. n : F(s[i]) \in Nat
            BY <1>1, <1>2, <1>3
        <3> QED
            BY <1>2, <3>1
    <2>6. ~ (m > b)
        <3>1. SUFFICES ASSUME m > b PROVE FALSE
            OBVIOUS
        <3>2. b # n /\ b + 1 \in 2 .. n /\ b + 1 <= m /\ p <= b /\ b + 1 - 1 = b /\ b + 1 \in 1 .. n
            BY <1>2, <1>8, <3>1
        <3>3. F(x) <= F(s[b]) /\ F(s[b + 1]) <= F(u)
            BY <1>8, <2>1, <2>5, <3>2
        <3> QED
            BY <1>5, <2>4, <3>2, <3>3
    <2>7. ~ (m < a)
        <3>1. SUFFICES ASSUME m < a PROVE FALSE
            OBVIOUS
        <3>2. a # 1 /\ a \in 2 .. n /\ m <= a - 1 /\ a <= p /\ a - 1 \in 1 .. n
            BY <1>2, <1>8, <3>1
        <3>3. F(u) <= F(s[a - 1]) /\ F(s[a]) <= F(x)
            BY <1>8, <2>1, <2>5, <3>2
        <3> QED
            BY <1>5, <2>4, <3>2, <3>3
    <2>8. m \in a .. b /\ m - a + 1 \in 1 .. b - a + 1 /\ c[m - a + 1] = u
        BY <1>2, <1>6, <2>1, <2>6, <2>7
    <2>9. m - a + 1 # k
        BY <1>6, <1>7, <1>8, <2>2, <2>8 DEF p
    <2> QED
        BY <1>7, <2>8, <2>9
<1> QED
    BY <1>9, <1>10 DEF KeptPlates

(* A track that is kept owns a cluster, whatever the order of arrival.     *)
LEMMA KeptIsClusterOwner ==
    ASSUME NEW in, MeasuredClaims(in), NEW x \in KeptPlates(in),
           NEW arrival \in SetToSeqs(PlateTracks)
    PROVE  \E c \in Clusters(in, Ordered(in, Group(in, x), arrival)) : x \in ClusterOwners(in, c)
<1> DEFINE G == Group(in, x)
           s == Ordered(in, G, arrival)
           n == Cardinality(G)
           fit(y) == in[y].fit[y]
           F(y) == in[y].frame
           Gaps == {i \in 2 .. n : Apart(in, s, i)}
<1>1. x \in Remaining(in) /\ x \in G /\ G \subseteq PlateTracks
    BY GroupFacts DEF KeptPlates, Group
<1>2. /\ n \in Nat /\ s \in [1 .. n -> G]
      /\ \A i, j \in 1 .. n : i # j => s[i] # s[j]
      /\ \A y \in G : \E i \in 1 .. n : s[i] = y
      /\ \A i, j \in 1 .. n : i < j => F(s[i]) <= F(s[j])
    BY <1>1, OrderedFacts
<1>3. \A y \in PlateTracks : F(y) \in Nat /\ fit(y) \in Nat
    BY DEF MeasuredClaims
<1>4. Window \in Nat
    BY PlateAssumption
<1>5. PICK p \in 1 .. n : s[p] = x
    BY <1>1, <1>2
<1> HIDE DEF G, n, s
<1>6. PICK a \in 1 .. n, b \in 1 .. n : a <= p /\ p <= b /\ BetweenGaps(Gaps, n, a, b)
    <2> HIDE DEF Gaps
    <2>1. n \in Nat
        BY <1>2
    <2> QED
        BY <2>1, SpanAround
<1>7. /\ a = 1 \/ Apart(in, s, a)
      /\ b = n \/ Apart(in, s, b + 1)
      /\ \A k \in a + 1 .. b : ~ Apart(in, s, k)
    <2>1. \A k \in a + 1 .. b : k \in 2 .. n
        BY <1>2
    <2>2. \A k \in Gaps : Apart(in, s, k)
        OBVIOUS
    <2>3. \A k \in 2 .. n : Apart(in, s, k) => k \in Gaps
        OBVIOUS
    <2> HIDE DEF Gaps
    <2> QED
        BY <1>6, <2>1, <2>2, <2>3 DEF BetweenGaps
<1> DEFINE c == SubSeq(s, a, b)
<1>8. c \in Clusters(in, s)
    <2>1. DOMAIN s = 1 .. n /\ Len(s) = n
        BY <1>2
    <2>2. a <= b
        BY <1>2, <1>6
    <2> DEFINE starts == {i \in DOMAIN s : i = 1 \/ Apart(in, s, i)}
               ends == {i \in DOMAIN s : i = Len(s) \/ Apart(in, s, i + 1)}
    <2>3. <<a, b>> \in starts \X ends
        BY <1>7, <2>1
    <2> HIDE DEF starts, ends
    <2>4. <<a, b>> \in {e \in starts \X ends :
                      e[1] <= e[2] /\ \A i \in e[1] + 1 .. e[2] : ~ Apart(in, s, i)}
        BY <1>7, <2>2, <2>3
    <2> DEFINE spans == {e \in starts \X ends :
                      e[1] <= e[2] /\ \A i \in e[1] + 1 .. e[2] : ~ Apart(in, s, i)}
    <2>5. <<a, b>> \in spans /\ c = SubSeq(s, <<a, b>>[1], <<a, b>>[2])
        BY <2>4
    <2> HIDE DEF spans
    <2>6. c \in {SubSeq(s, e[1], e[2]) : e \in spans}
        <3> PICK e \in spans : e = <<a, b>>
            BY <2>5
        <3> QED
            BY <2>5, Zenon
    <2> QED
        BY <2>6, Zenon DEF Clusters, starts, ends, spans
<1> HIDE DEF c
<1>9. /\ c \in [1 .. b - a + 1 -> G]
      /\ \A k \in 1 .. b - a + 1 : a + k - 1 \in a .. b /\ c[k] = s[a + k - 1]
      /\ \A m \in a .. b : m - a + 1 \in 1 .. b - a + 1 /\ c[m - a + 1] = s[m]
    <2>1. n \in Nat /\ s \in [1 .. n -> G] /\ a <= b
        BY <1>2, <1>6
    <2>2. IsPart(SubSeq(s, a, b), s, a, b, G)
        BY <2>1, ClusterMembers
    <2> QED
        BY <2>2 DEF IsPart, c
<1> DEFINE k == p - a + 1
<1>10. k \in 1 .. b - a + 1 /\ c[k] = x
    <2>1. p \in a .. b
        BY <1>2, <1>6
    <2> QED
        BY <1>5, <1>9, <2>1
<1>11. ASSUME NEW j \in 1 .. b - a + 1 \ {k}
       PROVE  fit(x) - fit(c[j]) >= ConflictMargin
    <2> DEFINE m == a + j - 1
    <2>1. m \in a .. b /\ m \in 1 .. n /\ c[j] = s[m] /\ m # p
        <3>1. m \in a .. b /\ c[j] = s[m]
            BY <1>9
        <3>2. j # k /\ j \in Int /\ j = m - a + 1
            BY <1>2
        <3> HIDE DEF m
        <3>3. m # p
            BY <3>2
        <3>4. m \in 1 .. n
            BY <1>2, <1>6, <3>1
        <3> QED
            BY <3>1, <3>3, <3>4
    <2>2. s[m] \in G \ {x}
        BY <1>2, <1>5, <2>1
    <2> HIDE DEF m
    <2> DEFINE f == [i \in 1 .. n |-> F(s[i])]
    <2>3. /\ f \in [1 .. n -> Nat]
          /\ \A i, l \in 1 .. n : i < l => f[i] <= f[l]
          /\ \A i \in 1 .. n : f[i] = F(s[i])
        BY <1>1, <1>2, <1>3
    <2>4. \A i \in a + 1 .. b : f[i] - f[i - 1] <= Window
        <3>1. SUFFICES ASSUME NEW i \in a + 1 .. b PROVE f[i] - f[i - 1] <= Window
            OBVIOUS
        <3>2. i \in 1 .. n /\ i - 1 \in 1 .. n
            BY <1>2, <1>6
        <3>3. ~ (f[i] - f[i - 1] > Window) /\ f[i] \in Nat /\ f[i - 1] \in Nat
            BY <1>7, <2>3, <3>2 DEF Apart
        <3> QED
            BY <1>4, <3>3
    <2>5. ASSUME NEW v \in G,
                 \/ F(x) <= F(v) /\ F(v) < F(s[m])
                 \/ F(s[m]) <= F(v) /\ F(v) < F(x)
          PROVE  \E w \in G : F(v) < F(w) /\ F(w) <= F(v) + Window
        <3>1. PICK q \in 1 .. n : s[q] = v
            BY <1>2
        <3>2. f[q] = F(v) /\ f[p] = F(x) /\ f[m] = F(s[m])
            BY <1>5, <2>1, <2>3, <3>1
        <3> HIDE DEF f, F
        <3>3. \E r \in 1 .. n : f[q] < f[r] /\ f[r] <= f[q] + Window
            <4>1. CASE f[p] <= f[q] /\ f[q] < f[m]
                <5>1. \A i \in p + 1 .. m : f[i] - f[i - 1] <= Window
                    BY <1>2, <1>6, <2>1, <2>4
                <5> QED
                    BY <1>2, <1>4, <2>1, <2>3, <4>1, <5>1, NoGapAcross
            <4>2. CASE f[m] <= f[q] /\ f[q] < f[p]
                <5>1. \A i \in m + 1 .. p : f[i] - f[i - 1] <= Window
                    BY <1>2, <1>6, <2>1, <2>4
                <5> QED
                    BY <1>2, <1>4, <2>1, <2>3, <4>2, <5>1, NoGapAcross
            <4> QED
                BY <2>5, <3>2, <4>1, <4>2
        <3>4. PICK r \in 1 .. n : f[q] < f[r] /\ f[r] <= f[q] + Window
            BY <3>3
        <3>5. f[r] = F(s[r]) /\ s[r] \in G
            BY <1>2, <2>3
        <3> QED
            BY <3>2, <3>4, <3>5
    <2>6. LinkedTracks(in, G, x, s[m])
        BY <2>5 DEF LinkedTracks
    <2> QED
        BY <2>1, <2>2, <2>6 DEF KeptPlates, G
<1>12. x \in ClusterOwners(in, c)
    <2>1. b - a + 1 \in Nat /\ b - a + 1 # 0
        BY <1>2, <1>6
    <2>3. c \in [1 .. b - a + 1 -> PlateTracks]
        BY <1>1, <1>9
    <2>2. \A j \in 1 .. b - a + 1 \ {k} : fit(c[k]) - fit(c[j]) >= ConflictMargin
        BY <1>10, <1>11
    <2> HIDE DEF k
    <2> QED
        BY <1>10, <2>1, <2>2, <2>3, ClusterOwnersFacts
<1> QED
    BY <1>8, <1>12 DEF s, G

(* So the order in which the tracks arrive does not matter.                *)
LEMMA ResolveIsKept ==
    ASSUME NEW in, MeasuredClaims(in), NEW arrival \in SetToSeqs(PlateTracks)
    PROVE  Resolve(in, arrival) = KeptPlates(in)
<1>1. Resolve(in, arrival) \subseteq KeptPlates(in)
    BY ClusterOwnersAreKept DEF Resolve
<1>2. \A x \in KeptPlates(in) : x \in Remaining(in)
    BY DEF KeptPlates
<1>3. KeptPlates(in) \subseteq Resolve(in, arrival)
    BY <1>2, KeptIsClusterOwner DEF Resolve
<1> QED
    BY <1>1, <1>3

(* What every step of the association keeps.                               *)
PlateInv ==
    /\ DOMAIN claims \subseteq PlateTracks
    /\ \A t \in DOMAIN claims :
          claims[t].frame \in Nat /\ \A u \in PlateTracks : claims[t].fit[u] \in Nat
    /\ Resolved => DOMAIN claims = PlateTracks /\ owners = KeptPlates(claims)

(* It holds when no claim has been made.                                   *)
LEMMA PlateInitially == PlateInit => PlateInv
    BY DEF PlateInit, PlateInv, Resolved

(* Every step keeps it.                                                    *)
LEMMA PlateStep == PlateInv /\ [PlateNext]_plateVars => PlateInv'
<1> SUFFICES ASSUME PlateInv, [PlateNext]_plateVars
             PROVE  PlateInv'
    OBVIOUS
<1>1. CASE AddResult
    <2>1. owners' = owners /\ owners = Unresolved
        BY <1>1 DEF AddResult
    <2>2. PICK t \in PlateTracks \ DOMAIN claims, c \in PlateCameras,
          p \in PlateTexts \cup {"none"}, f \in PlateFrames, own \in OwnScores :
         \E fit \in [PlateTracks -> {0, own} \cup OtherScores] :
            claims' = [u \in DOMAIN claims \cup {t} |->
                             IF u = t THEN [camera |-> c, plate |-> p, frame |-> f, fit |-> fit]
                             ELSE claims[u]]
        BY <1>1 DEF AddResult
    <2>3. PICK fit \in [PlateTracks -> {0, own} \cup OtherScores] :
            claims' = [u \in DOMAIN claims \cup {t} |->
                             IF u = t THEN [camera |-> c, plate |-> p, frame |-> f, fit |-> fit]
                             ELSE claims[u]]
        BY <2>2
    <2>4. f \in Nat /\ \A u \in PlateTracks : fit[u] \in Nat
        <3>1. own \in Nat /\ OtherScores \subseteq Nat /\ PlateFrames \subseteq Nat
            BY PlateAssumption
        <3>2. {0, own} \cup OtherScores \subseteq Nat
            BY <3>1
        <3>3. \A u \in PlateTracks : fit[u] \in {0, own} \cup OtherScores
            OBVIOUS
        <3>4. f \in Nat
            BY <3>1
        <3> QED
            BY <3>2, <3>3, <3>4
    <2> PICK r : r = [camera |-> c, plate |-> p, frame |-> f, fit |-> fit]
        OBVIOUS
    <2>5. r.frame = f /\ r.fit = fit
        OBVIOUS
    <2>6. /\ DOMAIN claims' = DOMAIN claims \cup {t}
          /\ \A u \in DOMAIN claims' : claims'[u] = IF u = t THEN r ELSE claims[u]
        BY <2>3
    <2>7. DOMAIN claims' \subseteq PlateTracks
        BY <2>6 DEF PlateInv
    <2>8. \A u \in DOMAIN claims' :
             claims'[u].frame \in Nat /\ \A v \in PlateTracks : claims'[u].fit[v] \in Nat
        BY <2>4, <2>5, <2>6 DEF PlateInv
    <2> QED
        BY <2>1, <2>7, <2>8 DEF PlateInv, Resolved
<1>2. CASE ResolvePlates
    <2>1. claims' = claims /\ DOMAIN claims = PlateTracks
        BY <1>2 DEF ResolvePlates
    <2>2. PICK arrival \in SetToSeqs(PlateTracks) : owners' = Resolve(claims, arrival)
        BY <1>2 DEF ResolvePlates
    <2>3. MeasuredClaims(claims)
        BY <2>1 DEF PlateInv, MeasuredClaims
    <2>4. owners' = KeptPlates(claims)
        BY <2>2, <2>3, ResolveIsKept
    <2>5. KeptPlates(claims)' = KeptPlates(claims)
        BY <2>1
    <2> QED
        BY <2>1, <2>4, <2>5 DEF PlateInv
<1>3. CASE UNCHANGED plateVars
    <2>1. claims' = claims /\ owners' = owners
        BY <1>3 DEF plateVars
    <2>2. KeptPlates(claims)' = KeptPlates(claims)
        BY <2>1
    <2> QED
        BY <2>1, <2>2 DEF PlateInv, Resolved
<1> QED
    BY <1>1, <1>2, <1>3 DEF PlateNext

(* Two kept rivals would each have to beat the other.                      *)
LEMMA OneOwnerHolds == PlateInv => OneOwnerPerPlate
<1> SUFFICES ASSUME PlateInv, Resolved
             PROVE  OneOwnerPerPlate
    BY DEF OneOwnerPerPlate
<1> DEFINE F(t) == claims[t].frame
           fit(t, u) == claims[t].fit[u]
<1>1. DOMAIN claims = PlateTracks /\ owners = KeptPlates(claims)
    BY DEF PlateInv
<1>2. \A t \in PlateTracks : F(t) \in Nat /\ \A u \in PlateTracks : fit(t, u) \in Nat
    BY <1>1 DEF PlateInv
<1>3. MeasuredClaims(claims)
    BY <1>1, <1>2 DEF MeasuredClaims
<1>4. KeptPlates(claims) \subseteq Remaining(claims) /\ Remaining(claims) \subseteq PlateTracks
    BY <1>1 DEF KeptPlates, Remaining
<1>5. /\ Window \in Nat /\ ConflictMargin \in Nat /\ ConflictMargin >= 1
      /\ OwnerMargin \in Nat /\ OwnerMargin >= 1
    BY PlateAssumption
<1>6. ASSUME NEW t \in owners, NEW u \in owners, Rivals(t, u),
             F(t) - F(u) \in -Window .. Window
      PROVE  FALSE
    <2>1. t \in Remaining(claims) /\ u \in Remaining(claims)
        BY <1>1, <1>4
    <2>2. u \in Group(claims, t) \ {t} /\ t \in Group(claims, u) \ {u}
        BY <1>6, <2>1 DEF Group, Rivals
    <2>3. t \in PlateTracks /\ u \in PlateTracks /\ F(t) \in Nat /\ F(u) \in Nat
        BY <1>2, <1>4, <2>1
    <2>4. F(t) <= F(u) + Window /\ F(u) <= F(t) + Window
        BY <1>5, <1>6, <2>3
    <2>5. ASSUME NEW G \in SUBSET PlateTracks, t \in G, u \in G
          PROVE  LinkedTracks(claims, G, t, u) /\ LinkedTracks(claims, G, u, t)
        <3>1. \A v \in G : F(v) \in Nat
            BY <1>2
        <3>2. \A v \in G : F(t) <= F(v) /\ F(v) < F(u) => F(v) < F(u) /\ F(u) <= F(v) + Window
            BY <1>5, <2>3, <2>4, <3>1
        <3>3. \A v \in G : F(u) <= F(v) /\ F(v) < F(t) => F(v) < F(t) /\ F(t) <= F(v) + Window
            BY <1>5, <2>3, <2>4, <3>1
        <3> QED
            BY <2>5, <3>2, <3>3 DEF LinkedTracks
    <2>6. /\ Group(claims, t) \subseteq PlateTracks /\ Group(claims, u) \subseteq PlateTracks
          /\ t \in Group(claims, t) /\ u \in Group(claims, u)
        BY <1>4, <2>1 DEF Group
    <2>7. fit(t, t) - fit(u, u) >= ConflictMargin
        BY <1>1, <2>2, <2>5, <2>6 DEF KeptPlates
    <2>8. fit(u, u) - fit(t, t) >= ConflictMargin
        BY <1>1, <2>2, <2>5, <2>6 DEF KeptPlates
    <2>9. fit(t, t) \in Nat /\ fit(u, u) \in Nat
        BY <1>2, <2>3
    <2> HIDE DEF fit
    <2> QED
        BY <1>5, <2>7, <2>8, <2>9
<1>7. ASSUME NEW t \in owners, NEW u \in PlateTracks,
             F(t) > 0, claims[u].camera = claims[t].camera, F(u) = F(t)
      PROVE  fit(t, u) - fit(t, t) < OwnerMargin
    <2>1. t \in Remaining(claims) /\ t \in PlateTracks /\ ~ Borrowed(claims, t)
        BY <1>1, <1>4 DEF Remaining
    <2>2. F(t) \in Nat /\ fit(t, u) \in Nat /\ fit(t, t) \in Nat
        BY <1>2, <2>1
    <2>3. FrameOf(claims[t]) = F(t) /\ FrameOf(claims[u]) = F(t) /\ F(t) >= 0
        BY <1>7, <2>2 DEF FrameOf
    <2>4. t \in FrameOwners(claims, t) /\ u \in FrameOwners(claims, t)
        BY <1>1, <1>7, <2>1, <2>3 DEF FrameOwners
    <2>5. CASE fit(t, u) > 0
        <3>1. ~ (fit(t, u) - fit(t, t) >= OwnerMargin)
            BY <2>1, <2>4, <2>5 DEF Borrowed
        <3> QED
            BY <1>5, <2>2, <3>1
    <2>6. CASE ~ (fit(t, u) > 0)
        BY <1>5, <2>2, <2>6
    <2> QED
        BY <2>5, <2>6
<1> QED
    BY <1>6, <1>7 DEF OneOwnerPerPlate

(* A track that is not kept has a rival as close.                          *)
LEMMA DecisionsFairHolds == PlateInv => DecisionsAreFair
<1> SUFFICES ASSUME PlateInv, Resolved
             PROVE  DecisionsAreFair
    BY DEF DecisionsAreFair
<1>1. DOMAIN claims = PlateTracks /\ owners = KeptPlates(claims)
    BY DEF PlateInv
<1>2. MeasuredClaims(claims)
    BY <1>1 DEF PlateInv, MeasuredClaims
<1>3. \A arrival \in SetToSeqs(PlateTracks) : Resolve(claims, arrival) = owners
    BY <1>1, <1>2, ResolveIsKept
<1>4. ASSUME NEW t \in Remaining(claims) \ owners
      PROVE  \E u \in Remaining(claims) : Rivals(t, u) /\
                 claims[u].fit[u] > claims[t].fit[t] - ConflictMargin
    <2>1. PICK u \in Group(claims, t) \ {t} :
             ~ (claims[t].fit[t] - claims[u].fit[u] >= ConflictMargin)
        BY <1>1, <1>4 DEF KeptPlates
    <2>2. u \in Remaining(claims) /\ Rivals(t, u)
        BY <2>1 DEF Group, Rivals
    <2>3. t \in PlateTracks /\ u \in PlateTracks
        BY <1>1, <2>2 DEF Remaining
    <2>4. claims[t].fit[t] \in Nat /\ claims[u].fit[u] \in Nat /\ ConflictMargin \in Nat
        BY <1>2, <2>3, PlateAssumption DEF MeasuredClaims
    <2>5. claims[u].fit[u] > claims[t].fit[t] - ConflictMargin
        BY <2>1, <2>4
    <2> QED
        BY <2>2, <2>5
<1> QED
    BY <1>3, <1>4 DEF DecisionsAreFair

(* Of rival claims near in time at most one is kept, and none that another *)
(* track has a better fit for (_resolve_plate_association_conflicts).      *)
THEOREM OneOwnerTheorem == PlateSpec => []OneOwnerPerPlate
<1>1. PlateSpec => []PlateInv
    BY PlateInitially, PlateStep, PTL DEF PlateSpec
<1> QED
    BY <1>1, OneOwnerHolds, PTL

(* The decision does not depend on the order of arrival, and a track loses *)
(* its plate only to a rival that fits about as well.                      *)
THEOREM DecisionsFairTheorem == PlateSpec => []DecisionsAreFair
<1>1. PlateSpec => []PlateInv
    BY PlateInitially, PlateStep, PTL DEF PlateSpec
<1> QED
    BY <1>1, DecisionsFairHolds, PTL

-----------------------------------------------------------------------------
(* PlateReading                                                            *)

(* The characters of a text.                                               *)
PlateChars == Letters \cup Digits

(* The valid plates that the patterns make of a text.                      *)
MatchingPlates(text) ==
    {c \in UNION {Candidates(text, p) : p \in StandardPatterns \cup BharatPatterns} : ValidPlate(c)}

(* The place of a letter that no correction may make.                      *)
LiteralAt(v, i) == ~ Fits(v, StandardPatterns) /\
            \E p \in BharatPatterns : Fits(v, {p}) /\ p[i] \notin {"L", "D"}

(* The valid plates that PlatesAreCertain compares a text with.            *)
NearPlates(text) ==
    LET positions == {S \in SUBSET DOMAIN text : Cardinality(S) \in 1..2}
    IN  {v \in UNION {Corrected(text, S) : S \in positions} :
                    /\ ValidPlate(v)
                    /\ \A i \in DOMAIN v : LiteralAt(v, i) => v[i] = text[i]}

(* A character that looks like another is of the other kind.               *)
LEMMA ReplacementsFlip ==
    ASSUME NEW c \in PlateChars, NEW d \in Replacements(c)
    PROVE  /\ d \in PlateChars /\ Kind(c) \in {"L", "D"} /\ Kind(d) \in {"L", "D"} /\ Kind(d) # Kind(c)
           /\ d \in Letters <=> Kind(d) = "L"
           /\ Kind(d) = "L" => \E pair \in LookAlikes : pair[2] = d
<1>1. Letters \cap Digits = {} /\ LookAlikes \subseteq Digits \X Letters
    BY ReadingAssumption
<1>2. PICK pair \in LookAlikes : (pair[1] = c /\ d = pair[2]) \/ (pair[2] = c /\ d = pair[1])
    BY DEF Replacements
<1>3. pair[1] \in Digits /\ pair[2] \in Letters
    BY <1>1
<1> QED
    BY <1>1, <1>2, <1>3 DEF Kind, PlateChars

(* A correction changes the places it is of and no others.                 *)
LEMMA CorrectedFacts ==
    ASSUME NEW text \in Seq(PlateChars), NEW S \in SUBSET DOMAIN text, NEW v \in Corrected(text, S)
    PROVE  /\ v \in Seq(PlateChars) /\ Len(v) = Len(text) /\ DOMAIN v = DOMAIN text
           /\ \A i \in S : v[i] \in Replacements(text[i])
           /\ \A i \in DOMAIN text \ S : v[i] = text[i]
<1>1. PICK f \in [S -> PlateChars] :
         /\ \A i \in S : f[i] \in Replacements(text[i])
         /\ v = [i \in DOMAIN text |-> IF i \in S THEN f[i] ELSE text[i]]
    BY DEF Corrected, PlateChars
<1>2. DOMAIN text = 1 .. Len(text) /\ Len(text) \in Nat /\ \A i \in DOMAIN text : text[i] \in PlateChars
    OBVIOUS
<1>3. v \in [1 .. Len(text) -> PlateChars]
    BY <1>1, <1>2
<1> QED
    BY <1>1, <1>2, <1>3

(* What the patterns make of a text are valid plates one or two            *)
(* look-alikes away from it that keep its literal letters                  *)
(* (_generate_candidates).                                                 *)
LEMMA MatchesAreNear ==
    ASSUME NEW text \in Seq(PlateChars)
    PROVE  MatchingPlates(text) \subseteq NearPlates(text)
<1> SUFFICES ASSUME NEW v \in MatchingPlates(text)
             PROVE  v \in NearPlates(text)
    OBVIOUS
<1> DEFINE Wrong(p) == {i \in DOMAIN p : p[i] \in {"L", "D"} /\ Kind(text[i]) # p[i]
                                   /\ Replacements(text[i]) # {}}
<1>1. PICK p \in StandardPatterns \cup BharatPatterns : v \in Candidates(text, p)
    BY DEF MatchingPlates
<1>2. /\ Len(p) = Len(text) /\ ~ (Cardinality(Wrong(p)) > 2)
      /\ v \in UNION {Corrected(text, S) : S \in (SUBSET Wrong(p)) \ {{}}}
    BY <1>1 DEF Candidates
<1>3. PICK S \in (SUBSET Wrong(p)) \ {{}} : v \in Corrected(text, S)
    BY <1>2
<1>4. /\ p \in Seq({"L", "D"} \cup Letters) /\ DOMAIN p = DOMAIN text
      /\ DOMAIN text = 1 .. Len(text) /\ Len(text) \in Nat
    <2>1. p \in Seq({"L", "D"}) \/ p \in Seq({"L", "D"} \cup Letters)
        BY ReadingAssumption
    <2> QED
        BY <1>2, <2>1
<1>5. Wrong(p) \subseteq DOMAIN text
    BY <1>4
<1>6. Cardinality(S) \in 1 .. 2
    <2>1. IsFiniteSet(1 .. Len(text))
        BY <1>4, FS_Interval
    <2>2. IsFiniteSet(Wrong(p))
        <3> HIDE DEF Wrong
        <3> QED
            BY <1>4, <1>5, <2>1, FS_Subset
    <2> HIDE DEF Wrong
    <2>3. IsFiniteSet(S) /\ Cardinality(S) <= Cardinality(Wrong(p))
        BY <2>2, FS_Subset
    <2>4. Cardinality(S) \in Nat /\ Cardinality(Wrong(p)) \in Nat
        BY <2>2, <2>3, FS_CardinalityType
    <2>5. S # {}
        OBVIOUS
    <2>6. Cardinality(S) # 0
        BY <2>3, <2>5, FS_EmptySet
    <2> QED
        BY <1>2, <2>3, <2>4, <2>6
<1>7. S \in SUBSET DOMAIN text
    BY <1>5
<1>8. /\ v \in Seq(PlateChars) /\ Len(v) = Len(text) /\ DOMAIN v = DOMAIN text
      /\ \A i \in S : v[i] \in Replacements(text[i])
      /\ \A i \in DOMAIN text \ S : v[i] = text[i]
    BY <1>3, <1>7, CorrectedFacts
<1>9. ASSUME NEW i \in DOMAIN v, LiteralAt(v, i), v[i] # text[i]
      PROVE  FALSE
    <2>1. PICK q \in BharatPatterns : Fits(v, {q}) /\ q[i] \notin {"L", "D"}
        BY <1>9 DEF LiteralAt
    <2>2. Len(q) = Len(v) /\ \A j \in DOMAIN q : Meets(v[j], q[j])
        BY <2>1 DEF Fits
    <2>3. q \in Seq({"L", "D"} \cup Letters)
        BY ReadingAssumption
    <2>4. i \in DOMAIN q /\ q[i] \in Letters /\ v[i] = q[i]
        <3>1. i \in DOMAIN q
            BY <1>4, <1>8, <2>2, <2>3
        <3> QED
            BY <2>1, <2>2, <2>3, <3>1 DEF Meets
    <2>5. i \in S /\ v[i] \in Replacements(text[i]) /\ text[i] \in PlateChars
        BY <1>8, <1>9
    <2>6. Kind(v[i]) = "L" /\ Kind(text[i]) = "D" /\ \E pair \in LookAlikes : pair[2] = v[i]
        BY <2>4, <2>5, ReplacementsFlip
    <2>7. p[i] \in {"L", "D"} /\ Kind(text[i]) # p[i]
        BY <2>5
    <2>8. p[i] = "L"
        BY <2>6, <2>7
    <2>9. Len(q) = Len(p)
        BY <1>2, <1>8, <2>2
    <2>10. \A pair \in LookAlikes : pair[2] # q[i]
        BY <2>1, <2>4, <2>8, <2>9, ReadingAssumption
    <2> QED
        BY <2>4, <2>6, <2>10
<1>10. ValidPlate(v)
    BY DEF MatchingPlates
<1> QED
    <2> HIDE DEF Wrong
    <2> QED
        BY <1>3, <1>6, <1>7, <1>9, <1>10 DEF NearPlates

(* The patterns make all the valid plates that are that near.              *)
LEMMA NearAreMatches ==
    ASSUME NEW text \in Seq(PlateChars)
    PROVE  NearPlates(text) \subseteq MatchingPlates(text)
<1> SUFFICES ASSUME NEW v \in NearPlates(text)
             PROVE  v \in MatchingPlates(text)
    OBVIOUS
<1>1. PICK S \in SUBSET DOMAIN text : Cardinality(S) \in 1 .. 2 /\ v \in Corrected(text, S)
    BY DEF NearPlates
<1>2. ValidPlate(v) /\ \A i \in DOMAIN v : LiteralAt(v, i) => v[i] = text[i]
    BY DEF NearPlates
<1>3. /\ v \in Seq(PlateChars) /\ Len(v) = Len(text) /\ DOMAIN v = DOMAIN text
      /\ \A i \in S : v[i] \in Replacements(text[i])
      /\ \A i \in DOMAIN text \ S : v[i] = text[i]
    BY <1>1, CorrectedFacts
<1>4. \A i \in DOMAIN text : text[i] \in PlateChars
    OBVIOUS
<1>5. PICK p \in StandardPatterns \cup BharatPatterns :
         /\ p \in Seq({"L", "D"} \cup Letters)
         /\ Len(p) = Len(v) /\ \A i \in DOMAIN p : Meets(v[i], p[i])
         /\ \A i \in DOMAIN p : p[i] \notin {"L", "D"} => LiteralAt(v, i)
    <2>1. CASE Fits(v, StandardPatterns)
        <3>1. PICK p \in StandardPatterns : Len(p) = Len(v) /\ \A i \in DOMAIN p : Meets(v[i], p[i])
            BY <2>1 DEF Fits
        <3>2. p \in Seq({"L", "D"})
            BY ReadingAssumption
        <3>3. p \in Seq({"L", "D"} \cup Letters) /\ \A i \in DOMAIN p : p[i] \in {"L", "D"}
            BY <3>2
        <3> QED
            BY <3>1, <3>3
    <2>2. CASE ~ Fits(v, StandardPatterns)
        <3>1. Fits(v, BharatPatterns)
            BY <1>2, <2>2 DEF ValidPlate
        <3>2. PICK p \in BharatPatterns : Len(p) = Len(v) /\ \A i \in DOMAIN p : Meets(v[i], p[i])
            BY <3>1 DEF Fits
        <3>3. p \in Seq({"L", "D"} \cup Letters)
            BY ReadingAssumption
        <3>4. Fits(v, {p})
            BY <3>2 DEF Fits
        <3>5. \A i \in DOMAIN p : p[i] \notin {"L", "D"} => LiteralAt(v, i)
            BY <2>2, <3>4 DEF LiteralAt
        <3> QED
            BY <3>2, <3>3, <3>5
    <2> QED
        BY <2>1, <2>2
<1> DEFINE wrong == {i \in DOMAIN p : p[i] \in {"L", "D"} /\ Kind(text[i]) # p[i]
                                   /\ Replacements(text[i]) # {}}
<1>6. DOMAIN p = DOMAIN text
    BY <1>3, <1>5
<1>7. ASSUME NEW i \in S
      PROVE  p[i] \in {"L", "D"} /\ Kind(text[i]) # p[i] /\ Replacements(text[i]) # {}
    <2>1. i \in DOMAIN text /\ text[i] \in PlateChars /\ v[i] \in Replacements(text[i])
        BY <1>3, <1>4
    <2>2. Kind(v[i]) # Kind(text[i])
        BY <2>1, ReplacementsFlip
    <2>3. v[i] # text[i]
        BY <2>2
    <2>4. p[i] \in {"L", "D"}
        BY <1>2, <1>3, <1>5, <1>6, <2>1, <2>3
    <2>5. Kind(v[i]) = p[i]
        BY <1>5, <1>6, <2>1, <2>4 DEF Meets
    <2> QED
        BY <2>1, <2>2, <2>4, <2>5
<1>8. ASSUME NEW i \in DOMAIN p, i \notin S, p[i] \in {"L", "D"}
      PROVE  Kind(text[i]) = p[i]
    BY <1>3, <1>5, <1>6, <1>8 DEF Meets
<1>9. wrong = S
    BY <1>6, <1>7, <1>8
<1>10. ASSUME NEW i \in DOMAIN p, p[i] \notin {"L", "D"}
       PROVE  text[i] = p[i]
    BY <1>2, <1>3, <1>5, <1>6, <1>10 DEF Meets
<1>11. ~ (Cardinality(wrong) > 2) /\ S # {}
    <2> HIDE DEF wrong
    <2>1. ~ (Cardinality(S) > 2) /\ Cardinality(S) # 0
        BY <1>1
    <2>2. S # {}
        BY <2>1, FS_EmptySet
    <2> QED
        BY <1>9, <2>1, <2>2
<1>12. Candidates(text, p) = UNION {Corrected(text, T) : T \in (SUBSET wrong) \ {{}}}
    BY <1>3, <1>5, <1>10, <1>11 DEF Candidates
<1>13. v \in Candidates(text, p)
    <2> HIDE DEF wrong
    <2>1. S \in (SUBSET wrong) \ {{}}
        BY <1>9, <1>11
    <2> QED
        BY <1>1, <1>12, <2>1
<1> QED
    BY <1>2, <1>13 DEF MatchingPlates

(* What every step of the reading keeps.                                   *)
ReadingInv ==
    /\ plateStage \in {"next", "detect", "read", "done", "raised"}
    /\ plateStage \in {"detect", "read"} => ocr = NoReading("none")
    /\ vehicleCrop \in {"none", "unreadable", "fine"}
    /\ detection.found => vehicleCrop = "fine"
    /\ ocr.text # <<>> =>
          detection.found /\ setup.saves /\ setup.model = "adapter" /\ loaded
    /\ ocr.status = "completed" =>
          /\ ocr.raw \in OcrTexts
          /\ ocr.text = IF ocr.raw = <<>> THEN <<>> ELSE Canonical(ocr.raw)

(* A reading that was not completed has no text.                           *)
LEMMA NoReadingFacts ==
    ASSUME NEW reason, reason # "completed"
    PROVE  NoReading(reason).text = <<>> /\ NoReading(reason).status # "completed"
    BY DEF NoReading

(* It holds before the first plate.                                        *)
LEMMA ReadingInitially == PlateReadingInit => ReadingInv
<1> SUFFICES ASSUME PlateReadingInit
             PROVE  ReadingInv
    OBVIOUS
<1>1. ~ detection.found
    BY DEF PlateReadingInit, Detected
<1>2. ocr.text = <<>> /\ ocr.status # "completed"
    BY NoReadingFacts DEF PlateReadingInit
<1> QED
    BY <1>1, <1>2 DEF PlateReadingInit, ReadingInv

(* Every step keeps it.                                                    *)
LEMMA ReadingStep == ReadingInv /\ [PlateReadingNext]_plateReadingVars => ReadingInv'
<1> SUFFICES ASSUME ReadingInv, [PlateReadingNext]_plateReadingVars
             PROVE  ReadingInv'
    OBVIOUS
<1>1. CASE NextPlate
    <2>1. /\ detection' = Detected("none") /\ ocr' = NoReading("none")
          /\ plateStage' = "detect" /\ vehicleCrop' \in {"none", "unreadable", "fine"}
        BY <1>1 DEF NextPlate
    <2>2. ~ detection'.found
        BY <2>1 DEF Detected
    <2>3. ocr'.text = <<>> /\ ocr'.status # "completed"
        BY <2>1, NoReadingFacts
    <2> QED
        BY <2>1, <2>2, <2>3 DEF ReadingInv
<1>2. CASE DetectPlate
    <2>1. /\ plateStage = "detect" /\ plateStage' = "read"
          /\ setup' = setup /\ loaded' = loaded /\ vehicleCrop' = vehicleCrop /\ ocr' = ocr
        BY <1>2 DEF DetectPlate
    <2>2. ocr' = NoReading("none")
        BY <2>1 DEF ReadingInv
    <2>3. ocr'.text = <<>> /\ ocr'.status # "completed"
        BY <2>2, NoReadingFacts
    <2>4. PICK outcome \in {"plate_detector_failed", "no_plate_detected", "below_minimum_size",
                    "plate_detected"} :
            detection' = Detected(IF ~ setup.detects THEN "plate_scope_frozen"
                               ELSE IF vehicleCrop = "none" THEN "no_selected_vehicle_crop"
                               ELSE IF vehicleCrop = "unreadable" THEN "vehicle_crop_unreadable"
                               ELSE outcome)
        BY <1>2 DEF DetectPlate
    <2>5. detection'.found => vehicleCrop # "none" /\ vehicleCrop # "unreadable"
        BY <2>4 DEF Detected
    <2>6. vehicleCrop \in {"none", "unreadable", "fine"}
        BY DEF ReadingInv
    <2> QED
        BY <2>1, <2>2, <2>3, <2>5, <2>6 DEF ReadingInv
<1>3. CASE SkipReading
    <2>1. /\ plateStage' = "done"
          /\ setup' = setup /\ loaded' = loaded /\ vehicleCrop' = vehicleCrop
          /\ detection' = detection
        BY <1>3 DEF SkipReading
    <2>2. ocr' = NoReading(IF ~ setup.detects THEN "plate_scope_frozen"
                        ELSE IF ~ detection.found THEN "no_plate_detected"
                        ELSE "plate_ocr_disabled")
        BY <1>3 DEF SkipReading
    <2>3. ocr'.text = <<>> /\ ocr'.status # "completed"
        BY <2>2, NoReadingFacts
    <2> QED
        BY <2>1, <2>3 DEF ReadingInv
<1>4. CASE ReadingRaises
    <2>1. /\ plateStage = "read" /\ plateStage' = "raised"
          /\ setup' = setup /\ vehicleCrop' = vehicleCrop
          /\ detection' = detection /\ ocr' = ocr
        BY <1>4 DEF ReadingRaises
    <2>2. ocr' = NoReading("none")
        BY <2>1 DEF ReadingInv
    <2>3. ocr'.text = <<>> /\ ocr'.status # "completed"
        BY <2>2, NoReadingFacts
    <2> QED
        BY <2>1, <2>3 DEF ReadingInv
<1>5. CASE ReadingFails
    <2>1. /\ plateStage' = "done"
          /\ setup' = setup /\ vehicleCrop' = vehicleCrop
          /\ detection' = detection
        BY <1>5 DEF ReadingFails
    <2>2. ocr' = NoReading(IF setup.model = "missing" THEN "plate_ocr_backend_missing"
                        ELSE IF ~ setup.saves THEN "plate_crop_unreadable" ELSE "plate_ocr_failed")
        BY <1>5 DEF ReadingFails
    <2>3. ocr'.text = <<>> /\ ocr'.status # "completed"
        BY <2>2, NoReadingFacts
    <2> QED
        BY <2>1, <2>3 DEF ReadingInv
<1>6. CASE ReadPlate
    <2>1. /\ plateStage' = "done" /\ detection.found /\ setup.saves
          /\ setup.model = "adapter" /\ loaded' = TRUE
          /\ setup' = setup /\ vehicleCrop' = vehicleCrop /\ detection' = detection
        BY <1>6 DEF ReadPlate, Attempted, Acceptable
    <2>2. PICK text \in OcrTexts :
            ocr' = [status |-> "completed", raw |-> text,
                    text |-> IF text = <<>> THEN <<>> ELSE Canonical(text)]
        BY <1>6 DEF ReadPlate
    <2> PICK z : z = IF text = <<>> THEN <<>> ELSE Canonical(text)
        OBVIOUS
    <2>3. ocr'.raw = text /\ ocr'.text = z
        BY <2>2
    <2>4. ocr'.raw \in OcrTexts
          /\ ocr'.text = IF ocr'.raw = <<>> THEN <<>> ELSE Canonical(ocr'.raw)
        BY <2>3
    <2>5. /\ plateStage' \in {"next", "detect", "read", "done", "raised"}
          /\ ~ (plateStage' \in {"detect", "read"})
          /\ detection'.found => vehicleCrop' = "fine"
          /\ detection'.found /\ setup'.saves /\ setup'.model = "adapter" /\ loaded'
        BY <2>1 DEF ReadingInv
    <2> QED
        BY <2>4, <2>5 DEF ReadingInv
<1>7. CASE UNCHANGED plateReadingVars
    <2>1. /\ setup' = setup /\ loaded' = loaded /\ vehicleCrop' = vehicleCrop
          /\ detection' = detection /\ ocr' = ocr /\ plateStage' = plateStage
        BY <1>7 DEF plateReadingVars
    <2> QED
        BY <2>1 DEF ReadingInv
<1> QED
    BY <1>1, <1>2, <1>3, <1>4, <1>5, <1>6, <1>7 DEF PlateReadingNext

(* The canonical text is the only plate near what was read.                *)
LEMMA CertainHolds == ReadingInv => PlatesAreCertain
<1> SUFFICES ASSUME ReadingInv, ocr.status = "completed", ocr.raw # <<>>
             PROVE  ocr.text = IF ValidPlate(ocr.raw) THEN ocr.raw
                               ELSE IF Cardinality(NearPlates(ocr.raw)) = 1
                               THEN CHOOSE v \in NearPlates(ocr.raw) : TRUE ELSE <<>>
    BY DEF PlatesAreCertain, NearPlates, LiteralAt
<1> PICK raw : raw = ocr.raw
    OBVIOUS
<1>1. raw \in Seq(PlateChars) /\ ocr.text = Canonical(raw)
    BY ReadingAssumption DEF ReadingInv, PlateChars
<1>2. NearPlates(raw) = MatchingPlates(raw)
    BY <1>1, MatchesAreNear, NearAreMatches
<1>3. Canonical(raw) = IF ValidPlate(raw) THEN raw
                       ELSE IF Cardinality(MatchingPlates(raw)) = 1
                       THEN CHOOSE c \in MatchingPlates(raw) : TRUE ELSE <<>>
    BY DEF Canonical, MatchingPlates
<1> QED
    BY <1>1, <1>2, <1>3

(* A text needs a plate, a crop and a model.                               *)
LEMMA TextsHold == ReadingInv => TextsAreOfPlates
    BY DEF ReadingInv, TextsAreOfPlates

(* A text that is shown is what was read if that is a plate, and otherwise *)
(* the only plate one or two look-alikes away (validate_indian_plate).     *)
THEOREM PlatesCertainTheorem == PlateReadingSpec => []PlatesAreCertain
<1>1. PlateReadingSpec => []ReadingInv
    BY ReadingInitially, ReadingStep, PTL DEF PlateReadingSpec
<1> QED
    BY <1>1, CertainHolds, PTL

(* No text without a plate that was found on a crop that can be read,      *)
(* saved and handed to a model that is loaded.                             *)
THEOREM TextsOfPlatesTheorem == PlateReadingSpec => []TextsAreOfPlates
<1>1. PlateReadingSpec => []ReadingInv
    BY ReadingInitially, ReadingStep, PTL DEF PlateReadingSpec
<1> QED
    BY <1>1, TextsHold, PTL
=============================================================================
