--------------------------- MODULE CallbackProofs ---------------------------
(***************************************************************************)
(* Proofs about the components that run addon code in the middle of what   *)
(* they do: timers for any delays, any number of them and any clock;       *)
(* custom events for any event tables, names and libraries; animation      *)
(* groups for any groups, orders, spans and depth of nested updates.       *)
(***************************************************************************)
EXTENDS Timer, EventCustom, AnimGroup, FiniteSetTheorems, SequenceTheorems,
        WellFoundedInduction, TLAPS

-----------------------------------------------------------------------------
(* C_Timer. *)

(* A non-empty set of naturals has a least element, and LeastOf picks it. *)
LEMMA LeastOfNat ==
  ASSUME NEW S \in SUBSET Nat, S # {}
  PROVE  LeastOf(S) \in S /\ \A y \in S : LeastOf(S) <= y
<1> DEFINE R == OpToRel(<, Nat)
<1>1. \A x, y \in Nat : x < y => <<x, y>> \in R
  BY SMT DEF OpToRel
<1>2. IsWellFoundedOn(R, Nat)
  BY NatLessThanWellFounded
<1>3. PICK x \in S : \A y \in S : ~(<<y, x>> \in R)
  <2> HIDE DEF R
  <2> QED BY <1>2, WFMin
<1>4. \A y \in S : x <= y
  <2> HIDE DEF R
  <2> SUFFICES ASSUME NEW y \in S PROVE x <= y
    OBVIOUS
  <2>1. ~(<<y, x>> \in R)
    BY <1>3
  <2>2. x \in Nat /\ y \in Nat
    OBVIOUS
  <2>3. ~(y < x)
    BY <1>1, <2>1, <2>2, Zenon
  <2> QED BY <2>2, <2>3
<1> QED BY <1>3, <1>4 DEF LeastOf

-----------------------------------------------------------------------------
(* The inductive invariant: beside the properties of Timer, every id in the
   queue was handed out, and only a callback has a running id. *)
QueueIsOld == \A i \in DOMAIN timers : i < nextID
RunningInCallback == pc # "callback" => running = 0

Inv ==
  /\ TypeOK
  /\ RegistryMatchesQueue
  /\ QueueIsOld
  /\ RunningInCallback
  /\ SnapshotIsOld
  /\ NextDeadlineIsLowerBound

LEMMA InitInv == Init => Inv
BY DEF Init, Inv, TypeOK, RegistryMatchesQueue, QueueIsOld, RunningInCallback,
       SnapshotIsOld, NextDeadlineIsLowerBound, NoTimers, IDs, Never

(* Putting a timer in the queue, whichever of the three calls does it. *)
LEMMA ScheduleInv ==
  ASSUME Inv, NEW seconds \in Int, NEW period \in Nat, NEW iterations \in Int,
         NEW handle \in BOOLEAN, Schedule(seconds, period, iterations, handle)
  PROVE  Inv'
<1> DEFINE due == now + (IF seconds < 0 THEN 0 ELSE seconds)
           entry == [deadline |-> due, period |-> period,
                     left |-> iterations, cancelled |-> FALSE]
<1> USE DEF Inv
<1>1. due \in Nat /\ entry \in Entry
  BY DEF TypeOK, Entry
<1>2. /\ nextID \in IDs
      /\ timers' = [i \in DOMAIN timers \cup {nextID} |->
                     IF i = nextID THEN entry ELSE timers[i]]
      /\ registry' = registry \cup {nextID}
      /\ nextID' = nextID + 1
      /\ UNCHANGED <<toFire, pc, running, now>>
  BY DEF Schedule, TypeOK, walk
<1>3. nextDeadline' = IF DOMAIN timers = {} \/ nextDeadline = Never \/ due < nextDeadline
                      THEN due ELSE nextDeadline
  BY DEF Schedule
<1>4. handles' \subseteq IDs
  BY <1>2 DEF Schedule, TypeOK
<1> HIDE DEF entry, due
<1>5. TypeOK'
  BY <1>1, <1>2, <1>3, <1>4 DEF TypeOK, IDs
<1>6. RegistryMatchesQueue' /\ QueueIsOld' /\ RunningInCallback' /\ SnapshotIsOld'
  BY <1>2 DEF RegistryMatchesQueue, QueueIsOld, RunningInCallback, SnapshotIsOld, TypeOK, IDs
<1>7. NextDeadlineIsLowerBound'
  <2> SUFFICES ASSUME pc' = "idle", NEW i \in DOMAIN timers', Live(i)'
               PROVE  nextDeadline' # Never /\ nextDeadline' <= timers'[i].deadline
    BY DEF NextDeadlineIsLowerBound
  <2>1. pc = "idle"
    BY <1>2
  <2>2. CASE i = nextID
    <3>1. timers'[i].deadline = due
      BY <1>2, <2>2 DEF entry
    <3> QED BY <1>1, <1>3, <3>1 DEF TypeOK, Never
  <2>3. CASE i # nextID
    <3>1. i \in DOMAIN timers /\ timers'[i] = timers[i] /\ timers[i] \in Entry
      BY <1>2, <2>3 DEF TypeOK
    <3>2. Live(i)
      BY <3>1 DEF Live
    <3>3. nextDeadline # Never /\ nextDeadline <= timers[i].deadline
      BY <2>1, <3>1, <3>2 DEF NextDeadlineIsLowerBound
    <3> QED BY <1>1, <1>3, <3>1, <3>3 DEF TypeOK, Never, Entry
  <2> QED BY <2>2, <2>3
<1> QED BY <1>5, <1>6, <1>7

LEMMA AddonInv == Inv /\ Addon => Inv'
<1> SUFFICES ASSUME Inv, Addon PROVE Inv'
  OBVIOUS
<1> USE TimerAssumption
<1>1. CASE \E s \in Delays : After(s) \/ NewTimer(s)
  <2> PICK s \in Delays : After(s) \/ NewTimer(s)
    BY <1>1
  <2>1. s \in Int /\ 0 \in Nat /\ 1 \in Int /\ TRUE \in BOOLEAN /\ FALSE \in BOOLEAN
    OBVIOUS
  <2>2. Schedule(s, 0, 1, FALSE) \/ Schedule(s, 0, 1, TRUE)
    BY DEF After, NewTimer
  <2> QED BY <2>1, <2>2, ScheduleInv
<1>2. CASE \E s \in Delays, n \in Iterations : NewTicker(s, n)
  <2> PICK s \in Delays, n \in Iterations : NewTicker(s, n)
    BY <1>2
  <2> DEFINE p == IF s < MinPeriod THEN MinPeriod ELSE s
             k == IF n >= 1 THEN n ELSE -1
  <2>1. p \in Nat /\ p \in Int /\ k \in Int
    BY DEF MinPeriod
  <2>2. Schedule(p, p, k, TRUE)
    BY DEF NewTicker
  <2> HIDE DEF p, k
  <2> QED BY <2>1, <2>2, ScheduleInv
<1>3. CASE \E i \in DOMAIN timers : TimerCancel(i)
  <2> PICK i \in DOMAIN timers : TimerCancel(i)
    BY <1>3
  <2> USE DEF Inv, TimerCancel
  <2>1. TypeOK'
    BY DEF TypeOK, Entry, walk
  <2>2. RegistryMatchesQueue' /\ QueueIsOld' /\ RunningInCallback' /\ SnapshotIsOld'
    BY DEF RegistryMatchesQueue, QueueIsOld, RunningInCallback, SnapshotIsOld, walk
  <2>3. NextDeadlineIsLowerBound'
    BY DEF NextDeadlineIsLowerBound, Live, TypeOK, Entry, walk
  <2> QED BY <2>1, <2>2, <2>3
<1> QED BY <1>1, <1>2, <1>3 DEF Addon

(* Each step of a frame's walk. *)
LEMMA TickInv == Inv /\ Tick => Inv'
<1> SUFFICES ASSUME Inv, Tick PROVE Inv'
  OBVIOUS
<1> USE DEF Inv
<1>1. CASE Snapshot
  <2>1. TypeOK'
    BY <1>1 DEF Snapshot, TypeOK, queue, RegistryMatchesQueue
  <2>2. RegistryMatchesQueue' /\ QueueIsOld' /\ RunningInCallback' /\ NextDeadlineIsLowerBound'
    BY <1>1 DEF Snapshot, RegistryMatchesQueue, QueueIsOld, RunningInCallback,
                NextDeadlineIsLowerBound, queue
  <2>3. running = 0 /\ 0 \notin DOMAIN timers
    BY <1>1 DEF Snapshot, RunningInCallback, TypeOK, IDs
  <2>4. SnapshotIsOld'
    BY <1>1, <2>3 DEF Snapshot, SnapshotIsOld, QueueIsOld, queue
  <2> QED BY <2>1, <2>2, <2>4
<1>2. CASE FireSkip
  <2> PICK id \in toFire : timers' = IF id \in DOMAIN timers
                                     THEN [timers EXCEPT ![id].cancelled = TRUE] ELSE timers
    <3>1. toFire \in SUBSET Nat /\ toFire # {}
      BY <1>2 DEF FireSkip, TypeOK, IDs
    <3>2. LeastOf(toFire) \in toFire
      BY <3>1, LeastOfNat
    <3> QED BY <1>2, <3>2 DEF FireSkip
  <2>1. /\ UNCHANGED <<nextID, nextDeadline, registry, handles, pc, running, now>>
        /\ toFire' \subseteq toFire
        /\ pc = "firing"
    BY <1>2 DEF FireSkip
  <2>2. DOMAIN timers' = DOMAIN timers
    OBVIOUS
  <2>3. \A i \in DOMAIN timers' : timers'[i] \in Entry
    BY DEF TypeOK, Entry
  <2>4. TypeOK'
    BY <2>1, <2>2, <2>3 DEF TypeOK
  <2>5. RegistryMatchesQueue' /\ QueueIsOld' /\ RunningInCallback' /\ SnapshotIsOld'
        /\ NextDeadlineIsLowerBound'
    BY <2>1, <2>2 DEF RegistryMatchesQueue, QueueIsOld, RunningInCallback, SnapshotIsOld,
                      NextDeadlineIsLowerBound
  <2> QED BY <2>4, <2>5
<1>3. CASE FireCall
  <2> PICK id \in toFire : running' = id /\ toFire' = toFire \ {id}
    <3>1. toFire \in SUBSET Nat /\ toFire # {}
      BY <1>3 DEF FireCall, TypeOK, IDs
    <3>2. LeastOf(toFire) \in toFire
      BY <3>1, LeastOfNat
    <3> QED BY <1>3, <3>2 DEF FireCall
  <2>1. TypeOK'
    BY <1>3 DEF FireCall, TypeOK, IDs, queue
  <2>2. RegistryMatchesQueue' /\ QueueIsOld' /\ RunningInCallback' /\ SnapshotIsOld'
        /\ NextDeadlineIsLowerBound'
    BY <1>3 DEF FireCall, RegistryMatchesQueue, QueueIsOld, RunningInCallback,
                SnapshotIsOld, NextDeadlineIsLowerBound, queue
  <2> QED BY <2>1, <2>2
<1>4. CASE CallbackReturns
  <2>1. ASSUME NEW e \in Entry PROVE Repeated(e) \in Entry
    <3> DEFINE left == IF e.left > 0 THEN e.left - 1 ELSE e.left
               over == left = 0
    <3>1. /\ e.deadline + e.period \in Nat /\ e.period \in Nat
          /\ left \in Int /\ over \in BOOLEAN
      BY DEF Entry
    <3> HIDE DEF over
    <3>2. [deadline |-> e.deadline + e.period, period |-> e.period,
           left |-> left, cancelled |-> over] \in Entry
      BY <3>1 DEF Entry
    <3> QED BY <3>2 DEF Repeated, over
  <2>2. DOMAIN timers' = DOMAIN timers
    BY <1>4 DEF CallbackReturns
  <2>3. \A i \in DOMAIN timers' : timers'[i] \in Entry
    <3> SUFFICES ASSUME NEW i \in DOMAIN timers PROVE timers'[i] \in Entry
      BY <2>2
    <3>1. timers[i] \in Entry
      BY DEF TypeOK
    <3>2. [timers[i] EXCEPT !.cancelled = TRUE] \in Entry
      BY <3>1 DEF Entry
    <3>3. timers'[i] \in {timers[i], Repeated(timers[i]), [timers[i] EXCEPT !.cancelled = TRUE]}
      BY <1>4 DEF CallbackReturns
    <3> QED BY <2>1, <3>1, <3>2, <3>3
  <2>4. /\ UNCHANGED <<nextID, nextDeadline, registry, handles, toFire, now>>
        /\ running' = 0 /\ pc' = "firing" /\ pc = "callback"
    BY <1>4 DEF CallbackReturns
  <2>5. TypeOK'
    BY <2>2, <2>3, <2>4 DEF TypeOK
  <2>6. RegistryMatchesQueue' /\ QueueIsOld' /\ RunningInCallback' /\ NextDeadlineIsLowerBound'
    BY <2>2, <2>4 DEF RegistryMatchesQueue, QueueIsOld, RunningInCallback,
                      NextDeadlineIsLowerBound
  <2>7. SnapshotIsOld'
    BY <2>4 DEF SnapshotIsOld, TypeOK, IDs
  <2> QED BY <2>5, <2>6, <2>7
<1>5. CASE Sweep
  <2> DEFINE kept == {i \in DOMAIN timers : Live(i)}
             dues == {timers[i].deadline : i \in kept}
  <2>1. /\ timers' = [i \in kept |-> timers[i]]
        /\ registry' = registry \ (DOMAIN timers \ kept)
        /\ nextDeadline' = IF kept = {} THEN Never ELSE LeastOf(dues)
        /\ pc' = "idle" /\ pc = "firing" /\ toFire = {}
        /\ UNCHANGED <<nextID, handles, toFire, running, now>>
    BY <1>5 DEF Sweep
  <2>2. dues \in SUBSET Nat
    BY DEF TypeOK, Entry
  <2>3. ASSUME kept # {}
        PROVE  LeastOf(dues) \in Nat /\ \A y \in dues : LeastOf(dues) <= y
    <3>1. dues # {}
      BY <2>3
    <3> QED BY <2>2, <3>1, LeastOfNat
  <2>4. nextDeadline' \in Nat \cup {Never}
    BY <2>1, <2>3
  <2>5. TypeOK'
    BY <2>1, <2>4 DEF TypeOK
  <2>6. RegistryMatchesQueue' /\ QueueIsOld' /\ RunningInCallback'
    BY <2>1 DEF RegistryMatchesQueue, QueueIsOld, RunningInCallback
  <2>7. SnapshotIsOld'
    BY <2>1 DEF SnapshotIsOld, TypeOK
  <2>8. NextDeadlineIsLowerBound'
    <3> SUFFICES ASSUME NEW i \in DOMAIN timers'
                 PROVE  nextDeadline' # Never /\ nextDeadline' <= timers'[i].deadline
      BY DEF NextDeadlineIsLowerBound
    <3>1. i \in kept /\ timers'[i] = timers[i]
      BY <2>1
    <3>2. timers[i].deadline \in dues /\ kept # {}
      BY <3>1
    <3> HIDE DEF dues, kept
    <3> QED BY <2>1, <2>3, <3>1, <3>2 DEF Never
  <2> QED BY <2>5, <2>6, <2>7, <2>8
<1> QED BY <1>1, <1>2, <1>3, <1>4, <1>5 DEF Tick

LEMMA NextInv == Inv /\ [Next]_vars => Inv'
<1> SUFFICES ASSUME Inv, [Next]_vars PROVE Inv'
  OBVIOUS
<1>1. CASE Addon
  BY <1>1, AddonInv
<1>2. CASE Tick
  BY <1>2, TickInv
<1>3. CASE PrepareForReload
  BY <1>3 DEF PrepareForReload, walk, NoTimers, Inv, TypeOK, IDs, RegistryMatchesQueue, QueueIsOld,
              RunningInCallback, SnapshotIsOld, NextDeadlineIsLowerBound
<1>4. CASE Advance
  BY <1>4 DEF Advance, queue, walk, Inv, TypeOK, RegistryMatchesQueue, QueueIsOld,
              RunningInCallback, SnapshotIsOld, NextDeadlineIsLowerBound, Live
<1>5. CASE UNCHANGED vars
  BY <1>5 DEF vars, queue, walk, Inv, TypeOK, RegistryMatchesQueue, QueueIsOld,
              RunningInCallback, SnapshotIsOld, NextDeadlineIsLowerBound, Live
<1> QED BY <1>1, <1>2, <1>3, <1>4, <1>5 DEF Next

(* Every reachable state of the timer queue satisfies the invariant. *)
THEOREM Invariance == Spec => []Inv
BY InitInv, NextInv, PTL DEF Spec

(* The timer queue keeps its types. *)
THEOREM TypeCorrect == Spec => []TypeOK
<1>1. Inv => TypeOK
  BY DEF Inv
<1> QED BY Invariance, <1>1, PTL

(* Tick's early return never skips a frame in which a live timer is due. *)
THEOREM NoDueTimerIsSkipped == Spec => []NextDeadlineIsLowerBound
<1>1. Inv => NextDeadlineIsLowerBound
  BY DEF Inv
<1> QED BY Invariance, <1>1, PTL

(* The Lua registry holds exactly the callbacks of the queue. *)
THEOREM NoCallbackLeaks == Spec => []RegistryMatchesQueue
<1>1. Inv => RegistryMatchesQueue
  BY DEF Inv
<1> QED BY Invariance, <1>1, PTL

(* A frame's snapshot calls an id at most once, and only ids of before it. *)
THEOREM SnapshotStaysOld == Spec => []SnapshotIsOld
<1>1. Inv => SnapshotIsOld
  BY DEF Inv
<1> QED BY Invariance, <1>1, PTL

-----------------------------------------------------------------------------
(* The promise.  What the refinement needs besides: ids are below the bound, a
   live timer has calls left, and what a snapshot holds is due. *)

IdsAreBounded == nextID <= MaxID + 1

CallsAreLeft ==
  \A i \in DOMAIN timers :
    Live(i) => IF timers[i].period = 0 THEN timers[i].left = 1
               ELSE timers[i].left = -1 \/ timers[i].left >= 1

SnapshotIsDue ==
  /\ \A i \in toFire : i \in DOMAIN timers /\ timers[i].deadline <= now
  /\ pc = "callback" => running \in DOMAIN timers

PromiseInv == Inv /\ IdsAreBounded /\ CallsAreLeft /\ SnapshotIsDue

LEMMA ScheduledOnes ==
  ASSUME Inv, Addon
  PROVE  \/ \E seconds \in Int, period \in Nat, iterations \in Int, handle \in BOOLEAN :
              /\ Schedule(seconds, period, iterations, handle)
              /\ IF period = 0 THEN iterations = 1 ELSE iterations = -1 \/ iterations >= 1
         \/ \E i \in DOMAIN timers : TimerCancel(i)
<1>1. ASSUME NEW s \in Delays, After(s) \/ NewTimer(s)
      PROVE  \E handle \in BOOLEAN : Schedule(s, 0, 1, handle)
  BY <1>1 DEF After, NewTimer
<1>2. ASSUME NEW s \in Delays, NEW n \in Iterations, NewTicker(s, n)
      PROVE  \E period \in Nat, iterations \in Int :
               /\ Schedule(period, period, iterations, TRUE)
               /\ period # 0 /\ (iterations = -1 \/ iterations >= 1)
  <2> DEFINE p == IF s < MinPeriod THEN MinPeriod ELSE s
             k == IF n >= 1 THEN n ELSE -1
  <2>1. p \in Nat /\ p # 0 /\ k \in Int /\ (k = -1 \/ k >= 1)
    BY TimerAssumption DEF MinPeriod
  <2>2. Schedule(p, p, k, TRUE)
    BY <1>2 DEF NewTicker
  <2> HIDE DEF p, k
  <2> QED BY <2>1, <2>2
<1>3. Delays \subseteq Int /\ 0 \in Nat /\ 1 \in Int
  BY TimerAssumption
<1>4. CASE \E s \in Delays : After(s) \/ NewTimer(s)
  BY <1>1, <1>3, <1>4
<1>5. CASE \E s \in Delays, n \in Iterations : NewTicker(s, n)
  <2>1. PICK period \in Nat, iterations \in Int :
           /\ Schedule(period, period, iterations, TRUE)
           /\ period # 0 /\ (iterations = -1 \/ iterations >= 1)
    BY <1>2, <1>5
  <2>2. period \in Int /\ TRUE \in BOOLEAN
    OBVIOUS
  <2> QED BY <2>1, <2>2
<1> QED BY <1>4, <1>5 DEF Addon

LEMMA ToFireIsNat ==
  ASSUME Inv, toFire # {}
  PROVE  LeastOf(toFire) \in toFire
<1>1. toFire \in SUBSET Nat
  BY DEF Inv, TypeOK, IDs
<1> QED BY <1>1, LeastOfNat

LEMMA RunningIsNot ==
  ASSUME Inv, pc # "callback"
  PROVE  running = 0 /\ running \notin DOMAIN timers
BY DEF Inv, RunningInCallback, TypeOK, IDs

(* What a repeated entry is: over exactly when its last call was made. *)
LEMMA RepeatedIs ==
  ASSUME NEW e \in Entry, e.period > 0, e.left = -1 \/ e.left >= 1
  PROVE  /\ Repeated(e).deadline = e.deadline + e.period
         /\ Repeated(e).period = e.period /\ Repeated(e).period # 0
         /\ Repeated(e).left = IF e.left > 0 THEN e.left - 1 ELSE e.left
         /\ Repeated(e).cancelled <=> e.left = 1
         /\ ~Repeated(e).cancelled => Repeated(e).left = -1 \/ Repeated(e).left >= 1
<1> DEFINE left == IF e.left > 0 THEN e.left - 1 ELSE e.left
           over == left = 0
<1>1. e.period \in Nat /\ e.left \in Int
  BY DEF Entry
<1>2. over <=> e.left = 1
  BY <1>1
<1>3. ~over => left = -1 \/ left >= 1
  BY <1>1
<1> HIDE DEF over
<1>4. /\ Repeated(e).deadline = e.deadline + e.period /\ Repeated(e).period = e.period
      /\ Repeated(e).left = left
      /\ Repeated(e).cancelled <=> over
  BY DEF Repeated, over
<1> QED BY <1>1, <1>2, <1>3, <1>4

LEMMA PromiseInvStep ==
  ASSUME PromiseInv, [Next]_vars
  PROVE  PromiseInv'
<1>1. Inv /\ Inv'
  BY NextInv DEF PromiseInv
<1>2. /\ \A i \in DOMAIN timers : timers[i] \in Entry /\ i \in Nat
      /\ nextID \in Nat /\ now \in Nat /\ toFire \subseteq Nat /\ MaxID \in Nat
  BY <1>1, TimerAssumption DEF Inv, TypeOK, IDs
<1> USE DEF PromiseInv
<1>3. ASSUME NEW seconds \in Int, NEW period \in Nat, NEW iterations \in Int, NEW handle \in BOOLEAN,
             Schedule(seconds, period, iterations, handle),
             IF period = 0 THEN iterations = 1 ELSE iterations = -1 \/ iterations >= 1
      PROVE  PromiseInv'
  <2> DEFINE due == now + (IF seconds < 0 THEN 0 ELSE seconds)
             entry == [deadline |-> due, period |-> period, left |-> iterations, cancelled |-> FALSE]
  <2>1. /\ nextID <= MaxID /\ nextID' = nextID + 1
        /\ timers' = [i \in DOMAIN timers \cup {nextID} |-> IF i = nextID THEN entry ELSE timers[i]]
        /\ UNCHANGED <<toFire, pc, running, now>>
    BY <1>3 DEF Schedule, walk
  <2>2. entry.period = period /\ entry.left = iterations
    OBVIOUS
  <2> HIDE DEF entry
  <2>3. nextID \notin DOMAIN timers
    BY <1>1, <1>2 DEF Inv, QueueIsOld
  <2>4. IdsAreBounded'
    BY <1>2, <2>1 DEF IdsAreBounded
  <2>5. CallsAreLeft'
    BY <1>3, <2>1, <2>2 DEF CallsAreLeft, Live
  <2>6. SnapshotIsDue'
    BY <2>1, <2>3 DEF SnapshotIsDue
  <2> QED BY <1>1, <2>4, <2>5, <2>6
<1>4. ASSUME NEW i \in DOMAIN timers, TimerCancel(i)
      PROVE  PromiseInv'
  <2>1. timers' = [timers EXCEPT ![i].cancelled = TRUE] /\ UNCHANGED <<nextID, toFire, pc, running, now>>
    BY <1>4 DEF TimerCancel, walk
  <2>2. CallsAreLeft'
    BY <1>2, <2>1 DEF CallsAreLeft, Live, Entry
  <2>3. SnapshotIsDue'
    BY <1>2, <2>1 DEF SnapshotIsDue, Entry
  <2> QED BY <1>1, <2>1, <2>2, <2>3 DEF IdsAreBounded
<1>5. CASE Snapshot
  BY <1>1, <1>5 DEF Snapshot, queue, IdsAreBounded, CallsAreLeft, Live, SnapshotIsDue, Due
<1>6. CASE FireSkip
  <2>1. PICK id \in toFire : /\ toFire' = toFire \ {id}
                            /\ timers' = IF id \in DOMAIN timers
                                         THEN [timers EXCEPT ![id].cancelled = TRUE] ELSE timers
    BY <1>1, <1>6, ToFireIsNat DEF FireSkip
  <2>2. id \in DOMAIN timers /\ timers' = [timers EXCEPT ![id].cancelled = TRUE]
    BY <2>1 DEF SnapshotIsDue
  <2>3. UNCHANGED <<nextID, pc, running, now>> /\ pc = "firing"
    BY <1>6 DEF FireSkip
  <2>4. CallsAreLeft'
    BY <1>2, <2>2 DEF CallsAreLeft, Live, Entry
  <2>5. SnapshotIsDue'
    BY <1>2, <2>1, <2>2, <2>3 DEF SnapshotIsDue, Entry
  <2> QED BY <1>1, <2>3, <2>4, <2>5 DEF IdsAreBounded
<1>7. CASE FireCall
  <2>1. PICK id \in toFire : toFire' = toFire \ {id} /\ running' = id
    BY <1>1, <1>7, ToFireIsNat DEF FireCall
  <2>2. UNCHANGED <<timers, nextID, now>>
    BY <1>7 DEF FireCall, queue
  <2> QED BY <1>1, <2>1, <2>2 DEF IdsAreBounded, CallsAreLeft, Live, SnapshotIsDue
<1>8. CASE CallbackReturns
  <2>1. /\ running \in DOMAIN timers /\ pc' = "firing" /\ UNCHANGED <<nextID, toFire, now>>
        /\ running \notin toFire
    BY <1>1, <1>8 DEF CallbackReturns, SnapshotIsDue, Inv, SnapshotIsOld
  <2>2. /\ DOMAIN timers' = DOMAIN timers
        /\ \A i \in DOMAIN timers : i # running => timers'[i] = timers[i]
    BY <1>8 DEF CallbackReturns
  <2>3. SnapshotIsDue'
    BY <2>1, <2>2 DEF SnapshotIsDue
  <2>4. CASE ~Live(running)
    BY <1>1, <1>8, <2>1, <2>3, <2>4 DEF CallbackReturns, IdsAreBounded, CallsAreLeft, Live
  <2>5. CASE Live(running) /\ timers[running].period > 0
    <3>1. timers'[running] = Repeated(timers[running])
      BY <1>8, <2>1, <2>5 DEF CallbackReturns
    <3>2. timers[running] \in Entry /\ (timers[running].left = -1 \/ timers[running].left >= 1)
      BY <1>2, <2>1, <2>5 DEF CallsAreLeft
    <3>3. /\ timers'[running].period # 0
          /\ ~timers'[running].cancelled => timers'[running].left = -1 \/ timers'[running].left >= 1
      BY <2>5, <3>1, <3>2, RepeatedIs
    <3>4. CallsAreLeft'
      BY <2>2, <3>3 DEF CallsAreLeft, Live
    <3> QED BY <1>1, <2>1, <2>3, <3>4 DEF IdsAreBounded
  <2>6. CASE Live(running) /\ ~(timers[running].period > 0)
    <3>1. timers' = [timers EXCEPT ![running].cancelled = TRUE]
      BY <1>8, <2>6 DEF CallbackReturns
    <3>2. CallsAreLeft'
      BY <1>2, <2>1, <3>1 DEF CallsAreLeft, Live, Entry
    <3> QED BY <1>1, <2>1, <2>3, <3>2 DEF IdsAreBounded
  <2> QED BY <2>4, <2>5, <2>6
<1>9. CASE Sweep
  BY <1>1, <1>9 DEF Sweep, IdsAreBounded, CallsAreLeft, Live, SnapshotIsDue
<1>10. CASE PrepareForReload
  <2>1. toFire' = {} /\ pc' = "idle" /\ nextID' = 1 /\ DOMAIN timers' = {}
    BY <1>1, <1>10 DEF PrepareForReload, walk, NoTimers, Inv, SnapshotIsOld
  <2> QED BY <1>1, <1>2, <2>1 DEF IdsAreBounded, CallsAreLeft, SnapshotIsDue
<1>11. CASE Advance
  <2>1. now' = now + 1 /\ UNCHANGED <<timers, nextID, toFire, pc, running>>
    BY <1>11 DEF Advance, queue, walk
  <2>2. SnapshotIsDue'
    BY <1>2, <2>1 DEF SnapshotIsDue, Entry
  <2> QED BY <1>1, <2>1, <2>2 DEF IdsAreBounded, CallsAreLeft, Live
<1>12. CASE UNCHANGED vars
  BY <1>1, <1>12 DEF vars, queue, walk, IdsAreBounded, CallsAreLeft, Live, SnapshotIsDue
<1>13. CASE Addon
  BY <1>1, <1>3, <1>4, <1>13, ScheduledOnes
<1> QED BY <1>5, <1>6, <1>7, <1>8, <1>9, <1>10, <1>11, <1>12, <1>13 DEF Next, Tick

-----------------------------------------------------------------------------
(* The refinement: each step of the queue is a step of the promise, or none. *)

Pending == {j \in DOMAIN timers : Live(j) /\ ~LastRun(j)}

LEMMA PendingIs ==
  DOMAIN PendingCalls = Pending /\ \A i \in Pending : PendingCalls[i] = Served(i)
BY DEF PendingCalls, Pending

(* Nothing happens to the pending calls. *)
LEMMA SamePending ==
  ASSUME Pending' = Pending, \A i \in Pending : Served(i)' = Served(i)
  PROVE  PendingCalls' = PendingCalls
BY DEF PendingCalls, Pending

(* A timer is not called: it is gone, or it is cancelled. *)
LEMMA CancelPromised ==
  ASSUME PromiseInv, NEW i \in DOMAIN timers, timers' = [timers EXCEPT ![i].cancelled = TRUE],
         running' = running
  PROVE  IF i \in Pending THEN PendingCalls' = Service!Without(PendingCalls, i)
                           ELSE PendingCalls' = PendingCalls
<1>1. \A j \in DOMAIN timers : timers[j] \in Entry
  BY DEF PromiseInv, Inv, TypeOK
<1>2. /\ DOMAIN timers' = DOMAIN timers /\ timers'[i].cancelled
      /\ \A j \in DOMAIN timers : j # i => timers'[j] = timers[j]
  BY <1>1 DEF Entry
<1>3. Pending' = Pending \ {i} /\ \A j \in Pending' : Served(j)' = Served(j)
  BY <1>2 DEF Pending, Live, LastRun, Served
<1>4. CASE i \in Pending
  BY <1>3, <1>4 DEF PendingCalls, Pending, Service!Without
<1>5. CASE i \notin Pending
  BY <1>3, <1>5, SamePending
<1> QED BY <1>4, <1>5

LEMMA SchedulePromised ==
  ASSUME PromiseInv, NEW seconds \in Int, NEW period \in Nat, NEW iterations \in Int,
         NEW handle \in BOOLEAN, Schedule(seconds, period, iterations, handle)
  PROVE  nextID \in 1..MaxID /\ Service!Start(nextID)
<1> DEFINE due == now + (IF seconds < 0 THEN 0 ELSE seconds)
           entry == [deadline |-> due, period |-> period, left |-> iterations, cancelled |-> FALSE]
<1>1. /\ nextID <= MaxID
      /\ timers' = [i \in DOMAIN timers \cup {nextID} |-> IF i = nextID THEN entry ELSE timers[i]]
      /\ UNCHANGED <<running, now>>
  BY DEF Schedule, walk
<1>2. /\ nextID \in Nat \ {0} /\ nextID \notin DOMAIN timers /\ MaxID \in Nat /\ now \in Nat
      /\ 0 \notin DOMAIN timers
  BY TimerAssumption DEF PromiseInv, Inv, TypeOK, IDs, QueueIsOld
<1>3. running # nextID
  BY <1>2, RunningIsNot DEF PromiseInv, SnapshotIsDue
<1>4. due \in Int /\ due >= now
  BY <1>2
<1>5. /\ entry.deadline = due /\ entry.period = period /\ entry.left = iterations
      /\ ~entry.cancelled
  OBVIOUS
<1> HIDE DEF entry, due
<1>6. /\ timers'[nextID] = entry /\ DOMAIN timers' = DOMAIN timers \cup {nextID}
      /\ \A j \in DOMAIN timers : timers'[j] = timers[j]
  BY <1>1, <1>2
<1>7. nextID \notin Pending /\ Pending' = Pending \cup {nextID}
  BY <1>1, <1>2, <1>3, <1>5, <1>6 DEF Pending, Live, LastRun
<1>8. \A j \in Pending : Served(j)' = Served(j)
  BY <1>1, <1>6 DEF Pending, Served
<1>9. PendingCalls'[nextID] = [due |-> due, every |-> period, left |-> iterations]
  BY <1>1, <1>3, <1>5, <1>6, <1>7 DEF PendingCalls, Pending, Served
<1>10. PendingCalls'[nextID] \in Service!Call /\ PendingCalls'[nextID].due = due
  BY <1>4, <1>9 DEF Service!Call
<1>11. DOMAIN PendingCalls = Pending /\ DOMAIN PendingCalls' = Pending'
  BY DEF PendingCalls, Pending
<1>12. Service!Without(PendingCalls', nextID) = PendingCalls
  <2>1. \A j \in Pending : PendingCalls'[j] = PendingCalls[j]
    BY <1>7, <1>8 DEF PendingCalls, Pending
  <2>2. Pending' \ {nextID} = Pending
    BY <1>7
  <2>3. PendingCalls = [j \in Pending |-> PendingCalls[j]]
    BY DEF PendingCalls, Pending
  <2> QED BY <1>11, <2>1, <2>2, <2>3 DEF Service!Without
<1> QED BY <1>1, <1>2, <1>4, <1>7, <1>10, <1>11, <1>12 DEF Service!Start

(* Entering the callback is the call: what is left is seen from then on. *)
LEMMA FireCallPromised ==
  ASSUME PromiseInv, FireCall
  PROVE  \E i \in 1..MaxID : Service!Fire(i)
<1>1. PICK id \in toFire : Live(id) /\ running' = id
  BY ToFireIsNat DEF FireCall, PromiseInv
<1>2. UNCHANGED <<timers, now>> /\ pc = "firing"
  BY DEF FireCall, queue
<1>3. running = 0 /\ running \notin DOMAIN timers
  BY <1>2, RunningIsNot DEF PromiseInv
<1>4. /\ id \in DOMAIN timers /\ id \in 1..MaxID /\ timers[id] \in Entry /\ timers[id].deadline <= now
      /\ id # running
  BY <1>1, <1>3, TimerAssumption DEF PromiseInv, Inv, TypeOK, IDs, SnapshotIsDue, QueueIsOld, IdsAreBounded
<1> DEFINE e == timers[id]
           c == [due |-> e.deadline, every |-> e.period, left |-> e.left]
           last == e.period = 0 \/ e.left = 1
<1>5. id \in Pending /\ PendingCalls[id] = c
  BY <1>1, <1>3, <1>4 DEF PendingCalls, Pending, LastRun, Served
<1>6. Service!LastCall(PendingCalls[id]) <=> last
  BY <1>5 DEF Service!LastCall
<1>7. Pending' = IF last THEN Pending \ {id} ELSE Pending
  BY <1>1, <1>2, <1>3 DEF Pending, Live, LastRun
<1>8. \A j \in Pending : j # id => Served(j)' = Served(j)
  BY <1>1, <1>2, <1>3 DEF Pending, Served
<1>9. Served(id)' = Service!NextCall(c)
  <2>1. Served(id)' = [c EXCEPT !.due = @ + e.period, !.left = IF @ > 0 THEN @ - 1 ELSE @]
    BY <1>1, <1>2 DEF Served
  <2> QED BY <2>1 DEF Service!NextCall
<1> HIDE DEF c, last
<1>10. DOMAIN PendingCalls = Pending /\ PendingCalls' = [j \in Pending' |-> Served(j)']
  BY DEF PendingCalls, Pending
<1>11. CASE last
  <2>1. PendingCalls' = Service!Without(PendingCalls, id)
    BY <1>7, <1>8, <1>10, <1>11, PendingIs DEF Service!Without
  <2> QED BY <1>1, <1>2, <1>3, <1>4, <1>5, <1>6, <1>10, <1>11, <2>1 DEF Service!Fire, c
<1>12. CASE ~last
  <2>1. PendingCalls' = [PendingCalls EXCEPT ![id] = Service!NextCall(@)]
    <3>1. \A j \in Pending : Served(j)' = IF j = id THEN Service!NextCall(PendingCalls[id]) ELSE PendingCalls[j]
      BY <1>5, <1>8, <1>9, PendingIs
    <3>2. PendingCalls' = [j \in Pending |-> Served(j)']
      BY <1>7, <1>10, <1>12
    <3> QED BY <1>5, <1>10, <3>1, <3>2
  <2> QED BY <1>1, <1>2, <1>3, <1>4, <1>5, <1>6, <1>10, <1>12, <2>1 DEF Service!Fire, c
<1> QED BY <1>11, <1>12

(* The entry whose callback ran becomes what it was already seen as. *)
LEMMA RunningIsServed ==
  ASSUME PromiseInv, CallbackReturns, NEW r, r = running
  PROVE  (r \in Pending' <=> r \in Pending) /\ (r \in Pending => Served(r)' = Served(r))
<1> DEFINE e == timers[r]
<1>1. /\ r \in DOMAIN timers /\ running' = 0 /\ e \in Entry /\ r # 0
      /\ \A i \in DOMAIN timers : i # 0
  BY DEF CallbackReturns, PromiseInv, SnapshotIsDue, Inv, TypeOK, IDs
<1>2. CASE ~Live(r)
  BY <1>1, <1>2 DEF CallbackReturns, Pending, Live
<1>3. CASE Live(r) /\ ~(e.period > 0)
  <2>1. e.period = 0
    BY <1>1, <1>3 DEF Entry
  <2>2. timers'[r].cancelled
    BY <1>1, <1>3 DEF CallbackReturns, Entry
  <2> QED BY <2>1, <2>2 DEF Pending, Live, LastRun
<1>4. CASE Live(r) /\ e.period > 0
  <2>1. timers'[r] = Repeated(e) /\ DOMAIN timers' = DOMAIN timers
    BY <1>1, <1>4 DEF CallbackReturns
  <2>2. e.period # 0 /\ (e.left = -1 \/ e.left >= 1)
    BY <1>1, <1>4 DEF PromiseInv, CallsAreLeft, Entry
  <2>3. /\ timers'[r].deadline = e.deadline + e.period /\ timers'[r].period = e.period
        /\ timers'[r].left = IF e.left > 0 THEN e.left - 1 ELSE e.left
        /\ timers'[r].cancelled <=> e.left = 1
    BY <1>1, <1>4, <2>1, <2>2, RepeatedIs
  <2>4. r # running'
    BY <1>1
  <2>5. r \in Pending' <=> ~timers'[r].cancelled
    BY <1>1, <2>1, <2>4 DEF Pending, Live, LastRun
  <2>6. r \in Pending <=> e.left # 1
    BY <1>1, <1>4, <2>2 DEF Pending, Live, LastRun
  <2>7. Served(r)' = [due |-> timers'[r].deadline, every |-> timers'[r].period,
                      left |-> timers'[r].left]
    BY <2>4 DEF Served
  <2>8. Served(r) = [due |-> e.deadline + e.period, every |-> e.period,
                     left |-> IF e.left > 0 THEN e.left - 1 ELSE e.left]
    BY DEF Served
  <2> QED BY <2>3, <2>5, <2>6, <2>7, <2>8
<1> QED BY <1>2, <1>3, <1>4

LEMMA CallbackReturnsPromised ==
  ASSUME PromiseInv, CallbackReturns
  PROVE  Service!Return
<1>1. /\ running \in DOMAIN timers /\ running' = 0 /\ now' = now /\ running # 0
      /\ \A i \in DOMAIN timers : i # 0
  BY DEF CallbackReturns, PromiseInv, SnapshotIsDue, Inv, TypeOK, IDs
<1>2. /\ DOMAIN timers' = DOMAIN timers
      /\ \A i \in DOMAIN timers : i # running => timers'[i] = timers[i]
  BY DEF CallbackReturns
<1>3. ASSUME NEW i \in DOMAIN timers
      PROVE  (i \in Pending' <=> i \in Pending) /\ (i \in Pending => Served(i)' = Served(i))
  <2>1. CASE i = running
    BY <2>1, RunningIsServed
  <2>2. CASE i # running
    <3>1. i # running' /\ timers'[i] = timers[i]
      BY <1>1, <1>2, <2>2
    <3>2. Served(i)' = Served(i)
      BY <2>2, <3>1 DEF Served
    <3>3. i \in Pending' <=> i \in Pending
      BY <1>2, <2>2, <3>1 DEF Pending, Live, LastRun
    <3> QED BY <3>2, <3>3
  <2> QED BY <2>1, <2>2
<1>4. Pending' \subseteq DOMAIN timers /\ Pending \subseteq DOMAIN timers
  BY <1>2 DEF Pending
<1>5. Pending' = Pending /\ \A i \in Pending : Served(i)' = Served(i)
  BY <1>3, <1>4
<1>6. PendingCalls' = PendingCalls
  BY <1>5, SamePending
<1> QED BY <1>1, <1>6 DEF Service!Return

LEMMA InitPromised ==
  ASSUME Init
  PROVE  PromiseInv /\ Service!Init
<1>1. Inv
  BY InitInv
<1>2. DOMAIN timers = {} /\ nextID = 1 /\ toFire = {} /\ pc = "idle" /\ running = 0 /\ now = 0
  BY DEF Init, NoTimers
<1>3. PromiseInv
  BY <1>1, <1>2, TimerAssumption DEF PromiseInv, IdsAreBounded, CallsAreLeft, SnapshotIsDue
<1>4. PendingCalls = [i \in {} |-> 0]
  BY <1>2 DEF PendingCalls
<1> QED BY <1>2, <1>3, <1>4 DEF Service!Init

LEMMA StepPromised ==
  ASSUME PromiseInv, [Next]_vars
  PROVE  [Service!Next]_(Service!vars)
<1> USE DEF PromiseInv
<1>1. ASSUME UNCHANGED <<running, now>>, PendingCalls' = PendingCalls
      PROVE  UNCHANGED Service!vars
  BY <1>1 DEF Service!vars
<1>2. ASSUME NEW i \in DOMAIN timers, timers' = [timers EXCEPT ![i].cancelled = TRUE],
             UNCHANGED <<running, now>>
      PROVE  [Service!Next]_(Service!vars)
  <2>1. i \in 1..MaxID
    BY TimerAssumption DEF Inv, TypeOK, IDs, QueueIsOld, IdsAreBounded
  <2>2. CASE i \in Pending
    <3>1. Service!Cancel(i)
      BY <1>2, <2>2, CancelPromised, PendingIs DEF Service!Cancel
    <3> QED BY <2>1, <3>1 DEF Service!Next
  <2>3. CASE i \notin Pending
    BY <1>1, <1>2, <2>3, CancelPromised
  <2> QED BY <2>2, <2>3
<1>3. CASE Addon
  <2>1. ASSUME NEW seconds \in Int, NEW period \in Nat, NEW iterations \in Int,
               NEW handle \in BOOLEAN, Schedule(seconds, period, iterations, handle)
        PROVE  Service!Next
    BY <2>1, SchedulePromised DEF Service!Next
  <2>2. ASSUME NEW i \in DOMAIN timers, TimerCancel(i)
        PROVE  [Service!Next]_(Service!vars)
    BY <1>2, <2>2 DEF TimerCancel, walk
  <2> QED BY <1>3, <2>1, <2>2, ScheduledOnes
<1>4. CASE Snapshot
  <2>1. UNCHANGED <<timers, running, now>>
    BY <1>4 DEF Snapshot, queue
  <2> QED BY <1>1, <2>1 DEF PendingCalls, Live, LastRun, Served
<1>5. CASE FireSkip
  <2>1. PICK id \in toFire : timers' = IF id \in DOMAIN timers
                                      THEN [timers EXCEPT ![id].cancelled = TRUE] ELSE timers
    BY <1>5, ToFireIsNat DEF FireSkip
  <2>2. id \in DOMAIN timers /\ UNCHANGED <<running, now>>
    BY <1>5 DEF FireSkip, SnapshotIsDue
  <2> QED BY <1>2, <2>1, <2>2
<1>6. CASE FireCall
  BY <1>6, FireCallPromised DEF Service!Next
<1>7. CASE CallbackReturns
  BY <1>7, CallbackReturnsPromised DEF Service!Next
<1>8. CASE Sweep
  <2>1. /\ timers' = [i \in {j \in DOMAIN timers : Live(j)} |-> timers[i]]
        /\ UNCHANGED <<running, now>>
    BY <1>8 DEF Sweep
  <2>2. Pending' = Pending
    BY <2>1 DEF Pending, Live, LastRun
  <2>3. \A i \in Pending : Served(i)' = Served(i)
    BY <2>1 DEF Pending, Served
  <2> QED BY <1>1, <2>1, <2>2, <2>3, SamePending
<1>9. CASE PrepareForReload
  <2>1. running = 0 /\ UNCHANGED <<running, now>> /\ DOMAIN timers' = {}
    BY <1>9, RunningIsNot DEF PrepareForReload, walk, NoTimers
  <2>2. PendingCalls' = [i \in {} |-> 0]
    BY <2>1 DEF PendingCalls
  <2> QED BY <2>1, <2>2 DEF Service!Next, Service!Reset
<1>10. CASE Advance
  <2>1. UNCHANGED <<timers, running>> /\ now' = now + 1 /\ now \in Nat
    BY <1>10 DEF Advance, queue, walk, Inv, TypeOK
  <2>2. PendingCalls' = PendingCalls
    BY <2>1 DEF PendingCalls, Live, LastRun, Served
  <2>3. Service!Pass
    BY <2>1, <2>2 DEF Service!Pass
  <2> QED BY <2>3 DEF Service!Next
<1>11. CASE UNCHANGED vars
  <2>1. UNCHANGED <<timers, running, now>>
    BY <1>11 DEF vars, queue, walk
  <2> QED BY <1>1, <2>1 DEF PendingCalls, Live, LastRun, Served
<1> QED BY <1>3, <1>4, <1>5, <1>6, <1>7, <1>8, <1>9, <1>10, <1>11 DEF Next, Tick

(* The queue of time/Timer.cpp keeps the promise of TimerService: whatever the
   callbacks schedule and cancel in the queue being walked, a call is made only
   when it is due, once for each time it has left, never inside another
   callback, and never again after it was cancelled or reloaded away. *)
THEOREM KeepsThePromise == Spec => KeepsPromise
<1>1. Init => PromiseInv /\ Service!Init
  BY InitPromised
<1>2. PromiseInv /\ [Next]_vars => PromiseInv'
  BY PromiseInvStep
<1>3. PromiseInv /\ [Next]_vars => [Service!Next]_(Service!vars)
  BY StepPromised
<1> QED BY <1>1, <1>2, <1>3, PTL DEF Spec, KeepsPromise, Service!Spec

-----------------------------------------------------------------------------
(* Custom events. *)

Reservations ==
  [name : Names \cup {e[2] : e \in EngineNames}, slot : Int, fixed : Int]

ReservedType == reserved \in Seq(Reservations)
TableShape == \E n \in Nat : DOMAIN table = Ids(n)

(* Claims exist only in a built table: whatever a build puts in the slots, no
   claim of the last one outlives it. *)
ClaimsAreFresh == stage # "built" => \A i \in DOMAIN reserved : reserved[i].slot = reserved[i].fixed

EventInv ==
  /\ ReservedType
  /\ TableShape
  /\ ClaimsAreFresh
  /\ ClaimsAreOurs

-----------------------------------------------------------------------------

LEMMA NamesAreNames ==
  ASSUME NEW r \in Reservations
  PROVE  r.name # NoName /\ r.slot \in Int /\ r.fixed \in Int
  BY EventCustomAssumption DEF Reservations

LEMMA AtSlotIs ==
  ASSUME NEW r \in Reservations, NEW id \in Int
  PROVE  /\ AtSlot(r, id) \in Reservations
         /\ AtSlot(r, id).name = r.name
         /\ AtSlot(r, id).slot = id
         /\ AtSlot(r, id).fixed = r.fixed
  BY DEF AtSlot, Reservation, Reservations

LEMMA DeficitIsNat ==
  ASSUME ReservedType, TableShape
  PROVE  Deficit \in Nat
<1>1. PICK n \in Nat : DOMAIN table = Ids(n)
  BY DEF TableShape
<1>2. IsFiniteSet(Ids(n))
  BY FS_Interval DEF Ids
<1>3. Open(table) \subseteq Ids(n)
  BY <1>1 DEF Open
<1>4. Cardinality(Open(table)) \in Nat
  BY <1>2, <1>3, FS_Subset, FS_CardinalityType
<1>5. Len(reserved) \in Nat /\ DOMAIN reserved = 1..Len(reserved)
  BY DEF ReservedType
<1>6. IsFiniteSet(DOMAIN reserved)
  BY <1>5, FS_Interval
<1>7. {i \in DOMAIN reserved : reserved[i].fixed < 0} \subseteq DOMAIN reserved
  OBVIOUS
<1>8. ClaimDemand \in Nat
  BY <1>6, <1>7, FS_Subset, FS_CardinalityType DEF ClaimDemand
<1> QED
  BY <1>4, <1>8 DEF Deficit

(* Growing keeps every entry and its name. *)
LEMMA GrowKeepsNames ==
  ASSUME ReservedType, TableShape, NEW grown \in Grow
  PROVE  /\ \E n \in Nat : DOMAIN grown = Ids(n)
         /\ \A id \in DOMAIN table : id \in DOMAIN grown /\ grown[id] = table[id]
         /\ \A id \in DOMAIN grown \ DOMAIN table : grown[id] = NoName
<1>1. PICK n \in Nat : DOMAIN table = Ids(n)
  BY DEF TableShape
<1>2. CASE grown = table
  BY <1>1, <1>2
<1>3. CASE grown = Bigger
  <2>1. Cardinality(DOMAIN table) = n
    BY <1>1, FS_Interval DEF Ids
  <2> DEFINE m == n + Deficit + Margin
  <2>2. m \in Nat /\ m >= n
    BY DeficitIsNat, EventCustomAssumption
  <2>3. DOMAIN grown = Ids(m)
    BY <1>3, <2>1 DEF Bigger
  <2>4. \A id \in Ids(n) : id \in Ids(m)
    BY <2>2 DEF Ids
  <2>5. \A id \in DOMAIN grown : grown[id] = IF id \in DOMAIN table THEN table[id] ELSE NoName
    BY <1>3, <2>1 DEF Bigger
  <2> QED
    BY <1>1, <2>2, <2>3, <2>4, <2>5
<1> QED
  BY <1>2, <1>3 DEF Grow

(* Claiming takes only open slots, and each for its own reservation. *)
LEMMA ClaimsAreExact ==
  ASSUME ReservedType, NEW t, NEW failed, NEW served \in SUBSET Unclaimed,
         NEW took \in [served -> Open(t)], RetryClaims(t, failed, took),
         NEW n \in Nat, DOMAIN t = Ids(n)
  PROVE  /\ DOMAIN table' = DOMAIN t
         /\ \A id \in DOMAIN t : t[id] # NoName => table'[id] = t[id]
         /\ \A i \in served : /\ took[i] \in DOMAIN t
                              /\ Claimable(t, took[i])
                              /\ table'[took[i]] = reserved[i].name
         /\ \A id \in DOMAIN t : id \notin {took[i] : i \in served} => table'[id] = t[id]
<1>1. \A i \in served : took[i] \in DOMAIN t /\ Claimable(t, took[i])
  BY DEF Open
<1>2. table' = Claimed(t, took) /\ DOMAIN took = served
  BY DEF RetryClaims
<1>3. \A id \in DOMAIN t : t[id] # NoName => ~\E i \in served : took[i] = id
  BY <1>1 DEF Claimable
<1>4. served \subseteq Nat
  BY DEF Unclaimed, ReservedType
<1>5. \A i, j \in served : took[i] = took[j] => i = j
  <2>1. \A i, j \in served : i < j => took[i] < took[j]
    BY <1>2 DEF RetryClaims, Claims
  <2>2. \A i \in served : took[i] \in Int
    BY <1>1 DEF Ids
  <2>3. \A i, j \in served : took[i] = took[j] => ~(i < j) /\ ~(j < i)
    <3> SUFFICES ASSUME NEW i \in served, NEW j \in served, took[i] = took[j], i < j
                 PROVE  FALSE
      OBVIOUS
    <3>1. took[i] < took[i]
      BY <2>1
    <3> QED
      BY <2>2, <3>1
  <2> QED
    BY <1>4, <2>3
<1>6. \A i \in served : table'[took[i]] = reserved[i].name
  <2> SUFFICES ASSUME NEW i \in served
               PROVE  table'[took[i]] = reserved[i].name
    OBVIOUS
  <2>1. (CHOOSE j \in served : took[j] = took[i]) = i
    BY <1>5
  <2> QED
    BY <1>1, <1>2, <2>1 DEF Claimed
<1> QED
  BY <1>1, <1>2, <1>3, <1>6 DEF Claimed

-----------------------------------------------------------------------------

LEMMA RegisterEventInv ==
  ASSUME EventInv, NEW f \in Frames, NEW name \in Known, RegisterEvent(f, name)
  PROVE  /\ EventInv'
         /\ \A id \in DOMAIN table : table[id] # NoName =>
              id \in DOMAIN table' /\ table'[id] = table[id]
<1> USE DEF EventInv
<1>1. stage = "built" /\ stage' = "built"
  BY DEF RegisterEvent
<1>2. CASE ~writes
  <2>1. table' = table /\ reserved' = reserved
    BY <1>2 DEF RegisterEvent
  <2> QED
    BY <1>1, <2>1 DEF ReservedType, TableShape, ClaimsAreFresh, ClaimsAreOurs
<1>3. CASE writes
  <2>a. PICK grown \in Grow :
          \E failed \in SUBSET (IF memoryFails THEN Unclaimed ELSE {}), served \in SUBSET Unclaimed :
             \E took \in [served -> Open(grown)] : RetryClaims(grown, failed, took)
    BY <1>3 DEF RegisterEvent
  <2>b. PICK failed \in SUBSET (IF memoryFails THEN Unclaimed ELSE {}), served \in SUBSET Unclaimed :
          \E took \in [served -> Open(grown)] : RetryClaims(grown, failed, took)
    BY <2>a
  <2>1. PICK took \in [served -> Open(grown)] : RetryClaims(grown, failed, took)
    BY <2>b
  <2>2. PICK n \in Nat : DOMAIN grown = Ids(n)
    BY GrowKeepsNames
  <2>3. \A id \in DOMAIN table : id \in DOMAIN grown /\ grown[id] = table[id]
    BY GrowKeepsNames
  <2>4. /\ DOMAIN table' = DOMAIN grown
        /\ \A id \in DOMAIN grown : grown[id] # NoName => table'[id] = grown[id]
        /\ \A i \in served : /\ took[i] \in DOMAIN grown
                             /\ Claimable(grown, took[i])
                             /\ table'[took[i]] = reserved[i].name
    BY <2>1, <2>2, ClaimsAreExact
  <2>5. /\ DOMAIN reserved' = DOMAIN reserved
        /\ \A i \in served : reserved'[i] = AtSlot(reserved[i], took[i])
        /\ \A i \in DOMAIN reserved \ served : reserved'[i] = reserved[i]
    BY <2>1 DEF RetryClaims, Unclaimed
  <2>6. \A i \in DOMAIN reserved : reserved[i] \in Reservations
    BY DEF ReservedType
  <2>7. ReservedType'
    <3>1. \A i \in served : took[i] \in Int /\ i \in DOMAIN reserved
      BY <2>2, <2>4 DEF Ids, Unclaimed
    <3>2. \A i \in DOMAIN reserved : reserved'[i] \in Reservations
      BY <2>5, <2>6, <3>1, AtSlotIs
    <3>3. reserved' = [i \in 1..Len(reserved) |-> reserved'[i]]
      BY <2>1 DEF RetryClaims, ReservedType
    <3> QED
      BY <3>2, <3>3 DEF ReservedType
  <2>8. TableShape'
    BY <2>2, <2>4 DEF TableShape
  <2>9. \A id \in DOMAIN table : table[id] # NoName =>
          id \in DOMAIN table' /\ table'[id] = table[id]
    BY <2>3, <2>4
  <2>10. ClaimsAreOurs'
    <3> SUFFICES ASSUME NEW i \in DOMAIN reserved, reserved'[i].slot >= 0, reserved'[i].fixed < 0
                 PROVE  /\ reserved'[i].slot \in DOMAIN table'
                        /\ table'[reserved'[i].slot] = reserved'[i].name
      BY <2>5 DEF ClaimsAreOurs
    <3>1. CASE i \in served
      <4>1. reserved[i] \in Reservations /\ took[i] \in Int
        BY <2>2, <2>4, <2>6, <3>1 DEF Ids
      <4>2. reserved'[i].slot = took[i] /\ reserved'[i].name = reserved[i].name
        BY <2>5, <3>1, <4>1, AtSlotIs
      <4> QED
        BY <2>4, <3>1, <4>2
    <3>2. CASE i \notin served
      <4>1. reserved'[i] = reserved[i]
        BY <2>5, <3>2
      <4>2. reserved[i].slot \in DOMAIN table /\ table[reserved[i].slot] = reserved[i].name
        BY <4>1 DEF ClaimsAreOurs
      <4>3. reserved[i].name # NoName
        BY <2>6, NamesAreNames
      <4> QED
        BY <2>9, <4>1, <4>2, <4>3
    <3> QED
      BY <3>1, <3>2
  <2> QED
    BY <1>1, <2>7, <2>8, <2>9, <2>10 DEF ClaimsAreFresh
<1> QED
  BY <1>2, <1>3

LEMMA ReserveInv ==
  ASSUME EventInv, Reserve
  PROVE  EventInv'
<1>1. stage # "built" /\ stage' = stage /\ table' = table
  BY DEF Reserve, AutoReserve, EngineName, engine
<1>2. CASE reserved' = reserved
  BY <1>1, <1>2 DEF EventInv, ReservedType, TableShape, ClaimsAreFresh, ClaimsAreOurs
<1>3. ASSUME NEW r \in Reservations, r.slot = r.fixed, reserved' = Append(reserved, r)
      PROVE  EventInv'
  <2>1. ReservedType'
    BY <1>3 DEF EventInv, ReservedType
  <2>2. \A i \in DOMAIN reserved' : reserved'[i].slot = reserved'[i].fixed
    BY <1>1, <1>3 DEF EventInv, ReservedType, ClaimsAreFresh
  <2>3. \A i \in DOMAIN reserved' : reserved'[i].fixed \in Int
    BY <2>1, NamesAreNames DEF ReservedType
  <2> QED
    BY <1>1, <2>1, <2>2, <2>3 DEF EventInv, TableShape, ClaimsAreFresh, ClaimsAreOurs
<1>4. ASSUME NEW name \in Names, AutoReserve(name)
      PROVE  EventInv'
  BY <1>3, <1>4 DEF AutoReserve, Reservation, Reservations
<1>5. ASSUME NEW e \in EngineNames, EngineName(e[1], e[2])
      PROVE  EventInv'
  <2>1. Reservation(e[2], e[1], e[1]) \in Reservations
    BY EventCustomAssumption DEF Reservation, Reservations
  <2>2. Reservation(e[2], e[1], e[1]).slot = Reservation(e[2], e[1], e[1]).fixed
    BY DEF Reservation
  <2> QED
    BY <1>2, <1>3, <1>5, <2>1, <2>2 DEF EngineName
<1> QED
  BY <1>4, <1>5 DEF Reserve

LEMMA BuildInv ==
  ASSUME EventInv, Build
  PROVE  EventInv'
<1>1. CASE Initialize
  <2>1. \A i \in DOMAIN reserved : AtSlot(reserved[i], reserved[i].fixed) \in Reservations
    <3> SUFFICES ASSUME NEW i \in DOMAIN reserved
                 PROVE  AtSlot(reserved[i], reserved[i].fixed) \in Reservations
      OBVIOUS
    <3>1. reserved[i] \in Reservations
      BY DEF EventInv, ReservedType
    <3> QED
      BY <3>1, AtSlotIs, NamesAreNames
  <2>2. reserved' = [i \in 1..Len(reserved) |-> AtSlot(reserved[i], reserved[i].fixed)]
    BY <1>1 DEF Initialize, EventInv, ReservedType
  <2>3. ReservedType'
    BY <2>1, <2>2 DEF ReservedType, EventInv
  <2>4. \A i \in DOMAIN reserved' : reserved'[i].slot = reserved'[i].fixed
    BY <1>1 DEF Initialize, AtSlot, Reservation
  <2>5. \A i \in DOMAIN reserved' : reserved'[i].fixed \in Int
    BY <2>3, NamesAreNames DEF ReservedType
  <2>6. table' = table
    BY <1>1 DEF Initialize
  <2> QED
    BY <2>3, <2>4, <2>5, <2>6 DEF EventInv, TableShape, ClaimsAreFresh, ClaimsAreOurs
<1>2. CASE LoadScriptFunctions \/ LoadGlueScriptFunctions
  BY <1>2 DEF LoadScriptFunctions, LoadGlueScriptFunctions, EventInv, ReservedType, TableShape,
              ClaimsAreFresh, ClaimsAreOurs
<1>3. CASE RebuildEventTable
  <2>1. reserved' = reserved /\ stage # "built" /\ stage' = "built"
    BY <1>3 DEF RebuildEventTable
  <2>2. \A i \in DOMAIN reserved : reserved[i].slot = reserved[i].fixed /\ reserved[i].fixed \in Int
    BY <2>1, NamesAreNames DEF EventInv, ClaimsAreFresh, ReservedType
  <2>3. TableShape'
    BY <1>3, EventCustomAssumption DEF RebuildEventTable, TableShape, Ids
  <2> QED
    BY <2>1, <2>2, <2>3 DEF EventInv, ReservedType, ClaimsAreFresh, ClaimsAreOurs
<1> QED
  BY <1>1, <1>2, <1>3 DEF Build

LEMMA OtherWritesInv ==
  ASSUME EventInv, OtherWrites
  PROVE  /\ EventInv'
         /\ \A id \in DOMAIN table : table[id] # NoName =>
              id \in DOMAIN table' /\ table'[id] = table[id]
<1>1. PICK o \in Others : table[o[1]] = NoName /\ table' = [table EXCEPT ![o[1]] = o[2]]
  BY DEF OtherWrites
<1>2. reserved' = reserved /\ stage' = stage /\ DOMAIN table' = DOMAIN table
  BY <1>1 DEF OtherWrites
<1>3. \A id \in DOMAIN table : table[id] # NoName => table'[id] = table[id]
  BY <1>1
<1>4. \A i \in DOMAIN reserved : reserved[i].name # NoName
  BY NamesAreNames DEF EventInv, ReservedType
<1> QED
  BY <1>2, <1>3, <1>4 DEF EventInv, ReservedType, TableShape, ClaimsAreFresh, ClaimsAreOurs

LEMMA EventNextInv ==
  ASSUME EventInv, [EventNext]_eventVars
  PROVE  /\ EventInv'
         /\ stage = "built" /\ stage' = "built" =>
              \A id \in DOMAIN table : table[id] # NoName =>
                id \in DOMAIN table' /\ table'[id] = table[id]
<1> DEFINE Kept == \A id \in DOMAIN table : table[id] # NoName =>
                     id \in DOMAIN table' /\ table'[id] = table[id]
<1>1. CASE Reserve
  BY <1>1, ReserveInv DEF Reserve, AutoReserve, EngineName, engine
<1>2. CASE Build
  BY <1>2, BuildInv DEF Build, Initialize, LoadScriptFunctions, LoadGlueScriptFunctions,
                        RebuildEventTable
<1>3. CASE OtherWrites
  BY <1>3, OtherWritesInv
<1>4. ASSUME NEW f \in Frames, NEW name \in Known, RegisterEvent(f, name)
      PROVE  EventInv' /\ Kept
  BY <1>4, RegisterEventInv
<1>5. CASE \/ EngineRegisters \/ ForceEventGrow \/ UNCHANGED eventVars
           \/ \E f \in Frames, name \in Known : UnregisterEvent(f, name)
  <2>1. UNCHANGED <<table, reserved, stage>>
    BY <1>5 DEF EngineRegisters, ForceEventGrow, UnregisterEvent, eventVars, engine
  <2> QED
    BY <2>1 DEF EventInv, ReservedType, TableShape, ClaimsAreFresh, ClaimsAreOurs
<1> QED
  BY <1>1, <1>2, <1>3, <1>4, <1>5 DEF EventNext, Lua

LEMMA EventInitInv == EventInit => EventInv
<1> SUFFICES ASSUME EventInit PROVE EventInv
  OBVIOUS
<1>1. DOMAIN table = Ids(0)
  BY DEF EventInit, Ids
<1> QED
  BY <1>1 DEF EventInit, EventInv, ReservedType, TableShape, ClaimsAreFresh, ClaimsAreOurs

THEOREM EventInvariance == EventSpec => []EventInv
  BY EventInitInv, EventNextInv, PTL DEF EventSpec

(* Firing a custom event never reaches another event's listeners: a claimed
   slot bears the claimed name, whatever rebuilt, grew or wrote the table. *)
THEOREM ClaimsStayOurs == EventSpec => []ClaimsAreOurs
<1>1. EventInv => ClaimsAreOurs
  BY DEF EventInv
<1> QED
  BY <1>1, EventInvariance, PTL

(* Growing never moves a chain somebody is on. *)
THEOREM NoLiveChainMoves == EventSpec => LiveChainsDoNotMove
<1>1. EventInv /\ [EventNext]_eventVars => [stage = "built" /\ DOMAIN table' # DOMAIN table => ChainsEmpty]_eventVars
  <2> SUFFICES ASSUME EventInv, EventNext, stage = "built", ~ChainsEmpty PROVE DOMAIN table' = DOMAIN table
    BY DEF eventVars, engine
  <2>1. ASSUME NEW f \in Frames, NEW name \in Known, RegisterEvent(f, name)
        PROVE  DOMAIN table' = DOMAIN table
    <3>1. Grow = {table}
      BY DEF Grow
    <3>2. \/ table' = table
          \/ \E took : table' = Claimed(table, took)
      BY <2>1, <3>1 DEF RegisterEvent, RetryClaims
    <3> QED
      BY <3>2 DEF Claimed
  <2> QED
    BY <2>1 DEF EventNext, Reserve, AutoReserve, EngineName, Build, Initialize, LoadScriptFunctions,
                LoadGlueScriptFunctions, RebuildEventTable, OtherWrites, EngineRegisters,
                ForceEventGrow, Lua, UnregisterEvent, engine
<1> QED
  BY <1>1, EventInvariance, PTL DEF EventSpec, LiveChainsDoNotMove

(* Within a build no name in the table moves or is lost, ours or another's. *)
THEOREM NoNameMoves == EventSpec => NamesStay
<1>1. EventInv /\ [EventNext]_eventVars =>
        [stage = "built" /\ stage' = "built" =>
           \A id \in DOMAIN table :
             table[id] # NoName => id \in DOMAIN table' /\ table'[id] = table[id]]_eventVars
  BY EventNextInv
<1> QED
  BY <1>1, EventInvariance, PTL DEF EventSpec, NamesStay

-----------------------------------------------------------------------------
(* Subscribers.  What no code can prevent is excluded: a name that the engine,
   another library or another module uses as well. *)

OurNames == Names \cup {e[2] : e \in EngineNames}

NamesAreApart ==
  /\ \A e, d \in EngineNames : e[2] = d[2] => e = d
  /\ \A e \in EngineNames : e[2] \notin Names
  /\ \A id \in Ids(StaticCount) : GameNames[id] \notin OurNames
  /\ \A o \in Others : o[2] \notin OurNames

(* Each name is reserved once, by AutoReserve or for an id of the engine's. *)
Provenance ==
  /\ \A i \in DOMAIN reserved :
       \/ reserved[i].fixed = -1 /\ reserved[i].name \in Names
       \/ <<reserved[i].fixed, reserved[i].name>> \in EngineNames
  /\ \A i, j \in DOMAIN reserved :
       reserved[i].fixed < 0 /\ reserved[i].name = reserved[j].name => i = j

(* An id of the engine's keeps its name in the array the builds copy. *)
FixedStays ==
  \A i \in DOMAIN reserved :
    reserved[i].fixed >= 0 =>
      /\ reserved[i].slot = reserved[i].fixed
      /\ reserved[i].fixed \in Ids(StaticCount)
      /\ staticNames[reserved[i].fixed] = reserved[i].name

StaticIs ==
  /\ DOMAIN staticNames = Ids(StaticCount)
  /\ \A id \in Ids(StaticCount) :
       staticNames[id] = GameNames[id] \/ <<id, staticNames[id]>> \in EngineNames

(* A build starts with nothing asked for, and the login screens write nothing. *)
FreshBuild ==
  /\ stage # "built" => asked = {} /\ ~growLatched
  /\ stage \in {"boot", "scripts", "glueLoaded"} => ~writes
  /\ DOMAIN chains = DOMAIN table

(* In the game's table the engine finds a reserved name at its slot only. *)
NamesLeadHome ==
  stage = "built" /\ writes =>
    /\ Ids(StaticCount) \subseteq DOMAIN table
    /\ \A i \in DOMAIN reserved :
         /\ \A id \in DOMAIN table : table[id] = reserved[i].name => id = reserved[i].slot
         /\ reserved[i].slot \in DOMAIN table => table[reserved[i].slot] = reserved[i].name

(* The first registration of a build claims what there is room for: no name
   asked for without a slot gets one later. *)
NothingLeftToClaim ==
  /\ writes /\ asked # {} => growLatched
  /\ growLatched /\ ~memoryFails => Unclaimed = {} \/ Open(table) = {}

HeardInv ==
  /\ Provenance /\ FixedStays /\ StaticIs /\ FreshBuild /\ NamesLeadHome /\ NothingLeftToClaim
  /\ SubscribersAreHeard

LEMMA InitHeard == EventInit => HeardInv
<1> SUFFICES ASSUME EventInit PROVE HeardInv
  OBVIOUS
<1>1. StaticIs
  BY EventCustomAssumption DEF EventInit, StaticIs, Ids
<1>2. Provenance /\ FixedStays /\ FreshBuild /\ NamesLeadHome /\ NothingLeftToClaim /\ SubscribersAreHeard
  BY DEF EventInit, Provenance, FixedStays, FreshBuild, NamesLeadHome, NothingLeftToClaim, SubscribersAreHeard
<1> QED
  BY <1>1, <1>2 DEF HeardInv

LEMMA ReserveHeard ==
  ASSUME NamesAreApart, EventInv, HeardInv, Reserve
  PROVE  HeardInv'
<1>1. /\ stage # "built" /\ stage' = stage /\ UNCHANGED <<table, chains, flags, asked>>
  BY DEF Reserve, AutoReserve, EngineName, engine
<1>2. FreshBuild' /\ NamesLeadHome' /\ NothingLeftToClaim' /\ SubscribersAreHeard'
  BY <1>1 DEF HeardInv, FreshBuild, NamesLeadHome, NothingLeftToClaim, SubscribersAreHeard, flags
<1>3. reserved \in Seq(Reservations)
  BY DEF EventInv, ReservedType
<1>4. ASSUME NEW name \in Names, AutoReserve(name)
      PROVE  Provenance' /\ FixedStays' /\ StaticIs'
  <2> DEFINE new == Reservation(name, -1, -1)
  <2>1. new.name = name /\ new.slot = -1 /\ new.fixed = -1
    BY DEF Reservation
  <2> HIDE DEF new
  <2>2. /\ reserved' = Append(reserved, new) /\ staticNames' = staticNames
        /\ \A i \in DOMAIN reserved : reserved[i].name # name
    BY <1>4 DEF AutoReserve, static, new
  <2>3. /\ DOMAIN reserved' = DOMAIN reserved \cup {Len(reserved) + 1}
        /\ \A i \in DOMAIN reserved : reserved'[i] = reserved[i]
        /\ reserved'[Len(reserved) + 1] = new
    BY <1>3, <2>2
  <2>4. Provenance'
    BY <2>1, <2>2, <2>3 DEF HeardInv, Provenance
  <2>5. FixedStays'
    BY <2>1, <2>2, <2>3 DEF HeardInv, FixedStays
  <2> QED
    BY <2>2, <2>4, <2>5 DEF HeardInv, StaticIs
<1>5. ASSUME NEW e \in EngineNames, EngineName(e[1], e[2])
      PROVE  Provenance' /\ FixedStays' /\ StaticIs'
  <2> DEFINE id == e[1]
             name == e[2]
             new == Reservation(name, id, id)
  <2>1. new.name = name /\ new.slot = id /\ new.fixed = id
    BY DEF Reservation
  <2>2. <<id, name>> \in EngineNames /\ id \in Ids(StaticCount) /\ id \in Nat /\ name # NoName
    <3>1. e = <<e[1], e[2]>> /\ e[1] \in Nat /\ e[2] # NoName
      BY EventCustomAssumption
    <3>2. e[1] < StaticCount /\ StaticCount \in Nat
      BY <1>5, EventCustomAssumption DEF EngineName
    <3>3. e[1] \in Ids(StaticCount)
      BY <3>1, <3>2 DEF Ids
    <3> QED
      BY <3>1, <3>3
  <2>3. CASE staticNames' = staticNames /\ reserved' = reserved
    BY <2>3 DEF HeardInv, Provenance, FixedStays, StaticIs
  <2>4. CASE /\ staticNames[id] = NoName /\ staticNames' = [staticNames EXCEPT ![id] = name]
             /\ reserved' = Append(reserved, new)
    <3> HIDE DEF new, id, name
    <3>1. /\ DOMAIN reserved' = DOMAIN reserved \cup {Len(reserved) + 1}
          /\ \A i \in DOMAIN reserved : reserved'[i] = reserved[i]
          /\ reserved'[Len(reserved) + 1] = new
      BY <1>3, <2>4
    <3>2. \A i \in DOMAIN reserved :
            /\ reserved[i].name # NoName /\ reserved[i].fixed \in Int
            /\ reserved[i].fixed < 0 => reserved[i].name # name
      <4> SUFFICES ASSUME NEW i \in DOMAIN reserved
                   PROVE  /\ reserved[i].name # NoName /\ reserved[i].fixed \in Int
                          /\ reserved[i].fixed < 0 => reserved[i].name # name
        OBVIOUS
      <4>1. reserved[i] \in Reservations
        BY <1>3
      <4>2. <<reserved[i].fixed, reserved[i].name>> \in EngineNames => reserved[i].fixed \in Nat
        BY EventCustomAssumption
      <4>3. reserved[i].fixed < 0 => reserved[i].name \in Names
        BY <4>1, <4>2, NamesAreNames DEF HeardInv, Provenance
      <4>4. name \notin Names
        BY DEF NamesAreApart, name
      <4> QED
        BY <4>1, <4>3, <4>4, NamesAreNames
    <3>3. Provenance'
      BY <2>1, <2>2, <3>1, <3>2 DEF HeardInv, Provenance
    <3>4. StaticIs'
      BY <2>2, <2>4 DEF HeardInv, StaticIs
    <3>5. FixedStays'
      <4>1. staticNames'[id] = name
        BY <2>2, <2>4 DEF HeardInv, StaticIs
      <4>2. \A k \in Ids(StaticCount) : k # id => staticNames'[k] = staticNames[k]
        BY <2>4 DEF HeardInv, StaticIs
      <4>3. \A i \in DOMAIN reserved : reserved[i].fixed >= 0 => reserved[i].fixed # id
        BY <2>4, <3>2 DEF HeardInv, FixedStays
      <4>4. ASSUME NEW i \in DOMAIN reserved, reserved[i].fixed >= 0
            PROVE  /\ reserved[i].slot = reserved[i].fixed /\ reserved[i].fixed \in Ids(StaticCount)
                   /\ staticNames'[reserved[i].fixed] = reserved[i].name
        BY <4>2, <4>3, <4>4 DEF HeardInv, FixedStays
      <4> QED
        BY <2>1, <2>2, <3>1, <4>1, <4>4 DEF FixedStays
    <3> QED
      BY <3>3, <3>4, <3>5
  <2> QED
    BY <1>5, <2>3, <2>4 DEF EngineName
<1> QED
  BY <1>2, <1>4, <1>5 DEF Reserve, HeardInv

(* A name of the array a build copies leads to the id it was written for. *)
LEMMA StaticNamesLeadHome ==
  ASSUME NamesAreApart, EventInv, HeardInv, NEW i \in DOMAIN reserved, NEW id \in Ids(StaticCount),
         staticNames[id] = reserved[i].name
  PROVE  id = reserved[i].fixed
<1>1. reserved[i].name \in OurNames
  <2>1. reserved[i] \in Reservations
    BY DEF EventInv, ReservedType
  <2> QED
    BY <2>1 DEF Reservations, OurNames
<1>2. <<id, reserved[i].name>> \in EngineNames
  BY <1>1 DEF HeardInv, StaticIs, NamesAreApart
<1> DEFINE name == reserved[i].name
           fixed == reserved[i].fixed
<1>3. (fixed = -1 /\ name \in Names) \/ <<fixed, name>> \in EngineNames
  BY DEF HeardInv, Provenance
<1> HIDE DEF name, fixed
<1>4. <<id, name>>[2] = name /\ <<id, name>>[1] = id /\ <<fixed, name>>[2] = name /\ <<fixed, name>>[1] = fixed
  OBVIOUS
<1>5. <<fixed, name>> \in EngineNames
  BY <1>2, <1>3, <1>4 DEF NamesAreApart, name
<1>6. <<id, name>> = <<fixed, name>>
  BY <1>2, <1>4, <1>5 DEF NamesAreApart, name
<1> QED
  BY <1>6 DEF fixed

LEMMA BuildHeard ==
  ASSUME NamesAreApart, EventInv, HeardInv, Build
  PROVE  HeardInv'
<1>1. CASE Initialize
  <2>1. /\ stage' = "scripts" /\ asked' = {} /\ ~growLatched' /\ ~writes'
        /\ DOMAIN chains' = DOMAIN table' /\ staticNames' = staticNames
        /\ DOMAIN reserved' = DOMAIN reserved
        /\ \A i \in DOMAIN reserved : reserved'[i] = AtSlot(reserved[i], reserved[i].fixed)
    BY <1>1 DEF Initialize, static
  <2>2. FreshBuild' /\ NamesLeadHome' /\ NothingLeftToClaim' /\ SubscribersAreHeard' /\ StaticIs'
    BY <2>1 DEF HeardInv, FreshBuild, NamesLeadHome, NothingLeftToClaim, SubscribersAreHeard, StaticIs
  <2>3. \A i \in DOMAIN reserved : /\ reserved'[i].name = reserved[i].name
                                  /\ reserved'[i].fixed = reserved[i].fixed
                                  /\ reserved'[i].slot = reserved[i].fixed
    BY <2>1 DEF AtSlot, Reservation
  <2>4. Provenance'
    BY <2>1, <2>3 DEF HeardInv, Provenance
  <2>5. FixedStays'
    BY <2>1, <2>3 DEF HeardInv, FixedStays
  <2> QED
    BY <2>2, <2>4, <2>5 DEF HeardInv
<1>2. CASE LoadScriptFunctions \/ LoadGlueScriptFunctions
  <2>1. /\ stage = "scripts" /\ stage' \in {"loaded", "glueLoaded"}
        /\ stage' = "glueLoaded" => writes' = writes
        /\ UNCHANGED <<table, chains, staticNames, reserved, growLatched, asked>>
    BY <1>2 DEF LoadScriptFunctions, LoadGlueScriptFunctions, static, flags
  <2> QED
    BY <2>1 DEF HeardInv, Provenance, FixedStays, StaticIs, FreshBuild, NamesLeadHome,
                NothingLeftToClaim, SubscribersAreHeard
<1>3. CASE RebuildEventTable
  <2>1. /\ stage \in {"loaded", "glueLoaded"} /\ stage' = "built" /\ DOMAIN chains' = DOMAIN table'
        /\ UNCHANGED <<staticNames, reserved, writes, growLatched, asked>>
        /\ asked = {} /\ ~growLatched
    BY <1>3 DEF RebuildEventTable, static, flags, HeardInv, FreshBuild
  <2>2. Provenance' /\ FixedStays' /\ StaticIs' /\ FreshBuild' /\ NothingLeftToClaim' /\ SubscribersAreHeard'
    BY <2>1 DEF HeardInv, Provenance, FixedStays, StaticIs, FreshBuild, NothingLeftToClaim,
                SubscribersAreHeard
  <2>3. NamesLeadHome'
    <3> SUFFICES ASSUME writes PROVE NamesLeadHome'
      BY <2>1 DEF NamesLeadHome
    <3>1. PICK n \in TableSizes :
            table' = [id \in Ids(n) |-> IF id < StaticCount THEN staticNames[id] ELSE NoName]
      BY <1>3, <2>1 DEF RebuildEventTable, HeardInv, FreshBuild
    <3>2. n \in Nat /\ StaticCount \in Nat /\ n >= StaticCount
      BY EventCustomAssumption
    <3>3. \A id \in Ids(n) : id < StaticCount <=> id \in Ids(StaticCount)
      BY <3>2 DEF Ids
    <3>4. Ids(StaticCount) \subseteq DOMAIN table'
      BY <3>1, <3>2 DEF Ids
    <3>5. \A i \in DOMAIN reserved : /\ reserved[i].name # NoName /\ reserved[i].fixed \in Int
                                    /\ reserved[i].slot = reserved[i].fixed
      BY <2>1, NamesAreNames DEF EventInv, ReservedType, ClaimsAreFresh
    <3>6. ASSUME NEW i \in DOMAIN reserved, NEW id \in DOMAIN table', table'[id] = reserved[i].name
          PROVE  id = reserved[i].slot
      <4>1. id \in Ids(StaticCount) /\ staticNames[id] = reserved[i].name
        BY <3>1, <3>3, <3>5, <3>6
      <4> QED
        BY <3>5, <4>1, StaticNamesLeadHome
    <3>7. ASSUME NEW i \in DOMAIN reserved, reserved[i].slot \in DOMAIN table'
          PROVE  table'[reserved[i].slot] = reserved[i].name
      <4>1. reserved[i].fixed >= 0 /\ reserved[i].fixed \in Ids(n)
        BY <3>1, <3>5, <3>7 DEF Ids
      <4> QED
        BY <3>1, <3>3, <3>5, <4>1 DEF HeardInv, FixedStays
    <3> QED
      BY <2>1, <3>4, <3>6, <3>7 DEF NamesLeadHome
  <2> QED
    BY <2>2, <2>3 DEF HeardInv
<1> QED
  BY <1>1, <1>2, <1>3 DEF Build

LEMMA OthersHeard ==
  ASSUME NamesAreApart, EventInv, HeardInv, OtherWrites \/ EngineRegisters \/ ForceEventGrow
  PROVE  HeardInv'
<1>1. /\ stage = "built" /\ stage' = stage
      /\ UNCHANGED <<staticNames, reserved, writes, growLatched, memoryFails, asked>>
  BY DEF OtherWrites, EngineRegisters, ForceEventGrow, engine, static, flags
<1>2. Provenance' /\ FixedStays' /\ StaticIs'
  BY <1>1 DEF HeardInv, Provenance, FixedStays, StaticIs
<1>3. CASE OtherWrites
  <2>1. PICK o \in Others : /\ o[1] \in DOMAIN table /\ table[o[1]] = NoName
                            /\ table' = [table EXCEPT ![o[1]] = o[2]]
    BY <1>3 DEF OtherWrites
  <2>2. chains' = chains /\ ~growLatched
    BY <1>3 DEF OtherWrites
  <2>3. /\ DOMAIN table' = DOMAIN table /\ table'[o[1]] = o[2]
        /\ \A id \in DOMAIN table : id # o[1] => table'[id] = table[id]
    BY <2>1
  <2>4. \A i \in DOMAIN reserved : reserved[i].name \in OurNames /\ reserved[i].name # NoName
    <3> SUFFICES ASSUME NEW i \in DOMAIN reserved
                 PROVE  reserved[i].name \in OurNames /\ reserved[i].name # NoName
      OBVIOUS
    <3>1. reserved[i] \in Reservations
      BY DEF EventInv, ReservedType
    <3> QED
      BY <3>1, NamesAreNames DEF Reservations, OurNames
  <2>5. o[2] \notin OurNames
    BY DEF NamesAreApart
  <2>6. NamesLeadHome'
    BY <1>1, <2>1, <2>3, <2>4, <2>5 DEF HeardInv, NamesLeadHome
  <2>7. FreshBuild' /\ SubscribersAreHeard'
    BY <1>1, <2>2, <2>3 DEF HeardInv, FreshBuild, SubscribersAreHeard
  <2>8. NothingLeftToClaim'
    BY <1>1, <2>2 DEF HeardInv, NothingLeftToClaim
  <2> QED
    BY <1>2, <2>6, <2>7, <2>8 DEF HeardInv
<1>4. CASE EngineRegisters \/ ForceEventGrow
  <2>1. /\ table' = table /\ DOMAIN chains' = DOMAIN chains
        /\ \A id \in DOMAIN chains : chains[id] \subseteq chains'[id]
    BY <1>4 DEF EngineRegisters, ForceEventGrow, engine
  <2>2. FreshBuild' /\ NamesLeadHome'
    BY <1>1, <2>1 DEF HeardInv, FreshBuild, NamesLeadHome
  <2>3. NothingLeftToClaim'
    BY <1>1, <2>1 DEF HeardInv, NothingLeftToClaim, Unclaimed, Open, Claimable
  <2>4. SubscribersAreHeard'
    BY <1>1, <2>1 DEF HeardInv, SubscribersAreHeard, FreshBuild
  <2> QED
    BY <1>2, <2>2, <2>3, <2>4 DEF HeardInv
<1> QED
  BY <1>3, <1>4

LEMMA UnregisterHeard ==
  ASSUME EventInv, HeardInv, NEW f \in Frames, NEW name \in Known, UnregisterEvent(f, name)
  PROVE  HeardInv'
<1>1. /\ stage = "built" /\ stage' = stage /\ asked' = asked \ {<<f, name>>}
      /\ UNCHANGED <<table, staticNames, reserved, writes, growLatched, memoryFails>>
      /\ chains' = [id \in DOMAIN table |-> IF table[id] = name THEN chains[id] \ {f} ELSE chains[id]]
  BY DEF UnregisterEvent, static, flags
<1>2. Provenance' /\ FixedStays' /\ StaticIs' /\ FreshBuild' /\ NamesLeadHome'
  BY <1>1 DEF HeardInv, Provenance, FixedStays, StaticIs, FreshBuild, NamesLeadHome
<1>3. NothingLeftToClaim'
  BY <1>1 DEF HeardInv, NothingLeftToClaim, Unclaimed, Open, Claimable
<1>4. SubscribersAreHeard'
  <2> SUFFICES ASSUME NEW i \in DOMAIN reserved, NEW g \in Frames, ~memoryFails, writes,
                      reserved[i].slot \in DOMAIN table, <<g, reserved[i].name>> \in asked'
               PROVE  g \in chains'[reserved[i].slot]
    BY <1>1 DEF SubscribersAreHeard
  <2>1. g \in chains[reserved[i].slot] /\ table[reserved[i].slot] = reserved[i].name
    BY <1>1 DEF HeardInv, SubscribersAreHeard, NamesLeadHome
  <2>2. ~(g = f /\ reserved[i].name = name)
    BY <1>1
  <2> QED
    BY <1>1, <2>1, <2>2
<1> QED
  BY <1>2, <1>3, <1>4 DEF HeardInv

LEMMA RegisterHeard ==
  ASSUME NamesAreApart, EventInv, HeardInv, NEW f \in Frames, NEW name \in Known, RegisterEvent(f, name)
  PROVE  HeardInv'
<1>1. /\ stage = "built" /\ stage' = stage /\ asked' = asked \cup {<<f, name>>}
      /\ UNCHANGED <<staticNames, writes, memoryFails>>
      /\ growLatched' = (growLatched \/ writes)
      /\ chains' = [id \in DOMAIN table' |->
                      (IF id \in DOMAIN chains THEN chains[id] ELSE {})
                      \cup (IF id \in Found(table', name) THEN {f} ELSE {})]
  BY DEF RegisterEvent, static
<1>2. FreshBuild'
  BY <1>1 DEF FreshBuild
<1>3. CASE ~writes
  <2>1. UNCHANGED <<table, reserved>> /\ (growLatched' <=> growLatched)
    BY <1>1, <1>3 DEF RegisterEvent
  <2>2. Provenance' /\ FixedStays' /\ StaticIs' /\ NamesLeadHome' /\ SubscribersAreHeard'
    BY <1>1, <1>3, <2>1 DEF HeardInv, Provenance, FixedStays, StaticIs, NamesLeadHome, SubscribersAreHeard
  <2>3. NothingLeftToClaim'
    BY <1>1, <1>3, <2>1 DEF HeardInv, NothingLeftToClaim, Unclaimed, Open, Claimable
  <2> QED
    BY <1>2, <2>2, <2>3 DEF HeardInv
<1>4. CASE writes
  <2>a. PICK grown \in Grow :
          \E failed \in SUBSET (IF memoryFails THEN Unclaimed ELSE {}), served \in SUBSET Unclaimed :
             \E took \in [served -> Open(grown)] : RetryClaims(grown, failed, took)
    BY <1>4 DEF RegisterEvent
  <2>b. PICK failed \in SUBSET (IF memoryFails THEN Unclaimed ELSE {}), served \in SUBSET Unclaimed :
          \E took \in [served -> Open(grown)] : RetryClaims(grown, failed, took)
    BY <2>a
  <2>1. PICK took \in [served -> Open(grown)] : RetryClaims(grown, failed, took)
    BY <2>b
  <2>2. PICK n \in Nat : DOMAIN grown = Ids(n)
    BY GrowKeepsNames DEF EventInv
  <2>3. /\ \A id \in DOMAIN table : id \in DOMAIN grown /\ grown[id] = table[id]
        /\ \A id \in DOMAIN grown \ DOMAIN table : grown[id] = NoName
    BY GrowKeepsNames DEF EventInv
  <2>4. /\ DOMAIN table' = DOMAIN grown
        /\ \A id \in DOMAIN grown : grown[id] # NoName => table'[id] = grown[id]
        /\ \A i \in served : /\ took[i] \in DOMAIN grown
                             /\ Claimable(grown, took[i])
                             /\ table'[took[i]] = reserved[i].name
        /\ \A id \in DOMAIN grown : id \notin {took[i] : i \in served} => table'[id] = grown[id]
    BY <2>1, <2>2, ClaimsAreExact DEF EventInv
  <2>5. /\ DOMAIN reserved' = DOMAIN reserved /\ served \subseteq Unclaimed
        /\ \A i \in served : reserved'[i] = AtSlot(reserved[i], took[i])
        /\ \A i \in DOMAIN reserved \ served : reserved'[i] = reserved[i]
    BY <2>1 DEF RetryClaims, Unclaimed
  <2>6. \A i \in DOMAIN reserved : /\ reserved[i].name # NoName
                                  /\ reserved[i].slot \in Int /\ reserved[i].fixed \in Int
    BY NamesAreNames DEF EventInv, ReservedType
  <2>7. \A i \in DOMAIN reserved : /\ reserved'[i].name = reserved[i].name
                                  /\ reserved'[i].fixed = reserved[i].fixed
                                  /\ reserved'[i].slot = IF i \in served THEN took[i] ELSE reserved[i].slot
    <3>1. \A i \in served : /\ reserved'[i].name = reserved[i].name
                            /\ reserved'[i].fixed = reserved[i].fixed /\ reserved'[i].slot = took[i]
      <4> SUFFICES ASSUME NEW i \in served
                   PROVE  /\ reserved'[i].name = reserved[i].name
                          /\ reserved'[i].fixed = reserved[i].fixed /\ reserved'[i].slot = took[i]
        OBVIOUS
      <4>1. reserved'[i] = AtSlot(reserved[i], took[i])
        BY <2>5
      <4> QED
        BY <4>1 DEF AtSlot, Reservation
    <3> QED
      BY <2>5, <3>1
  <2>8. \A i \in served : /\ i \in DOMAIN reserved /\ reserved[i].slot < 0 /\ reserved[i].fixed < 0
                          /\ took[i] \in Nat
    BY <2>2, <2>4, <2>5, <2>6 DEF Unclaimed, HeardInv, FixedStays, Ids
  <2>9. Provenance' /\ StaticIs'
    BY <1>1, <2>5, <2>7 DEF HeardInv, Provenance, StaticIs
  <2>10. FixedStays'
    BY <1>1, <2>5, <2>7, <2>8, <2>6 DEF HeardInv, FixedStays
  <2>11. ASSUME NEW i \in DOMAIN reserved, NEW id \in DOMAIN table', table'[id] = reserved[i].name
         PROVE  id = reserved'[i].slot
    <3>1. CASE id \in {took[j] : j \in served}
      <4>1. PICK j \in served : id = took[j]
        BY <3>1
      <4>2. reserved[j].name = reserved[i].name /\ reserved[j].fixed < 0 /\ j \in DOMAIN reserved
        BY <2>4, <2>8, <2>11, <4>1
      <4>3. i = j
        BY <4>2 DEF HeardInv, Provenance
      <4> QED
        BY <2>7, <4>1, <4>3
    <3>2. CASE id \notin {took[j] : j \in served}
      <4>1. grown[id] = reserved[i].name /\ id \in DOMAIN grown
        BY <2>4, <2>11, <3>2
      <4>2. id \in DOMAIN table /\ table[id] = reserved[i].name
        BY <2>3, <2>6, <4>1
      <4>3. id = reserved[i].slot /\ id \in Nat
        BY <1>1, <1>4, <2>2, <4>1, <4>2 DEF HeardInv, NamesLeadHome, Ids
      <4>4. i \notin served
        BY <2>8, <4>3
      <4> QED
        BY <2>7, <4>3, <4>4
    <3> QED
      BY <3>1, <3>2
  <2>12. ASSUME NEW i \in DOMAIN reserved, i \notin served, reserved[i].slot \in DOMAIN table'
         PROVE  reserved[i].slot \in DOMAIN table
    <3>1. reserved[i].slot >= 0
      BY <2>2, <2>4, <2>12 DEF Ids
    <3>2. CASE reserved[i].fixed < 0
      BY <3>1, <3>2 DEF EventInv, ClaimsAreOurs
    <3>3. CASE reserved[i].fixed >= 0
      BY <1>1, <1>4, <3>3 DEF HeardInv, FixedStays, NamesLeadHome
    <3> QED
      BY <2>6, <3>2, <3>3
  <2>13. ASSUME NEW i \in DOMAIN reserved, reserved'[i].slot \in DOMAIN table'
         PROVE  table'[reserved'[i].slot] = reserved[i].name
    <3>1. CASE i \in served
      BY <2>4, <2>7, <3>1
    <3>2. CASE i \notin served
      <4>1. reserved'[i].slot = reserved[i].slot /\ reserved[i].slot \in DOMAIN table
        BY <2>7, <2>12, <2>13, <3>2
      <4>2. table[reserved[i].slot] = reserved[i].name
        BY <1>1, <1>4, <4>1 DEF HeardInv, NamesLeadHome
      <4> QED
        BY <2>3, <2>4, <2>6, <4>1, <4>2
    <3> QED
      BY <3>1, <3>2
  <2>14. NamesLeadHome'
    <3>1. Ids(StaticCount) \subseteq DOMAIN table'
      BY <1>1, <1>4, <2>3, <2>4 DEF HeardInv, NamesLeadHome
    <3> QED
      BY <2>5, <2>7, <2>11, <2>13, <3>1 DEF NamesLeadHome
  <2>15. NothingLeftToClaim'
    <3> SUFFICES ASSUME ~memoryFails, NEW k \in Unclaimed', NEW id \in Open(table')
                 PROVE  FALSE
      BY <1>1, <1>4 DEF NothingLeftToClaim, Open
    <3>1. k \in Unclaimed \ served
      BY <2>5, <2>6, <2>7, <2>8 DEF Unclaimed
    <3>2. id \in DOMAIN table' /\ table'[id] = NoName /\ id >= GlueCount /\ id \notin ChatIds
      BY DEF Open, Claimable
    <3>3. id \notin {took[j] : j \in served}
      BY <2>4, <2>6, <2>8, <3>2
    <3>4. id \in Open(grown)
      BY <2>4, <3>2, <3>3 DEF Open, Claimable
    <3>5. failed = {} /\ DOMAIN took = served
      OBVIOUS
    <3>6. \E j \in served : took[j] = id
      BY <2>1, <3>1, <3>4, <3>5 DEF RetryClaims, Claims
    <3> QED
      BY <3>3, <3>6
  <2>16. SubscribersAreHeard'
    <3> SUFFICES ASSUME NEW i \in DOMAIN reserved, NEW g \in Frames, ~memoryFails,
                        reserved'[i].slot \in DOMAIN table', <<g, reserved[i].name>> \in asked'
                 PROVE  g \in chains'[reserved'[i].slot]
      BY <1>1, <2>5, <2>7 DEF SubscribersAreHeard
    <3> DEFINE id == reserved'[i].slot
    <3>1. CASE g = f /\ reserved[i].name = name
      <4>1. table'[id] = name
        BY <2>13, <3>1
      <4>2. \A d \in Ids(id) : table'[d] # name
        <5> SUFFICES ASSUME NEW d \in Ids(id), table'[d] = name PROVE FALSE
          OBVIOUS
        <5>1. id \in Nat /\ d \in DOMAIN table' /\ d # id
          BY <2>2, <2>4 DEF Ids
        <5> QED
          BY <2>11, <3>1, <5>1
      <4>3. id \in Found(table', name)
        BY <4>1, <4>2 DEF Found
      <4> QED
        BY <1>1, <3>1, <4>3
    <3>2. CASE ~(g = f /\ reserved[i].name = name)
      <4>1. <<g, reserved[i].name>> \in asked
        BY <1>1, <3>2
      <4>2. growLatched
        BY <1>4, <4>1 DEF HeardInv, NothingLeftToClaim
      <4>3. grown = table
        BY <4>2 DEF Grow, GrowAttempted
      <4>4. i \notin served
        BY <2>5, <4>2, <4>3 DEF HeardInv, NothingLeftToClaim
      <4>5. id = reserved[i].slot /\ id \in DOMAIN table
        BY <2>7, <2>12, <4>4
      <4>6. g \in chains[id] /\ id \in DOMAIN chains
        BY <1>1, <1>4, <4>1, <4>5 DEF HeardInv, SubscribersAreHeard, FreshBuild
      <4> QED
        BY <1>1, <4>6
    <3> QED
      BY <3>1, <3>2
  <2> QED
    BY <1>2, <2>9, <2>10, <2>14, <2>15, <2>16 DEF HeardInv
<1> QED
  BY <1>3, <1>4

(* A frame that asked for a custom event, or for one of the engine's that the
   library names, hears it as long as the event has a slot: through claims,
   growth, unregistrations and rebuilds, where no allocation fails and nobody
   else uses the name. *)
THEOREM SubscribersStayHeard ==
  ASSUME NamesAreApart
  PROVE  EventSpec => []SubscribersAreHeard
<1>1. EventInit => EventInv /\ HeardInv
  BY EventInitInv, InitHeard
<1>2. EventInv /\ HeardInv /\ [EventNext]_eventVars => (EventInv /\ HeardInv)'
  <2> SUFFICES ASSUME EventInv, HeardInv, [EventNext]_eventVars PROVE HeardInv'
    BY EventNextInv
  <2>1. CASE UNCHANGED eventVars
    BY <2>1 DEF eventVars, engine, static, flags, HeardInv, Provenance, FixedStays, StaticIs, FreshBuild,
                NamesLeadHome, NothingLeftToClaim, Unclaimed, Open, Claimable, SubscribersAreHeard
  <2>2. CASE Lua
    BY <2>2, RegisterHeard, UnregisterHeard DEF Lua
  <2> QED
    BY <2>1, <2>2, ReserveHeard, BuildHeard, OthersHeard DEF EventNext
<1>3. HeardInv => SubscribersAreHeard
  BY DEF HeardInv
<1> QED
  BY <1>1, <1>2, <1>3, PTL DEF EventSpec

-----------------------------------------------------------------------------
(* Animation groups. *)

Loops == {"NONE", "FORWARD", "REVERSE"}
Phases == Silent \cup {"onplay", "animplay", "animupdate", "finished", "advanceplay", "loop", "done",
                       "update", "stopping"}

(* Where Play and Stop are not done with a group. *)
Opening == {"onplay", "animplay", "begin", "stopping"}

(* A paused group plays, and is at an order. *)
Playbacks ==
  {s \in [loop : Loops, paused : BOOLEAN, pending : BOOLEAN, stopping : BOOLEAN, order : Int] :
     s.paused => s.loop # "NONE" /\ s.order \in Orders}

Animations == [play : {"stopped", "playing", "paused"}, at : Int, shown : Int, back : BOOLEAN]

Entries == [group : Groups, left : Int, phase : Phases, order : Orders]

Stores == [Regions -> [has : BOOLEAN, alpha : Int]]

AnimTypes ==
  /\ group \in [Groups -> Playbacks]
  /\ anim \in [Groups -> [Orders -> Animations]]
  /\ playing \in [Regions -> SUBSET Groups]
  /\ \A r \in Regions : \A g \in playing[r] : RegionOf[g] = r
  /\ alpha \in [Regions -> Int]
  /\ data \in Stores
  /\ stack \in Seq(Entries)
  /\ base \in [Regions -> Int]

-----------------------------------------------------------------------------
(* What is under way. *)

(* The innermost entry of a group on `s` is at one of the phases. *)
InnerIn(s, g, phases) ==
  \E n \in DOMAIN s : /\ s[n].group = g /\ s[n].phase \in phases
                      /\ \A m \in 1..(n - 1) : s[m].group # g

(* What the invariant looks at: whether it is in its last OnUpdate, and in Play or
   Stop.  It is as it was, or the innermost is at the phase given. *)
Same(s, t, g) ==
  /\ InnerIn(t, g, {"done"}) <=> InnerIn(s, g, {"done"})
  /\ InnerIn(t, g, Opening) <=> InnerIn(s, g, Opening)

Is(s, g, phase) ==
  /\ InnerIn(s, g, {"done"}) <=> phase = "done"
  /\ InnerIn(s, g, Opening) <=> phase \in Opening

LEMMA OneOnTop ==
  ASSUME NEW s \in Seq(Entries), NEW u \in Entries, NEW g, NEW phases
  PROVE  /\ <<u>> \o s \in Seq(Entries)
         /\ u.group = g => (InnerIn(<<u>> \o s, g, phases) <=> u.phase \in phases)
         /\ u.group # g => (InnerIn(<<u>> \o s, g, phases) <=> InnerIn(s, g, phases))
<1> DEFINE t == <<u>> \o s
<1>1. <<u>> \in Seq(Entries) /\ Len(<<u>>) = 1 /\ <<u>>[1] = u
  OBVIOUS
<1>2. /\ t \in Seq(Entries) /\ Len(t) = Len(s) + 1
      /\ t[1] = u /\ \A n \in 1..Len(s) : t[n + 1] = s[n]
  BY <1>1, ConcatProperties
<1> HIDE DEF t
<1>3. DOMAIN t = 1..(Len(s) + 1) /\ DOMAIN s = 1..Len(s) /\ Len(s) \in Nat
  BY <1>2
<1>4. ASSUME u.group = g PROVE InnerIn(t, g, phases) <=> u.phase \in phases
  <2>1. ASSUME InnerIn(t, g, phases) PROVE u.phase \in phases
    <3>1. PICK n \in 1..(Len(s) + 1) : /\ t[n].group = g /\ t[n].phase \in phases
                                       /\ \A m \in 1..(n - 1) : t[m].group # g
      BY <1>3, <2>1 DEF InnerIn
    <3>2. n = 1
      BY <1>2, <1>3, <1>4, <3>1
    <3> QED BY <1>2, <3>1, <3>2
  <2>2. ASSUME u.phase \in phases PROVE InnerIn(t, g, phases)
    <3>1. 1 \in DOMAIN t /\ 1..(1 - 1) = {}
      BY <1>3
    <3> QED BY <1>2, <1>4, <2>2, <3>1 DEF InnerIn
  <2> QED BY <2>1, <2>2
<1>5. ASSUME u.group # g PROVE InnerIn(t, g, phases) <=> InnerIn(s, g, phases)
  <2>1. ASSUME InnerIn(t, g, phases) PROVE InnerIn(s, g, phases)
    <3>1. PICK n \in 1..(Len(s) + 1) : /\ t[n].group = g /\ t[n].phase \in phases
                                       /\ \A m \in 1..(n - 1) : t[m].group # g
      BY <1>3, <2>1 DEF InnerIn
    <3>2. n - 1 \in 1..Len(s) /\ t[n] = s[n - 1]
      BY <1>2, <1>3, <1>5, <3>1
    <3>3. \A m \in 1..((n - 1) - 1) : s[m].group # g
      <4> TAKE m \in 1..((n - 1) - 1)
      <4>1. m \in 1..Len(s) /\ m + 1 \in 1..(n - 1)
        BY <1>3, <3>2
      <4> QED BY <1>2, <3>1, <4>1
    <3> QED BY <1>3, <3>1, <3>2, <3>3 DEF InnerIn
  <2>2. ASSUME InnerIn(s, g, phases) PROVE InnerIn(t, g, phases)
    <3>1. PICK n \in 1..Len(s) : /\ s[n].group = g /\ s[n].phase \in phases
                                 /\ \A m \in 1..(n - 1) : s[m].group # g
      BY <1>3, <2>2 DEF InnerIn
    <3>2. n + 1 \in DOMAIN t /\ t[n + 1] = s[n]
      BY <1>2, <1>3
    <3>3. \A m \in 1..((n + 1) - 1) : t[m].group # g
      <4> TAKE m \in 1..((n + 1) - 1)
      <4>1. m = 1 \/ (m - 1 \in 1..(n - 1) /\ m - 1 \in 1..Len(s) /\ t[m] = s[m - 1])
        BY <1>2, <1>3
      <4> QED BY <1>2, <1>5, <3>1, <4>1
    <3> QED BY <3>1, <3>2, <3>3 DEF InnerIn
  <2> QED BY <2>1, <2>2
<1> QED BY <1>2, <1>4, <1>5 DEF t

LEMMA OnTop ==
  ASSUME NEW s \in Seq(Entries), NEW u \in Entries
  PROVE  /\ <<u>> \o s \in Seq(Entries)
         /\ Is(<<u>> \o s, u.group, u.phase)
         /\ \A g : g # u.group => Same(s, <<u>> \o s, g)
BY OneOnTop DEF Is, Same

LEMMA NowIsOne ==
  ASSUME AnimTypes, stack # <<>>
  PROVE  /\ Now \in Entries /\ Now.group \in Groups /\ Tail(stack) \in Seq(Entries)
         /\ Is(stack, Now.group, Now.phase)
         /\ \A g : g # Now.group => Same(Tail(stack), stack, g)
<1>1. Now \in Entries /\ Tail(stack) \in Seq(Entries)
  BY HeadTailProperties DEF AnimTypes, Now
<1>2. stack = <<Now>> \o Tail(stack)
  BY DEF AnimTypes, Now
<1>3. Now.group \in Groups
  BY <1>1 DEF Entries
<1>4. /\ Is(<<Now>> \o Tail(stack), Now.group, Now.phase)
      /\ \A g : g # Now.group => Same(Tail(stack), <<Now>> \o Tail(stack), g)
  BY <1>1, OnTop
<1> QED BY <1>1, <1>2, <1>3, <1>4

(* The innermost entry gives way to another of its group. *)
LEMMA NowBecomes ==
  ASSUME AnimTypes, stack # <<>>, NEW u \in Entries, u.group = Now.group,
         stack' = <<u>> \o Tail(stack)
  PROVE  /\ stack' \in Seq(Entries) /\ Is(stack', Now.group, u.phase)
         /\ \A g : g # Now.group => Same(stack, stack', g)
<1>1. /\ stack' \in Seq(Entries) /\ Is(stack', Now.group, u.phase)
      /\ \A g : g # Now.group => Same(Tail(stack), stack', g)
  BY NowIsOne, OnTop
<1>2. \A g : g # Now.group => Same(Tail(stack), stack, g)
  BY NowIsOne
<1> QED BY <1>1, <1>2 DEF Same

LEMMA GoesIs ==
  ASSUME AnimTypes, stack # <<>>, NEW phase \in Phases, Goes(phase)
  PROVE  /\ stack' \in Seq(Entries) /\ Is(stack', Now.group, phase)
         /\ \A g : g # Now.group => Same(stack, stack', g)
<1> DEFINE u == [Now EXCEPT !.phase = phase]
<1>1. u \in Entries /\ u.group = Now.group /\ u.phase = phase
  BY NowIsOne DEF Entries
<1>2. stack' = <<u>> \o Tail(stack)
  BY DEF Goes
<1> HIDE DEF u
<1> QED BY <1>1, <1>2, NowBecomes

LEMMA EntersIs ==
  ASSUME AnimTypes, NEW g \in Groups, NEW phase \in Phases, Enters(g, phase)
  PROVE  /\ stack' \in Seq(Entries) /\ Is(stack', g, phase)
         /\ \A h : h # g => Same(stack, stack', h)
<1> DEFINE u == [Update(g, 0) EXCEPT !.phase = phase]
<1>1. u \in Entries /\ u.group = g /\ u.phase = phase
  BY AnimGroupAssumption DEF Update, Entries, Orders, Phases
<1>2. stack' = <<u>> \o stack
  BY DEF Enters
<1> HIDE DEF u
<1> QED BY <1>1, <1>2, OnTop DEF AnimTypes

LEMMA ReturnsIs ==
  ASSUME AnimTypes, stack # <<>>, Returns
  PROVE  /\ stack' \in Seq(Entries)
         /\ \A g : g # Now.group => Same(stack, stack', g)
<1>1. Tail(stack) \in Seq(Entries) /\ \A g : g # Now.group => Same(Tail(stack), stack, g)
  BY NowIsOne
<1> QED BY <1>1 DEF Returns, Same

LEMMA SetToSeqIsOfIt ==
  ASSUME NEW S \in SUBSET Groups
  PROVE  SetToSeq(S) \in Seq(Groups)
<1>1. IsFiniteSet(S)
  BY AnimGroupAssumption, FS_Subset
<1>2. Cardinality(S) \in Nat /\ ExistsBijection(1..Cardinality(S), S)
  BY <1>1, FS_CardinalityType
<1>3. \E f \in [1..Cardinality(S) -> S] : IsInjective(f)
  BY <1>2 DEF ExistsBijection, Bijection, Injection, IsInjective
<1>4. SetToSeq(S) \in [1..Cardinality(S) -> S]
  BY <1>3 DEF SetToSeq
<1> QED BY <1>2, <1>4

-----------------------------------------------------------------------------
(* Groups, and what their regions list. *)

(* What PlayIsInOrder says of one group. *)
InOrder(g) ==
  /\ Active(g) => HasOrder(g) \/ InnerIn(stack, g, {"done"})
  /\ Active(g) => Listed(g) \/ InnerIn(stack, g, Opening)
  /\ Listed(g) => Active(g) \/ g \in late

AnimInv == AnimTypes /\ \A g \in Groups : InOrder(g)

(* Nothing happens to a group. *)
LEMMA StaysInOrder ==
  ASSUME NEW g \in Groups, InOrder(g), group'[g] = group[g], Listed(g)' <=> Listed(g),
         g \in late' <=> g \in late, Same(stack, stack', g)
  PROVE  InOrder(g)'
BY DEF InOrder, Same, Active, HasOrder

(* One group's playback changes. *)
LEMMA OneChanges ==
  ASSUME AnimTypes, NEW g \in Groups, NEW s \in Playbacks, group' = [group EXCEPT ![g] = s]
  PROVE  /\ group' \in [Groups -> Playbacks] /\ group'[g] = s
         /\ \A h \in Groups : h # g => group'[h] = group[h]
BY DEF AnimTypes

LEMMA StoppedIs ==
  Stopped \in Playbacks /\ Stopped.loop = "NONE" /\ ~Stopped.paused /\ Stopped.order = -1
BY DEF Stopped, Playbacks, Loops

LEMMA StoppedAt ==
  ASSUME NEW order \in Int
  PROVE  /\ [Stopped EXCEPT !.order = order] \in Playbacks
         /\ [Stopped EXCEPT !.order = order].loop = "NONE"
BY DEF Stopped, Playbacks, Loops

LEMMA SomeOrders ==
  0 \in Orders /\ OrderCount - 1 \in Orders /\ Orders \subseteq Int /\ OrderCount \in Int
BY AnimGroupAssumption DEF Orders

(* The innermost entry goes to a point of an update, or its group's last. *)
LEMMA MovesInOrder ==
  ASSUME AnimInv, stack # <<>>, NEW g \in Groups, g = Now.group, Now.phase \notin Opening \cup {"done"},
         NEW phase \in Phases \ Opening, Is(stack', g, phase),
         UNCHANGED <<playing, late>>, Active(g)' <=> Active(g),
         \/ group'[g].order = group[g].order \/ group'[g].order \in Orders \/ phase = "done"
  PROVE  InOrder(g)'
<1>1. Is(stack, g, Now.phase) /\ InOrder(g)
  BY NowIsOne DEF AnimInv
<1>2. Active(g) => HasOrder(g) /\ Listed(g)
  BY <1>1 DEF Is, InOrder
<1>3. Listed(g)' <=> Listed(g)
  BY DEF Listed
<1> QED BY <1>1, <1>2, <1>3 DEF Is, InOrder, HasOrder

(* The animations. *)
LEMMA FreshAnim ==
  ASSUME NEW a \in Animations, NEW b \in BOOLEAN
  PROVE  [a EXCEPT !.play = "stopped", !.at = 0, !.back = b] \in Animations
<1> DEFINE c == [a EXCEPT !.play = "stopped"]
           d == [c EXCEPT !.at = 0]
<1>1. c \in Animations
  BY DEF Animations
<1> HIDE DEF c
<1>2. d \in Animations
  BY <1>1 DEF Animations
<1> HIDE DEF d
<1>3. [d EXCEPT !.back = b] \in Animations
  BY <1>2 DEF Animations
<1>4. [a EXCEPT !.play = "stopped", !.at = 0, !.back = b] = [d EXCEPT !.back = b]
  BY DEF c, d
<1> QED BY <1>3, <1>4

LEMMA FreshAnims ==
  ASSUME AnimTypes, NEW g \in Groups, NEW loop
  PROVE  ResetAnims(g, loop) \in [Orders -> Animations]
<1> SUFFICES ASSUME NEW n \in Orders
             PROVE  [anim[g][n] EXCEPT !.play = "stopped", !.at = 0, !.back = (loop = "REVERSE")] \in Animations
  BY DEF ResetAnims
<1>1. anim[g][n] \in Animations /\ (loop = "REVERSE") \in BOOLEAN
  BY DEF AnimTypes
<1> QED BY <1>1, FreshAnim

LEMMA PlayAnimIs ==
  ASSUME AnimTypes, stack # <<>>, NEW g \in Groups, NEW n \in Orders, NEW as \in [Orders -> Animations],
         NEW scripted, NEW silent, PlayAnim(g, n, as, scripted, silent)
  PROVE  /\ anim' \in [Groups -> [Orders -> Animations]]
         /\ \E phase \in {scripted, silent} : Goes(phase)
<1>1. anim' = [anim EXCEPT ![g] = [as EXCEPT ![n].play = "playing"]]
  BY DEF PlayAnim
<1>2. [as EXCEPT ![n].play = "playing"] \in [Orders -> Animations]
  <2>1. as[n] \in Animations
    OBVIOUS
  <2>2. [as[n] EXCEPT !.play = "playing"] \in Animations
    BY <2>1 DEF Animations
  <2>3. [as EXCEPT ![n].play = "playing"] = [as EXCEPT ![n] = [as[n] EXCEPT !.play = "playing"]]
    OBVIOUS
  <2> QED BY <2>2, <2>3
<1>3. anim' \in [Groups -> [Orders -> Animations]]
  BY <1>1, <1>2 DEF AnimTypes
<1>4. \E phase \in {scripted, silent} : Goes(phase)
  BY DEF PlayAnim
<1> QED BY <1>3, <1>4

(* Numbers. *)
LEMMA AppliedIs ==
  ASSUME NEW g \in Groups, NEW n \in Int, NEW a \in Int
  PROVE  /\ Applied(g, n, a) \in Int
         /\ group[g].order \in Int => AppliedBefore(g, a) \in Int
<1>1. Change[g] \in Int /\ Span \in Int /\ Opaque \in Int
  BY AnimGroupAssumption
<1>2. \A b \in Int : Clamp(b) \in Int
  BY <1>1 DEF Clamp
<1>3. Change[g] * n \in Int
  BY <1>1
<1>4. ASSUME group[g].order \in Int PROVE Change[g] * (group[g].order * Span) \in Int
  <2>1. group[g].order * Span \in Int
    BY <1>1, <1>4
  <2> QED BY <1>1, <2>1
<1>5. a + Change[g] * n \in Int
  BY <1>3
<1>6. group[g].order \in Int => a + Change[g] * (group[g].order * Span) \in Int
  BY <1>4
<1> QED BY <1>2, <1>5, <1>6 DEF Applied, AppliedBefore

LEMMA PreOnIs ==
  ASSUME AnimTypes, NEW r \in Regions
  PROVE  PreOnAnimUpdate(r) \in [Regions -> Int]
BY DEF PreOnAnimUpdate, AnimTypes, Stores

-----------------------------------------------------------------------------
(* Play. *)

LEMMA BegunIs ==
  ASSUME NEW s \in Playbacks
  PROVE  /\ Begun(s) \in Playbacks /\ Begun(s).order \in Orders
         /\ s.loop # "NONE" => Begun(s).loop # "NONE"
<1>1. CASE s.order \in Orders
  BY <1>1 DEF Begun
<1>2. CASE s.order \notin Orders
  <2> DEFINE loop == IF s.order < 0 THEN "FORWARD" ELSE "REVERSE"
             order == IF s.order < 0 THEN 0 ELSE OrderCount - 1
             t == [s EXCEPT !.loop = loop, !.order = order]
  <2>1. loop \in Loops \ {"NONE"} /\ order \in Orders /\ order \in Int
    BY SomeOrders DEF Loops
  <2>2. Begun(s) = t
    BY <1>2 DEF Begun
  <2> HIDE DEF loop, order
  <2>3. ~s.paused
    BY <1>2 DEF Playbacks
  <2>4. t \in Playbacks /\ t.loop = loop /\ t.order = order
    <3> DEFINE u == [s EXCEPT !.loop = loop]
    <3>1. u \in Playbacks /\ ~u.paused /\ u.loop = loop
      BY <2>1, <2>3 DEF Playbacks
    <3>2. t = [u EXCEPT !.order = order]
      OBVIOUS
    <3> HIDE DEF u, t
    <3> QED BY <2>1, <3>1, <3>2 DEF Playbacks
  <2> QED BY <2>1, <2>2, <2>4
<1> QED BY <1>1, <1>2

LEMMA BeginPlayInv ==
  ASSUME AnimInv, BeginPlay PROVE AnimInv'
<1>0. PICK g \in Groups : g = Now.group
  BY NowIsOne DEF AnimInv, BeginPlay, At
<1> DEFINE s == Begun(group[g])
           as == IF group[g].order \in Orders THEN anim[g] ELSE ResetAnims(g, s.loop)
<1>1. /\ AnimTypes /\ stack # <<>> /\ UNCHANGED <<playing, alpha, data, base, late>>
      /\ group' = [group EXCEPT ![g] = s]
      /\ PlayAnim(g, s.order, as, "animplay", "begin")
  BY <1>0 DEF BeginPlay, At, AnimInv
<1>2. g \in Groups /\ group[g] \in Playbacks
  BY <1>1 DEF AnimTypes
<1>3. s \in Playbacks /\ s.order \in Orders /\ (group[g].loop # "NONE" => s.loop # "NONE")
  BY <1>2, BegunIs
<1>4. as \in [Orders -> Animations]
  BY <1>1, <1>2, FreshAnims DEF AnimTypes
<1> HIDE DEF s, as
<1>5. /\ anim' \in [Groups -> [Orders -> Animations]]
      /\ \E phase \in {"animplay", "begin"} : Goes(phase)
  BY <1>1, <1>2, <1>3, <1>4, PlayAnimIs
<1>6. PICK phase \in {"animplay", "begin"} : Goes(phase)
  BY <1>5
<1>7. phase \in Phases /\ phase \in Opening
  BY DEF Phases, Silent, Opening
<1>8. /\ stack' \in Seq(Entries) /\ Is(stack', g, phase)
      /\ \A h : h # g => Same(stack, stack', h)
  BY <1>0, <1>1, <1>6, <1>7, GoesIs
<1>9. /\ group' \in [Groups -> Playbacks] /\ group'[g] = s
      /\ \A h \in Groups : h # g => group'[h] = group[h]
  BY <1>1, <1>2, <1>3, OneChanges
<1>10. \A h \in Groups : (Listed(h)' <=> Listed(h)) /\ InOrder(h)
  BY <1>1 DEF Listed, AnimInv
<1>11. InOrder(g)'
  BY <1>1, <1>2, <1>3, <1>7, <1>8, <1>9, <1>10 DEF InOrder, Is, HasOrder, Active
<1>12. ASSUME NEW h \in Groups, h # g PROVE InOrder(h)'
  BY <1>1, <1>8, <1>9, <1>10, <1>12, StaysInOrder
<1> QED BY <1>1, <1>5, <1>8, <1>9, <1>11, <1>12 DEF AnimInv, AnimTypes

LEMMA NotifyBeginIs ==
  ASSUME AnimTypes, NEW g \in Groups, NotifyBegin(g)
  PROVE  /\ playing' \in [Regions -> SUBSET Groups]
         /\ \A r \in Regions : \A h \in playing'[r] : RegionOf[h] = r
         /\ \A h \in Groups : Listed(h)' <=> h = g \/ Listed(h)
         /\ data' \in Stores
<1>1. RegionOf[g] \in Regions /\ playing' = [playing EXCEPT ![RegionOf[g]] = @ \cup {g}]
  BY AnimGroupAssumption DEF NotifyBegin
<1>2. playing' \in [Regions -> SUBSET Groups]
  BY <1>1 DEF AnimTypes
<1>3. \A r \in Regions : playing'[r] = IF r = RegionOf[g] THEN playing[r] \cup {g} ELSE playing[r]
  BY <1>1 DEF AnimTypes
<1>4. \A h \in Groups : RegionOf[h] \in Regions
  BY AnimGroupAssumption
<1>5. ASSUME NEW r \in Regions, NEW h \in playing'[r] PROVE RegionOf[h] = r
  <2>1. h \in playing[r] \/ (h = g /\ r = RegionOf[g])
    BY <1>3
  <2> QED BY <2>1 DEF AnimTypes
<1>6. \A h \in Groups : Listed(h)' <=> h = g \/ Listed(h)
  BY <1>3, <1>4 DEF Listed
<1>7. data' \in Stores
  <2>1. \A x \in Regions : [has |-> TRUE, alpha |-> alpha[x]] \in [has : BOOLEAN, alpha : Int]
    BY DEF AnimTypes
  <2>2. CASE data' = data
    BY <2>2 DEF AnimTypes
  <2>3. CASE data' = [x \in Regions |-> IF x \in Below(RegionOf[g]) THEN [has |-> TRUE, alpha |-> alpha[x]]
                                        ELSE data[x]]
    BY <2>1, <2>3 DEF AnimTypes, Stores
  <2> QED BY <1>1, <2>2, <2>3 DEF NotifyBegin
<1> QED BY <1>2, <1>5, <1>6, <1>7

LEMMA EndPlayInv ==
  ASSUME AnimInv, EndPlay PROVE AnimInv'
<1>0. PICK g \in Groups : g = Now.group
  BY NowIsOne DEF AnimInv, EndPlay, At
<1>1. /\ AnimTypes /\ stack # <<>> /\ Now.phase \in {"animplay", "begin"}
      /\ UNCHANGED <<group, anim, alpha, base>> /\ Goes("pass") /\ NotifyBegin(g)
      /\ late' = IF Active(g) THEN late \ {g} ELSE late \cup {g}
  BY <1>0 DEF EndPlay, At, AnimInv
<1>2. g \in Groups /\ Is(stack, g, Now.phase)
  BY <1>0, <1>1, NowIsOne
<1>3. /\ stack' \in Seq(Entries) /\ Is(stack', g, "pass")
      /\ \A h : h # g => Same(stack, stack', h)
  BY <1>0, <1>1, GoesIs DEF Phases, Silent
<1>4. /\ playing' \in [Regions -> SUBSET Groups]
      /\ \A r \in Regions : \A h \in playing'[r] : RegionOf[h] = r
      /\ \A h \in Groups : Listed(h)' <=> h = g \/ Listed(h)
      /\ data' \in Stores
  BY <1>1, <1>2, NotifyBeginIs
<1>5. InOrder(g)'
  <2>1. Active(g)' <=> Active(g)
    BY <1>1 DEF Active
  <2>2. Active(g) => HasOrder(g)'
    BY <1>1, <1>2 DEF AnimInv, InOrder, Is, HasOrder
  <2>3. Listed(g)' /\ (~Active(g) => g \in late')
    BY <1>1, <1>2, <1>4
  <2> QED BY <2>1, <2>2, <2>3 DEF InOrder
<1>6. ASSUME NEW h \in Groups, h # g PROVE InOrder(h)'
  <2>1. h \in late' <=> h \in late
    BY <1>1, <1>6
  <2>2. InOrder(h) /\ group'[h] = group[h] /\ Same(stack, stack', h)
    BY <1>1, <1>3, <1>6 DEF AnimInv
  <2> QED BY <1>4, <1>6, <2>1, <2>2, StaysInOrder
<1> QED BY <1>1, <1>3, <1>4, <1>5, <1>6 DEF AnimInv, AnimTypes

-----------------------------------------------------------------------------
(* The steps of an update. *)

LEMMA SkipInv ==
  ASSUME AnimInv, Skip PROVE AnimInv'
<1>0. PICK g \in Groups : g = Now.group
  BY NowIsOne DEF AnimInv, Skip, At
<1>1. /\ AnimTypes /\ stack # <<>> /\ Returns /\ ~Active(g)
      /\ UNCHANGED <<group, anim, playing, alpha, data, base, late>>
  BY <1>0 DEF Skip, At, AnimInv
<1>2. stack' \in Seq(Entries) /\ \A h : h # g => Same(stack, stack', h)
  BY <1>0, <1>1, ReturnsIs
<1>3. \A h \in Groups : (Listed(h)' <=> Listed(h)) /\ InOrder(h) /\ (Active(h)' <=> Active(h))
  BY <1>1 DEF Listed, Active, AnimInv
<1>4. ASSUME NEW h \in Groups PROVE InOrder(h)'
  <2>1. CASE h = g
    BY <1>1, <1>3, <2>1 DEF InOrder
  <2>2. CASE h # g
    BY <1>1, <1>2, <1>3, <2>2, StaysInOrder
  <2> QED BY <2>1, <2>2
<1> QED BY <1>1, <1>2, <1>4 DEF AnimInv, AnimTypes

(* The update of a group that is listed and at an order, and returns. *)
LEMMA UpdatedInv ==
  ASSUME AnimInv, Updated PROVE AnimInv'
<1>0. PICK g \in Groups : g = Now.group
  BY NowIsOne DEF AnimInv, Updated, At
<1>1. /\ AnimTypes /\ stack # <<>> /\ Returns /\ Now.phase = "update"
      /\ UNCHANGED <<group, anim, playing, alpha, data, base, late>>
  BY <1>0 DEF Updated, At, AnimInv
<1>2. stack' \in Seq(Entries) /\ \A h : h # g => Same(stack, stack', h)
  BY <1>0, <1>1, ReturnsIs
<1>3. \A h \in Groups : (Listed(h)' <=> Listed(h)) /\ InOrder(h) /\ (Active(h)' <=> Active(h))
                        /\ (HasOrder(h)' <=> HasOrder(h))
  BY <1>1 DEF Listed, Active, HasOrder, AnimInv
<1>4. Is(stack, g, "update")
  BY <1>0, <1>1, NowIsOne
<1>5. ASSUME NEW h \in Groups PROVE InOrder(h)'
  <2>1. CASE h = g
    <3>1. Active(g) => HasOrder(g) /\ Listed(g)
      BY <1>3, <1>4, <2>1 DEF InOrder, Is, Opening
    <3> QED BY <1>1, <1>3, <2>1, <3>1 DEF InOrder
  <2>2. CASE h # g
    BY <1>1, <1>2, <1>3, <2>2, StaysInOrder
  <2> QED BY <2>1, <2>2
<1> QED BY <1>1, <1>2, <1>5 DEF AnimInv, AnimTypes

(* The innermost entry moves on, and only its group's playback changes. *)
LEMMA MovesInv ==
  ASSUME AnimInv, stack # <<>>, Now.phase \notin Opening \cup {"done"}, NEW g \in Groups, g = Now.group,
         NEW phase \in Phases \ Opening, stack' \in Seq(Entries), Is(stack', g, phase),
         \A h : h # g => Same(stack, stack', h),
         NEW s \in Playbacks, group' = [group EXCEPT ![g] = s],
         s.loop # "NONE" <=> group[g].loop # "NONE",
         \/ s.order = group[g].order \/ s.order \in Orders \/ phase = "done",
         anim' \in [Groups -> [Orders -> Animations]], alpha' \in [Regions -> Int],
         base' \in [Regions -> Int], UNCHANGED <<playing, data, late>>
  PROVE  AnimInv'
<1>1. AnimTypes
  BY DEF AnimInv
<1>2. /\ group' \in [Groups -> Playbacks] /\ group'[g] = s
      /\ \A h \in Groups : h # g => group'[h] = group[h]
  BY <1>1, OneChanges
<1>3. InOrder(g)'
  <2>1. Active(g)' <=> Active(g)
    BY <1>2 DEF Active
  <2> QED BY <1>2, <2>1, MovesInOrder
<1>4. ASSUME NEW h \in Groups, h # g PROVE InOrder(h)'
  <2>1. InOrder(h) /\ (Listed(h)' <=> Listed(h)) /\ (h \in late' <=> h \in late) /\ Same(stack, stack', h)
    BY <1>4 DEF AnimInv, Listed
  <2> QED BY <1>2, <1>4, <2>1, StaysInOrder
<1>5. \A h \in Groups : InOrder(h)'
  BY <1>3, <1>4
<1> QED BY <1>1, <1>2, <1>5 DEF AnimInv, AnimTypes

LEMMA GoesToInv ==
  ASSUME AnimInv, stack # <<>>, Now.phase \notin Opening \cup {"done"}, NEW g \in Groups, g = Now.group,
         NEW phase \in Phases \ Opening, Goes(phase),
         NEW s \in Playbacks, group' = [group EXCEPT ![g] = s],
         s.loop # "NONE" <=> group[g].loop # "NONE",
         \/ s.order = group[g].order \/ s.order \in Orders \/ phase = "done",
         anim' \in [Groups -> [Orders -> Animations]], alpha' \in [Regions -> Int],
         base' \in [Regions -> Int], UNCHANGED <<playing, data, late>>
  PROVE  AnimInv'
<1>1. AnimTypes
  BY DEF AnimInv
<1>2. stack' \in Seq(Entries) /\ Is(stack', g, phase) /\ \A h : h # g => Same(stack, stack', h)
  BY <1>1, GoesIs
<1> QED BY <1>2, MovesInv

LEMMA GroupAsItIs ==
  ASSUME AnimTypes, NEW g \in Groups, UNCHANGED group
  PROVE  group[g] \in Playbacks /\ group' = [group EXCEPT ![g] = group[g]]
BY DEF AnimTypes

(* A group that plays is at an order, except at its last OnUpdate. *)
LEMMA NowHasOrder ==
  ASSUME AnimInv, stack # <<>>, Active(Now.group), Now.phase # "done"
  PROVE  HasOrder(Now.group)
<1>1. Is(stack, Now.group, Now.phase) /\ InOrder(Now.group)
  BY NowIsOne DEF AnimInv
<1> QED BY <1>1 DEF Is, InOrder

(* An animation of a group advances. *)
LEMMA OneAnim ==
  ASSUME AnimTypes, NEW g \in Groups, NEW n \in Orders, NEW b \in Animations,
         anim' = [anim EXCEPT ![g][n] = b]
  PROVE  anim' \in [Groups -> [Orders -> Animations]]
<1>1. [anim[g] EXCEPT ![n] = b] \in [Orders -> Animations]
  BY DEF AnimTypes
<1>2. anim' = [anim EXCEPT ![g] = [anim[g] EXCEPT ![n] = b]]
  OBVIOUS
<1> QED BY <1>1, <1>2 DEF AnimTypes

LEMMA OneAlpha ==
  ASSUME NEW f \in [Regions -> Int], NEW r \in Regions, NEW a \in Int
  PROVE  [f EXCEPT ![r] = a] \in [Regions -> Int]
OBVIOUS

LEMMA ProgressedIs ==
  ASSUME NEW a \in Animations, NEW used \in Int
  PROVE  Progressed(a, used) \in Animations
<1> DEFINE shown == IF a.back THEN Span - (a.at + used) ELSE a.at + used
           c == [a EXCEPT !.at = a.at + used]
<1>1. Span \in Int
  BY AnimGroupAssumption
<1>2. shown \in Int /\ a.at + used \in Int
  BY <1>1 DEF Animations
<1>3. c \in Animations
  BY <1>2 DEF Animations
<1>4. Progressed(a, used) = [c EXCEPT !.shown = shown]
  BY DEF Progressed
<1> HIDE DEF shown, c
<1> QED BY <1>2, <1>3, <1>4 DEF Animations

(* The parts of Pass that the proofs are about. *)
LEMMA PassIs ==
  ASSUME AnimInv, Pass, NEW g \in Groups, g = Now.group
  PROVE  /\ stack # <<>> /\ Now.phase = "pass" /\ Active(g)
         /\ group[g].order \in Orders
         /\ anim' \in [Groups -> [Orders -> Animations]]
         /\ alpha' \in [Regions -> Int]
         /\ \E phase \in {"animupdate", "finished", "advance", "next"}, left \in Int :
              stack' = <<[group |-> g, left |-> left, order |-> group[g].order, phase |-> phase]>> \o Tail(stack)
         /\ UNCHANGED <<group, playing, data, base, late, calls>>
<1> DEFINE n == group[g].order
           a == anim[g][n]
           r == RegionOf[g]
           runs == a.play = "playing" /\ a.at < Span
           used == IF runs THEN Lesser(Now.left, Span - a.at) ELSE 0
           b == IF runs THEN Progressed(a, used) ELSE a
           before == AppliedBefore(g, PreOnAnimUpdate(r)[r])
           applies == a.play # "stopped" \/ a.at = Span
<1>1. /\ AnimTypes /\ stack # <<>> /\ Now.phase = "pass" /\ Active(g)
      /\ anim' = [anim EXCEPT ![g][n] = b]
      /\ UNCHANGED <<group, playing, data, base, late, calls>>
  BY DEF Pass, At, AnimInv
<1>2. PICK scripted \in {FALSE, runs} :
        /\ alpha' = [PreOnAnimUpdate(r) EXCEPT ![r] =
                       IF scripted \/ ~applies THEN before ELSE Applied(g, b.shown, before)]
        /\ stack' = <<[group |-> g, left |-> Now.left - used, order |-> n,
                       phase |-> IF scripted THEN "animupdate"
                                 ELSE IF runs /\ b.at = Span THEN "finished"
                                 ELSE IF a.play = "stopped" \/ a.at = Span THEN "advance"
                                 ELSE "next"]>> \o Tail(stack)
  BY DEF Pass
<1>3. n \in Orders /\ n \in Int
  BY <1>1, NowHasOrder, SomeOrders DEF HasOrder
<1> HIDE DEF n
<1>4. a \in Animations /\ r \in Regions /\ Span \in Int /\ Now.left \in Int
  <2>1. anim[g] \in [Orders -> Animations]
    BY <1>1 DEF AnimTypes
  <2>2. Now \in Entries
    BY <1>1, NowIsOne
  <2> QED BY <1>3, <2>1, <2>2, AnimGroupAssumption DEF Entries
<1>5. a.at \in Int
  BY <1>4 DEF Animations
<1> HIDE DEF a, r
<1>6. used \in Int /\ Now.left - used \in Int
  BY <1>4, <1>5 DEF Lesser
<1>7. b \in Animations /\ b.shown \in Int
  <2>1. b \in Animations
    BY <1>4, <1>6, ProgressedIs
  <2> HIDE DEF b
  <2> QED BY <2>1 DEF Animations
<1>8. anim' \in [Groups -> [Orders -> Animations]]
  BY <1>1, <1>3, <1>7, OneAnim
<1>9. alpha' \in [Regions -> Int]
  <2>1. PreOnAnimUpdate(r) \in [Regions -> Int] /\ PreOnAnimUpdate(r)[r] \in Int
    BY <1>1, <1>4, PreOnIs
  <2>2. before \in Int
    BY <1>3, <2>1, AppliedIs DEF n
  <2> HIDE DEF before, b
  <2>3. Applied(g, b.shown, before) \in Int
    BY <1>7, <2>2, AppliedIs
  <2> DEFINE z == IF scripted \/ ~applies THEN before ELSE Applied(g, b.shown, before)
  <2>4. z \in Int
    BY <2>2, <2>3
  <2>5. alpha' = [PreOnAnimUpdate(r) EXCEPT ![r] = z]
    BY <1>2
  <2> HIDE DEF z
  <2> QED BY <1>4, <2>1, <2>4, <2>5, OneAlpha
<1>10. \E phase \in {"animupdate", "finished", "advance", "next"}, left \in Int :
         stack' = <<[group |-> g, left |-> left, order |-> n, phase |-> phase]>> \o Tail(stack)
  <2> DEFINE phase == IF scripted THEN "animupdate"
                      ELSE IF runs /\ b.at = Span THEN "finished"
                      ELSE IF a.play = "stopped" \/ a.at = Span THEN "advance"
                      ELSE "next"
             left == Now.left - used
  <2>1. stack' = <<[group |-> g, left |-> left, order |-> n, phase |-> phase]>> \o Tail(stack)
    BY <1>2
  <2>2. phase \in {"animupdate", "finished", "advance", "next"} /\ left \in Int
    BY <1>6
  <2> HIDE DEF phase, left
  <2> QED BY <2>1, <2>2
<1> QED BY <1>1, <1>3, <1>8, <1>9, <1>10 DEF n

LEMMA PassInv ==
  ASSUME AnimInv, Pass PROVE AnimInv'
<1>0. PICK g \in Groups : g = Now.group
  BY NowIsOne DEF AnimInv, Pass, At
<1>1. AnimTypes
  BY DEF AnimInv
<1>2. /\ stack # <<>> /\ Now.phase = "pass"
      /\ group[g].order \in Orders
      /\ anim' \in [Groups -> [Orders -> Animations]]
      /\ alpha' \in [Regions -> Int]
      /\ \E phase \in {"animupdate", "finished", "advance", "next"}, left \in Int :
           stack' = <<[group |-> g, left |-> left, order |-> group[g].order, phase |-> phase]>> \o Tail(stack)
      /\ UNCHANGED <<group, playing, data, base, late>>
  BY <1>0, PassIs
<1>3. PICK phase \in {"animupdate", "finished", "advance", "next"}, left \in Int :
        stack' = <<[group |-> g, left |-> left, order |-> group[g].order, phase |-> phase]>> \o Tail(stack)
  BY <1>2
<1> DEFINE u == [group |-> g, left |-> left, order |-> group[g].order, phase |-> phase]
<1>4. phase \in Phases \ Opening /\ "pass" \notin Opening \cup {"done"}
  BY DEF Phases, Silent, Opening
<1>5. u \in Entries /\ u.group = g /\ u.phase = phase
  BY <1>2, <1>4 DEF Entries
<1>6. stack' = <<u>> \o Tail(stack)
  BY <1>3
<1> HIDE DEF u
<1>7. stack' \in Seq(Entries) /\ Is(stack', g, phase) /\ \A h : h # g => Same(stack, stack', h)
  BY <1>0, <1>1, <1>2, <1>5, <1>6, NowBecomes
<1>8. base' \in [Regions -> Int]
  BY <1>2 DEF AnimInv, AnimTypes
<1>9. group[g] \in Playbacks /\ group' = [group EXCEPT ![g] = group[g]]
  BY <1>1, <1>2, GroupAsItIs
<1> HIDE DEF u
<1> QED BY <1>0, <1>2, <1>4, <1>7, <1>8, <1>9, MovesInv

LEMMA AfterAnimUpdateInv ==
  ASSUME AnimInv, AfterAnimUpdate PROVE AnimInv'
<1>0. PICK g \in Groups : g = Now.group
  BY NowIsOne DEF AnimInv, AfterAnimUpdate, At
<1> DEFINE r == RegionOf[g]
           a == anim[g][Now.order]
           phase == IF a.at = Span THEN "finished" ELSE "next"
<1>1. /\ AnimTypes /\ stack # <<>> /\ Now.phase = "animupdate" /\ Goes(phase)
      /\ alpha' = [alpha EXCEPT ![r] = Applied(g, a.shown, alpha[r])]
      /\ base' = IF Animated(r) THEN base ELSE [base EXCEPT ![r] = Applied(g, a.shown, alpha[r])]
      /\ UNCHANGED <<group, anim, playing, data, late>>
  BY <1>0 DEF AfterAnimUpdate, At, AnimInv
<1>2. r \in Regions /\ a \in Animations
  BY <1>0, <1>1, NowIsOne, AnimGroupAssumption DEF AnimTypes, Entries
<1>3. a.shown \in Int /\ alpha \in [Regions -> Int] /\ base \in [Regions -> Int] /\ alpha[r] \in Int
  BY <1>1, <1>2 DEF AnimTypes, Animations
<1> HIDE DEF a, r
<1>4. Applied(g, a.shown, alpha[r]) \in Int
  BY <1>3, AppliedIs
<1>5. alpha' \in [Regions -> Int] /\ base' \in [Regions -> Int]
  BY <1>1, <1>2, <1>3, <1>4, OneAlpha
<1>6. phase \in Phases \ Opening /\ "animupdate" \notin Opening \cup {"done"}
  BY DEF Phases, Silent, Opening
<1>7. anim' \in [Groups -> [Orders -> Animations]]
  BY <1>1 DEF AnimTypes
<1>8. group[g] \in Playbacks /\ group' = [group EXCEPT ![g] = group[g]]
  BY <1>1, GroupAsItIs
<1> HIDE DEF phase
<1> QED BY <1>0, <1>1, <1>5, <1>6, <1>7, <1>8, GoesToInv

LEMMA NextPassInv ==
  ASSUME AnimInv, NextPass PROVE AnimInv'
<1>0. PICK g \in Groups : g = Now.group
  BY NowIsOne DEF AnimInv, NextPass, At
<1> DEFINE phase == IF Now.left > 0 /\ Active(Now.group) /\ ~group[Now.group].paused THEN "pass" ELSE "update"
<1>1. /\ AnimTypes /\ stack # <<>> /\ Now.phase \in {"next", "advanceplay", "finished", "advance"} /\ Goes(phase)
      /\ UNCHANGED <<group, anim, playing, alpha, data, base, late>>
  BY DEF NextPass, At, AnimInv
<1>2. phase \in Phases \ Opening /\ Now.phase \notin Opening \cup {"done"}
  BY <1>1 DEF Phases, Silent, Opening
<1>3. /\ anim' \in [Groups -> [Orders -> Animations]] /\ alpha' \in [Regions -> Int]
      /\ base' \in [Regions -> Int]
  BY <1>1 DEF AnimTypes
<1>4. group[g] \in Playbacks /\ group' = [group EXCEPT ![g] = group[g]]
  BY <1>1, GroupAsItIs
<1> HIDE DEF phase
<1> QED BY <1>0, <1>1, <1>2, <1>3, <1>4, GoesToInv

LEMMA AdvanceOrderInv ==
  ASSUME AnimInv, AdvanceOrder PROVE AnimInv'
<1>0. PICK g \in Groups : g = Now.group
  BY NowIsOne DEF AnimInv, AdvanceOrder, GoesOn, At
<1> DEFINE n == Along(group[g])
           s == [group[g] EXCEPT !.order = n]
<1>1. /\ AnimTypes /\ stack # <<>> /\ Now.phase \in {"finished", "advance"}
      /\ n \in Orders /\ group' = [group EXCEPT ![g] = s]
      /\ PlayAnim(g, n, anim[g], "advanceplay", "next")
      /\ UNCHANGED <<playing, alpha, data, base, late>>
  BY <1>0 DEF AdvanceOrder, GoesOn, At, AnimInv
<1>2. group[g] \in Playbacks /\ anim[g] \in [Orders -> Animations]
  BY <1>1 DEF AnimTypes
<1> HIDE DEF n
<1>3. s \in Playbacks /\ s.order \in Orders /\ s.loop = group[g].loop
  BY <1>1, <1>2, SomeOrders DEF Playbacks
<1> HIDE DEF s
<1>4. /\ anim' \in [Groups -> [Orders -> Animations]]
      /\ \E phase \in {"advanceplay", "next"} : Goes(phase)
  BY <1>1, <1>2, PlayAnimIs
<1>5. PICK phase \in {"advanceplay", "next"} : Goes(phase)
  BY <1>4
<1>6. phase \in Phases \ Opening /\ Now.phase \notin Opening \cup {"done"}
  BY <1>1 DEF Phases, Silent, Opening
<1>7. alpha' \in [Regions -> Int] /\ base' \in [Regions -> Int]
  BY <1>1 DEF AnimTypes
<1> QED BY <1>0, <1>1, <1>3, <1>4, <1>5, <1>6, <1>7, GoesToInv

LEMMA AfterEndIs ==
  ASSUME NEW g, NEW s \in Playbacks, s.order \in Orders, s.loop # "NONE"
  PROVE  /\ AfterEnd(g, s) \in Playbacks /\ AfterEnd(g, s).order \in Orders
         /\ AfterEnd(g, s).loop # "NONE"
<1>1. CASE LoopType[g] = "BOUNCE"
  <2> DEFINE loop == IF s.loop = "REVERSE" THEN "FORWARD" ELSE "REVERSE"
  <2>1. AfterEnd(g, s) = [s EXCEPT !.loop = loop]
    BY <1>1 DEF AfterEnd
  <2>2. loop \in Loops /\ loop # "NONE"
    BY DEF Loops
  <2> HIDE DEF loop
  <2> QED BY <2>1, <2>2 DEF Playbacks
<1>2. CASE LoopType[g] # "BOUNCE"
  <2> DEFINE order == IF s.loop = "REVERSE" THEN OrderCount - 1 ELSE 0
  <2>1. AfterEnd(g, s) = [s EXCEPT !.order = order]
    BY <1>2 DEF AfterEnd
  <2>2. order \in Orders /\ order \in Int
    BY SomeOrders
  <2> HIDE DEF order
  <2> QED BY <2>1, <2>2 DEF Playbacks
<1> QED BY <1>1, <1>2

LEMMA AdvanceLoopInv ==
  ASSUME AnimInv, AdvanceLoop PROVE AnimInv'
<1>0. PICK g \in Groups : g = Now.group
  BY NowIsOne DEF AnimInv, AdvanceLoop, GoesOn, At
<1> DEFINE t == AfterEnd(g, group[g])
           last == [group[g] EXCEPT !.order = Along(group[g])]
<1>1. /\ AnimTypes /\ stack # <<>> /\ Now.phase \in {"finished", "advance"}
      /\ Active(g) /\ ~group[g].paused
      /\ \/ Goes("done") /\ group' = [group EXCEPT ![g] = last] /\ UNCHANGED anim
         \/ /\ Goes("loop") /\ group' = [group EXCEPT ![g] = t]
            /\ anim' = [anim EXCEPT ![g] = ResetAnims(g, t.loop)]
      /\ UNCHANGED <<playing, alpha, data, base, late>>
  BY <1>0 DEF AdvanceLoop, GoesOn, At, AnimInv
<1>2. group[g] \in Playbacks /\ group[g].order \in Orders /\ group[g].order \in Int /\ group[g].loop # "NONE"
  BY <1>0, <1>1, NowHasOrder, SomeOrders DEF AnimTypes, HasOrder, Active
<1>3. t \in Playbacks /\ t.order \in Orders /\ t.loop # "NONE"
  BY <1>2, AfterEndIs
<1>4. last \in Playbacks /\ last.loop = group[g].loop
  <2>1. Along(group[g]) \in Int
    BY <1>2 DEF Along
  <2> QED BY <1>1, <1>2, <2>1 DEF Playbacks
<1>5. Now.phase \notin Opening \cup {"done"} /\ {"done", "loop"} \subseteq Phases \ Opening
  BY <1>1 DEF Phases, Silent, Opening
<1>6. alpha' \in [Regions -> Int] /\ base' \in [Regions -> Int]
  BY <1>1 DEF AnimTypes
<1> HIDE DEF t, last
<1>7. CASE Goes("done") /\ group' = [group EXCEPT ![g] = last] /\ UNCHANGED anim
  <2>1. anim' \in [Groups -> [Orders -> Animations]]
    BY <1>1, <1>7 DEF AnimTypes
  <2> QED BY <1>0, <1>1, <1>4, <1>5, <1>6, <1>7, <2>1, GoesToInv
<1>8. CASE /\ Goes("loop") /\ group' = [group EXCEPT ![g] = t]
           /\ anim' = [anim EXCEPT ![g] = ResetAnims(g, t.loop)]
  <2>1. ResetAnims(g, t.loop) \in [Orders -> Animations]
    BY <1>1, FreshAnims
  <2>2. anim' \in [Groups -> [Orders -> Animations]]
    BY <1>1, <1>8, <2>1 DEF AnimTypes
  <2> QED BY <1>0, <1>1, <1>2, <1>3, <1>5, <1>6, <1>8, <2>2, GoesToInv
<1> QED BY <1>1, <1>7, <1>8

LEMMA AfterOnLoopInv ==
  ASSUME AnimInv, AfterOnLoop PROVE AnimInv'
<1>0. PICK g \in Groups : g = Now.group
  BY NowIsOne DEF AnimInv, AfterOnLoop, At
<1>1. /\ AnimTypes /\ stack # <<>> /\ Now.phase = "loop"
      /\ \/ Goes("done") /\ UNCHANGED anim
         \/ Active(g) /\ PlayAnim(g, group[g].order, anim[g], "advanceplay", "next")
      /\ UNCHANGED <<group, playing, alpha, data, base, late>>
  BY <1>0 DEF AfterOnLoop, At, AnimInv
<1>2. /\ anim' \in [Groups -> [Orders -> Animations]]
      /\ \E phase \in {"done", "advanceplay", "next"} : Goes(phase)
  <2>1. CASE Goes("done") /\ UNCHANGED anim
    BY <1>1, <2>1 DEF AnimTypes
  <2>2. CASE Active(g) /\ PlayAnim(g, group[g].order, anim[g], "advanceplay", "next")
    <3>1. group[g].order \in Orders /\ anim[g] \in [Orders -> Animations]
      BY <1>0, <1>1, <2>2, NowHasOrder DEF HasOrder, AnimTypes
    <3>2. /\ anim' \in [Groups -> [Orders -> Animations]]
          /\ \E phase \in {"advanceplay", "next"} : Goes(phase)
      BY <1>1, <2>2, <3>1, PlayAnimIs
    <3> QED BY <3>2
  <2> QED BY <1>1, <2>1, <2>2
<1>3. PICK phase \in {"done", "advanceplay", "next"} : Goes(phase)
  BY <1>2
<1>4. phase \in Phases \ Opening /\ Now.phase \notin Opening \cup {"done"}
  BY <1>1 DEF Phases, Silent, Opening
<1>5. alpha' \in [Regions -> Int] /\ base' \in [Regions -> Int]
  BY <1>1 DEF AnimTypes
<1>6. group[g] \in Playbacks /\ group' = [group EXCEPT ![g] = group[g]]
  BY <1>1, GroupAsItIs
<1> QED BY <1>0, <1>1, <1>2, <1>3, <1>4, <1>5, <1>6, GoesToInv

(* A group ends. *)
LEMMA NotifyEndIs ==
  ASSUME AnimTypes, NEW g \in Groups, NEW d \in Stores, NotifyEnd(g, d)
  PROVE  /\ playing' \in [Regions -> SUBSET Groups]
         /\ \A r \in Regions : \A h \in playing'[r] : RegionOf[h] = r
         /\ \A h \in Groups : Listed(h)' <=> h # g /\ Listed(h)
         /\ alpha' \in [Regions -> Int] /\ data' \in Stores
<1>1. RegionOf[g] \in Regions /\ playing' = [playing EXCEPT ![RegionOf[g]] = @ \ {g}]
  BY AnimGroupAssumption DEF NotifyEnd
<1>2. playing' \in [Regions -> SUBSET Groups]
  BY <1>1 DEF AnimTypes
<1>3. \A r \in Regions : playing'[r] = IF r = RegionOf[g] THEN playing[r] \ {g} ELSE playing[r]
  BY <1>1 DEF AnimTypes
<1>4. \A h \in Groups : RegionOf[h] \in Regions
  BY AnimGroupAssumption
<1>5. ASSUME NEW r \in Regions, NEW h \in playing'[r] PROVE RegionOf[h] = r
  <2>1. h \in playing[r]
    BY <1>3
  <2> QED BY <2>1 DEF AnimTypes
<1>6. \A h \in Groups : Listed(h)' <=> h # g /\ Listed(h)
  BY <1>3, <1>4 DEF Listed
<1>7. alpha' \in [Regions -> Int] /\ data' \in Stores
  <2>1. NoData \in [has : BOOLEAN, alpha : Int]
    BY AnimGroupAssumption DEF NoData
  <2>2. CASE UNCHANGED alpha /\ data' = d
    BY <2>2 DEF AnimTypes
  <2>3. CASE /\ alpha' = [x \in Regions |-> IF x \in Below(RegionOf[g]) THEN d[x].alpha ELSE alpha[x]]
             /\ data' = [x \in Regions |-> IF x \in Below(RegionOf[g]) THEN NoData ELSE d[x]]
    BY <2>1, <2>3 DEF AnimTypes, Stores
  <2> QED BY <2>2, <2>3 DEF NotifyEnd
<1> QED BY <1>2, <1>5, <1>6, <1>7

LEMMA EndsInv ==
  ASSUME AnimInv, NEW g \in Groups, NEW d \in Stores, NotifyEnd(g, d),
         group' = [group EXCEPT ![g] = Stopped], late' = late \ {g},
         stack' \in Seq(Entries), \A h : h # g => Same(stack, stack', h),
         UNCHANGED anim, base' \in [Regions -> Int]
  PROVE  AnimInv'
<1>1. AnimTypes
  BY DEF AnimInv
<1>2. /\ group' \in [Groups -> Playbacks] /\ group'[g] = Stopped
      /\ \A h \in Groups : h # g => group'[h] = group[h]
  BY <1>1, StoppedIs, OneChanges
<1>3. /\ playing' \in [Regions -> SUBSET Groups]
      /\ \A r \in Regions : \A h \in playing'[r] : RegionOf[h] = r
      /\ \A h \in Groups : Listed(h)' <=> h # g /\ Listed(h)
      /\ alpha' \in [Regions -> Int] /\ data' \in Stores
  BY <1>1, NotifyEndIs
<1>4. InOrder(g)'
  BY <1>2, <1>3, StoppedIs DEF InOrder, Active
<1>5. ASSUME NEW h \in Groups, h # g PROVE InOrder(h)'
  <2>1. InOrder(h) /\ (Listed(h)' <=> Listed(h)) /\ (h \in late' <=> h \in late)
    BY <1>3, <1>5 DEF AnimInv
  <2> QED BY <1>2, <1>5, <2>1, StaysInOrder
<1>6. \A h \in Groups : InOrder(h)'
  BY <1>4, <1>5
<1>7. anim' \in [Groups -> [Orders -> Animations]]
  BY <1>1 DEF AnimTypes
<1> QED BY <1>2, <1>3, <1>6, <1>7 DEF AnimInv, AnimTypes

LEMMA OneStore ==
  ASSUME NEW f \in Stores, NEW r \in Regions, NEW a \in Int
  PROVE  [f EXCEPT ![r].alpha = a] \in Stores
<1>1. [f[r] EXCEPT !.alpha = a] \in [has : BOOLEAN, alpha : Int]
  BY DEF Stores
<1>2. [f EXCEPT ![r].alpha = a] = [f EXCEPT ![r] = [f[r] EXCEPT !.alpha = a]]
  OBVIOUS
<1> QED BY <1>1, <1>2 DEF Stores

LEMMA FinishedIs ==
  ASSUME AnimTypes, Finished, NEW g \in Groups, g = Now.group
  PROVE  LET r == RegionOf[g]
             keeps == g \in FinalAlpha /\ data[r].has
             d == IF keeps THEN [data EXCEPT ![r].alpha = alpha[r]] ELSE data
         IN /\ r \in Regions /\ d \in Stores /\ NotifyEnd(g, d)
            /\ base' = IF keeps THEN [base EXCEPT ![r] = alpha[r]] ELSE base
            /\ base' \in [Regions -> Int]
            /\ group' = [group EXCEPT ![g] = Stopped] /\ late' = late \ {g}
            /\ stack # <<>> /\ Now.phase = "done" /\ Goes("update") /\ UNCHANGED anim
<1> DEFINE r == RegionOf[g]
           keeps == g \in FinalAlpha /\ data[r].has
           d == IF keeps THEN [data EXCEPT ![r].alpha = alpha[r]] ELSE data
<1>1. /\ NotifyEnd(g, d)
      /\ base' = IF keeps THEN [base EXCEPT ![r] = alpha[r]] ELSE base
      /\ group' = [group EXCEPT ![g] = Stopped] /\ late' = late \ {g}
      /\ stack # <<>> /\ Now.phase = "done" /\ Goes("update") /\ UNCHANGED anim
  BY DEF Finished, At
<1>2. r \in Regions /\ alpha[r] \in Int /\ data \in Stores /\ base \in [Regions -> Int]
  BY AnimGroupAssumption DEF AnimTypes
<1>3. d \in Stores
  BY <1>2, OneStore
<1>4. base' \in [Regions -> Int]
  BY <1>1, <1>2, OneAlpha
<1> QED BY <1>1, <1>2, <1>3, <1>4

LEMMA FinishedInv ==
  ASSUME AnimInv, Finished PROVE AnimInv'
<1>0. PICK g \in Groups : g = Now.group
  BY NowIsOne DEF AnimInv, Finished, At
<1>1. AnimTypes
  BY DEF AnimInv
<1> DEFINE r == RegionOf[g]
           keeps == g \in FinalAlpha /\ data[r].has
           d == IF keeps THEN [data EXCEPT ![r].alpha = alpha[r]] ELSE data
<1>2. /\ d \in Stores /\ NotifyEnd(g, d) /\ base' \in [Regions -> Int]
      /\ group' = [group EXCEPT ![g] = Stopped] /\ late' = late \ {g}
      /\ stack # <<>> /\ Goes("update") /\ UNCHANGED anim
  BY <1>0, <1>1, FinishedIs
<1>3. stack' \in Seq(Entries) /\ \A h : h # g => Same(stack, stack', h)
  BY <1>0, <1>1, <1>2, GoesIs DEF Phases
<1> HIDE DEF d
<1> QED BY <1>2, <1>3, EndsInv

LEMMA EndStopInv ==
  ASSUME AnimInv, EndStop PROVE AnimInv'
<1>0. PICK g \in Groups : g = Now.group
  BY NowIsOne DEF AnimInv, EndStop, At
<1>1. /\ AnimTypes /\ stack # <<>> /\ NotifyEnd(g, data)
      /\ group' = [group EXCEPT ![g] = Stopped] /\ late' = late \ {g}
      /\ Returns /\ UNCHANGED <<anim, base>>
  BY <1>0 DEF EndStop, At, AnimInv
<1>2. stack' \in Seq(Entries) /\ \A h : h # g => Same(stack, stack', h)
  BY <1>0, <1>1, ReturnsIs
<1>3. data \in Stores /\ base' \in [Regions -> Int]
  BY <1>1 DEF AnimTypes
<1> QED BY <1>1, <1>2, <1>3, EndsInv

LEMMA FrameUpdateInv ==
  ASSUME AnimInv, NEW dt \in 1..Span, FrameUpdate(dt) PROVE AnimInv'
<1> DEFINE On(rs) == SetToSeq({g \in Groups : RegionOf[g] \in rs})
           all == On({Frame}) \o On(Regions \ {Frame})
<1>1. On({Frame}) \in Seq(Groups) /\ On(Regions \ {Frame}) \in Seq(Groups)
  BY SetToSeqIsOfIt
<1>2. all \in Seq(Groups)
  <2> HIDE DEF On
  <2> QED BY <1>1, ConcatProperties
<1>3. /\ stack = <<>> /\ stack' = [n \in DOMAIN all |-> Update(all[n], dt)]
      /\ UNCHANGED <<group, anim, playing, alpha, data, base, late>>
  BY DEF FrameUpdate
<1> HIDE DEF all
<1>4. DOMAIN all = 1..Len(all) /\ Len(all) \in Nat
  BY <1>2
<1>5. ASSUME NEW n \in DOMAIN all PROVE Update(all[n], dt) \in Entries /\ Update(all[n], dt).phase = "pass"
  <2>1. all[n] \in Groups
    BY <1>2
  <2>2. 0 \in Orders /\ "pass" \in Phases /\ dt \in Int
    BY SomeOrders DEF Phases, Silent
  <2> QED BY <2>1, <2>2 DEF Update, Entries
<1>6. stack' \in Seq(Entries) /\ \A n \in DOMAIN stack' : stack'[n].phase = "pass"
  BY <1>3, <1>4, <1>5
<1>7. \A g : Same(stack, stack', g)
  <2>1. \A g, P : ~InnerIn(stack, g, P)
    BY <1>3 DEF InnerIn
  <2>2. \A g, P : "pass" \notin P => ~InnerIn(stack', g, P)
    BY <1>6 DEF InnerIn
  <2> QED BY <2>1, <2>2 DEF Same, Opening
<1>8. ASSUME NEW g \in Groups PROVE InOrder(g)'
  <2>1. InOrder(g) /\ (Listed(g)' <=> Listed(g))
    BY <1>3 DEF AnimInv, Listed
  <2> QED BY <1>3, <1>7, <2>1, StaysInOrder
<1> QED BY <1>3, <1>6, <1>8 DEF AnimInv, AnimTypes

-----------------------------------------------------------------------------
(* The calls. *)

(* A call changes how one group plays, and goes into its scripts or does not. *)
LEMMA CallInv ==
  ASSUME AnimInv, NEW g \in Groups, NEW s \in Playbacks, group' = [group EXCEPT ![g] = s],
         s.loop = group[g].loop, s.loop # "NONE" => s.order \in Orders,
         stack' \in Seq(Entries), \A h : h # g => Same(stack, stack', h),
         Same(stack, stack', g) \/ InnerIn(stack', g, Opening),
         anim' \in [Groups -> [Orders -> Animations]],
         UNCHANGED <<playing, alpha, data, base, late>>
  PROVE  AnimInv'
<1>1. AnimTypes
  BY DEF AnimInv
<1>2. /\ group' \in [Groups -> Playbacks] /\ group'[g] = s
      /\ \A h \in Groups : h # g => group'[h] = group[h]
  BY <1>1, OneChanges
<1>3. \A h \in Groups : InOrder(h) /\ (Listed(h)' <=> Listed(h))
  BY DEF AnimInv, Listed
<1>4. InOrder(g)'
  BY <1>2, <1>3 DEF InOrder, Active, HasOrder, Same
<1>5. ASSUME NEW h \in Groups, h # g PROVE InOrder(h)'
  BY <1>2, <1>3, <1>5, StaysInOrder
<1> QED BY <1>1, <1>2, <1>4, <1>5 DEF AnimInv, AnimTypes

LEMMA PlayInv ==
  ASSUME AnimInv, NEW g \in Groups, NEW reverse \in BOOLEAN, Play(g, reverse) PROVE AnimInv'
<1> DEFINE order == IF reverse THEN OrderCount ELSE -1
           s == IF group[g].paused THEN [group[g] EXCEPT !.paused = FALSE]
                ELSE [Stopped EXCEPT !.order = order]
<1>1. /\ AnimTypes /\ group[g] \in Playbacks /\ (group[g].loop = "NONE" \/ group[g].paused)
      /\ Enters(g, "onplay") /\ UNCHANGED <<anim, playing, alpha, data, base, late>>
  BY DEF Play, AnimInv, AnimTypes, Active
<1>2. group' = [group EXCEPT ![g] = s]
  <2>1. group[g] \in Playbacks /\ DOMAIN group = Groups
    BY <1>1 DEF AnimTypes
  <2> QED BY <2>1 DEF Play
<1>3. s \in Playbacks /\ s.loop = group[g].loop /\ (s.loop # "NONE" => s.order \in Orders)
  <2>1. CASE group[g].paused
    BY <1>1, <2>1 DEF Playbacks
  <2>2. CASE ~group[g].paused
    <3>1. order \in Int
      BY SomeOrders
    <3> HIDE DEF order
    <3> QED BY <1>1, <2>2, <3>1, StoppedAt
  <2> QED BY <2>1, <2>2
<1>4. /\ stack' \in Seq(Entries) /\ InnerIn(stack', g, Opening) /\ \A h : h # g => Same(stack, stack', h)
  <2>1. "onplay" \in Phases /\ "onplay" \in Opening
    BY DEF Phases, Opening
  <2> QED BY <1>1, <2>1, EntersIs DEF Is
<1>5. anim' \in [Groups -> [Orders -> Animations]]
  BY <1>1 DEF AnimTypes
<1> HIDE DEF s
<1> QED BY <1>1, <1>2, <1>3, <1>4, <1>5, CallInv

LEMMA SameStack ==
  ASSUME AnimTypes, UNCHANGED stack
  PROVE  stack' \in Seq(Entries) /\ \A h : Same(stack, stack', h)
BY DEF AnimTypes, Same

LEMMA PauseInv ==
  ASSUME AnimInv, NEW g \in Groups, Pause(g) PROVE AnimInv'
<1> DEFINE s == [group[g] EXCEPT !.paused = TRUE]
           n == group[g].order
           b == [anim[g][n] EXCEPT !.play = IF anim[g][n].play = "playing" THEN "paused" ELSE anim[g][n].play]
<1>1. /\ AnimTypes /\ group[g] \in Playbacks /\ group[g].loop # "NONE" /\ n \in Orders
      /\ group' = [group EXCEPT ![g] = s]
      /\ UNCHANGED <<playing, alpha, data, stack, base, late>>
  BY DEF Pause, AnimInv, AnimTypes, Active, HasOrder
<1>2. anim' = [anim EXCEPT ![g][n] = b]
  BY DEF Pause
<1>3. s \in Playbacks /\ s.loop = group[g].loop /\ s.order \in Orders
  BY <1>1 DEF Playbacks
<1>4. anim[g][n] \in Animations
  <2> HIDE DEF n
  <2> QED BY <1>1 DEF AnimTypes
<1> HIDE DEF s, n
<1>5. b \in Animations
  BY <1>4 DEF Animations
<1> HIDE DEF b
<1>6. anim' \in [Groups -> [Orders -> Animations]]
  BY <1>1, <1>2, <1>5, OneAnim
<1> QED BY <1>1, <1>3, <1>6, SameStack, CallInv

LEMMA StopInv ==
  ASSUME AnimInv, NEW g \in Groups, Stop(g) PROVE AnimInv'
<1> DEFINE s == [group[g] EXCEPT !.stopping = TRUE]
           n == group[g].order
           b == [anim[g][n] EXCEPT !.play = "stopped", !.at = 0, !.back = FALSE]
<1>1. /\ AnimTypes /\ group[g] \in Playbacks /\ n \in Orders
      /\ group' = [group EXCEPT ![g] = s] /\ Enters(g, "stopping")
      /\ UNCHANGED <<playing, alpha, data, base, late>>
  BY DEF Stop, AnimInv, AnimTypes, HasOrder
<1>2. anim' = [anim EXCEPT ![g][n] = b]
  BY DEF Stop
<1>3. s \in Playbacks /\ s.loop = group[g].loop /\ s.order \in Orders
  BY <1>1 DEF Playbacks
<1>4. anim[g][n] \in Animations
  <2> HIDE DEF n
  <2> QED BY <1>1 DEF AnimTypes
<1> HIDE DEF s, n
<1>5. b \in Animations
  BY <1>4, FreshAnim
<1> HIDE DEF b
<1>6. anim' \in [Groups -> [Orders -> Animations]]
  BY <1>1, <1>2, <1>5, OneAnim
<1>7. /\ stack' \in Seq(Entries) /\ InnerIn(stack', g, Opening) /\ \A h : h # g => Same(stack, stack', h)
  <2>1. "stopping" \in Phases /\ "stopping" \in Opening
    BY DEF Phases, Opening
  <2> QED BY <1>1, <2>1, EntersIs DEF Is
<1> QED BY <1>1, <1>3, <1>6, <1>7, CallInv

LEMMA FinishInv ==
  ASSUME AnimInv, NEW g \in Groups, Finish(g) PROVE AnimInv'
<1> DEFINE s == [group[g] EXCEPT !.pending = TRUE]
<1>1. /\ AnimTypes /\ group[g] \in Playbacks
      /\ group' = [group EXCEPT ![g] = s]
      /\ UNCHANGED <<anim, playing, alpha, data, stack, base, late>>
  BY DEF Finish, AnimInv, AnimTypes
<1>2. s \in Playbacks /\ s.loop = group[g].loop /\ s.order = group[g].order
  BY <1>1 DEF Playbacks
<1> HIDE DEF s
<1>3. /\ group' \in [Groups -> Playbacks] /\ group'[g] = s
      /\ \A h \in Groups : h # g => group'[h] = group[h]
  BY <1>1, <1>2, OneChanges
<1>4. \A h \in Groups : InOrder(h) /\ (Listed(h)' <=> Listed(h)) /\ (h \in late' <=> h \in late)
  BY <1>1 DEF AnimInv, Listed
<1>5. \A h : Same(stack, stack', h)
  BY <1>1, SameStack
<1>6. InOrder(g)'
  BY <1>2, <1>3, <1>4, <1>5 DEF InOrder, Active, HasOrder, Same
<1>7. ASSUME NEW h \in Groups, h # g PROVE InOrder(h)'
  BY <1>3, <1>4, <1>5, <1>7, StaysInOrder
<1> QED BY <1>1, <1>3, <1>6, <1>7 DEF AnimInv, AnimTypes

LEMMA SetAlphaInv ==
  ASSUME AnimInv, NEW r \in Regions, NEW a \in Alphas, SetAlpha(r, a) PROVE AnimInv'
<1>1. /\ AnimTypes /\ a \in Int
      /\ alpha' = [alpha EXCEPT ![r] = a]
      /\ base' = IF Animated(r) THEN base ELSE [base EXCEPT ![r] = a]
      /\ UNCHANGED <<group, anim, playing, data, stack, late>>
  BY AnimGroupAssumption DEF SetAlpha, AnimInv
<1>2. alpha' \in [Regions -> Int] /\ base' \in [Regions -> Int]
  BY <1>1, OneAlpha DEF AnimTypes
<1>3. \A h \in Groups : InOrder(h) /\ (Listed(h)' <=> Listed(h)) /\ (h \in late' <=> h \in late)
  BY <1>1 DEF AnimInv, Listed
<1>4. \A h : Same(stack, stack', h)
  BY <1>1, SameStack
<1>5. ASSUME NEW h \in Groups PROVE InOrder(h)'
  BY <1>1, <1>3, <1>4, StaysInOrder
<1> QED BY <1>1, <1>2, <1>5 DEF AnimInv, AnimTypes

LEMMA AnimInitInv ==
  ASSUME AnimInit PROVE AnimInv
<1>1. group \in [Groups -> Playbacks] /\ \A g \in Groups : group[g].loop = "NONE"
  BY StoppedIs DEF AnimInit
<1>2. anim \in [Groups -> [Orders -> Animations]]
  BY DEF AnimInit, Animations
<1>3. playing \in [Regions -> SUBSET Groups] /\ \A r \in Regions : playing[r] = {}
  BY DEF AnimInit
<1>4. alpha \in [Regions -> Int] /\ base \in [Regions -> Int]
  <2>1. Alphas \subseteq Int
    BY AnimGroupAssumption
  <2>2. alpha \in [Regions -> Alphas] /\ base = alpha
    BY DEF AnimInit
  <2> QED BY <2>1, <2>2
<1>5. data \in Stores
  BY AnimGroupAssumption DEF AnimInit, NoData, Stores
<1>6. stack \in Seq(Entries)
  BY DEF AnimInit
<1>7. \A g \in Groups : InOrder(g)
  BY <1>1, <1>3, AnimGroupAssumption DEF InOrder, Active, Listed
<1> QED BY <1>1, <1>2, <1>3, <1>4, <1>5, <1>6, <1>7 DEF AnimInv, AnimTypes

LEMMA AnimNextInv ==
  ASSUME AnimInv, [AnimNext]_animVars PROVE AnimInv'
<1>1. CASE Step
  BY <1>1, BeginPlayInv, EndPlayInv, SkipInv, PassInv, AfterAnimUpdateInv, NextPassInv, AdvanceOrderInv,
     AdvanceLoopInv, AfterOnLoopInv, FinishedInv, UpdatedInv, EndStopInv DEF Step
<1>2. CASE AddonCalls
  BY <1>2, PlayInv, PauseInv, StopInv, FinishInv, SetAlphaInv DEF AddonCalls
<1>3. CASE \E dt \in 1..Span : FrameUpdate(dt)
  BY <1>3, FrameUpdateInv
<1>4. CASE UNCHANGED animVars
  <2>1. UNCHANGED <<group, anim, playing, alpha, data, stack, base, late>>
    BY <1>4 DEF animVars
  <2>2. ASSUME NEW g \in Groups PROVE InOrder(g)'
    BY <2>1 DEF AnimInv, InOrder, Active, Listed, HasOrder
  <2> QED BY <2>1, <2>2 DEF AnimInv, AnimTypes
<1> QED BY <1>1, <1>2, <1>3, <1>4 DEF AnimNext

LEMMA AnimInvariance == AnimSpec => []AnimInv
<1>1. AnimInit => AnimInv
  BY AnimInitInv
<1>2. AnimInv /\ [AnimNext]_animVars => AnimInv'
  BY AnimNextInv
<1> QED BY <1>1, <1>2, PTL DEF AnimSpec

(* Whatever scripts stop, pause, play and finish groups wherever updates, Play and
   Stop run them, with any groups, orders and regions: the order a group indexes its
   lists by is valid, and its region lists it just as long as it plays, but for one
   that its animations' OnPlay ended (Group.cpp:231-412, Region.cpp NotifyBegin). *)
THEOREM PlayStaysInOrder == AnimSpec => []PlayIsInOrder
<1>1. AnimInv => PlayIsInOrder
  <2> SUFFICES ASSUME AnimInv PROVE PlayIsInOrder
    OBVIOUS
  <2>1. \A g, P : LastIn(g, P) <=> InnerIn(stack, g, P)
    BY DEF LastIn, InnerIn
  <2> QED BY <2>1 DEF AnimInv, InOrder, PlayIsInOrder, OrderIsValid, PlayingIsListed, Opening
<1> QED BY <1>1, AnimInvariance, PTL

-----------------------------------------------------------------------------
(* The alpha of the regions. *)

(* Groups are on the frame only, or on its regions only. *)
GroupsAreApart ==
  \A g, h \in Groups : RegionOf[g] = Frame => RegionOf[h] = Frame

(* What is stored is the base, as long as a group is listed that animates it. *)
Restorable(x) ==
  /\ data[x].has <=> Animated(x)
  /\ data[x].has => data[x].alpha = base[x]
  /\ ~Animated(x) => alpha[x] = base[x]

AlphaInv == AnimInv /\ \A x \in Regions : Restorable(x)

(* All that lies below a region with a group is animated with it; nothing else is
   animated by it. *)
LEMMA BelowIs ==
  ASSUME GroupsAreApart, NEW g \in Groups, NEW x \in Regions
  PROVE  /\ RegionOf[g] \in Below(RegionOf[g])
         /\ x \in Below(RegionOf[g]) => (Animated(x) <=> Animated(RegionOf[g]))
         /\ x \notin Below(RegionOf[g]) => RegionOf[g] \notin Above(x)
         /\ x \in Below(RegionOf[g]) => RegionOf[g] \in Above(x)
BY AnimGroupAssumption DEF GroupsAreApart, Below, Above, Animated

(* The same of the next state. *)
LEMMA BelowWillBe ==
  ASSUME GroupsAreApart, NEW g \in Groups, NEW x \in Regions, x \in Below(RegionOf[g])
  PROVE  Animated(x)' <=> Animated(RegionOf[g])'
BY AnimGroupAssumption DEF GroupsAreApart, Below, Above, Animated

LEMMA SameAlphas ==
  ASSUME AlphaInv, AnimInv', UNCHANGED <<playing, alpha, data, base>>
  PROVE  AlphaInv'
<1>1. \A x \in Regions : Animated(x)' <=> Animated(x)
  BY DEF Animated, Listed
<1> QED BY <1>1 DEF AlphaInv, Restorable

LEMMA EndsAlphas ==
  ASSUME GroupsAreApart, AlphaInv, AnimInv', NEW g \in Groups, NEW d \in Stores, NotifyEnd(g, d),
         \A x \in Regions : /\ d[x].has <=> data[x].has
                            /\ d[x].has => d[x].alpha = base'[x]
                            /\ ~data[x].has => base'[x] = base[x]
  PROVE  AlphaInv'
<1> DEFINE r == RegionOf[g]
           rest == [playing EXCEPT ![r] = @ \ {g}]
           last == d[r].has /\ \A x \in Above(r) : rest[x] = {}
<1>1. AnimTypes /\ AnimTypes' /\ r \in Regions /\ Frame \in Regions
  BY AnimGroupAssumption DEF AlphaInv, AnimInv
<1>2. (\A h \in Groups : Listed(h)' <=> h # g /\ Listed(h)) /\ playing' = rest
  <2>1. \A h \in Groups : Listed(h)' <=> h # g /\ Listed(h)
    BY <1>1, NotifyEndIs
  <2> QED BY <2>1 DEF NotifyEnd
<1>3. last <=> data[r].has /\ ~Animated(r)'
  <2>1. Above(r) \subseteq Regions
    BY <1>1 DEF Above
  <2> HIDE DEF rest
  <2>2. \A x \in Regions : playing'[x] = {} <=> ~\E h \in Groups : h \in playing'[x]
    BY <1>1 DEF AnimTypes
  <2>3. \A x \in Regions : \A h \in Groups : h \in playing'[x] <=> RegionOf[h] = x /\ Listed(h)'
    BY <1>1 DEF AnimTypes, Listed
  <2>4. (\A x \in Above(r) : rest[x] = {}) <=> ~Animated(r)'
    BY <1>2, <2>1, <2>2, <2>3 DEF Animated
  <2>5. d[r].has <=> data[r].has
    BY <1>1
  <2> QED BY <2>4, <2>5
<1>4. IF last
      THEN /\ alpha' = [x \in Regions |-> IF x \in Below(r) THEN d[x].alpha ELSE alpha[x]]
           /\ data' = [x \in Regions |-> IF x \in Below(r) THEN NoData ELSE d[x]]
      ELSE UNCHANGED alpha /\ data' = d
  BY DEF NotifyEnd
<1> HIDE DEF last, rest
<1>5. ASSUME NEW x \in Regions PROVE Restorable(x)'
  <2>1. Restorable(x) /\ Restorable(r)
    BY <1>1 DEF AlphaInv
  <2>2. Animated(x)' => Animated(x)
    BY <1>2 DEF Animated
  <2>3. CASE x \notin Below(r)
    <3>1. Animated(x)' <=> Animated(x)
      BY <1>2, <2>3, BelowIs DEF Animated
    <3>2. alpha'[x] = alpha[x] /\ data'[x] = d[x]
      BY <1>4, <2>3
    <3> QED BY <2>1, <3>1, <3>2 DEF Restorable
  <2>4. CASE x \in Below(r) /\ last
    <3>1. ~Animated(x)'
      BY <1>3, <2>4, BelowWillBe
    <3>2. alpha'[x] = d[x].alpha /\ ~data'[x].has
      BY <1>4, <2>4 DEF NoData
    <3>3. d[x].has
      BY <1>3, <2>1, <2>4, BelowIs DEF Restorable
    <3> QED BY <3>1, <3>2, <3>3 DEF Restorable
  <2>5. CASE x \in Below(r) /\ ~last
    <3>1. alpha'[x] = alpha[x] /\ data'[x] = d[x]
      BY <1>4, <2>5
    <3>2. (Animated(x) <=> Animated(r)) /\ (Animated(x)' <=> Animated(r)')
      BY <2>5, BelowIs, BelowWillBe
    <3>3. Animated(x)' <=> Animated(x)
      BY <1>3, <2>1, <2>2, <2>5, <3>2 DEF Restorable
    <3> QED BY <2>1, <3>1, <3>3 DEF Restorable
  <2> QED BY <2>3, <2>4, <2>5
<1> QED BY <1>5 DEF AlphaInv

LEMMA FinishedAlphas ==
  ASSUME GroupsAreApart, AlphaInv, Finished PROVE AlphaInv'
<1>0. PICK g \in Groups : g = Now.group
  BY NowIsOne DEF AlphaInv, AnimInv, Finished, At
<1>1. AnimInv' /\ AnimTypes
  BY FinishedInv DEF AlphaInv, AnimInv
<1> DEFINE r == RegionOf[g]
           keeps == g \in FinalAlpha /\ data[r].has
           d == IF keeps THEN [data EXCEPT ![r].alpha = alpha[r]] ELSE data
<1>2. /\ r \in Regions /\ d \in Stores /\ NotifyEnd(g, d)
      /\ base' = IF keeps THEN [base EXCEPT ![r] = alpha[r]] ELSE base
  BY <1>0, <1>1, FinishedIs
<1>3. data \in Stores /\ base \in [Regions -> Int] /\ alpha[r] \in Int
  BY <1>1, <1>2 DEF AnimTypes
<1>4. \A x \in Regions : /\ d[x].has <=> data[x].has
                         /\ d[x].has => d[x].alpha = base'[x]
                         /\ ~data[x].has => base'[x] = base[x]
  <2>1. \A x \in Regions : data[x].has => data[x].alpha = base[x]
    BY DEF AlphaInv, Restorable
  <2>2. CASE keeps
    <3>1. d = [data EXCEPT ![r].alpha = alpha[r]] /\ base' = [base EXCEPT ![r] = alpha[r]]
      BY <1>2, <2>2
    <3> HIDE DEF d, r
    <3>2. /\ d[r].alpha = alpha[r] /\ (d[r].has <=> data[r].has)
          /\ \A x \in Regions : x # r => d[x] = data[x]
      BY <1>2, <1>3, <3>1 DEF Stores
    <3>3. base'[r] = alpha[r] /\ \A x \in Regions : x # r => base'[x] = base[x]
      BY <1>2, <1>3, <3>1
    <3> QED BY <2>1, <2>2, <3>2, <3>3
  <2>3. CASE ~keeps
    BY <1>2, <2>1, <2>3
  <2> QED BY <2>2, <2>3
<1> HIDE DEF d
<1> QED BY <1>1, <1>2, <1>4, EndsAlphas

LEMMA EndStopAlphas ==
  ASSUME GroupsAreApart, AlphaInv, EndStop PROVE AlphaInv'
<1>0. PICK g \in Groups : g = Now.group
  BY NowIsOne DEF AlphaInv, AnimInv, EndStop, At
<1>1. AnimInv' /\ NotifyEnd(g, data) /\ base' = base /\ data \in Stores
  BY <1>0, EndStopInv DEF EndStop, AlphaInv, AnimInv, AnimTypes
<1>2. \A x \in Regions : data[x].has => data[x].alpha = base'[x]
  BY <1>1 DEF AlphaInv, Restorable
<1> QED BY <1>1, <1>2, EndsAlphas

LEMMA EndPlayAlphas ==
  ASSUME GroupsAreApart, AlphaInv, EndPlay PROVE AlphaInv'
<1>0. PICK g \in Groups : g = Now.group
  BY NowIsOne DEF AlphaInv, AnimInv, EndPlay, At
<1> DEFINE r == RegionOf[g]
<1>1. AnimTypes /\ AnimInv' /\ r \in Regions
  BY EndPlayInv, AnimGroupAssumption DEF AlphaInv, AnimInv
<1>2. NotifyBegin(g) /\ UNCHANGED <<alpha, base>>
  BY <1>0 DEF EndPlay
<1>3. \A h \in Groups : Listed(h)' <=> h = g \/ Listed(h)
  BY <1>1, <1>2, NotifyBeginIs
<1>4. data' = IF data[r].has THEN data
              ELSE [x \in Regions |-> IF x \in Below(r) THEN [has |-> TRUE, alpha |-> alpha[x]] ELSE data[x]]
  BY <1>2 DEF NotifyBegin
<1>5. ASSUME NEW x \in Regions PROVE Restorable(x)'
  <2>1. Restorable(x) /\ Restorable(r)
    BY <1>1 DEF AlphaInv
  <2>2. CASE x \notin Below(r)
    <3>1. Animated(x)' <=> Animated(x)
      BY <1>3, <2>2, BelowIs DEF Animated
    <3>2. data'[x] = data[x]
      BY <1>4, <2>2
    <3> QED BY <1>2, <2>1, <3>1, <3>2 DEF Restorable
  <2>3. CASE x \in Below(r)
    <3>1. Animated(x)'
      BY <1>3, <2>3, BelowIs DEF Animated
    <3>2. Animated(x) <=> Animated(r)
      BY <2>3, BelowIs
    <3>3. CASE data[r].has
      BY <1>2, <1>4, <2>1, <3>1, <3>2, <3>3 DEF Restorable
    <3>4. CASE ~data[r].has
      <4>1. data'[x] = [has |-> TRUE, alpha |-> alpha[x]]
        BY <1>4, <2>3, <3>4
      <4>2. alpha[x] = base[x]
        BY <2>1, <3>2, <3>4 DEF Restorable
      <4> QED BY <1>2, <3>1, <4>1, <4>2 DEF Restorable
    <3> QED BY <3>3, <3>4
  <2> QED BY <2>2, <2>3
<1> QED BY <1>1, <1>5 DEF AlphaInv

(* A group that is updated is listed. *)
LEMMA NowIsListed ==
  ASSUME AnimInv, stack # <<>>, Active(Now.group), Now.phase = "pass"
  PROVE  Listed(Now.group)
<1>1. Is(stack, Now.group, Now.phase) /\ InOrder(Now.group)
  BY NowIsOne DEF AnimInv
<1> QED BY <1>1 DEF Is, InOrder, Opening

LEMMA PassStartsFromBase ==
  ASSUME AlphaInv, Pass, NEW g \in Groups, g = Now.group
  PROVE  PreOnAnimUpdate(RegionOf[g])[RegionOf[g]] = base[RegionOf[g]] /\ Animated(RegionOf[g])
<1> DEFINE r == RegionOf[g]
<1>1. Listed(g) /\ r \in Regions
  BY NowIsListed, AnimGroupAssumption DEF Pass, At, AlphaInv
<1>2. Animated(r) /\ r \in Below(r)
  BY <1>1 DEF Animated, Above, Below
<1>3. data[r].has /\ data[r].alpha = base[r]
  BY <1>1, <1>2 DEF AlphaInv, Restorable
<1> QED BY <1>1, <1>2, <1>3 DEF PreOnAnimUpdate

LEMMA PassAlphas ==
  ASSUME GroupsAreApart, AlphaInv, Pass PROVE AlphaInv'
<1>0. PICK g \in Groups : g = Now.group
  BY NowIsOne DEF AlphaInv, AnimInv, Pass, At
<1> DEFINE r == RegionOf[g]
<1>1. AnimInv' /\ UNCHANGED <<playing, data, base>>
  BY PassInv DEF AlphaInv, Pass
<1>2. Animated(r) /\ r \in Regions
  BY <1>0, PassStartsFromBase, AnimGroupAssumption
<1>3. \A x \in Regions : x \notin Below(r) => alpha'[x] = alpha[x]
  <2>1. \E z : alpha' = [PreOnAnimUpdate(r) EXCEPT ![r] = z]
    BY <1>0 DEF Pass
  <2>2. r \in Below(r)
    BY <1>2 DEF Below
  <2> QED BY <2>1, <2>2 DEF PreOnAnimUpdate
<1>4. ASSUME NEW x \in Regions PROVE Restorable(x)'
  <2>1. Restorable(x)
    BY DEF AlphaInv
  <2>2. Animated(x)' <=> Animated(x)
    BY <1>1 DEF Animated, Listed
  <2>3. ~Animated(x) => alpha'[x] = alpha[x]
    BY <1>2, <1>3, BelowIs
  <2> QED BY <1>1, <2>1, <2>2, <2>3 DEF Restorable
<1> QED BY <1>1, <1>4 DEF AlphaInv

(* An alpha is set, which is the base if nothing animates the region. *)
LEMMA SetAlphas ==
  ASSUME AlphaInv, AnimInv', NEW r \in Regions, NEW a, alpha' = [alpha EXCEPT ![r] = a],
         base' = IF Animated(r) THEN base ELSE [base EXCEPT ![r] = a],
         UNCHANGED <<playing, data>>
  PROVE  AlphaInv'
<1>1. \A x \in Regions : Animated(x)' <=> Animated(x)
  BY DEF Animated, Listed
<1>2. AnimTypes
  BY DEF AlphaInv, AnimInv
<1>3. ASSUME NEW x \in Regions PROVE Restorable(x)'
  <2>1. Restorable(x)
    BY DEF AlphaInv
  <2>2. CASE x = r
    <3>1. alpha'[x] = a /\ base'[x] = IF Animated(x) THEN base[x] ELSE a
      BY <1>2, <2>2 DEF AnimTypes
    <3> QED BY <1>1, <2>1, <3>1 DEF Restorable
  <2>3. CASE x # r
    <3>1. alpha'[x] = alpha[x] /\ base'[x] = base[x]
      BY <1>2, <2>3 DEF AnimTypes
    <3> QED BY <1>1, <2>1, <3>1 DEF Restorable
  <2> QED BY <2>2, <2>3
<1> QED BY <1>3 DEF AlphaInv

LEMMA SetAlphaAlphas ==
  ASSUME AlphaInv, NEW r \in Regions, NEW a \in Alphas, SetAlpha(r, a)
  PROVE  AlphaInv'
<1>1. AnimInv'
  BY SetAlphaInv DEF AlphaInv
<1> QED BY <1>1, SetAlphas DEF SetAlpha

LEMMA AfterAnimUpdateAlphas ==
  ASSUME AlphaInv, AfterAnimUpdate PROVE AlphaInv'
<1>0. PICK g \in Groups : g = Now.group
  BY NowIsOne DEF AlphaInv, AnimInv, AfterAnimUpdate, At
<1> DEFINE r == RegionOf[g]
           a == Applied(g, anim[g][Now.order].shown, alpha[r])
<1>1. /\ AnimInv' /\ r \in Regions /\ alpha' = [alpha EXCEPT ![r] = a]
      /\ base' = IF Animated(r) THEN base ELSE [base EXCEPT ![r] = a]
      /\ UNCHANGED <<playing, data>>
  BY <1>0, AfterAnimUpdateInv, AnimGroupAssumption DEF AfterAnimUpdate, AlphaInv
<1> HIDE DEF a, r
<1> QED BY <1>1, SetAlphas

(* The steps that leave alphas and lists alone. *)
LEMMA QuietSteps ==
  ASSUME \/ BeginPlay \/ Skip \/ NextPass \/ AdvanceOrder \/ AdvanceLoop \/ AfterOnLoop \/ Updated
         \/ \E dt \in 1..Span : FrameUpdate(dt)
         \/ \E g \in Groups : Pause(g) \/ Finish(g) \/ Stop(g) \/ \E reverse \in BOOLEAN : Play(g, reverse)
         \/ UNCHANGED animVars
  PROVE  UNCHANGED <<playing, alpha, data, base>>
BY DEF BeginPlay, Skip, NextPass, AdvanceOrder, AdvanceLoop, AfterOnLoop, Updated, FrameUpdate, Pause, Finish,
       Stop, Play, animVars

LEMMA NextAlphas ==
  ASSUME GroupsAreApart, AlphaInv, [AnimNext]_animVars PROVE AlphaInv'
<1>1. AnimInv'
  BY AnimNextInv DEF AlphaInv
<1>2. CASE \/ BeginPlay \/ Skip \/ NextPass \/ AdvanceOrder \/ AdvanceLoop \/ AfterOnLoop \/ Updated
           \/ \E dt \in 1..Span : FrameUpdate(dt)
           \/ \E g \in Groups : Pause(g) \/ Finish(g) \/ Stop(g) \/ \E reverse \in BOOLEAN : Play(g, reverse)
           \/ UNCHANGED animVars
  BY <1>1, <1>2, QuietSteps, SameAlphas
<1>3. CASE EndPlay \/ Pass \/ AfterAnimUpdate \/ Finished \/ EndStop
  BY <1>3, EndPlayAlphas, PassAlphas, AfterAnimUpdateAlphas, FinishedAlphas, EndStopAlphas
<1>4. CASE \E r \in Regions, a \in Alphas : SetAlpha(r, a)
  BY <1>4, SetAlphaAlphas
<1> QED BY <1>2, <1>3, <1>4 DEF AnimNext, Step, AddonCalls

LEMMA InitAlphas ==
  ASSUME AnimInit PROVE AlphaInv
<1>1. \A x \in Regions : playing[x] = {} /\ ~data[x].has /\ alpha[x] = base[x]
  BY DEF AnimInit, NoData
<1>2. \A x \in Regions : ~Animated(x)
  BY <1>1, AnimGroupAssumption DEF Animated, Listed
<1> QED BY <1>1, <1>2, AnimInitInv DEF AlphaInv, Restorable

(* Where the groups of a frame and those of the regions on it are apart, the last
   group that stops or finishes gives a region, and all on it, the alpha back that
   addons gave it or that a group kept, in whatever order groups begin, pause, end
   in scripts of each other and have alphas set under them; one that its animations'
   OnPlay ended holds it until it is played again (Region.cpp). *)
THEOREM AlphaDoesComeBack == ASSUME GroupsAreApart PROVE AnimSpec => []AlphaComesBack
<1>1. AnimInit => AlphaInv
  BY InitAlphas
<1>2. AlphaInv /\ [AnimNext]_animVars => AlphaInv'
  BY NextAlphas
<1>3. AlphaInv => AlphaComesBack
  <2> SUFFICES ASSUME AlphaInv, NEW r \in Regions,
                      ~\E g \in Groups : RegionOf[g] \in Above(r) /\ (Active(g) \/ g \in late)
               PROVE  alpha[r] = base[r]
    BY DEF AlphaComesBack
  <2>1. ~Animated(r)
    BY DEF Animated, AlphaInv, AnimInv, InOrder
  <2> QED BY <2>1 DEF AlphaInv, Restorable
<1> QED BY <1>1, <1>2, <1>3, PTL DEF AnimSpec

(* What a pass shows. *)
LEMMA PassShows ==
  ASSUME AlphaInv, Pass
  PROVE  LET g == Now.group
             r == RegionOf[g]
             b == anim'[g][group[g].order]
             before == AppliedBefore(g, base[r])
         IN alpha'[r] = IF stack'[1].phase = "animupdate" \/ (b.play = "stopped" /\ b.at # Span)
                        THEN before ELSE Applied(g, b.shown, before)
<1>0. PICK g \in Groups : g = Now.group
  BY NowIsOne DEF AlphaInv, AnimInv, Pass, At
<1> DEFINE n == group[g].order
           a == anim[g][n]
           r == RegionOf[g]
           runs == a.play = "playing" /\ a.at < Span
           used == IF runs THEN Lesser(Now.left, Span - a.at) ELSE 0
           c == IF runs THEN Progressed(a, used) ELSE a
           before == AppliedBefore(g, base[r])
           applies == a.play # "stopped" \/ a.at = Span
<1>1. PreOnAnimUpdate(r)[r] = base[r] /\ r \in Regions
  BY <1>0, PassStartsFromBase, AnimGroupAssumption
<1>2. anim' = [anim EXCEPT ![g][n] = c]
  BY <1>0 DEF Pass
<1>3. PICK scripted \in {FALSE, runs} :
        /\ alpha' = [PreOnAnimUpdate(r) EXCEPT ![r] =
                       IF scripted \/ ~applies THEN before ELSE Applied(g, c.shown, before)]
        /\ stack' = <<[group |-> g, left |-> Now.left - used, order |-> n,
                       phase |-> IF scripted THEN "animupdate"
                                 ELSE IF runs /\ c.at = Span THEN "finished"
                                 ELSE IF a.play = "stopped" \/ a.at = Span THEN "advance"
                                 ELSE "next"]>> \o Tail(stack)
  <2>1. before = AppliedBefore(g, PreOnAnimUpdate(r)[r])
    BY <1>1
  <2> HIDE DEF before
  <2> QED BY <1>0, <2>1 DEF Pass
<1>4. n \in Orders /\ anim \in [Groups -> [Orders -> Animations]] /\ Tail(stack) \in Seq(Entries)
  BY <1>0, PassIs, NowIsOne DEF AlphaInv, AnimInv, AnimTypes
<1> HIDE DEF n, before, r
<1>5. a \in Animations
  BY <1>4
<1>6. anim'[g][n] = c
  BY <1>2, <1>4
<1>7. scripted <=> stack'[1].phase = "animupdate"
  <2> DEFINE phase == IF scripted THEN "animupdate"
                      ELSE IF runs /\ c.at = Span THEN "finished"
                      ELSE IF a.play = "stopped" \/ a.at = Span THEN "advance"
                      ELSE "next"
             u == [group |-> g, left |-> Now.left - used, order |-> n, phase |-> phase]
  <2>1. stack' = <<u>> \o Tail(stack)
    BY <1>3
  <2>2. u.phase = phase /\ (scripted <=> phase = "animupdate")
    OBVIOUS
  <2> HIDE DEF u, phase
  <2>3. stack'[1] = u
    BY <1>4, <2>1
  <2> QED BY <2>2, <2>3
<1>8. ~applies <=> (c.play = "stopped" /\ c.at # Span)
  <2>1. CASE runs
    <3>1. Progressed(a, used).play = "playing"
      BY <1>5, <2>1 DEF Progressed, Animations
    <3> QED BY <2>1, <3>1
  <2>2. CASE ~runs
    BY <2>2
  <2> QED BY <2>1, <2>2
<1> HIDE DEF c, applies
<1>9. alpha'[r] = IF scripted \/ ~applies THEN before ELSE Applied(g, c.shown, before)
  BY <1>1, <1>3 DEF PreOnAnimUpdate
<1> QED BY <1>0, <1>6, <1>7, <1>8, <1>9 DEF n, before, r

(* Under the same condition a pass shows what its group's orders add to the base,
   however often it has been updated before (Group.cpp DoGroupUpdateWork). *)
THEOREM NothingDoesBuildUp == ASSUME GroupsAreApart PROVE AnimSpec => NothingBuildsUp
<1>1. AnimInit => AlphaInv
  BY InitAlphas
<1>2. AlphaInv /\ [AnimNext]_animVars => AlphaInv'
  BY NextAlphas
<1>3. AlphaInv /\ [AnimNext]_animVars =>
        [Pass => LET g == Now.group
                     r == RegionOf[g]
                     b == anim'[g][group[g].order]
                     before == AppliedBefore(g, base[r])
                 IN alpha'[r] = IF stack'[1].phase = "animupdate" \/ (b.play = "stopped" /\ b.at # Span)
                                THEN before ELSE Applied(g, b.shown, before)]_animVars
  BY PassShows
<1> QED BY <1>1, <1>2, <1>3, PTL DEF AnimSpec, NothingBuildsUp
=============================================================================
