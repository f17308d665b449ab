--------------------------- MODULE SortBagsProofs ---------------------------
(***************************************************************************)
(* Proofs about SortBags: what a sort leaves behind for any bags, items,   *)
(* server and player, and what the two planners achieve (SortBags.cpp,     *)
(* Consolidate and Place) when nobody disturbs the sort.                   *)
(***************************************************************************)
EXTENDS SortBags, FoldLemmas, FiniteSetTheorems, TLAPS

LEMMA InBagsOfView ==
  ASSUME NEW cells \in SUBSET DOMAIN bags
  PROVE  InBags([c \in cells |-> bags[c]]) \subseteq InBags(bags)
  BY DEF InBags

(* Place locks only items of the bags it was given. *)
LEMMA PlaceLocks ==
  ASSUME NEW b, NEW n, NEW l, NEW d, NEW r, NEW tie
  PROVE  Place(b, n, l, d, r, tie).lock \subseteq InBags(b)
  BY Zenon DEF Place

(* ... and so does Consolidate. *)
LEMMA ConsolidateLocks ==
  ASSUME NEW b, NEW n, NEW l, NEW d, NEW tie
  PROVE  Consolidate(b, n, l, d, tie).lock \subseteq InBags(b)
  BY Zenon DEF Consolidate, MergeLock, Mergeable

-----------------------------------------------------------------------------

LEMMA TickKeepsIdle ==
  ASSUME IdleIffNothingAwaited, Tick
  PROVE  IdleIffNothingAwaited'
<1>1. CASE TickProgress
  BY <1>1 DEF TickProgress, IdleIffNothingAwaited
<1>2. ASSUME NEW tie \in TieOrders, TickMerged(tie)
      PROVE  IdleIffNothingAwaited'
  BY <1>2 DEF TickMerged, RunPlacement, BeginWait, IdleIffNothingAwaited
<1>3. CASE TickPlaced
  BY <1>3 DEF TickPlaced, IdleIffNothingAwaited
<1> QED
  BY <1>1, <1>2, <1>3 DEF Tick

LEMMA CallKeepsIdle ==
  ASSUME IdleIffNothingAwaited, Call
  PROVE  IdleIffNothingAwaited'
<1>1. PICK cells \in Scopes, tie \in TieOrders, order \in TieOrders :
        StartSort(cells, tie) \/ StartSortNoMerge(cells, tie, order)
  BY DEF Call
<1>2. CASE StartSort(cells, tie)
  BY <1>2 DEF StartSort, BeginWait, IdleIffNothingAwaited
<1>3. CASE StartSortNoMerge(cells, tie, order)
  BY <1>3 DEF StartSortNoMerge, BeginWait, IdleIffNothingAwaited
<1> QED
  BY <1>1, <1>2, <1>3

LEMMA NextKeepsIdle ==
  ASSUME IdleIffNothingAwaited, [Next]_vars
  PROVE  IdleIffNothingAwaited'
<1> USE DEF IdleIffNothingAwaited
<1>1. CASE Call \/ Tick
  BY <1>1, CallKeepsIdle, TickKeepsIdle
<1>2. CASE Elapse
  BY <1>2 DEF Elapse
<1>3. CASE Server
  BY <1>3 DEF Server, Honoured, AnswerMerge, AnswerSwap, AnswerSplit, Refuse, Ignore,
              RecordArrives, sorter
<1>4. CASE Player
  BY <1>4 DEF Player, PickUp, PutBack, DropOn, UnlockAllItems, SetRightToLeft, sorter
<1>5. CASE Reload \/ Relog
  BY <1>5 DEF Reload, Relog
<1>6. CASE UNCHANGED vars
  BY <1>6 DEF vars, sorter
<1> QED
  BY <1>1, <1>2, <1>3, <1>4, <1>5, <1>6 DEF Next

(* The sorter is idle exactly when it awaits no item: every phase it enters has
   something to end it, and a reload forgets both. *)
THEOREM IdleAwaitsNothing == Spec => []IdleIffNothingAwaited
<1>1. Init => IdleIffNothingAwaited
  BY DEF Init, IdleIffNothingAwaited
<1> QED
  BY <1>1, NextKeepsIdle, PTL DEF Spec

-----------------------------------------------------------------------------
(* Until a player acts every lock is one the sorter awaits, on an item that is
   still in the bags (so StillLocked counts it). *)
LocksAreAwaited ==
  /\ IdleIffNothingAwaited
  /\ held = None
  /\ DOMAIN bags = Cells
  /\ scope \subseteq Cells
  /\ locked \subseteq waiting
  /\ locked \subseteq InBags(bags)

LEMMA CallKeepsLocks ==
  ASSUME LocksAreAwaited, Call
  PROVE  LocksAreAwaited'
<1>1. PICK cells \in Scopes, tie \in TieOrders, order \in TieOrders :
        StartSort(cells, tie) \/ StartSortNoMerge(cells, tie, order)
  BY DEF Call
<1>2. IdleIffNothingAwaited'
  BY CallKeepsIdle DEF LocksAreAwaited
<1>3. phase = "idle" /\ locked = {}
  BY <1>1 DEF StartSort, StartSortNoMerge, LocksAreAwaited, IdleIffNothingAwaited
<1>4. cells \subseteq DOMAIN bags
  BY SortBagsAssumption DEF LocksAreAwaited
<1>5. held' = None /\ bags' = bags /\ scope' = cells
  BY <1>1 DEF StartSort, StartSortNoMerge, Sends, inventory, LocksAreAwaited
<1>6. CASE StartSort(cells, tie)
  <2> DEFINE lock == Consolidate([c \in cells |-> bags[c]], count, locked, cached, tie).lock
  <2>1. lock \subseteq InBags(bags)
    BY <1>4, InBagsOfView, ConsolidateLocks
  <2>2. locked' = lock /\ waiting' = lock
    BY <1>3, <1>6 DEF StartSort, BeginWait
  <2> QED
    BY <1>2, <1>4, <1>5, <2>1, <2>2 DEF LocksAreAwaited, InBags
<1>7. CASE StartSortNoMerge(cells, tie, order)
  <2> DEFINE lock == Place([c \in cells |-> bags[c]], count, locked, cached, rightToLeft, order).lock
  <2>1. lock \subseteq InBags(bags)
    BY <1>4, InBagsOfView, PlaceLocks
  <2>2. locked' = lock /\ waiting' = lock
    BY <1>3, <1>7 DEF StartSortNoMerge, BeginWait
  <2> QED
    BY <1>2, <1>4, <1>5, <2>1, <2>2 DEF LocksAreAwaited, InBags
<1> QED
  BY <1>1, <1>6, <1>7

LEMMA TickKeepsLocks ==
  ASSUME LocksAreAwaited, Tick
  PROVE  LocksAreAwaited'
<1>1. IdleIffNothingAwaited'
  BY TickKeepsIdle DEF LocksAreAwaited
<1>2. locked \subseteq StillLocked
  BY DEF LocksAreAwaited, StillLocked
<1>3. CASE TickProgress
  BY <1>1, <1>3 DEF TickProgress, inventory, player, LocksAreAwaited, InBags
<1>4. ASSUME NEW tie \in TieOrders, TickMerged(tie)
      PROVE  LocksAreAwaited'
  <2> DEFINE lock == Place([c \in scope |-> bags[c]], count, locked \ StillLocked,
                           cached, rightToLeft, tie).lock
  <2>1. lock \subseteq InBags(bags)
    BY InBagsOfView, PlaceLocks DEF LocksAreAwaited
  <2>2. locked' = lock /\ waiting' = lock
    BY <1>2, <1>4 DEF TickMerged, RunPlacement, BeginWait
  <2>3. held' = None /\ bags' = bags /\ scope' = scope
    BY <1>4 DEF TickMerged, RunPlacement, Sends, inventory, LocksAreAwaited
  <2> QED
    BY <1>1, <2>1, <2>2, <2>3 DEF LocksAreAwaited, InBags
<1>5. CASE TickPlaced
  <2>1. locked' = {} /\ held' = held /\ bags' = bags /\ scope' = scope
    BY <1>2, <1>5 DEF TickPlaced, inventory, player
  <2> QED
    BY <1>1, <2>1 DEF LocksAreAwaited
<1> QED
  BY <1>3, <1>4, <1>5 DEF Tick

(* What the client shows after an answer unlocks, and never locks. *)
LEMMA ShowKeepsLocks ==
  ASSUME LocksAreAwaited, NEW b, NEW n, DOMAIN b = Cells, Show(b, n), UNCHANGED sorter
  PROVE  LocksAreAwaited'
<1>1. held' = None
  BY DEF Show, LocksAreAwaited, InBags
<1>2. bags' = b /\ locked' \subseteq locked /\ locked' \subseteq InBags(b)
  BY DEF Show
<1> QED
  BY <1>1, <1>2 DEF LocksAreAwaited, sorter, IdleIffNothingAwaited, InBags

LEMMA ServerKeepsLocks ==
  ASSUME LocksAreAwaited, Server
  PROVE  LocksAreAwaited'
<1> DEFINE a == bags[Request.src]
           b == bags[Request.dst]
<1>1. DOMAIN [bags EXCEPT ![Request.src] = None] = Cells
  BY DEF LocksAreAwaited
<1>2. DOMAIN [bags EXCEPT ![Request.src] = b, ![Request.dst] = a] = Cells
  BY DEF LocksAreAwaited
<1>3. DOMAIN bags = Cells
  BY DEF LocksAreAwaited
<1>4. CASE AnswerMerge
  BY <1>1, <1>3, <1>4, ShowKeepsLocks, Zenon DEF AnswerMerge
<1>5. CASE AnswerSwap
  BY <1>2, <1>5, ShowKeepsLocks, Zenon DEF AnswerSwap
<1>6. CASE AnswerSplit
  BY <1>3, <1>6, ShowKeepsLocks, Zenon DEF AnswerSplit
<1>7. CASE Refuse \/ Ignore \/ RecordArrives
  BY <1>7 DEF Refuse, Ignore, RecordArrives, LocksAreAwaited, inventory, player, sorter,
              IdleIffNothingAwaited, InBags
<1> QED
  BY <1>4, <1>5, <1>6, <1>7 DEF Server, Honoured

(* The player first acts: from here on the locks are anyone's. *)
Counted == moves \in Nat /\ reloads \in Nat
LocksInv == Counted /\ (Undisturbed => LocksAreAwaited)

LEMMA PlayerDisturbs ==
  ASSUME LocksInv, Player \/ Reload \/ Relog
  PROVE  LocksInv'
<1>1. CASE PickUp \/ UnlockAllItems \/ SetRightToLeft
  BY <1>1 DEF PickUp, UnlockAllItems, SetRightToLeft, LocksInv, Counted, Undisturbed, rest
<1>2. CASE PutBack \/ DropOn
  <2>1. ~Undisturbed
    BY <1>2 DEF PutBack, DropOn, LocksInv, LocksAreAwaited
  <2>2. UNCHANGED <<moves, reloads>>
    BY <1>2 DEF PutBack, DropOn, rest
  <2> QED
    BY <2>1, <2>2 DEF LocksInv, Counted, Undisturbed
<1>3. CASE Reload \/ Relog
  BY <1>3 DEF Reload, Relog, LocksInv, Counted, Undisturbed
<1> QED
  BY <1>1, <1>2, <1>3 DEF Player

LEMMA NextKeepsLocks ==
  ASSUME LocksInv, [Next]_vars
  PROVE  LocksInv'
<1>1. CASE Call \/ Tick \/ Server \/ Elapse \/ UNCHANGED vars
  <2>1. UNCHANGED <<moves, reloads>>
    <3>1. CASE Call
      BY <3>1 DEF Call, StartSort, StartSortNoMerge, rest
    <3>2. CASE Tick \/ Elapse
      BY <3>2 DEF Tick, TickProgress, TickMerged, TickPlaced, Elapse, player, rest
    <3>3. CASE Server
      BY <3>3 DEF Server, Honoured, AnswerMerge, AnswerSwap, AnswerSplit, Refuse, Ignore,
                  RecordArrives, player, rest
    <3>4. CASE UNCHANGED vars
      BY <3>4 DEF vars, player, rest
    <3> QED
      BY <1>1, <3>1, <3>2, <3>3, <3>4
  <2>2. ASSUME LocksAreAwaited
        PROVE  LocksAreAwaited'
    <3>1. CASE Call \/ Tick \/ Server
      BY <2>2, <3>1, CallKeepsLocks, TickKeepsLocks, ServerKeepsLocks
    <3>2. CASE Elapse \/ UNCHANGED vars
      BY <2>2, <3>2 DEF Elapse, vars, inventory, player, sorter, LocksAreAwaited,
                        IdleIffNothingAwaited, InBags
    <3> QED
      BY <1>1, <3>1, <3>2
  <2> QED
    BY <2>1, <2>2 DEF LocksInv, Counted, Undisturbed
<1>2. CASE Player \/ Reload \/ Relog
  BY <1>2, PlayerDisturbs
<1> QED
  BY <1>1, <1>2 DEF Next

(* Until the player acts, a sort that ends leaves no item greyed out, whatever
   the server answered, refused or lost. *)
THEOREM NothingLeftGreyed == Spec => []StragglersAreReleased
<1>1. Init => LocksInv
  BY DEF Init, Layouts, LocksInv, Counted, LocksAreAwaited, IdleIffNothingAwaited, InBags
<1>2. LocksInv => StragglersAreReleased
  BY DEF LocksInv, LocksAreAwaited, IdleIffNothingAwaited, StragglersAreReleased
<1> QED
  BY <1>1, <1>2, NextKeepsLocks, PTL DEF Spec

-----------------------------------------------------------------------------
(* Sorting. *)

(* s lists the set S, every element once. *)
Lists(s, S) ==
  /\ s \in Seq(S)
  /\ \A m, n \in 1..Len(s) : s[m] = s[n] => m = n
  /\ \A x \in S : \E n \in 1..Len(s) : s[n] = x

(* ahead is the order of a set: of two elements one is ahead of the other. *)
Orders(ahead, S) ==
  /\ DOMAIN ahead = S
  /\ \A x \in S : ahead[x] \subseteq S /\ x \notin ahead[x]
  /\ \A x, y \in S : x # y => x \in ahead[y] \/ y \in ahead[x]
  /\ \A x, y \in S : x \in ahead[y] => ahead[x] \subseteq ahead[y]

(* How many are ahead of an element is its place less one, and no two share it. *)
LEMMA PlacesDiffer ==
  ASSUME NEW S, IsFiniteSet(S), NEW ahead, Orders(ahead, S)
  PROVE  /\ \A x \in S : Cardinality(ahead[x]) \in 0..(Cardinality(S) - 1)
         /\ \A x, y \in S : x \in ahead[y] => Cardinality(ahead[x]) < Cardinality(ahead[y])
<1>1. ASSUME NEW x \in S
      PROVE  IsFiniteSet(ahead[x]) /\ Cardinality(ahead[x]) \in Nat /\ Cardinality(ahead[x]) < Cardinality(S)
  <2>1. ahead[x] \in SUBSET S /\ ahead[x] # S
    BY DEF Orders
  <2>2. IsFiniteSet(ahead[x]) /\ Cardinality(ahead[x]) <= Cardinality(S) /\ Cardinality(ahead[x]) # Cardinality(S)
    BY <2>1, FS_Subset
  <2>3. Cardinality(ahead[x]) \in Nat /\ Cardinality(S) \in Nat
    BY <2>2, FS_CardinalityType
  <2> QED BY <2>2, <2>3
<1>2. ASSUME NEW x \in S, NEW y \in S, x \in ahead[y]
      PROVE  Cardinality(ahead[x]) < Cardinality(ahead[y])
  <2>1. ahead[x] \in SUBSET ahead[y] /\ ahead[x] # ahead[y]
    BY <1>2 DEF Orders
  <2>2. Cardinality(ahead[x]) <= Cardinality(ahead[y]) /\ Cardinality(ahead[x]) # Cardinality(ahead[y])
    BY <1>1, <2>1, FS_Subset
  <2>3. Cardinality(ahead[x]) \in Nat /\ Cardinality(ahead[y]) \in Nat
    BY <1>1
  <2> QED BY <2>2, <2>3
<1>3. Cardinality(S) \in Nat
  BY FS_CardinalityType
<1>4. \A x \in S : Cardinality(ahead[x]) \in 0..(Cardinality(S) - 1)
  BY <1>1, <1>3
<1> QED BY <1>2, <1>4

(* Each place is taken. *)
LEMMA PlacesAreTaken ==
  ASSUME NEW S, IsFiniteSet(S), NEW ahead, Orders(ahead, S), NEW n \in 1..Cardinality(S)
  PROVE  \E x \in S : Cardinality(ahead[x]) = n - 1
<1> DEFINE N == Cardinality(S)
           f == [x \in S |-> Cardinality(ahead[x])]
<1>1. N \in Nat
  BY FS_CardinalityType
<1>2. f \in [S -> 0..(N - 1)]
  BY PlacesDiffer
<1>3. ASSUME NEW x \in S, NEW y \in S, x # y PROVE f[x] # f[y]
  <2>1. x \in ahead[y] \/ y \in ahead[x]
    BY <1>3 DEF Orders
  <2>2. Cardinality(ahead[x]) < Cardinality(ahead[y]) \/ Cardinality(ahead[y]) < Cardinality(ahead[x])
    BY <2>1, PlacesDiffer
  <2>3. f[x] \in 0..(N - 1) /\ f[y] \in 0..(N - 1) /\ (f[x] < f[y] \/ f[y] < f[x])
    BY <1>2, <2>2
  <2> HIDE DEF f, N
  <2> QED BY <1>1, <2>3
<1>4. f \in Injection(S, 0..(N - 1))
  <2> HIDE DEF f, N
  <2> QED BY <1>2, <1>3 DEF Injection, IsInjective
<1>5. IsFiniteSet(0..(N - 1)) /\ Cardinality(0..(N - 1)) = N
  <2> HIDE DEF N
  <2>1. 0 \in Int /\ N - 1 \in Int
    BY <1>1
  <2>2. IsFiniteSet(0..(N - 1)) /\ Cardinality(0..(N - 1)) = IF 0 > N - 1 THEN 0 ELSE (N - 1) - 0 + 1
    BY <2>1, FS_Interval
  <2> QED BY <1>1, <2>2
<1>6. f \in Surjection(S, 0..(N - 1))
  <2> HIDE DEF f
  <2>1. Cardinality(S) = Cardinality(0..(N - 1))
    BY <1>5
  <2> QED BY <1>4, <1>5, <2>1, FS_Injection
<1>7. n - 1 \in 0..(N - 1)
  BY <1>1
<1>8. \E x \in S : f[x] = n - 1
  <2> HIDE DEF f, N
  <2> QED BY <1>6, <1>7 DEF Surjection
<1> QED BY <1>8

(* What the sort returns lists the set in order. *)
LEMMA OrderIs ==
  ASSUME NEW S, IsFiniteSet(S), NEW ahead, Orders(ahead, S)
  PROVE  /\ Lists(InOrder(ahead), S)
         /\ Len(InOrder(ahead)) = Cardinality(S)
         /\ \A m, n \in 1..Len(InOrder(ahead)) : m < n => InOrder(ahead)[m] \in ahead[InOrder(ahead)[n]]
<1> DEFINE N == Cardinality(S)
           q == [n \in 1..N |-> CHOOSE x \in S : Cardinality(ahead[x]) = n - 1]
           s == InOrder(ahead)
<1>1. N \in Nat /\ DOMAIN ahead = S
  BY FS_CardinalityType DEF Orders
<1>2. ASSUME NEW n \in 1..N PROVE q[n] \in S /\ Cardinality(ahead[q[n]]) = n - 1
  BY PlacesAreTaken
<1>3. q \in Seq(S) /\ Len(q) = N
  <2>1. q \in [1..N -> S]
    BY <1>2
  <2> HIDE DEF q, N
  <2> QED BY <1>1, <2>1
<1>4. s = q
  <2>1. s = q \o <<>>
    BY <1>1 DEF InOrder
  <2> HIDE DEF s, q
  <2> QED BY <1>3, <2>1
<1>5. ASSUME NEW m \in 1..N, NEW n \in 1..N, q[m] = q[n] PROVE m = n
  <2>1. m - 1 = n - 1 /\ m \in Int /\ n \in Int
    BY <1>2, <1>5
  <2> QED BY <2>1
<1>6. ASSUME NEW x \in S PROVE \E n \in 1..N : q[n] = x
  <2>1. Cardinality(ahead[x]) \in 0..(N - 1)
    BY PlacesDiffer
  <2> DEFINE n == Cardinality(ahead[x]) + 1
  <2>2. n \in 1..N /\ Cardinality(ahead[x]) = n - 1
    <3> HIDE DEF N
    <3> QED BY <1>1, <2>1
  <2>3. q[n] \in S /\ Cardinality(ahead[q[n]]) = Cardinality(ahead[x])
    <3> HIDE DEF n, q
    <3> QED BY <1>2, <2>2
  <2>4. q[n] = x
    <3> HIDE DEF n, q
    <3> SUFFICES ASSUME q[n] # x PROVE FALSE
      OBVIOUS
    <3>1. q[n] \in ahead[x] \/ x \in ahead[q[n]]
      BY <2>3 DEF Orders
    <3>2. Cardinality(ahead[q[n]]) < Cardinality(ahead[x]) \/ Cardinality(ahead[x]) < Cardinality(ahead[q[n]])
      BY <2>3, <3>1, PlacesDiffer
    <3>3. Cardinality(ahead[x]) \in Int
      BY <2>1
    <3> QED BY <2>3, <3>2, <3>3
  <2> HIDE DEF q, n
  <2> QED BY <2>2, <2>4
<1>7. ASSUME NEW m \in 1..N, NEW n \in 1..N, m < n PROVE q[m] \in ahead[q[n]]
  <2>1. q[m] \in S /\ q[n] \in S /\ q[m] # q[n]
    BY <1>2, <1>5, <1>7
  <2>2. ~(q[n] \in ahead[q[m]])
    <3> SUFFICES ASSUME q[n] \in ahead[q[m]] PROVE FALSE
      OBVIOUS
    <3>1. Cardinality(ahead[q[n]]) < Cardinality(ahead[q[m]])
      <4> HIDE DEF q
      <4> QED BY <2>1, PlacesDiffer
    <3>2. n - 1 < m - 1
      <4> HIDE DEF q
      <4> QED BY <1>2, <3>1
    <3> QED BY <1>7, <3>2
  <2> HIDE DEF q
  <2> QED BY <2>1, <2>2 DEF Orders
<1> HIDE DEF q, s, N
<1>8. Lists(s, S) /\ Len(s) = N /\ \A m, n \in 1..Len(s) : m < n => s[m] \in ahead[s[n]]
  BY <1>3, <1>4, <1>5, <1>6, <1>7 DEF Lists
<1> QED BY <1>8 DEF s, N

(* Upward lists the cells of a set, each once and in order. *)
LEMMA UpwardIs ==
  ASSUME NEW S \in SUBSET Nat, IsFiniteSet(S)
  PROVE  /\ Lists(Upward(S), S)
         /\ Len(Upward(S)) = Cardinality(S)
         /\ \A m, n \in 1..Len(Upward(S)) : m < n => Upward(S)[m] < Upward(S)[n]
<1> DEFINE ahead == [c \in S |-> {d \in S : d < c}]
<1>1. \A c \in S : c \in Nat
  OBVIOUS
<1>2. Orders(ahead, S)
  <2>1. DOMAIN ahead = S /\ \A c \in S : ahead[c] \subseteq S /\ c \notin ahead[c]
    BY <1>1
  <2>2. \A c, d \in S : c # d => c \in ahead[d] \/ d \in ahead[c]
    BY <1>1
  <2>3. \A c, d \in S : c \in ahead[d] => ahead[c] \subseteq ahead[d]
    <3> SUFFICES ASSUME NEW c \in S, NEW d \in S, c \in ahead[d], NEW e \in ahead[c]
                 PROVE  e \in ahead[d]
      OBVIOUS
    <3> QED BY <1>1
  <2> HIDE DEF ahead
  <2> QED BY <2>1, <2>2, <2>3 DEF Orders
<1>3. \A c, d \in S : c \in ahead[d] => c < d
  OBVIOUS
<1> HIDE DEF ahead
<1>4. /\ Lists(InOrder(ahead), S)
      /\ Len(InOrder(ahead)) = Cardinality(S)
      /\ \A m, n \in 1..Len(InOrder(ahead)) : m < n => InOrder(ahead)[m] \in ahead[InOrder(ahead)[n]]
  BY <1>2, OrderIs
<1>5. \A n \in 1..Len(InOrder(ahead)) : InOrder(ahead)[n] \in S
  BY <1>4 DEF Lists
<1>6. Upward(S) = InOrder(ahead)
  BY DEF Upward, ahead
<1> QED BY <1>2, <1>3, <1>4, <1>5, <1>6

(* Downward lists them from the last to the first. *)
LEMMA DownwardIs ==
  ASSUME NEW S \in SUBSET Nat, IsFiniteSet(S)
  PROVE  /\ Lists(Downward(S), S)
         /\ Len(Downward(S)) = Cardinality(S)
         /\ \A m, n \in 1..Len(Downward(S)) : m < n => Downward(S)[m] > Downward(S)[n]
<1> DEFINE ahead == [c \in S |-> {d \in S : d > c}]
<1>1. \A c \in S : c \in Nat
  OBVIOUS
<1>2. Orders(ahead, S)
  <2>1. DOMAIN ahead = S /\ \A c \in S : ahead[c] \subseteq S /\ c \notin ahead[c]
    BY <1>1
  <2>2. \A c, d \in S : c # d => c \in ahead[d] \/ d \in ahead[c]
    BY <1>1
  <2>3. \A c, d \in S : c \in ahead[d] => ahead[c] \subseteq ahead[d]
    <3> SUFFICES ASSUME NEW c \in S, NEW d \in S, c \in ahead[d], NEW e \in ahead[c]
                 PROVE  e \in ahead[d]
      OBVIOUS
    <3> QED BY <1>1
  <2> HIDE DEF ahead
  <2> QED BY <2>1, <2>2, <2>3 DEF Orders
<1>3. \A c, d \in S : c \in ahead[d] => c > d
  OBVIOUS
<1> HIDE DEF ahead
<1>4. /\ Lists(InOrder(ahead), S)
      /\ Len(InOrder(ahead)) = Cardinality(S)
      /\ \A m, n \in 1..Len(InOrder(ahead)) : m < n => InOrder(ahead)[m] \in ahead[InOrder(ahead)[n]]
  BY <1>2, OrderIs
<1>5. \A n \in 1..Len(InOrder(ahead)) : InOrder(ahead)[n] \in S
  BY <1>4 DEF Lists
<1>6. Downward(S) = InOrder(ahead)
  BY DEF Downward, ahead
<1> QED BY <1>2, <1>3, <1>4, <1>5, <1>6

(* The stacks of a group, fullest first. *)
LEMMA FullestIs ==
  ASSUME NEW S \in SUBSET Items, IsFiniteSet(S), NEW n \in [Items -> Nat],
         NEW tie \in [Items -> Nat], \A a, b \in Items : tie[a] = tie[b] => a = b
  PROVE  /\ Lists(Fullest(S, n, tie), S)
         /\ Len(Fullest(S, n, tie)) = Cardinality(S)
         /\ \A j, k \in 1..Len(Fullest(S, n, tie)) :
              j < k => n[Fullest(S, n, tie)[j]] >= n[Fullest(S, n, tie)[k]]
<1> DEFINE ahead == [a \in S |-> {b \in S : n[b] > n[a] \/ (n[b] = n[a] /\ tie[b] < tie[a])}]
<1>1. \A a \in S : a \in Items /\ n[a] \in Nat /\ tie[a] \in Nat
  OBVIOUS
<1>2. Orders(ahead, S)
  <2>1. DOMAIN ahead = S /\ \A a \in S : ahead[a] \subseteq S /\ a \notin ahead[a]
    BY <1>1
  <2>2. \A a, b \in S : a # b => a \in ahead[b] \/ b \in ahead[a]
    BY <1>1
  <2>3. \A a, b \in S : a \in ahead[b] => ahead[a] \subseteq ahead[b]
    BY <1>1
  <2> HIDE DEF ahead
  <2> QED BY <2>1, <2>2, <2>3 DEF Orders
<1>3. \A a, b \in S : a \in ahead[b] => n[a] >= n[b]
  BY <1>1
<1> HIDE DEF ahead
<1>4. /\ Lists(InOrder(ahead), S)
      /\ Len(InOrder(ahead)) = Cardinality(S)
      /\ \A j, k \in 1..Len(InOrder(ahead)) : j < k => InOrder(ahead)[j] \in ahead[InOrder(ahead)[k]]
  BY <1>2, OrderIs
<1>5. \A j \in 1..Len(InOrder(ahead)) : InOrder(ahead)[j] \in S
  BY <1>4 DEF Lists
<1>6. Fullest(S, n, tie) = InOrder(ahead)
  BY DEF Fullest, ahead
<1> QED BY <1>2, <1>3, <1>4, <1>5, <1>6

(* The items to place, by rank and, within a kind, fuller stacks first. *)
LEMMA EntriesAre ==
  ASSUME SortIsDecided, NEW S \in SUBSET Items, IsFiniteSet(S), NEW n \in [Items -> Nat],
         NEW tie \in TieOrders
  PROVE  /\ Lists(Entries(S, n, tie), S)
         /\ Len(Entries(S, n, tie)) = Cardinality(S)
         /\ \A j, k \in 1..Len(Entries(S, n, tie)) :
              j < k => Rank[KindOf[Entries(S, n, tie)[j]]] <= Rank[KindOf[Entries(S, n, tie)[k]]]
<1> DEFINE ahead == [a \in S |-> {b \in S : Precedes(b, a, n, tie)}]
<1>1. tie \in [Items -> Nat] /\ \A a, b \in Items : tie[a] = tie[b] => a = b
  BY DEF SortIsDecided
<1>2. \A a \in S : /\ a \in Items /\ n[a] \in Nat /\ tie[a] \in Nat
                   /\ KindOf[a] \in Kinds /\ Rank[KindOf[a]] \in Nat
  BY <1>1, SortPlanAssumption DEF SortIsDecided
<1>3. \A a, b \in S : /\ a \in Items /\ b \in Items
                      /\ Rank[KindOf[a]] = Rank[KindOf[b]] => KindOf[a] = KindOf[b]
  BY <1>2 DEF SortIsDecided
<1>4. \A a, b \in S :
        Precedes(a, b, n, tie) <=> \/ Rank[KindOf[a]] < Rank[KindOf[b]]
                                   \/ KindOf[a] = KindOf[b] /\ n[a] > n[b]
                                   \/ KindOf[a] = KindOf[b] /\ n[a] = n[b] /\ tie[a] < tie[b]
  <2> SUFFICES ASSUME NEW a \in S, NEW b \in S
               PROVE  Precedes(a, b, n, tie) <=> \/ Rank[KindOf[a]] < Rank[KindOf[b]]
                                                 \/ KindOf[a] = KindOf[b] /\ n[a] > n[b]
                                                 \/ KindOf[a] = KindOf[b] /\ n[a] = n[b] /\ tie[a] < tie[b]
    OBVIOUS
  <2>1. /\ Rank[KindOf[a]] = Rank[KindOf[b]] <=> KindOf[a] = KindOf[b]
        /\ n[a] \in Nat /\ n[b] \in Nat /\ KindOf[a] \in Kinds
    BY <1>2, <1>3
  <2>2. KindOf[a] = KindOf[b] => ~(ItemID[KindOf[a]] < ItemID[KindOf[b]])
    <3>1. ItemID[KindOf[a]] \in Nat
      BY <2>1, SortPlanAssumption
    <3> QED BY <3>1
  <2> QED BY <2>1, <2>2 DEF Precedes
<1>5. Orders(ahead, S)
  <2> DEFINE P(a, b) == \/ Rank[KindOf[a]] < Rank[KindOf[b]]
                        \/ KindOf[a] = KindOf[b] /\ n[a] > n[b]
                        \/ KindOf[a] = KindOf[b] /\ n[a] = n[b] /\ tie[a] < tie[b]
  <2>1. \A a \in S : ~P(a, a)
    BY <1>2
  <2>2. \A a, b \in S : a # b => P(a, b) \/ P(b, a)
    <3> SUFFICES ASSUME NEW a \in S, NEW b \in S, a # b PROVE P(a, b) \/ P(b, a)
      OBVIOUS
    <3>1. a \in Items /\ b \in Items /\ tie[a] # tie[b]
      BY <1>1, <1>2
    <3> QED BY <1>2, <1>3, <3>1
  <2>3. \A a, b, c \in S : P(a, b) /\ P(b, c) => P(a, c)
    <3> SUFFICES ASSUME NEW a \in S, NEW b \in S, NEW c \in S, P(a, b), P(b, c) PROVE P(a, c)
      OBVIOUS
    <3> QED BY <1>2
  <2>4. \A a, b \in S : a \in ahead[b] <=> P(a, b)
    <3> HIDE DEF P
    <3>1. \A a, b \in S : a \in ahead[b] <=> Precedes(a, b, n, tie)
      OBVIOUS
    <3> QED BY <1>4, <3>1 DEF P
  <2>5. DOMAIN ahead = S /\ \A a \in S : ahead[a] \subseteq S
    OBVIOUS
  <2> HIDE DEF P, ahead
  <2>6. \A a \in S : a \notin ahead[a]
    BY <2>1, <2>4
  <2>7. \A a, b \in S : a # b => a \in ahead[b] \/ b \in ahead[a]
    BY <2>2, <2>4
  <2>8. ASSUME NEW a \in S, NEW b \in S, a \in ahead[b] PROVE ahead[a] \subseteq ahead[b]
    <3> SUFFICES ASSUME NEW c \in ahead[a] PROVE c \in ahead[b]
      OBVIOUS
    <3>1. c \in S
      BY <2>5
    <3> QED BY <2>3, <2>4, <2>8, <3>1
  <2> QED BY <2>5, <2>6, <2>7, <2>8 DEF Orders
<1>6. \A a, b \in S : a \in ahead[b] => Rank[KindOf[a]] <= Rank[KindOf[b]]
  <2>1. \A a, b \in S : a \in ahead[b] => Precedes(a, b, n, tie)
    OBVIOUS
  <2> HIDE DEF ahead
  <2> QED BY <1>2, <1>4, <2>1
<1> HIDE DEF ahead
<1>7. /\ Lists(InOrder(ahead), S)
      /\ Len(InOrder(ahead)) = Cardinality(S)
      /\ \A j, k \in 1..Len(InOrder(ahead)) : j < k => InOrder(ahead)[j] \in ahead[InOrder(ahead)[k]]
  BY <1>5, OrderIs
<1>8. \A j \in 1..Len(InOrder(ahead)) : InOrder(ahead)[j] \in S
  BY <1>7 DEF Lists
<1>9. Entries(S, n, tie) = InOrder(ahead)
  BY DEF Entries, ahead
<1> QED BY <1>6, <1>7, <1>8, <1>9

-----------------------------------------------------------------------------
(* What a batch of requests leads to, when each is honoured in its turn. *)

Requests == {r \in [op : {"swap", "split"}, src : Cells, dst : Cells, n : Nat] : r.src # r.dst}

CanStack(n, a, b) ==
  /\ a # None /\ b # None
  /\ KindOf[a] = KindOf[b]
  /\ n[b] < MaxStack[KindOf[b]]

Honourable(s, r) ==
  LET a == s.bags[r.src]
      b == s.bags[r.dst]
  IN /\ a # None
     /\ r.op = "swap" => CanStack(s.count, a, b) \/ (Fits(a, r.dst) /\ Fits(b, r.src))
     /\ r.op = "split" => /\ CanStack(s.count, a, b)
                          /\ s.count[a] > r.n
                          /\ s.count[b] + r.n <= MaxStack[KindOf[b]]

(* A request of phase one: it empties its source, or it is a split. *)
Pours(s, r) ==
  LET a == s.bags[r.src]
      b == s.bags[r.dst]
  IN /\ CanStack(s.count, a, b)
     /\ r.op = "swap" => s.count[a] + s.count[b] <= MaxStack[KindOf[a]]

(* A request that makes no item vanish. *)
Keeps(s, r) ==
  LET a == s.bags[r.src]
      b == s.bags[r.dst]
  IN r.op = "swap" => ~CanStack(s.count, a, b) \/ s.count[a] + s.count[b] > MaxStack[KindOf[a]]

Manner(x, s, r) == (x = "pour" => Pours(s, r)) /\ (x = "keep" => Keeps(s, r))

SwapCells(b, c, d) == [b EXCEPT ![c] = b[d], ![d] = b[c]]
Stack(n, a, b, k) == [n EXCEPT ![a] = n[a] - k, ![b] = n[b] + k]

After(s, r) ==
  LET a == s.bags[r.src]
      b == s.bags[r.dst]
      max == MaxStack[KindOf[a]]
  IN IF r.op = "split" THEN [bags |-> s.bags, count |-> Stack(s.count, a, b, r.n)]
     ELSE IF ~CanStack(s.count, a, b) THEN [bags |-> SwapCells(s.bags, r.src, r.dst), count |-> s.count]
     ELSE IF s.count[a] + s.count[b] <= max
          THEN [bags |-> [s.bags EXCEPT ![r.src] = None],
                count |-> [s.count EXCEPT ![a] = 0, ![b] = s.count[a] + s.count[b]]]
     ELSE [bags |-> s.bags,
           count |-> [s.count EXCEPT ![a] = (s.count[a] + s.count[b]) - max, ![b] = max]]

Trace(x, t, w) ==
  /\ t = [k \in 0..Len(w) |-> t[k]]
  /\ \A k \in 1..Len(w) : /\ Honourable(t[k - 1], w[k])
                          /\ Manner(x, t[k - 1], w[k])
                          /\ t[k] = After(t[k - 1], w[k])

Leads(x, s, w, e) == \E t : Trace(x, t, w) /\ t[0] = s /\ t[Len(w)] = e

(* No requests lead nowhere else. *)
LEMMA LeadsNowhere ==
  ASSUME NEW x, NEW s
  PROVE  Leads(x, s, <<>>, s)
<1> DEFINE t == [k \in 0..Len(<<>>) |-> s]
<1>1. Len(<<>>) = 0 /\ t[0] = s /\ \A k \in 1..Len(<<>>) : FALSE
  OBVIOUS
<1>2. t = [k \in 0..Len(<<>>) |-> t[k]]
  OBVIOUS
<1>3. Trace(x, t, <<>>)
  <2> HIDE DEF t
  <2> QED BY <1>1, <1>2 DEF Trace
<1> QED BY <1>1, <1>3 DEF Leads

LEMMA LeadsStop ==
  ASSUME NEW x, NEW s, NEW e, Leads(x, s, <<>>, e)
  PROVE  e = s
<1>1. Len(<<>>) = 0
  OBVIOUS
<1> QED BY <1>1 DEF Leads

(* Requests that lead on from where others lead can follow them. *)
LEMMA LeadsThrough ==
  ASSUME NEW x, NEW s, NEW w \in Seq(Requests), NEW e, NEW v \in Seq(Requests), NEW f,
         Leads(x, s, w, e), Leads(x, e, v, f)
  PROVE  Leads(x, s, w \o v, f)
<1>1. PICK t : Trace(x, t, w) /\ t[0] = s /\ t[Len(w)] = e
  BY DEF Leads
<1>2. PICK u : Trace(x, u, v) /\ u[0] = e /\ u[Len(v)] = f
  BY DEF Leads
<1> DEFINE n == Len(w)
           m == Len(v)
           z == [k \in 0..Len(w \o v) |-> IF k <= n THEN t[k] ELSE u[k - n]]
<1>3. n \in Nat /\ m \in Nat /\ Len(w \o v) = n + m
  OBVIOUS
<1>4. /\ \A k \in 1..n : (w \o v)[k] = w[k]
      /\ \A k \in 1..m : (w \o v)[n + k] = v[k]
  OBVIOUS
<1>5. z = [k \in 0..Len(w \o v) |-> z[k]]
  OBVIOUS
<1>6. \A k \in 0..n : z[k] = t[k]
  BY <1>3
<1>7. \A k \in 0..m : z[n + k] = u[k]
  <2> SUFFICES ASSUME NEW k \in 0..m PROVE z[n + k] = u[k]
    OBVIOUS
  <2>1. CASE k = 0
    <3>1. z[n + 0] = t[n] /\ n + 0 = n
      BY <1>3
    <3> HIDE DEF z, n
    <3> QED BY <1>1, <1>2, <2>1, <3>1 DEF n
  <2>2. CASE k # 0
    <3>1. n + k \in 0..(n + m) /\ ~(n + k <= n) /\ (n + k) - n = k
      <4> HIDE DEF n, m
      <4> QED BY <1>3, <2>2
    <3> QED BY <1>3, <3>1
  <2> QED BY <2>1, <2>2
<1> HIDE DEF z, n, m
<1>8. ASSUME NEW k \in 1..(n + m)
      PROVE  /\ Honourable(z[k - 1], (w \o v)[k])
             /\ Manner(x, z[k - 1], (w \o v)[k])
             /\ z[k] = After(z[k - 1], (w \o v)[k])
  <2>1. CASE k <= n
    <3>1. k \in 1..n /\ k - 1 \in 0..n /\ k \in 0..n
      BY <1>3, <2>1
    <3>2. z[k] = t[k] /\ z[k - 1] = t[k - 1] /\ (w \o v)[k] = w[k]
      BY <1>4, <1>6, <3>1
    <3> QED BY <1>1, <3>1, <3>2 DEF Trace, n
  <2>2. CASE k > n
    <3> DEFINE j == k - n
    <3>1. j \in 1..m /\ j - 1 \in 0..m /\ j \in 0..m /\ k = n + j /\ k - 1 = n + (j - 1)
      BY <1>3, <2>2
    <3> HIDE DEF j
    <3>2. z[k] = u[j] /\ z[k - 1] = u[j - 1] /\ (w \o v)[k] = v[j]
      BY <1>4, <1>7, <3>1
    <3> QED BY <1>2, <3>1, <3>2 DEF Trace, m
  <2> QED BY <1>3, <2>1, <2>2
<1>9. Trace(x, z, w \o v)
  BY <1>3, <1>5, <1>8 DEF Trace
<1>10. z[0] = s /\ z[n + m] = f
  <2>1. 0 \in 0..n /\ m \in 0..m
    BY <1>3
  <2> QED BY <1>1, <1>2, <1>6, <1>7, <2>1 DEF m
<1> QED BY <1>3, <1>9, <1>10 DEF Leads

LEMMA LeadsBy ==
  ASSUME NEW x, NEW s, NEW r, Honourable(s, r), Manner(x, s, r)
  PROVE  Leads(x, s, <<r>>, After(s, r))
<1> DEFINE t == [k \in 0..Len(<<r>>) |-> IF k = 0 THEN s ELSE After(s, r)]
<1>1. Len(<<r>>) = 1 /\ <<r>>[1] = r
  OBVIOUS
<1>2. t[0] = s /\ t[1] = After(s, r) /\ t = [k \in 0..Len(<<r>>) |-> t[k]]
  BY <1>1
<1> HIDE DEF t
<1>3. \A k \in 1..Len(<<r>>) : k = 1 /\ k - 1 = 0
  BY <1>1
<1>4. Trace(x, t, <<r>>)
  BY <1>1, <1>2, <1>3 DEF Trace
<1> QED BY <1>1, <1>2, <1>4 DEF Leads

(* One more request that can be honoured leads a step on. *)
LEMMA LeadsOn ==
  ASSUME NEW x, NEW s, NEW w \in Seq(Requests), NEW e, NEW r \in Requests, NEW f,
         Leads(x, s, w, e), Honourable(e, r), Manner(x, e, r), f = After(e, r)
  PROVE  Leads(x, s, Append(w, r), f)
<1>1. Leads(x, e, <<r>>, f)
  BY LeadsBy
<1>2. <<r>> \in Seq(Requests) /\ Append(w, r) = w \o <<r>>
  OBVIOUS
<1> QED BY <1>1, <1>2, LeadsThrough

(* What leads somewhere can be honoured from its first request on. *)
LEMMA LeadsFirst ==
  ASSUME NEW x, NEW s, NEW w \in Seq(Requests), w # <<>>, NEW e, Leads(x, s, w, e)
  PROVE  /\ Honourable(s, Head(w))
         /\ Manner(x, s, Head(w))
         /\ Leads(x, After(s, Head(w)), Tail(w), e)
<1>1. PICK t : Trace(x, t, w) /\ t[0] = s /\ t[Len(w)] = e
  BY DEF Leads
<1> DEFINE n == Len(w)
           u == [k \in 0..Len(Tail(w)) |-> t[k + 1]]
<1>2. n \in Nat \ {0} /\ Len(Tail(w)) = n - 1 /\ Head(w) = w[1] /\ \A k \in 1..(n - 1) : Tail(w)[k] = w[k + 1]
  OBVIOUS
<1>3. u = [k \in 0..Len(Tail(w)) |-> u[k]] /\ \A k \in 0..(n - 1) : u[k] = t[k + 1]
  BY <1>2
<1> HIDE DEF u, n
<1>4. Honourable(s, Head(w)) /\ (Manner(x, s, Head(w))) /\ t[1] = After(s, Head(w))
  <2>1. 1 \in 1..n /\ 1 - 1 = 0
    BY <1>2
  <2> QED BY <1>1, <1>2, <2>1 DEF Trace, n
<1>5. ASSUME NEW k \in 1..(n - 1)
      PROVE  /\ Honourable(u[k - 1], Tail(w)[k])
             /\ Manner(x, u[k - 1], Tail(w)[k])
             /\ u[k] = After(u[k - 1], Tail(w)[k])
  <2>1. k + 1 \in 1..n /\ (k + 1) - 1 = k /\ k - 1 \in 0..(n - 1) /\ k \in 0..(n - 1) /\ (k - 1) + 1 = k
    BY <1>2
  <2>2. u[k] = t[k + 1] /\ u[k - 1] = t[k] /\ Tail(w)[k] = w[k + 1]
    BY <1>2, <1>3, <2>1
  <2>3. /\ Honourable(t[(k + 1) - 1], w[k + 1])
        /\ Manner(x, t[(k + 1) - 1], w[k + 1])
        /\ t[k + 1] = After(t[(k + 1) - 1], w[k + 1])
    BY <1>1, <2>1 DEF Trace, n
  <2> QED BY <2>1, <2>2, <2>3
<1>6. Trace(x, u, Tail(w))
  BY <1>2, <1>3, <1>5 DEF Trace
<1>7. u[0] = After(s, Head(w)) /\ u[Len(Tail(w))] = e
  <2>1. 0 \in 0..(n - 1) /\ 0 + 1 = 1 /\ n - 1 \in 0..(n - 1) /\ (n - 1) + 1 = n
    BY <1>2
  <2>2. u[0] = t[0 + 1] /\ u[n - 1] = t[(n - 1) + 1]
    BY <1>3, <2>1
  <2> QED BY <1>1, <1>2, <1>4, <2>1, <2>2 DEF n
<1> QED BY <1>4, <1>6, <1>7 DEF Leads

(* Splits move counts and no items. *)
LEMMA SplitsStay ==
  ASSUME NEW x, NEW s, NEW w \in Seq(Requests), NEW e, Leads(x, s, w, e),
         \A k \in 1..Len(w) : w[k].op = "split"
  PROVE  e.bags = s.bags
<1>1. PICK t : Trace(x, t, w) /\ t[0] = s /\ t[Len(w)] = e
  BY DEF Leads
<1> DEFINE n == Len(w)
           S == {k \in 0..n : t[k].bags = s.bags}
<1>2. n \in Nat /\ 0 \in S
  BY <1>1
<1>3. ASSUME NEW k \in 1..n, k - 1 \in S PROVE k \in S
  <2>1. t[k] = After(t[k - 1], w[k]) /\ w[k].op = "split"
    BY <1>1 DEF Trace
  <2>2. t[k].bags = t[k - 1].bags
    BY <2>1 DEF After
  <2> QED BY <1>3, <2>2
<1>4. \A k \in 0..n : k \in S
  <2> HIDE DEF S
  <2> QED BY <1>2, <1>3, UpTo
<1>5. n \in 0..n
  BY <1>2
<1> QED BY <1>1, <1>4, <1>5

-----------------------------------------------------------------------------
(* What the client shows, and an honoured request. *)

OkState(s) ==
  /\ s.bags \in Layouts
  /\ s.count \in [Items -> Nat]
  /\ \A i \in InBags(s.bags) : s.count[i] >= 1 /\ s.count[i] <= MaxStack[KindOf[i]]
  /\ \A i \in Items \ InBags(s.bags) : s.count[i] = 0

Now == [bags |-> bags, count |-> count]

(* What an orderly state says of its cells. *)
LEMMA OkCells ==
  ASSUME NEW s, OkState(s)
  PROVE  /\ s.bags \in [Cells -> Items \cup {None}]
         /\ \A c \in Cells : /\ Fits(s.bags[c], c)
                             /\ s.bags[c] # None => s.bags[c] \in InBags(s.bags)
         /\ \A c, d \in Cells : s.bags[c] = s.bags[d] /\ s.bags[c] # None => c = d
         /\ InBags(s.bags) \subseteq Items
         /\ \A i \in InBags(s.bags) : \E c \in Cells : s.bags[c] = i
  BY DEF OkState, Layouts, InBags

LEMMA StackTypes ==
  ASSUME NEW s, OkState(s), NEW i \in Items
  PROVE  /\ KindOf[i] \in Kinds /\ MaxStack[KindOf[i]] \in Nat \ {0} /\ i # None
         /\ s.count[i] \in Nat
  BY SortPlanAssumption DEF OkState

(* Counts move between two stacks of a kind and the bags keep what they had. *)
LEMMA RecountIsOk ==
  ASSUME NEW s, OkState(s), NEW n \in [Items -> Nat], NEW e, e = [bags |-> s.bags, count |-> n],
         \A i \in InBags(s.bags) : n[i] >= 1 /\ n[i] <= MaxStack[KindOf[i]],
         \A i \in Items \ InBags(s.bags) : n[i] = s.count[i]
  PROVE  OkState(e)
<1>1. e.bags = s.bags /\ e.count = n
  OBVIOUS
<1> QED BY <1>1 DEF OkState

LEMMA BothChange ==
  ASSUME NEW f \in [Items -> Nat], NEW a \in Items, NEW b \in Items, a # b, NEW x \in Nat, NEW y \in Nat
  PROVE  /\ [f EXCEPT ![a] = x, ![b] = y] \in [Items -> Nat]
         /\ [f EXCEPT ![a] = x, ![b] = y][a] = x
         /\ [f EXCEPT ![a] = x, ![b] = y][b] = y
         /\ \A i \in Items \ {a, b} : [f EXCEPT ![a] = x, ![b] = y][i] = f[i]
  OBVIOUS

(* A request that can be honoured leaves an orderly state. *)
LEMMA AfterIsOk ==
  ASSUME NEW s, OkState(s), NEW r \in Requests, Honourable(s, r)
  PROVE  OkState(After(s, r))
<1> DEFINE a == s.bags[r.src]
           b == s.bags[r.dst]
           e == After(s, r)
           max == MaxStack[KindOf[a]]
<1>1. /\ r.src \in Cells /\ r.dst \in Cells /\ r.src # r.dst /\ r.n \in Nat
      /\ r.op \in {"swap", "split"} /\ a # None
  BY DEF Requests, Honourable
<1>2. /\ a \in Items /\ a \in InBags(s.bags) /\ b \in Items \cup {None} /\ b # a
      /\ b # None => b \in Items /\ b \in InBags(s.bags)
  BY <1>1, OkCells
<1>3. /\ s.count \in [Items -> Nat]
      /\ \A i \in InBags(s.bags) : i \in Items /\ s.count[i] >= 1 /\ s.count[i] <= MaxStack[KindOf[i]]
  BY OkCells DEF OkState
<1>4. max \in Nat \ {0} /\ s.count[a] \in 1..max
  <2>1. max \in Nat \ {0}
    BY <1>2, StackTypes
  <2> QED BY <1>2, <1>3, <2>1
<1>5. ASSUME CanStack(s.count, a, b)
      PROVE  b \in Items /\ b \in InBags(s.bags) /\ KindOf[b] = KindOf[a] /\ s.count[b] \in 1..(max - 1)
  <2>1. b \in Items /\ b \in InBags(s.bags) /\ KindOf[b] = KindOf[a] /\ s.count[b] < max
    BY <1>2, <1>5 DEF CanStack
  <2> QED BY <1>3, <1>4, <2>1
<1>6. CASE r.op = "split"
  <2> DEFINE n == Stack(s.count, a, b, r.n)
  <2>1. CanStack(s.count, a, b) /\ s.count[a] > r.n /\ s.count[b] + r.n <= max
    BY <1>5, <1>6 DEF Honourable, CanStack
  <2>2. n \in [Items -> Nat] /\ n[a] = s.count[a] - r.n /\ n[b] = s.count[b] + r.n
        /\ \A i \in Items \ {a, b} : n[i] = s.count[i]
    <3>1. /\ s.count \in [Items -> Nat] /\ a \in Items /\ b \in Items /\ a # b
          /\ s.count[a] - r.n \in Nat /\ s.count[b] + r.n \in Nat
      BY <1>1, <1>2, <1>3, <1>4, <1>5, <2>1
    <3>2. n = [s.count EXCEPT ![a] = s.count[a] - r.n, ![b] = s.count[b] + r.n]
      BY DEF Stack
    <3> HIDE DEF n, a, b
    <3> QED BY <3>1, <3>2, BothChange
  <2>3. e = [bags |-> s.bags, count |-> n]
    BY <1>6 DEF After
  <2> HIDE DEF n, e, max
  <2>4. n[a] >= 1 /\ n[a] <= max /\ n[b] >= 1 /\ n[b] <= max
    BY <1>1, <1>4, <1>5, <2>1, <2>2
  <2>5. \A i \in InBags(s.bags) : n[i] >= 1 /\ n[i] <= MaxStack[KindOf[i]]
    BY <1>3, <1>5, <2>1, <2>2, <2>4 DEF max
  <2>6. \A i \in Items \ InBags(s.bags) : n[i] = s.count[i]
    BY <1>2, <1>5, <2>1, <2>2
  <2>7. OkState(e)
    BY <2>2, <2>3, <2>5, <2>6, RecountIsOk
  <2> QED BY <2>7 DEF e
<1>7. CASE r.op = "swap" /\ ~CanStack(s.count, a, b)
  <2> DEFINE g == SwapCells(s.bags, r.src, r.dst)
  <2>1. Fits(a, r.dst) /\ Fits(b, r.src)
    BY <1>7 DEF Honourable
  <2>2. /\ g \in [Cells -> Items \cup {None}] /\ g[r.src] = b /\ g[r.dst] = a
        /\ \A c \in Cells \ {r.src, r.dst} : g[c] = s.bags[c]
    BY <1>1, <1>2, OkCells DEF SwapCells
  <2>3. e.bags = g /\ e.count = s.count
    BY <1>7 DEF After
  <2> HIDE DEF g, e, a, b
  <2>4. \A c \in Cells : Fits(g[c], c)
    BY <1>1, <2>1, <2>2, OkCells
  <2>5. \A c, d \in Cells : g[c] = g[d] /\ g[c] # None => c = d
    BY <1>1, <2>2, OkCells DEF a, b
  <2>6. InBags(g) = InBags(s.bags)
    <3>1. DOMAIN g = Cells /\ DOMAIN s.bags = Cells
      BY <2>2, OkCells
    <3>2. \A c \in Cells : \E d \in Cells : g[c] = s.bags[d]
      BY <1>1, <2>2 DEF a, b
    <3>3. \A c \in Cells : \E d \in Cells : s.bags[c] = g[d]
      BY <1>1, <2>2 DEF a, b
    <3> QED BY <3>1, <3>2, <3>3 DEF InBags
  <2>7. OkState(e)
    <3>1. g \in Layouts
      BY <2>2, <2>4, <2>5 DEF Layouts
    <3> QED BY <2>3, <2>6, <3>1 DEF OkState
  <2> QED BY <2>7 DEF e
<1>8. CASE r.op = "swap" /\ CanStack(s.count, a, b) /\ s.count[a] + s.count[b] <= max
  <2> DEFINE g == [s.bags EXCEPT ![r.src] = None]
             n == [s.count EXCEPT ![a] = 0, ![b] = s.count[a] + s.count[b]]
  <2>1. e = [bags |-> g, count |-> n]
    BY <1>8 DEF After
  <2>2. /\ g \in [Cells -> Items \cup {None}] /\ g[r.src] = None
        /\ \A c \in Cells \ {r.src} : g[c] = s.bags[c]
    BY <1>1, OkCells
  <2>3. n \in [Items -> Nat] /\ n[a] = 0 /\ n[b] = s.count[a] + s.count[b]
        /\ \A i \in Items \ {a, b} : n[i] = s.count[i]
    <3>1. /\ s.count \in [Items -> Nat] /\ a \in Items /\ b \in Items /\ a # b
          /\ 0 \in Nat /\ s.count[a] + s.count[b] \in Nat
      BY <1>2, <1>3, <1>4, <1>5, <1>8
    <3> HIDE DEF a, b
    <3> QED BY <3>1, BothChange
  <2> HIDE DEF g, n, e, a, b, max
  <2>4. InBags(g) = InBags(s.bags) \ {a}
    <3>1. DOMAIN g = Cells /\ DOMAIN s.bags = Cells
      BY <2>2, OkCells
    <3>2. \A c \in Cells : g[c] # None => g[c] # a /\ g[c] = s.bags[c]
      BY <1>1, <2>2, OkCells DEF a
    <3>3. \A c \in Cells : s.bags[c] # None /\ s.bags[c] # a => g[c] = s.bags[c]
      BY <2>2 DEF a
    <3> QED BY <3>1, <3>2, <3>3 DEF InBags
  <2>5. g \in Layouts
    <3>1. \A c \in Cells : Fits(g[c], c)
      BY <2>2, OkCells DEF Fits
    <3>2. \A c, d \in Cells : g[c] = g[d] /\ g[c] # None => c = d
      BY <2>2, OkCells
    <3> QED BY <2>2, <3>1, <3>2 DEF Layouts
  <2>6. n[b] >= 1 /\ n[b] <= MaxStack[KindOf[b]]
    BY <1>4, <1>5, <1>8, <2>3 DEF max
  <2>7. \A i \in InBags(g) : n[i] >= 1 /\ n[i] <= MaxStack[KindOf[i]]
    BY <1>3, <2>3, <2>4, <2>6
  <2>8. \A i \in Items \ InBags(g) : n[i] = 0
    BY <1>2, <1>5, <1>8, <2>3, <2>4 DEF OkState
  <2>9. e.bags = g /\ e.count = n
    BY <2>1
  <2>10. OkState(e)
    BY <2>3, <2>5, <2>7, <2>8, <2>9 DEF OkState
  <2> QED BY <2>10 DEF e
<1>9. CASE r.op = "swap" /\ CanStack(s.count, a, b) /\ ~(s.count[a] + s.count[b] <= max)
  <2> DEFINE n == [s.count EXCEPT ![a] = (s.count[a] + s.count[b]) - max, ![b] = max]
  <2>1. e = [bags |-> s.bags, count |-> n]
    BY <1>9 DEF After
  <2>2. /\ (s.count[a] + s.count[b]) - max \in 1..max
        /\ (s.count[a] + s.count[b]) - max \in Nat /\ max \in Nat /\ 1 <= max
    BY <1>4, <1>5, <1>9
  <2>3. n \in [Items -> Nat] /\ n[a] = (s.count[a] + s.count[b]) - max /\ n[b] = max
        /\ \A i \in Items \ {a, b} : n[i] = s.count[i]
    BY <1>2, <1>3, <1>5, <1>9, <2>2
  <2> HIDE DEF n, e, a, b, max
  <2>4. n[a] >= 1 /\ n[a] <= max /\ n[b] >= 1 /\ n[b] <= max
    BY <2>2, <2>3
  <2>5. \A i \in InBags(s.bags) : n[i] >= 1 /\ n[i] <= MaxStack[KindOf[i]]
    BY <1>3, <1>5, <1>9, <2>3, <2>4 DEF max
  <2>6. \A i \in Items \ InBags(s.bags) : n[i] = s.count[i]
    BY <1>2, <1>5, <1>9, <2>3
  <2>7. OkState(e)
    BY <2>1, <2>3, <2>5, <2>6, RecountIsOk
  <2> QED BY <2>7 DEF e
<1> QED BY <1>1, <1>6, <1>7, <1>8, <1>9

(* What the server did with the request it honoured. *)
LEMMA HonouredIs ==
  ASSUME OkState(Now), wire \in Seq(Requests), Honoured
  PROVE  /\ wire # <<>> /\ Request \in Requests /\ wire' = Tail(wire)
         /\ Honourable(Now, Request) /\ Now' = After(Now, Request)
         /\ Show(bags', count')
         /\ UNCHANGED <<moves, sorter, rest>>
<1> DEFINE a == bags[Request.src]
           b == bags[Request.dst]
<1>1. /\ wire # <<>> /\ wire' = Tail(wire) /\ UNCHANGED <<moves, sorter, rest>>
  BY DEF Honoured, AnswerMerge, AnswerSwap, AnswerSplit
<1>2. Request \in Requests
  BY <1>1 DEF Request
<1>3. /\ Request.src \in Cells /\ Request.dst \in Cells /\ Request.src # Request.dst
      /\ Request.op \in {"swap", "split"}
  BY <1>2 DEF Requests
<1>4. Now.bags = bags /\ Now.count = count /\ Now' = [bags |-> bags', count |-> count']
  BY DEF Now
<1>5. CanMerge(a, b) <=> CanStack(count, a, b)
  BY DEF CanMerge, CanStack
<1>6. bags \in [Cells -> Items \cup {None}] /\ count \in [Items -> Nat]
      /\ (a # None => a \in Items) /\ (b # None => b \in Items) /\ (a # None => a # b)
  <2>1. /\ bags \in [Cells -> Items \cup {None}]
        /\ \A c, d \in Cells : bags[c] = bags[d] /\ bags[c] # None => c = d
    BY <1>4, OkCells
  <2>2. count \in [Items -> Nat]
    BY <1>4 DEF OkState
  <2> QED BY <1>3, <2>1, <2>2
<1>7. CASE AnswerMerge
  <2>1. Request.op = "swap" /\ CanMerge(a, b)
    BY <1>7, Zenon DEF AnswerMerge
  <2> HIDE DEF a, b
  <2>2. Honourable(Now, Request)
    BY <1>4, <1>5, <2>1 DEF Honourable, CanStack, a, b
  <2>3. CASE count[a] + count[b] <= MaxStack[KindOf[a]]
    <3>1. Show([bags EXCEPT ![Request.src] = None], [count EXCEPT ![a] = 0, ![b] = count[a] + count[b]])
      BY <1>7, <2>3, Zenon DEF AnswerMerge, a, b
    <3>2. bags' = [bags EXCEPT ![Request.src] = None] /\ count' = [count EXCEPT ![a] = 0, ![b] = count[a] + count[b]]
      BY <3>1 DEF Show
    <3>3. After(Now, Request) = [bags |-> [bags EXCEPT ![Request.src] = None], count |-> [count EXCEPT ![a] = 0, ![b] = count[a] + count[b]]]
      BY <1>4, <1>5, <2>1, <2>3 DEF After, a, b
    <3> QED BY <1>1, <1>2, <1>4, <2>2, <3>1, <3>2, <3>3
  <2>4. CASE ~(count[a] + count[b] <= MaxStack[KindOf[a]])
    <3>1. Show(bags, [count EXCEPT ![a] = (count[a] + count[b]) - MaxStack[KindOf[a]], ![b] = MaxStack[KindOf[a]]])
      BY <1>7, <2>4, Zenon DEF AnswerMerge, a, b
    <3>2. bags' = bags /\ count' = [count EXCEPT ![a] = (count[a] + count[b]) - MaxStack[KindOf[a]], ![b] = MaxStack[KindOf[a]]]
      BY <3>1 DEF Show
    <3> DEFINE u == [count EXCEPT ![a] = (count[a] + count[b]) - MaxStack[KindOf[a]], ![b] = MaxStack[KindOf[a]]]
    <3>3. After(Now, Request) = [bags |-> bags, count |-> u]
      <4>1. ~(Request.op = "split") /\ CanStack(count, a, b)
        BY <1>5, <2>1
      <4>2. a = bags[Request.src] /\ b = bags[Request.dst]
        BY DEF a, b
      <4>3. After(Now, Request) = [bags |-> bags,
                                   count |-> [count EXCEPT ![a] = (count[a] + count[b]) - MaxStack[KindOf[a]],
                                                           ![b] = MaxStack[KindOf[a]]]]
        BY <1>4, <2>4, <4>1, <4>2 DEF After
      <4> QED BY <4>3
    <3> QED BY <1>1, <1>2, <1>4, <2>2, <3>1, <3>2, <3>3
  <2> QED BY <2>3, <2>4
<1>8. CASE AnswerSwap
  <2> DEFINE g == [bags EXCEPT ![Request.src] = b, ![Request.dst] = a]
  <2>1. Request.op = "swap" /\ a # None /\ ~CanMerge(a, b) /\ Fits(a, Request.dst) /\ Fits(b, Request.src)
        /\ Show(g, count)
    BY <1>8, Zenon DEF AnswerSwap
  <2>2. bags' = g /\ count' = count
    BY <2>1 DEF Show
  <2>3. Honourable(Now, Request)
    BY <1>4, <1>5, <2>1 DEF Honourable
  <2>4. After(Now, Request) = [bags |-> g, count |-> count]
    BY <1>4, <1>5, <2>1 DEF After, SwapCells
  <2> QED BY <1>1, <1>2, <1>4, <2>1, <2>2, <2>3, <2>4
<1>9. CASE AnswerSplit
  <2> DEFINE n == Stack(count, a, b, Request.n)
  <2>1. /\ Request.op = "split" /\ CanMerge(a, b) /\ count[a] > Request.n
        /\ count[b] + Request.n <= MaxStack[KindOf[b]]
        /\ Show(bags, [count EXCEPT ![a] = @ - Request.n, ![b] = @ + Request.n])
    BY <1>9, Zenon DEF AnswerSplit
  <2>2. [count EXCEPT ![a] = @ - Request.n, ![b] = @ + Request.n] = n
    BY <1>5, <1>6, <2>1 DEF Stack, CanStack
  <2> HIDE DEF n
  <2>3. bags' = bags /\ count' = n /\ Show(bags, n)
    BY <2>1, <2>2 DEF Show
  <2>4. Honourable(Now, Request)
    BY <1>4, <1>5, <2>1 DEF Honourable, CanStack
  <2>5. After(Now, Request) = [bags |-> bags, count |-> n]
    BY <1>4, <2>1 DEF After, n
  <2> QED BY <1>1, <1>2, <1>4, <2>3, <2>4, <2>5
<1> QED BY <1>7, <1>8, <1>9 DEF Honoured

-----------------------------------------------------------------------------
(* Pouring one stack into another. *)

(* The bags once the items without a count are gone, and the state they are in. *)
Poured(b, n) == [c \in DOMAIN b |-> IF b[c] # None /\ n[b[c]] = 0 THEN None ELSE b[c]]
PouredState(s, n) == [bags |-> Poured(s.bags, n), count |-> n]

LEMMA PouredAt ==
  ASSUME NEW s, OkState(s), NEW n
  PROVE  /\ DOMAIN Poured(s.bags, n) = Cells
         /\ Poured(s.bags, n) = [c \in Cells |-> Poured(s.bags, n)[c]]
         /\ \A c \in Cells : Poured(s.bags, n)[c] = IF s.bags[c] # None /\ n[s.bags[c]] = 0 THEN None ELSE s.bags[c]
<1>1. DOMAIN s.bags = Cells
  BY OkCells
<1> QED BY <1>1 DEF Poured

(* A stack whose count is poured out leaves its cell. *)
LEMMA PouredCell ==
  ASSUME NEW s, OkState(s), NEW n, NEW c \in Cells
  PROVE  Poured(s.bags, n)[c] = IF s.bags[c] # None /\ n[s.bags[c]] = 0 THEN None ELSE s.bags[c]
  BY PouredAt

LEMMA NothingPoured ==
  ASSUME NEW s, OkState(s)
  PROVE  /\ Poured(s.bags, s.count) = s.bags
         /\ s = [bags |-> s.bags, count |-> s.count] => PouredState(s, s.count) = s
<1>1. s.bags \in [Cells -> Items \cup {None}]
  BY OkCells
<1>2. \A c \in Cells : s.bags[c] # None => s.count[s.bags[c]] # 0
  BY OkCells DEF OkState
<1>3. \A c \in Cells : Poured(s.bags, s.count)[c] = s.bags[c]
  BY <1>2, PouredAt
<1>4. Poured(s.bags, s.count) = s.bags
  BY <1>1, <1>3, PouredAt
<1> QED BY <1>4 DEF PouredState

(* The whole of a goes into b. *)
LEMMA PourOut ==
  ASSUME NEW s, OkState(s), NEW n \in [Items -> Nat], NEW m \in [Items -> Nat],
         NEW a \in Items, NEW b \in Items, a # b, KindOf[a] = KindOf[b],
         NEW c \in Cells, NEW d \in Cells, s.bags[c] = a, s.bags[d] = b,
         n[a] >= 1, n[b] >= 1, n[b] < MaxStack[KindOf[b]], n[a] + n[b] <= MaxStack[KindOf[b]],
         m[a] = 0, m[b] = n[a] + n[b], \A i \in Items \ {a, b} : m[i] = n[i]
  PROVE  /\ Swap(c, d) \in Requests
         /\ Honourable(PouredState(s, n), Swap(c, d)) /\ Manner("pour", PouredState(s, n), Swap(c, d))
         /\ After(PouredState(s, n), Swap(c, d)) = PouredState(s, m)
<1> DEFINE r == Swap(c, d)
           e == PouredState(s, n)
<1>1. r.op = "swap" /\ r.src = c /\ r.dst = d /\ r.n = 0 /\ r = [op |-> "swap", src |-> c, dst |-> d, n |-> 0]
  BY DEF Swap
<1>2. c # d
  OBVIOUS
<1>3. r \in Requests
  BY <1>1, <1>2 DEF Requests
<1>4. e.bags = Poured(s.bags, n) /\ e.count = n
  BY DEF PouredState
<1>5. a # None /\ b # None
  BY SortPlanAssumption
<1>6. e.bags[c] = a /\ e.bags[d] = b
  <2>1. n[a] \in Nat /\ n[b] \in Nat /\ n[a] # 0 /\ n[b] # 0
    OBVIOUS
  <2> QED BY <1>4, <1>5, <2>1, PouredCell
<1> HIDE DEF r, e
<1>7. CanStack(n, a, b)
  BY <1>5 DEF CanStack
<1>8. Honourable(e, r) /\ Manner("pour", e, r)
  BY <1>1, <1>4, <1>5, <1>6, <1>7 DEF Honourable, Manner, Pours
<1>9. After(e, r) = [bags |-> [e.bags EXCEPT ![c] = None], count |-> [n EXCEPT ![a] = 0, ![b] = n[a] + n[b]]]
  BY <1>1, <1>4, <1>6, <1>7 DEF After
<1>10. [n EXCEPT ![a] = 0, ![b] = n[a] + n[b]] = m
  OBVIOUS
<1>11. [e.bags EXCEPT ![c] = None] = Poured(s.bags, m)
  <2>1. /\ e.bags = [x \in Cells |-> Poured(s.bags, n)[x]]
        /\ Poured(s.bags, m) = [x \in Cells |-> Poured(s.bags, m)[x]]
    BY <1>4, PouredAt
  <2>2. ASSUME NEW x \in Cells PROVE [e.bags EXCEPT ![c] = None][x] = Poured(s.bags, m)[x]
    <3>0. Poured(s.bags, m)[x] = IF s.bags[x] # None /\ m[s.bags[x]] = 0 THEN None ELSE s.bags[x]
      BY PouredCell
    <3>1. e.bags[x] = IF s.bags[x] # None /\ n[s.bags[x]] = 0 THEN None ELSE s.bags[x]
      BY <1>4, PouredCell
    <3>2. [e.bags EXCEPT ![c] = None][x] = IF x = c THEN None ELSE e.bags[x]
      BY <2>1
    <3>3. CASE x = c
      BY <1>5, <3>0, <3>1, <3>2, <3>3
    <3>4. CASE x # c
      <4>1. s.bags[x] # a /\ s.bags[x] \in Items \cup {None}
        BY <3>4, <1>5, OkCells
      <4>2. s.bags[x] # None => (m[s.bags[x]] = 0 <=> n[s.bags[x]] = 0)
        <5>1. CASE s.bags[x] = b
          <6>1. n[a] \in Nat /\ n[b] \in Nat
            OBVIOUS
          <6> QED BY <5>1, <6>1
        <5>2. CASE s.bags[x] # b
          BY <4>1, <5>2
        <5> QED BY <5>1, <5>2
      <4> QED BY <3>0, <3>1, <3>2, <3>4, <4>2
    <3> QED BY <3>3, <3>4
  <2> QED BY <2>1, <2>2
<1>12. After(e, r) = PouredState(s, m)
  BY <1>9, <1>10, <1>11 DEF PouredState
<1> QED BY <1>3, <1>8, <1>12 DEF r, e

(* A part of a goes into b. *)
LEMMA PourSome ==
  ASSUME NEW s, OkState(s), NEW n \in [Items -> Nat], NEW m \in [Items -> Nat], NEW k \in Nat,
         NEW a \in Items, NEW b \in Items, a # b, KindOf[a] = KindOf[b],
         NEW c \in Cells, NEW d \in Cells, s.bags[c] = a, s.bags[d] = b,
         n[a] > k, n[b] >= 1, n[b] < MaxStack[KindOf[b]], n[b] + k <= MaxStack[KindOf[b]],
         m[a] = n[a] - k, m[b] = n[b] + k, \A i \in Items \ {a, b} : m[i] = n[i]
  PROVE  /\ Split(c, d, k) \in Requests
         /\ Honourable(PouredState(s, n), Split(c, d, k)) /\ Manner("pour", PouredState(s, n), Split(c, d, k))
         /\ After(PouredState(s, n), Split(c, d, k)) = PouredState(s, m)
<1> DEFINE r == Split(c, d, k)
           e == PouredState(s, n)
<1>1. r.op = "split" /\ r.src = c /\ r.dst = d /\ r.n = k /\ r = [op |-> "split", src |-> c, dst |-> d, n |-> k]
  BY DEF Split
<1>2. c # d
  OBVIOUS
<1>3. r \in Requests
  BY <1>1, <1>2 DEF Requests
<1>4. e.bags = Poured(s.bags, n) /\ e.count = n
  BY DEF PouredState
<1>5. a # None /\ b # None
  BY SortPlanAssumption
<1>6. e.bags[c] = a /\ e.bags[d] = b
  <2>1. n[a] \in Nat /\ n[b] \in Nat /\ n[a] # 0 /\ n[b] # 0
    OBVIOUS
  <2> QED BY <1>4, <1>5, <2>1, PouredCell
<1> HIDE DEF r, e
<1>7. CanStack(n, a, b)
  BY <1>5 DEF CanStack
<1>8. Honourable(e, r) /\ Manner("pour", e, r)
  BY <1>1, <1>4, <1>5, <1>6, <1>7 DEF Honourable, Manner, Pours
<1>9. After(e, r) = [bags |-> e.bags, count |-> Stack(n, a, b, k)]
  BY <1>1, <1>4, <1>6, <1>7 DEF After
<1>10. Stack(n, a, b, k) = m
  BY DEF Stack
<1>11. e.bags = Poured(s.bags, m)
  <2>1. /\ e.bags = [x \in Cells |-> Poured(s.bags, n)[x]]
        /\ Poured(s.bags, m) = [x \in Cells |-> Poured(s.bags, m)[x]]
    BY <1>4, PouredAt
  <2>2. ASSUME NEW i \in Items PROVE m[i] = 0 <=> n[i] = 0
    <3>1. n[a] \in Nat /\ n[b] \in Nat /\ n[a] - k # 0 /\ n[b] + k # 0 /\ n[a] # 0 /\ n[b] # 0
      OBVIOUS
    <3> QED BY <3>1
  <2>3. ASSUME NEW x \in Cells PROVE e.bags[x] = Poured(s.bags, m)[x]
    <3>1. s.bags[x] \in Items \cup {None}
      BY OkCells
    <3>2. /\ e.bags[x] = IF s.bags[x] # None /\ n[s.bags[x]] = 0 THEN None ELSE s.bags[x]
          /\ Poured(s.bags, m)[x] = IF s.bags[x] # None /\ m[s.bags[x]] = 0 THEN None ELSE s.bags[x]
      BY <1>4, PouredCell
    <3> QED BY <2>2, <3>1, <3>2
  <2> QED BY <2>1, <2>3
<1>12. After(e, r) = PouredState(s, m)
  BY <1>9, <1>10, <1>11 DEF PouredState
<1> QED BY <1>3, <1>8, <1>12 DEF r, e

-----------------------------------------------------------------------------
(* Pouring the stacks of a group. *)

AnyRequests == [op : {"swap", "split"}, src : Cells, dst : Cells, n : Int]

PourStates(stacks, at) ==
  [stacks : {stacks}, at : {at}, count : [Items -> Int], lo : 1..Len(stacks), hi : 1..Len(stacks),
   sent : Seq(AnyRequests)]

PourBegin(num, stacks, at) ==
  [stacks |-> stacks, at |-> at, count |-> num, lo |-> 1, hi |-> Len(stacks), sent |-> <<>>]

LEMMA PourStays ==
  ASSUME NEW stacks \in Seq(Items), NEW at, \A j \in 1..Len(stacks) : at[stacks[j]] \in Cells,
         NEW p \in PourStates(stacks, at), NEW max \in Int
  PROVE  PourStep(p, max) \in PourStates(stacks, at)
<1> DEFINE src == stacks[p.hi]
           dst == stacks[p.lo]
           space == max - p.count[dst]
           whole == space >= p.count[src]
           moved == IF whole THEN p.count[src] ELSE space
           num == [p.count EXCEPT ![dst] = @ + moved, ![src] = @ - moved]
           sent == Append(p.sent, IF whole THEN Swap(at[src], at[dst]) ELSE Split(at[src], at[dst], moved))
<1>1. /\ p = [stacks |-> stacks, at |-> at, count |-> p.count, lo |-> p.lo, hi |-> p.hi, sent |-> p.sent]
      /\ p.stacks = stacks /\ p.at = at /\ p.count \in [Items -> Int]
      /\ p.lo \in 1..Len(stacks) /\ p.hi \in 1..Len(stacks) /\ p.sent \in Seq(AnyRequests)
  BY DEF PourStates
<1>2. src \in Items /\ dst \in Items /\ at[src] \in Cells /\ at[dst] \in Cells
  BY <1>1
<1>3. moved \in Int /\ num \in [Items -> Int]
  <2>1. p.count[src] \in Int /\ p.count[dst] \in Int
    BY <1>1, <1>2
  <2>2. moved \in Int
    BY <2>1
  <2> HIDE DEF moved, src, dst
  <2> QED BY <1>1, <1>2, <2>2
<1> HIDE DEF num, moved, space, src, dst
<1>4. sent \in Seq(AnyRequests)
  <2>1. Swap(at[src], at[dst]) \in AnyRequests /\ Split(at[src], at[dst], moved) \in AnyRequests
    BY <1>2, <1>3 DEF Swap, Split, AnyRequests
  <2> QED BY <1>1, <2>1
<1> HIDE DEF sent
<1>5. PourStep(p, max) =
        IF p.lo >= p.hi THEN p
        ELSE IF space <= 0 THEN [p EXCEPT !.lo = @ + 1]
        ELSE [p EXCEPT !.count = num, !.sent = sent,
                       !.hi = IF whole THEN @ - 1 ELSE @, !.lo = IF whole THEN @ ELSE @ + 1]
  BY <1>1 DEF PourStep, num, sent, moved, space, src, dst
<1>6. CASE p.lo >= p.hi
  BY <1>5, <1>6
<1>7. CASE p.lo < p.hi
  <2>1. p.lo + 1 \in 1..Len(stacks) /\ p.hi - 1 \in 1..Len(stacks) /\ ~(p.lo >= p.hi)
    BY <1>1, <1>7
  <2> DEFINE Turn(n, l, h, w) == [stacks |-> stacks, at |-> at, count |-> n, lo |-> l, hi |-> h, sent |-> w]
  <2>2. PourStep(p, max) \in {Turn(p.count, p.lo + 1, p.hi, p.sent), Turn(num, p.lo, p.hi - 1, sent),
                              Turn(num, p.lo + 1, p.hi, sent)}
    <3> HIDE DEF whole
    <3> QED BY <1>1, <1>5, <2>1
  <2>3. \A n \in [Items -> Int], l, h \in 1..Len(stacks), w \in Seq(AnyRequests) :
          Turn(n, l, h, w) \in PourStates(stacks, at)
    BY DEF PourStates
  <2> HIDE DEF whole, Turn
  <2>4. /\ Turn(p.count, p.lo + 1, p.hi, p.sent) \in PourStates(stacks, at)
        /\ Turn(num, p.lo, p.hi - 1, sent) \in PourStates(stacks, at)
        /\ Turn(num, p.lo + 1, p.hi, sent) \in PourStates(stacks, at)
    BY <1>1, <1>3, <1>4, <2>1, <2>3
  <2> QED BY <2>2, <2>4
<1> QED BY <1>1, <1>6, <1>7

(* The turns of the loop: what each begins with. *)
PourRun(run, stacks, at, num, max) ==
  /\ run[0] = PourBegin(num, stacks, at)
  /\ \A i \in 0..Len(stacks) : run[i] \in PourStates(stacks, at)
  /\ \A i \in 1..Len(stacks) : run[i] = PourStep(run[i - 1], max)
  /\ run[Len(stacks)] = Pour(num, stacks, at, max)

(* Filling one kind's stacks is a run with a state for each turn. *)
LEMMA PourRuns ==
  ASSUME NEW stacks \in Seq(Items), stacks # <<>>, NEW at, \A j \in 1..Len(stacks) : at[stacks[j]] \in Cells,
         NEW num \in [Items -> Int], NEW max \in Int
  PROVE  \E run : PourRun(run, stacks, at, num, max)
<1> DEFINE list == stacks
           N == Len(stacks)
           D == PourStates(stacks, at)
           q == PourBegin(num, stacks, at)
           T(p, i) == PourStep(p, max)
           step == [x \in D \X (1..N) |-> T(x[1], x[2])]
<1>1. N \in Nat /\ DOMAIN list = 1..N /\ q \in D
  BY DEF PourStates, PourBegin
<1>2. ASSUME NEW p \in D, NEW i \in 1..N PROVE T(p, i) \in D
  BY <1>2, PourStays
<1>fold. ASSUME NEW h, h = [w \in SUBSET DOMAIN list |-> IF w = {} THEN q ELSE T(h[w \ {Max(w)}], Max(w))]
         PROVE  \E g : /\ g = [w \in SUBSET DOMAIN list |-> IF w = {} THEN q ELSE T(g[w \ {Max(w)}], Max(w))]
                       /\ Pour(num, stacks, at, max) = g[DOMAIN list]
  BY <1>fold DEF Pour, PourBegin, FoldLeft, MapThenFoldSet
<1> HIDE DEF N, D, list, q, T
<1>3. step \in [D \X (1..N) -> D]
  BY <1>2
<1>4. \A p \in D, i \in 1..N : step[p, i] = T(p, i)
  OBVIOUS
<1>5. PICK f : Walks(f, N, D, q, step)
  <2> HIDE DEF step
  <2> QED BY <1>1, <1>3, WalkExists
<1>6. f = [w \in SUBSET DOMAIN list |-> IF w = {} THEN q ELSE T(f[w \ {Max(w)}], Max(w))]
  <2> HIDE DEF step, Max
  <2>1. \A w \in SUBSET (1..N) : w # {} => Max(w) \in 1..N
    BY <1>1, MaxIsIn
  <2>2. \A w \in SUBSET (1..N) : w # {} => step[f[w \ {Max(w)}], Max(w)] = T(f[w \ {Max(w)}], Max(w))
    <3>1. \A w \in SUBSET (1..N) : w \ {Max(w)} \in SUBSET (1..N)
      OBVIOUS
    <3>2. \A w \in SUBSET (1..N) : f[w] \in D
      BY <1>5 DEF Walks
    <3> QED BY <1>4, <3>1, <3>2, <2>1
  <2>3. /\ f \in [SUBSET (1..N) -> D]
        /\ \A w \in SUBSET (1..N) : f[w] = IF w = {} THEN q ELSE T(f[w \ {Max(w)}], Max(w))
    BY <1>5, <2>2 DEF Walks
  <2> QED BY <1>1, <2>3
<1>7. PICK h : /\ h = [w \in SUBSET DOMAIN list |-> IF w = {} THEN q ELSE T(h[w \ {Max(w)}], Max(w))]
               /\ Pour(num, stacks, at, max) = h[DOMAIN list]
  <2> HIDE DEF step, Max
  <2> QED BY <1>6, <1>fold
<1>8. h[{}] = q /\ \A i \in 1..N : h[1..i] = T(h[1..(i - 1)], i)
  <2> HIDE DEF Max
  <2>1. \A i \in 1..N : /\ Max(1..i) = i /\ (1..i) \ {Max(1..i)} = 1..(i - 1)
                        /\ 1..i \in SUBSET DOMAIN list /\ 1..i # {}
    <3> SUFFICES ASSUME NEW i \in 1..N
                 PROVE  /\ Max(1..i) = i /\ (1..i) \ {Max(1..i)} = 1..(i - 1)
                        /\ 1..i \in SUBSET DOMAIN list /\ 1..i # {}
      OBVIOUS
    <3>1. i \in Nat \ {0} /\ 1..i \in SUBSET (1..N) /\ i \in 1..i
      BY <1>1
    <3> QED BY <1>1, <3>1, MaxOfUpTo
  <2> QED BY <1>7, <2>1
<1> DEFINE run == [i \in 0..N |-> h[1..i]]
<1>9. run[0] = q /\ (\A i \in 1..N : run[i] = T(run[i - 1], i)) /\ run[N] = h[DOMAIN list]
  <2>1. 1..0 = {} /\ 0 \in 0..N /\ N \in 0..N /\ \A i \in 1..N : i \in 0..N /\ i - 1 \in 0..N
    BY <1>1
  <2> QED BY <1>1, <1>8, <2>1
<1> HIDE DEF run
<1>10. \A i \in 0..N : run[i] \in D
  <2> DEFINE S == {i \in 0..N : run[i] \in D}
  <2>1. 0 \in S /\ \A i \in 1..N : i - 1 \in S => i \in S
    BY <1>1, <1>2, <1>9
  <2>2. \A i \in 0..N : i \in S
    <3> HIDE DEF S
    <3> QED BY <1>1, <2>1, UpTo
  <2> QED BY <2>2
<1>11. PourRun(run, stacks, at, num, max)
  BY <1>1, <1>7, <1>9, <1>10 DEF PourRun, N, D, q, T, list
<1> QED BY <1>11

Between(cells) == {r \in Requests : r.src \in cells /\ r.dst \in cells}

LEMMA BetweenAre ==
  ASSUME NEW cells, NEW w \in Seq(Between(cells))
  PROVE  w \in Seq(Requests)
  BY DEF Between

(* The stacks up to lo are full, those from hi on are gone. *)
Filled(stacks, n, lo, hi, max) ==
  \A j \in 1..Len(stacks) : /\ j < lo => n[stacks[j]] = max
                            /\ j > hi => n[stacks[j]] = 0
                            /\ lo <= j /\ j <= hi => n[stacks[j]] \in 1..max

Others(stacks) == {i \in Items : \A j \in 1..Len(stacks) : stacks[j] # i}

Pouring(s, stacks, cells, max, p, t) ==
  /\ p.count \in [Items -> Nat]
  /\ p.lo <= p.hi
  /\ p.lo < p.hi => t <= (p.lo - 1) + (Len(stacks) - p.hi)
  /\ Filled(stacks, p.count, p.lo, p.hi, max)
  /\ \A i \in Others(stacks) : p.count[i] = s.count[i]
  /\ p.sent \in Seq(Between(cells))
  /\ Leads("pour", s, p.sent, PouredState(s, p.count))

(* The stacks of a kind where a state has them. *)
Stacked(s, stacks, cells, k, at) ==
  /\ OkState(s) /\ k \in Kinds /\ stacks \in Seq(Items)
  /\ \A i, j \in 1..Len(stacks) : stacks[i] = stacks[j] => i = j
  /\ \A j \in 1..Len(stacks) : /\ KindOf[stacks[j]] = k
                               /\ at[stacks[j]] \in Cells /\ at[stacks[j]] \in cells
                               /\ s.bags[at[stacks[j]]] = stacks[j]

(* One turn of the two ends keeps what is true of the pouring. *)
LEMMA PouringGoesOn ==
  ASSUME NEW s, NEW stacks, NEW cells, NEW k, NEW at, Stacked(s, stacks, cells, k, at),
         NEW p \in PourStates(stacks, at), NEW t \in Nat, Pouring(s, stacks, cells, MaxStack[k], p, t)
  PROVE  Pouring(s, stacks, cells, MaxStack[k], PourStep(p, MaxStack[k]), t + 1)
<1> DEFINE max == MaxStack[k]
           n == p.count
           src == stacks[p.hi]
           dst == stacks[p.lo]
           space == max - n[dst]
           whole == space >= n[src]
           moved == IF whole THEN n[src] ELSE space
           m == [n EXCEPT ![dst] = @ + moved, ![src] = @ - moved]
           r == IF whole THEN Swap(at[src], at[dst]) ELSE Split(at[src], at[dst], moved)
           q == PourStep(p, max)
           len == Len(stacks)
<1>1. /\ p = [stacks |-> stacks, at |-> at, count |-> n, lo |-> p.lo, hi |-> p.hi, sent |-> p.sent]
      /\ p.stacks = stacks /\ p.at = at /\ n \in [Items -> Nat]
      /\ p.lo \in 1..len /\ p.hi \in 1..len /\ p.sent \in Seq(Between(cells)) /\ p.lo <= p.hi
  BY DEF PourStates, Pouring
<1>2. len \in Nat /\ max \in Nat \ {0} /\ OkState(s)
  BY SortPlanAssumption DEF Stacked
<1>3. /\ src \in Items /\ dst \in Items /\ KindOf[src] = k /\ KindOf[dst] = k
      /\ at[src] \in Cells /\ at[dst] \in Cells /\ at[src] \in cells /\ at[dst] \in cells
      /\ s.bags[at[src]] = src /\ s.bags[at[dst]] = dst
  BY <1>1 DEF Stacked
<1>4. /\ Filled(stacks, n, p.lo, p.hi, max) /\ \A i \in Others(stacks) : n[i] = s.count[i]
      /\ Leads("pour", s, p.sent, PouredState(s, n))
      /\ p.lo < p.hi => t <= (p.lo - 1) + (len - p.hi)
  BY DEF Pouring
<1>5. q = IF p.lo >= p.hi THEN p
          ELSE IF space <= 0 THEN [p EXCEPT !.lo = @ + 1]
          ELSE [p EXCEPT !.count = m, !.sent = Append(p.sent, r),
                         !.hi = IF whole THEN @ - 1 ELSE @, !.lo = IF whole THEN @ ELSE @ + 1]
  BY <1>1 DEF PourStep
<1>6. n[src] \in 1..max /\ n[dst] \in 1..max
  BY <1>1, <1>4 DEF Filled
<1> HIDE DEF q, n, max, len
<1>7. CASE p.lo >= p.hi
  <2>1. q = p /\ ~(p.lo < p.hi)
    BY <1>1, <1>2, <1>5, <1>7
  <2> QED BY <1>1, <1>4, <2>1 DEF Pouring, q, n, max, len
<1>8. CASE p.lo < p.hi /\ space <= 0
  <2>1. q = [p EXCEPT !.lo = @ + 1]
    BY <1>1, <1>2, <1>5, <1>8
  <2>2. q.lo = p.lo + 1 /\ q.hi = p.hi /\ q.count = n /\ q.sent = p.sent
    BY <1>1, <2>1
  <2>3. n[dst] = max
    BY <1>2, <1>6, <1>8
  <2>4. Filled(stacks, n, p.lo + 1, p.hi, max)
    <3> SUFFICES ASSUME NEW j \in 1..len
                 PROVE  /\ j < p.lo + 1 => n[stacks[j]] = max
                        /\ j > p.hi => n[stacks[j]] = 0
                        /\ p.lo + 1 <= j /\ j <= p.hi => n[stacks[j]] \in 1..max
      BY DEF Filled, len
    <3>1. /\ j < p.lo => n[stacks[j]] = max
          /\ j > p.hi => n[stacks[j]] = 0
          /\ p.lo <= j /\ j <= p.hi => n[stacks[j]] \in 1..max
      BY <1>4 DEF Filled, len
    <3>2. j = p.lo => n[stacks[j]] = max
      BY <2>3
    <3> HIDE DEF src, dst
    <3> QED BY <1>1, <1>2, <3>1, <3>2
  <2>5. q.lo <= q.hi /\ (q.lo < q.hi => t + 1 <= (q.lo - 1) + (len - q.hi))
    BY <1>1, <1>2, <1>4, <1>8, <2>2
  <2> HIDE DEF src, dst, space
  <2> QED BY <1>1, <1>4, <2>2, <2>4, <2>5 DEF Pouring, q, max, len
<1>9. CASE p.lo < p.hi /\ space > 0
  <2>1. q = [p EXCEPT !.count = m, !.sent = Append(p.sent, r),
                      !.hi = IF whole THEN @ - 1 ELSE @, !.lo = IF whole THEN @ ELSE @ + 1]
    BY <1>1, <1>2, <1>5, <1>6, <1>9
  <2>2. /\ q.count = m /\ q.sent = Append(p.sent, r)
        /\ q.lo = (IF whole THEN p.lo ELSE p.lo + 1) /\ q.hi = (IF whole THEN p.hi - 1 ELSE p.hi)
    <3> HIDE DEF m, r, whole, src, dst
    <3> QED BY <1>1, <2>1
  <2>3. src # dst
    <3>1. p.hi # p.lo /\ p.hi \in 1..Len(stacks) /\ p.lo \in 1..Len(stacks)
      BY <1>1, <1>9 DEF len
    <3> QED BY <3>1 DEF Stacked
  <2>4. moved \in Nat
    BY <1>2, <1>6, <1>9
  <2> HIDE DEF src, dst
  <2>5. /\ m[dst] = n[dst] + moved /\ m[src] = n[src] - moved
        /\ \A i \in Items \ {src, dst} : m[i] = n[i]
    <3> HIDE DEF moved
    <3> QED BY <1>1, <1>3, <2>3
  <2>6. /\ whole => m[src] = 0 /\ m[dst] = n[src] + n[dst] /\ n[src] + n[dst] <= max
        /\ ~whole => m[dst] = max /\ m[src] \in 1..max /\ n[dst] + moved = max /\ n[src] > moved
        /\ m[dst] \in 1..max /\ m[src] \in 0..max /\ n[dst] < max
    <3> HIDE DEF m
    <3> QED BY <1>2, <1>6, <1>9, <2>5
  <2>7. m \in [Items -> Nat]
    <3>1. n[dst] + moved \in Nat /\ n[src] - moved \in Nat
      <4> HIDE DEF m, moved
      <4> QED BY <1>6, <2>5, <2>6
    <3> HIDE DEF moved
    <3> QED BY <1>1, <1>3, <3>1
  <2> HIDE DEF m
  <2>8. Leads("pour", s, q.sent, PouredState(s, m)) /\ q.sent \in Seq(Between(cells))
    <3>1. /\ r \in Requests
          /\ Honourable(PouredState(s, n), r) /\ Manner("pour", PouredState(s, n), r)
          /\ After(PouredState(s, n), r) = PouredState(s, m)
      <4>1. CASE whole
        <5>1. r = Swap(at[src], at[dst])
          BY <4>1
        <5>2. n[src] >= 1 /\ n[dst] >= 1 /\ n[dst] < MaxStack[KindOf[dst]] /\ n[src] + n[dst] <= MaxStack[KindOf[dst]]
              /\ m[src] = 0 /\ m[dst] = n[src] + n[dst]
          BY <1>3, <1>6, <2>6, <4>1 DEF max
        <5>3. OkState(s) /\ n \in [Items -> Nat] /\ KindOf[src] = KindOf[dst]
          BY <1>1, <1>2, <1>3
        <5> HIDE DEF r, moved, whole, space
        <5>4. /\ Swap(at[src], at[dst]) \in Requests
              /\ Honourable(PouredState(s, n), Swap(at[src], at[dst]))
              /\ Manner("pour", PouredState(s, n), Swap(at[src], at[dst]))
              /\ After(PouredState(s, n), Swap(at[src], at[dst])) = PouredState(s, m)
          BY <1>3, <2>3, <2>5, <2>7, <5>2, <5>3, PourOut
        <5> QED BY <5>1, <5>4
      <4>2. CASE ~whole
        <5>1. r = Split(at[src], at[dst], moved)
          BY <4>2
        <5>2. n[src] > moved /\ n[dst] >= 1 /\ n[dst] < MaxStack[KindOf[dst]] /\ n[dst] + moved <= MaxStack[KindOf[dst]]
          <6> HIDE DEF moved
          <6> QED BY <1>2, <1>3, <1>6, <2>4, <2>6, <4>2 DEF max
        <5>3. OkState(s) /\ n \in [Items -> Nat] /\ KindOf[src] = KindOf[dst]
          BY <1>1, <1>2, <1>3
        <5> HIDE DEF r, moved, whole, space
        <5>4. /\ Split(at[src], at[dst], moved) \in Requests
              /\ Honourable(PouredState(s, n), Split(at[src], at[dst], moved))
              /\ Manner("pour", PouredState(s, n), Split(at[src], at[dst], moved))
              /\ After(PouredState(s, n), Split(at[src], at[dst], moved)) = PouredState(s, m)
          BY <1>3, <2>3, <2>4, <2>5, <2>7, <5>2, <5>3, PourSome, SMTT(30)
        <5> QED BY <5>1, <5>4
      <4> QED BY <4>1, <4>2
    <3>2. r.src = at[src] /\ r.dst = at[dst]
      BY DEF Swap, Split
    <3> HIDE DEF r
    <3>3. r \in Between(cells)
      BY <1>3, <3>1, <3>2 DEF Between
    <3>4. q.sent \in Seq(Between(cells))
      BY <1>1, <2>2, <3>3
    <3>5. Leads("pour", s, Append(p.sent, r), PouredState(s, m))
      BY <1>1, <1>4, <3>1, BetweenAre, LeadsOn
    <3> QED BY <2>2, <3>4, <3>5
  <2> HIDE DEF r
  <2>9. Filled(stacks, m, q.lo, q.hi, max)
    <3> SUFFICES ASSUME NEW j \in 1..len
                 PROVE  /\ j < q.lo => m[stacks[j]] = max
                        /\ j > q.hi => m[stacks[j]] = 0
                        /\ q.lo <= j /\ j <= q.hi => m[stacks[j]] \in 1..max
      BY DEF Filled, len
    <3>1. /\ j < p.lo => n[stacks[j]] = max
          /\ j > p.hi => n[stacks[j]] = 0
          /\ p.lo <= j /\ j <= p.hi => n[stacks[j]] \in 1..max
      BY <1>4 DEF Filled, len
    <3>2. (j = p.lo => stacks[j] = dst) /\ (j = p.hi => stacks[j] = src)
      BY DEF src, dst
    <3>3. j # p.lo /\ j # p.hi => m[stacks[j]] = n[stacks[j]]
      <4>1. j # p.lo /\ j # p.hi => stacks[j] # src /\ stacks[j] # dst /\ stacks[j] \in Items
        BY <1>1 DEF src, dst, len, Stacked
      <4> QED BY <2>5, <4>1
    <3> HIDE DEF moved, space
    <3>4. CASE whole
      <4>1. q.lo = p.lo /\ q.hi = p.hi - 1
        BY <2>2, <3>4
      <4> HIDE DEF whole
      <4> QED BY <1>1, <1>2, <1>9, <2>6, <3>1, <3>2, <3>3, <3>4, <4>1
    <3>5. CASE ~whole
      <4>1. q.lo = p.lo + 1 /\ q.hi = p.hi
        BY <2>2, <3>5
      <4> HIDE DEF whole
      <4> QED BY <1>1, <1>2, <1>9, <2>6, <3>1, <3>2, <3>3, <3>5, <4>1
    <3> QED BY <3>4, <3>5
  <2>10. \A i \in Others(stacks) : m[i] = s.count[i]
    <3>1. \A i \in Others(stacks) : i \in Items \ {src, dst}
      BY <1>1 DEF Others, src, dst, len
    <3> QED BY <1>4, <2>5, <3>1
  <2>11. q.lo <= q.hi /\ (q.lo < q.hi => t + 1 <= (q.lo - 1) + (len - q.hi))
    <3>1. /\ p.lo \in Nat /\ p.hi \in Nat /\ p.lo < p.hi /\ len \in Nat
          /\ t <= (p.lo - 1) + (len - p.hi)
      BY <1>1, <1>2, <1>4, <1>9
    <3>2. \/ q.lo = p.lo /\ q.hi = p.hi - 1
          \/ q.lo = p.lo + 1 /\ q.hi = p.hi
      BY <2>2
    <3> HIDE DEF whole, space, moved
    <3> QED BY <3>1, <3>2
  <2> QED BY <2>2, <2>7, <2>8, <2>9, <2>10, <2>11 DEF Pouring, q, max, len
<1>10. n[dst] \in Int /\ max \in Int
  BY <1>2, <1>6
<1> QED BY <1>1, <1>7, <1>8, <1>9, <1>10

(* Requests lead from orderly states to orderly states. *)
LEMMA LeadsOk ==
  ASSUME NEW x, NEW s, OkState(s), NEW w \in Seq(Requests), NEW e, Leads(x, s, w, e)
  PROVE  OkState(e)
<1>1. PICK t : Trace(x, t, w) /\ t[0] = s /\ t[Len(w)] = e
  BY DEF Leads
<1> DEFINE n == Len(w)
           S == {k \in 0..n : OkState(t[k])}
<1>2. n \in Nat /\ 0 \in S
  BY <1>1
<1>3. ASSUME NEW k \in 1..n, k - 1 \in S PROVE k \in S
  <2>1. Honourable(t[k - 1], w[k]) /\ t[k] = After(t[k - 1], w[k]) /\ w[k] \in Requests
    BY <1>1 DEF Trace
  <2>2. OkState(t[k])
    BY <1>3, <2>1, AfterIsOk
  <2> QED BY <2>2
<1>4. \A k \in 0..n : k \in S
  <2> HIDE DEF S
  <2> QED BY <1>2, <1>3, UpTo
<1>5. n \in 0..n
  BY <1>2
<1> QED BY <1>1, <1>4, <1>5

(* Once poured, at most one stack of the kind is short of full. *)
Packed(n, items) ==
  \A i, j \in items : i # j /\ KindOf[i] = KindOf[j] /\ n[i] > 0 /\ n[j] > 0
                      => n[i] = MaxStack[KindOf[i]] \/ n[j] = MaxStack[KindOf[j]]

Loaded(s) == s = [bags |-> s.bags, count |-> s.count]

(* The group G has been poured. *)
PourDone(s, cells, G, p) ==
  /\ p.count \in [Items -> Nat] /\ p.sent \in Seq(Between(cells))
  /\ Leads("pour", s, p.sent, PouredState(s, p.count))
  /\ \A i \in Items \ G : p.count[i] = s.count[i]
  /\ Packed(p.count, G)

(* The end of a pouring: one stack at most is short of full. *)
LEMMA PourEnds ==
  ASSUME NEW s, Loaded(s), NEW stacks, stacks # <<>>, NEW cells, NEW k, NEW at, Stacked(s, stacks, cells, k, at),
         NEW G, Lists(stacks, G), NEW p, p = Pour(s.count, stacks, at, MaxStack[k])
  PROVE  PourDone(s, cells, G, p)
<1> DEFINE max == MaxStack[k]
           len == Len(stacks)
<1>1. /\ len \in Nat \ {0} /\ max \in Nat \ {0} /\ OkState(s) /\ stacks \in Seq(Items) /\ max \in Int
      /\ s.count \in [Items -> Nat] /\ s.count \in [Items -> Int]
      /\ \A j \in 1..len : at[stacks[j]] \in Cells
  <2>1. OkState(s) /\ stacks \in Seq(Items) /\ k \in Kinds /\ \A j \in 1..len : at[stacks[j]] \in Cells
    BY DEF Stacked
  <2>2. len \in Nat \ {0}
    BY <2>1
  <2>3. s.count \in [Items -> Nat]
    BY <2>1 DEF OkState
  <2>4. s.count \in [Items -> Int]
    BY <2>3
  <2> HIDE DEF len
  <2> QED BY <2>1, <2>2, <2>3, <2>4, SortPlanAssumption
<1>2. PICK run : PourRun(run, stacks, at, s.count, max)
  <2> HIDE DEF max, len
  <2> QED BY <1>1, PourRuns DEF len
<1> DEFINE S == {i \in 0..len : Pouring(s, stacks, cells, max, run[i], i)}
<1>3. 0 \in S
  <2> DEFINE q == PourBegin(s.count, stacks, at)
  <2>1. q.lo = 1 /\ q.hi = len /\ q.count = s.count /\ q.sent = <<>>
    BY DEF PourBegin
  <2>2. Filled(stacks, s.count, 1, len, max)
    <3> SUFFICES ASSUME NEW j \in 1..len PROVE s.count[stacks[j]] \in 1..max
      BY <1>1 DEF Filled
    <3>1. stacks[j] \in Items /\ KindOf[stacks[j]] = k /\ at[stacks[j]] \in Cells /\ s.bags[at[stacks[j]]] = stacks[j]
      BY DEF Stacked
    <3>2. stacks[j] \in InBags(s.bags)
      <4>1. stacks[j] # None
        BY <3>1, SortPlanAssumption
      <4> QED BY <1>1, <3>1, <4>1, OkCells
    <3>3. s.count[stacks[j]] >= 1 /\ s.count[stacks[j]] <= max /\ s.count[stacks[j]] \in Nat
      BY <1>1, <3>1, <3>2 DEF OkState
    <3> QED BY <1>1, <3>3
  <2>3. Leads("pour", s, <<>>, PouredState(s, s.count))
    BY <1>1, NothingPoured, LeadsNowhere DEF Loaded
  <2>4. <<>> \in Seq(Between(cells))
    OBVIOUS
  <2> HIDE DEF q, max, len
  <2>5. Pouring(s, stacks, cells, max, q, 0)
    BY <1>1, <2>1, <2>2, <2>3, <2>4 DEF Pouring, len
  <2>6. 0 \in 0..len /\ run[0] = q
    BY <1>1, <1>2 DEF PourRun, q
  <2> QED BY <2>5, <2>6
<1>4. ASSUME NEW i \in 1..len, i - 1 \in S PROVE i \in S
  <2>1. run[i - 1] \in PourStates(stacks, at) /\ run[i] = PourStep(run[i - 1], max) /\ i - 1 \in Nat
    BY <1>1, <1>2 DEF PourRun
  <2>2. Pouring(s, stacks, cells, max, run[i], (i - 1) + 1)
    <3> HIDE DEF len
    <3> QED BY <1>4, <2>1, PouringGoesOn
  <2> QED BY <2>2
<1>5. len \in S
  <2> HIDE DEF S
  <2>1. \A i \in 0..len : i \in S
    BY <1>1, <1>3, <1>4, UpTo
  <2> QED BY <1>1, <2>1
<1>6. p = run[len]
  BY <1>2 DEF PourRun
<1>7. Pouring(s, stacks, cells, max, p, len) /\ p \in PourStates(stacks, at)
  <2>1. len \in 0..len
    BY <1>1
  <2> QED BY <1>2, <1>5, <1>6, <2>1 DEF PourRun
<1>8. /\ p.lo \in 1..len /\ p.hi \in 1..len /\ Filled(stacks, p.count, p.lo, p.hi, max)
      /\ p.count \in [Items -> Nat] /\ p.sent \in Seq(Between(cells))
      /\ Leads("pour", s, p.sent, PouredState(s, p.count))
      /\ \A i \in Others(stacks) : p.count[i] = s.count[i]
  BY <1>7 DEF Pouring, PourStates
<1>9. p.lo = p.hi
  <2>1. p.lo <= p.hi /\ (p.lo < p.hi => len <= (p.lo - 1) + (len - p.hi))
    BY <1>7 DEF Pouring
  <2> HIDE DEF len
  <2> QED BY <1>1, <1>8, <2>1
<1>10. \A j \in 1..len : /\ j < p.lo => p.count[stacks[j]] = max
                         /\ j > p.lo => p.count[stacks[j]] = 0
                         /\ j = p.lo => p.count[stacks[j]] \in 1..max
  <2> SUFFICES ASSUME NEW j \in 1..len
               PROVE  /\ j < p.lo => p.count[stacks[j]] = max
                      /\ j > p.lo => p.count[stacks[j]] = 0
                      /\ j = p.lo => p.count[stacks[j]] \in 1..max
    OBVIOUS
  <2>1. /\ j < p.lo => p.count[stacks[j]] = max
        /\ j > p.hi => p.count[stacks[j]] = 0
        /\ p.lo <= j /\ j <= p.hi => p.count[stacks[j]] \in 1..max
    BY <1>8 DEF Filled
  <2>2. j = p.lo => p.lo <= j /\ j <= p.hi
    BY <1>8, <1>9
  <2> HIDE DEF max, len
  <2> QED BY <1>9, <2>1, <2>2
<1>12. Packed(p.count, {stacks[j] : j \in 1..len})
  <2> HIDE DEF len, max
  <2> SUFFICES ASSUME NEW i \in 1..len, NEW j \in 1..len, i # j, p.count[stacks[i]] > 0, p.count[stacks[j]] > 0
               PROVE  p.count[stacks[i]] = max \/ p.count[stacks[j]] = max
    <3>1. \A j \in 1..len : KindOf[stacks[j]] = k
      BY DEF Stacked, len
    <3> QED BY <3>1 DEF Packed, max
  <2>1. ~(i > p.lo) /\ ~(j > p.lo)
    BY <1>10
  <2>2. i < p.lo \/ j < p.lo
    BY <1>8, <2>1
  <2> QED BY <1>10, <2>2
<1>13. {stacks[j] : j \in 1..len} = G /\ \A i \in Items \ G : i \in Others(stacks)
  <2>1. /\ \A j \in 1..Len(stacks) : stacks[j] \in G
        /\ \A x \in G : \E j \in 1..Len(stacks) : stacks[j] = x
    BY DEF Lists
  <2> QED BY <2>1 DEF Others
<1>14. Packed(p.count, G)
  BY <1>12, <1>13
<1> QED BY <1>8, <1>13, <1>14 DEF PourDone

-----------------------------------------------------------------------------
(* Merging group by group. *)

LEMMA LeastOf ==
  ASSUME NEW S \in SUBSET Nat, S # {}
  PROVE  \E x \in S : \A y \in S : x <= y
<1>1. PICK m \in S : \A k \in S : ~(<<k, m>> \in OpToRel(<, Nat))
  BY WFMin, NatLessThanWellFounded
<1>2. ASSUME NEW k \in S, k < m PROVE FALSE
  <2>1. <<k, m>> \in OpToRel(<, Nat)
    BY <1>2 DEF OpToRel
  <2> QED BY <1>1, <2>1
<1>3. m \in S /\ \A k \in S : m <= k
  BY <1>2
<1> QED BY <1>3

LEMMA StartsAre ==
  ASSUME NEW b, NEW items \in SUBSET InBags(b), NEW i \in items
  PROVE  Starts(b, items)[i] \in DOMAIN b /\ b[Starts(b, items)[i]] = i
<1>1. \E c \in DOMAIN b : b[c] = i
  BY DEF InBags
<1>2. Slots(b, i) \in DOMAIN b /\ b[Slots(b, i)] = i
  BY <1>1 DEF Slots
<1> QED BY <1>2 DEF Starts

(* A state to merge the stacks of, as the planner sees it. *)
Mergers(s, cells, view, mergeable, tie) ==
  /\ IsFiniteSet(Cells)
  /\ OkState(s) /\ Loaded(s)
  /\ cells \subseteq Cells
  /\ view = [c \in cells |-> s.bags[c]]
  /\ mergeable \subseteq InBags(view)
  /\ tie \in [Items -> Nat] /\ \A a, b \in Items : tie[a] = tie[b] => a = b

LEMMA ViewIs ==
  ASSUME NEW s, OkState(s), NEW cells \in SUBSET Cells, NEW view, view = [c \in cells |-> s.bags[c]]
  PROVE  /\ DOMAIN view = cells /\ \A c \in cells : view[c] = s.bags[c]
         /\ InBags(view) \subseteq InBags(s.bags) /\ InBags(s.bags) \subseteq Items
         /\ \A i \in InBags(view) : \E c \in cells : s.bags[c] = i
         /\ \A c, d \in cells : view[c] = view[d] /\ view[c] # None => c = d
<1>1. /\ DOMAIN s.bags = Cells /\ InBags(s.bags) \subseteq Items
      /\ \A c, d \in Cells : s.bags[c] = s.bags[d] /\ s.bags[c] # None => c = d
  BY OkCells
<1> QED BY <1>1 DEF InBags

(* What a group is, from the head it is met by. *)
LEMMA GroupIs ==
  ASSUME NEW s, NEW cells, NEW view, NEW mergeable, NEW tie, Mergers(s, cells, view, mergeable, tie),
         NEW c \in Heads(view, mergeable),
         NEW k, k = KindOf[view[c]], NEW group, group = Group(mergeable, k),
         NEW stacks, stacks = Fullest(group, s.count, tie)
  PROVE  /\ c \in cells /\ view[c] \in group /\ group \subseteq Items /\ k \in Kinds
         /\ Lists(stacks, group) /\ stacks \in Seq(Items) /\ stacks # <<>>
         /\ \A i \in group : /\ KindOf[i] = k
                             /\ Starts(view, InBags(view))[i] \in cells
                             /\ s.bags[Starts(view, InBags(view))[i]] = i
<1>1. OkState(s) /\ cells \in SUBSET Cells /\ view = [d \in cells |-> s.bags[d]] /\ mergeable \subseteq InBags(view)
      /\ IsFiniteSet(Cells) /\ tie \in [Items -> Nat] /\ \A a, b \in Items : tie[a] = tie[b] => a = b
  BY DEF Mergers
<1>2. DOMAIN view = cells /\ InBags(view) \subseteq Items /\ \A d \in cells : view[d] = s.bags[d]
  BY <1>1, ViewIs
<1>3. c \in cells /\ view[c] \in mergeable
  BY <1>2 DEF Heads
<1>4. view[c] \in group /\ group \subseteq mergeable /\ \A i \in group : KindOf[i] = k
  BY <1>3 DEF Group
<1>5. group \subseteq InBags(view) /\ group \subseteq Items /\ view[c] \in Items
  BY <1>1, <1>2, <1>4
<1>6. k \in Kinds
  BY <1>5, SortPlanAssumption
<1>7. \A i \in group : /\ Starts(view, InBags(view))[i] \in cells
                       /\ s.bags[Starts(view, InBags(view))[i]] = i
  <2> SUFFICES ASSUME NEW i \in group
               PROVE  /\ Starts(view, InBags(view))[i] \in cells
                      /\ s.bags[Starts(view, InBags(view))[i]] = i
    OBVIOUS
  <2>1. i \in InBags(view)
    BY <1>5
  <2>2. Starts(view, InBags(view))[i] \in DOMAIN view /\ view[Starts(view, InBags(view))[i]] = i
    BY <2>1, StartsAre
  <2> QED BY <1>2, <2>2
<1>8. IsFiniteSet(group)
  <2>1. IsFiniteSet(cells)
    BY <1>1, FS_Subset
  <2> DEFINE f == [d \in cells |-> view[d]]
  <2>2. group \subseteq {f[d] : d \in cells}
    BY <1>2, <1>5 DEF InBags
  <2>3. IsFiniteSet({f[d] : d \in cells})
    <3>1. f \in [cells -> {f[d] : d \in cells}]
      OBVIOUS
    <3>2. f \in Surjection(cells, {f[d] : d \in cells})
      BY <3>1 DEF Surjection
    <3> QED BY <2>1, <3>2, FS_Surjection
  <2> QED BY <2>2, <2>3, FS_Subset
<1>9. s.count \in [Items -> Nat]
  BY <1>1 DEF OkState
<1>10. Lists(stacks, group)
  BY <1>1, <1>5, <1>8, <1>9, FullestIs
<1>11. stacks \in Seq(Items) /\ stacks # <<>>
  <2>1. stacks \in Seq(group) /\ \E n \in 1..Len(stacks) : stacks[n] = view[c]
    BY <1>4, <1>10 DEF Lists
  <2> QED BY <1>5, <2>1
<1> QED BY <1>3, <1>4, <1>5, <1>6, <1>7, <1>10, <1>11

MergeStates == [sent : Seq(AnyRequests), count : [Items -> Int]]

(* The group of a head is poured. *)
MergeStep(s, view, mergeable, tie, plan, c) ==
  PourGroup(plan, Group(mergeable, KindOf[view[c]]), MaxStack[KindOf[view[c]]],
            s.count, Starts(view, InBags(view)), tie)

LEMMA MergeStays ==
  ASSUME NEW s, NEW cells, NEW view, NEW mergeable, NEW tie, Mergers(s, cells, view, mergeable, tie),
         NEW c \in Heads(view, mergeable), NEW plan \in MergeStates
  PROVE  MergeStep(s, view, mergeable, tie, plan, c) \in MergeStates
<1> DEFINE k == KindOf[view[c]]
           group == Group(mergeable, k)
           stacks == Fullest(group, s.count, tie)
           at == Starts(view, InBags(view))
           p == Pour(plan.count, stacks, at, MaxStack[k])
<1>1. /\ stacks \in Seq(Items) /\ stacks # <<>> /\ k \in Kinds /\ Lists(stacks, group)
      /\ \A i \in group : at[i] \in cells
  BY GroupIs
<1>2. cells \subseteq Cells
  BY DEF Mergers
<1>3. \A j \in 1..Len(stacks) : at[stacks[j]] \in Cells
  <2>1. \A j \in 1..Len(stacks) : stacks[j] \in group
    BY <1>1 DEF Lists
  <2> HIDE DEF stacks, at, group
  <2> QED BY <1>1, <1>2, <2>1
<1>4. MaxStack[k] \in Int /\ plan.count \in [Items -> Int] /\ plan.sent \in Seq(AnyRequests)
  BY <1>1, SortPlanAssumption DEF MergeStates
<1> HIDE DEF stacks, at, group, k
<1>5. PICK run : PourRun(run, stacks, at, plan.count, MaxStack[k])
  BY <1>1, <1>3, <1>4, PourRuns
<1>6. p \in PourStates(stacks, at)
  <2>1. Len(stacks) \in 0..Len(stacks)
    BY <1>1
  <2> QED BY <1>5, <2>1 DEF PourRun
<1>7. p.sent \in Seq(AnyRequests) /\ p.count \in [Items -> Int]
  <2> HIDE DEF p
  <2> QED BY <1>6 DEF PourStates
<1>8. MergeStep(s, view, mergeable, tie, plan, c) = [sent |-> plan.sent \o p.sent, count |-> p.count]
  BY DEF MergeStep, PourGroup, stacks, at, group, k
<1> HIDE DEF p
<1>9. plan.sent \o p.sent \in Seq(AnyRequests)
  BY <1>4, <1>7
<1> QED BY <1>7, <1>8, <1>9 DEF MergeStates

LEMMA HeadsAre ==
  ASSUME NEW s, NEW cells, NEW view, NEW mergeable, NEW tie, Mergers(s, cells, view, mergeable, tie)
  PROVE  /\ Lists(Upward(Heads(view, mergeable)), Heads(view, mergeable))
         /\ Heads(view, mergeable) \subseteq cells
         /\ \A c, d \in Heads(view, mergeable) : KindOf[view[c]] = KindOf[view[d]] => c = d
         /\ \A i \in mergeable : \E c \in Heads(view, mergeable) : KindOf[view[c]] = KindOf[i]
<1>1. OkState(s) /\ cells \in SUBSET Cells /\ view = [d \in cells |-> s.bags[d]] /\ mergeable \subseteq InBags(view)
      /\ IsFiniteSet(Cells) /\ Cells \subseteq Nat
  BY SortPlanAssumption DEF Mergers
<1>2. DOMAIN view = cells
  BY <1>1, ViewIs
<1>3. Heads(view, mergeable) \subseteq cells
  BY <1>2 DEF Heads
<1>4. Heads(view, mergeable) \in SUBSET Nat /\ IsFiniteSet(Heads(view, mergeable))
  <2>1. Heads(view, mergeable) \in SUBSET Cells
    BY <1>1, <1>3
  <2> QED BY <1>1, <2>1, FS_Subset
<1>5. Lists(Upward(Heads(view, mergeable)), Heads(view, mergeable))
  BY <1>4, UpwardIs
<1>6. ASSUME NEW c \in Heads(view, mergeable), NEW d \in Heads(view, mergeable), KindOf[view[c]] = KindOf[view[d]]
      PROVE  c = d
  <2>1. view[c] \in Group(mergeable, KindOf[view[d]]) /\ view[d] \in Group(mergeable, KindOf[view[c]])
    BY <1>6 DEF Heads, Group
  <2>2. ~(c < d) /\ ~(d < c)
    BY <1>2, <1>3, <2>1 DEF Heads
  <2>3. c \in Nat /\ d \in Nat
    BY <1>4
  <2> QED BY <2>2, <2>3
<1>7. ASSUME NEW i \in mergeable
      PROVE  \E c \in Heads(view, mergeable) : KindOf[view[c]] = KindOf[i]
  <2> DEFINE S == {c \in cells : view[c] \in Group(mergeable, KindOf[i])}
  <2>1. S \in SUBSET Nat
    BY <1>1
  <2>2. S # {}
    <3>1. \E c \in cells : view[c] = i
      BY <1>1, <1>2 DEF InBags
    <3>2. i \in Group(mergeable, KindOf[i])
      BY DEF Group
    <3> QED BY <3>1, <3>2
  <2>3. PICK c \in S : \A d \in S : c <= d
    <3> HIDE DEF S
    <3> QED BY <2>1, <2>2, LeastOf
  <2>4. KindOf[view[c]] = KindOf[i] /\ view[c] \in mergeable
    BY DEF Group
  <2>5. \A d \in DOMAIN view : d < c => view[d] \notin Group(mergeable, KindOf[view[c]])
    <3> SUFFICES ASSUME NEW d \in cells, d < c, view[d] \in Group(mergeable, KindOf[view[c]]) PROVE FALSE
      BY <1>2
    <3>1. d \in S
      BY <2>4
    <3>2. c <= d /\ c \in Nat /\ d \in Nat
      <4> HIDE DEF S
      <4> QED BY <2>1, <2>3, <3>1
    <3> QED BY <3>2
  <2>6. c \in Heads(view, mergeable)
    BY <1>2, <2>4, <2>5 DEF Heads
  <2> QED BY <2>4, <2>6
<1> QED BY <1>3, <1>5, <1>6, <1>7

MergeRun(run, s, view, mergeable, tie) ==
  LET heads == Upward(Heads(view, mergeable))
  IN /\ run[0] = [sent |-> <<>>, count |-> s.count]
     /\ \A i \in 0..Len(heads) : run[i] \in MergeStates
     /\ \A i \in 1..Len(heads) : run[i] = MergeStep(s, view, mergeable, tie, run[i - 1], heads[i])
     /\ run[Len(heads)] = PourAll(view, s.count, mergeable, tie)

(* Merging kind after kind is a run with a state for each kind. *)
LEMMA MergeRuns ==
  ASSUME NEW s, NEW cells, NEW view, NEW mergeable, NEW tie, Mergers(s, cells, view, mergeable, tie)
  PROVE  \E run : MergeRun(run, s, view, mergeable, tie)
<1> DEFINE list == Upward(Heads(view, mergeable))
           N == Len(Upward(Heads(view, mergeable)))
           D == MergeStates
           q == [sent |-> <<>>, count |-> s.count]
           T(p, i) == MergeStep(s, view, mergeable, tie, p, list[i])
           step == [x \in D \X (1..N) |-> T(x[1], x[2])]
<1>1. N \in Nat /\ DOMAIN list = 1..N /\ q \in D
  <2>1. Upward(Heads(view, mergeable)) \in Seq(Heads(view, mergeable))
    BY HeadsAre DEF Lists
  <2>2. s.count \in [Items -> Int]
    BY DEF Mergers, OkState
  <2>3. <<>> \in Seq(AnyRequests)
    OBVIOUS
  <2> QED BY <2>1, <2>2, <2>3 DEF MergeStates
<1>2. ASSUME NEW p \in D, NEW i \in 1..N PROVE T(p, i) \in D
  <2>1. Upward(Heads(view, mergeable))[i] \in Heads(view, mergeable)
    BY HeadsAre DEF Lists
  <2> QED BY <1>2, <2>1, MergeStays
<1>fold. ASSUME NEW h, h = [w \in SUBSET DOMAIN list |-> IF w = {} THEN q ELSE T(h[w \ {Max(w)}], Max(w))]
         PROVE  \E g : /\ g = [w \in SUBSET DOMAIN list |-> IF w = {} THEN q ELSE T(g[w \ {Max(w)}], Max(w))]
                       /\ PourAll(view, s.count, mergeable, tie) = g[DOMAIN list]
  BY <1>fold DEF PourAll, MergeStep, FoldLeft, MapThenFoldSet
<1> HIDE DEF N, D, list, q, T
<1>3. step \in [D \X (1..N) -> D]
  BY <1>2
<1>4. \A p \in D, i \in 1..N : step[p, i] = T(p, i)
  OBVIOUS
<1>5. PICK f : Walks(f, N, D, q, step)
  <2> HIDE DEF step
  <2> QED BY <1>1, <1>3, WalkExists
<1>6. f = [w \in SUBSET DOMAIN list |-> IF w = {} THEN q ELSE T(f[w \ {Max(w)}], Max(w))]
  <2> HIDE DEF step, Max
  <2>1. \A w \in SUBSET (1..N) : w # {} => Max(w) \in 1..N
    BY <1>1, MaxIsIn
  <2>2. \A w \in SUBSET (1..N) : w # {} => step[f[w \ {Max(w)}], Max(w)] = T(f[w \ {Max(w)}], Max(w))
    <3>1. \A w \in SUBSET (1..N) : w \ {Max(w)} \in SUBSET (1..N)
      OBVIOUS
    <3>2. \A w \in SUBSET (1..N) : f[w] \in D
      BY <1>5 DEF Walks
    <3> QED BY <1>4, <3>1, <3>2, <2>1
  <2>3. /\ f \in [SUBSET (1..N) -> D]
        /\ \A w \in SUBSET (1..N) : f[w] = IF w = {} THEN q ELSE T(f[w \ {Max(w)}], Max(w))
    BY <1>5, <2>2 DEF Walks
  <2> QED BY <1>1, <2>3
<1>7. PICK h : /\ h = [w \in SUBSET DOMAIN list |-> IF w = {} THEN q ELSE T(h[w \ {Max(w)}], Max(w))]
               /\ PourAll(view, s.count, mergeable, tie) = h[DOMAIN list]
  <2> HIDE DEF step, Max
  <2> QED BY <1>6, <1>fold
<1>8. h[{}] = q /\ \A i \in 1..N : h[1..i] = T(h[1..(i - 1)], i)
  <2> HIDE DEF Max
  <2>1. \A i \in 1..N : /\ Max(1..i) = i /\ (1..i) \ {Max(1..i)} = 1..(i - 1)
                        /\ 1..i \in SUBSET DOMAIN list /\ 1..i # {}
    <3> SUFFICES ASSUME NEW i \in 1..N
                 PROVE  /\ Max(1..i) = i /\ (1..i) \ {Max(1..i)} = 1..(i - 1)
                        /\ 1..i \in SUBSET DOMAIN list /\ 1..i # {}
      OBVIOUS
    <3>1. i \in Nat \ {0} /\ 1..i \in SUBSET (1..N) /\ i \in 1..i
      BY <1>1
    <3> QED BY <1>1, <3>1, MaxOfUpTo
  <2> QED BY <1>7, <2>1
<1> DEFINE run == [i \in 0..N |-> h[1..i]]
<1>9. run[0] = q /\ (\A i \in 1..N : run[i] = T(run[i - 1], i)) /\ run[N] = h[DOMAIN list]
  <2>1. 1..0 = {} /\ 0 \in 0..N /\ N \in 0..N /\ \A i \in 1..N : i \in 0..N /\ i - 1 \in 0..N
    BY <1>1
  <2> QED BY <1>1, <1>8, <2>1
<1> HIDE DEF run
<1>10. \A i \in 0..N : run[i] \in D
  <2> DEFINE S == {i \in 0..N : run[i] \in D}
  <2>1. 0 \in S /\ \A i \in 1..N : i - 1 \in S => i \in S
    BY <1>1, <1>2, <1>9
  <2>2. \A i \in 0..N : i \in S
    <3> HIDE DEF S
    <3> QED BY <1>1, <2>1, UpTo
  <2> QED BY <2>2
<1>11. MergeRun(run, s, view, mergeable, tie)
  BY <1>1, <1>7, <1>9, <1>10 DEF MergeRun, N, D, q, T, list
<1> QED BY <1>11

(* The groups of the first n heads are poured, the others are as they were. *)
Merged(s, cells, view, mergeable, plan, n) ==
  LET heads == Upward(Heads(view, mergeable))
      group(m) == Group(mergeable, KindOf[view[heads[m]]])
  IN /\ plan.count \in [Items -> Nat]
     /\ plan.sent \in Seq(Between(cells))
     /\ Leads("pour", s, plan.sent, PouredState(s, plan.count))
     /\ \A i \in Items : (\A m \in 1..n : i \notin group(m)) => plan.count[i] = s.count[i]
     /\ \A m \in 1..n : Packed(plan.count, group(m))

(* Pouring once more. *)
LEMMA PouredTwice ==
  ASSUME NEW s, OkState(s), NEW n, NEW m, \A i \in InBags(s.bags) : n[i] = 0 => m[i] = 0
  PROVE  PouredState(PouredState(s, n), m) = PouredState(s, m)
<1> DEFINE e == PouredState(s, n)
<1>1. e.bags = Poured(s.bags, n)
  BY DEF PouredState
<1>2. DOMAIN s.bags = Cells /\ DOMAIN e.bags = Cells
  <2>1. DOMAIN s.bags = Cells
    BY OkCells
  <2>2. DOMAIN Poured(s.bags, n) = DOMAIN s.bags
    BY DEF Poured
  <2> HIDE DEF e
  <2> QED BY <1>1, <2>1, <2>2
<1>3. ASSUME NEW c \in Cells
      PROVE  (IF e.bags[c] # None /\ m[e.bags[c]] = 0 THEN None ELSE e.bags[c])
             = (IF s.bags[c] # None /\ m[s.bags[c]] = 0 THEN None ELSE s.bags[c])
  <2>1. e.bags[c] = IF s.bags[c] # None /\ n[s.bags[c]] = 0 THEN None ELSE s.bags[c]
    BY <1>1, PouredCell
  <2>2. s.bags[c] # None /\ n[s.bags[c]] = 0 => m[s.bags[c]] = 0
    BY OkCells
  <2> HIDE DEF e
  <2> QED BY <2>1, <2>2
<1> HIDE DEF e
<1>4. Poured(e.bags, m) = Poured(s.bags, m)
  BY <1>2, <1>3 DEF Poured
<1>5. PouredState(e, m) = PouredState(s, m)
  BY <1>4 DEF PouredState
<1> QED BY <1>5 DEF e

(* Merging one more kind leaves the kinds before it packed. *)
LEMMA MergedGoesOn ==
  ASSUME NEW s, NEW cells, NEW view, NEW mergeable, NEW tie, Mergers(s, cells, view, mergeable, tie),
         NEW n \in 1..Len(Upward(Heads(view, mergeable))),
         NEW plan, Merged(s, cells, view, mergeable, plan, n - 1)
  PROVE  Merged(s, cells, view, mergeable,
                MergeStep(s, view, mergeable, tie, plan, Upward(Heads(view, mergeable))[n]), n)
<1> DEFINE heads == Upward(Heads(view, mergeable))
           group(m) == Group(mergeable, KindOf[view[heads[m]]])
           c == heads[n]
           k == KindOf[view[c]]
           G == Group(mergeable, k)
           stacks == Fullest(G, s.count, tie)
           at == Starts(view, InBags(view))
           e == PouredState(s, plan.count)
           p == Pour(plan.count, stacks, at, MaxStack[k])
           q == MergeStep(s, view, mergeable, tie, plan, c)
<1>1. /\ plan.count \in [Items -> Nat] /\ plan.sent \in Seq(Between(cells))
      /\ Leads("pour", s, plan.sent, e)
      /\ \A i \in Items : (\A m \in 1..(n - 1) : i \notin group(m)) => plan.count[i] = s.count[i]
      /\ \A m \in 1..(n - 1) : Packed(plan.count, group(m))
  BY DEF Merged
<1>2. OkState(s) /\ Loaded(s) /\ cells \subseteq Cells
  BY DEF Mergers
<1>3. /\ \A m \in 1..Len(heads) : heads[m] \in Heads(view, mergeable)
      /\ \A l, m \in 1..Len(heads) : heads[l] = heads[m] => l = m
      /\ \A x, y \in Heads(view, mergeable) : KindOf[view[x]] = KindOf[view[y]] => x = y
  BY HeadsAre DEF Lists
<1>4. c \in Heads(view, mergeable)
  BY <1>3
<1>5. /\ G \subseteq Items /\ k \in Kinds /\ Lists(stacks, G) /\ stacks \in Seq(Items) /\ stacks # <<>>
      /\ \A i \in G : KindOf[i] = k /\ at[i] \in cells /\ s.bags[at[i]] = i
  <2> HIDE DEF heads
  <2> QED BY <1>4, GroupIs
<1>6. ASSUME NEW m \in 1..(n - 1), NEW i \in group(m) PROVE i \notin G
  <2>1. m \in 1..Len(heads) /\ n \in 1..Len(heads) /\ m # n
    OBVIOUS
  <2>2. heads[m] # heads[n] /\ heads[m] \in Heads(view, mergeable)
    <3> HIDE DEF heads
    <3> QED BY <1>3, <2>1
  <2>3. KindOf[view[heads[m]]] # k
    <3> HIDE DEF heads
    <3> QED BY <1>3, <1>4, <2>2
  <2> HIDE DEF heads, c, k
  <2> QED BY <1>6, <2>3 DEF Group
<1>7. \A i \in G : plan.count[i] = s.count[i]
  <2> HIDE DEF G, group
  <2> QED BY <1>1, <1>5, <1>6
<1> HIDE DEF heads, c, k, G, stacks, at
<1>8. e.count = plan.count /\ e.bags = Poured(s.bags, plan.count) /\ Loaded(e)
  BY DEF PouredState, Loaded
<1>9. OkState(e)
  <2> HIDE DEF e
  <2> QED BY <1>1, <1>2, BetweenAre, LeadsOk
<1>10. \A i \in G : e.bags[at[i]] = i
  <2> SUFFICES ASSUME NEW i \in G PROVE e.bags[at[i]] = i
    OBVIOUS
  <2>1. at[i] \in Cells /\ s.bags[at[i]] = i /\ i \in Items /\ i # None
    BY <1>2, <1>5, SortPlanAssumption
  <2>2. i \in InBags(s.bags)
    BY <1>2, <2>1, OkCells
  <2>3. plan.count[i] # 0
    <3>1. s.count[i] >= 1 /\ s.count[i] \in Nat
      BY <1>2, <2>1, <2>2 DEF OkState
    <3> QED BY <1>7, <3>1
  <2> HIDE DEF e
  <2>4. Poured(s.bags, plan.count)[at[i]]
        = IF s.bags[at[i]] # None /\ plan.count[s.bags[at[i]]] = 0 THEN None ELSE s.bags[at[i]]
    BY <1>2, <2>1, PouredCell
  <2> QED BY <1>8, <2>1, <2>3, <2>4
<1>11. Stacked(e, stacks, cells, k, at)
  <2>1. \A j \in 1..Len(stacks) : stacks[j] \in G
    BY <1>5 DEF Lists
  <2> HIDE DEF e
  <2> QED BY <1>2, <1>5, <1>9, <1>10, <2>1 DEF Stacked, Lists
<1>12. /\ p.count \in [Items -> Nat] /\ p.sent \in Seq(Between(cells))
       /\ Leads("pour", e, p.sent, PouredState(e, p.count))
       /\ \A i \in Items \ G : p.count[i] = plan.count[i]
       /\ Packed(p.count, G)
  <2>1. Loaded(e) /\ stacks # <<>> /\ Stacked(e, stacks, cells, k, at) /\ Lists(stacks, G)
    BY <1>5, <1>8, <1>11
  <2>2. p = Pour(e.count, stacks, at, MaxStack[k])
    BY <1>8
  <2> HIDE DEF e, p
  <2>3. PourDone(e, cells, G, p)
    BY <2>1, <2>2, PourEnds
  <2> QED BY <1>8, <2>3 DEF PourDone
<1>14. q = [sent |-> plan.sent \o p.sent, count |-> p.count]
  BY DEF MergeStep, PourGroup, stacks, at, G, k
<1>15. PouredState(e, p.count) = PouredState(s, p.count)
  <2>1. \A i \in InBags(s.bags) : plan.count[i] = 0 => p.count[i] = 0
    <3> SUFFICES ASSUME NEW i \in InBags(s.bags), plan.count[i] = 0 PROVE p.count[i] = 0
      OBVIOUS
    <3>1. i \in Items /\ s.count[i] >= 1 /\ s.count[i] \in Nat
      BY <1>2, OkCells DEF OkState
    <3>2. i \notin G
      BY <1>7, <3>1
    <3> HIDE DEF p
    <3> QED BY <1>12, <3>1, <3>2
  <2> HIDE DEF p
  <2> QED BY <1>2, <2>1, PouredTwice
<1> HIDE DEF p, e, q
<1>16. q.count = p.count /\ q.sent = plan.sent \o p.sent
  BY <1>14
<1>17. q.sent \in Seq(Between(cells)) /\ Leads("pour", s, q.sent, PouredState(s, q.count))
  <2>1. q.sent \in Seq(Between(cells))
    BY <1>1, <1>12, <1>16
  <2>2. plan.sent \in Seq(Requests) /\ p.sent \in Seq(Requests)
    BY <1>1, <1>12, BetweenAre
  <2>3. Leads("pour", s, plan.sent \o p.sent, PouredState(s, p.count))
    BY <1>1, <1>12, <1>15, <2>2, LeadsThrough
  <2> QED BY <1>16, <2>1, <2>3
<1>18. n - 1 \in Nat /\ n \in 1..n /\ (\A m \in 1..n : m = n \/ m \in 1..(n - 1)) /\ group(n) = G
       /\ \A m \in 1..(n - 1) : m \in 1..n
  BY DEF G, k, c
<1>19. \A i \in Items : (\A m \in 1..n : i \notin group(m)) => q.count[i] = s.count[i]
  <2> HIDE DEF group
  <2> QED BY <1>1, <1>12, <1>16, <1>18
<1>20. ASSUME NEW m \in 1..n PROVE Packed(q.count, group(m))
  <2>1. CASE m = n
    <3> HIDE DEF group
    <3> QED BY <1>12, <1>16, <1>18, <2>1
  <2>2. CASE m \in 1..(n - 1)
    <3>1. Packed(plan.count, group(m))
      BY <1>1, <2>2
    <3>2. \A i \in group(m) : p.count[i] = plan.count[i]
      <4>1. \A i \in group(m) : i \in Items /\ i \notin G
        <5>1. mergeable \subseteq Items
          <6>1. cells \in SUBSET Cells /\ view = [d \in cells |-> s.bags[d]] /\ mergeable \subseteq InBags(view)
            BY DEF Mergers
          <6> QED BY <1>2, <6>1, ViewIs
        <5>2. group(m) \subseteq mergeable
          BY DEF Group
        <5> HIDE DEF group
        <5> QED BY <1>6, <2>2, <5>1, <5>2
      <4> HIDE DEF group
      <4> QED BY <1>12, <4>1
    <3> HIDE DEF group
    <3> QED BY <1>16, <3>1, <3>2 DEF Packed
  <2> QED BY <1>18, <2>1, <2>2
<1>21. Merged(s, cells, view, mergeable, q, n)
  BY <1>12, <1>16, <1>17, <1>19, <1>20 DEF Merged, heads
<1> QED BY <1>21 DEF q, c, heads

(* All the groups poured. *)
LEMMA PourAllIs ==
  ASSUME NEW s, NEW cells, NEW view, NEW mergeable, NEW tie, Mergers(s, cells, view, mergeable, tie),
         NEW p, p = PourAll(view, s.count, mergeable, tie)
  PROVE  PourDone(s, cells, mergeable, p)
<1> DEFINE heads == Upward(Heads(view, mergeable))
           N == Len(heads)
<1>1. PICK run : MergeRun(run, s, view, mergeable, tie)
  BY MergeRuns
<1>2. /\ run[0] = [sent |-> <<>>, count |-> s.count]
      /\ \A i \in 1..N : run[i] = MergeStep(s, view, mergeable, tie, run[i - 1], heads[i])
      /\ p = run[N]
  BY <1>1 DEF MergeRun
<1>3. N \in Nat /\ (\A m \in 1..N : heads[m] \in Heads(view, mergeable))
      /\ \A c \in Heads(view, mergeable) : \E m \in 1..N : heads[m] = c
  <2>1. Lists(heads, Heads(view, mergeable))
    BY HeadsAre
  <2> HIDE DEF heads
  <2> QED BY <2>1 DEF Lists
<1>4. OkState(s) /\ Loaded(s) /\ cells \in SUBSET Cells /\ mergeable \subseteq Items
      /\ \A i \in mergeable : \E c \in Heads(view, mergeable) : KindOf[view[c]] = KindOf[i]
  <2>1. OkState(s) /\ Loaded(s) /\ cells \in SUBSET Cells /\ view = [d \in cells |-> s.bags[d]] /\ mergeable \subseteq InBags(view)
    BY DEF Mergers
  <2>2. InBags(view) \subseteq InBags(s.bags) /\ InBags(s.bags) \subseteq Items
    BY <2>1, ViewIs
  <2>3. \A i \in mergeable : \E c \in Heads(view, mergeable) : KindOf[view[c]] = KindOf[i]
    BY HeadsAre
  <2> QED BY <2>1, <2>2, <2>3
<1> DEFINE S == {i \in 0..N : Merged(s, cells, view, mergeable, run[i], i)}
<1>5. 0 \in S
  <2>1. run[0].count = s.count /\ run[0].sent = <<>>
    BY <1>2
  <2>2. Leads("pour", s, <<>>, PouredState(s, s.count))
    BY <1>4, NothingPoured, LeadsNowhere DEF Loaded
  <2>3. s.count \in [Items -> Nat] /\ <<>> \in Seq(Between(cells)) /\ \A m \in 1..0 : FALSE
    BY <1>4 DEF OkState
  <2>4. Merged(s, cells, view, mergeable, run[0], 0)
    BY <2>1, <2>2, <2>3 DEF Merged
  <2> QED BY <1>3, <2>4
<1>6. ASSUME NEW i \in 1..N, i - 1 \in S PROVE i \in S
  <2>1. Merged(s, cells, view, mergeable, run[i], i)
    BY <1>2, <1>6, MergedGoesOn
  <2> QED BY <2>1
<1>7. Merged(s, cells, view, mergeable, p, N)
  <2> HIDE DEF S
  <2>1. \A i \in 0..N : i \in S
    BY <1>3, <1>5, <1>6, UpTo
  <2> QED BY <1>2, <1>3, <2>1 DEF S
<1> DEFINE group(m) == Group(mergeable, KindOf[view[heads[m]]])
<1>8. /\ p.count \in [Items -> Nat] /\ p.sent \in Seq(Between(cells))
      /\ Leads("pour", s, p.sent, PouredState(s, p.count))
      /\ \A i \in Items : (\A m \in 1..N : i \notin group(m)) => p.count[i] = s.count[i]
      /\ \A m \in 1..N : Packed(p.count, group(m))
  BY <1>7 DEF Merged
<1>9. \A i \in Items \ mergeable : p.count[i] = s.count[i]
  <2>1. \A m \in 1..N : group(m) \subseteq mergeable
    BY DEF Group
  <2> HIDE DEF group
  <2> QED BY <1>8, <2>1
<1>10. Packed(p.count, mergeable)
  <2> SUFFICES ASSUME NEW i \in mergeable, NEW j \in mergeable, i # j, KindOf[i] = KindOf[j],
                      p.count[i] > 0, p.count[j] > 0
               PROVE  p.count[i] = MaxStack[KindOf[i]] \/ p.count[j] = MaxStack[KindOf[j]]
    BY DEF Packed
  <2>1. PICK m \in 1..N : KindOf[view[heads[m]]] = KindOf[i]
    BY <1>3, <1>4
  <2>2. i \in group(m) /\ j \in group(m)
    BY <2>1 DEF Group
  <2> HIDE DEF group
  <2> QED BY <1>8, <2>2 DEF Packed
<1> QED BY <1>8, <1>9, <1>10 DEF PourDone

-----------------------------------------------------------------------------
(* Phase one of a sort that finds nothing locked. *)

ViewOf(s, cells) == [c \in cells |-> s.bags[c]]

(* The cells a sort may use, and the items it places: those whose record is there. *)
Free(s, cells) == {c \in cells : s.bags[c] # None => KindOf[s.bags[c]] \in cached}
Placed(s, cells) == {i \in InBags(ViewOf(s, cells)) : KindOf[i] \in cached}

(* What a placement moves stands in cells it may use. *)
LEMMA PlacedAre ==
  ASSUME NEW s, OkState(s), NEW cells \in SUBSET Cells
  PROVE  /\ Free(s, cells) \subseteq Cells
         /\ Placed(s, cells) \subseteq Items
         /\ \A i \in Placed(s, cells) : /\ i \in InBags(s.bags) /\ KindOf[i] \in cached /\ KindOf[i] \in Kinds
                                        /\ s.count[i] \in 1..MaxStack[KindOf[i]]
                                        /\ \E c \in Free(s, cells) : s.bags[c] = i
         /\ \A c \in Free(s, cells) : s.bags[c] # None => s.bags[c] \in Placed(s, cells)
<1> DEFINE view == ViewOf(s, cells)
<1>1. DOMAIN view = cells /\ InBags(view) \subseteq InBags(s.bags) /\ InBags(s.bags) \subseteq Items
      /\ (\A c \in cells : view[c] = s.bags[c]) /\ \A i \in InBags(view) : \E c \in cells : s.bags[c] = i
  <2>1. view = [c \in cells |-> s.bags[c]]
    BY DEF ViewOf
  <2> HIDE DEF view
  <2> QED BY <2>1, ViewIs
<1>2. \A c \in cells : s.bags[c] # None => s.bags[c] \in InBags(view)
  BY <1>1 DEF InBags
<1> HIDE DEF view
<1>3. ASSUME NEW i \in InBags(view)
      PROVE  KindOf[i] \in Kinds /\ i \in Items /\ s.count[i] \in 1..MaxStack[KindOf[i]]
  <2>1. i \in Items /\ i \in InBags(s.bags)
    BY <1>1
  <2>2. s.count[i] >= 1 /\ s.count[i] <= MaxStack[KindOf[i]] /\ s.count[i] \in Nat
    BY <2>1 DEF OkState
  <2>3. KindOf[i] \in Kinds /\ MaxStack[KindOf[i]] \in Nat
    BY <2>1, SortPlanAssumption
  <2> QED BY <2>1, <2>2, <2>3
<1> QED BY <1>1, <1>2, <1>3 DEF Free, Placed, view

(* At most one stack of each kind that was sorted is short of full. *)
Tidy(s, cells) == Packed(s.count, Placed(s, cells))

(* What phase one asks for, and where it leads. *)
Consolidated(s, cells, plan, e) ==
  /\ plan.sent \in Seq(Requests)
  /\ Leads("pour", s, plan.sent, e)
  /\ Tidy(e, cells)
  /\ plan.lock = InBags(s.bags) \ InBags(e.bags)

(* The first phase: its requests can be honoured in turn and leave the kinds packed. *)
LEMMA ConsolidateIs ==
  ASSUME SortIsDecided, NEW s, OkState(s), Loaded(s), NEW cells \in SUBSET Cells, NEW tie \in TieOrders,
         NEW plan, plan = Consolidate(ViewOf(s, cells), s.count, {}, cached, tie)
  PROVE  \E e : Consolidated(s, cells, plan, e)
<1> DEFINE view == ViewOf(s, cells)
           mergeable == Mergeable(view, {}, cached)
           p == PourAll(view, s.count, mergeable, tie)
           e == PouredState(s, p.count)
<1>1. mergeable = {i \in InBags(view) : KindOf[i] \in cached /\ MaxStack[KindOf[i]] > 1}
  BY DEF Mergeable
<1>2. plan = [sent |-> p.sent, lock |-> {i \in mergeable : p.count[i] = 0}]
  BY DEF Consolidate, MergeLock
<1>3. mergeable \subseteq InBags(view) /\ view = [c \in cells |-> s.bags[c]]
  BY <1>1 DEF ViewOf
<1>4. /\ IsFiniteSet(Cells)
      /\ tie \in [Items -> Nat] /\ \A a, b \in Items : tie[a] = tie[b] => a = b
  BY DEF SortIsDecided
<1> HIDE DEF view, mergeable
<1>5. Mergers(s, cells, view, mergeable, tie)
  BY <1>3, <1>4 DEF Mergers
<1> HIDE DEF p
<1>6. PourDone(s, cells, mergeable, p)
  <2>1. p = PourAll(view, s.count, mergeable, tie)
    BY DEF p
  <2> QED BY <1>5, <2>1, PourAllIs
<1>7. /\ p.count \in [Items -> Nat] /\ p.sent \in Seq(Requests)
      /\ Leads("pour", s, p.sent, e)
      /\ \A i \in Items \ mergeable : p.count[i] = s.count[i]
      /\ Packed(p.count, mergeable)
  BY <1>6, BetweenAre DEF PourDone
<1>8. e.bags = Poured(s.bags, p.count) /\ e.count = p.count
  BY DEF PouredState
<1> HIDE DEF e
<1>9. OkState(e)
  BY <1>7, LeadsOk
<1>10. InBags(view) \subseteq InBags(s.bags) /\ InBags(s.bags) \subseteq Items /\ DOMAIN view = cells
       /\ \A c \in cells : view[c] = s.bags[c]
  BY <1>3, ViewIs
<1>11. \A c \in Cells : e.bags[c] # None => e.bags[c] = s.bags[c] /\ p.count[e.bags[c]] # 0
  <2> SUFFICES ASSUME NEW c \in Cells, e.bags[c] # None
               PROVE  e.bags[c] = s.bags[c] /\ p.count[e.bags[c]] # 0
    OBVIOUS
  <2>1. Poured(s.bags, p.count)[c] = IF s.bags[c] # None /\ p.count[s.bags[c]] = 0 THEN None ELSE s.bags[c]
    BY PouredCell
  <2> QED BY <1>8, <2>1
<1>12. \A c \in Cells : s.bags[c] # None /\ p.count[s.bags[c]] # 0 => e.bags[c] = s.bags[c]
  <2> SUFFICES ASSUME NEW c \in Cells, s.bags[c] # None /\ p.count[s.bags[c]] # 0
               PROVE  e.bags[c] = s.bags[c]
    OBVIOUS
  <2>1. Poured(s.bags, p.count)[c] = IF s.bags[c] # None /\ p.count[s.bags[c]] = 0 THEN None ELSE s.bags[c]
    BY PouredCell
  <2> QED BY <1>8, <2>1
<1>13. InBags(s.bags) \ InBags(e.bags) = {i \in mergeable : p.count[i] = 0}
  <2>1. DOMAIN s.bags = Cells /\ DOMAIN e.bags = Cells
    BY <1>9, OkCells
  <2>2. \A i \in InBags(s.bags) : i \in InBags(e.bags) <=> p.count[i] # 0
    BY <1>11, <1>12, <2>1 DEF InBags
  <2>3. \A i \in InBags(s.bags) : p.count[i] = 0 => i \in mergeable
    <3>1. \A i \in InBags(s.bags) : s.count[i] # 0
      <4>1. \A i \in InBags(s.bags) : s.count[i] >= 1
        BY DEF OkState
      <4> QED BY <4>1
    <3> QED BY <1>7, <1>10, <3>1
  <2> QED BY <1>3, <1>10, <2>2, <2>3
<1>14. Tidy(e, cells)
  <2> SUFFICES ASSUME NEW i \in Placed(e, cells), NEW j \in Placed(e, cells), i # j, KindOf[i] = KindOf[j]
               PROVE  p.count[i] = MaxStack[KindOf[i]] \/ p.count[j] = MaxStack[KindOf[j]]
    BY <1>8 DEF Tidy, Packed
  <2>1. /\ i \in InBags(e.bags) /\ j \in InBags(e.bags) /\ i \in Items /\ j \in Items
        /\ KindOf[i] \in cached /\ KindOf[j] \in cached
        /\ p.count[i] \in 1..MaxStack[KindOf[i]] /\ p.count[j] \in 1..MaxStack[KindOf[j]]
    BY <1>8, <1>9, PlacedAre
  <2>2. MaxStack[KindOf[i]] \in Nat \ {0}
    BY <2>1, SortPlanAssumption
  <2>3. CASE MaxStack[KindOf[i]] > 1
    <3>1. i \in InBags(view) /\ j \in InBags(view)
      <4>1. \E c \in Free(e, cells) : e.bags[c] = i
        BY <1>9, PlacedAre
      <4>2. \E c \in Free(e, cells) : e.bags[c] = j
        BY <1>9, PlacedAre
      <4>3. Free(e, cells) \subseteq cells
        BY DEF Free
      <4>4. i # None /\ j # None
        BY <2>1, SortPlanAssumption
      <4> QED BY <1>10, <1>11, <4>1, <4>2, <4>3, <4>4 DEF InBags
    <3>2. i \in mergeable /\ j \in mergeable
      BY <1>1, <2>1, <2>3, <3>1
    <3>3. p.count[i] > 0 /\ p.count[j] > 0
      BY <2>1
    <3> QED BY <1>7, <3>2, <3>3 DEF Packed
  <2>4. CASE ~(MaxStack[KindOf[i]] > 1)
    BY <2>1, <2>2, <2>4
  <2> QED BY <2>3, <2>4
<1>15. plan.sent = p.sent /\ plan.lock = {i \in mergeable : p.count[i] = 0}
  BY <1>2
<1>16. Consolidated(s, cells, plan, e)
  BY <1>7, <1>13, <1>14, <1>15 DEF Consolidated
<1> QED BY <1>16

-----------------------------------------------------------------------------
(* Stacks with nothing left to pour. *)

(* Packed stacks need no request. *)
LEMMA NothingToPour ==
  ASSUME NEW stacks \in Seq(Items), stacks # <<>>, NEW at, \A j \in 1..Len(stacks) : at[stacks[j]] \in Cells,
         NEW num \in [Items -> Int], NEW max \in Int,
         \A j \in 1..Len(stacks) : j < Len(stacks) => num[stacks[j]] = max
  PROVE  Pour(num, stacks, at, max).sent = <<>> /\ Pour(num, stacks, at, max).count = num
<1> DEFINE N == Len(stacks)
<1>1. N \in Nat \ {0}
  OBVIOUS
<1>2. PICK run : PourRun(run, stacks, at, num, max)
  BY PourRuns
<1> DEFINE S == {i \in 0..N : run[i].sent = <<>> /\ run[i].count = num /\ run[i].hi = N}
<1>3. 0 \in S
  <2>1. run[0] = PourBegin(num, stacks, at) /\ 0 \in 0..N
    BY <1>1, <1>2 DEF PourRun
  <2> QED BY <2>1 DEF PourBegin
<1>4. ASSUME NEW i \in 1..N, i - 1 \in S PROVE i \in S
  <2> DEFINE p == run[i - 1]
             q == run[i]
  <2>1. p \in PourStates(stacks, at) /\ q = PourStep(p, max) /\ p.sent = <<>> /\ p.count = num /\ p.hi = N
    <3>1. i - 1 \in 0..N
      BY <1>1
    <3> QED BY <1>2, <1>4, <3>1 DEF PourRun
  <2> HIDE DEF p, q
  <2>2. p.stacks = stacks /\ p.lo \in 1..N
        /\ p = [stacks |-> p.stacks, at |-> p.at, count |-> p.count, lo |-> p.lo, hi |-> p.hi, sent |-> p.sent]
    BY <2>1 DEF PourStates
  <2>3. CASE p.lo >= p.hi
    BY <2>1, <2>3 DEF PourStep, q
  <2>4. CASE ~(p.lo >= p.hi)
    <3>1. p.lo \in 1..N /\ p.lo < N
      BY <1>1, <2>1, <2>2, <2>4
    <3>2. num[stacks[p.lo]] = max
      BY <3>1
    <3>3. max - p.count[p.stacks[p.lo]] <= 0
      BY <2>1, <2>2, <3>2
    <3>4. PourStep(p, max) = [p EXCEPT !.lo = @ + 1]
      BY <2>4, <3>3, Zenon DEF PourStep
    <3>5. q.sent = p.sent /\ q.count = p.count /\ q.hi = p.hi
      BY <2>1, <2>2, <3>4
    <3> QED BY <2>1, <3>5 DEF q
  <2> QED BY <2>3, <2>4
<1>5. N \in S
  <2> HIDE DEF S, N
  <2>1. \A i \in 0..N : i \in S
    BY <1>1, <1>3, <1>4, UpTo
  <2> QED BY <1>1, <2>1
<1>6. run[N] = Pour(num, stacks, at, max)
  BY <1>2 DEF PourRun
<1> QED BY <1>5, <1>6

(* Packed bags need no request in the first phase. *)
LEMMA NothingToMerge ==
  ASSUME SortIsDecided, NEW s, OkState(s), Loaded(s), NEW cells \in SUBSET Cells, NEW tie \in TieOrders,
         Tidy(s, cells)
  PROVE  Consolidate(ViewOf(s, cells), s.count, {}, cached, tie).sent = <<>>
<1> DEFINE view == ViewOf(s, cells)
           mergeable == Mergeable(view, {}, cached)
           heads == Upward(Heads(view, mergeable))
           N == Len(heads)
           idle == [sent |-> <<>>, count |-> s.count]
<1>1. mergeable = {i \in InBags(view) : KindOf[i] \in cached /\ MaxStack[KindOf[i]] > 1}
  BY DEF Mergeable
<1>2. Consolidate(view, s.count, {}, cached, tie).sent = PourAll(view, s.count, mergeable, tie).sent
  BY DEF Consolidate
<1>3. mergeable \subseteq Placed(s, cells) /\ mergeable \subseteq InBags(view) /\ view = [c \in cells |-> s.bags[c]]
  BY <1>1 DEF ViewOf, Placed
<1>4. /\ IsFiniteSet(Cells)
      /\ tie \in [Items -> Nat] /\ \A a, b \in Items : tie[a] = tie[b] => a = b
  BY DEF SortIsDecided
<1> HIDE DEF view, mergeable
<1>5. Mergers(s, cells, view, mergeable, tie)
  BY <1>3, <1>4 DEF Mergers
<1>6. PICK run : MergeRun(run, s, view, mergeable, tie)
  BY <1>5, MergeRuns
<1>7. N \in Nat /\ \A m \in 1..N : heads[m] \in Heads(view, mergeable)
  <2>1. Lists(heads, Heads(view, mergeable))
    BY <1>5, HeadsAre
  <2> HIDE DEF heads
  <2> QED BY <2>1 DEF Lists
<1> DEFINE S == {i \in 0..N : run[i] = idle}
<1>8. 0 \in S
  BY <1>6, <1>7 DEF MergeRun
<1>9. ASSUME NEW i \in 1..N, i - 1 \in S PROVE i \in S
  <2> DEFINE c == heads[i]
             k == KindOf[view[c]]
             G == Group(mergeable, k)
             stacks == Fullest(G, s.count, tie)
             at == Starts(view, InBags(view))
  <2>1. run[i] = MergeStep(s, view, mergeable, tie, idle, c)
    BY <1>6, <1>9 DEF MergeRun
  <2>2. c \in Heads(view, mergeable)
    BY <1>7
  <2>3. /\ G \subseteq Items /\ k \in Kinds /\ Lists(stacks, G) /\ stacks \in Seq(Items) /\ stacks # <<>>
        /\ \A j \in G : KindOf[j] = k /\ at[j] \in cells
    <3> HIDE DEF c
    <3> QED BY <1>5, <2>2, GroupIs
  <2> HIDE DEF c
  <2>4. s.count \in [Items -> Nat] /\ s.count \in [Items -> Int] /\ MaxStack[k] \in Int
    <3>1. MaxStack[k] \in Int
      BY <2>3, SortPlanAssumption
    <3>2. s.count \in [Items -> Nat]
      BY DEF OkState
    <3> QED BY <3>1, <3>2
  <2>5. \A j, l \in 1..Len(stacks) : j < l => s.count[stacks[j]] >= s.count[stacks[l]]
    <3>1. IsFiniteSet(G)
      <4>1. IsFiniteSet(1..Len(stacks))
        <5>1. Len(stacks) \in Nat
          BY <2>3
        <5> QED BY <5>1, FS_Interval
      <4>2. stacks \in [1..Len(stacks) -> G] /\ \A x \in G : \E j \in 1..Len(stacks) : stacks[j] = x
        BY <2>3 DEF Lists
      <4>3. stacks \in Surjection(1..Len(stacks), G)
        <5> HIDE DEF stacks, G
        <5> QED BY <4>2 DEF Surjection
      <4> HIDE DEF stacks, G
      <4> QED BY <4>1, <4>3, FS_Surjection
    <3> HIDE DEF G
    <3> QED BY <1>4, <2>3, <2>4, <3>1, FullestIs
  <2> HIDE DEF k, G, stacks, at
  <2>6. \A j \in 1..Len(stacks) : j < Len(stacks) => s.count[stacks[j]] = MaxStack[k]
    <3> SUFFICES ASSUME NEW j \in 1..Len(stacks), j < Len(stacks), s.count[stacks[j]] # MaxStack[k] PROVE FALSE
      OBVIOUS
    <3>0. Len(stacks) \in 1..Len(stacks) /\ j # Len(stacks)
      BY <2>3
    <3> DEFINE a == stacks[j]
               b == stacks[Len(stacks)]
    <3>1. a \in G /\ b \in G /\ a # b
      BY <2>3, <3>0 DEF Lists
    <3> HIDE DEF a, b
    <3>2. G \subseteq Placed(s, cells)
      BY <1>3 DEF G, Group
    <3>3. KindOf[a] = k /\ KindOf[b] = k /\ s.count[a] \in 1..MaxStack[k] /\ s.count[b] \in 1..MaxStack[k]
      BY <2>3, <3>1, <3>2, PlacedAre
    <3>4. s.count[b] = MaxStack[k]
      BY <2>3, <3>1, <3>2, <3>3 DEF Tidy, Packed, a
    <3>5. s.count[a] >= s.count[b]
      BY <2>5, <3>0 DEF a, b
    <3>6. s.count[a] # MaxStack[k]
      BY DEF a
    <3> QED BY <2>4, <3>3, <3>4, <3>5, <3>6
  <2>7. \A j \in 1..Len(stacks) : at[stacks[j]] \in Cells
    BY <2>3 DEF Lists
  <2> DEFINE p == Pour(s.count, stacks, at, MaxStack[k])
  <2>8. p.sent = <<>> /\ p.count = s.count
    BY <2>3, <2>4, <2>6, <2>7, NothingToPour, SMTT(30)
  <2>9. MergeStep(s, view, mergeable, tie, idle, c) = [sent |-> idle.sent \o p.sent, count |-> p.count]
    BY DEF MergeStep, PourGroup, stacks, at, G, k
  <2> HIDE DEF p
  <2>10. <<>> \o <<>> = <<>>
    OBVIOUS
  <2> QED BY <2>1, <2>8, <2>9, <2>10
<1>10. N \in S
  <2> HIDE DEF S, N
  <2>1. \A i \in 0..N : i \in S
    BY <1>7, <1>8, <1>9, UpTo
  <2> QED BY <1>7, <2>1
<1>11. PourAll(view, s.count, mergeable, tie) = idle
  BY <1>6, <1>10 DEF MergeRun
<1> QED BY <1>2, <1>11 DEF view

-----------------------------------------------------------------------------
(* The cells phase two hands out, and the seats of its entries. *)

PinnedIn(s, cells) == Pinned(ViewOf(s, cells), {}, cached)
PoolCells(s, cells, f) == {c \in Free(s, cells) : BagFamily[c] = f}
PoolOf(s, cells, f, r) == Pool(ViewOf(s, cells), PinnedIn(s, cells), f, r)

LEMMA PlacedIs ==
  ASSUME NEW s, OkState(s), NEW cells \in SUBSET Cells
  PROVE  /\ Placed(s, cells) = InBags(ViewOf(s, cells)) \ PinnedIn(s, cells)
         /\ \A c \in cells : ViewOf(s, cells)[c] \notin PinnedIn(s, cells) <=> c \in Free(s, cells)
<1> DEFINE view == ViewOf(s, cells)
<1>1. DOMAIN view = cells /\ (\A c \in cells : view[c] = s.bags[c]) /\ InBags(view) \subseteq Items
  <2>1. view = [c \in cells |-> s.bags[c]]
    BY DEF ViewOf
  <2> HIDE DEF view
  <2> QED BY <2>1, ViewIs
<1>2. PinnedIn(s, cells) = {i \in InBags(view) : KindOf[i] \notin cached}
  BY DEF PinnedIn, Pinned
<1>3. \A c \in cells : view[c] # None => view[c] \in InBags(view)
  BY <1>1 DEF InBags
<1>4. None \notin InBags(view)
  BY DEF InBags
<1> HIDE DEF view
<1>5. Placed(s, cells) = InBags(view) \ PinnedIn(s, cells)
  BY <1>2 DEF Placed, view
<1>6. \A c \in cells : view[c] \notin PinnedIn(s, cells) <=> c \in Free(s, cells)
  BY <1>1, <1>2, <1>3, <1>4 DEF Free
<1> QED BY <1>5, <1>6 DEF view

(* c comes before d in the order pools are filled in. *)
Sooner(c, d, r) == IF r THEN c > d ELSE c < d

(* A pool lists a family's cells, in filling order. *)
LEMMA PoolIs ==
  ASSUME IsFiniteSet(Cells), NEW s, OkState(s), NEW cells \in SUBSET Cells, NEW f, NEW r,
         NEW pool, pool = PoolOf(s, cells, f, r)
  PROVE  /\ Lists(pool, PoolCells(s, cells, f))
         /\ Len(pool) = Cardinality(PoolCells(s, cells, f))
         /\ IsFiniteSet(PoolCells(s, cells, f))
         /\ \A m, n \in 1..Len(pool) : m < n => Sooner(pool[m], pool[n], r)
<1> DEFINE view == ViewOf(s, cells)
           pinned == PinnedIn(s, cells)
           C == PoolCells(s, cells, f)
<1>1. {c \in DOMAIN view : view[c] \notin pinned /\ BagFamily[c] = f} = C
  <2>1. DOMAIN view = cells
    BY DEF ViewOf
  <2>2. \A c \in cells : view[c] \notin pinned <=> c \in Free(s, cells)
    BY PlacedIs
  <2>3. Free(s, cells) \subseteq cells
    BY DEF Free
  <2> HIDE DEF view, pinned
  <2> QED BY <2>1, <2>2, <2>3 DEF PoolCells
<1>2. pool = IF r THEN Downward(C) ELSE Upward(C)
  <2> HIDE DEF C
  <2> QED BY <1>1 DEF PoolOf, Pool
<1>3. C \in SUBSET Nat /\ IsFiniteSet(C)
  <2>1. C \subseteq Cells /\ Cells \subseteq Nat
    BY SortPlanAssumption DEF PoolCells, Free
  <2> QED BY <2>1, FS_Subset
<1> HIDE DEF C
<1>4. CASE r
  BY <1>2, <1>3, <1>4, DownwardIs DEF Sooner, C
<1>5. CASE ~r
  BY <1>2, <1>3, <1>5, UpwardIs DEF Sooner, C
<1> QED BY <1>4, <1>5

(* The members of a set of numbers, counted off. *)
LEMMA SeatsAre ==
  ASSUME NEW n \in Nat, NEW T \in SUBSET (1..n)
  PROVE  /\ IsFiniteSet(T) /\ Cardinality(T) \in Nat
         /\ \A k \in T : Cardinality({j \in 1..k : j \in T}) \in 1..Cardinality(T)
         /\ \A j, k \in T : j < k => Cardinality({i \in 1..j : i \in T}) < Cardinality({i \in 1..k : i \in T})
         /\ \A q \in 1..Cardinality(T) : \E k \in T : Cardinality({j \in 1..k : j \in T}) = q
<1> DEFINE ahead == [c \in T |-> {d \in T : d < c}]
           seat(k) == Cardinality({j \in 1..k : j \in T})
<1>1. IsFiniteSet(T) /\ Cardinality(T) \in Nat
  <2>1. IsFiniteSet(1..n)
    BY FS_Interval
  <2> QED BY <2>1, FS_Subset, FS_CardinalityType
<1>2. Orders(ahead, T)
  <2>0. \A c \in T : c \in Nat
    OBVIOUS
  <2>1. DOMAIN ahead = T /\ \A c \in T : ahead[c] \subseteq T /\ c \notin ahead[c]
    BY <2>0
  <2>2. \A c, d \in T : c # d => c \in ahead[d] \/ d \in ahead[c]
    BY <2>0
  <2>3. \A c, d \in T : c \in ahead[d] => ahead[c] \subseteq ahead[d]
    <3> SUFFICES ASSUME NEW c \in T, NEW d \in T, c \in ahead[d], NEW e \in ahead[c]
                 PROVE  e \in ahead[d]
      OBVIOUS
    <3> QED BY <2>0
  <2> HIDE DEF ahead
  <2> QED BY <2>1, <2>2, <2>3 DEF Orders
<1>3. ASSUME NEW k \in T PROVE seat(k) = Cardinality(ahead[k]) + 1 /\ Cardinality(ahead[k]) \in Nat
  <2>1. {j \in 1..k : j \in T} = ahead[k] \cup {k} /\ k \notin ahead[k] /\ ahead[k] \subseteq T
    <3>1. k \in Nat /\ \A j \in T : j \in Nat /\ j >= 1
      OBVIOUS
    <3>2. \A j : j \in ahead[k] <=> j \in T /\ j < k
      OBVIOUS
    <3> HIDE DEF ahead
    <3>3. \A j \in T : j \in 1..k <=> j < k \/ j = k
      BY <3>1
    <3>4. k \notin ahead[k] /\ ahead[k] \subseteq T
      BY <3>1, <3>2
    <3>5. ASSUME NEW x PROVE x \in {j \in 1..k : j \in T} <=> x \in ahead[k] \cup {k}
      BY <3>2, <3>3
    <3> QED BY <3>4, <3>5, Zenon
  <2>2. IsFiniteSet(ahead[k])
    BY <1>1, <2>1, FS_Subset
  <2> HIDE DEF ahead
  <2> QED BY <2>1, <2>2, FS_AddElement, FS_CardinalityType
<1>4. \A c, d \in T : c < d => c \in ahead[d]
  OBVIOUS
<1> HIDE DEF ahead, seat
<1>5. /\ \A x \in T : Cardinality(ahead[x]) \in 0..(Cardinality(T) - 1)
      /\ \A x, y \in T : x \in ahead[y] => Cardinality(ahead[x]) < Cardinality(ahead[y])
  BY <1>1, <1>2, PlacesDiffer
<1>6. \A k \in T : seat(k) \in 1..Cardinality(T)
  BY <1>1, <1>3, <1>5
<1>7. \A j, k \in T : j < k => seat(j) < seat(k)
  BY <1>3, <1>4, <1>5
<1>8. \A q \in 1..Cardinality(T) : \E k \in T : seat(k) = q
  <2> SUFFICES ASSUME NEW q \in 1..Cardinality(T) PROVE \E k \in T : seat(k) = q
    OBVIOUS
  <2>1. PICK k \in T : Cardinality(ahead[k]) = q - 1
    BY <1>1, <1>2, PlacesAreTaken
  <2> QED BY <1>1, <1>3, <2>1
<1> QED BY <1>1, <1>6, <1>7, <1>8 DEF seat

(* Numbers that no gap parts are all those up to their count. *)
LEMMA NoGap ==
  ASSUME NEW n \in Nat, NEW T \in SUBSET (1..n), \A k \in T : \A j \in 1..k : j \in T
  PROVE  T = 1..Cardinality(T)
<1>1. CASE T = {}
  <2>1. Cardinality(T) = 0
    BY <1>1, FS_EmptySet
  <2> QED BY <1>1, <2>1
<1>2. CASE T # {}
  <2>1. \E x \in T : \A y \in T : y <= x
    <3> HIDE DEF Max
    <3> QED BY <1>2, MaxIsIn
  <2>2. PICK m \in T : \A x \in T : x <= m
    BY <2>1
  <2>3. T = 1..m
    <3>1. m \in Nat /\ \A x \in T : x \in Nat /\ 1 <= x
      OBVIOUS
    <3>2. \A x \in T : x \in 1..m
      BY <2>2, <3>1
    <3> QED BY <3>2
  <2>4. Cardinality(1..m) = m
    <3>1. m \in Nat
      OBVIOUS
    <3> QED BY <3>1, FS_Interval
  <2> QED BY <2>3, <2>4
<1> QED BY <1>1, <1>2

(* The names of Assign: the family of the k-th entry, its seat among the entries
   of the family, whether the family's bags have that many cells. *)
Fam(entries, k) == FamilyOf[KindOf[entries[k]]]
FamPool(s, cells, r, f) == IF f = NoFamily THEN <<>> ELSE PoolOf(s, cells, f, r)
Seat(entries, k) == Cardinality({j \in 1..k : Fam(entries, j) = Fam(entries, k)})
Special(s, cells, r, entries, k) == Seat(entries, k) <= Len(FamPool(s, cells, r, Fam(entries, k)))
Ahead(s, cells, r, entries, k) == Cardinality({j \in 1..k : ~Special(s, cells, r, entries, j)})
Goods(entries) == Cardinality({k \in DOMAIN entries : KindOf[entries[k]] \notin Junk})
Given(s, cells, r, entries) == Assign(entries, ViewOf(s, cells), PinnedIn(s, cells), r)

FromFront(s, cells, r, entries, k) ==
  IF Special(s, cells, r, entries, k) THEN FamPool(s, cells, r, Fam(entries, k))[Seat(entries, k)]
  ELSE IF Ahead(s, cells, r, entries, k) <= Len(PoolOf(s, cells, NoFamily, r))
       THEN PoolOf(s, cells, NoFamily, r)[Ahead(s, cells, r, entries, k)] ELSE 0

Back(s, cells, r, entries, j) ==
  Len(PoolOf(s, cells, NoFamily, r)) - (Len(entries) - Goods(entries)) + j

FromBack(s, cells, r, entries, j) ==
  IF Back(s, cells, r, entries, j) > Ahead(s, cells, r, entries, Goods(entries))
  THEN PoolOf(s, cells, NoFamily, r)[Back(s, cells, r, entries, j)] ELSE 0

LEMMA ListsJoined ==
  ASSUME NEW g \in Nat, NEW n \in Nat, NEW X, NEW front \in [1..g -> X], NEW back \in [1..n -> X]
  PROVE  /\ DOMAIN (front \o back) = 1..(g + n)
         /\ \A k \in 1..g : (front \o back)[k] = front[k]
         /\ \A j \in 1..n : (front \o back)[g + j] = back[j]
<1>1. front \in Seq(X) /\ Len(front) = g
  OBVIOUS
<1>2. back \in Seq(X) /\ Len(back) = n
  OBVIOUS
<1>3. front \o back \in Seq(X) /\ Len(front \o back) = g + n
  BY <1>1, <1>2
<1>4. DOMAIN (front \o back) = 1..(g + n)
  BY <1>3
<1>5. \A k \in 1..g : (front \o back)[k] = front[k]
  BY <1>1, <1>2
<1>6. \A j \in 1..n : (front \o back)[g + j] = back[j]
  BY <1>1, <1>2
<1> QED BY <1>4, <1>5, <1>6

(* The seats before the trade: the goods' from the front, the junk's from the back. *)
LEMMA GivenIs ==
  ASSUME NEW s, NEW cells, NEW r, NEW entries \in Seq(Items), Goods(entries) \in 0..Len(entries)
  PROVE  /\ DOMAIN Given(s, cells, r, entries) = 1..Len(entries)
         /\ \A k \in 1..Goods(entries) : Given(s, cells, r, entries)[k] = FromFront(s, cells, r, entries, k)
         /\ \A j \in 1..(Len(entries) - Goods(entries)) :
              Given(s, cells, r, entries)[Goods(entries) + j] = FromBack(s, cells, r, entries, j)
<1> DEFINE g == Goods(entries)
           n == Len(entries) - Goods(entries)
           front == [k \in 1..g |-> FromFront(s, cells, r, entries, k)]
           back == [j \in 1..n |-> FromBack(s, cells, r, entries, j)]
           X == {front[k] : k \in 1..g} \cup {back[j] : j \in 1..n}
<1>1. Given(s, cells, r, entries) = front \o back
  BY Zenon DEF Given, Assign, FromFront, FromBack, Back, Ahead, Special, Seat, FamPool, Fam, PoolOf, Goods, PinnedIn
<1>2. g \in Nat /\ n \in Nat /\ g + n = Len(entries)
  OBVIOUS
<1>3. /\ \A k \in 1..g : front[k] = FromFront(s, cells, r, entries, k)
      /\ \A j \in 1..n : back[j] = FromBack(s, cells, r, entries, j)
      /\ front = [k \in 1..g |-> front[k]] /\ back = [k \in 1..n |-> back[k]]
  OBVIOUS
<1> HIDE DEF front, back, g, n
<1>4. front \in [1..g -> X] /\ back \in [1..n -> X]
  BY <1>3
<1> HIDE DEF X
<1>5. /\ DOMAIN (front \o back) = 1..(g + n)
      /\ \A k \in 1..g : (front \o back)[k] = front[k]
      /\ \A j \in 1..n : (front \o back)[g + j] = back[j]
  BY <1>2, <1>4, ListsJoined, SMTT(30)
<1>6. /\ DOMAIN Given(s, cells, r, entries) = 1..Len(entries)
      /\ \A k \in 1..g : Given(s, cells, r, entries)[k] = FromFront(s, cells, r, entries, k)
      /\ \A j \in 1..n : Given(s, cells, r, entries)[g + j] = FromBack(s, cells, r, entries, j)
  BY <1>1, <1>2, <1>3, <1>5
<1> QED BY <1>6 DEF g, n

-----------------------------------------------------------------------------
(* The entries of a sort, and where they stand. *)

Sorted(s, cells, entries) ==
  /\ IsFiniteSet(Cells)
  /\ \A j, k \in Kinds : Rank[j] = Rank[k] => j = k
  /\ OkState(s) /\ cells \subseteq Cells
  /\ Lists(entries, Placed(s, cells))
  /\ \A j, k \in 1..Len(entries) : j < k => Rank[KindOf[entries[j]]] <= Rank[KindOf[entries[k]]]

(* What a sorted list of entries says of each. *)
LEMMA SortedAre ==
  ASSUME NEW s, NEW cells, NEW entries, Sorted(s, cells, entries)
  PROVE  /\ entries \in Seq(Items) /\ Len(entries) \in Nat /\ DOMAIN entries = 1..Len(entries)
         /\ \A k \in 1..Len(entries) : /\ entries[k] \in Placed(s, cells) /\ entries[k] \in Items
                                       /\ KindOf[entries[k]] \in Kinds
                                       /\ Rank[KindOf[entries[k]]] \in Nat
         /\ \A i \in Placed(s, cells) : \E k \in 1..Len(entries) : entries[k] = i
         /\ \A j, k \in 1..Len(entries) : entries[j] = entries[k] => j = k
<1>1. Placed(s, cells) \subseteq Items
  BY PlacedAre DEF Sorted
<1>2. /\ entries \in Seq(Placed(s, cells))
      /\ \A i \in Placed(s, cells) : \E k \in 1..Len(entries) : entries[k] = i
      /\ \A j, k \in 1..Len(entries) : entries[j] = entries[k] => j = k
  BY DEF Sorted, Lists
<1>3. entries \in Seq(Items) /\ Len(entries) \in Nat /\ DOMAIN entries = 1..Len(entries)
  BY <1>1, <1>2
<1>4. \A k \in 1..Len(entries) : entries[k] \in Placed(s, cells) /\ entries[k] \in Items
  BY <1>1, <1>2
<1>5. \A k \in 1..Len(entries) : KindOf[entries[k]] \in Kinds /\ Rank[KindOf[entries[k]]] \in Nat
  BY <1>4, SortPlanAssumption
<1> QED BY <1>2, <1>3, <1>4, <1>5

(* Junk comes last. *)
LEMMA GoodsAre ==
  ASSUME NEW s, NEW cells, NEW entries, Sorted(s, cells, entries)
  PROVE  /\ Goods(entries) \in 0..Len(entries)
         /\ \A k \in 1..Len(entries) : k <= Goods(entries) <=> KindOf[entries[k]] \notin Junk
<1> DEFINE T == {k \in 1..Len(entries) : KindOf[entries[k]] \notin Junk}
<1>1. /\ Len(entries) \in Nat /\ DOMAIN entries = 1..Len(entries)
      /\ \A k \in 1..Len(entries) : KindOf[entries[k]] \in Kinds /\ Rank[KindOf[entries[k]]] \in Nat
  BY SortedAre
<1>2. Goods(entries) = Cardinality(T)
  BY <1>1 DEF Goods
<1>3. ASSUME NEW k \in T, NEW j \in 1..k PROVE j \in T
  <2>1. j \in 1..Len(entries) /\ k \in 1..Len(entries) /\ (j = k \/ j < k)
    BY <1>1
  <2>2. Rank[KindOf[entries[j]]] <= Rank[KindOf[entries[k]]]
    BY <1>1, <2>1 DEF Sorted
  <2>3. ~(Rank[KindOf[entries[k]]] < Rank[KindOf[entries[j]]])
    BY <1>1, <2>1, <2>2
  <2>4. KindOf[entries[k]] \in Kinds \ Junk
    BY <1>1
  <2> QED BY <2>1, <2>3, <2>4, SortPlanAssumption
<1>4. T \in SUBSET (1..Len(entries))
  OBVIOUS
<1> HIDE DEF T
<1>5. T = 1..Cardinality(T)
  BY <1>1, <1>3, <1>4, NoGap
<1>6. Cardinality(T) \in Nat
  BY <1>1, <1>4, SeatsAre
<1>7. Cardinality(T) \in 0..Len(entries)
  <2>1. Cardinality(T) = 0 \/ Cardinality(T) \in 1..Cardinality(T)
    BY <1>6
  <2>2. Cardinality(T) = 0 \/ Cardinality(T) \in 1..Len(entries)
    BY <1>4, <1>5, <2>1
  <2> QED BY <1>1, <2>2
<1>8. \A k \in 1..Len(entries) : k \in T <=> KindOf[entries[k]] \notin Junk
  BY DEF T
<1>9. \A k \in 1..Len(entries) : k \in T <=> k <= Cardinality(T)
  BY <1>5, <1>6
<1> QED BY <1>2, <1>7, <1>8, <1>9

LEMMA FewerThan ==
  ASSUME NEW S, NEW T, IsFiniteSet(T), NEW f \in [S -> T], \A x, y \in S : f[x] = f[y] => x = y
  PROVE  /\ IsFiniteSet(S) /\ Cardinality(S) \in Nat /\ Cardinality(T) \in Nat
         /\ Cardinality(S) <= Cardinality(T)
<1>1. f \in Injection(S, T)
  BY DEF Injection, IsInjective
<1>2. IsFiniteSet(S) /\ Cardinality(S) <= Cardinality(T)
  BY <1>1, FS_Injection
<1> QED BY <1>2, FS_CardinalityType

LEMMA CountApart ==
  ASSUME NEW S, IsFiniteSet(S), NEW T \in SUBSET S
  PROVE  /\ Cardinality(S) = Cardinality(T) + Cardinality(S \ T)
         /\ Cardinality(S) \in Nat /\ Cardinality(T) \in Nat /\ Cardinality(S \ T) \in Nat
         /\ IsFiniteSet(T) /\ IsFiniteSet(S \ T)
<1>1. IsFiniteSet(T) /\ IsFiniteSet(S \ T)
  BY FS_Subset
<1>2. Cardinality(S) \in Nat /\ Cardinality(T) \in Nat /\ Cardinality(S \ T) \in Nat
  BY <1>1, FS_CardinalityType
<1>3. Cardinality(S \ T) = Cardinality(S) - Cardinality(S \cap T) /\ S \cap T = T
  BY FS_Difference
<1> QED BY <1>1, <1>2, <1>3

(* The entries of one family. *)
Kin(entries, f) == {j \in 1..Len(entries) : Fam(entries, j) = f}

(* The entries of a family are numbered without a gap. *)
LEMMA KinSeats ==
  ASSUME NEW s, NEW cells, NEW entries, Sorted(s, cells, entries), NEW f
  PROVE  /\ IsFiniteSet(Kin(entries, f)) /\ Cardinality(Kin(entries, f)) \in Nat
         /\ \A k \in Kin(entries, f) : Seat(entries, k) \in 1..Cardinality(Kin(entries, f))
         /\ \A j, k \in Kin(entries, f) : j < k => Seat(entries, j) < Seat(entries, k)
         /\ \A q \in 1..Cardinality(Kin(entries, f)) : \E k \in Kin(entries, f) : Seat(entries, k) = q
<1> DEFINE T == Kin(entries, f)
           n == Len(entries)
<1>1. n \in Nat
  BY SortedAre
<1>2. T \in SUBSET (1..n)
  BY DEF Kin
<1>3. ASSUME NEW k \in T PROVE Seat(entries, k) = Cardinality({j \in 1..k : j \in T})
  <2>1. {j \in 1..k : Fam(entries, j) = Fam(entries, k)} = {j \in 1..k : j \in T}
    <3>1. Fam(entries, k) = f /\ k \in 1..n
      BY DEF Kin
    <3>2. \A j \in 1..k : j \in 1..n
      BY <1>1, <3>1
    <3>3. \A j \in 1..k : j \in T <=> Fam(entries, j) = Fam(entries, k)
      BY <3>1, <3>2 DEF Kin
    <3> HIDE DEF T
    <3> QED BY <3>3
  <2> QED BY <2>1 DEF Seat
<1> HIDE DEF T, n
<1>4. /\ IsFiniteSet(T) /\ Cardinality(T) \in Nat
      /\ \A k \in T : Cardinality({j \in 1..k : j \in T}) \in 1..Cardinality(T)
      /\ \A j, k \in T : j < k => Cardinality({i \in 1..j : i \in T}) < Cardinality({i \in 1..k : i \in T})
      /\ \A q \in 1..Cardinality(T) : \E k \in T : Cardinality({j \in 1..k : j \in T}) = q
  BY <1>1, <1>2, SeatsAre
<1>5. \A j, k \in T : j < k => Seat(entries, j) < Seat(entries, k)
  BY <1>3, <1>4
<1>6. \A q \in 1..Cardinality(T) : \E k \in T : Seat(entries, k) = q
  BY <1>3, <1>4
<1>7. \A k \in T : Seat(entries, k) \in 1..Cardinality(T)
  BY <1>3, <1>4
<1> QED BY <1>4, <1>5, <1>6, <1>7 DEF T

(* at says where the items to place stand. *)
Standing(s, cells, at) ==
  \A i \in Placed(s, cells) : at[i] \in Free(s, cells) /\ s.bags[at[i]] = i

(* Each entry stands in a cell of its own, one its family may use. *)
LEMMA StandingIs ==
  ASSUME NEW s, NEW cells, NEW entries, Sorted(s, cells, entries), NEW at, Standing(s, cells, at),
         NEW k \in 1..Len(entries)
  PROVE  /\ at[entries[k]] \in Free(s, cells) /\ at[entries[k]] \in Cells
         /\ s.bags[at[entries[k]]] = entries[k]
         /\ \A j \in 1..Len(entries) : at[entries[j]] = at[entries[k]] => j = k
         /\ BagFamily[at[entries[k]]] \in {NoFamily, Fam(entries, k)}
<1>1. /\ \A j \in 1..Len(entries) : entries[j] \in Placed(s, cells) /\ entries[j] \in Items
      /\ \A i, j \in 1..Len(entries) : entries[i] = entries[j] => i = j
  BY SortedAre
<1>2. \A j \in 1..Len(entries) : at[entries[j]] \in Free(s, cells) /\ s.bags[at[entries[j]]] = entries[j]
  BY <1>1 DEF Standing
<1>3. Free(s, cells) \subseteq Cells /\ OkState(s)
  BY DEF Sorted, Free
<1>4. entries[k] # None
  BY <1>1, SortPlanAssumption
<1>5. Fits(entries[k], at[entries[k]])
  BY <1>2, <1>3, OkCells
<1> QED BY <1>1, <1>2, <1>3, <1>4, <1>5 DEF Fits, Fam

(* The entries of a family that stand in general cells are at least as many as
   its own bags cannot seat. *)
LEMMA Overflow ==
  ASSUME NEW s, NEW cells, NEW entries, Sorted(s, cells, entries), NEW at, Standing(s, cells, at), NEW f, NEW r,
         NEW V, V = {j \in Kin(entries, f) : BagFamily[at[entries[j]]] = NoFamily}
  PROVE  /\ IsFiniteSet(V) /\ Cardinality(V) \in Nat /\ Len(FamPool(s, cells, r, f)) \in Nat
         /\ Cardinality(Kin(entries, f)) - Len(FamPool(s, cells, r, f)) <= Cardinality(V)
<1> DEFINE T == Kin(entries, f)
           W == T \ V
           g == [j \in W |-> at[entries[j]]]
<1>1. IsFiniteSet(T) /\ V \in SUBSET T
  BY KinSeats
<1>2. /\ Cardinality(T) = Cardinality(V) + Cardinality(W)
      /\ Cardinality(T) \in Nat /\ Cardinality(V) \in Nat /\ Cardinality(W) \in Nat /\ IsFiniteSet(V)
  BY <1>1, CountApart
<1>3. /\ Lists(PoolOf(s, cells, f, r), PoolCells(s, cells, f))
      /\ Len(PoolOf(s, cells, f, r)) = Cardinality(PoolCells(s, cells, f))
      /\ IsFiniteSet(PoolCells(s, cells, f)) /\ Cardinality(PoolCells(s, cells, f)) \in Nat
  <2>1. IsFiniteSet(Cells) /\ OkState(s) /\ cells \in SUBSET Cells
    BY DEF Sorted
  <2> QED BY <2>1, PoolIs, FS_CardinalityType
<1>4. \A j \in W : j \in 1..Len(entries) /\ Fam(entries, j) = f /\ BagFamily[at[entries[j]]] # NoFamily
  BY DEF Kin
<1>5. ASSUME NEW j \in W PROVE at[entries[j]] \in PoolCells(s, cells, f) /\ f # NoFamily
  <2>1. at[entries[j]] \in Free(s, cells) /\ BagFamily[at[entries[j]]] \in {NoFamily, Fam(entries, j)}
    BY <1>4, StandingIs
  <2> QED BY <1>4, <2>1 DEF PoolCells
<1>6. Cardinality(W) <= Len(FamPool(s, cells, r, f)) /\ Len(FamPool(s, cells, r, f)) \in Nat
  <2>1. CASE f = NoFamily
    <3>1. W = {}
      BY <1>5, <2>1
    <3>2. Cardinality(W) = 0 /\ Len(FamPool(s, cells, r, f)) = 0
      BY <2>1, <3>1, FS_EmptySet DEF FamPool
    <3> QED BY <3>2
  <2>2. CASE f # NoFamily
    <3>1. g \in [W -> PoolCells(s, cells, f)] /\ \A i, j \in W : g[i] = g[j] => i = j
      <4>1. \A i, j \in W : at[entries[i]] = at[entries[j]] => i = j
        BY <1>4, StandingIs
      <4> HIDE DEF W
      <4> QED BY <1>5, <4>1
    <3> HIDE DEF g, W
    <3>2. Cardinality(W) <= Cardinality(PoolCells(s, cells, f))
      BY <1>3, <3>1, FewerThan
    <3> QED BY <1>3, <2>2, <3>2 DEF FamPool
  <2> QED BY <2>1, <2>2
<1> HIDE DEF W
<1> QED BY <1>2, <1>6

-----------------------------------------------------------------------------
(* The bags of a family are crowded: Crowded of any state. *)
CrowdedIn(s, cells, family) ==
  LET free == PoolCells(s, cells, family)
      items == {i \in Placed(s, cells) : FamilyOf[KindOf[i]] = family}
  IN /\ family # NoFamily
     /\ free # {}
     /\ \/ \E i \in items : KindOf[i] \in Junk
        \/ /\ Cardinality(items) > Cardinality(free)
           /\ \E i, j \in items : KindOf[i] # KindOf[j]

Roomy(s, cells) == \A k \in Kinds : ~CrowdedIn(s, cells, FamilyOf[k])

Spilled(s, cells, r, entries) == {k \in 1..Len(entries) : ~Special(s, cells, r, entries, k)}

(* Every entry that its family's bags do not seat can have a general cell: one of
   its family stands in one. *)
LEMMA SpilledFit ==
  ASSUME NEW s, NEW cells, NEW entries, Sorted(s, cells, entries), NEW at, Standing(s, cells, at), NEW r
  PROVE  /\ IsFiniteSet(Spilled(s, cells, r, entries)) /\ Cardinality(Spilled(s, cells, r, entries)) \in Nat
         /\ Len(PoolOf(s, cells, NoFamily, r)) \in Nat
         /\ Cardinality(Spilled(s, cells, r, entries)) <= Len(PoolOf(s, cells, NoFamily, r))
<1> DEFINE U == Spilled(s, cells, r, entries)
           V(f) == {j \in Kin(entries, f) : BagFamily[at[entries[j]]] = NoFamily}
           P(f) == Len(FamPool(s, cells, r, f))
           C == PoolCells(s, cells, NoFamily)
           pick(k) == Upward(V(Fam(entries, k)))[Seat(entries, k) - P(Fam(entries, k))]
           g == [k \in U |-> at[entries[pick(k)]]]
<1>1. Len(entries) \in Nat
  BY SortedAre
<1>2. Len(PoolOf(s, cells, NoFamily, r)) = Cardinality(C) /\ IsFiniteSet(C) /\ Cardinality(C) \in Nat
  <2>1. IsFiniteSet(Cells) /\ OkState(s) /\ cells \in SUBSET Cells
    BY DEF Sorted
  <2> QED BY <2>1, PoolIs, FS_CardinalityType
<1>3. ASSUME NEW f
      PROVE  /\ Lists(Upward(V(f)), V(f)) /\ Len(Upward(V(f))) = Cardinality(V(f))
             /\ Cardinality(V(f)) \in Nat /\ P(f) \in Nat
             /\ Cardinality(Kin(entries, f)) - P(f) <= Cardinality(V(f))
  <2>1. /\ IsFiniteSet(V(f)) /\ Cardinality(V(f)) \in Nat /\ P(f) \in Nat
        /\ Cardinality(Kin(entries, f)) - P(f) <= Cardinality(V(f))
    BY Overflow
  <2>2. V(f) \in SUBSET Nat
    BY DEF Kin
  <2> HIDE DEF V, P
  <2> QED BY <2>1, <2>2, UpwardIs
<1>4. ASSUME NEW k \in U
      PROVE  /\ k \in Kin(entries, Fam(entries, k))
             /\ Seat(entries, k) - P(Fam(entries, k)) \in 1..Len(Upward(V(Fam(entries, k))))
             /\ Seat(entries, k) \in Nat
  <2> DEFINE f == Fam(entries, k)
  <2>1. k \in Kin(entries, f) /\ ~(Seat(entries, k) <= P(f))
    BY DEF Spilled, Special, Kin
  <2>2. Seat(entries, k) \in 1..Cardinality(Kin(entries, f)) /\ Cardinality(Kin(entries, f)) \in Nat
    <3> HIDE DEF f
    <3> QED BY <2>1, KinSeats
  <2> HIDE DEF V, P
  <2> QED BY <1>3, <2>1, <2>2
<1>5. ASSUME NEW k \in U PROVE pick(k) \in V(Fam(entries, k))
  <2> HIDE DEF V, P
  <2> QED BY <1>3, <1>4 DEF Lists
<1>6. ASSUME NEW j \in U, NEW k \in U, pick(j) = pick(k) PROVE j = k
  <2> DEFINE f == Fam(entries, k)
  <2>1. Fam(entries, pick(j)) = Fam(entries, j) /\ Fam(entries, pick(k)) = Fam(entries, k)
    <3> HIDE DEF pick
    <3> QED BY <1>5 DEF Kin
  <2>2. Fam(entries, j) = f
    <3> HIDE DEF pick
    <3> QED BY <1>6, <2>1
  <2>3. Upward(V(f))[Seat(entries, j) - P(f)] = Upward(V(f))[Seat(entries, k) - P(f)]
    BY <1>6, <2>2
  <2>4. /\ Seat(entries, j) - P(f) \in 1..Len(Upward(V(f)))
        /\ Seat(entries, k) - P(f) \in 1..Len(Upward(V(f)))
        /\ Seat(entries, j) \in Nat /\ Seat(entries, k) \in Nat
        /\ j \in Kin(entries, f) /\ k \in Kin(entries, f)
    <3> HIDE DEF V, P
    <3> QED BY <1>4, <2>2
  <2>5. P(f) \in Nat /\ \A m, n \in 1..Len(Upward(V(f))) : Upward(V(f))[m] = Upward(V(f))[n] => m = n
    <3> HIDE DEF V, P
    <3> QED BY <1>3 DEF Lists
  <2> HIDE DEF V, P, f
  <2>6. Seat(entries, j) = Seat(entries, k)
    <3>1. Seat(entries, j) - P(f) = Seat(entries, k) - P(f)
      BY <2>3, <2>4, <2>5
    <3> QED BY <2>4, <2>5, <3>1
  <2>7. j \in Nat /\ k \in Nat
    BY DEF Spilled
  <2>8. ~(j < k) /\ ~(k < j)
    BY <2>4, <2>6, KinSeats
  <2> QED BY <2>7, <2>8
<1>7. ASSUME NEW k \in U PROVE pick(k) \in 1..Len(entries) /\ at[entries[pick(k)]] \in C
  <2>1. pick(k) \in 1..Len(entries) /\ BagFamily[at[entries[pick(k)]]] = NoFamily
    <3> HIDE DEF pick
    <3> QED BY <1>5 DEF Kin
  <2>2. at[entries[pick(k)]] \in Free(s, cells)
    <3> HIDE DEF pick
    <3> QED BY <2>1, StandingIs
  <2> QED BY <2>1, <2>2 DEF PoolCells
<1> HIDE DEF U, C, pick
<1>8. g \in [U -> C] /\ \A j, k \in U : g[j] = g[k] => j = k
  <2>1. ASSUME NEW j \in U, NEW k \in U, at[entries[pick(j)]] = at[entries[pick(k)]] PROVE j = k
    <3>1. pick(j) = pick(k)
      BY <1>7, <2>1, StandingIs
    <3> QED BY <1>6, <3>1
  <2> QED BY <1>7, <2>1
<1> HIDE DEF g
<1>9. IsFiniteSet(U) /\ Cardinality(U) \in Nat /\ Cardinality(U) <= Cardinality(C)
  BY <1>2, <1>8, FewerThan
<1> QED BY <1>2, <1>9 DEF U

(* The general cell of an entry its family's bags do not seat. *)
General(s, cells, r, entries, k) ==
  IF k <= Goods(entries) THEN Ahead(s, cells, r, entries, k)
  ELSE (Len(PoolOf(s, cells, NoFamily, r)) - Len(entries)) + k

(* What a sort of uncrowded bags begins with. *)
Sorting(s, cells, entries, at) ==
  Sorted(s, cells, entries) /\ Standing(s, cells, at) /\ Roomy(s, cells)

(* No special bag has room for junk. *)
LEMMA JunkSpills ==
  ASSUME NEW s, NEW cells, NEW entries, NEW at, Sorting(s, cells, entries, at), NEW r,
         NEW k \in 1..Len(entries), ~(k <= Goods(entries))
  PROVE  ~Special(s, cells, r, entries, k)
<1> DEFINE f == Fam(entries, k)
<1>1. /\ Sorted(s, cells, entries) /\ Roomy(s, cells)
      /\ IsFiniteSet(Cells) /\ OkState(s) /\ cells \in SUBSET Cells
  BY DEF Sorting, Sorted
<1>2. entries[k] \in Placed(s, cells) /\ KindOf[entries[k]] \in Kinds /\ KindOf[entries[k]] \in Junk
  BY <1>1, SortedAre, GoodsAre
<1>3. Seat(entries, k) \in Nat /\ Seat(entries, k) >= 1
  <2>1. k \in Kin(entries, f)
    BY DEF Kin
  <2> HIDE DEF f
  <2>2. Seat(entries, k) \in 1..Cardinality(Kin(entries, f))
    BY <1>1, <2>1, KinSeats
  <2> QED BY <2>2
<1>4. Len(FamPool(s, cells, r, f)) = 0
  <2>1. CASE f = NoFamily
    BY <2>1 DEF FamPool
  <2>2. CASE f # NoFamily
    <3>1. ~CrowdedIn(s, cells, f)
      BY <1>1, <1>2 DEF Roomy, Fam
    <3>2. PoolCells(s, cells, f) = {}
      BY <1>2, <2>2, <3>1 DEF CrowdedIn, Fam
    <3>3. Len(PoolOf(s, cells, f, r)) = Cardinality(PoolCells(s, cells, f))
      BY <1>1, PoolIs
    <3> HIDE DEF f
    <3>4. Len(PoolOf(s, cells, f, r)) = 0
      BY <3>2, <3>3, FS_EmptySet
    <3> QED BY <2>2, <3>4 DEF FamPool
  <2> QED BY <2>1, <2>2
<1> QED BY <1>3, <1>4 DEF Special

(* The general cells are handed out to those in their order, the junk at the end. *)
LEMMA GeneralIs ==
  ASSUME NEW s, NEW cells, NEW entries, NEW at, Sorting(s, cells, entries, at), NEW r
  PROVE  /\ \A k \in Spilled(s, cells, r, entries) :
              /\ General(s, cells, r, entries, k) \in 1..Len(PoolOf(s, cells, NoFamily, r))
              /\ Given(s, cells, r, entries)[k] = PoolOf(s, cells, NoFamily, r)[General(s, cells, r, entries, k)]
         /\ \A j, k \in Spilled(s, cells, r, entries) :
              j < k => General(s, cells, r, entries, j) < General(s, cells, r, entries, k)
<1> DEFINE N == Len(entries)
           G == Goods(entries)
           U == Spilled(s, cells, r, entries)
           L == Len(PoolOf(s, cells, NoFamily, r))
           ah(k) == Ahead(s, cells, r, entries, k)
           ge(k) == General(s, cells, r, entries, k)
           d == Given(s, cells, r, entries)
           pool == PoolOf(s, cells, NoFamily, r)
<1>1. Sorted(s, cells, entries) /\ Standing(s, cells, at)
  BY DEF Sorting
<1>2. N \in Nat /\ G \in 0..N /\ entries \in Seq(Items)
  BY <1>1, SortedAre, GoodsAre
<1>3. L \in Nat /\ IsFiniteSet(U) /\ Cardinality(U) \in Nat /\ Cardinality(U) <= L
  BY <1>1, SpilledFit
<1>4. U \in SUBSET (1..N) /\ \A k \in 1..N : k > G => k \in U
  <2>1. \A k \in 1..N : k > G => ~(k <= G)
    BY <1>2
  <2>2. \A k \in 1..N : ~(k <= G) => ~Special(s, cells, r, entries, k)
    BY JunkSpills
  <2> QED BY <2>1, <2>2 DEF Spilled
<1>5. \A k \in 0..N : ah(k) = Cardinality({j \in 1..k : j \in U})
  <2> SUFFICES ASSUME NEW k \in 0..N PROVE ah(k) = Cardinality({j \in 1..k : j \in U})
    OBVIOUS
  <2>1. \A j \in 1..k : j \in 1..N
    BY <1>2
  <2>2. \A j \in 1..k : j \in U <=> ~Special(s, cells, r, entries, j)
    BY <2>1 DEF Spilled
  <2>3. {j \in 1..k : j \in U} = {j \in 1..k : ~Special(s, cells, r, entries, j)}
    <3> HIDE DEF U
    <3> QED BY <2>2
  <2> QED BY <2>3 DEF Ahead
<1>6. \A k \in 1..N : ge(k) = IF k <= G THEN ah(k) ELSE (L - N) + k
  BY DEF General
<1>7. /\ \A k \in 1..G : d[k] = FromFront(s, cells, r, entries, k)
      /\ \A j \in 1..(N - G) : d[G + j] = FromBack(s, cells, r, entries, j)
  BY <1>2, GivenIs
<1>8. \A k \in U : k <= G => (ah(k) <= L => d[k] = pool[ah(k)])
  <2> SUFFICES ASSUME NEW k \in U, k <= G, ah(k) <= L PROVE d[k] = pool[ah(k)]
    OBVIOUS
  <2>1. k \in 1..G
    BY <1>2, <1>4
  <2>2. ~Special(s, cells, r, entries, k)
    BY DEF Spilled
  <2> QED BY <1>7, <2>1, <2>2 DEF FromFront
<1>9. \A k \in U : k > G => ((L - N) + k > ah(G) => d[k] = pool[(L - N) + k])
  <2> SUFFICES ASSUME NEW k \in U, k > G, (L - N) + k > ah(G) PROVE d[k] = pool[(L - N) + k]
    OBVIOUS
  <2>1. k - G \in 1..(N - G) /\ G + (k - G) = k
    BY <1>2, <1>4
  <2>2. d[k] = FromBack(s, cells, r, entries, k - G)
    <3> HIDE DEF d, G, N
    <3> QED BY <1>7, <2>1
  <2>3. Back(s, cells, r, entries, k - G) = (L - N) + k
    <3>1. Back(s, cells, r, entries, k - G) = (L - (N - G)) + (k - G)
      BY DEF Back
    <3>2. k \in Nat
      BY <1>4
    <3> HIDE DEF L, N, G
    <3> QED BY <1>2, <1>3, <3>1, <3>2
  <2> QED BY <2>2, <2>3 DEF FromBack
<1> HIDE DEF U, L, G, N, ah, ge, d, pool
<1>10. /\ \A k \in U : Cardinality({j \in 1..k : j \in U}) \in 1..Cardinality(U)
       /\ \A j, k \in U : j < k => Cardinality({i \in 1..j : i \in U}) < Cardinality({i \in 1..k : i \in U})
  BY <1>2, <1>4, SeatsAre
<1>11. /\ \A k \in U : ah(k) \in 1..Cardinality(U)
       /\ \A j, k \in U : j < k => ah(j) < ah(k)
  <2>1. \A k \in U : k \in 0..N
    BY <1>2, <1>4
  <2>2. \A k \in U : ah(k) = Cardinality({j \in 1..k : j \in U})
    BY <1>5, <2>1
  <2> QED BY <1>10, <2>2
<1>12. ah(G) \in Nat /\ ah(G) <= L - (N - G)
  <2> DEFINE F == {j \in 1..G : j \in U}
  <2>1. F \in SUBSET U /\ U \ F = (G + 1)..N
    <3>1. \A x : x \in U \ F <=> x \in (G + 1)..N
      <4> SUFFICES ASSUME NEW x PROVE x \in U \ F <=> x \in (G + 1)..N
        OBVIOUS
      <4>1. x \in U \ F => x \in (G + 1)..N
        BY <1>2, <1>4
      <4>2. x \in (G + 1)..N => x \in U \ F
        <5> SUFFICES ASSUME x \in (G + 1)..N PROVE x \in U \ F
          OBVIOUS
        <5>1. x \in 1..N /\ x > G /\ x \notin 1..G
          BY <1>2
        <5> QED BY <1>4, <5>1
      <4> QED BY <4>1, <4>2
    <3> QED BY <3>1
  <2> HIDE DEF F
  <2>2. /\ Cardinality(U) = Cardinality(F) + Cardinality(U \ F)
        /\ Cardinality(F) \in Nat
    BY <1>3, <2>1, CountApart
  <2>3. Cardinality((G + 1)..N) = N - G
    <3>1. G + 1 \in Int /\ N \in Int
      BY <1>2
    <3>2. Cardinality((G + 1)..N) = IF G + 1 > N THEN 0 ELSE (N - (G + 1)) + 1
      BY <3>1, FS_Interval
    <3> QED BY <1>2, <3>2
  <2>4. ah(G) = Cardinality(F)
    BY <1>2, <1>5 DEF F
  <2>5. Cardinality(U) = Cardinality(F) + (N - G)
    BY <2>1, <2>2, <2>3
  <2> QED BY <1>2, <1>3, <2>2, <2>4, <2>5
<1>13. \A k \in U : k <= G => ah(k) <= ah(G)
  <2> SUFFICES ASSUME NEW k \in U, k <= G PROVE ah(k) <= ah(G)
    OBVIOUS
  <2>1. {j \in 1..k : j \in U} \subseteq {j \in 1..G : j \in U}
    BY <1>2, <1>4
  <2>2. IsFiniteSet({j \in 1..G : j \in U})
    <3>1. {j \in 1..G : j \in U} \subseteq U
      OBVIOUS
    <3> QED BY <1>3, <3>1, FS_Subset
  <2>3. Cardinality({j \in 1..k : j \in U}) <= Cardinality({j \in 1..G : j \in U})
    BY <2>1, <2>2, FS_Subset
  <2> QED BY <1>2, <1>4, <1>5, <2>3
<1>14. ASSUME NEW k \in U PROVE k \in 1..N /\ ge(k) \in 1..L /\ d[k] = pool[ge(k)]
  <2>1. k \in 1..N
    BY <1>4
  <2>2. CASE k <= G
    <3>1. ge(k) = ah(k) /\ ah(k) \in 1..Cardinality(U)
      BY <1>6, <1>11, <2>1, <2>2
    <3> QED BY <1>3, <1>8, <2>1, <2>2, <3>1
  <2>3. CASE ~(k <= G)
    <3>1. ge(k) = (L - N) + k /\ k > G
      BY <1>2, <1>6, <2>1, <2>3
    <3>2. (L - N) + k > ah(G) /\ (L - N) + k \in 1..L
      BY <1>2, <1>3, <1>12, <2>1, <3>1
    <3> QED BY <1>9, <2>1, <3>1, <3>2
  <2> QED BY <2>2, <2>3
<1>15. ASSUME NEW j \in U, NEW k \in U, j < k PROVE ge(j) < ge(k)
  <2>1. j \in 1..N /\ k \in 1..N /\ ah(j) \in Nat
    BY <1>4, <1>11
  <2>2. CASE k <= G
    <3>1. j <= G
      BY <1>2, <1>15, <2>1, <2>2
    <3> QED BY <1>6, <1>11, <1>15, <2>1, <2>2, <3>1
  <2>3. CASE ~(k <= G) /\ j <= G
    <3>1. ge(j) = ah(j) /\ ge(k) = (L - N) + k /\ ah(j) <= ah(G)
      BY <1>6, <1>13, <2>1, <2>3
    <3> QED BY <1>2, <1>3, <1>12, <2>1, <2>3, <3>1
  <2>4. CASE ~(k <= G) /\ ~(j <= G)
    <3>1. ge(j) = (L - N) + j /\ ge(k) = (L - N) + k
      BY <1>6, <2>1, <2>4
    <3> QED BY <1>2, <1>3, <1>15, <2>1, <3>1
  <2> QED BY <2>2, <2>3, <2>4
<1> QED BY <1>14, <1>15 DEF U, L, ge, d, pool

(* Whose bags an entry goes to, and its number among them. *)
BagOf(s, cells, r, entries, k) ==
  IF Special(s, cells, r, entries, k) THEN Fam(entries, k) ELSE NoFamily

NumberOf(s, cells, r, entries, k) ==
  IF Special(s, cells, r, entries, k) THEN Seat(entries, k) ELSE General(s, cells, r, entries, k)

(* An entry's number in its bag's pool is one the pool has, and no other entry's. *)
LEMMA NumbersAre ==
  ASSUME NEW s, NEW cells, NEW entries, NEW at, Sorting(s, cells, entries, at), NEW r,
         NEW k \in 1..Len(entries), NEW f, f = BagOf(s, cells, r, entries, k)
  PROVE  /\ NumberOf(s, cells, r, entries, k) \in 1..Len(PoolOf(s, cells, f, r))
         /\ Given(s, cells, r, entries)[k] = PoolOf(s, cells, f, r)[NumberOf(s, cells, r, entries, k)]
         /\ f \in {NoFamily, Fam(entries, k)}
         /\ \A j \in 1..Len(entries) :
              j < k /\ BagOf(s, cells, r, entries, j) = f
              => NumberOf(s, cells, r, entries, j) < NumberOf(s, cells, r, entries, k)
<1>0. Sorted(s, cells, entries)
  BY DEF Sorting
<1>1. ASSUME NEW m \in 1..Len(entries), Special(s, cells, r, entries, m)
      PROVE  /\ BagOf(s, cells, r, entries, m) = Fam(entries, m) /\ Fam(entries, m) # NoFamily
             /\ NumberOf(s, cells, r, entries, m) = Seat(entries, m)
             /\ Seat(entries, m) \in 1..Len(PoolOf(s, cells, Fam(entries, m), r))
             /\ m \in Kin(entries, Fam(entries, m))
  <2>1. m \in Kin(entries, Fam(entries, m))
    BY DEF Kin
  <2>2. Seat(entries, m) \in 1..Cardinality(Kin(entries, Fam(entries, m)))
    BY <1>0, <2>1, KinSeats
  <2>3. Seat(entries, m) <= Len(FamPool(s, cells, r, Fam(entries, m)))
    BY <1>1 DEF Special
  <2>4. Fam(entries, m) # NoFamily
    <3>1. ASSUME Fam(entries, m) = NoFamily PROVE Len(FamPool(s, cells, r, Fam(entries, m))) = 0
      BY <3>1 DEF FamPool
    <3> QED BY <2>2, <2>3, <3>1
  <2>5. FamPool(s, cells, r, Fam(entries, m)) = PoolOf(s, cells, Fam(entries, m), r)
    BY <2>4 DEF FamPool
  <2>6. /\ Lists(PoolOf(s, cells, Fam(entries, m), r), PoolCells(s, cells, Fam(entries, m)))
    <3>1. IsFiniteSet(Cells) /\ OkState(s) /\ cells \in SUBSET Cells
      BY <1>0 DEF Sorted
    <3> QED BY <3>1, PoolIs
  <2>7. Len(PoolOf(s, cells, Fam(entries, m), r)) \in Nat
    BY <2>6 DEF Lists
  <2>8. Seat(entries, m) \in 1..Len(PoolOf(s, cells, Fam(entries, m), r))
    BY <2>2, <2>3, <2>5, <2>7
  <2> QED BY <1>1, <2>1, <2>4, <2>8 DEF BagOf, NumberOf
<1>2. ASSUME NEW m \in 1..Len(entries), ~Special(s, cells, r, entries, m)
      PROVE  /\ BagOf(s, cells, r, entries, m) = NoFamily
             /\ NumberOf(s, cells, r, entries, m) = General(s, cells, r, entries, m)
             /\ m \in Spilled(s, cells, r, entries)
  BY <1>2 DEF BagOf, NumberOf, Spilled
<1>3. Len(entries) \in Nat /\ entries \in Seq(Items) /\ Goods(entries) \in 0..Len(entries)
  BY <1>0, SortedAre, GoodsAre
<1>4. CASE Special(s, cells, r, entries, k)
  <2>1. k <= Goods(entries)
    BY <1>4, JunkSpills
  <2>2. k \in 1..Goods(entries)
    BY <1>3, <2>1
  <2>3. Given(s, cells, r, entries)[k] = FromFront(s, cells, r, entries, k)
    BY <1>3, <2>2, GivenIs
  <2>4. Given(s, cells, r, entries)[k] = PoolOf(s, cells, f, r)[NumberOf(s, cells, r, entries, k)]
    BY <1>1, <1>4, <2>3 DEF FromFront, FamPool
  <2>5. ASSUME NEW j \in 1..Len(entries), j < k, BagOf(s, cells, r, entries, j) = f
        PROVE  NumberOf(s, cells, r, entries, j) < NumberOf(s, cells, r, entries, k)
    <3>1. f = Fam(entries, k) /\ f # NoFamily /\ NumberOf(s, cells, r, entries, k) = Seat(entries, k) /\ k \in Kin(entries, f)
      BY <1>1, <1>4
    <3>2. Special(s, cells, r, entries, j)
      BY <1>2, <2>5, <3>1
    <3>3. f = Fam(entries, j) /\ NumberOf(s, cells, r, entries, j) = Seat(entries, j) /\ j \in Kin(entries, f)
      BY <1>1, <2>5, <3>2
    <3>4. Seat(entries, j) < Seat(entries, k)
      BY <1>0, <2>5, <3>1, <3>3, KinSeats
    <3> QED BY <3>1, <3>3, <3>4
  <2> QED BY <1>1, <1>4, <2>4, <2>5
<1>5. CASE ~Special(s, cells, r, entries, k)
  <2>1. /\ General(s, cells, r, entries, k) \in 1..Len(PoolOf(s, cells, NoFamily, r))
        /\ Given(s, cells, r, entries)[k] = PoolOf(s, cells, NoFamily, r)[General(s, cells, r, entries, k)]
    BY <1>2, <1>5, GeneralIs
  <2>2. ASSUME NEW j \in 1..Len(entries), j < k, BagOf(s, cells, r, entries, j) = f
        PROVE  NumberOf(s, cells, r, entries, j) < NumberOf(s, cells, r, entries, k)
    <3>1. f = NoFamily
      BY <1>2, <1>5
    <3>2. ~Special(s, cells, r, entries, j)
      BY <1>1, <2>2, <3>1
    <3>3. General(s, cells, r, entries, j) < General(s, cells, r, entries, k)
      BY <1>2, <1>5, <2>2, <3>2, GeneralIs
    <3> QED BY <1>2, <1>5, <3>2, <3>3
  <2> QED BY <1>2, <1>5, <2>1, <2>2
<1> QED BY <1>4, <1>5

-----------------------------------------------------------------------------
(* What a handing-out of cells to the entries gives them: each a free cell of its
   own, in a bag that takes it, ... *)
Seated(s, cells, entries, d) ==
  /\ DOMAIN d = 1..Len(entries)
  /\ \A k \in 1..Len(entries) : d[k] \in Free(s, cells) /\ BagFamily[d[k]] \in {NoFamily, Fam(entries, k)}
  /\ \A j, k \in 1..Len(entries) : d[j] = d[k] => j = k

(* ... bag by bag in the order of the records, ... *)
InRankOrder(entries, r, d) ==
  \A j, k \in 1..Len(entries) :
    BagFamily[d[j]] = BagFamily[d[k]] /\ Sooner(d[j], d[k], r)
    => Rank[KindOf[entries[j]]] <= Rank[KindOf[entries[k]]]

(* ... and when the bag an entry of a special bag stands in is not for all of its
   kind, its cell is still for one of the kind. *)
Alike(entries, j, k) == KindOf[entries[j]] = KindOf[entries[k]]

KeepsToBags(entries, at, d) ==
  \A k \in 1..Len(entries) : BagFamily[at[entries[k]]] # NoFamily =>
    \/ \A m \in 1..Len(entries) : Alike(entries, m, k) => BagFamily[d[m]] = BagFamily[at[entries[k]]]
    \/ \E m \in 1..Len(entries) : Alike(entries, m, k) /\ d[m] = at[entries[k]]

Handed(s, cells, r, entries, at, d) ==
  /\ Seated(s, cells, entries, d)
  /\ InRankOrder(entries, r, d)
  /\ KeepsToBags(entries, at, d)

(* The cursors give every entry a cell of its own, in order. *)
LEMMA GivenSeats ==
  ASSUME NEW s, NEW cells, NEW entries, NEW at, Sorting(s, cells, entries, at), NEW r \in BOOLEAN
  PROVE  /\ Seated(s, cells, entries, Given(s, cells, r, entries))
         /\ InRankOrder(entries, r, Given(s, cells, r, entries))
         /\ \A k \in 1..Len(entries) :
              BagFamily[Given(s, cells, r, entries)[k]] = BagOf(s, cells, r, entries, k)
<1> DEFINE d == Given(s, cells, r, entries)
           bag(k) == BagOf(s, cells, r, entries, k)
           num(k) == NumberOf(s, cells, r, entries, k)
           pool(f) == PoolOf(s, cells, f, r)
<1>0. Sorted(s, cells, entries)
  BY DEF Sorting
<1>1. /\ Len(entries) \in Nat /\ entries \in Seq(Items) /\ Goods(entries) \in 0..Len(entries)
      /\ \A k \in 1..Len(entries) : Rank[KindOf[entries[k]]] \in Nat
  BY <1>0, SortedAre, GoodsAre
<1>2. DOMAIN d = 1..Len(entries)
  BY <1>1, GivenIs
<1>3. ASSUME NEW k \in 1..Len(entries)
      PROVE  /\ num(k) \in 1..Len(pool(bag(k))) /\ d[k] = pool(bag(k))[num(k)]
             /\ bag(k) \in {NoFamily, Fam(entries, k)}
             /\ \A j \in 1..Len(entries) : j < k /\ bag(j) = bag(k) => num(j) < num(k)
  BY NumbersAre
<1>4. ASSUME NEW f
      PROVE  /\ Lists(pool(f), PoolCells(s, cells, f))
             /\ \A m, n \in 1..Len(pool(f)) : m < n => Sooner(pool(f)[m], pool(f)[n], r)
  <2>1. IsFiniteSet(Cells) /\ OkState(s) /\ cells \in SUBSET Cells
    BY <1>0 DEF Sorted
  <2> QED BY <2>1, PoolIs
<1> HIDE DEF d, bag, num, pool
<1>5. ASSUME NEW k \in 1..Len(entries)
      PROVE  d[k] \in Free(s, cells) /\ BagFamily[d[k]] = bag(k) /\ d[k] \in Nat
  <2>0. pool(bag(k)) \in Seq(PoolCells(s, cells, bag(k))) /\ num(k) \in 1..Len(pool(bag(k))) /\ d[k] = pool(bag(k))[num(k)]
    BY <1>3, <1>4 DEF Lists
  <2>1. d[k] \in PoolCells(s, cells, bag(k))
    BY <2>0
  <2>2. Free(s, cells) \subseteq Cells
    BY <1>0 DEF Free, Sorted
  <2> QED BY <2>1, <2>2, SortPlanAssumption DEF PoolCells
<1>6. ASSUME NEW j \in 1..Len(entries), NEW k \in 1..Len(entries), d[j] = d[k] PROVE j = k
  <2>1. bag(j) = bag(k)
    BY <1>5, <1>6
  <2>0. \A m, n \in 1..Len(pool(bag(k))) : pool(bag(k))[m] = pool(bag(k))[n] => m = n
    BY <1>4 DEF Lists
  <2>01. num(j) \in 1..Len(pool(bag(k))) /\ num(k) \in 1..Len(pool(bag(k)))
    BY <1>3, <2>1
  <2>02. pool(bag(k))[num(j)] = pool(bag(k))[num(k)]
    BY <1>3, <1>6, <2>1
  <2>2. num(j) = num(k)
    BY <2>0, <2>01, <2>02
  <2>3. num(j) \in Int /\ num(k) \in Int
    BY <1>3
  <2>4. ~(j < k) /\ ~(k < j)
    BY <1>3, <2>1, <2>2, <2>3
  <2> QED BY <1>1, <2>4
<1>7. ASSUME NEW j \in 1..Len(entries), NEW k \in 1..Len(entries),
             BagFamily[d[j]] = BagFamily[d[k]], Sooner(d[j], d[k], r)
      PROVE  Rank[KindOf[entries[j]]] <= Rank[KindOf[entries[k]]]
  <2>1. bag(j) = bag(k) /\ d[j] \in Nat /\ d[k] \in Nat
    BY <1>5, <1>7
  <2>2. num(j) \in Int /\ num(k) \in Int /\ num(j) \in 1..Len(pool(bag(k))) /\ num(k) \in 1..Len(pool(bag(k)))
    BY <1>3, <2>1
  <2>3. ~Sooner(d[k], d[j], r) /\ d[j] # d[k]
    BY <1>7, <2>1 DEF Sooner
  <2>4. ~(num(k) < num(j))
    BY <1>3, <1>4, <2>1, <2>2, <2>3
  <2>5. ~(k < j)
    BY <1>3, <2>1, <2>4
  <2>6. j # k
    BY <2>3
  <2>7. j < k
    BY <1>1, <2>5, <2>6
  <2> QED BY <1>0, <2>7 DEF Sorted
<1>8. Seated(s, cells, entries, d)
  BY <1>2, <1>3, <1>5, <1>6 DEF Seated
<1>9. InRankOrder(entries, r, d)
  BY <1>7 DEF InRankOrder
<1> QED BY <1>5, <1>8, <1>9 DEF d, bag

LEMMA KinItems ==
  ASSUME NEW s, NEW cells, NEW entries, Sorted(s, cells, entries), NEW f,
         NEW items, items = {i \in Placed(s, cells) : FamilyOf[KindOf[i]] = f}
  PROVE  /\ IsFiniteSet(items) /\ Cardinality(items) \in Nat
         /\ Cardinality(Kin(entries, f)) <= Cardinality(items)
<1> DEFINE K == Kin(entries, f)
           g == [m \in K |-> entries[m]]
           h == [i \in items |-> CHOOSE m \in 1..Len(entries) : entries[m] = i]
<1>1. /\ Len(entries) \in Nat
      /\ \A i \in Placed(s, cells) : \E m \in 1..Len(entries) : entries[m] = i
      /\ \A m \in 1..Len(entries) : entries[m] \in Placed(s, cells)
      /\ \A m, n \in 1..Len(entries) : entries[m] = entries[n] => m = n
  BY SortedAre
<1>2. \A i \in items : h[i] \in 1..Len(entries) /\ entries[h[i]] = i
  <2>1. \A i \in items : \E m \in 1..Len(entries) : entries[m] = i
    BY <1>1
  <2> QED BY <2>1
<1>3. h \in [items -> 1..Len(entries)] /\ \A x, y \in items : h[x] = h[y] => x = y
  <2>1. h = [i \in items |-> h[i]]
    OBVIOUS
  <2> HIDE DEF h
  <2> QED BY <1>2, <2>1
<1>4. IsFiniteSet(1..Len(entries))
  BY <1>1, FS_Interval
<1>5. IsFiniteSet(items)
  <2> HIDE DEF h
  <2> QED BY <1>3, <1>4, FewerThan
<1>6. \A m \in K : m \in 1..Len(entries) /\ entries[m] \in items
  BY <1>1 DEF Kin, Fam
<1> HIDE DEF K, h
<1>7. g \in [K -> items] /\ \A x, y \in K : g[x] = g[y] => x = y
  BY <1>1, <1>6
<1> HIDE DEF g
<1>8. Cardinality(K) <= Cardinality(items) /\ Cardinality(items) \in Nat
  BY <1>5, <1>7, FewerThan
<1> QED BY <1>5, <1>8 DEF K

(* Who stands in a special bag finds it, or just the cell, kept for the kind. *)
LEMMA GivenKeeps ==
  ASSUME NEW s, NEW cells, NEW entries, NEW at, Sorting(s, cells, entries, at), NEW r \in BOOLEAN
  PROVE  KeepsToBags(entries, at, Given(s, cells, r, entries))
<1> DEFINE d == Given(s, cells, r, entries)
<1>0. Sorted(s, cells, entries) /\ Standing(s, cells, at) /\ Roomy(s, cells)
  BY DEF Sorting
<1> SUFFICES ASSUME NEW k \in 1..Len(entries), BagFamily[at[entries[k]]] # NoFamily
             PROVE  \/ \A m \in 1..Len(entries) : Alike(entries, m, k) => BagFamily[d[m]] = BagFamily[at[entries[k]]]
                    \/ \E m \in 1..Len(entries) : Alike(entries, m, k) /\ d[m] = at[entries[k]]
  BY DEF KeepsToBags
<1> DEFINE f == BagFamily[at[entries[k]]]
<1>1. /\ f = Fam(entries, k) /\ f # NoFamily
      /\ at[entries[k]] \in PoolCells(s, cells, f)
  <2>1. at[entries[k]] \in Free(s, cells) /\ f \in {NoFamily, Fam(entries, k)}
    BY <1>0, StandingIs
  <2> QED BY <2>1 DEF PoolCells
<1>2. ASSUME NEW m \in 1..Len(entries)
      PROVE  BagFamily[d[m]] = BagOf(s, cells, r, entries, m)
  BY GivenSeats
<1>3. CASE \A m \in Kin(entries, f) : Special(s, cells, r, entries, m)
  <2>1. ASSUME NEW m \in 1..Len(entries), Alike(entries, m, k) PROVE BagFamily[d[m]] = f
    <3>1. m \in Kin(entries, f) /\ Fam(entries, m) = f
      BY <1>1, <2>1 DEF Kin, Alike, Fam
    <3> HIDE DEF d, f
    <3> QED BY <1>2, <1>3, <3>1 DEF BagOf
  <2> QED BY <2>1
<1>4. ASSUME NEW j \in Kin(entries, f), ~Special(s, cells, r, entries, j)
      PROVE  \E m \in 1..Len(entries) : Alike(entries, m, k) /\ d[m] = at[entries[k]]
  <2> DEFINE P == PoolOf(s, cells, f, r)
             items == {i \in Placed(s, cells) : FamilyOf[KindOf[i]] = f}
             K == Kin(entries, f)
  <2>1. /\ Lists(P, PoolCells(s, cells, f)) /\ Len(P) = Cardinality(PoolCells(s, cells, f))
        /\ Len(P) \in Nat
    <3>1. IsFiniteSet(Cells) /\ OkState(s) /\ cells \in SUBSET Cells
      BY <1>0 DEF Sorted
    <3>2. Lists(P, PoolCells(s, cells, f)) /\ Len(P) = Cardinality(PoolCells(s, cells, f))
      <4> HIDE DEF f
      <4> QED BY <3>1, PoolIs
    <3> HIDE DEF P
    <3> QED BY <3>2 DEF Lists
  <2>2. /\ Seat(entries, j) \in 1..Cardinality(K) /\ Cardinality(K) \in Nat /\ IsFiniteSet(K)
        /\ \A q \in 1..Cardinality(K) : \E m \in K : Seat(entries, m) = q
    <3> HIDE DEF f
    <3> QED BY <1>0, <1>4, KinSeats
  <2>3. \A m \in K : m \in 1..Len(entries) /\ Fam(entries, m) = f /\ FamPool(s, cells, r, Fam(entries, m)) = P
    BY <1>1 DEF Kin, FamPool
  <2>4. Len(P) < Cardinality(K)
    <3>1. ~(Seat(entries, j) <= Len(P))
      BY <1>4, <2>3 DEF Special
    <3> HIDE DEF P, K
    <3> QED BY <2>1, <2>2, <3>1
  <2>5. IsFiniteSet(items) /\ Cardinality(items) \in Nat /\ Cardinality(K) <= Cardinality(items)
    BY <1>0, KinItems
  <2>6. \A a, b \in items : KindOf[a] = KindOf[b]
    <3>1. ~CrowdedIn(s, cells, f)
      <4>1. KindOf[entries[k]] \in Kinds
        BY <1>0, SortedAre
      <4> QED BY <1>0, <1>1, <4>1 DEF Roomy, Fam
    <3>2. Cardinality(items) > Cardinality(PoolCells(s, cells, f))
      <4> HIDE DEF items, P, K
      <4> QED BY <2>1, <2>2, <2>4, <2>5
    <3> HIDE DEF f
    <3> QED BY <1>1, <3>1, <3>2 DEF CrowdedIn
  <2>7. PICK q \in 1..Len(P) : P[q] = at[entries[k]]
    <3> HIDE DEF P, f
    <3> QED BY <1>1, <2>1 DEF Lists
  <2>8. PICK m \in K : Seat(entries, m) = q
    <3>1. q \in 1..Cardinality(K)
      <4> HIDE DEF P, K
      <4> QED BY <2>1, <2>2, <2>4
    <3> HIDE DEF K
    <3> QED BY <2>2, <3>1
  <2>9. Special(s, cells, r, entries, m)
    <3>1. q <= Len(P)
      <4> HIDE DEF P
      <4> QED BY <2>1
    <3> QED BY <2>3, <2>8, <3>1 DEF Special
  <2>10. d[m] = P[Seat(entries, m)]
    <3>1. m \in 1..Len(entries) /\ Fam(entries, m) = f
      BY <2>3
    <3>2. BagOf(s, cells, r, entries, m) = f /\ NumberOf(s, cells, r, entries, m) = Seat(entries, m)
      BY <2>9, <3>1 DEF BagOf, NumberOf
    <3> HIDE DEF f
    <3> QED BY <3>1, <3>2, NumbersAre
  <2>11. Alike(entries, m, k)
    <3>1. entries[m] \in items /\ entries[k] \in items
      <4>1. \A n \in 1..Len(entries) : entries[n] \in Placed(s, cells)
        BY <1>0, SortedAre
      <4> QED BY <1>1, <2>3, <4>1 DEF Fam
    <3> HIDE DEF items
    <3> QED BY <2>6, <3>1 DEF Alike
  <2> QED BY <2>3, <2>7, <2>8, <2>10, <2>11
<1> QED BY <1>3, <1>4

(* What the cursors hand out, all together. *)
LEMMA GivenIsHanded ==
  ASSUME NEW s, NEW cells, NEW entries, NEW at, Sorting(s, cells, entries, at), NEW r \in BOOLEAN
  PROVE  Handed(s, cells, r, entries, at, Given(s, cells, r, entries))
  BY GivenSeats, GivenKeeps DEF Handed

(* Crowded bags or not, a cell that is handed out is free. *)
LEMMA GivenAreFree ==
  ASSUME NEW s, NEW cells, NEW entries, Sorted(s, cells, entries), NEW r
  PROVE  /\ DOMAIN Given(s, cells, r, entries) = 1..Len(entries)
         /\ \A k \in 1..Len(entries) : Given(s, cells, r, entries)[k] \in Free(s, cells) \cup {0}
<1> DEFINE d == Given(s, cells, r, entries)
           G == Goods(entries)
           N == Len(entries)
           U == Spilled(s, cells, r, entries)
           X == Free(s, cells) \cup {0}
<1>1. N \in Nat /\ entries \in Seq(Items) /\ G \in 0..N
  BY SortedAre, GoodsAre
<1>2. /\ DOMAIN d = 1..N
      /\ \A k \in 1..G : d[k] = FromFront(s, cells, r, entries, k)
      /\ \A j \in 1..(N - G) : d[G + j] = FromBack(s, cells, r, entries, j)
  BY <1>1, GivenIs
<1>3. ASSUME NEW f
      PROVE  /\ Len(PoolOf(s, cells, f, r)) \in Nat
             /\ \A q \in 1..Len(PoolOf(s, cells, f, r)) : PoolOf(s, cells, f, r)[q] \in X
  <2>1. IsFiniteSet(Cells) /\ OkState(s) /\ cells \in SUBSET Cells
    BY DEF Sorted
  <2>2. Lists(PoolOf(s, cells, f, r), PoolCells(s, cells, f))
    BY <2>1, PoolIs
  <2>3. PoolOf(s, cells, f, r) \in Seq(PoolCells(s, cells, f)) /\ PoolCells(s, cells, f) \subseteq X
    BY <2>2 DEF Lists, PoolCells
  <2> QED BY <2>3
<1>4. ASSUME NEW k \in 1..N, Special(s, cells, r, entries, k)
      PROVE  FamPool(s, cells, r, Fam(entries, k))[Seat(entries, k)] \in X
  <2>1. k \in Kin(entries, Fam(entries, k))
    BY DEF Kin
  <2>2. Seat(entries, k) \in 1..Cardinality(Kin(entries, Fam(entries, k)))
    BY <2>1, KinSeats
  <2>3. Seat(entries, k) <= Len(FamPool(s, cells, r, Fam(entries, k)))
    BY <1>4 DEF Special
  <2>4. Fam(entries, k) # NoFamily
    <3>1. ASSUME Fam(entries, k) = NoFamily PROVE Len(FamPool(s, cells, r, Fam(entries, k))) = 0
      BY <3>1 DEF FamPool
    <3> QED BY <2>2, <2>3, <3>1
  <2>5. FamPool(s, cells, r, Fam(entries, k)) = PoolOf(s, cells, Fam(entries, k), r)
    BY <2>4 DEF FamPool
  <2>6. Seat(entries, k) \in 1..Len(PoolOf(s, cells, Fam(entries, k), r))
    BY <1>3, <2>2, <2>3, <2>5
  <2> HIDE DEF X
  <2> QED BY <1>3, <2>5, <2>6
<1>5. ASSUME NEW k \in 0..N
      PROVE  /\ Ahead(s, cells, r, entries, k) \in Nat
             /\ k \in U => Ahead(s, cells, r, entries, k) >= 1
  <2> DEFINE V == {j \in 1..k : ~Special(s, cells, r, entries, j)}
  <2>1. Ahead(s, cells, r, entries, k) = Cardinality(V)
    BY DEF Ahead
  <2>2. V \in SUBSET (1..k) /\ k \in Nat
    BY <1>1
  <2>3. k \in U => k \in V
    BY <1>1 DEF Spilled
  <2> HIDE DEF V
  <2>4. /\ IsFiniteSet(V) /\ Cardinality(V) \in Nat
        /\ \A x \in V : Cardinality({j \in 1..x : j \in V}) \in 1..Cardinality(V)
    BY <2>2, SeatsAre
  <2>5. k \in V => Cardinality({j \in 1..k : j \in V}) \in 1..Cardinality(V)
    BY <2>4
  <2>6. \A c, n : n \in Nat /\ c \in 1..n => n >= 1
    OBVIOUS
  <2>7. k \in V => Cardinality(V) >= 1
    BY <2>4, <2>5, <2>6, Zenon
  <2> HIDE DEF U
  <2> QED BY <2>1, <2>3, <2>4, <2>7
<1> HIDE DEF d, G, N, X
<1>6. ASSUME NEW k \in 1..G PROVE d[k] \in X
  <2>1. k \in 1..N /\ k \in 0..N
    BY <1>1
  <2>2. CASE Special(s, cells, r, entries, k)
    BY <1>2, <1>4, <2>1, <2>2 DEF FromFront
  <2>3. CASE ~Special(s, cells, r, entries, k)
    <3>1. k \in U
      BY <2>1, <2>3 DEF Spilled, N
    <3>2. Ahead(s, cells, r, entries, k) \in Nat /\ Ahead(s, cells, r, entries, k) >= 1
      BY <1>5, <2>1, <3>1
    <3>3. CASE Ahead(s, cells, r, entries, k) <= Len(PoolOf(s, cells, NoFamily, r))
      <4>1. Ahead(s, cells, r, entries, k) \in 1..Len(PoolOf(s, cells, NoFamily, r))
        BY <1>3, <3>2, <3>3
      <4>2. d[k] = PoolOf(s, cells, NoFamily, r)[Ahead(s, cells, r, entries, k)]
        BY <1>2, <2>3, <3>3 DEF FromFront
      <4> QED BY <1>3, <4>1, <4>2
    <3>4. CASE ~(Ahead(s, cells, r, entries, k) <= Len(PoolOf(s, cells, NoFamily, r)))
      <4>1. d[k] = 0
        BY <1>2, <2>3, <3>4 DEF FromFront
      <4> QED BY <4>1 DEF X
    <3> QED BY <3>3, <3>4
  <2> QED BY <2>2, <2>3
<1>7. ASSUME NEW j \in 1..(N - G) PROVE d[G + j] \in X
  <2>1. Ahead(s, cells, r, entries, G) \in Nat
    BY <1>1, <1>5
  <2>2. Back(s, cells, r, entries, j) = (Len(PoolOf(s, cells, NoFamily, r)) - (N - G)) + j
    BY DEF Back, N, G
  <2>3. CASE Back(s, cells, r, entries, j) > Ahead(s, cells, r, entries, G)
    <3>1. Back(s, cells, r, entries, j) \in 1..Len(PoolOf(s, cells, NoFamily, r))
      BY <1>1, <1>3, <2>1, <2>2, <2>3
    <3>2. d[G + j] = PoolOf(s, cells, NoFamily, r)[Back(s, cells, r, entries, j)]
      BY <1>2, <2>3 DEF FromBack, G
    <3> QED BY <1>3, <3>1, <3>2
  <2>4. CASE ~(Back(s, cells, r, entries, j) > Ahead(s, cells, r, entries, G))
    <3>1. d[G + j] = 0
      BY <1>2, <2>4 DEF FromBack, G
    <3> QED BY <3>1 DEF X
  <2> QED BY <2>3, <2>4
<1>8. ASSUME NEW k \in 1..N PROVE d[k] \in X
  <2>1. k \in 1..G \/ (k - G \in 1..(N - G) /\ k = G + (k - G))
    BY <1>1
  <2> QED BY <1>6, <1>7, <2>1
<1> QED BY <1>2, <1>8 DEF d, N, X

-----------------------------------------------------------------------------
(* Keeping the members of a kind where they stand. *)

HomeRun(run, entries, d, at, X) ==
  LET n == Len(entries)
  IN /\ run[0] = d
     /\ \A i \in 0..n : run[i] \in [1..n -> X]
     /\ \A i \in 1..n : run[i] = Trade(run[i - 1], i, entries, at)
     /\ run[n] = KeepHome(entries, d, at)

LEMMA TradeStays ==
  ASSUME NEW entries, NEW n \in Nat, DOMAIN entries = 1..n, NEW X, NEW at, NEW d \in [1..n -> X], NEW m \in 1..n
  PROVE  Trade(d, m, entries, at) \in [1..n -> X]
<1> DEFINE takers == {j \in DOMAIN entries \ {m} : SameRun(entries, m, j) /\ d[j] = at[entries[m]]}
           t == CHOOSE x \in takers : TRUE
<1>1. Trade(d, m, entries, at) = IF takers = {} THEN d ELSE [d EXCEPT ![m] = d[t], ![t] = d[m]]
  BY DEF Trade
<1>2. takers # {} => t \in 1..n
  <2>1. takers \subseteq 1..n
    OBVIOUS
  <2>2. takers # {} => t \in takers
    <3> HIDE DEF takers
    <3> QED OBVIOUS
  <2> QED BY <2>1, <2>2
<1> HIDE DEF takers, t
<1> QED BY <1>1, <1>2

(* The trades of cells are a run with a state for each entry asked. *)
LEMMA HomeRuns ==
  ASSUME NEW entries \in Seq(Items), NEW X, NEW d \in [1..Len(entries) -> X], NEW at
  PROVE  \E run : HomeRun(run, entries, d, at, X)
<1> DEFINE N == Len(entries)
           list == [k \in DOMAIN entries |-> k]
           D == [1..N -> X]
           T(p, i) == Trade(p, list[i], entries, at)
           step == [x \in D \X (1..N) |-> T(x[1], x[2])]
<1>1. N \in Nat /\ DOMAIN entries = 1..N /\ DOMAIN list = 1..N /\ (\A i \in 1..N : list[i] = i) /\ d \in D
  OBVIOUS
<1>2. ASSUME NEW p \in D, NEW i \in 1..N PROVE T(p, i) \in D /\ T(p, i) = Trade(p, i, entries, at)
  BY <1>1, TradeStays
<1>3. ASSUME NEW h, h = [w \in SUBSET DOMAIN list |-> IF w = {} THEN d ELSE T(h[w \ {Max(w)}], Max(w))]
      PROVE  \E g : /\ g = [w \in SUBSET DOMAIN list |-> IF w = {} THEN d ELSE T(g[w \ {Max(w)}], Max(w))]
                    /\ KeepHome(entries, d, at) = g[DOMAIN list]
  BY <1>3 DEF KeepHome, FoldLeft, MapThenFoldSet
<1> HIDE DEF N, D, list, T
<1>4. step \in [D \X (1..N) -> D] /\ \A p \in D, i \in 1..N : step[p, i] = T(p, i)
  BY <1>2
<1> HIDE DEF step, Max
<1>5. PICK f : Walks(f, N, D, d, step)
  BY <1>1, <1>4, WalkExists
<1>6. \A w \in SUBSET (1..N) : w # {} => Max(w) \in 1..N /\ w \ {Max(w)} \in SUBSET (1..N)
  BY <1>1, MaxIsIn
<1>7. f = [w \in SUBSET DOMAIN list |-> IF w = {} THEN d ELSE T(f[w \ {Max(w)}], Max(w))]
  <2>1. /\ f \in [SUBSET (1..N) -> D]
        /\ \A w \in SUBSET (1..N) : f[w] = IF w = {} THEN d ELSE step[f[w \ {Max(w)}], Max(w)]
    BY <1>5 DEF Walks
  <2>2. \A w \in SUBSET (1..N) : w # {} => step[f[w \ {Max(w)}], Max(w)] = T(f[w \ {Max(w)}], Max(w))
    BY <1>4, <1>6, <2>1
  <2>3. \A w \in SUBSET (1..N) : f[w] = IF w = {} THEN d ELSE T(f[w \ {Max(w)}], Max(w))
    BY <2>1, <2>2
  <2> QED BY <1>1, <2>1, <2>3
<1>8. PICK h : /\ h = [w \in SUBSET DOMAIN list |-> IF w = {} THEN d ELSE T(h[w \ {Max(w)}], Max(w))]
               /\ KeepHome(entries, d, at) = h[DOMAIN list]
  BY <1>7, <1>3
<1>9. h[{}] = d /\ \A w \in SUBSET (1..N) : w # {} => h[w] = T(h[w \ {Max(w)}], Max(w))
  BY <1>1, <1>8
<1>10. Strides(h, N, D, d, step)
  <2>1. \A w \in SUBSET (1..N) : w # {} /\ h[w \ {Max(w)}] \in D => h[w] = step[h[w \ {Max(w)}], Max(w)]
    BY <1>4, <1>6, <1>9
  <2>2. \A p \in D, i \in 1..N : step[p, i] \in D
    BY <1>4
  <2> QED BY <1>1, <1>9, <2>1, <2>2 DEF Strides
<1>11. PICK run : Runs(run, N, D, d, step, h[1..N])
  BY <1>1, <1>4, <1>10, WalkRuns
<1>12. \A i \in 1..N : run[i] = Trade(run[i - 1], i, entries, at)
  <2>1. \A i \in 1..N : i - 1 \in 0..N
    BY <1>1
  <2> QED BY <1>2, <1>4, <1>11, <2>1, ZenonT(40) DEF Runs
<1>13. HomeRun(run, entries, d, at, X)
  BY <1>1, <1>8, <1>11, <1>12 DEF HomeRun, Runs, N, D
<1> QED BY <1>13

(* A run of one kind is all of the kind. *)
LEMMA SameRunIs ==
  ASSUME NEW s, NEW cells, NEW entries, Sorted(s, cells, entries),
         NEW m \in 1..Len(entries), NEW n \in 1..Len(entries)
  PROVE  SameRun(entries, m, n) <=> Alike(entries, n, m)
<1> DEFINE span == IF m < n THEN m..n ELSE n..m
<1>1. /\ Len(entries) \in Nat
      /\ \A k \in 1..Len(entries) : KindOf[entries[k]] \in Kinds /\ Rank[KindOf[entries[k]]] \in Nat
  BY SortedAre
<1>2. n \in span /\ \A j \in span : j \in 1..Len(entries)
  BY <1>1
<1>3. ASSUME KindOf[entries[n]] = KindOf[entries[m]], NEW j \in span PROVE KindOf[entries[j]] = KindOf[entries[m]]
  <2>1. j \in 1..Len(entries) /\ ((m <= j /\ j <= n) \/ (n <= j /\ j <= m))
    BY <1>1
  <2>2. \A a, b \in 1..Len(entries) : a <= b => Rank[KindOf[entries[a]]] <= Rank[KindOf[entries[b]]]
    <3> SUFFICES ASSUME NEW a \in 1..Len(entries), NEW b \in 1..Len(entries), a <= b
                 PROVE  Rank[KindOf[entries[a]]] <= Rank[KindOf[entries[b]]]
      OBVIOUS
    <3>1. a < b \/ a = b
      BY <1>1
    <3>2. CASE a < b
      BY <3>2 DEF Sorted
    <3>3. CASE a = b
      BY <1>1, <3>3
    <3> QED BY <3>1, <3>2, <3>3
  <2>3. Rank[KindOf[entries[j]]] = Rank[KindOf[entries[m]]]
    BY <1>1, <1>3, <2>1, <2>2
  <2> QED BY <1>1, <2>1, <2>3 DEF Sorted
<1> HIDE DEF span
<1>4. SameRun(entries, m, n) <=> \A j \in span : KindOf[entries[j]] = KindOf[entries[m]]
  BY DEF SameRun, span
<1> QED BY <1>2, <1>3, <1>4 DEF Alike

(* The cells have changed hands within the kinds, and the first n entries have
   asked for the cells they stand on. *)
Rehomed(entries, at, old, new, n) ==
  /\ \A j, k \in 1..Len(entries) : new[j] = new[k] => j = k
  /\ \A k \in 1..Len(entries) : \E m \in 1..Len(entries) : Alike(entries, m, k) /\ new[k] = old[m]
  /\ \A m \in 1..Len(entries) : \E k \in 1..Len(entries) : Alike(entries, m, k) /\ new[k] = old[m]
  /\ \A k \in 1..Len(entries) :
       k <= n /\ (\E m \in 1..Len(entries) : Alike(entries, m, k) /\ old[m] = at[entries[k]])
       => new[k] = at[entries[k]]

(* One trade: the cells stay within the kinds, and one more entry is at home if it can be. *)
LEMMA TradeRehomes ==
  ASSUME NEW s, NEW cells, NEW entries, Sorted(s, cells, entries), NEW at, Standing(s, cells, at),
         NEW X, NEW old, NEW d \in [1..Len(entries) -> X], NEW m \in 1..Len(entries), Rehomed(entries, at, old, d, m - 1)
  PROVE  Rehomed(entries, at, old, Trade(d, m, entries, at), m)
<1> DEFINE N == Len(entries)
           takers == {j \in DOMAIN entries \ {m} : SameRun(entries, m, j) /\ d[j] = at[entries[m]]}
           t == CHOOSE x \in takers : TRUE
           new == Trade(d, m, entries, at)
<1>1. N \in Nat /\ DOMAIN entries = 1..N
  BY SortedAre
<1>2. \A j, k \in 1..N : at[entries[j]] = at[entries[k]] => j = k
  BY StandingIs
<1>3. new = IF takers = {} THEN d ELSE [d EXCEPT ![m] = d[t], ![t] = d[m]]
  BY DEF Trade
<1>4. /\ \A j \in 1..N : j \in takers <=> j # m /\ Alike(entries, j, m) /\ d[j] = at[entries[m]]
      /\ takers \subseteq 1..N
  BY <1>1, SameRunIs
<1>5. /\ \A j, k \in 1..N : Alike(entries, j, k) => Alike(entries, k, j)
      /\ \A i, j, k \in 1..N : Alike(entries, i, j) /\ Alike(entries, j, k) => Alike(entries, i, k)
  BY DEF Alike
<1>6. /\ \A j, k \in 1..N : d[j] = d[k] => j = k
      /\ \A k \in 1..N : \E j \in 1..N : Alike(entries, j, k) /\ d[k] = old[j]
      /\ \A j \in 1..N : \E k \in 1..N : Alike(entries, j, k) /\ d[k] = old[j]
      /\ \A k \in 1..N : k <= m - 1 /\ (\E j \in 1..N : Alike(entries, j, k) /\ old[j] = at[entries[k]])
                         => d[k] = at[entries[k]]
  BY DEF Rehomed
<1>7. \A k \in 1..N : k <= m => k <= m - 1 \/ k = m
  BY <1>1
<1>8. takers # {} => t \in takers
  <2> HIDE DEF takers
  <2> QED OBVIOUS
<1> HIDE DEF takers, t, new, N
<1>9. CASE takers = {}
  <2>1. new = d
    BY <1>3, <1>9
  <2>2. ASSUME NEW j \in 1..N, Alike(entries, j, m), old[j] = at[entries[m]] PROVE d[m] = at[entries[m]]
    <3>1. PICK k \in 1..N : Alike(entries, j, k) /\ d[k] = old[j]
      BY <1>6
    <3>2. Alike(entries, k, m) /\ d[k] = at[entries[m]]
      BY <1>5, <2>2, <3>1, m \in 1..N DEF N
    <3>3. k = m
      BY <1>4, <1>9, <3>2
    <3> QED BY <3>2, <3>3
  <2>3. ASSUME NEW k \in 1..N, k <= m, NEW j \in 1..N, Alike(entries, j, k), old[j] = at[entries[k]]
        PROVE  d[k] = at[entries[k]]
    <3>1. CASE k = m
      BY <2>2, <2>3, <3>1
    <3>2. CASE k # m
      BY <1>6, <1>7, <2>3, <3>2
    <3> QED BY <3>1, <3>2
  <2>4. Rehomed(entries, at, old, d, m)
    <3> USE DEF N
    <3> QED BY <1>6, <2>3, Zenon DEF Rehomed
  <2> QED BY <2>1, <2>4 DEF new
<1>10. CASE takers # {}
  <2>1. t \in 1..N /\ t # m /\ Alike(entries, t, m) /\ d[t] = at[entries[m]] /\ m \in 1..N
    BY <1>4, <1>8, <1>10 DEF N
  <2>2. new[m] = d[t] /\ new[t] = d[m] /\ \A k \in 1..N : k # m /\ k # t => new[k] = d[k]
    BY <1>3, <1>10, <2>1 DEF N
  <2>3. ASSUME NEW j \in 1..N, NEW k \in 1..N, new[j] = new[k] PROVE j = k
    <3>1. \A i \in 1..N : new[i] = IF i = m THEN d[t] ELSE IF i = t THEN d[m] ELSE d[i]
      BY <2>1, <2>2
    <3>2. \A x, y \in 1..N : d[x] = d[y] => x = y
      BY <1>6
    <3> QED BY <2>1, <2>3, <3>1, <3>2
  <2>4. ASSUME NEW k \in 1..N PROVE \E j \in 1..N : Alike(entries, j, k) /\ new[k] = old[j]
    <3>1. CASE k # m /\ k # t
      BY <1>6, <2>2, <3>1
    <3>2. CASE k = m
      <4>1. PICK j \in 1..N : Alike(entries, j, t) /\ d[t] = old[j]
        BY <1>6, <2>1
      <4> QED BY <1>5, <2>1, <2>2, <3>2, <4>1
    <3>3. CASE k = t
      <4>1. PICK j \in 1..N : Alike(entries, j, m) /\ d[m] = old[j]
        BY <1>6, <2>1
      <4> QED BY <1>5, <2>1, <2>2, <3>3, <4>1
    <3> QED BY <3>1, <3>2, <3>3
  <2>5. ASSUME NEW j \in 1..N PROVE \E k \in 1..N : Alike(entries, j, k) /\ new[k] = old[j]
    <3>1. PICK k \in 1..N : Alike(entries, j, k) /\ d[k] = old[j]
      BY <1>6
    <3>2. CASE k # m /\ k # t
      BY <2>2, <3>1, <3>2
    <3>3. CASE k = m
      BY <1>5, <2>1, <2>2, <3>1, <3>3
    <3>4. CASE k = t
      BY <1>5, <2>1, <2>2, <3>1, <3>4
    <3> QED BY <3>2, <3>3, <3>4
  <2>6. ASSUME NEW k \in 1..N, k <= m, NEW j \in 1..N, Alike(entries, j, k), old[j] = at[entries[k]]
        PROVE  new[k] = at[entries[k]]
    <3>1. CASE k = m
      BY <2>1, <2>2, <3>1
    <3>2. CASE k # m
      <4>1. d[k] = at[entries[k]]
        BY <1>6, <1>7, <2>6, <3>2
      <4>2. k # t
        BY <1>2, <2>1, <3>2, <4>1 DEF N
      <4> QED BY <2>2, <3>2, <4>1, <4>2
    <3> QED BY <3>1, <3>2
  <2>7. Rehomed(entries, at, old, new, m)
    <3> USE DEF N
    <3> QED BY <2>3, <2>4, <2>5, <2>6, Zenon DEF Rehomed
  <2> QED BY <2>7 DEF new
<1> QED BY <1>9, <1>10

(* What the entries are given in the end. *)
LEMMA KeepHomeIs ==
  ASSUME NEW s, NEW cells, NEW entries, Sorted(s, cells, entries), NEW at, Standing(s, cells, at),
         NEW X, NEW d \in [1..Len(entries) -> X], \A j, k \in 1..Len(entries) : d[j] = d[k] => j = k
  PROVE  Rehomed(entries, at, d, KeepHome(entries, d, at), Len(entries))
<1> DEFINE N == Len(entries)
<1>1. N \in Nat /\ entries \in Seq(Items)
  BY SortedAre
<1>2. PICK run : HomeRun(run, entries, d, at, X)
  BY <1>1, HomeRuns
<1> DEFINE S == {i \in 0..N : Rehomed(entries, at, d, run[i], i)}
<1>3. 0 \in S
  <2>1. run[0] = d
    BY <1>2 DEF HomeRun
  <2>2. Rehomed(entries, at, d, d, 0)
    <3>1. \A k \in 1..N : Alike(entries, k, k) /\ ~(k <= 0)
      BY <1>1 DEF Alike
    <3> QED BY <3>1 DEF Rehomed
  <2> QED BY <1>1, <2>1, <2>2
<1>4. ASSUME NEW i \in 1..N, i - 1 \in S PROVE i \in S
  <2>1. run[i - 1] \in [1..N -> X] /\ run[i] = Trade(run[i - 1], i, entries, at) /\ i \in 0..N /\ i - 1 \in 0..N
    BY <1>1, <1>2 DEF HomeRun
  <2>2. Rehomed(entries, at, d, run[i - 1], i - 1)
    BY <1>4
  <2>3. Rehomed(entries, at, d, run[i], i)
    <3> HIDE DEF S
    <3>1. i \in 1..Len(entries) /\ run[i - 1] \in [1..Len(entries) -> X]
      BY <2>1
    <3>2. Rehomed(entries, at, d, Trade(run[i - 1], i, entries, at), i)
      BY <2>2, <3>1, TradeRehomes, Zenon
    <3> QED BY <2>1, <3>2
  <2> QED BY <2>1, <2>3
<1>5. N \in S
  <2> HIDE DEF S, N
  <2>1. \A i \in 0..N : i \in S
    BY <1>1, <1>3, <1>4, UpTo
  <2> QED BY <1>1, <2>1
<1> QED BY <1>2, <1>5 DEF HomeRun

(* The destinations of a sort: what was handed out, changed hands within the kinds.
   An entry in a special bag stays in the family's bags, and one whose cell is for
   its kind keeps it. *)
Returns(entries, at, d) ==
  \A k \in 1..Len(entries) : BagFamily[at[entries[k]]] # NoFamily => BagFamily[d[k]] = BagFamily[at[entries[k]]]

Remains(entries, at, d) ==
  \A j, k \in 1..Len(entries) : Alike(entries, j, k) /\ d[j] = at[entries[k]] => d[k] = at[entries[k]]

Homed(s, cells, r, entries, at, d) ==
  /\ Seated(s, cells, entries, d)
  /\ InRankOrder(entries, r, d)
  /\ Returns(entries, at, d)
  /\ Remains(entries, at, d)

(* The trades keep the order, and nobody has to leave a special bag. *)
LEMMA HandedHome ==
  ASSUME NEW s, NEW cells, NEW entries, Sorted(s, cells, entries), NEW at, NEW r,
         NEW old, Handed(s, cells, r, entries, at, old),
         NEW d, DOMAIN d = 1..Len(entries), Rehomed(entries, at, old, d, Len(entries))
  PROVE  Homed(s, cells, r, entries, at, d)
<1> DEFINE N == Len(entries)
<1>1. /\ \A j, k \in 1..N : d[j] = d[k] => j = k
      /\ \A k \in 1..N : \E m \in 1..N : Alike(entries, m, k) /\ d[k] = old[m]
      /\ \A k \in 1..N : \A m \in 1..N : Alike(entries, m, k) /\ old[m] = at[entries[k]] => d[k] = at[entries[k]]
  <2>1. N \in Nat /\ \A k \in 1..N : k <= N
    BY SortedAre
  <2> QED BY <2>1 DEF Rehomed
<1>2. /\ \A j, k \in 1..N : Alike(entries, j, k) => Alike(entries, k, j)
      /\ \A i, j, k \in 1..N : Alike(entries, i, j) /\ Alike(entries, j, k) => Alike(entries, i, k)
      /\ \A j, k \in 1..N : Alike(entries, j, k) => Fam(entries, j) = Fam(entries, k) /\ KindOf[entries[j]] = KindOf[entries[k]]
  BY DEF Alike, Fam
<1>3. Seated(s, cells, entries, d)
  <2>1. ASSUME NEW k \in 1..N PROVE d[k] \in Free(s, cells) /\ BagFamily[d[k]] \in {NoFamily, Fam(entries, k)}
    <3>1. PICK m \in 1..N : Alike(entries, m, k) /\ d[k] = old[m]
      BY <1>1
    <3>2. old[m] \in Free(s, cells) /\ BagFamily[old[m]] \in {NoFamily, Fam(entries, m)}
      BY DEF Handed, Seated
    <3> QED BY <1>2, <3>1, <3>2
  <2> QED BY <1>1, <2>1 DEF Seated
<1>4. InRankOrder(entries, r, d)
  <2> SUFFICES ASSUME NEW j \in 1..N, NEW k \in 1..N, BagFamily[d[j]] = BagFamily[d[k]], Sooner(d[j], d[k], r)
               PROVE  Rank[KindOf[entries[j]]] <= Rank[KindOf[entries[k]]]
    BY DEF InRankOrder
  <2>1. PICK m \in 1..N : Alike(entries, m, j) /\ d[j] = old[m]
    BY <1>1
  <2>2. PICK n \in 1..N : Alike(entries, n, k) /\ d[k] = old[n]
    BY <1>1
  <2>3. Rank[KindOf[entries[m]]] <= Rank[KindOf[entries[n]]]
    BY <2>1, <2>2 DEF Handed, InRankOrder
  <2> QED BY <1>2, <2>1, <2>2, <2>3
<1>5. Returns(entries, at, d)
  <2> SUFFICES ASSUME NEW k \in 1..N, BagFamily[at[entries[k]]] # NoFamily
               PROVE  BagFamily[d[k]] = BagFamily[at[entries[k]]]
    BY DEF Returns
  <2>1. PICK m \in 1..N : Alike(entries, m, k) /\ d[k] = old[m]
    BY <1>1
  <2>2. CASE \A n \in 1..N : Alike(entries, n, k) => BagFamily[old[n]] = BagFamily[at[entries[k]]]
    BY <2>1, <2>2
  <2>3. CASE \E n \in 1..N : Alike(entries, n, k) /\ old[n] = at[entries[k]]
    BY <1>1, <2>3
  <2> QED BY <2>2, <2>3 DEF Handed, KeepsToBags
<1>6. Remains(entries, at, d)
  <2> SUFFICES ASSUME NEW j \in 1..N, NEW k \in 1..N, Alike(entries, j, k), d[j] = at[entries[k]]
               PROVE  d[k] = at[entries[k]]
    BY DEF Remains
  <2>1. PICK m \in 1..N : Alike(entries, m, j) /\ d[j] = old[m]
    BY <1>1
  <2> QED BY <1>1, <1>2, <2>1
<1> QED BY <1>3, <1>4, <1>5, <1>6 DEF Homed

-----------------------------------------------------------------------------
(* The sends of phase two. *)

SwapsIn(cells) == {r \in Between(cells) : r.op = "swap"}

FireStates(s, cells) == [sent : Seq(SwapsIn(Free(s, cells))), at : [Placed(s, cells) -> Free(s, cells)]]

FireRun(run, s, cells, entries, d, at) ==
  LET n == Len(entries)
  IN /\ run[0] = [sent |-> <<>>, at |-> at]
     /\ \A i \in 0..n : run[i] \in FireStates(s, cells)
     /\ \A i \in 1..n : run[i] = FireSwap(run[i - 1], i, entries, d)
     /\ run[n] = FireSwaps(entries, d, at)

(* A send between free cells. *)
Fires(p, k, entries, d) == d[k] # 0 /\ d[k] # p.at[entries[k]]

LEMMA FireIs ==
  ASSUME NEW p, NEW k, NEW entries, NEW d
  PROVE  /\ ~Fires(p, k, entries, d) => FireSwap(p, k, entries, d) = p
         /\ Fires(p, k, entries, d) =>
              /\ FireSwap(p, k, entries, d).sent = Append(p.sent, Swap(p.at[entries[k]], d[k]))
              /\ DOMAIN FireSwap(p, k, entries, d).at = DOMAIN p.at
              /\ \A i \in DOMAIN p.at :
                   FireSwap(p, k, entries, d).at[i] =
                     IF i = entries[k] THEN d[k]
                     ELSE IF p.at[i] = d[k] THEN p.at[entries[k]] ELSE p.at[i]
<1>1. ASSUME ~Fires(p, k, entries, d) PROVE FireSwap(p, k, entries, d) = p
  BY <1>1 DEF Fires, FireSwap
<1>2. ASSUME Fires(p, k, entries, d)
      PROVE  /\ FireSwap(p, k, entries, d).sent = Append(p.sent, Swap(p.at[entries[k]], d[k]))
             /\ DOMAIN FireSwap(p, k, entries, d).at = DOMAIN p.at
             /\ \A i \in DOMAIN p.at :
                   FireSwap(p, k, entries, d).at[i] =
                     IF i = entries[k] THEN d[k]
                     ELSE IF p.at[i] = d[k] THEN p.at[entries[k]] ELSE p.at[i]
  <2>1. FireSwap(p, k, entries, d) =
          [sent |-> Append(p.sent, Swap(p.at[entries[k]], d[k])),
           at |-> [i \in DOMAIN p.at |-> IF i = entries[k] THEN d[k]
                                         ELSE IF p.at[i] = d[k] THEN p.at[entries[k]] ELSE p.at[i]]]
    BY <1>2 DEF Fires, FireSwap
  <2> QED BY <2>1
<1> QED BY <1>1, <1>2

LEMMA FireStays ==
  ASSUME NEW s, OkState(s), NEW cells \in SUBSET Cells, NEW entries, NEW d, NEW k,
         entries[k] \in Placed(s, cells), d[k] \in Free(s, cells) \cup {0},
         NEW p \in FireStates(s, cells)
  PROVE  FireSwap(p, k, entries, d) \in FireStates(s, cells)
<1> DEFINE F == Free(s, cells)
           P == Placed(s, cells)
           new == FireSwap(p, k, entries, d)
<1>1. F \subseteq Cells
  BY DEF Free
<1>2. p.sent \in Seq(SwapsIn(F)) /\ p.at \in [P -> F]
  BY DEF FireStates
<1>3. CASE ~Fires(p, k, entries, d)
  BY <1>3, FireIs
<1>4. CASE Fires(p, k, entries, d)
  <2>1. d[k] \in F /\ p.at[entries[k]] \in F /\ p.at[entries[k]] # d[k]
    BY <1>2, <1>4 DEF Fires
  <2>2. Swap(p.at[entries[k]], d[k]) \in SwapsIn(F)
    <3> DEFINE r == Swap(p.at[entries[k]], d[k])
    <3>1. r = [op |-> "swap", src |-> p.at[entries[k]], dst |-> d[k], n |-> 0]
      BY DEF Swap
    <3>2. r \in Requests
      BY <1>1, <2>1, <3>1 DEF Requests
    <3> QED BY <2>1, <3>1, <3>2 DEF SwapsIn, Between
  <2> DEFINE moved == [i \in P |-> IF i = entries[k] THEN d[k]
                                  ELSE IF p.at[i] = d[k] THEN p.at[entries[k]] ELSE p.at[i]]
  <2>3. new = [sent |-> Append(p.sent, Swap(p.at[entries[k]], d[k])), at |-> moved]
    <3>1. DOMAIN p.at = P
      BY <1>2
    <3> QED BY <1>4, <3>1 DEF Fires, FireSwap
  <2>4. moved \in [P -> F]
    BY <1>2, <2>1
  <2>5. Append(p.sent, Swap(p.at[entries[k]], d[k])) \in Seq(SwapsIn(F))
    BY <1>2, <2>2
  <2> HIDE DEF F, P, moved, new
  <2>6. new \in [sent : Seq(SwapsIn(F)), at : [P -> F]]
    BY <2>3, <2>4, <2>5
  <2> QED BY <2>6 DEF FireStates, F, P, new
<1> QED BY <1>3, <1>4

(* Sending the swaps is a run with a state for each entry. *)
LEMMA FireRuns ==
  ASSUME NEW s, NEW cells, NEW entries, Sorted(s, cells, entries), NEW d,
         \A k \in 1..Len(entries) : d[k] \in Free(s, cells) \cup {0},
         NEW at \in [Placed(s, cells) -> Free(s, cells)]
  PROVE  \E run : FireRun(run, s, cells, entries, d, at)
<1> DEFINE N == Len(entries)
           list == [k \in DOMAIN entries |-> k]
           D == FireStates(s, cells)
           q == [sent |-> <<>>, at |-> at]
           T(p, i) == FireSwap(p, list[i], entries, d)
           step == [x \in D \X (1..N) |-> T(x[1], x[2])]
<1>1. N \in Nat /\ DOMAIN entries = 1..N /\ DOMAIN list = 1..N /\ (\A i \in 1..N : list[i] = i) /\ q \in D
  <2>1. N \in Nat /\ DOMAIN entries = 1..N
    BY SortedAre
  <2>2. q \in D
    BY DEF FireStates
  <2> QED BY <2>1, <2>2
<1>2. ASSUME NEW p \in D, NEW i \in 1..N PROVE T(p, i) \in D /\ T(p, i) = FireSwap(p, i, entries, d)
  <2>1. entries[i] \in Placed(s, cells) /\ d[i] \in Free(s, cells) \cup {0}
    BY SortedAre
  <2>2. OkState(s) /\ cells \in SUBSET Cells
    BY DEF Sorted
  <2>3. FireSwap(p, i, entries, d) \in D
    BY <2>1, <2>2, FireStays
  <2> QED BY <1>1, <2>3
<1>3. ASSUME NEW h, h = [w \in SUBSET DOMAIN list |-> IF w = {} THEN q ELSE T(h[w \ {Max(w)}], Max(w))]
      PROVE  \E g : /\ g = [w \in SUBSET DOMAIN list |-> IF w = {} THEN q ELSE T(g[w \ {Max(w)}], Max(w))]
                    /\ FireSwaps(entries, d, at) = g[DOMAIN list]
  BY <1>3 DEF FireSwaps, FoldLeft, MapThenFoldSet
<1> HIDE DEF N, D, list, q, T
<1>4. step \in [D \X (1..N) -> D] /\ \A p \in D, i \in 1..N : step[p, i] = T(p, i)
  BY <1>2
<1> HIDE DEF step, Max
<1>5. PICK f : Walks(f, N, D, q, step)
  BY <1>1, <1>4, WalkExists
<1>6. \A w \in SUBSET (1..N) : w # {} => Max(w) \in 1..N /\ w \ {Max(w)} \in SUBSET (1..N)
  BY <1>1, MaxIsIn
<1>7. f = [w \in SUBSET DOMAIN list |-> IF w = {} THEN q ELSE T(f[w \ {Max(w)}], Max(w))]
  <2>1. /\ f \in [SUBSET (1..N) -> D]
        /\ \A w \in SUBSET (1..N) : f[w] = IF w = {} THEN q ELSE step[f[w \ {Max(w)}], Max(w)]
    BY <1>5 DEF Walks
  <2>2. \A w \in SUBSET (1..N) : w # {} => step[f[w \ {Max(w)}], Max(w)] = T(f[w \ {Max(w)}], Max(w))
    BY <1>4, <1>6, <2>1
  <2>3. \A w \in SUBSET (1..N) : f[w] = IF w = {} THEN q ELSE T(f[w \ {Max(w)}], Max(w))
    BY <2>1, <2>2
  <2> QED BY <1>1, <2>1, <2>3
<1>8. PICK h : /\ h = [w \in SUBSET DOMAIN list |-> IF w = {} THEN q ELSE T(h[w \ {Max(w)}], Max(w))]
               /\ FireSwaps(entries, d, at) = h[DOMAIN list]
  BY <1>7, <1>3
<1>9. h[{}] = q /\ \A w \in SUBSET (1..N) : w # {} => h[w] = T(h[w \ {Max(w)}], Max(w))
  BY <1>1, <1>8
<1>10. Strides(h, N, D, q, step)
  <2>1. \A w \in SUBSET (1..N) : w # {} /\ h[w \ {Max(w)}] \in D => h[w] = step[h[w \ {Max(w)}], Max(w)]
    BY <1>4, <1>6, <1>9
  <2>2. \A p \in D, i \in 1..N : step[p, i] \in D
    BY <1>4
  <2> QED BY <1>1, <1>9, <2>1, <2>2 DEF Strides
<1>11. PICK run : Runs(run, N, D, q, step, h[1..N])
  BY <1>1, <1>4, <1>10, WalkRuns
<1>12. \A i \in 1..N : run[i] = FireSwap(run[i - 1], i, entries, d)
  <2>1. \A i \in 1..N : i - 1 \in 0..N
    BY <1>1
  <2> QED BY <1>2, <1>4, <1>11, <2>1 DEF Runs
<1>13. FireRun(run, s, cells, entries, d, at)
  BY <1>1, <1>8, <1>11, <1>12 DEF FireRun, Runs, N, D, q
<1> QED BY <1>13

-----------------------------------------------------------------------------
(* What a request of phase two does to the bags. *)

(* An honoured request that swaps. *)
Exchanges(s, r) == r.op = "swap" /\ ~CanStack(s.count, s.bags[r.src], s.bags[r.dst])

(* What a swap of two different kinds does. *)
LEMMA AfterExchange ==
  ASSUME NEW s, OkState(s), NEW r \in Requests, Exchanges(s, r), NEW e, e = After(s, r)
  PROVE  /\ e.count = s.count /\ Loaded(e)
         /\ DOMAIN e.bags = Cells
         /\ \A c \in Cells : e.bags[c] = IF c = r.src THEN s.bags[r.dst]
                                         ELSE IF c = r.dst THEN s.bags[r.src] ELSE s.bags[c]
<1>1. r.src \in Cells /\ r.dst \in Cells /\ r.src # r.dst
  BY DEF Requests
<1>2. e = [bags |-> SwapCells(s.bags, r.src, r.dst), count |-> s.count]
  BY DEF Exchanges, After
<1>3. DOMAIN s.bags = Cells
  BY OkCells
<1> QED BY <1>1, <1>2, <1>3 DEF SwapCells, Loaded

(* An honoured request of phase two that does not only moves counts. *)
LEMMA AfterEvening ==
  ASSUME NEW s, OkState(s), NEW r \in Requests, Honourable(s, r), Keeps(s, r), ~Exchanges(s, r), NEW e, e = After(s, r)
  PROVE  /\ e.bags = s.bags /\ Loaded(e)
         /\ r.op = "swap" =>
              e.count = [s.count EXCEPT ![s.bags[r.src]] = (s.count[s.bags[r.src]] + s.count[s.bags[r.dst]]) - MaxStack[KindOf[s.bags[r.src]]],
                                        ![s.bags[r.dst]] = MaxStack[KindOf[s.bags[r.src]]]]
<1> DEFINE a == s.bags[r.src]
           b == s.bags[r.dst]
           max == MaxStack[KindOf[a]]
<1>1. r.op = "split" \/ r.op = "swap"
  BY DEF Requests
<1>2. CASE r.op = "split"
  <2>1. e = [bags |-> s.bags, count |-> Stack(s.count, a, b, r.n)]
    BY <1>2 DEF After
  <2> QED BY <1>2, <2>1 DEF Loaded
<1>3. CASE r.op = "swap"
  <2>1. r.op # "split" /\ CanStack(s.count, a, b)
    BY <1>3 DEF Exchanges
  <2>2. s.count[a] + s.count[b] > max
    BY <1>3, <2>1 DEF Keeps
  <2>3. a # None /\ b # None
    BY <2>1 DEF CanStack
  <2>4. a \in Items /\ b \in Items
    BY <2>3, OkCells DEF Requests
  <2>5. s.count[a] \in Nat /\ s.count[b] \in Nat /\ max \in Nat
    BY <2>4, StackTypes
  <2>6. ~(s.count[a] + s.count[b] <= max)
    BY <2>2, <2>5
  <2>7. e = [bags |-> s.bags, count |-> [s.count EXCEPT ![a] = (s.count[a] + s.count[b]) - max, ![b] = max]]
    BY <2>1, <2>6 DEF After
  <2> QED BY <2>7 DEF Loaded
<1> QED BY <1>1, <1>2, <1>3

(* It leaves the same items in the bags, and the same ones in the cells that a
   sort may use. *)
SameFloor(s, e, cells) ==
  /\ InBags(e.bags) = InBags(s.bags)
  /\ Free(e, cells) = Free(s, cells)
  /\ Placed(e, cells) = Placed(s, cells)

LEMMA SameBagsSameFloor ==
  ASSUME NEW s, NEW e, e.bags = s.bags, NEW cells
  PROVE  SameFloor(s, e, cells)
  BY DEF SameFloor, Free, Placed, ViewOf

LEMMA KeepAfter ==
  ASSUME NEW s, OkState(s), NEW cells \in SUBSET Cells, NEW r \in Requests, Honourable(s, r), Keeps(s, r),
         r.op = "swap" => r.src \in Free(s, cells) /\ r.dst \in Free(s, cells), NEW e, e = After(s, r)
  PROVE  SameFloor(s, e, cells) /\ Loaded(e)
<1>1. CASE ~Exchanges(s, r)
  BY <1>1, AfterEvening, SameBagsSameFloor
<1>2. CASE Exchanges(s, r)
  <2> DEFINE c == r.src
             d == r.dst
  <2>1. /\ DOMAIN e.bags = Cells /\ Loaded(e)
        /\ \A x \in Cells : e.bags[x] = IF x = c THEN s.bags[d] ELSE IF x = d THEN s.bags[c] ELSE s.bags[x]
    BY <1>2, AfterExchange
  <2>2. c \in Cells /\ d \in Cells /\ c # d /\ c \in Free(s, cells) /\ d \in Free(s, cells) /\ c \in cells /\ d \in cells
    BY <1>2 DEF Requests, Exchanges, Free
  <2>3. DOMAIN s.bags = Cells
    BY OkCells
  <2> HIDE DEF c, d
  <2>4. InBags(e.bags) = InBags(s.bags)
    <3>1. ASSUME NEW i PROVE i \in InBags(e.bags) <=> i \in InBags(s.bags)
      <4>1. i \in InBags(e.bags) <=> i # None /\ \E x \in Cells : e.bags[x] = i
        BY <2>1 DEF InBags
      <4>2. i \in InBags(s.bags) <=> i # None /\ \E x \in Cells : s.bags[x] = i
        BY <2>3 DEF InBags
      <4>3. (\E x \in Cells : e.bags[x] = i) <=> (\E x \in Cells : s.bags[x] = i)
        BY <2>1, <2>2
      <4> QED BY <4>1, <4>2, <4>3
    <3> QED BY <3>1, Zenon
  <2>5. Free(e, cells) = Free(s, cells)
    <3>1. ASSUME NEW x PROVE x \in Free(e, cells) <=> x \in Free(s, cells)
      <4>1. CASE x = c
        BY <2>1, <2>2, <4>1 DEF Free
      <4>2. CASE x = d
        BY <2>1, <2>2, <4>2 DEF Free
      <4>3. CASE x # c /\ x # d
        BY <2>1, <4>3 DEF Free
      <4> QED BY <4>1, <4>2, <4>3
    <3> QED BY <3>1, Zenon
  <2>6. InBags(ViewOf(e, cells)) = InBags(ViewOf(s, cells))
    <3>1. ASSUME NEW i PROVE i \in InBags(ViewOf(e, cells)) <=> i \in InBags(ViewOf(s, cells))
      <4>1. i \in InBags(ViewOf(e, cells)) <=> i # None /\ \E x \in cells : e.bags[x] = i
        BY DEF InBags, ViewOf
      <4>2. i \in InBags(ViewOf(s, cells)) <=> i # None /\ \E x \in cells : s.bags[x] = i
        BY DEF InBags, ViewOf
      <4>3. (\E x \in cells : e.bags[x] = i) <=> (\E x \in cells : s.bags[x] = i)
        BY <2>1, <2>2
      <4> QED BY <4>1, <4>2, <4>3
    <3> QED BY <3>1, Zenon
  <2>7. Placed(e, cells) = Placed(s, cells)
    BY <2>6 DEF Placed
  <2> QED BY <2>1, <2>4, <2>5, <2>7 DEF SameFloor
<1> QED BY <1>1, <1>2

(* With the same floor a family's bags are as crowded. *)
LEMMA FloorIsRoomy ==
  ASSUME NEW s, NEW e, NEW cells, SameFloor(s, e, cells)
  PROVE  Roomy(e, cells) <=> Roomy(s, cells)
  BY DEF SameFloor, Roomy, CrowdedIn, PoolCells

(* Tidy stacks stay tidy: one of two that could be evened out is full. *)
LEMMA KeepTidy ==
  ASSUME NEW s, OkState(s), NEW cells \in SUBSET Cells, Tidy(s, cells),
         NEW r \in Requests, r.op = "swap", r.src \in Free(s, cells), r.dst \in Free(s, cells), Honourable(s, r),
         NEW e, e = After(s, r)
  PROVE  Keeps(s, r) /\ Tidy(e, cells)
<1> DEFINE a == s.bags[r.src]
           b == s.bags[r.dst]
           max == MaxStack[KindOf[a]]
           P == Placed(s, cells)
<1>1. CASE Exchanges(s, r)
  <2>1. Keeps(s, r)
    BY <1>1 DEF Exchanges, Keeps
  <2>2. e.count = s.count
    BY <1>1, AfterExchange
  <2>3. Placed(e, cells) = P
    BY <2>1, KeepAfter DEF SameFloor
  <2> QED BY <2>1, <2>2, <2>3 DEF Tidy
<1>2. CASE ~Exchanges(s, r)
  <2>1. a # None /\ b # None /\ KindOf[a] = KindOf[b] /\ s.count[b] < max
    BY <1>2 DEF Exchanges, CanStack
  <2>2. r.src \in Cells /\ r.dst \in Cells /\ r.src # r.dst
    BY DEF Requests
  <2>3. a \in P /\ b \in P /\ a # b /\ a \in Items /\ b \in Items
    <3>1. a \in P /\ b \in P /\ P \subseteq Items
      BY <2>1, PlacedAre
    <3>2. a # b
      BY <2>1, <2>2, OkCells
    <3> QED BY <3>1, <3>2
  <2>4. /\ s.count[a] \in 1..max /\ s.count[b] \in 1..max /\ max \in Nat
    BY <2>1, <2>3, PlacedAre, StackTypes
  <2>5. s.count[a] = max
    <3>1. s.count[a] > 0 /\ s.count[b] > 0 /\ s.count[b] # max
      BY <2>1, <2>4
    <3> QED BY <2>1, <2>3, <3>1 DEF Tidy, Packed
  <2>6. s.count[a] + s.count[b] > max
    BY <2>4, <2>5
  <2>7. Keeps(s, r)
    BY <2>6 DEF Keeps
  <2>8. Placed(e, cells) = P
    BY <2>7, KeepAfter DEF SameFloor
  <2>9. e.count = [s.count EXCEPT ![a] = (s.count[a] + s.count[b]) - max, ![b] = max]
    BY <1>2, <2>7, AfterEvening
  <2>10. s.count \in [Items -> Nat]
    BY DEF OkState
  <2>11. e.count[a] = s.count[b] /\ e.count[b] = max /\ \A i \in Items \ {a, b} : e.count[i] = s.count[i]
    <3> HIDE DEF a, b, max, P
    <3>1. a # b /\ a \in Items /\ b \in Items /\ DOMAIN s.count = Items
      BY <2>3, <2>10
    <3>2. (s.count[a] + s.count[b]) - max = s.count[b]
      BY <2>4, <2>5
    <3>3. e.count = [s.count EXCEPT ![a] = s.count[b], ![b] = max]
      BY <2>9, <3>2
    <3> QED BY <3>1, <3>3
  <2>12. Tidy(e, cells)
    <3> SUFFICES ASSUME NEW i \in P, NEW j \in P, i # j, KindOf[i] = KindOf[j], e.count[i] > 0, e.count[j] > 0
                 PROVE  e.count[i] = MaxStack[KindOf[i]] \/ e.count[j] = MaxStack[KindOf[j]]
      BY <2>8 DEF Tidy, Packed
    <3>1. P \subseteq Items /\ \A k \in P : s.count[k] > 0
      BY PlacedAre
    <3>2. \A k, l \in P : k # l /\ KindOf[k] = KindOf[l] => s.count[k] = MaxStack[KindOf[k]] \/ s.count[l] = MaxStack[KindOf[l]]
      BY <3>1 DEF Tidy, Packed
    <3> HIDE DEF P, a, b, max
    <3>3. MaxStack[KindOf[a]] = max /\ MaxStack[KindOf[b]] = max
      BY <2>1 DEF max, a, b
    <3>4. s.count[b] # max
      BY <2>1, <2>4
    <3>5. CASE i = b \/ j = b
      BY <2>11, <3>3, <3>5
    <3>6. CASE i # b /\ j # b /\ i = a
      <4>1. s.count[j] = MaxStack[KindOf[j]]
        BY <2>1, <2>3, <3>2, <3>3, <3>4, <3>6 DEF a, b
      <4> QED BY <2>11, <3>1, <3>6, <4>1
    <3>7. CASE i # b /\ j # b /\ j = a
      <4>1. s.count[i] = MaxStack[KindOf[i]]
        BY <2>1, <2>3, <3>2, <3>3, <3>4, <3>7 DEF a, b
      <4> QED BY <2>11, <3>1, <3>7, <4>1
    <3>8. CASE i # b /\ j # b /\ i # a /\ j # a
      BY <2>11, <3>1, <3>2, <3>8
    <3> QED BY <3>5, <3>6, <3>7, <3>8
  <2> QED BY <2>7, <2>12
<1> QED BY <1>1, <1>2

-----------------------------------------------------------------------------
(* What the planner believes, and what the bags are like meanwhile. *)

Belief(entries, d, at, n) ==
  /\ \A j, k \in 1..Len(entries) : at[entries[j]] = at[entries[k]] => j = k
  /\ Returns(entries, at, d)
  /\ \A k \in 1..Len(entries) : k <= n => at[entries[k]] = d[k]

(* One more entry sent home keeps those before it at home. *)
LEMMA BeliefMoves ==
  ASSUME NEW s, NEW cells, NEW entries, Sorted(s, cells, entries), NEW d, Seated(s, cells, entries, d),
         NEW p \in FireStates(s, cells), NEW k \in 1..Len(entries), Belief(entries, d, p.at, k - 1)
  PROVE  Belief(entries, d, FireSwap(p, k, entries, d).at, k)
<1> DEFINE N == Len(entries)
           new == FireSwap(p, k, entries, d).at
           from == p.at[entries[k]]
<1>1. /\ N \in Nat /\ \A j \in 1..N : entries[j] \in Placed(s, cells)
      /\ \A i, j \in 1..N : entries[i] = entries[j] => i = j
  BY SortedAre
<1>2. /\ \A i, j \in 1..N : p.at[entries[i]] = p.at[entries[j]] => i = j
      /\ \A j \in 1..N : BagFamily[p.at[entries[j]]] # NoFamily => BagFamily[d[j]] = BagFamily[p.at[entries[j]]]
      /\ \A j \in 1..N : j <= k - 1 => p.at[entries[j]] = d[j]
  BY DEF Belief, Returns
<1>3. /\ \A i, j \in 1..N : d[i] = d[j] => i = j
      /\ d[k] # 0
  <2>1. d[k] \in Free(s, cells)
    BY DEF Seated
  <2>2. Free(s, cells) \subseteq Cells
    BY DEF Sorted, Free
  <2> QED BY <2>1, <2>2, SortPlanAssumption DEF Seated
<1>4. \A j \in 1..N : j <= k => j <= k - 1 \/ j = k
  BY <1>1
<1>5. CASE ~Fires(p, k, entries, d)
  <2>1. new = p.at /\ p.at[entries[k]] = d[k]
    BY <1>3, <1>5, FireIs DEF Fires
  <2>2. \A j \in 1..N : j <= k => p.at[entries[j]] = d[j]
    BY <1>2, <1>4, <2>1
  <2>3. Belief(entries, d, p.at, k)
    BY <2>2 DEF Belief
  <2> QED BY <2>1, <2>3
<1>6. CASE Fires(p, k, entries, d)
  <2>1. DOMAIN p.at = Placed(s, cells)
    BY DEF FireStates
  <2>2. \A i \in Placed(s, cells) : new[i] = IF i = entries[k] THEN d[k] ELSE IF p.at[i] = d[k] THEN from ELSE p.at[i]
    BY <1>6, <2>1, FireIs
  <2>3. ASSUME NEW j \in 1..N
        PROVE  new[entries[j]] = IF j = k THEN d[k] ELSE IF p.at[entries[j]] = d[k] THEN from ELSE p.at[entries[j]]
    BY <1>1, <2>2, <2>3
  <2>4. from # d[k]
    BY <1>6 DEF Fires
  <2> HIDE DEF new, N
  <2>5. ASSUME NEW i \in 1..N, NEW j \in 1..N, new[entries[i]] = new[entries[j]] PROVE i = j
    <3>0. k \in 1..N
      BY DEF N
    <3>1. CASE i = k \/ j = k
      BY <1>2, <2>3, <2>4, <2>5, <3>0, <3>1
    <3>2. CASE i # k /\ j # k
      BY <1>2, <2>3, <2>4, <2>5, <3>0, <3>2
    <3> QED BY <3>1, <3>2
  <2>6. ASSUME NEW j \in 1..N, BagFamily[new[entries[j]]] # NoFamily
        PROVE  BagFamily[d[j]] = BagFamily[new[entries[j]]]
    <3>0. k \in 1..N
      BY DEF N
    <3>1. CASE j = k
      BY <2>3, <3>1
    <3>2. CASE j # k /\ p.at[entries[j]] = d[k]
      <4>1. BagFamily[d[k]] = BagFamily[from] /\ BagFamily[from] # NoFamily
        BY <1>2, <2>3, <2>6, <3>0, <3>2
      <4>2. BagFamily[d[j]] = BagFamily[d[k]]
        BY <1>2, <3>2, <4>1
      <4> QED BY <2>3, <3>2, <4>1, <4>2
    <3>3. CASE j # k /\ p.at[entries[j]] # d[k]
      BY <1>2, <2>3, <2>6, <3>3
    <3> QED BY <3>1, <3>2, <3>3
  <2>7. ASSUME NEW j \in 1..N, j <= k PROVE new[entries[j]] = d[j]
    <3>0. k \in 1..N
      BY DEF N
    <3>1. CASE j = k
      BY <2>3, <3>1
    <3>2. CASE j # k
      <4>1. p.at[entries[j]] = d[j]
        BY <1>2, <1>4, <2>7, <3>2
      <4>2. d[j] # d[k]
        BY <1>3, <3>0, <3>2
      <4> QED BY <2>3, <3>2, <4>1, <4>2
    <3> QED BY <3>1, <3>2
  <2>8. Belief(entries, d, new, k)
    BY <2>5, <2>6, <2>7 DEF Belief, Returns, N
  <2> QED BY <2>8 DEF new
<1> QED BY <1>5, <1>6

(* The bags x, come from s, are as the planner believes as far as the kinds go. *)
Shown(s, cells, entries, at, x) ==
  /\ OkState(x) /\ Loaded(x) /\ Tidy(x, cells)
  /\ SameFloor(s, x, cells)
  /\ \A c \in Free(s, cells) : x.bags[c] # None => \E k \in 1..Len(entries) : at[entries[k]] = c
  /\ \A k \in 1..Len(entries) : x.bags[at[entries[k]]] # None /\ KindOf[x.bags[at[entries[k]]]] = KindOf[entries[k]]

(* A send of phase two that the server honours. *)
Served(x, cells, r) ==
  /\ r \in Requests /\ r.op = "swap" /\ r.src \in Free(x, cells) /\ r.dst \in Free(x, cells)
  /\ Honourable(x, r) /\ Keeps(x, r)

FiringNow(s, cells, entries, d, p, k, x) ==
  /\ Sorted(s, cells, entries) /\ Seated(s, cells, entries, d)
  /\ p \in FireStates(s, cells) /\ k \in 1..Len(entries) /\ Belief(entries, d, p.at, k - 1)
  /\ Shown(s, cells, entries, p.at, x) /\ Fires(p, k, entries, d)

(* The server can honour the swap an entry asks for. *)
LEMMA ShownFires ==
  ASSUME NEW s, NEW cells, NEW entries, NEW d, NEW p, NEW k, NEW x,
         FiringNow(s, cells, entries, d, p, k, x)
  PROVE  Served(x, cells, Swap(p.at[entries[k]], d[k]))
<1> DEFINE N == Len(entries)
           from == p.at[entries[k]]
           a == x.bags[from]
           b == x.bags[d[k]]
           r == Swap(p.at[entries[k]], d[k])
<1>0. /\ Sorted(s, cells, entries) /\ Seated(s, cells, entries, d)
      /\ p \in FireStates(s, cells) /\ k \in 1..Len(entries) /\ Belief(entries, d, p.at, k - 1)
      /\ Shown(s, cells, entries, p.at, x) /\ Fires(p, k, entries, d)
  BY DEF FiringNow
<1>1. /\ N \in Nat /\ \A j \in 1..N : entries[j] \in Placed(s, cells)
      /\ OkState(s) /\ cells \in SUBSET Cells
  BY <1>0, SortedAre DEF Sorted
<1>2. p.at \in [Placed(s, cells) -> Free(s, cells)]
  BY <1>0 DEF FireStates
<1>3. /\ from \in Free(s, cells) /\ d[k] \in Free(s, cells) /\ from # d[k]
      /\ Free(s, cells) \subseteq Cells /\ Free(x, cells) = Free(s, cells)
  BY <1>0, <1>1, <1>2 DEF Fires, Seated, Shown, SameFloor, Free
<1>4. r.op = "swap" /\ r.src = from /\ r.dst = d[k] /\ r \in Requests
  <2>1. r = [op |-> "swap", src |-> from, dst |-> d[k], n |-> 0]
    BY DEF Swap
  <2> HIDE DEF from, r
  <2> QED BY <1>3, <2>1 DEF Requests
<1>5. a # None /\ KindOf[a] = KindOf[entries[k]]
  BY <1>0 DEF Shown
<1>6. Fits(a, d[k])
  <2>1. BagFamily[d[k]] \in {NoFamily, Fam(entries, k)}
    BY <1>0 DEF Seated
  <2> QED BY <1>5, <2>1 DEF Fits, Fam
<1>7. Fits(b, from)
  <2> SUFFICES ASSUME b # None PROVE BagFamily[from] \in {NoFamily, FamilyOf[KindOf[b]]}
    BY DEF Fits
  <2>1. PICK j \in 1..N : p.at[entries[j]] = d[k]
    BY <1>0, <1>3 DEF Shown
  <2>2. KindOf[b] = KindOf[entries[j]]
    BY <1>0, <2>1 DEF Shown
  <2>3. ASSUME BagFamily[from] # NoFamily PROVE BagFamily[from] = Fam(entries, j)
    <3>1. BagFamily[d[k]] = BagFamily[from]
      BY <1>0, <2>3 DEF Belief, Returns
    <3>2. BagFamily[d[j]] = BagFamily[d[k]]
      BY <1>0, <2>1, <2>3, <3>1 DEF Belief, Returns
    <3>3. BagFamily[d[j]] \in {NoFamily, Fam(entries, j)}
      BY <1>0 DEF Seated
    <3> QED BY <2>3, <3>1, <3>2, <3>3
  <2> QED BY <2>2, <2>3 DEF Fam
<1>8. Honourable(x, r)
  <2> HIDE DEF from, r
  <2> QED BY <1>4, <1>5, <1>6, <1>7 DEF Honourable
<1>9. Keeps(x, r)
  <2>1. OkState(x) /\ Tidy(x, cells)
    BY <1>0 DEF Shown
  <2> HIDE DEF from, r
  <2> QED BY <1>1, <1>3, <1>4, <1>8, <2>1, KeepTidy
<1>10. r.src \in Free(x, cells) /\ r.dst \in Free(x, cells)
  <2> HIDE DEF r, from
  <2> QED BY <1>3, <1>4
<1> HIDE DEF r
<1>11. Served(x, cells, r)
  BY <1>4, <1>8, <1>9, <1>10 DEF Served
<1> QED BY <1>11 DEF r

(* What the plan believes of the cells after a swap is what they show, kind by kind. *)
LEMMA ShownMoves ==
  ASSUME NEW s, NEW cells, NEW entries, NEW d, NEW p, NEW k, NEW x,
         FiringNow(s, cells, entries, d, p, k, x)
  PROVE  Shown(s, cells, entries, FireSwap(p, k, entries, d).at, After(x, Swap(p.at[entries[k]], d[k])))
<1> DEFINE N == Len(entries)
           new == FireSwap(p, k, entries, d).at
           from == p.at[entries[k]]
           to == d[k]
           r == Swap(p.at[entries[k]], d[k])
           y == After(x, r)
           a == x.bags[from]
           b == x.bags[to]
<1>a. /\ Sorted(s, cells, entries) /\ Seated(s, cells, entries, d)
      /\ p \in FireStates(s, cells) /\ k \in 1..Len(entries) /\ Belief(entries, d, p.at, k - 1)
      /\ Shown(s, cells, entries, p.at, x) /\ Fires(p, k, entries, d)
  BY DEF FiringNow
<1>0. /\ \A j \in 1..N : entries[j] \in Placed(s, cells)
      /\ \A i, j \in 1..N : entries[i] = entries[j] => i = j
      /\ cells \in SUBSET Cells /\ k \in 1..N
  BY <1>a, SortedAre DEF Sorted
<1>1. /\ r \in Requests /\ r.op = "swap" /\ r.src \in Free(x, cells) /\ r.dst \in Free(x, cells)
      /\ r.src = from /\ r.dst = to
      /\ Honourable(x, r) /\ Keeps(x, r)
  <2>1. Served(x, cells, r)
    BY ShownFires
  <2>2. r = [op |-> "swap", src |-> from, dst |-> to, n |-> 0]
    BY DEF Swap
  <2> HIDE DEF r, from, to
  <2> QED BY <2>1, <2>2 DEF Served
<1>2. /\ OkState(x) /\ Tidy(x, cells) /\ SameFloor(s, x, cells)
      /\ \A c \in Free(s, cells) : x.bags[c] # None => \E j \in 1..N : p.at[entries[j]] = c
      /\ \A j \in 1..N : x.bags[p.at[entries[j]]] # None /\ KindOf[x.bags[p.at[entries[j]]]] = KindOf[entries[j]]
  BY <1>a DEF Shown
<1>3. SameFloor(x, y, cells) /\ Loaded(y)
  BY <1>0, <1>1, <1>2, KeepAfter
<1>4. OkState(y) /\ Tidy(y, cells)
  BY <1>0, <1>1, <1>2, AfterIsOk, KeepTidy
<1>5. SameFloor(s, y, cells)
  BY <1>2, <1>3 DEF SameFloor
<1>6. from # to /\ from \in Cells /\ to \in Cells
  BY <1>1 DEF Requests
<1>7. \A j \in 1..N : new[entries[j]] = IF j = k THEN to ELSE IF p.at[entries[j]] = to THEN from ELSE p.at[entries[j]]
  <2>1. DOMAIN p.at = Placed(s, cells)
    BY <1>a DEF FireStates
  <2>2. \A i \in Placed(s, cells) : new[i] = IF i = entries[k] THEN to ELSE IF p.at[i] = to THEN from ELSE p.at[i]
    BY <1>a, <2>1, FireIs
  <2> QED BY <1>0, <2>2
<1>8. \A i, j \in 1..N : p.at[entries[i]] = p.at[entries[j]] => i = j
  BY <1>a DEF Belief
<1>9. /\ \A c \in Cells : c # from /\ c # to => y.bags[c] = x.bags[c]
      /\ b = None => y.bags[from] = None
      /\ b # None => y.bags[from] # None /\ KindOf[y.bags[from]] = KindOf[b]
      /\ y.bags[to] # None /\ KindOf[y.bags[to]] = KindOf[a]
  <2>1. a # None
    BY <1>0, <1>2
  <2>2. CASE Exchanges(x, r)
    <3>1. \A c \in Cells : y.bags[c] = IF c = r.src THEN x.bags[r.dst] ELSE IF c = r.dst THEN x.bags[r.src] ELSE x.bags[c]
      BY <1>1, <1>2, <2>2, AfterExchange
    <3>2. y.bags[from] = b /\ y.bags[to] = a /\ \A c \in Cells : c # from /\ c # to => y.bags[c] = x.bags[c]
      <4> HIDE DEF from, to, y, r
      <4> QED BY <1>1, <1>6, <3>1
    <3> HIDE DEF from, to, y, a, b, r
    <3> QED BY <2>1, <3>2
  <2>3. CASE ~Exchanges(x, r)
    <3>1. y.bags = x.bags
      <4>1. y = After(x, r)
        OBVIOUS
      <4> HIDE DEF r, y
      <4>2. r \in Requests /\ Honourable(x, r) /\ Keeps(x, r) /\ OkState(x)
        BY <1>1, <1>2
      <4> HIDE DEF from, to, a, b
      <4> QED BY <2>3, <4>1, <4>2, AfterEvening, Zenon
    <3>2. a # None /\ b # None /\ KindOf[a] = KindOf[b]
      BY <1>1, <2>3 DEF Exchanges, CanStack
    <3>3. y.bags[from] = a /\ y.bags[to] = b
      BY <3>1
    <3> HIDE DEF from, to, y, a, b, r
    <3> QED BY <3>1, <3>2, <3>3
  <2> QED BY <2>2, <2>3
<1> HIDE DEF N, new, y, to, from, r
<1>10. p.at[entries[k]] = from
  BY DEF from
<1>11. Free(s, cells) \subseteq Cells /\ \A j \in 1..N : p.at[entries[j]] \in Cells
  <2>1. Free(s, cells) \subseteq Cells
    BY <1>0 DEF Free
  <2>2. p.at \in [Placed(s, cells) -> Free(s, cells)]
    BY <1>a DEF FireStates
  <2> QED BY <1>0, <2>1, <2>2
<1>12. ASSUME NEW c \in Free(s, cells), y.bags[c] # None PROVE \E j \in 1..N : new[entries[j]] = c
  <2>1. CASE c = from
    <3>1. b # None
      BY <1>9, <1>12, <2>1
    <3>2. to \in Free(s, cells)
      BY <1>1, <1>2 DEF SameFloor
    <3>3. PICK j \in 1..N : p.at[entries[j]] = to
      BY <1>2, <3>1, <3>2
    <3> QED BY <1>6, <1>7, <1>10, <2>1, <3>3
  <2>2. CASE c = to
    BY <1>0, <1>7, <2>2
  <2>3. CASE c # from /\ c # to
    <3>1. PICK j \in 1..N : p.at[entries[j]] = c
      BY <1>2, <1>9, <1>11, <1>12, <2>3
    <3> QED BY <1>7, <1>10, <2>3, <3>1
  <2> QED BY <2>1, <2>2, <2>3
<1>13. ASSUME NEW j \in 1..N
       PROVE  y.bags[new[entries[j]]] # None /\ KindOf[y.bags[new[entries[j]]]] = KindOf[entries[j]]
  <2>1. CASE j = k
    <3>1. KindOf[a] = KindOf[entries[k]]
      BY <1>0, <1>2, <1>10
    <3> QED BY <1>7, <1>9, <2>1, <3>1
  <2>2. CASE j # k /\ p.at[entries[j]] = to
    <3>1. b # None /\ KindOf[b] = KindOf[entries[j]]
      BY <1>2, <2>2
    <3> QED BY <1>7, <1>9, <2>2, <3>1
  <2>3. CASE j # k /\ p.at[entries[j]] # to
    <3>1. p.at[entries[j]] # from
      BY <1>0, <1>8, <1>10, <2>3
    <3>2. y.bags[p.at[entries[j]]] = x.bags[p.at[entries[j]]]
      BY <1>9, <1>11, <2>3, <3>1
    <3> QED BY <1>2, <1>7, <2>3, <3>2
  <2> QED BY <2>1, <2>2, <2>3
<1>14. Shown(s, cells, entries, new, y)
  BY <1>3, <1>4, <1>5, <1>12, <1>13 DEF Shown, N
<1> QED BY <1>14 DEF new, y, r

(* All the sends of phase two are honoured, and each item ends where the planner
   believes it does, or one of its kind. *)
Fired(s, cells, entries, d, f) ==
  /\ f \in FireStates(s, cells)
  /\ Belief(entries, d, f.at, Len(entries))
  /\ \E x : Leads("keep", s, f.sent, x) /\ Shown(s, cells, entries, f.at, x)

(* All the swaps: each can be honoured in turn, and every entry's kind gets to its cell. *)
LEMMA FiredIs ==
  ASSUME NEW s, Loaded(s), NEW cells, Tidy(s, cells), NEW entries, Sorted(s, cells, entries),
         NEW at \in [Placed(s, cells) -> Free(s, cells)], Standing(s, cells, at),
         NEW d, Seated(s, cells, entries, d), Returns(entries, at, d),
         NEW f, f = FireSwaps(entries, d, at)
  PROVE  Fired(s, cells, entries, d, f)
<1> DEFINE N == Len(entries)
           Good(p, n) == /\ Belief(entries, d, p.at, n)
                         /\ \E x : Leads("keep", s, p.sent, x) /\ Shown(s, cells, entries, p.at, x)
<1>1. /\ N \in Nat /\ \A k \in 1..N : entries[k] \in Placed(s, cells)
      /\ \A i \in Placed(s, cells) : \E k \in 1..N : entries[k] = i
      /\ OkState(s) /\ cells \in SUBSET Cells
  BY SortedAre DEF Sorted
<1>2. PICK run : FireRun(run, s, cells, entries, d, at)
  <2>1. \A k \in 1..Len(entries) : d[k] \in Free(s, cells) \cup {0}
    BY DEF Seated
  <2> QED BY <2>1, FireRuns
<1>3. /\ run[0] = [sent |-> <<>>, at |-> at]
      /\ \A i \in 0..N : run[i] \in FireStates(s, cells)
      /\ \A i \in 1..N : run[i] = FireSwap(run[i - 1], i, entries, d)
      /\ run[N] = f
  BY <1>2 DEF FireRun
<1>4. Good(run[0], 0)
  <2>1. run[0].sent = <<>> /\ run[0].at = at
    BY <1>3
  <2>2. \A j, k \in 1..N : at[entries[j]] = at[entries[k]] => j = k
    BY StandingIs
  <2>3. Belief(entries, d, at, 0)
    <3>1. \A k \in 1..N : ~(k <= 0)
      BY <1>1
    <3> QED BY <2>2, <3>1 DEF Belief
  <2>4. Shown(s, cells, entries, at, s)
    <3>1. ASSUME NEW c \in Free(s, cells), s.bags[c] # None PROVE \E k \in 1..N : at[entries[k]] = c
      <4>1. s.bags[c] \in Placed(s, cells)
        BY <1>1, <3>1, PlacedAre
      <4>2. PICK k \in 1..N : entries[k] = s.bags[c]
        BY <1>1, <4>1
      <4>3. at[entries[k]] \in Cells /\ s.bags[at[entries[k]]] = entries[k]
        BY StandingIs
      <4>4. c \in Cells
        BY <1>1 DEF Free
      <4>5. at[entries[k]] = c
        BY <1>1, <3>1, <4>2, <4>3, <4>4, OkCells
      <4> QED BY <4>5
    <3>2. ASSUME NEW k \in 1..N PROVE s.bags[at[entries[k]]] # None /\ KindOf[s.bags[at[entries[k]]]] = KindOf[entries[k]]
      <4>1. s.bags[at[entries[k]]] = entries[k]
        BY StandingIs
      <4>2. entries[k] # None
        BY <1>1, SortedAre, SortPlanAssumption
      <4> QED BY <4>1, <4>2
    <3>3. SameFloor(s, s, cells)
      BY SameBagsSameFloor
    <3> QED BY <1>1, <3>1, <3>2, <3>3 DEF Shown
  <2>5. Leads("keep", s, <<>>, s)
    BY LeadsNowhere
  <2> QED BY <2>1, <2>3, <2>4, <2>5
<1>5. ASSUME NEW i \in 1..N, Good(run[i - 1], i - 1) PROVE Good(run[i], i)
  <2> DEFINE p == run[i - 1]
             q == run[i]
  <2>1. p \in FireStates(s, cells) /\ q = FireSwap(p, i, entries, d) /\ i \in 1..Len(entries)
    BY <1>1, <1>3
  <2>2. Belief(entries, d, p.at, i - 1)
    BY <1>5
  <2>3. PICK x : Leads("keep", s, p.sent, x) /\ Shown(s, cells, entries, p.at, x)
    BY <1>5
  <2> HIDE DEF p, q, N
  <2>4. Belief(entries, d, q.at, i)
    BY <2>1, <2>2, BeliefMoves
  <2>5. CASE ~Fires(p, i, entries, d)
    <3>1. q = p
      BY <2>1, <2>5, FireIs
    <3> QED BY <2>3, <2>4, <3>1 DEF q
  <2>6. CASE Fires(p, i, entries, d)
    <3> DEFINE r == Swap(p.at[entries[i]], d[i])
               y == After(x, r)
    <3>0. FiringNow(s, cells, entries, d, p, i, x)
      BY <2>1, <2>2, <2>3, <2>6 DEF FiringNow
    <3>1. r \in Requests /\ Honourable(x, r) /\ Keeps(x, r)
      <4>1. Served(x, cells, r)
        BY <3>0, ShownFires
      <4> HIDE DEF r
      <4> QED BY <4>1 DEF Served
    <3>2. Shown(s, cells, entries, q.at, y)
      <4>1. Shown(s, cells, entries, FireSwap(p, i, entries, d).at, y)
        BY <3>0, ShownMoves
      <4> HIDE DEF y
      <4> QED BY <2>1, <4>1
    <3>3. q.sent = Append(p.sent, r)
      BY <2>1, <2>6, FireIs
    <3>4. p.sent \in Seq(Requests)
      <4>1. p.sent \in Seq(SwapsIn(Free(s, cells)))
        BY <2>1 DEF FireStates
      <4>2. SwapsIn(Free(s, cells)) \subseteq Requests
        BY DEF SwapsIn, Between
      <4> QED BY <4>1, <4>2
    <3>5. Manner("keep", x, r)
      BY <3>1 DEF Manner
    <3> HIDE DEF r, y
    <3>6. y = After(x, r)
      BY DEF y
    <3>7. Leads("keep", s, Append(p.sent, r), y)
      BY <2>3, <3>1, <3>4, <3>5, <3>6, LeadsOn
    <3> QED BY <2>4, <3>2, <3>3, <3>7 DEF q
  <2> QED BY <2>5, <2>6
<1> DEFINE S == {i \in 0..N : Good(run[i], i)}
<1>6. N \in S
  <2>1. 0 \in S
    BY <1>1, <1>4
  <2>2. ASSUME NEW i \in 1..N, i - 1 \in S PROVE i \in S
    <3>1. Good(run[i - 1], i - 1)
      BY <2>2
    <3>2. Good(run[i], i)
      <4> HIDE DEF Good
      <4> QED BY <1>5, <3>1
    <3> QED BY <1>1, <3>2
  <2> HIDE DEF S, N
  <2>3. \A i \in 0..N : i \in S
    BY <1>1, <2>1, <2>2, UpTo
  <2> QED BY <1>1, <2>3
<1> QED
  <2>1. Good(f, N) /\ f \in FireStates(s, cells)
    BY <1>1, <1>3, <1>6
  <2> QED BY <2>1 DEF Fired

-----------------------------------------------------------------------------
(* What Place plans. *)

LEMMA GivenIsList ==
  ASSUME NEW s, NEW cells, NEW r, NEW entries \in Seq(Items), Goods(entries) \in 0..Len(entries)
  PROVE  \E X : Given(s, cells, r, entries) \in Seq(X)
<1> DEFINE g == Goods(entries)
           n == Len(entries) - Goods(entries)
           front == [k \in 1..g |-> FromFront(s, cells, r, entries, k)]
           back == [j \in 1..n |-> FromBack(s, cells, r, entries, j)]
           X == {front[k] : k \in 1..g} \cup {back[j] : j \in 1..n}
<1>1. Given(s, cells, r, entries) = front \o back
  BY Zenon DEF Given, Assign, FromFront, FromBack, Back, Ahead, Special, Seat, FamPool, Fam, PoolOf, Goods, PinnedIn
<1>2. g \in Nat /\ n \in Nat
  OBVIOUS
<1>3. front = [k \in 1..g |-> front[k]] /\ back = [k \in 1..n |-> back[k]]
  OBVIOUS
<1> HIDE DEF front, back, g, n
<1>4. front \in [1..g -> X] /\ back \in [1..n -> X]
  BY <1>3
<1> HIDE DEF X
<1>5. front \in Seq(X) /\ back \in Seq(X)
  BY <1>2, <1>4
<1>6. front \o back \in Seq(X)
  BY <1>5
<1> QED BY <1>1, <1>6

(* As a function into a set that has all it gives. *)
LEMMA GivenInto ==
  ASSUME NEW s, NEW cells, NEW entries, Sorted(s, cells, entries), NEW r,
         NEW X, \A k \in 1..Len(entries) : Given(s, cells, r, entries)[k] \in X
  PROVE  Given(s, cells, r, entries) \in [1..Len(entries) -> X]
<1> DEFINE d == Given(s, cells, r, entries)
<1>1. entries \in Seq(Items) /\ Goods(entries) \in 0..Len(entries)
  BY SortedAre, GoodsAre
<1>2. PICK Y : d \in Seq(Y)
  BY <1>1, GivenIsList
<1>3. DOMAIN d = 1..Len(entries)
  BY GivenAreFree
<1> HIDE DEF d
<1>4. d = [k \in 1..Len(entries) |-> d[k]]
  BY <1>2, <1>3
<1>5. \A k \in 1..Len(entries) : d[k] \in X
  BY DEF d
<1>6. d \in [1..Len(entries) -> X]
  BY <1>4, <1>5
<1> QED BY <1>6 DEF d

(* The parts of a plan: the entries in order, where they stand, where they go, and
   how far the sends get. *)
Planned(s, cells, r, plan, entries, at, d) ==
  /\ Sorted(s, cells, entries)
  /\ at \in [Placed(s, cells) -> Free(s, cells)]
  /\ Standing(s, cells, at)
  /\ d = KeepHome(entries, Given(s, cells, r, entries), at)
  /\ plan.sent = FireSwaps(entries, d, at).sent
  /\ plan.lock = {i \in Placed(s, cells) : FireSwaps(entries, d, at).at[i] # at[i]}

(* The second phase is such a list of entries, with such seats. *)
LEMMA PlaceIsPlanned ==
  ASSUME SortIsDecided, NEW s, OkState(s), NEW cells \in SUBSET Cells, NEW n \in [Items -> Nat],
         NEW r, NEW tie \in TieOrders,
         NEW plan, plan = Place(ViewOf(s, cells), n, {}, cached, r, tie)
  PROVE  \E entries, at, d : Planned(s, cells, r, plan, entries, at, d)
<1> DEFINE view == ViewOf(s, cells)
           P == Placed(s, cells)
           entries == Entries(P, n, tie)
           at == Starts(view, P)
           d == KeepHome(entries, Given(s, cells, r, entries), at)
<1>1. P \subseteq Items /\ IsFiniteSet(P)
  <2>1. P \subseteq Items /\ \A i \in P : \E c \in Free(s, cells) : s.bags[c] = i
    BY PlacedAre
  <2>2. Free(s, cells) \subseteq Cells /\ IsFiniteSet(Cells)
    BY DEF Free, SortIsDecided
  <2>3. IsFiniteSet(Free(s, cells))
    BY <2>2, FS_Subset
  <2> DEFINE g == [i \in P |-> CHOOSE c \in Free(s, cells) : s.bags[c] = i]
  <2>4. \A i \in P : g[i] \in Free(s, cells) /\ s.bags[g[i]] = i
    BY <2>1
  <2>5. g \in [P -> Free(s, cells)]
    BY <2>4
  <2> HIDE DEF g, P
  <2>6. \A i, j \in P : g[i] = g[j] => i = j
    BY <2>4
  <2>7. IsFiniteSet(P)
    BY <2>3, <2>5, <2>6, FewerThan
  <2> QED BY <2>1, <2>7
<1>2. Sorted(s, cells, entries)
  <2>1. /\ Lists(entries, P)
        /\ \A j, k \in 1..Len(entries) : j < k => Rank[KindOf[entries[j]]] <= Rank[KindOf[entries[k]]]
    <3> HIDE DEF P
    <3> QED BY <1>1, EntriesAre
  <2> QED BY <2>1 DEF Sorted, SortIsDecided
<1>3. ASSUME NEW i \in P PROVE at[i] \in Free(s, cells) /\ s.bags[at[i]] = i
  <2>1. P \in SUBSET InBags(view)
    BY DEF Placed
  <2>2. at[i] \in DOMAIN view /\ view[at[i]] = i
    <3> HIDE DEF view, P
    <3> QED BY <2>1, StartsAre
  <2>3. DOMAIN view = cells /\ \A c \in cells : view[c] = s.bags[c]
    BY DEF ViewOf
  <2>4. KindOf[i] \in cached
    BY DEF Placed
  <2> HIDE DEF at, view
  <2> QED BY <2>2, <2>3, <2>4 DEF Free
<1>4. at \in [P -> Free(s, cells)]
  <2>1. at = [i \in P |-> at[i]]
    BY DEF Starts
  <2> HIDE DEF at, P
  <2> QED BY <1>3, <2>1
<1>5. Standing(s, cells, at)
  <2> HIDE DEF at
  <2> QED BY <1>3 DEF Standing
<1>6. /\ plan.sent = FireSwaps(entries, d, at).sent
      /\ plan.lock = {i \in P : FireSwaps(entries, d, at).at[i] # at[i]}
  <2>1. P = InBags(view) \ Pinned(view, {}, cached)
    BY PlacedIs DEF PinnedIn
  <2>2. d = Destinations(view, entries, Pinned(view, {}, cached), r)
    BY <2>1 DEF Destinations, Given, PinnedIn
  <2> HIDE DEF d, at, entries, view, P
  <2>3. plan = LET fired == FireSwaps(entries, d, at)
               IN [sent |-> fired.sent, at |-> fired.at, lock |-> {i \in P : fired.at[i] # at[i]}]
    BY <2>1, <2>2, Zenon DEF Place, at, entries, view
  <2> QED BY <2>3
<1> HIDE DEF entries, at, P
<1>7. Planned(s, cells, r, plan, entries, at, d)
  BY <1>2, <1>4, <1>5, <1>6 DEF Planned, P
<1> QED BY <1>7

(* Crowded bags or not, the sends are swaps of free cells. *)
LEMMA PlaceSwaps ==
  ASSUME SortIsDecided, NEW s, OkState(s), NEW cells \in SUBSET Cells, NEW n \in [Items -> Nat],
         NEW r, NEW tie \in TieOrders,
         NEW plan, plan = Place(ViewOf(s, cells), n, {}, cached, r, tie)
  PROVE  plan.sent \in Seq(SwapsIn(Free(s, cells)))
<1>1. PICK entries, at, d : Planned(s, cells, r, plan, entries, at, d)
  BY PlaceIsPlanned
<1> DEFINE N == Len(entries)
           X == Free(s, cells) \cup {0}
           old == Given(s, cells, r, entries)
<1>2. /\ Sorted(s, cells, entries) /\ at \in [Placed(s, cells) -> Free(s, cells)]
      /\ d = KeepHome(entries, old, at) /\ plan.sent = FireSwaps(entries, d, at).sent
  BY <1>1 DEF Planned
<1>3. N \in Nat /\ entries \in Seq(Items) /\ N \in 0..N
  BY <1>2, SortedAre
<1>4. old \in [1..N -> X]
  BY <1>2, GivenAreFree, GivenInto
<1> HIDE DEF old, X
<1>5. PICK run : HomeRun(run, entries, old, at, X)
  BY <1>3, <1>4, HomeRuns
<1>6. d \in [1..N -> X]
  BY <1>2, <1>3, <1>5 DEF HomeRun
<1>7. PICK g : FireRun(g, s, cells, entries, d, at)
  <2>1. \A k \in 1..Len(entries) : d[k] \in Free(s, cells) \cup {0}
    BY <1>6 DEF X
  <2> QED BY <1>2, <2>1, FireRuns
<1>8. FireSwaps(entries, d, at) \in FireStates(s, cells)
  BY <1>3, <1>7 DEF FireRun
<1> QED BY <1>2, <1>8 DEF FireStates

-----------------------------------------------------------------------------
(* Where a placement of uncrowded bags leads. *)

(* The kinds are in order in each pool. *)
RanksInOrder(e, cells, r) ==
  \A c, d \in Free(e, cells) :
    /\ Sooner(c, d, r) /\ BagFamily[c] = BagFamily[d]
    /\ e.bags[c] # None /\ e.bags[d] # None
    => Rank[KindOf[e.bags[c]]] <= Rank[KindOf[e.bags[d]]]

(* None of the items is in the cell it was in. *)
Vacated(s, items, e) == \A i \in items : \A c \in Cells : s.bags[c] = i => e.bags[c] # i

(* The parts of a plan when no bag is crowded. *)
Arranges(s, cells, r, entries, at, d, f, e) ==
  /\ Homed(s, cells, r, entries, at, d)
  /\ Rehomed(entries, at, Given(s, cells, r, entries), d, Len(entries))
  /\ \A k \in 1..Len(entries) : f.at[entries[k]] = d[k]
  /\ Leads("keep", s, f.sent, e)
  /\ Shown(s, cells, entries, f.at, e)

(* Its requests lead to bags where each seat holds the kind it is for. *)
LEMMA PlanArranges ==
  ASSUME NEW s, Loaded(s), NEW cells, Tidy(s, cells), Roomy(s, cells), NEW r \in BOOLEAN,
         NEW plan, NEW entries, NEW at, NEW d, Planned(s, cells, r, plan, entries, at, d)
  PROVE  \E e : Arranges(s, cells, r, entries, at, d, FireSwaps(entries, d, at), e)
<1> DEFINE N == Len(entries)
           old == Given(s, cells, r, entries)
           f == FireSwaps(entries, d, at)
<1>1. /\ Sorted(s, cells, entries) /\ at \in [Placed(s, cells) -> Free(s, cells)]
      /\ Standing(s, cells, at) /\ d = KeepHome(entries, old, at)
  BY DEF Planned
<1>2. Sorting(s, cells, entries, at)
  BY <1>1 DEF Sorting
<1>3. Handed(s, cells, r, entries, at, old)
  BY <1>2, GivenIsHanded
<1>4. N \in Nat /\ entries \in Seq(Items) /\ N \in 0..N
  BY <1>1, SortedAre
<1>5. /\ \A j, k \in 1..N : old[j] = old[k] => j = k
      /\ \A k \in 1..N : old[k] \in Free(s, cells)
  BY <1>3 DEF Handed, Seated
<1>6. old \in [1..N -> Free(s, cells)]
  BY <1>1, <1>5, GivenInto
<1> HIDE DEF old
<1>7. DOMAIN d = 1..N
  <2>1. PICK run : HomeRun(run, entries, old, at, Free(s, cells))
    BY <1>4, <1>6, HomeRuns
  <2>2. d \in [1..N -> Free(s, cells)]
    BY <1>1, <1>4, <2>1 DEF HomeRun
  <2> QED BY <2>2
<1>8. Rehomed(entries, at, old, d, N)
  BY <1>1, <1>5, <1>6, KeepHomeIs
<1>9. Homed(s, cells, r, entries, at, d)
  BY <1>1, <1>3, <1>7, <1>8, HandedHome
<1>10. Fired(s, cells, entries, d, f)
  <2>1. Seated(s, cells, entries, d) /\ Returns(entries, at, d)
    BY <1>9 DEF Homed
  <2> QED BY <1>1, <2>1, FiredIs
<1> HIDE DEF f
<1>11. PICK e : Leads("keep", s, f.sent, e) /\ Shown(s, cells, entries, f.at, e)
  BY <1>10 DEF Fired
<1>12. \A k \in 1..N : f.at[entries[k]] = d[k]
  <2>1. \A k \in 1..N : k <= N
    BY <1>4
  <2> QED BY <1>10, <2>1 DEF Fired, Belief
<1>13. Arranges(s, cells, r, entries, at, d, f, e)
  BY <1>8, <1>9, <1>11, <1>12 DEF Arranges, old
<1> QED BY <1>13 DEF f

(* What a placement locks has left its cell when its sends are answered. *)
LEMMA ArrangedVacates ==
  ASSUME NEW s, NEW cells, NEW r, NEW plan, NEW entries, NEW at, NEW d, Planned(s, cells, r, plan, entries, at, d),
         NEW e, Arranges(s, cells, r, entries, at, d, FireSwaps(entries, d, at), e)
  PROVE  Vacated(s, plan.lock, e)
<1> DEFINE N == Len(entries)
           f == FireSwaps(entries, d, at)
<1>1. /\ Sorted(s, cells, entries) /\ Standing(s, cells, at)
      /\ plan.lock = {i \in Placed(s, cells) : f.at[i] # at[i]}
  BY DEF Planned
<1>2. /\ \A k \in 1..N : f.at[entries[k]] = d[k]
      /\ Remains(entries, at, d) /\ Shown(s, cells, entries, f.at, e)
  BY DEF Arranges, Homed
<1> HIDE DEF f
<1> SUFFICES ASSUME NEW i \in plan.lock, NEW c \in Cells, s.bags[c] = i, e.bags[c] = i PROVE FALSE
  BY DEF Vacated
<1>3. i \in Placed(s, cells) /\ f.at[i] # at[i]
  BY <1>1
<1>4. PICK k \in 1..N : entries[k] = i
  BY <1>1, <1>3, SortedAre
<1>5. at[i] \in Free(s, cells) /\ s.bags[at[i]] = i /\ at[i] \in Cells /\ i # None
  <2>1. at[i] \in Free(s, cells) /\ s.bags[at[i]] = i
    BY <1>1, <1>3 DEF Standing
  <2>2. OkState(s) /\ cells \in SUBSET Cells
    BY <1>1 DEF Sorted
  <2>3. Free(s, cells) \subseteq Cells /\ i \in Items
    BY <1>3, <2>2, PlacedAre
  <2> QED BY <2>1, <2>3, SortPlanAssumption
<1>6. at[i] = c
  <2>1. OkState(s)
    BY <1>1 DEF Sorted
  <2>2. \A x, y \in Cells : s.bags[x] = s.bags[y] /\ s.bags[x] # None => x = y
    BY <2>1, OkCells
  <2> QED BY <1>5, <2>2
<1>7. PICK j \in 1..N : f.at[entries[j]] = c
  BY <1>2, <1>5, <1>6 DEF Shown
<1>8. KindOf[i] = KindOf[entries[j]]
  BY <1>2, <1>7 DEF Shown
<1>9. d[j] = at[entries[k]] /\ Alike(entries, j, k)
  BY <1>2, <1>4, <1>6, <1>7, <1>8 DEF Alike
<1>10. d[k] = at[entries[k]]
  BY <1>2, <1>9 DEF Remains
<1> QED BY <1>2, <1>3, <1>4, <1>10

(* Such bags are in the order of the records. *)
LEMMA ArrangedInOrder ==
  ASSUME NEW s, NEW cells, NEW r, NEW entries, NEW at, NEW d, NEW f, NEW e,
         Arranges(s, cells, r, entries, at, d, f, e)
  PROVE  RanksInOrder(e, cells, r)
<1> DEFINE N == Len(entries)
<1>1. /\ \A k \in 1..N : f.at[entries[k]] = d[k]
      /\ InRankOrder(entries, r, d) /\ Shown(s, cells, entries, f.at, e)
  BY DEF Arranges, Homed
<1>2. Free(e, cells) = Free(s, cells)
  BY <1>1 DEF Shown, SameFloor
<1> SUFFICES ASSUME NEW b \in Free(e, cells), NEW c \in Free(e, cells), Sooner(b, c, r), BagFamily[b] = BagFamily[c],
                    e.bags[b] # None, e.bags[c] # None
             PROVE  Rank[KindOf[e.bags[b]]] <= Rank[KindOf[e.bags[c]]]
  BY DEF RanksInOrder
<1>3. PICK j \in 1..N : f.at[entries[j]] = b
  BY <1>1, <1>2 DEF Shown
<1>4. PICK k \in 1..N : f.at[entries[k]] = c
  BY <1>1, <1>2 DEF Shown
<1>5. KindOf[e.bags[b]] = KindOf[entries[j]] /\ KindOf[e.bags[c]] = KindOf[entries[k]]
  BY <1>1, <1>3, <1>4 DEF Shown
<1>6. d[j] = b /\ d[k] = c
  BY <1>1, <1>3, <1>4
<1> QED BY <1>1, <1>5, <1>6 DEF InRankOrder

-----------------------------------------------------------------------------
(* Sorting what is sorted. *)

LEMMA UpToIs ==
  ASSUME NEW n \in Nat
  PROVE  IsFiniteSet(1..n) /\ Cardinality(1..n) = n
<1>1. \A a, b \in Int : IsFiniteSet(a..b) /\ Cardinality(a..b) = IF a > b THEN 0 ELSE (b - a) + 1
  BY FS_Interval
<1> QED BY <1>1

(* Two sorts of the same items put no lower rank at a place. *)
LEMMA NoRankLower ==
  ASSUME NEW s, NEW e, NEW cells, Placed(e, cells) = Placed(s, cells),
         NEW E, Sorted(s, cells, E), NEW F, Sorted(e, cells, F),
         NEW k \in 1..Len(E), k \in 1..Len(F)
  PROVE  Rank[KindOf[F[k]]] <= Rank[KindOf[E[k]]]
<1> DEFINE M == Len(E)
           N == Len(F)
<1>1. /\ M \in Nat /\ N \in Nat
      /\ \A j \in 1..M : E[j] \in Placed(s, cells) /\ Rank[KindOf[E[j]]] \in Nat
      /\ \A j \in 1..N : Rank[KindOf[F[j]]] \in Nat
      /\ \A i \in Placed(s, cells) : \E j \in 1..N : F[j] = i
      /\ \A i, j \in 1..M : E[i] = E[j] => i = j
  BY SortedAre
<1>2. /\ \A i, j \in 1..M : i < j => Rank[KindOf[E[i]]] <= Rank[KindOf[E[j]]]
      /\ \A i, j \in 1..N : i < j => Rank[KindOf[F[i]]] <= Rank[KindOf[F[j]]]
  BY DEF Sorted
<1> SUFFICES ASSUME Rank[KindOf[E[k]]] < Rank[KindOf[F[k]]] PROVE FALSE
  <2>1. Rank[KindOf[E[k]]] \in Nat /\ Rank[KindOf[F[k]]] \in Nat
    BY <1>1
  <2> QED BY <2>1
<1> DEFINE g == [j \in 1..k |-> CHOOSE n \in 1..N : F[n] = E[j]]
<1>3. ASSUME NEW j \in 1..k PROVE g[j] \in 1..(k - 1) /\ F[g[j]] = E[j]
  <2>1. j \in 1..M /\ E[j] \in Placed(s, cells)
    BY <1>1
  <2>2. g[j] \in 1..N /\ F[g[j]] = E[j]
    BY <1>1, <2>1
  <2>3. Rank[KindOf[E[j]]] <= Rank[KindOf[E[k]]]
    <3>1. j = k \/ j < k
      BY <1>1
    <3>2. Rank[KindOf[E[k]]] \in Nat
      BY <1>1
    <3> QED BY <1>2, <2>1, <3>1, <3>2
  <2> HIDE DEF g
  <2>4. ASSUME ~(g[j] < k) PROVE FALSE
    <3>1. g[j] = k \/ k < g[j]
      BY <1>1, <2>2, <2>4
    <3>2. Rank[KindOf[F[k]]] <= Rank[KindOf[F[g[j]]]]
      BY <1>1, <1>2, <2>2, <3>1
    <3>3. Rank[KindOf[F[g[j]]]] = Rank[KindOf[E[j]]]
      BY <2>2
    <3>4. Rank[KindOf[E[k]]] \in Nat /\ Rank[KindOf[F[k]]] \in Nat /\ Rank[KindOf[E[j]]] \in Nat
      BY <1>1, <2>1
    <3> QED BY <2>3, <3>2, <3>3, <3>4
  <2> QED BY <1>1, <2>2, <2>4
<1>4. g \in [1..k -> 1..(k - 1)]
  <2>1. g = [j \in 1..k |-> g[j]]
    OBVIOUS
  <2> HIDE DEF g
  <2> QED BY <1>3, <2>1
<1> HIDE DEF g
<1>5. \A i, j \in 1..k : g[i] = g[j] => i = j
  <2>1. \A j \in 1..k : j \in 1..M
    BY <1>1
  <2> QED BY <1>1, <1>3, <2>1
<1>6. k \in Nat /\ k - 1 \in Nat
  BY <1>1
<1>7. IsFiniteSet(1..(k - 1)) /\ Cardinality(1..(k - 1)) = k - 1 /\ Cardinality(1..k) = k
  BY <1>6, UpToIs
<1>8. Cardinality(1..k) <= Cardinality(1..(k - 1))
  BY <1>4, <1>5, <1>7, FewerThan
<1> QED BY <1>6, <1>7, <1>8

(* Two sorts of the same items have equally many entries. *)
LEMMA SortsAsLong ==
  ASSUME NEW s, NEW e, NEW cells, Placed(e, cells) = Placed(s, cells),
         NEW E, Sorted(s, cells, E), NEW F, Sorted(e, cells, F)
  PROVE  Len(E) <= Len(F)
<1> DEFINE M == Len(E)
           N == Len(F)
           g == [j \in 1..M |-> CHOOSE n \in 1..N : F[n] = E[j]]
<1>1. /\ M \in Nat /\ N \in Nat
      /\ \A j \in 1..M : E[j] \in Placed(s, cells)
      /\ \A i \in Placed(s, cells) : \E j \in 1..N : F[j] = i
      /\ \A i, j \in 1..M : E[i] = E[j] => i = j
  BY SortedAre
<1>2. \A j \in 1..M : g[j] \in 1..N /\ F[g[j]] = E[j]
  BY <1>1
<1>3. g \in [1..M -> 1..N]
  BY <1>2
<1> HIDE DEF g, M, N
<1>4. \A i, j \in 1..M : g[i] = g[j] => i = j
  BY <1>1, <1>2
<1>5. IsFiniteSet(1..N) /\ Cardinality(1..N) = N /\ Cardinality(1..M) = M
  BY <1>1, UpToIs
<1>6. Cardinality(1..M) <= Cardinality(1..N)
  BY <1>3, <1>4, <1>5, FewerThan
<1> QED BY <1>5, <1>6 DEF M, N

(* They put the same kinds at each place. *)
LEMMA SameKinds ==
  ASSUME NEW s, NEW e, NEW cells, Placed(e, cells) = Placed(s, cells),
         NEW E, Sorted(s, cells, E), NEW F, Sorted(e, cells, F)
  PROVE  /\ Len(E) = Len(F)
         /\ \A k \in 1..Len(E) : KindOf[F[k]] = KindOf[E[k]]
<1>1. Len(E) = Len(F)
  <2>1. Len(E) \in Nat /\ Len(F) \in Nat
    BY SortedAre
  <2>2. Len(E) <= Len(F)
    BY SortsAsLong
  <2>3. Len(F) <= Len(E)
    BY SortsAsLong
  <2> QED BY <2>1, <2>2, <2>3
<1>2. ASSUME NEW k \in 1..Len(E) PROVE KindOf[F[k]] = KindOf[E[k]]
  <2>1. k \in 1..Len(F)
    BY <1>1
  <2>2. /\ KindOf[E[k]] \in Kinds /\ Rank[KindOf[E[k]]] \in Nat
        /\ KindOf[F[k]] \in Kinds /\ Rank[KindOf[F[k]]] \in Nat
    BY <2>1, SortedAre
  <2>3. Rank[KindOf[F[k]]] <= Rank[KindOf[E[k]]]
    BY <2>1, NoRankLower
  <2>4. Rank[KindOf[E[k]]] <= Rank[KindOf[F[k]]]
    BY <2>1, NoRankLower
  <2>5. Rank[KindOf[E[k]]] = Rank[KindOf[F[k]]]
    BY <2>2, <2>3, <2>4
  <2> QED BY <2>2, <2>5 DEF Sorted
<1> QED BY <1>1, <1>2

(* Two states with the same cells withheld have the same pools. *)
LEMMA SamePool ==
  ASSUME NEW s, OkState(s), NEW e, OkState(e), NEW cells \in SUBSET Cells, SameFloor(s, e, cells), NEW f, NEW r
  PROVE  PoolOf(e, cells, f, r) = PoolOf(s, cells, f, r)
<1> DEFINE C(x) == {c \in DOMAIN ViewOf(x, cells) : ViewOf(x, cells)[c] \notin PinnedIn(x, cells) /\ BagFamily[c] = f}
<1>1. ASSUME NEW x, OkState(x) PROVE C(x) = PoolCells(x, cells, f)
  <2>1. DOMAIN ViewOf(x, cells) = cells
    BY DEF ViewOf
  <2>2. \A c \in cells : ViewOf(x, cells)[c] \notin PinnedIn(x, cells) <=> c \in Free(x, cells)
    BY <1>1, PlacedIs
  <2>3. Free(x, cells) \subseteq cells
    BY DEF Free
  <2> QED BY <2>1, <2>2, <2>3 DEF PoolCells
<1>2. PoolCells(e, cells, f) = PoolCells(s, cells, f)
  BY DEF SameFloor, PoolCells
<1>3. C(e) = C(s)
  <2> HIDE DEF C
  <2> QED BY <1>1, <1>2
<1> QED BY <1>3, Zenon DEF PoolOf, Pool

(* Two sorts of the same items on the same floor are given the same cells. *)
LEMMA SameGiven ==
  ASSUME NEW s, NEW e, NEW cells, SameFloor(s, e, cells), NEW r,
         NEW E, Sorted(s, cells, E), NEW F, Sorted(e, cells, F)
  PROVE  \A k \in 1..Len(E) : Given(e, cells, r, F)[k] = Given(s, cells, r, E)[k]
<1> DEFINE N == Len(E)
           g == Goods(E)
<1>1. /\ Len(F) = N /\ N \in Nat /\ E \in Seq(Items) /\ F \in Seq(Items)
      /\ DOMAIN E = 1..N /\ DOMAIN F = 1..N
      /\ g \in 0..N
      /\ \A k \in 1..N : KindOf[F[k]] = KindOf[E[k]]
  <2>1. Placed(e, cells) = Placed(s, cells)
    BY DEF SameFloor
  <2>2. Len(F) = N /\ \A k \in 1..N : KindOf[F[k]] = KindOf[E[k]]
    BY <2>1, SameKinds
  <2> QED BY <2>2, SortedAre, GoodsAre
<1>2. \A f : PoolOf(e, cells, f, r) = PoolOf(s, cells, f, r)
  BY SamePool DEF Sorted
<1>3. Goods(F) = g
  <2>1. {k \in DOMAIN F : KindOf[F[k]] \notin Junk} = {k \in DOMAIN E : KindOf[E[k]] \notin Junk}
    BY <1>1
  <2> QED BY <2>1 DEF Goods
<1>4. \A k \in 1..N : Fam(F, k) = Fam(E, k)
  BY <1>1 DEF Fam
<1> HIDE DEF N, g
<1>5. ASSUME NEW k \in 1..N
      PROVE  /\ Seat(F, k) = Seat(E, k)
             /\ FamPool(e, cells, r, Fam(F, k)) = FamPool(s, cells, r, Fam(E, k))
             /\ Special(e, cells, r, F, k) <=> Special(s, cells, r, E, k)
  <2>1. {j \in 1..k : Fam(F, j) = Fam(F, k)} = {j \in 1..k : Fam(E, j) = Fam(E, k)}
    <3>1. \A j \in 1..k : j \in 1..N
      BY <1>1
    <3> QED BY <1>4, <3>1
  <2>2. Seat(F, k) = Seat(E, k)
    BY <2>1 DEF Seat
  <2>3. FamPool(e, cells, r, Fam(F, k)) = FamPool(s, cells, r, Fam(E, k))
    BY <1>2, <1>4, Zenon DEF FamPool
  <2> QED BY <2>2, <2>3 DEF Special
<1>6. ASSUME NEW k \in 0..N PROVE Ahead(e, cells, r, F, k) = Ahead(s, cells, r, E, k)
  <2>1. {j \in 1..k : ~Special(e, cells, r, F, j)} = {j \in 1..k : ~Special(s, cells, r, E, j)}
    <3>1. \A j \in 1..k : j \in 1..N
      BY <1>1
    <3> QED BY <1>5, <3>1
  <2> QED BY <2>1 DEF Ahead
<1>7. ASSUME NEW k \in 1..g PROVE Given(e, cells, r, F)[k] = Given(s, cells, r, E)[k]
  <2>1. k \in 1..N /\ k \in 0..N
    BY <1>1
  <2>2. Given(s, cells, r, E)[k] = FromFront(s, cells, r, E, k)
    BY <1>1, GivenIs DEF g, N
  <2>3. Given(e, cells, r, F)[k] = FromFront(e, cells, r, F, k)
    <3>1. Goods(F) \in 0..Len(F) /\ k \in 1..Goods(F)
      BY <1>1, <1>3
    <3> QED BY <1>1, <3>1, GivenIs
  <2>4. FromFront(e, cells, r, F, k) = FromFront(s, cells, r, E, k)
    <3>1. PoolOf(e, cells, NoFamily, r) = PoolOf(s, cells, NoFamily, r)
      BY <1>2
    <3>2. /\ Seat(F, k) = Seat(E, k)
          /\ FamPool(e, cells, r, Fam(F, k)) = FamPool(s, cells, r, Fam(E, k))
          /\ Special(e, cells, r, F, k) <=> Special(s, cells, r, E, k)
      BY <1>5, <2>1
    <3>3. Ahead(e, cells, r, F, k) = Ahead(s, cells, r, E, k)
      BY <1>6, <2>1
    <3> QED BY <3>1, <3>2, <3>3 DEF FromFront
  <2> QED BY <2>2, <2>3, <2>4
<1>8. ASSUME NEW j \in 1..(N - g) PROVE Given(e, cells, r, F)[g + j] = Given(s, cells, r, E)[g + j]
  <2>1. Given(s, cells, r, E)[g + j] = FromBack(s, cells, r, E, j)
    BY <1>1, GivenIs DEF g, N
  <2>2. Given(e, cells, r, F)[g + j] = FromBack(e, cells, r, F, j)
    <3>1. Goods(F) \in 0..Len(F) /\ j \in 1..(Len(F) - Goods(F))
      BY <1>1, <1>3
    <3> QED BY <1>1, <1>3, <3>1, GivenIs
  <2>3. Back(e, cells, r, F, j) = Back(s, cells, r, E, j)
    BY <1>1, <1>2, <1>3 DEF Back, g, N
  <2>4. Ahead(e, cells, r, F, Goods(F)) = Ahead(s, cells, r, E, Goods(E))
    BY <1>1, <1>3, <1>6 DEF g
  <2>5. FromBack(e, cells, r, F, j) = FromBack(s, cells, r, E, j)
    BY <1>2, <2>3, <2>4, Zenon DEF FromBack
  <2> QED BY <2>1, <2>2, <2>5
<1> SUFFICES ASSUME NEW k \in 1..N PROVE Given(e, cells, r, F)[k] = Given(s, cells, r, E)[k]
  BY DEF N
<1>9. CASE k <= g
  BY <1>1, <1>7, <1>9
<1>10. CASE ~(k <= g)
  <2>1. k - g \in 1..(N - g) /\ g + (k - g) = k
    BY <1>1, <1>10
  <2> QED BY <1>8, <2>1
<1> QED BY <1>9, <1>10

(* A sort in which every entry is given the cell it stands on sends nothing. *)
LEMMA AllHome ==
  ASSUME NEW s, NEW cells, NEW entries, Sorted(s, cells, entries),
         NEW at \in [Placed(s, cells) -> Free(s, cells)],
         NEW d, \A k \in 1..Len(entries) : d[k] = at[entries[k]]
  PROVE  FireSwaps(entries, d, at).sent = <<>>
<1> DEFINE N == Len(entries)
           start == [sent |-> <<>>, at |-> at]
<1>1. N \in Nat /\ \A k \in 1..N : entries[k] \in Placed(s, cells)
  BY SortedAre
<1>2. PICK run : FireRun(run, s, cells, entries, d, at)
  <2>1. \A k \in 1..Len(entries) : d[k] \in Free(s, cells) \cup {0}
    BY <1>1
  <2> QED BY <2>1, FireRuns
<1>3. /\ run[0] = start
      /\ \A i \in 1..N : run[i] = FireSwap(run[i - 1], i, entries, d)
      /\ run[N] = FireSwaps(entries, d, at)
  BY <1>2 DEF FireRun
<1>4. ASSUME NEW i \in 1..N, run[i - 1] = start PROVE run[i] = start
  <2>1. start.at = at
    OBVIOUS
  <2> HIDE DEF start
  <2>2. ~Fires(run[i - 1], i, entries, d)
    BY <1>4, <2>1 DEF Fires
  <2>3. FireSwap(run[i - 1], i, entries, d) = run[i - 1]
    BY <2>2, FireIs
  <2> QED BY <1>3, <1>4, <2>3
<1> DEFINE S == {i \in 0..N : run[i] = start}
<1>5. N \in S
  <2>1. 0 \in S
    BY <1>1, <1>3
  <2>2. ASSUME NEW i \in 1..N, i - 1 \in S PROVE i \in S
    <3>1. run[i - 1] = start
      BY <2>2
    <3>2. run[i] = start
      <4> HIDE DEF start
      <4> QED BY <1>4, <3>1
    <3> QED BY <1>1, <3>2
  <2> HIDE DEF S, N
  <2>3. \A i \in 0..N : i \in S
    BY <1>1, <2>1, <2>2, UpTo
  <2> QED BY <1>1, <2>3
<1>6. FireSwaps(entries, d, at) = start
  BY <1>3, <1>5
<1> QED BY <1>6

(* Where a placement led, another finds every item on a cell it would give to one
   of the kind. *)
LEMMA ArrangedIsHome ==
  ASSUME NEW s, NEW cells, NEW r, NEW entries, Sorted(s, cells, entries),
         NEW at, NEW d, NEW f, NEW e, Arranges(s, cells, r, entries, at, d, f, e),
         NEW plan, NEW E, NEW p, NEW g, Planned(e, cells, r, plan, E, p, g),
         Seated(e, cells, E, Given(e, cells, r, E))
  PROVE  plan.sent = <<>>
<1> DEFINE N == Len(entries)
           old == Given(s, cells, r, entries)
           new == Given(e, cells, r, E)
<1>1. /\ Sorted(e, cells, E) /\ p \in [Placed(e, cells) -> Free(e, cells)] /\ Standing(e, cells, p)
      /\ g = KeepHome(E, new, p) /\ plan.sent = FireSwaps(E, g, p).sent
  BY DEF Planned
<1>2. /\ \A k \in 1..N : f.at[entries[k]] = d[k]
      /\ Rehomed(entries, at, old, d, N)
      /\ Shown(s, cells, entries, f.at, e) /\ SameFloor(s, e, cells)
  BY DEF Arranges, Shown
<1>3. /\ Len(E) = N /\ \A k \in 1..N : KindOf[E[k]] = KindOf[entries[k]]
  BY <1>1, <1>2, SameKinds DEF SameFloor
<1>4. \A k \in 1..N : new[k] = old[k]
  BY <1>1, <1>2, SameGiven
<1>5. new \in [1..Len(E) -> Free(e, cells)] /\ \A j, k \in 1..Len(E) : new[j] = new[k] => j = k
  <2>1. \A k \in 1..Len(E) : new[k] \in Free(e, cells)
    BY DEF Seated
  <2>2. new \in [1..Len(E) -> Free(e, cells)]
    BY <1>1, <2>1, GivenInto
  <2> QED BY <2>2 DEF Seated
<1> HIDE DEF old, new, N
<1>6. Rehomed(E, p, new, g, Len(E))
  BY <1>1, <1>5, KeepHomeIs
<1>7. ASSUME NEW k \in 1..N PROVE g[k] = p[E[k]]
  <2>1. p[E[k]] \in Free(e, cells) /\ e.bags[p[E[k]]] = E[k] /\ E[k] # None /\ N \in Nat /\ k <= N
    <3>1. k \in 1..Len(E)
      BY <1>3
    <3>2. E[k] \in Items /\ E[k] \in Placed(e, cells) /\ Len(E) \in Nat
      BY <1>1, <3>1, SortedAre
    <3>3. p[E[k]] \in Free(e, cells) /\ e.bags[p[E[k]]] = E[k]
      BY <1>1, <3>2 DEF Standing
    <3> QED BY <1>3, <3>2, <3>3, SortPlanAssumption
  <2>2. p[E[k]] \in Free(s, cells)
    BY <1>2, <2>1 DEF SameFloor
  <2>3. PICK j \in 1..N : f.at[entries[j]] = p[E[k]]
    BY <1>2, <2>1, <2>2 DEF Shown, N
  <2>4. KindOf[E[k]] = KindOf[entries[j]]
    BY <1>2, <2>1, <2>3 DEF Shown, N
  <2>5. PICK m \in 1..N : Alike(entries, m, j) /\ d[j] = old[m]
    BY <1>2 DEF Rehomed, N
  <2>6. new[m] = p[E[k]]
    BY <1>2, <1>4, <2>3, <2>5
  <2>7. Alike(E, m, k)
    BY <1>3, <2>4, <2>5 DEF Alike
  <2> QED BY <1>3, <1>6, <2>1, <2>6, <2>7 DEF Rehomed
<1>8. \A k \in 1..Len(E) : g[k] = p[E[k]]
  BY <1>3, <1>7
<1>9. FireSwaps(E, g, p).sent = <<>>
  BY <1>1, <1>8, AllHome
<1> QED BY <1>1, <1>9

(* The bags are sorted, and another sort has nothing to do. *)
Settled(e, cells, r) ==
  /\ Tidy(e, cells)
  /\ RanksInOrder(e, cells, r)
  /\ \A tie \in TieOrders : Place(ViewOf(e, cells), e.count, {}, cached, r, tie).sent = <<>>

(* What a placement's sends come to when the server has honoured them: the locks
   it took are gone and the bags are sorted. *)
Settles(s, w, items, cells, r, e) ==
  /\ Leads("keep", s, w, e)
  /\ Vacated(s, items, e)
  /\ Settled(e, cells, r)

(* The second phase leaves bags a further sort leaves alone. *)
LEMMA PlaceSettles ==
  ASSUME SortIsDecided, NEW s, OkState(s), Loaded(s), NEW cells \in SUBSET Cells, Tidy(s, cells), Roomy(s, cells),
         NEW n \in [Items -> Nat], NEW r \in BOOLEAN, NEW tie \in TieOrders,
         NEW plan, plan = Place(ViewOf(s, cells), n, {}, cached, r, tie)
  PROVE  \E e : Settles(s, plan.sent, plan.lock, cells, r, e)
<1>1. PICK entries, at, d : Planned(s, cells, r, plan, entries, at, d)
  BY PlaceIsPlanned
<1> DEFINE f == FireSwaps(entries, d, at)
<1>2. PICK e : Arranges(s, cells, r, entries, at, d, f, e)
  BY <1>1, PlanArranges
<1>3. Sorted(s, cells, entries) /\ plan.sent = f.sent
  BY <1>1 DEF Planned
<1>4. Vacated(s, plan.lock, e)
  BY <1>1, <1>2, ArrangedVacates
<1> HIDE DEF f
<1>5. /\ Leads("keep", s, plan.sent, e) /\ OkState(e) /\ Tidy(e, cells) /\ SameFloor(s, e, cells)
  BY <1>2, <1>3 DEF Arranges, Shown
<1>6. RanksInOrder(e, cells, r)
  BY <1>2, ArrangedInOrder
<1>7. ASSUME NEW other \in TieOrders
      PROVE  Place(ViewOf(e, cells), e.count, {}, cached, r, other).sent = <<>>
  <2> DEFINE again == Place(ViewOf(e, cells), e.count, {}, cached, r, other)
  <2>1. e.count \in [Items -> Nat]
    BY <1>5 DEF OkState
  <2>2. PICK E, p, g : Planned(e, cells, r, again, E, p, g)
    BY <1>5, <2>1, PlaceIsPlanned
  <2> HIDE DEF again
  <2>3. Seated(e, cells, E, Given(e, cells, r, E))
    <3>1. Roomy(e, cells)
      BY <1>5, FloorIsRoomy
    <3>2. Sorting(e, cells, E, p)
      BY <2>2, <3>1 DEF Planned, Sorting
    <3>3. Handed(e, cells, r, E, p, Given(e, cells, r, E))
      BY <3>2, GivenIsHanded
    <3> QED BY <3>3 DEF Handed
  <2>4. again.sent = <<>>
    BY <1>2, <1>3, <2>2, <2>3, ArrangedIsHome
  <2> QED BY <2>4 DEF again
<1>8. Settled(e, cells, r)
  BY <1>5, <1>6, <1>7 DEF Settled
<1>9. Settles(s, plan.sent, plan.lock, cells, r, e)
  BY <1>4, <1>5, <1>8 DEF Settles
<1> QED BY <1>9

-----------------------------------------------------------------------------
(* A merge whose items are all still there was all splits. *)

(* What a merge or a split takes from the bags. *)
LEMMA PourTakes ==
  ASSUME NEW s, OkState(s), NEW r \in Requests, Honourable(s, r), Pours(s, r), NEW e, e = After(s, r)
  PROVE  /\ Loaded(e)
         /\ \A c \in Cells : e.bags[c] # None => e.bags[c] = s.bags[c]
         /\ InBags(e.bags) \subseteq InBags(s.bags)
         /\ r.op = "swap" => s.bags[r.src] \in InBags(s.bags) /\ s.bags[r.src] \notin InBags(e.bags)
<1>1. /\ r.src \in Cells /\ r.dst \in Cells /\ r.op \in {"swap", "split"}
      /\ s.bags[r.src] # None /\ CanStack(s.count, s.bags[r.src], s.bags[r.dst])
  BY DEF Requests, Honourable, Pours
<1>2. DOMAIN s.bags = Cells /\ OkState(e)
  BY OkCells, AfterIsOk
<1>3. DOMAIN e.bags = Cells
  BY <1>2, OkCells
<1>4. CASE r.op = "split"
  <2>1. e.bags = s.bags /\ Loaded(e)
    BY <1>4 DEF After, Loaded
  <2> QED BY <1>4, <2>1
<1>5. CASE r.op = "swap"
  <2>1. s.count[s.bags[r.src]] + s.count[s.bags[r.dst]] <= MaxStack[KindOf[s.bags[r.src]]]
    BY <1>5 DEF Pours
  <2>2. e.bags = [s.bags EXCEPT ![r.src] = None] /\ Loaded(e)
    BY <1>1, <1>5, <2>1 DEF After, Loaded
  <2>3. \A c \in Cells : e.bags[c] = IF c = r.src THEN None ELSE s.bags[c]
    BY <1>1, <1>2, <2>2
  <2>4. \A c, d \in Cells : s.bags[c] = s.bags[d] /\ s.bags[c] # None => c = d
    BY OkCells
  <2>5. InBags(e.bags) \subseteq InBags(s.bags)
    BY <1>2, <1>3, <2>3 DEF InBags
  <2>6. s.bags[r.src] \in InBags(s.bags) /\ s.bags[r.src] \notin InBags(e.bags)
    BY <1>1, <1>2, <1>3, <2>3, <2>4 DEF InBags
  <2> QED BY <2>2, <2>3, <2>5, <2>6
<1> QED BY <1>1, <1>4, <1>5

LEMMA LeadsLoaded ==
  ASSUME NEW x, NEW s, Loaded(s), NEW w \in Seq(Requests), NEW e, Leads(x, s, w, e)
  PROVE  Loaded(e)
<1>1. PICK t : Trace(x, t, w) /\ t[0] = s /\ t[Len(w)] = e
  BY DEF Leads
<1>2. Len(w) \in Nat
  OBVIOUS
<1>3. CASE Len(w) = 0
  BY <1>1, <1>3
<1>4. CASE Len(w) # 0
  <2>1. e = After(t[Len(w) - 1], w[Len(w)])
    BY <1>1, <1>2, <1>4 DEF Trace
  <2> QED BY <2>1 DEF After, Loaded
<1> QED BY <1>3, <1>4

(* A first phase that uses up no stack sent splits only, which move nothing: the second need not wait. *)
LEMMA PourKept ==
  ASSUME NEW s, OkState(s), NEW w \in Seq(Requests), NEW e, Leads("pour", s, w, e),
         InBags(s.bags) \subseteq InBags(e.bags)
  PROVE  /\ \A k \in 1..Len(w) : w[k].op = "split"
         /\ e.bags = s.bags
         /\ Leads("keep", s, w, e)
<1> DEFINE N == Len(w)
<1>1. PICK t : Trace("pour", t, w) /\ t[0] = s /\ t[N] = e
  BY DEF Leads
<1>2. N \in Nat /\ \A k \in 1..N : w[k] \in Requests
  OBVIOUS
<1>3. \A k \in 1..N : /\ Honourable(t[k - 1], w[k]) /\ Pours(t[k - 1], w[k])
                      /\ t[k] = After(t[k - 1], w[k])
  BY <1>1 DEF Trace, Manner
<1> DEFINE S == {k \in 0..N : OkState(t[k]) /\ InBags(t[k].bags) \subseteq InBags(s.bags)}
           B == {k \in 0..N : InBags(e.bags) \subseteq InBags(t[N - k].bags)}
<1>4. ASSUME NEW k \in 1..N, OkState(t[k - 1])
      PROVE  /\ OkState(t[k]) /\ InBags(t[k].bags) \subseteq InBags(t[k - 1].bags)
             /\ w[k].op = "swap" => t[k - 1].bags[w[k].src] \in InBags(t[k - 1].bags) \ InBags(t[k].bags)
  <2>1. w[k] \in Requests /\ Honourable(t[k - 1], w[k]) /\ Pours(t[k - 1], w[k]) /\ t[k] = After(t[k - 1], w[k])
    BY <1>2, <1>3
  <2>2. OkState(t[k])
    BY <1>4, <2>1, AfterIsOk
  <2> HIDE DEF N
  <2> QED BY <1>4, <2>1, <2>2, PourTakes, SMTT(30)
<1>5. \A k \in 0..N : OkState(t[k]) /\ InBags(t[k].bags) \subseteq InBags(s.bags)
  <2>1. 0 \in S
    BY <1>1, <1>2
  <2>2. ASSUME NEW k \in 1..N, k - 1 \in S PROVE k \in S
    <3>1. OkState(t[k - 1]) /\ InBags(t[k - 1].bags) \subseteq InBags(s.bags)
      BY <2>2
    <3>2. OkState(t[k]) /\ InBags(t[k].bags) \subseteq InBags(t[k - 1].bags)
      BY <1>4, <3>1
    <3> QED BY <1>2, <3>1, <3>2
  <2> HIDE DEF S, N
  <2>3. \A k \in 0..N : k \in S
    BY <1>2, <2>1, <2>2, UpTo
  <2> QED BY <2>3 DEF S
<1>6. \A k \in 0..N : InBags(e.bags) \subseteq InBags(t[N - k].bags)
  <2>1. 0 \in B
    BY <1>1, <1>2
  <2>2. ASSUME NEW k \in 1..N, k - 1 \in B PROVE k \in B
    <3> DEFINE j == (N - k) + 1
    <3>1. j \in 1..N /\ j - 1 = N - k /\ N - (k - 1) = j /\ N - k \in 0..N /\ k \in 0..N
      BY <1>2
    <3>2. InBags(e.bags) \subseteq InBags(t[j].bags)
      BY <2>2, <3>1
    <3>3. OkState(t[j - 1])
      BY <1>5, <3>1
    <3>4. InBags(t[j].bags) \subseteq InBags(t[j - 1].bags)
      BY <1>4, <3>1, <3>3
    <3>5. InBags(e.bags) \subseteq InBags(t[N - k].bags)
      BY <3>1, <3>2, <3>4
    <3> QED BY <3>1, <3>5
  <2> HIDE DEF B, N
  <2>3. \A k \in 0..N : k \in B
    BY <1>2, <2>1, <2>2, UpTo
  <2> QED BY <2>3 DEF B
<1>7. ASSUME NEW k \in 1..N PROVE w[k].op = "split"
  <2>1. w[k].op = "swap" \/ w[k].op = "split"
    BY <1>2 DEF Requests
  <2>2. ASSUME w[k].op = "swap" PROVE FALSE
    <3> DEFINE i == t[k - 1].bags[w[k].src]
    <3>1. k - 1 \in 0..N /\ N - k \in 0..N /\ N - (N - k) = k
      BY <1>2
    <3>2. OkState(t[k - 1]) /\ InBags(t[k - 1].bags) \subseteq InBags(s.bags)
      BY <1>5, <3>1
    <3>3. i \in InBags(t[k - 1].bags) /\ i \notin InBags(t[k].bags)
      BY <1>4, <2>2, <3>2
    <3>4. InBags(e.bags) \subseteq InBags(t[k].bags)
      BY <1>6, <3>1
    <3> HIDE DEF i
    <3> QED BY <3>2, <3>3, <3>4
  <2> QED BY <2>1, <2>2
<1>8. e.bags = s.bags
  BY <1>7, SplitsStay
<1>9. Leads("keep", s, w, e)
  <2>1. \A k \in 1..N : Manner("keep", t[k - 1], w[k])
    BY <1>7 DEF Manner, Keeps
  <2>2. Trace("keep", t, w)
    BY <1>1, <2>1 DEF Trace
  <2> QED BY <1>1, <2>2 DEF Leads
<1> QED BY <1>7, <1>8, <1>9

-----------------------------------------------------------------------------
(* What is on the wire while the planner does not wait for a merge: splits that
   leave the stacks tidy, and then swaps of free cells. *)
Straight(s, w, cells) ==
  \E u \in Seq(Requests), v \in Seq(SwapsIn(Free(s, cells))) : \E e :
    /\ w = u \o v
    /\ \A k \in 1..Len(u) : u[k].op = "split"
    /\ Leads("keep", s, u, e)
    /\ Tidy(e, cells)

LEMMA SwapsAre ==
  ASSUME NEW cells, NEW w \in Seq(SwapsIn(cells))
  PROVE  w \in Seq(Requests)
<1>1. SwapsIn(cells) \subseteq Requests
  BY DEF SwapsIn, Between
<1> HIDE DEF Requests
<1> QED BY <1>1

(* A placement planned on bags whose stacks are merged or on their way to be. *)
LEMMA PlanAfterSplits ==
  ASSUME SortIsDecided, NEW s, OkState(s), Loaded(s), NEW w \in Seq(Requests), NEW e, Leads("pour", s, w, e),
         InBags(s.bags) \subseteq InBags(e.bags), NEW cells \in SUBSET Cells, Tidy(e, cells),
         NEW r \in BOOLEAN, NEW tie \in TieOrders,
         NEW plan, plan = Place(ViewOf(s, cells), s.count, {}, cached, r, tie)
  PROVE  /\ plan.sent \in Seq(Requests)
         /\ Straight(s, w \o plan.sent, cells)
         /\ Roomy(s, cells) => \E f : Settles(s, w \o plan.sent, plan.lock, cells, r, f)
<1>1. /\ \A k \in 1..Len(w) : w[k].op = "split"
      /\ e.bags = s.bags /\ Leads("keep", s, w, e)
  BY PourKept
<1>2. OkState(e) /\ Loaded(e)
  BY LeadsOk, LeadsLoaded
<1>3. SameFloor(s, e, cells) /\ ViewOf(e, cells) = ViewOf(s, cells)
  BY <1>1, SameBagsSameFloor DEF ViewOf
<1>4. s.count \in [Items -> Nat]
  BY DEF OkState
<1>5. plan.sent \in Seq(SwapsIn(Free(s, cells)))
  BY <1>4, PlaceSwaps
<1>6. plan.sent \in Seq(Requests)
  BY <1>5, SwapsAre
<1>7. Straight(s, w \o plan.sent, cells)
  BY <1>1, <1>5 DEF Straight
<1>8. ASSUME Roomy(s, cells) PROVE \E f : Settles(s, w \o plan.sent, plan.lock, cells, r, f)
  <2>1. Roomy(e, cells)
    BY <1>3, <1>8, FloorIsRoomy
  <2>2. plan = Place(ViewOf(e, cells), s.count, {}, cached, r, tie)
    BY <1>3
  <2>3. PICK f : Settles(e, plan.sent, plan.lock, cells, r, f)
    BY <1>2, <1>4, <2>1, <2>2, PlaceSettles
  <2>4. Leads("keep", s, w \o plan.sent, f)
    <3>1. Leads("keep", e, plan.sent, f)
      BY <2>3 DEF Settles
    <3> QED BY <1>1, <1>6, <3>1, LeadsThrough
  <2>5. Vacated(s, plan.lock, f)
    BY <1>1, <2>3 DEF Settles, Vacated
  <2>6. Settles(s, w \o plan.sent, plan.lock, cells, r, f)
    BY <2>3, <2>4, <2>5 DEF Settles
  <2> QED BY <2>6
<1> QED BY <1>6, <1>7, <1>8

(* The first request that is honoured leaves the rest straight. *)
LEMMA StraightStep ==
  ASSUME NEW s, OkState(s), Loaded(s), NEW cells \in SUBSET Cells, NEW w \in Seq(Requests), w # <<>>,
         Straight(s, w, cells), NEW r, r = Head(w), Honourable(s, r), NEW e, e = After(s, r)
  PROVE  Straight(e, Tail(w), cells) /\ SameFloor(s, e, cells)
<1>0. PICK u \in Seq(Requests), v \in Seq(SwapsIn(Free(s, cells))) : \E x :
        /\ w = u \o v
        /\ \A k \in 1..Len(u) : u[k].op = "split"
        /\ Leads("keep", s, u, x) /\ Tidy(x, cells)
  BY DEF Straight
<1>1. PICK x : /\ w = u \o v
               /\ \A k \in 1..Len(u) : u[k].op = "split"
               /\ Leads("keep", s, u, x) /\ Tidy(x, cells)
  BY <1>0
<1>2. v \in Seq(Requests) /\ r \in Requests
  BY SwapsAre
<1>3. CASE u # <<>>
  <2>1. r = u[1] /\ u[1] = Head(u) /\ Tail(w) = Tail(u) \o v /\ Tail(u) \in Seq(Requests)
        /\ \A k \in 1..Len(Tail(u)) : Tail(u)[k].op = "split"
    <3> HIDE DEF Requests
    <3>1. Len(u) \in Nat \ {0} /\ 1 \in 1..Len(u)
      BY <1>3
    <3>2. r = w[1] /\ w[1] = u[1] /\ u[1] = Head(u)
      BY <1>1, <1>2, <1>3, <3>1
    <3>3. Tail(w) = Tail(u) \o v
      BY <1>1, <1>2, <1>3, <3>1
    <3>4. Tail(u) \in Seq(Requests) /\ \A k \in 1..Len(Tail(u)) : Tail(u)[k] = u[k + 1] /\ k + 1 \in 1..Len(u)
      BY <1>3, <3>1
    <3> QED BY <1>1, <3>2, <3>3, <3>4
  <2>2. r.op = "split"
    <3>1. 1 \in 1..Len(u)
      BY <1>3
    <3> QED BY <1>1, <2>1, <3>1
  <2>3. e.bags = s.bags
    BY <2>2 DEF After
  <2>4. SameFloor(s, e, cells)
    BY <2>3, SameBagsSameFloor
  <2>5. Leads("keep", e, Tail(u), x)
    BY <1>1, <1>3, <2>1, LeadsFirst
  <2>6. v \in Seq(SwapsIn(Free(e, cells)))
    BY <2>4 DEF SameFloor
  <2>7. Straight(e, Tail(w), cells)
    BY <1>1, <2>1, <2>5, <2>6 DEF Straight
  <2> QED BY <2>4, <2>7
<1>4. CASE u = <<>>
  <2>1. x = s
    BY <1>1, <1>4, LeadsStop
  <2>2. w = v
    <3> HIDE DEF Requests
    <3> QED BY <1>1, <1>2, <1>4
  <2>3. r \in SwapsIn(Free(s, cells)) /\ Tail(w) \in Seq(SwapsIn(Free(s, cells)))
    BY <2>2
  <2>4. r.op = "swap" /\ r.src \in Free(s, cells) /\ r.dst \in Free(s, cells)
    BY <2>3 DEF SwapsIn, Between
  <2>5. Keeps(s, r) /\ Tidy(e, cells)
    BY <1>1, <1>2, <2>1, <2>4, KeepTidy
  <2>6. SameFloor(s, e, cells)
    BY <1>2, <2>4, <2>5, KeepAfter
  <2>7. Tail(w) \in Seq(SwapsIn(Free(e, cells)))
    BY <2>3, <2>6 DEF SameFloor
  <2>8. Leads("keep", e, <<>>, e)
    BY LeadsNowhere
  <2>9. <<>> \in Seq(Requests) /\ Tail(w) = <<>> \o Tail(w) /\ \A k \in 1..Len(<<>>) : <<>>[k].op = "split"
    <3>1. Tail(w) \in Seq(Requests)
      BY <2>7, SwapsAre
    <3> HIDE DEF Requests
    <3> QED BY <3>1
  <2>10. Straight(e, Tail(w), cells)
    BY <2>5, <2>7, <2>8, <2>9 DEF Straight
  <2> QED BY <2>6, <2>10
<1> QED BY <1>3, <1>4

-----------------------------------------------------------------------------
(* An undisturbed sort. *)

(* A merge: the wire leads to tidy stacks, and what is locked is what vanishes on
   the way. *)
Merging(s, w, items, cells) ==
  \E e : /\ Leads("pour", s, w, e)
         /\ Tidy(e, cells)
         /\ items = InBags(s.bags) \ InBags(e.bags)

(* A placement of uncrowded bags: the wire leads to where nothing is locked, and to
   sorted bags unless the sorter has stopped waiting for them. *)
Landing(s, w, items, cells, r, ph) ==
  \E e : /\ Leads("keep", s, w, e)
         /\ Vacated(s, items, e)
         /\ ph = "placing" => Settled(e, cells, r)

(* The bags s, the wire w, the locked items, the scope, the direction and the phase
   of an undisturbed sort. *)
CalmOn(s, w, items, cells, r, ph) ==
  /\ OkState(s) /\ Loaded(s) /\ w \in Seq(Requests) /\ cells \subseteq Cells /\ r \in BOOLEAN /\ ph \in Phases
  /\ ph = "merging" => Merging(s, w, items, cells)
  /\ ph # "merging" => Straight(s, w, cells)
  /\ ph # "merging" /\ Roomy(s, cells) => Landing(s, w, items, cells, r, ph)

(* The server honours the request at the head of the wire; what it shows unlocks
   an item that moved or is gone. *)
LEMMA CalmAnswer ==
  ASSUME NEW s, NEW w, NEW items, NEW cells, NEW r, NEW ph, CalmOn(s, w, items, cells, r, ph),
         w # <<>>, Honourable(s, Head(w)), NEW e, e = After(s, Head(w)),
         NEW left, left = {i \in items : i \in InBags(e.bags) /\ \A c \in Cells : e.bags[c] = i => s.bags[c] = i}
  PROVE  CalmOn(e, Tail(w), left, cells, r, ph)
<1>1. /\ OkState(s) /\ Loaded(s) /\ w \in Seq(Requests) /\ cells \in SUBSET Cells /\ r \in BOOLEAN /\ ph \in Phases
  BY DEF CalmOn
<1>2. Head(w) \in Requests /\ Tail(w) \in Seq(Requests)
  <2> HIDE DEF Requests
  <2> QED BY <1>1
<1>3. OkState(e)
  BY <1>1, <1>2, AfterIsOk
<1>4. Loaded(e)
  BY DEF Loaded, After
<1>5. CASE ph = "merging"
  <2>1. PICK f : Leads("pour", s, w, f) /\ Tidy(f, cells) /\ items = InBags(s.bags) \ InBags(f.bags)
    BY <1>5 DEF CalmOn, Merging
  <2>2. Pours(s, Head(w)) /\ Leads("pour", e, Tail(w), f)
    BY <1>1, <2>1, LeadsFirst DEF Manner
  <2>3. /\ \A c \in Cells : e.bags[c] # None => e.bags[c] = s.bags[c]
        /\ InBags(e.bags) \subseteq InBags(s.bags)
    BY <1>1, <1>2, <2>2, PourTakes
  <2>4. left = InBags(e.bags) \ InBags(f.bags)
    <3>1. ASSUME NEW i PROVE i \in left <=> i \in InBags(e.bags) \ InBags(f.bags)
      <4>1. i \in InBags(e.bags) => i # None
        BY DEF InBags
      <4> QED BY <2>1, <2>3, <4>1
    <3> QED BY <3>1, Zenon
  <2>5. Merging(e, Tail(w), left, cells)
    BY <2>1, <2>2, <2>4 DEF Merging
  <2> QED BY <1>1, <1>2, <1>3, <1>4, <1>5, <2>5 DEF CalmOn
<1>6. CASE ph # "merging"
  <2>1. Straight(s, w, cells)
    BY <1>6 DEF CalmOn
  <2>2. Straight(e, Tail(w), cells) /\ SameFloor(s, e, cells)
    BY <1>1, <2>1, StraightStep
  <2>3. ASSUME Roomy(e, cells) PROVE Landing(e, Tail(w), left, cells, r, ph)
    <3>1. Roomy(s, cells)
      BY <2>2, <2>3, FloorIsRoomy
    <3>2. PICK f : Leads("keep", s, w, f) /\ Vacated(s, items, f) /\ (ph = "placing" => Settled(f, cells, r))
      BY <1>6, <3>1 DEF CalmOn, Landing
    <3>3. Leads("keep", e, Tail(w), f)
      BY <1>1, <3>2, LeadsFirst
    <3>4. Vacated(e, left, f)
      BY <3>2 DEF Vacated
    <3> QED BY <3>2, <3>3, <3>4 DEF Landing
  <2> QED BY <1>1, <1>2, <1>3, <1>4, <1>6, <2>2, <2>3 DEF CalmOn
<1> QED BY <1>5, <1>6

(* A merge begins. *)
LEMMA CalmMerge ==
  ASSUME SortIsDecided, NEW s, OkState(s), Loaded(s), NEW cells \in SUBSET Cells, NEW tie \in TieOrders,
         NEW plan, plan = Consolidate(ViewOf(s, cells), s.count, {}, cached, tie), NEW r \in BOOLEAN
  PROVE  CalmOn(s, plan.sent, plan.lock, cells, r, "merging")
<1>1. PICK e : Consolidated(s, cells, plan, e)
  BY ConsolidateIs
<1>2. Merging(s, plan.sent, plan.lock, cells) /\ plan.sent \in Seq(Requests)
  BY <1>1 DEF Consolidated, Merging
<1> QED BY <1>2 DEF CalmOn, Phases

(* A placement begins, behind splits that are still on the wire. *)
LEMMA CalmPlace ==
  ASSUME SortIsDecided, NEW s, OkState(s), Loaded(s), NEW cells \in SUBSET Cells,
         NEW w \in Seq(Requests), Merging(s, w, {}, cells),
         NEW r \in BOOLEAN, NEW tie \in TieOrders, NEW ph \in {"placing", "idle"},
         NEW plan, plan = Place(ViewOf(s, cells), s.count, {}, cached, r, tie)
  PROVE  CalmOn(s, w \o plan.sent, plan.lock, cells, r, ph)
<1>1. PICK e : Leads("pour", s, w, e) /\ Tidy(e, cells) /\ {} = InBags(s.bags) \ InBags(e.bags)
  BY DEF Merging
<1>2. InBags(s.bags) \subseteq InBags(e.bags)
  BY <1>1
<1>3. /\ plan.sent \in Seq(Requests)
      /\ Straight(s, w \o plan.sent, cells)
      /\ Roomy(s, cells) => \E f : Settles(s, w \o plan.sent, plan.lock, cells, r, f)
  BY <1>1, <1>2, PlanAfterSplits
<1>4. w \o plan.sent \in Seq(Requests)
  <2> HIDE DEF Requests
  <2> QED BY <1>3
<1>5. Roomy(s, cells) => Landing(s, w \o plan.sent, plan.lock, cells, r, ph)
  BY <1>3 DEF Settles, Landing
<1>6. ph # "merging" /\ ph \in Phases
  BY DEF Phases
<1> QED BY <1>3, <1>4, <1>5, <1>6 DEF CalmOn

(* The sorter stops waiting. *)
LEMMA CalmEnd ==
  ASSUME NEW s, NEW w, NEW items, NEW cells, NEW r, CalmOn(s, w, items, cells, r, "placing")
  PROVE  CalmOn(s, w, items, cells, r, "idle")
  BY DEF CalmOn, Landing, Phases

(* What is read of the records does not change while none arrives. *)
LEMMA FreeStays ==
  ASSUME cached' = cached, NEW s, NEW cells
  PROVE  Free(s, cells)' = Free(s, cells) /\ Placed(s, cells)' = Placed(s, cells)
  BY DEF Free, Placed

LEMMA TidyStays ==
  ASSUME cached' = cached, NEW s, NEW cells
  PROVE  Tidy(s, cells)' <=> Tidy(s, cells)
  BY FreeStays DEF Tidy

LEMMA RoomyStays ==
  ASSUME cached' = cached, NEW s, NEW cells
  PROVE  Roomy(s, cells)' <=> Roomy(s, cells)
<1>1. ASSUME NEW f PROVE CrowdedIn(s, cells, f)' <=> CrowdedIn(s, cells, f)
  <2>1. PoolCells(s, cells, f)' = PoolCells(s, cells, f)
    BY FreeStays DEF PoolCells
  <2>2. Placed(s, cells)' = Placed(s, cells)
    BY FreeStays
  <2> QED BY <2>1, <2>2, Zenon DEF CrowdedIn
<1> QED BY <1>1 DEF Roomy

LEMMA SettledStays ==
  ASSUME cached' = cached, NEW e, NEW cells, NEW r
  PROVE  Settled(e, cells, r)' <=> Settled(e, cells, r)
<1>1. RanksInOrder(e, cells, r)' <=> RanksInOrder(e, cells, r)
  BY FreeStays DEF RanksInOrder
<1> QED BY <1>1, TidyStays DEF Settled

LEMMA StraightStays ==
  ASSUME cached' = cached, NEW s, NEW w, NEW cells
  PROVE  Straight(s, w, cells)' <=> Straight(s, w, cells)
  BY TidyStays, FreeStays DEF Straight

LEMMA CalmStays ==
  ASSUME cached' = cached, NEW s, NEW w, NEW items, NEW cells, NEW r, NEW ph
  PROVE  CalmOn(s, w, items, cells, r, ph)' <=> CalmOn(s, w, items, cells, r, ph)
<1>1. Merging(s, w, items, cells)' <=> Merging(s, w, items, cells)
  BY TidyStays DEF Merging
<1>2. Landing(s, w, items, cells, r, ph)' <=> Landing(s, w, items, cells, r, ph)
  BY SettledStays DEF Landing
<1> QED BY <1>1, <1>2, RoomyStays, StraightStays DEF CalmOn

(* The inductive invariant of an undisturbed sort. *)
CalmInv ==
  /\ LocksAreAwaited
  /\ phase # "idle" => deadline = SettleTime
  /\ CalmOn(Now, wire, locked, scope, rightToLeft, phase)

(* Nothing is awaited that is not locked, and the clock never gets to run out. *)
LEMMA CalmPhaseEnds ==
  ASSUME SettleTime \in Nat \ {0}, CalmInv, phase # "idle", PhaseIsOver
  PROVE  StillLocked = {} /\ locked = {}
<1>1. deadline # 0
  BY DEF CalmInv
<1>2. StillLocked = {}
  BY <1>1 DEF PhaseIsOver
<1>3. locked \subseteq StillLocked
  BY DEF CalmInv, LocksAreAwaited, StillLocked
<1> QED BY <1>2, <1>3

(* A call starts a sort of bags as they are. *)
LEMMA CalmCall ==
  ASSUME SortIsDecided, MaxWire = 0, CalmInv, Call
  PROVE  CalmInv'
<1>1. PICK cells \in Scopes, tie \in TieOrders, order \in TieOrders :
        StartSort(cells, tie) \/ StartSortNoMerge(cells, tie, order)
  BY DEF Call
<1>2. LocksAreAwaited'
  BY CallKeepsLocks DEF CalmInv
<1>3. /\ phase = "idle" /\ locked = {} /\ scope' = cells /\ Len(wire) <= 0
      /\ bags' = bags /\ count' = count /\ cached' = cached /\ rightToLeft' = rightToLeft
  BY <1>1 DEF StartSort, StartSortNoMerge, CalmInv, LocksAreAwaited, IdleIffNothingAwaited, inventory, rest
<1>4. cells \in SUBSET Cells
  BY SortBagsAssumption
<1>5. OkState(Now) /\ Loaded(Now) /\ wire \in Seq(Requests) /\ rightToLeft \in BOOLEAN
  BY DEF CalmInv, CalmOn
<1>6. wire = <<>> /\ Now' = Now
  BY <1>3, <1>5 DEF Now
<1>7. Now.count = count /\ ViewOf(Now, cells) = [c \in cells |-> bags[c]]
  BY DEF Now, ViewOf
<1> DEFINE merge == Consolidate(ViewOf(Now, cells), Now.count, {}, cached, tie)
           place == Place(ViewOf(Now, cells), Now.count, {}, cached, rightToLeft, order)
<1>8. CalmOn(Now, merge.sent, merge.lock, cells, rightToLeft, "merging")
  <2> HIDE DEF Now
  <2> QED BY <1>4, <1>5, CalmMerge
<1>9. merge.sent \in Seq(Requests) /\ Merging(Now, merge.sent, merge.lock, cells)
  BY <1>8 DEF CalmOn
<1>10. /\ merge = Consolidate([c \in cells |-> bags[c]], count, locked, cached, tie)
       /\ place = Place([c \in cells |-> bags[c]], count, locked, cached, rightToLeft, order)
  BY <1>3, <1>7
<1> HIDE DEF merge, place, Now
<1>11. CASE StartSort(cells, tie)
  <2>1. /\ wire' = merge.sent /\ locked' = merge.lock
        /\ phase' = "merging" /\ deadline' = SettleTime
    <3>1. /\ Sends(merge.sent) /\ locked' = (locked \ ReleasedBy(merge.sent)) \cup merge.lock
          /\ BeginWait("merging", merge.lock)
      BY <1>10, <1>11, Zenon DEF StartSort
    <3>2. wire' = <<>> \o merge.sent /\ phase' = "merging" /\ deadline' = SettleTime
      BY <1>6, <3>1 DEF Sends, BeginWait
    <3>3. <<>> \o merge.sent = merge.sent
      <4> HIDE DEF Requests
      <4> QED BY <1>9
    <3> QED BY <1>3, <3>1, <3>2, <3>3
  <2>2. CalmOn(Now', wire', locked', scope', rightToLeft', phase')
    BY <1>3, <1>6, <1>8, <2>1
  <2>3. CalmOn(Now, wire, locked, scope, rightToLeft, phase)'
    BY <1>3, <2>2, CalmStays
  <2> QED BY <1>2, <2>1, <2>3 DEF CalmInv
<1>12. CASE StartSortNoMerge(cells, tie, order)
  <2> DEFINE sent == merge.sent \o place.sent
  <2>0. /\ merge.lock = {} /\ Sends(sent) /\ locked' = (locked \ ReleasedBy(sent)) \cup place.lock
        /\ IF place.lock # {}
           THEN BeginWait("placing", place.lock)
           ELSE phase' = "idle" /\ waiting' = {} /\ UNCHANGED <<lastPending, deadline>>
    BY <1>10, <1>12, Zenon DEF StartSortNoMerge
  <2>1. /\ phase' \in {"placing", "idle"} /\ (phase' # "idle" => deadline' = SettleTime)
        /\ locked' = place.lock /\ wire' = <<>> \o sent
    BY <1>3, <1>6, <2>0 DEF BeginWait, Sends
  <2>2. ASSUME NEW ph \in {"placing", "idle"}
        PROVE  CalmOn(Now, sent, place.lock, cells, rightToLeft, ph)
    BY <1>4, <1>5, <1>9, <2>0, CalmPlace DEF place
  <2>3. sent \in Seq(Requests)
    BY <2>2 DEF CalmOn
  <2>4. wire' = sent
    <3> HIDE DEF Requests, sent
    <3> QED BY <2>1, <2>3
  <2>5. CalmOn(Now', wire', locked', scope', rightToLeft', phase')
    BY <1>3, <1>6, <2>1, <2>2, <2>4
  <2>6. CalmOn(Now, wire, locked, scope, rightToLeft, phase)'
    BY <1>3, <2>5, CalmStays
  <2> QED BY <1>2, <2>1, <2>6 DEF CalmInv
<1> QED BY <1>1, <1>11, <1>12

(* A frame goes from a phase to the next when its locks are gone. *)
LEMMA CalmTick ==
  ASSUME SortIsDecided, SettleTime \in Nat \ {0}, CalmInv, Tick
  PROVE  CalmInv'
<1>1. LocksAreAwaited'
  BY TickKeepsLocks DEF CalmInv
<1>2. CalmOn(Now, wire, locked, scope, rightToLeft, phase)
  BY DEF CalmInv
<1>3. /\ OkState(Now) /\ Loaded(Now) /\ wire \in Seq(Requests) /\ rightToLeft \in BOOLEAN
      /\ scope \in SUBSET Cells
  BY <1>2 DEF CalmOn
<1>4. CASE TickProgress
  <2>1. /\ bags' = bags /\ count' = count /\ cached' = cached /\ wire' = wire /\ locked' = locked
        /\ scope' = scope /\ rightToLeft' = rightToLeft /\ phase' = phase /\ deadline' = SettleTime
    BY <1>4 DEF TickProgress, inventory, player, rest
  <2>2. Now' = Now
    BY <2>1 DEF Now
  <2> HIDE DEF Now
  <2>3. CalmOn(Now', wire', locked', scope', rightToLeft', phase')
    BY <1>2, <2>1, <2>2
  <2>4. CalmOn(Now, wire, locked, scope, rightToLeft, phase)'
    BY <2>1, <2>3, CalmStays
  <2> QED BY <1>1, <2>1, <2>4 DEF CalmInv
<1>5. ASSUME NEW tie \in TieOrders, TickMerged(tie) PROVE CalmInv'
  <2> DEFINE plan == Place(ViewOf(Now, scope), Now.count, {}, cached, rightToLeft, tie)
  <2>1. phase = "merging" /\ PhaseIsOver /\ RunPlacement(scope, StillLocked, tie)
        /\ bags' = bags /\ count' = count /\ cached' = cached /\ rightToLeft' = rightToLeft
    BY <1>5 DEF TickMerged, inventory, rest
  <2>2. StillLocked = {} /\ locked = {}
    BY <2>1, CalmPhaseEnds
  <2>3. plan = Place([c \in scope |-> bags[c]], count, locked \ StillLocked, cached, rightToLeft, tie)
    BY <2>2 DEF Now, ViewOf
  <2>4. Now' = Now
    BY <2>1 DEF Now
  <2> HIDE DEF Now
  <2>5. Merging(Now, wire, {}, scope)
    BY <1>2, <2>1, <2>2 DEF CalmOn
  <2>6. ASSUME NEW ph \in {"placing", "idle"}
        PROVE  CalmOn(Now, wire \o plan.sent, plan.lock, scope, rightToLeft, ph)
    BY <1>3, <2>5, CalmPlace
  <2> HIDE DEF plan
  <2>7. /\ Sends(plan.sent) /\ locked' = ((locked \ StillLocked) \ ReleasedBy(plan.sent)) \cup plan.lock
        /\ IF plan.lock # {}
           THEN BeginWait("placing", plan.lock)
           ELSE phase' = "idle" /\ waiting' = {} /\ UNCHANGED <<lastPending, deadline>>
        /\ scope' = scope
    BY <2>1, <2>3, Zenon DEF RunPlacement
  <2>8. /\ phase' \in {"placing", "idle"} /\ (phase' # "idle" => deadline' = SettleTime)
        /\ locked' = plan.lock /\ wire' = wire \o plan.sent
    BY <2>2, <2>7 DEF BeginWait, Sends
  <2>9. CalmOn(Now', wire', locked', scope', rightToLeft', phase')
    BY <2>1, <2>4, <2>6, <2>7, <2>8
  <2>10. CalmOn(Now, wire, locked, scope, rightToLeft, phase)'
    BY <2>1, <2>9, CalmStays
  <2> QED BY <1>1, <2>8, <2>10 DEF CalmInv
<1>6. CASE TickPlaced
  <2>1. /\ phase = "placing" /\ PhaseIsOver /\ phase' = "idle" /\ locked' = locked \ StillLocked
        /\ bags' = bags /\ count' = count /\ cached' = cached /\ wire' = wire
        /\ scope' = scope /\ rightToLeft' = rightToLeft
    BY <1>6 DEF TickPlaced, inventory, player, rest
  <2>2. locked' = locked
    BY <2>1, CalmPhaseEnds
  <2>3. Now' = Now
    BY <2>1 DEF Now
  <2> HIDE DEF Now
  <2>4. CalmOn(Now, wire, locked, scope, rightToLeft, "idle")
    BY <1>2, <2>1, CalmEnd
  <2>5. CalmOn(Now', wire', locked', scope', rightToLeft', phase')
    BY <2>1, <2>2, <2>3, <2>4
  <2>6. CalmOn(Now, wire, locked, scope, rightToLeft, phase)'
    BY <2>1, <2>5, CalmStays
  <2> QED BY <1>1, <2>1, <2>6 DEF CalmInv
<1> QED BY <1>4, <1>5, <1>6 DEF Tick

(* An answer takes the plan a step on. *)
LEMMA CalmHonoured ==
  ASSUME CalmInv, Honoured
  PROVE  CalmInv'
<1>1. LocksAreAwaited'
  BY ServerKeepsLocks DEF CalmInv, Server
<1>2. CalmOn(Now, wire, locked, scope, rightToLeft, phase)
  BY DEF CalmInv
<1>3. OkState(Now) /\ wire \in Seq(Requests)
  BY <1>2 DEF CalmOn
<1>4. /\ wire # <<>> /\ wire' = Tail(wire) /\ Request = Head(wire)
      /\ Honourable(Now, Request) /\ Now' = After(Now, Request) /\ Show(bags', count')
      /\ UNCHANGED <<moves, sorter, rest>>
  BY <1>3, HonouredIs DEF Request
<1>5. locked' = {i \in locked : i \in InBags(bags') /\ \A c \in Cells : bags'[c] = i => bags[c] = i}
  BY <1>4 DEF Show
<1>6. phase' = phase /\ deadline' = deadline /\ scope' = scope /\ cached' = cached /\ rightToLeft' = rightToLeft
  BY <1>4 DEF sorter, rest
<1>7. Now.bags = bags /\ Now'.bags = bags'
  BY DEF Now
<1> HIDE DEF Now
<1> DEFINE e == After(Now, Head(wire))
           left == {i \in locked : i \in InBags(e.bags) /\ \A c \in Cells : e.bags[c] = i => Now.bags[c] = i}
<1>8. CalmOn(e, Tail(wire), left, scope, rightToLeft, phase)
  BY <1>2, <1>4, CalmAnswer
<1>9. e = Now'
  BY <1>4
<1>10. left = locked'
  BY <1>5, <1>7, <1>9
<1> HIDE DEF e, left
<1>11. CalmOn(Now', wire', locked', scope', rightToLeft', phase')
  BY <1>4, <1>6, <1>8, <1>9, <1>10
<1>12. CalmOn(Now, wire, locked, scope, rightToLeft, phase)'
  BY <1>6, <1>11, CalmStays
<1> QED BY <1>1, <1>6, <1>12 DEF CalmInv

(* CalmInv is inductive. *)
LEMMA CalmStep ==
  ASSUME SortIsDecided, MaxWire = 0, SettleTime \in Nat \ {0}, CalmInv, [CalmNext]_vars
  PROVE  CalmInv'
<1>1. CASE CalmNext
  BY <1>1, CalmCall, CalmTick, CalmHonoured DEF CalmNext
<1>2. CASE UNCHANGED vars
  <2>1. /\ bags' = bags /\ count' = count /\ cached' = cached /\ wire' = wire /\ locked' = locked
        /\ scope' = scope /\ rightToLeft' = rightToLeft /\ phase' = phase /\ deadline' = deadline
        /\ held' = held /\ waiting' = waiting
    BY <1>2 DEF vars, inventory, player, sorter, rest
  <2>2. LocksAreAwaited'
    BY <2>1 DEF CalmInv, LocksAreAwaited, IdleIffNothingAwaited, InBags
  <2>3. Now' = Now
    BY <2>1 DEF Now
  <2> HIDE DEF Now
  <2>4. CalmOn(Now', wire', locked', scope', rightToLeft', phase')
    BY <2>1, <2>3 DEF CalmInv
  <2>5. CalmOn(Now, wire, locked, scope, rightToLeft, phase)'
    BY <2>1, <2>4, CalmStays
  <2> QED BY <2>1, <2>2, <2>5 DEF CalmInv
<1> QED BY <1>1, <1>2

(* No sort is under way at first. *)
LEMMA CalmInit ==
  ASSUME Init
  PROVE  CalmInv
<1>1. LocksAreAwaited
  BY DEF Init, Layouts, LocksAreAwaited, IdleIffNothingAwaited, InBags
<1>2. OkState(Now) /\ Loaded(Now)
  <2>1. /\ bags \in Layouts /\ InBags(bags) = Items
        /\ count \in [Items -> UNION {0..MaxStack[k] : k \in Kinds}]
        /\ \A i \in Items : count[i] \in 1..MaxStack[KindOf[i]]
    BY DEF Init, CountsOf
  <2>2. \A i \in Items : count[i] \in Nat /\ count[i] >= 1 /\ count[i] <= MaxStack[KindOf[i]]
    <3>1. \A i \in Items : MaxStack[KindOf[i]] \in Nat
      BY SortPlanAssumption
    <3> QED BY <2>1, <3>1
  <2>3. count \in [Items -> Nat]
    <3>1. DOMAIN count = Items /\ count = [i \in Items |-> count[i]]
      BY <2>1
    <3> QED BY <2>2, <3>1
  <2>4. Now.bags = bags /\ Now.count = count /\ Loaded(Now)
    BY DEF Now, Loaded
  <2> HIDE DEF Now
  <2> QED BY <2>1, <2>2, <2>3, <2>4 DEF OkState
<1>3. phase = "idle" /\ wire = <<>> /\ locked = {} /\ scope = {} /\ rightToLeft \in BOOLEAN
  BY DEF Init
<1> HIDE DEF Now
<1>4. Tidy(Now, {})
  <2>1. InBags(ViewOf(Now, {})) = {}
    BY DEF InBags, ViewOf
  <2> QED BY <2>1 DEF Tidy, Packed, Placed
<1>5. Leads("keep", Now, <<>>, Now)
  BY LeadsNowhere
<1>6. Straight(Now, <<>>, {})
  <2>1. /\ <<>> \in Seq(Requests) /\ <<>> \in Seq(SwapsIn(Free(Now, {}))) /\ <<>> = <<>> \o <<>>
        /\ \A k \in 1..Len(<<>>) : <<>>[k].op = "split"
    <3> HIDE DEF Requests
    <3> QED OBVIOUS
  <2> QED BY <1>4, <1>5, <2>1 DEF Straight
<1>7. Landing(Now, <<>>, {}, {}, rightToLeft, "idle")
  BY <1>5 DEF Landing, Vacated
<1>8. <<>> \in Seq(Requests)
  OBVIOUS
<1>9. CalmOn(Now, <<>>, {}, {}, rightToLeft, "idle")
  BY <1>2, <1>3, <1>6, <1>7, <1>8 DEF CalmOn, Phases
<1> QED BY <1>1, <1>3, <1>9 DEF CalmInv

-----------------------------------------------------------------------------
(* What the invariant says of the properties. *)

(* Bags that are not crowded have a seat for each entry. *)
LEMMA CrowdedIs ==
  ASSUME NothingIsCrowded
  PROVE  Roomy(Now, scope)
<1>1. View = ViewOf(Now, scope) /\ Now.bags = bags
  BY DEF View, ViewOf, Now
<1> HIDE DEF Now
<1>2. ASSUME NEW f, CrowdedIn(Now, scope, f) PROVE Crowded(f)
  <2>1. {c \in scope : BagFamily[c] = f /\ (bags[c] # None => KindOf[bags[c]] \in cached)} = PoolCells(Now, scope, f)
    BY <1>1 DEF PoolCells, Free
  <2>2. {i \in InBags(View) : KindOf[i] \in cached /\ FamilyOf[KindOf[i]] = f} = {i \in Placed(Now, scope) : FamilyOf[KindOf[i]] = f}
    BY <1>1 DEF Placed
  <2> QED BY <1>2, <2>1, <2>2, Zenon DEF Crowded, CrowdedIn
<1> QED BY <1>2 DEF NothingIsCrowded, Roomy

(* Where the requests on the wire lead, whatever the phase. *)
LEMMA CalmLeads ==
  ASSUME CalmInv, phase # "merging" => NothingIsCrowded
  PROVE  \E x \in {"pour", "keep"} : \E e : Leads(x, Now, wire, e)
<1>1. CalmOn(Now, wire, locked, scope, rightToLeft, phase)
  BY DEF CalmInv
<1>2. CASE phase = "merging"
  BY <1>1, <1>2 DEF CalmOn, Merging
<1>3. CASE phase # "merging"
  <2>1. Roomy(Now, scope)
    BY <1>3, CrowdedIs
  <2> QED BY <1>1, <1>3, <2>1 DEF CalmOn, Landing
<1> QED BY <1>2, <1>3

(* The first request can be honoured where the rest lead on. *)
LEMMA CalmIsHonoured ==
  ASSUME CalmInv
  PROVE  NoRequestIsRefused
<1> SUFFICES ASSUME wire # <<>>, phase # "merging" => NothingIsCrowded
             PROVE  LET a == bags[Request.src]
                        b == bags[Request.dst]
                    IN /\ a # None
                       /\ Request.op = "swap" =>
                            \/ CanMerge(a, b)
                            \/ Fits(a, Request.dst) /\ Fits(b, Request.src)
                       /\ Request.op = "split" =>
                            /\ CanMerge(a, b)
                            /\ count[a] > Request.n
                            /\ count[b] + Request.n <= MaxStack[KindOf[b]]
  BY DEF NoRequestIsRefused
<1>1. PICK x \in {"pour", "keep"} : \E e : Leads(x, Now, wire, e)
  BY CalmLeads
<1>2. wire \in Seq(Requests)
  BY DEF CalmInv, CalmOn
<1>3. Honourable(Now, Request)
  <2> HIDE DEF Now
  <2> QED BY <1>1, <1>2, LeadsFirst DEF Request
<1>4. Now.bags = bags /\ Now.count = count
  BY DEF Now
<1> HIDE DEF Now
<1> QED BY <1>3, <1>4 DEF Honourable, CanStack, CanMerge

(* When every request of a phase is answered, the bags are where they led. *)
LEMMA CalmUnlocks ==
  ASSUME CalmInv, Answered
  PROVE  locked = {}
<1>1. CalmOn(Now, wire, locked, scope, rightToLeft, phase) /\ wire = <<>> /\ locked \subseteq InBags(bags)
  BY DEF CalmInv, LocksAreAwaited, Answered
<1>2. Now.bags = bags /\ phase \in Phases /\ OkState(Now)
  BY <1>1 DEF Now, CalmOn
<1> HIDE DEF Now
<1>3. CASE phase = "merging"
  <2>1. PICK e : Leads("pour", Now, <<>>, e) /\ locked = InBags(Now.bags) \ InBags(e.bags)
    BY <1>1, <1>3 DEF CalmOn, Merging
  <2>2. e = Now
    BY <2>1, LeadsStop
  <2> QED BY <2>1, <2>2
<1>4. CASE phase = "placing"
  <2>1. Roomy(Now, scope)
    BY <1>4, CrowdedIs DEF Answered
  <2>2. PICK e : Leads("keep", Now, <<>>, e) /\ Vacated(Now, locked, e)
    BY <1>1, <1>4, <2>1 DEF CalmOn, Landing
  <2>3. e = Now
    BY <2>2, LeadsStop
  <2>4. \A i \in InBags(Now.bags) : \E c \in Cells : Now.bags[c] = i
    BY <1>2, OkCells
  <2> QED BY <1>1, <1>2, <2>2, <2>3, <2>4 DEF Vacated
<1> QED BY <1>2, <1>3, <1>4 DEF Answered, Phases

LEMMA CalmIsSettled ==
  ASSUME CalmInv, Arranged
  PROVE  Settled(Now, scope, rightToLeft) /\ OkState(Now) /\ Loaded(Now) /\ scope \in SUBSET Cells
<1>1. CalmOn(Now, wire, locked, scope, rightToLeft, phase) /\ wire = <<>> /\ phase = "placing" /\ NothingIsCrowded
  BY DEF CalmInv, Arranged, Answered
<1>2. Roomy(Now, scope)
  BY <1>1, CrowdedIs
<1> HIDE DEF Now
<1>3. PICK e : Leads("keep", Now, <<>>, e) /\ Settled(e, scope, rightToLeft)
  BY <1>1, <1>2 DEF CalmOn, Landing
<1>4. e = Now
  BY <1>3, LeadsStop
<1> QED BY <1>1, <1>3, <1>4 DEF CalmOn

(* When all is answered the bags are as the plan meant them. *)
LEMMA CalmIsSorted ==
  ASSUME CalmInv
  PROVE  BagsAreSorted
<1> SUFFICES ASSUME Arranged PROVE BagsAreSorted
  BY DEF BagsAreSorted, StacksArePacked, KindsAreInOrder
<1>1. /\ Settled(Now, scope, rightToLeft) /\ OkState(Now) /\ scope \in SUBSET Cells
  BY CalmIsSettled
<1>2. Now.bags = bags /\ Now.count = count /\ View = ViewOf(Now, scope)
  BY DEF Now, View, ViewOf
<1> HIDE DEF Now
<1>3. ASSUME NEW a \in InBags(View), NEW b \in InBags(View),
             a # b, KindOf[a] = KindOf[b], KindOf[a] \in cached
      PROVE  count[a] = MaxStack[KindOf[a]] \/ count[b] = MaxStack[KindOf[b]]
  <2>1. a \in Placed(Now, scope) /\ b \in Placed(Now, scope)
    BY <1>2, <1>3 DEF Placed
  <2>2. count[a] > 0 /\ count[b] > 0
    <3>1. count[a] \in 1..MaxStack[KindOf[a]] /\ count[b] \in 1..MaxStack[KindOf[b]]
      BY <1>1, <1>2, <2>1, PlacedAre
    <3> QED BY <3>1
  <2> QED BY <1>1, <1>2, <1>3, <2>1, <2>2 DEF Settled, Tidy, Packed
<1>4. ASSUME NEW c \in scope, NEW d \in scope, PlacedAhead(c, d)
      PROVE  Rank[KindOf[bags[c]]] <= Rank[KindOf[bags[d]]]
  <2>1. /\ Sooner(c, d, rightToLeft) /\ BagFamily[c] = BagFamily[d]
        /\ bags[c] # None /\ KindOf[bags[c]] \in cached
        /\ bags[d] # None /\ KindOf[bags[d]] \in cached
    BY <1>4 DEF PlacedAhead, Sooner
  <2>2. c \in Free(Now, scope) /\ d \in Free(Now, scope)
    BY <1>2, <2>1 DEF Free
  <2> QED BY <1>1, <1>2, <2>1, <2>2 DEF Settled, RanksInOrder
<1> QED BY <1>3, <1>4 DEF BagsAreSorted, StacksArePacked, KindsAreInOrder

(* Bags that were arranged need no request. *)
LEMMA CalmIsQuiet ==
  ASSUME SortIsDecided, CalmInv
  PROVE  SecondSortIsQuiet
<1> SUFFICES ASSUME Arranged, NEW tie \in TieOrders
             PROVE  /\ Consolidate(View, count, locked, cached, tie).sent = <<>>
                    /\ Place(View, count, locked, cached, rightToLeft, tie).sent = <<>>
  BY DEF SecondSortIsQuiet
<1>1. /\ Settled(Now, scope, rightToLeft) /\ OkState(Now) /\ Loaded(Now) /\ scope \in SUBSET Cells
  BY CalmIsSettled
<1>2. locked = {}
  BY CalmUnlocks DEF Arranged
<1>3. Now.count = count /\ View = ViewOf(Now, scope)
  BY DEF Now, View, ViewOf
<1> HIDE DEF Now
<1>4. Consolidate(ViewOf(Now, scope), Now.count, {}, cached, tie).sent = <<>>
  <2>1. Tidy(Now, scope)
    BY <1>1 DEF Settled
  <2> QED BY <1>1, <2>1, NothingToMerge
<1>5. Place(ViewOf(Now, scope), Now.count, {}, cached, rightToLeft, tie).sent = <<>>
  BY <1>1 DEF Settled
<1> QED BY <1>2, <1>3, <1>4, <1>5

-----------------------------------------------------------------------------
(* The theorems: of a sort that nobody disturbs, asked for when the requests of
   the one before are answered. *)

LEMMA CalmHolds ==
  ASSUME SortIsDecided, MaxWire = 0, SettleTime \in Nat \ {0}
  PROVE  CalmSpec => []CalmInv
<1>1. Init => CalmInv
  BY CalmInit
<1>2. CalmInv /\ [CalmNext]_vars => CalmInv'
  BY CalmStep
<1> QED
  BY <1>1, <1>2, PTL DEF CalmSpec

(* Planned against one snapshot and sent in one frame, each split, merge and swap of
   a batch can still be honoured when the server comes to it. *)
THEOREM RequestsCanBeHonoured ==
  ASSUME SortIsDecided, MaxWire = 0, SettleTime \in Nat \ {0}
  PROVE  CalmSpec => []NoRequestIsRefused
  BY CalmHolds, CalmIsHonoured, PTL

(* Every lock that Consolidate or Place took is on an item that leaves its cell: all are
   gone when the requests are answered, and OnTick need not run into the deadline. *)
THEOREM LocksAreReleased ==
  ASSUME SortIsDecided, MaxWire = 0, SettleTime \in Nat \ {0}
  PROVE  CalmSpec => []NoLockIsLeftOver
<1>1. CalmInv => NoLockIsLeftOver
  BY CalmUnlocks DEF NoLockIsLeftOver, StillLocked
<1> QED
  BY <1>1, CalmHolds, PTL

(* One call of SortBags packs the stacks and puts the kinds in order, family bags,
   junk and direction included. *)
THEOREM OneSortSorts ==
  ASSUME SortIsDecided, MaxWire = 0, SettleTime \in Nat \ {0}
  PROVE  CalmSpec => []BagsAreSorted
  BY CalmHolds, CalmIsSorted, PTL

(* A second call right after finds nothing to merge and everything at home, whichever
   way std::sort puts equal stacks. *)
THEOREM SortingTwiceIsSortingOnce ==
  ASSUME SortIsDecided, MaxWire = 0, SettleTime \in Nat \ {0}
  PROVE  CalmSpec => []SecondSortIsQuiet
<1>1. CalmInv => SecondSortIsQuiet
  BY CalmIsQuiet
<1> QED
  BY <1>1, CalmHolds, PTL
=============================================================================
