------------------------------ MODULE SortPlan ------------------------------
(***************************************************************************)
(* The two planners of C_Container.SortBags (container/SortBags.cpp) as    *)
(* functions of a snapshot of the bags: Consolidate pours partial stacks   *)
(* together, Place lays the items out in order.  Both return the requests  *)
(* they send, in order, and the items they lock.                           *)
(*                                                                         *)
(* Cells are numbered in scan order, bag by bag and slot by slot.  An item *)
(* (a GUID) has a kind (its item id), and a kind the attributes the        *)
(* comparator and the planner read from its record.                        *)
(***************************************************************************)
EXTENDS Integers, Sequences, FiniteSets, SequencesExt

CONSTANTS
  Cells,       \* 1..n, every slot of the bags
  BagFamily,   \* [Cells -> family]: the family of the bag a cell is in
  NoFamily,    \* the family of a general-purpose bag, and of an item for it
  Items,       \* GUIDs
  None,        \* no item: the content of an empty cell
  Kinds,       \* item ids
  KindOf,      \* [Items -> Kinds]
  ItemID,      \* [Kinds -> Nat], the last key of Precedes
  Rank,        \* [Kinds -> Nat], its keys ahead of the stack count
  Junk,        \* kinds of category kCatJunk
  FamilyOf,    \* [Kinds -> family]
  MaxStack     \* [Kinds -> Nat]

ASSUME SortPlanAssumption ==
  /\ Cells \subseteq Nat \ {0}
  /\ None \notin Items
  /\ KindOf \in [Items -> Kinds]
  /\ ItemID \in [Kinds -> Nat]
  /\ Rank \in [Kinds -> Nat]
  /\ MaxStack \in [Kinds -> Nat \ {0}]
  /\ Junk \subseteq Kinds
  /\ \A j \in Junk, k \in Kinds \ Junk : Rank[k] < Rank[j]

Slots(bags, i) == CHOOSE c \in DOMAIN bags : bags[c] = i

InBags(bags) == {bags[c] : c \in DOMAIN bags} \ {None}

Starts(bags, items) == [i \in items |-> Slots(bags, i)]

(* A sort: what has n - 1 others ahead of it comes n-th.  (Appending nothing
   makes it a tuple, which TLC evaluates once.) *)
InOrder(ahead) ==
  [n \in 1..Cardinality(DOMAIN ahead) |->
     CHOOSE x \in DOMAIN ahead : Cardinality(ahead[x]) = n - 1] \o <<>>

Upward(S) == InOrder([c \in S |-> {d \in S : d < c}])
Downward(S) == InOrder([c \in S |-> {d \in S : d > c}])

Swap(src, dst) == [op |-> "swap", src |-> src, dst |-> dst, n |-> 0]
Split(src, dst, n) == [op |-> "split", src |-> src, dst |-> dst, n |-> n]

-----------------------------------------------------------------------------
(* Phase one. *)

(* GatherGroups: what a merge may pour from or into. *)
Mergeable(bags, locked, cached) ==
  {i \in InBags(bags) \ locked : KindOf[i] \in cached /\ MaxStack[KindOf[i]] > 1}

(* One turn of the pouring loop over a group's stacks, fullest first. *)
PourStep(p, max) ==
  LET src == p.stacks[p.hi]
      dst == p.stacks[p.lo]
      space == max - p.count[dst]
      whole == space >= p.count[src]
      moved == IF whole THEN p.count[src] ELSE space
      count == [p.count EXCEPT ![dst] = @ + moved, ![src] = @ - moved]
  IN IF p.lo >= p.hi THEN p
     ELSE IF space <= 0 THEN [p EXCEPT !.lo = @ + 1]
     ELSE [p EXCEPT !.count = count,
                    !.sent = Append(@, IF whole THEN Swap(p.at[src], p.at[dst])
                                       ELSE Split(p.at[src], p.at[dst], moved)),
                    !.hi = IF whole THEN @ - 1 ELSE @,
                    !.lo = IF whole THEN @ ELSE @ + 1]

Pour(count, stacks, at, max) ==
  LET init == [stacks |-> stacks, at |-> at, count |-> count,
               lo |-> 1, hi |-> Len(stacks), sent |-> <<>>]
  IN FoldLeft(LAMBDA p, turn : PourStep(p, max), init, stacks)

(* Mutant: every stack a request touches is locked. *)
MergeLockAll(mergeable, before, after) == {i \in mergeable : after[i] # before[i]}

(* Only the stacks a whole transfer empties are locked: their slot will show
   another GUID, or none. *)
MergeLock(mergeable, before, after) == {i \in mergeable : after[i] = 0}

(* A group's stacks, fullest first; std::sort leaves the order of equally full
   ones open, which `tie` decides. *)
Fullest(group, count, tie) ==
  InOrder([a \in group |->
    {b \in group : count[b] > count[a] \/ (count[b] = count[a] /\ tie[b] < tie[a])}])

Group(mergeable, k) == {i \in mergeable : KindOf[i] = k}

(* Groups come in the order their first stack is met. *)
Heads(bags, mergeable) ==
  {c \in DOMAIN bags :
     /\ bags[c] \in mergeable
     /\ \A d \in DOMAIN bags : d < c => bags[d] \notin Group(mergeable, KindOf[bags[c]])}

PourGroup(plan, group, max, count, at, tie) ==
  LET p == Pour(plan.count, Fullest(group, count, tie), at, max)
  IN [sent |-> plan.sent \o p.sent, count |-> p.count]

PourAll(bags, count, mergeable, tie) ==
  FoldLeft(LAMBDA plan, c : PourGroup(plan, Group(mergeable, KindOf[bags[c]]), MaxStack[KindOf[bags[c]]],
                                      count, Starts(bags, InBags(bags)), tie),
           [sent |-> <<>>, count |-> count], Upward(Heads(bags, mergeable)))

Consolidate(bags, count, locked, cached, tie) ==
  LET mergeable == Mergeable(bags, locked, cached)
      plan == PourAll(bags, count, mergeable, tie)
  IN [sent |-> plan.sent, lock |-> MergeLock(mergeable, count, plan.count)]

-----------------------------------------------------------------------------
(* Phase two. *)

Precedes(a, b, count, tie) ==
  LET ka == KindOf[a]
      kb == KindOf[b]
  IN \/ Rank[ka] < Rank[kb]
     \/ Rank[ka] = Rank[kb] /\ count[a] > count[b]
     \/ Rank[ka] = Rank[kb] /\ count[a] = count[b] /\ ItemID[ka] < ItemID[kb]
     \/ ka = kb /\ count[a] = count[b] /\ tie[a] < tie[b]

(* A locked item, or one whose record has not arrived, keeps its cell, and the
   cell is withheld. *)
Pinned(bags, locked, cached) ==
  {i \in InBags(bags) : i \in locked \/ KindOf[i] \notin cached}

(* Mutant: one pool of all the cells, special bags included. *)
PoolOfAllBags(bags, pinned, family, rightToLeft) ==
  LET cells == {c \in DOMAIN bags : bags[c] \notin pinned}
  IN IF rightToLeft THEN Downward(cells) ELSE Upward(cells)

(* Mutant: the direction is not looked at. *)
PoolLeftToRight(bags, pinned, family, rightToLeft) ==
  Upward({c \in DOMAIN bags : bags[c] \notin pinned /\ BagFamily[c] = family})

(* The destination cells of one family's bags, or of the general ones, in
   filling order. *)
Pool(bags, pinned, family, rightToLeft) ==
  LET cells == {c \in DOMAIN bags : bags[c] \notin pinned /\ BagFamily[c] = family}
  IN IF rightToLeft THEN Downward(cells) ELSE Upward(cells)

(* The forward pass fills a family's bags and then the general cells from the
   front; junk, which sorts last, fills the general cells from the back.  0 is
   unassigned. *)
Assign(entries, bags, pinned, rightToLeft) ==
  LET general == Pool(bags, pinned, NoFamily, rightToLeft)
      Fam(k) == FamilyOf[KindOf[entries[k]]]
      FamilyPool(f) == IF f = NoFamily THEN <<>> ELSE Pool(bags, pinned, f, rightToLeft)
      Seat(k) == Cardinality({j \in 1..k : Fam(j) = Fam(k)})
      Special(k) == Seat(k) <= Len(FamilyPool(Fam(k)))
      Ahead(k) == Cardinality({j \in 1..k : ~Special(j)})
      goods == Cardinality({k \in DOMAIN entries : KindOf[entries[k]] \notin Junk})
      junk == Len(entries) - goods
      Back(k) == Len(general) - junk + k
  IN [k \in 1..goods |-> IF Special(k) THEN FamilyPool(Fam(k))[Seat(k)]
                         ELSE IF Ahead(k) <= Len(general) THEN general[Ahead(k)] ELSE 0]
     \o [k \in 1..junk |-> IF Back(k) > Ahead(goods) THEN general[Back(k)] ELSE 0]

(* Mutant: the run keeps the order of the sort. *)
KeepHomeNever(entries, dest, at) == dest

SameRun(entries, m, n) ==
  \A j \in (IF m < n THEN m..n ELSE n..m) : KindOf[entries[j]] = KindOf[entries[m]]

(* A member standing on a cell of its run gets that cell for its own. *)
Trade(dest, m, entries, at) ==
  LET takers == {n \in DOMAIN entries \ {m} : SameRun(entries, m, n) /\ dest[n] = at[entries[m]]}
      n == CHOOSE x \in takers : TRUE
  IN IF takers = {} THEN dest ELSE [dest EXCEPT ![m] = dest[n], ![n] = dest[m]]

(* Within each run of one kind, each member is asked in turn. *)
KeepHome(entries, dest, at) ==
  FoldLeft(LAMBDA d, m : Trade(d, m, entries, at), dest, [k \in DOMAIN entries |-> k])

(* Send a swap for an entry not yet on its cell, tracking where the entries
   stand as if every swap swapped. *)
FireSwap(s, k, entries, dest) ==
  LET e == entries[k]
      from == s.at[e]
      Moved(i) == IF i = e THEN dest[k] ELSE IF s.at[i] = dest[k] THEN from ELSE s.at[i]
  IN IF dest[k] = 0 \/ dest[k] = from THEN s
     ELSE [sent |-> Append(s.sent, Swap(from, dest[k])),
           at |-> [i \in DOMAIN s.at |-> Moved(i)]]

FireSwaps(entries, dest, at) ==
  FoldLeft(LAMBDA s, k : FireSwap(s, k, entries, dest),
           [sent |-> <<>>, at |-> at], [k \in DOMAIN entries |-> k])

Entries(placed, count, tie) ==
  InOrder([a \in placed |-> {b \in placed : Precedes(b, a, count, tie)}])

Destinations(bags, entries, pinned, rightToLeft) ==
  KeepHome(entries, Assign(entries, bags, pinned, rightToLeft), Starts(bags, InBags(bags) \ pinned))

(* What Place sends, where it believes each entry ends, and what it locks. *)
Place(bags, count, locked, cached, rightToLeft, tie) ==
  LET pinned == Pinned(bags, locked, cached)
      placed == InBags(bags) \ pinned
      entries == Entries(placed, count, tie)
      at == Starts(bags, placed)
      fired == FireSwaps(entries, Destinations(bags, entries, pinned, rightToLeft), at)
  IN [sent |-> fired.sent, at |-> fired.at, lock |-> {i \in placed : fired.at[i] # at[i]}]
=============================================================================
