------------------------------ MODULE SortBags ------------------------------
(***************************************************************************)
(* A bag sort in flight (container/SortBags.cpp with item/Swap.cpp and     *)
(* item/Lock.cpp): the two phases, the item locks they wait on and the     *)
(* deadline that gives up on a quiet server, together with the server that *)
(* answers the requests in order and the player who keeps dragging items.  *)
(*                                                                         *)
(* bags and count are what the client shows.  The connection keeps order   *)
(* both ways, so a request still on the wire stands for every request the  *)
(* client has had no answer to, and an answer is applied as it is made.    *)
(***************************************************************************)
EXTENDS SortPlan

CONSTANTS
  Scopes,        \* the sets of cells a call can sort (bags, bank, exclusions)
  TieOrders,     \* orders std::sort may leave equal stacks in
  SettleTime,    \* kSettleMs, in clock units
  Sweeps,        \* TRUE if an add-on may call C_Item.UnlockAllItems
  MaxMoves,      \* bound: items picked up, sweeps, changes of direction
  MaxWire,       \* bound: requests on the wire when a new one starts
  MaxReloads     \* bound: reloads and relogs

ASSUME SortBagsAssumption == Scopes \subseteq SUBSET Cells

VARIABLES
  bags,          \* cell -> item or None
  count,         \* item -> stack count, 0 once it is gone
  locked,        \* items with ITEM_CLIENT_LOCK_BIT set
  held,          \* the item on the cursor, or None
  cached,        \* kinds whose record has arrived
  wire,          \* requests the server has not answered
  phase,         \* g_phase
  waiting,       \* g_waiting
  lastPending,   \* g_lastPending
  deadline,      \* clock units until g_deadline
  scope,         \* g_activeBags, as cells
  rightToLeft,   \* the sortBagsRightToLeft cvar
  moves,         \* items the player has picked up
  reloads        \* reloads and relogs so far

inventory == <<bags, count>>
sorter == <<phase, waiting, lastPending, deadline, scope>>
player == <<held, moves>>
rest == <<cached, rightToLeft, reloads>>
vars == <<inventory, locked, player, wire, sorter, rest>>

Phases == {"idle", "merging", "placing"}

View == [c \in scope |-> bags[c]]
StillLocked == {i \in waiting : i \in InBags(bags) /\ i \in locked}

Fits(i, c) == i # None => BagFamily[c] \in {NoFamily, FamilyOf[KindOf[i]]}

-----------------------------------------------------------------------------

(* What a login shows: any items in cells that take them. *)
Layouts ==
  {b \in [Cells -> Items \cup {None}] :
     /\ \A c \in Cells : Fits(b[c], c)
     /\ \A c, d \in Cells : b[c] = b[d] /\ b[c] # None => c = d}

CountsOf(b) ==
  {n \in [Items -> UNION {0..MaxStack[k] : k \in Kinds}] :
     \A i \in Items : IF i \in InBags(b) THEN n[i] \in 1..MaxStack[KindOf[i]] ELSE n[i] = 0}

Init ==
  /\ bags \in {b \in Layouts : InBags(b) = Items}
  /\ count \in CountsOf(bags)
  /\ locked = {}
  /\ held = None
  /\ cached \in {Kinds} \cup {Kinds \ {k} : k \in Kinds}
  /\ wire = <<>>
  /\ phase = "idle"
  /\ waiting = {}
  /\ lastPending = 0
  /\ deadline = 0
  /\ scope = {}
  /\ rightToLeft \in BOOLEAN
  /\ moves = 0
  /\ reloads = 0

-----------------------------------------------------------------------------
(* The sorter.  Sending a swap first puts a held item back and releases its
   lock (SendSwapPacket); sending a split does not. *)

Sends(requests) ==
  LET swaps == \E k \in DOMAIN requests : requests[k].op = "swap"
  IN /\ wire' = wire \o requests
     /\ held' = IF swaps THEN None ELSE held

ReleasedBy(requests) ==
  IF \E k \in DOMAIN requests : requests[k].op = "swap" THEN {held} ELSE {}

BeginWait(ph, guids) ==
  /\ phase' = ph
  /\ waiting' = guids
  /\ lastPending' = Cardinality(guids)
  /\ deadline' = SettleTime

(* RunPlacement over the active bags, with `unlocked` just released. *)
RunPlacement(cells, unlocked, tie) ==
  LET plan == Place([c \in cells |-> bags[c]], count, locked \ unlocked,
                    cached, rightToLeft, tie)
  IN /\ Sends(plan.sent)
     /\ locked' = ((locked \ unlocked) \ ReleasedBy(plan.sent)) \cup plan.lock
     /\ IF plan.lock # {}
        THEN BeginWait("placing", plan.lock)
        ELSE phase' = "idle" /\ waiting' = {} /\ UNCHANGED <<lastPending, deadline>>
     /\ scope' = cells

(* StartSort, on a call that finds no sort in flight.  Phase one locks the
   stacks it empties; with none, phase two runs at once. *)
StartSort(cells, tie) ==
  LET plan == Consolidate([c \in cells |-> bags[c]], count, locked, cached, tie)
  IN /\ phase = "idle"
     /\ Len(wire) <= MaxWire
     /\ plan.lock # {}
     /\ Sends(plan.sent)
     /\ locked' = (locked \ ReleasedBy(plan.sent)) \cup plan.lock
     /\ BeginWait("merging", plan.lock)
     /\ scope' = cells
     /\ UNCHANGED <<inventory, moves, rest>>

(* The same call when phase one empties no stack: its splits, if any, go out
   ahead of the placement. *)
StartSortNoMerge(cells, tie, order) ==
  LET view == [c \in cells |-> bags[c]]
      merge == Consolidate(view, count, locked, cached, tie)
      place == Place(view, count, locked, cached, rightToLeft, order)
      sent == merge.sent \o place.sent
  IN /\ phase = "idle"
     /\ Len(wire) <= MaxWire
     /\ merge.lock = {}
     /\ Sends(sent)
     /\ locked' = (locked \ ReleasedBy(sent)) \cup place.lock
     /\ IF place.lock # {}
        THEN BeginWait("placing", place.lock)
        ELSE phase' = "idle" /\ waiting' = {} /\ UNCHANGED <<lastPending, deadline>>
     /\ scope' = cells
     /\ UNCHANGED <<inventory, moves, rest>>

(* Mutant: the wait starts over on every frame with a lock left. *)
TickProgressAlways ==
  /\ phase # "idle"
  /\ StillLocked # {}
  /\ lastPending' = Cardinality(StillLocked)
  /\ deadline' = SettleTime
  /\ UNCHANGED <<inventory, locked, player, wire, phase, waiting, scope, rest>>

(* OnTick, an answer since the last frame: the wait starts over. *)
TickProgress ==
  /\ phase # "idle"
  /\ StillLocked # {}
  /\ Cardinality(StillLocked) # lastPending
  /\ lastPending' = Cardinality(StillLocked)
  /\ deadline' = SettleTime
  /\ UNCHANGED <<inventory, locked, player, wire, phase, waiting, scope, rest>>

(* OnTick ends a phase: nothing is locked any more, or the server stayed quiet
   past the deadline and the stragglers are released. *)
PhaseIsOver ==
  \/ StillLocked = {}
  \/ Cardinality(StillLocked) = lastPending /\ deadline = 0

TickMerged(tie) ==
  /\ phase = "merging"
  /\ PhaseIsOver
  /\ RunPlacement(scope, StillLocked, tie)
  /\ UNCHANGED <<inventory, moves, rest>>

(* Mutant: the sort ends and leaves the stragglers to the slot watcher. *)
TickPlacedKeepsLocks ==
  /\ phase = "placing"
  /\ PhaseIsOver
  /\ waiting' = {}
  /\ phase' = "idle"
  /\ UNCHANGED <<inventory, locked, player, wire, lastPending, deadline, scope, rest>>

TickPlaced ==
  /\ phase = "placing"
  /\ PhaseIsOver
  /\ locked' = locked \ StillLocked
  /\ waiting' = {}
  /\ phase' = "idle"
  /\ UNCHANGED <<inventory, player, wire, lastPending, deadline, scope, rest>>

Elapse ==
  /\ phase # "idle"
  /\ deadline > 0
  /\ deadline' = deadline - 1
  /\ UNCHANGED <<inventory, locked, player, wire, phase, waiting, lastPending, scope, rest>>

Call == \E cells \in Scopes, tie, order \in TieOrders :
          StartSort(cells, tie) \/ StartSortNoMerge(cells, tie, order)
Tick == TickProgress \/ (\E tie \in TieOrders : TickMerged(tie)) \/ TickPlaced

-----------------------------------------------------------------------------
(* The server, external: what it does with a request, as Swap.cpp and the
   comments of SortBags.cpp rely on it. *)

Request == Head(wire)

CanMerge(a, b) ==
  /\ a # None /\ b # None
  /\ KindOf[a] = KindOf[b]
  /\ count[b] < MaxStack[KindOf[b]]

(* The client shows new content: a slot whose GUID changed unlocks the item it
   now holds, and a destroyed item is gone with its lock. *)
Show(b, n) ==
  /\ bags' = b
  /\ count' = n
  /\ locked' = {i \in locked : /\ i \in InBags(b)
                               /\ \A c \in Cells : b[c] = i => bags[c] = i}
  /\ held' = IF held \in InBags(b) THEN held ELSE None

(* A swap onto the same kind merges: into one stack if they fit one, else it
   evens the counts out and moves nothing. *)
AnswerMerge ==
  /\ wire # <<>> /\ Request.op = "swap"
  /\ LET a == bags[Request.src]
         b == bags[Request.dst]
         sum == count[a] + count[b]
         max == MaxStack[KindOf[a]]
     IN /\ CanMerge(a, b)
        /\ IF sum <= max
           THEN Show([bags EXCEPT ![Request.src] = None],
                     [count EXCEPT ![a] = 0, ![b] = sum])
           ELSE Show(bags, [count EXCEPT ![a] = sum - max, ![b] = max])
  /\ wire' = Tail(wire)
  /\ UNCHANGED <<moves, sorter, rest>>

AnswerSwap ==
  /\ wire # <<>> /\ Request.op = "swap"
  /\ LET a == bags[Request.src]
         b == bags[Request.dst]
     IN /\ a # None
        /\ ~CanMerge(a, b)
        /\ Fits(a, Request.dst) /\ Fits(b, Request.src)
        /\ Show([bags EXCEPT ![Request.src] = b, ![Request.dst] = a], count)
  /\ wire' = Tail(wire)
  /\ UNCHANGED <<moves, sorter, rest>>

AnswerSplit ==
  /\ wire # <<>> /\ Request.op = "split"
  /\ LET a == bags[Request.src]
         b == bags[Request.dst]
     IN /\ CanMerge(a, b)
        /\ count[a] > Request.n
        /\ count[b] + Request.n <= MaxStack[KindOf[b]]
        /\ Show(bags, [count EXCEPT ![a] = @ - Request.n, ![b] = @ + Request.n])
  /\ wire' = Tail(wire)
  /\ UNCHANGED <<moves, sorter, rest>>

Honoured == AnswerMerge \/ AnswerSwap \/ AnswerSplit

(* SMSG_INVENTORY_CHANGE_FAILURE names both items and unlocks them. *)
Refuse ==
  /\ wire # <<>>
  /\ locked' = locked \ {bags[Request.src], bags[Request.dst]}
  /\ wire' = Tail(wire)
  /\ UNCHANGED <<inventory, player, sorter, rest>>

(* An empty source, or a lost reply: no answer at all. *)
Ignore ==
  /\ wire # <<>>
  /\ wire' = Tail(wire)
  /\ UNCHANGED <<inventory, locked, player, sorter, rest>>

RecordArrives ==
  /\ \E k \in Kinds \ cached : cached' = cached \cup {k}
  /\ UNCHANGED <<inventory, locked, player, wire, sorter, rightToLeft, reloads>>

-----------------------------------------------------------------------------
(* The player. *)

PickUp ==
  /\ held = None
  /\ moves < MaxMoves
  /\ \E i \in InBags(bags) \ locked :
       /\ held' = i
       /\ locked' = locked \cup {i}
  /\ moves' = moves + 1
  /\ UNCHANGED <<inventory, wire, sorter, rest>>

PutBack ==
  /\ held # None
  /\ held' = None
  /\ locked' = locked \ {held}
  /\ UNCHANGED <<inventory, moves, wire, sorter, rest>>

DropOn ==
  /\ held # None
  /\ held \in InBags(bags)
  /\ Len(wire) <= MaxWire
  /\ \E c \in Cells \ {Slots(bags, held)} :
       wire' = Append(wire, Swap(Slots(bags, held), c))
  /\ held' = None
  /\ UNCHANGED <<inventory, moves, locked, sorter, rest>>

(* C_Item.UnlockAllItems. *)
UnlockAllItems ==
  /\ Sweeps
  /\ locked # {}
  /\ moves < MaxMoves
  /\ locked' = {}
  /\ moves' = moves + 1
  /\ UNCHANGED <<inventory, held, wire, sorter, rest>>

(* SetSortBagsRightToLeft takes effect on the next placement. *)
SetRightToLeft ==
  /\ moves < MaxMoves
  /\ moves' = moves + 1
  /\ rightToLeft' = ~rightToLeft
  /\ UNCHANGED <<inventory, locked, held, wire, sorter, cached, reloads>>

(* OnInGameInit: /reload keeps the character, the bags and the wire. *)
Reload ==
  /\ reloads < MaxReloads
  /\ reloads' = reloads + 1
  /\ phase' = "idle"
  /\ waiting' = {}
  /\ held' = None
  /\ locked' = locked \ {held}
  /\ UNCHANGED <<inventory, moves, wire, lastPending, deadline, scope, cached, rightToLeft>>

(* A relog: leaving the world unlocks everything (the engine's sweep), and
   another character's bags come with the next login. *)
Relog ==
  /\ reloads < MaxReloads
  /\ reloads' = reloads + 1
  /\ phase' = "idle"
  /\ waiting' = {}
  /\ locked' = {}
  /\ held' = None
  /\ wire' = <<>>
  /\ bags' \in {[c \in Cells |-> bags[p[c]]] : p \in {q \in [Cells -> Cells] :
                  /\ \A c, d \in Cells : q[c] = q[d] => c = d
                  /\ \A c \in Cells : Fits(bags[q[c]], c)}}
  /\ UNCHANGED <<count, moves, lastPending, deadline, scope, cached, rightToLeft>>

Server == Honoured \/ Refuse \/ Ignore \/ RecordArrives
Player == PickUp \/ PutBack \/ DropOn \/ UnlockAllItems \/ SetRightToLeft

Next == Call \/ Tick \/ Elapse \/ Server \/ Player \/ Reload \/ Relog

Spec == Init /\ [][Next]_vars

(* A sort nobody disturbs: the server honours what it is asked, in order and
   in time. *)
CalmNext == Call \/ Tick \/ Honoured
CalmSpec == Init /\ [][CalmNext]_vars

-----------------------------------------------------------------------------
(* Properties of every behaviour. *)

(* Every variable stays in its range. *)
TypeOK ==
  /\ bags \in [Cells -> Items \cup {None}]
  /\ count \in [Items -> Nat]
  /\ locked \subseteq Items
  /\ held \in Items \cup {None}
  /\ cached \subseteq Kinds
  /\ wire \in Seq([op : {"swap", "split"}, src : Cells, dst : Cells, n : Nat])
  /\ phase \in Phases
  /\ waiting \subseteq Items
  /\ lastPending \in Nat
  /\ deadline \in 0..SettleTime
  /\ scope \subseteq Cells
  /\ rightToLeft \in BOOLEAN
  /\ moves \in Nat
  /\ reloads \in Nat

(* The sorter's two notions of a sort in flight agree: it is idle exactly when
   it awaits no item, whatever order answers, reloads and the deadline come in. *)
IdleIffNothingAwaited == phase = "idle" <=> waiting = {}

(* Until the player first moves or sweeps something or reloads, a sort that
   ends leaves no item greyed out, whatever was lost or refused. *)
Undisturbed == moves = 0 /\ reloads = 0
StragglersAreReleased == Undisturbed /\ phase = "idle" => locked = {}

(* A sort always ends, whatever the server answers or does not. *)
SortEnds == phase # "idle" ~> phase = "idle"

(* The world tick runs every frame and the clock goes on.  The first is weak
   fairness of Tick with ENABLED <<Tick>>_vars written out. *)
TickDue == phase # "idle" /\ (Cardinality(StillLocked) # lastPending \/ deadline = 0)
FairTick == []<>~TickDue \/ []<><<Tick>>_vars
FairSpec == Spec /\ FairTick /\ WF_vars(Elapse)

-----------------------------------------------------------------------------
(* Properties of an undisturbed sort. *)

(* More items are for the family's bags than these have cells, of several kinds;
   or junk is. *)
Crowded(family) ==
  LET cells == {c \in scope : /\ BagFamily[c] = family
                              /\ bags[c] # None => KindOf[bags[c]] \in cached}
      items == {i \in InBags(View) : KindOf[i] \in cached /\ FamilyOf[KindOf[i]] = family}
  IN /\ family # NoFamily
     /\ cells # {}
     /\ \/ \E i \in items : KindOf[i] \in Junk
        \/ /\ Cardinality(items) > Cardinality(cells)
           /\ \E i, j \in items : KindOf[i] # KindOf[j]

NothingIsCrowded == \A k \in Kinds : ~Crowded(FamilyOf[k])

(* What a sort comes to does not depend on which stack is which: the keys ahead of
   the stack count tell the kinds apart, which the code takes for granted where it
   says that a run of one item is contiguous, and std::sort puts equally full stacks
   in some order. *)
SortIsDecided ==
  /\ IsFiniteSet(Cells)
  /\ \A j, k \in Kinds : Rank[j] = Rank[k] => j = k
  /\ \A tie \in TieOrders :
       tie \in [Items -> Nat] /\ \A a, b \in Items : tie[a] = tie[b] => a = b

(* Every request of a phase is answered, and no crowded bag spoiled it. *)
Answered == phase # "idle" /\ wire = <<>> /\ (phase = "placing" => NothingIsCrowded)
Arranged == phase = "placing" /\ Answered

(* The server can honour each request when it comes to it: the source is there,
   each bag takes what it gets, and a split neither empties its source nor
   overfills its destination.  One refusal would spoil the rest of the batch.
   (When a special bag is crowded, an item displaced into it can be in the way of
   one that has to leave it: a swap that the other item's family forbids.) *)
NoRequestIsRefused ==
  wire # <<>> /\ (phase # "merging" => NothingIsCrowded) =>
    LET a == bags[Request.src]
        b == bags[Request.dst]
    IN /\ a # None
       /\ Request.op = "swap" =>
            \/ CanMerge(a, b)
            \/ Fits(a, Request.dst) /\ Fits(b, Request.src)
       /\ Request.op = "split" =>
            /\ CanMerge(a, b)
            /\ count[a] > Request.n
            /\ count[b] + Request.n <= MaxStack[KindOf[b]]

(* When every request of a phase is answered, every lock the phase took is
   gone: the deadline is only for a server that goes quiet. *)
NoLockIsLeftOver == Answered => StillLocked = {}

(* A sort leaves at most one stack of an item short of full. *)
StacksArePacked ==
  Arranged =>
    \A a, b \in InBags(View) :
      /\ a # b /\ KindOf[a] = KindOf[b] /\ KindOf[a] \in cached
      => count[a] = MaxStack[KindOf[a]] \/ count[b] = MaxStack[KindOf[b]]

(* c is filled before d in one pool, and the sort placed both their items. *)
PlacedAhead(c, d) ==
  /\ IF rightToLeft THEN c > d ELSE c < d
  /\ BagFamily[c] = BagFamily[d]
  /\ \A e \in {c, d} : bags[e] # None /\ KindOf[bags[e]] \in cached

(* A sort leaves the items in the order of their records. *)
KindsAreInOrder ==
  Arranged => \A c, d \in scope : PlacedAhead(c, d) => Rank[KindOf[bags[c]]] <= Rank[KindOf[bags[d]]]

(* What the player asked for: one sort packs the stacks and puts the kinds in order,
   in one batch of splits and merges and one of swaps. *)
BagsAreSorted == StacksArePacked /\ KindsAreInOrder

(* Sorting again right away sends nothing: the layout is a fixed point. *)
SecondSortIsQuiet ==
  Arranged =>
    \A tie \in TieOrders :
      /\ Consolidate(View, count, locked, cached, tie).sent = <<>>
      /\ Place(View, count, locked, cached, rightToLeft, tie).sent = <<>>
=============================================================================
