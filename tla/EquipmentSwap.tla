---------------------------- MODULE EquipmentSwap ----------------------------
(***************************************************************************)
(* C_EquipmentSet.UseEquipmentSet: the batch of moves that equips a set    *)
(* (equipmentset/Api.cpp) and the swap in flight whose end is read off the *)
(* worn items and the refusals (equipmentset/Pending.cpp).                 *)
(*                                                                         *)
(* Every slot is decided, and every move planned and sent, against what    *)
(* the client knows; the server answers the moves one by one, and only     *)
(* then do the client's places change.  The engine may hold a move back    *)
(* until the player confirms that the item binds.                          *)
(***************************************************************************)
EXTENDS Integers, Sequences, FiniteSets, SequencesExt

CONSTANTS
  Items,
  None,          \* no item: the empty slot of a set as well
  Ignored,       \* a slot the set leaves alone
  SlotCount,     \* SLOT_COUNT
  CombatSlots,   \* SwapsInCombat
  Bags, Bank,    \* places in bags, in the order of the bags, and in the bank
  Fits(_, _),    \* may an item be worn in a slot?
  Sets,          \* set ID -> slot -> an item, None or Ignored
  SettleTime,    \* kSettleMs, in frames
  MaxUses,       \* bound: calls of UseEquipmentSet
  MaxActs        \* bound: what the player does besides

WornSlots == 1..SlotCount
Places == WornSlots \cup Bags \cup Bank

ASSUME EquipmentSwapAssumption ==
  /\ SlotCount \in Nat /\ CombatSlots \subseteq WornSlots
  /\ Bags \subseteq Nat /\ Bank \subseteq Nat /\ IsFiniteSet(Bags \cup Bank)
  /\ WornSlots \cap Bags = {} /\ WornSlots \cap Bank = {} /\ Bags \cap Bank = {}
  /\ None \notin Items /\ Ignored \notin Items \cup {None}
  /\ \A s \in DOMAIN Sets : Sets[s] \in [WornSlots -> Items \cup {None, Ignored}]
  /\ \A s \in DOMAIN Sets, i \in WornSlots : \* a set is saved from what is worn
       Sets[s][i] \in Items => /\ Fits(Sets[s][i], i)
                              /\ \A j \in WornSlots : Sets[s][j] = Sets[s][i] => j = i
  /\ {SettleTime, MaxUses, MaxActs} \subseteq Nat

VARIABLES
  at,         \* place -> the item in it
  inCombat, bankOpen,
  wire,       \* moves on their way to the server
  parked,     \* moves behind EQUIP_BIND_CONFIRM
  active, refused, req, lastWorn, deadline,   \* Pending: g_active, ..., g_deadline
  fired,      \* the result EQUIPMENT_SWAP_FINISHED has just been fired with
  before,     \* history: what was worn when the swap in flight began
  owed,       \* history: slot -> what the set wants there of what could be had
  trouble,    \* history: something besides the plan decides over the swap
  uses, acts  \* history

world == <<at, inCombat, bankOpen>>
pending == <<active, refused, req, lastWorn, deadline>>
history == <<before, owed, trouble>>
swapVars == <<world, wire, parked, pending, fired, history, uses, acts>>

Worn == [i \in WornSlots |-> at[i]]
Where(item) == CHOOSE p \in Places : at[p] = item
Move(src, dst) == [src |-> src, dst |-> dst]

-----------------------------------------------------------------------------
(* The plan.  Every slot is decided, and every source looked up, before anything is sent. *)

(* FindGUID. *)
Found(item) == \E p \in IF bankOpen THEN Places ELSE WornSlots \cup Bags : at[p] = item

Locked(i) == inCombat /\ i \notin CombatSlots

Decided(set) ==
  {i \in WornSlots : set[i] # Ignored /\ ~Locked(i) /\ (set[i] = None \/ Found(set[i]))}

(* The error frame is told, which runs handlers. *)
Warns(set) ==
  \E i \in WornSlots : /\ set[i] # Ignored
                       /\ IF Locked(i) THEN set[i] # at[i] ELSE set[i] # None /\ ~Found(set[i])

FreeSlots == {p \in Bags : at[p] = None}
First(places) == CHOOSE p \in places : \A q \in places : p <= q

(* Phase 1 brings to slot i an item worn in another. *)
FromPaperdoll(set, p, i) ==
  IF \/ i \notin p.cares \/ set[i] = None \/ Where(set[i]) \notin WornSlots
     \/ set[i] \notin Range(p.worn) \ {p.worn[i]}
  THEN p
  ELSE LET src == CHOOSE j \in WornSlots : p.worn[j] = set[i]
       IN [p EXCEPT !.worn = [@ EXCEPT ![i] = set[i], ![src] = p.worn[i]],
                    !.sent = Append(@, Move(src, i)),
                    !.moved = @ \cup {set[i], p.worn[i]}]

(* Mutant: the index of a slot is off by one. *)
FromBagNext(set, p, i) ==
  IF i \notin p.cares \/ set[i] = None \/ Where(set[i]) \in WornSlots THEN p
  ELSE [p EXCEPT !.worn[i] = set[i],
                 !.sent = Append(@, Move(Where(set[i]), (i % SlotCount) + 1)),
                 !.moved = @ \cup {set[i], p.worn[i]}]

(* Phase 2 brings one from the bags or the bank; the item it displaces goes there. *)
FromBag(set, p, i) ==
  IF i \notin p.cares \/ set[i] = None \/ Where(set[i]) \in WornSlots THEN p
  ELSE [p EXCEPT !.worn[i] = set[i],
                 !.sent = Append(@, Move(Where(set[i]), i)),
                 !.moved = @ \cup {set[i], p.worn[i]}]

(* Mutant: the free place is not counted off. *)
TakeOffTwice(set, p, i) ==
  IF i \notin p.cares \/ set[i] # None \/ p.worn[i] = None THEN p
  ELSE IF p.free = {} THEN [p EXCEPT !.bagsFull = TRUE, !.cares = @ \ {i}]
  ELSE [p EXCEPT !.worn[i] = None,
                 !.sent = Append(@, Move(i, First(p.free))),
                 !.moved = @ \cup {p.worn[i]}]

(* Phase 3 (ToBag) takes off what the set wants empty, while the free places last. *)
TakeOff(set, p, i) ==
  IF i \notin p.cares \/ set[i] # None \/ p.worn[i] = None THEN p
  ELSE IF p.free = {} THEN [p EXCEPT !.bagsFull = TRUE, !.cares = @ \ {i}]
  ELSE [p EXCEPT !.worn[i] = None,
                 !.sent = Append(@, Move(i, First(p.free))),
                 !.moved = @ \cup {p.worn[i]},
                 !.free = @ \ {First(@)}]

(* What phase n does about slot i. *)
Phase(n, set, p, i) ==
  CASE n = 1 -> FromPaperdoll(set, p, i) [] n = 2 -> FromBag(set, p, i) [] n = 3 -> TakeOff(set, p, i)

(* The slots, as the loop of each phase goes through them. *)
InOrder == [i \in WornSlots |-> i]
Through(n, set, q) == FoldLeft(LAMBDA p, i : Phase(n, set, p, i), q, InOrder)

Planned(set) ==
  LET start == [worn |-> Worn, sent |-> <<>>, moved |-> {}, cares |-> Decided(set),
                free |-> FreeSlots, bagsFull |-> FALSE]
  IN Through(3, set, Through(2, set, Through(1, set, start)))

-----------------------------------------------------------------------------
(* Requests. *)

CanUse == ~active

(* Script_UseEquipmentSet and Pending's Begin, when the moves w are on the wire, those of
   h held back, and the engine holds back the new move number `held`, or none for 0. *)
Use(s, held, w, h) ==
  LET p == Planned(Sets[s])
      back == IF held = 0 THEN {} ELSE {p.sent[held]}
  IN
  /\ held \in 0..Len(p.sent)
  /\ wire' = w \o IF held = 0 THEN p.sent ELSE RemoveAt(p.sent, held)
  /\ parked' = h \cup back
  /\ req' = [want |-> [i \in p.cares |-> Sets[s][i]], moved |-> p.moved \ {None}, bagsFull |-> p.bagsFull]
  /\ active' = TRUE /\ refused' = FALSE /\ lastWorn' = Worn /\ deadline' = SettleTime
  /\ before' = Worn
  /\ owed' = [i \in Decided(Sets[s]) |-> Sets[s][i]]
  /\ trouble' = (w # <<>> \/ h \cup back # {})

UseEquipmentSet ==
  /\ CanUse /\ uses < MaxUses
  /\ \E s \in DOMAIN Sets, held \in 0..IF acts < MaxActs THEN SlotCount ELSE 0 :
       Use(s, held, wire, parked) /\ acts' = acts + IF held = 0 THEN 0 ELSE 1
  /\ fired' = "" /\ uses' = uses + 1 /\ UNCHANGED world

(* A handler of the warnings equips another set t, before the first has sent or recorded anything. *)
UseWithinWarning ==
  /\ CanUse /\ uses + 1 < MaxUses
  /\ \E s, t \in DOMAIN Sets :
       /\ Warns(Sets[s])
       /\ Use(s, 0, wire \o Planned(Sets[t]).sent, parked)
  /\ fired' = "" /\ uses' = uses + 2 /\ UNCHANGED <<world, acts>>

(* The result of a swap whose slots all hold what they should. *)
DoneResult == ~req.bagsFull

Done == \A i \in DOMAIN req.want : at[i] = req.want[i]

(* The history of a swap ends with it. *)
Forgotten == before' = <<>> /\ owed' = <<>> /\ trouble' = FALSE

(* Finish: the event's handlers may use a set again.  The message that follows, about full bags,
   is then about the new request. *)
Finish(success) ==
  /\ fired' = IF success THEN "success" ELSE "failure"
  /\ \/ /\ active' = FALSE /\ Forgotten
        /\ UNCHANGED <<wire, parked, refused, req, lastWorn, deadline, uses>>
     \/ /\ uses < MaxUses /\ uses' = uses + 1
        /\ \E s \in DOMAIN Sets : Use(s, 0, wire, parked)

(* Mutant: every frame restarts the wait. *)
WaitsAlways == [worn |-> Worn, deadline |-> SettleTime]

(* What a frame leaves of the wait. *)
Waits == [worn |-> Worn, deadline |-> IF Worn # lastWorn THEN SettleTime ELSE deadline - 1]

OnTick ==
  /\ active
  /\ IF refused THEN Finish(FALSE)
     ELSE IF Done THEN Finish(DoneResult)
     ELSE IF Worn = lastWorn /\ Waits.deadline < 0 THEN Finish(FALSE)
     ELSE /\ lastWorn' = Waits.worn /\ deadline' = Waits.deadline /\ fired' = ""
          /\ UNCHANGED <<wire, parked, active, refused, req, history, uses>>
  /\ UNCHANGED <<world, acts>>

(* OnInGameInit after a /reload: the connection goes on. *)
OnInGameInit ==
  /\ acts < MaxActs /\ acts' = acts + 1
  /\ active /\ active' = FALSE /\ fired' = "" /\ Forgotten
  /\ UNCHANGED <<world, wire, parked, refused, req, lastWorn, deadline, uses>>

-----------------------------------------------------------------------------
(* The server, the engine's prompt and the player. *)

MayLie(item, p) == item = None \/ p \notin WornSlots \/ Fits(item, p)
Reachable(p) == (p \in Bank => bankOpen) /\ (p \in WornSlots => ~Locked(p))

Swaps(m) ==
  /\ at[m.src] # None /\ Reachable(m.src) /\ Reachable(m.dst)
  /\ MayLie(at[m.src], m.dst) /\ MayLie(at[m.dst], m.src)

Accept ==
  /\ wire # <<>> /\ Swaps(Head(wire))
  /\ LET m == Head(wire) IN at' = [at EXCEPT ![m.src] = at[m.dst], ![m.dst] = at[m.src]]
  /\ wire' = Tail(wire) /\ fired' = ""
  /\ UNCHANGED <<inCombat, bankOpen, parked, pending, history, uses, acts>>

(* SMSG_INVENTORY_CHANGE_FAILURE, of a move that cannot be or that the server will not make;
   it names the two items, or one, or none.  OnPacket. *)
Refuse ==
  /\ wire # <<>> /\ wire' = Tail(wire) /\ fired' = ""
  /\ LET m == Head(wire) IN
     /\ \/ ~Swaps(m) /\ UNCHANGED <<trouble, acts>>
        \/ Swaps(m) /\ acts < MaxActs /\ acts' = acts + 1 /\ trouble' = active
     /\ \E named \in SUBSET {at[m.src], at[m.dst]} :
          refused' = (refused \/ (active /\ named \cap req.moved # {}))
  /\ UNCHANGED <<world, parked, active, req, lastWorn, deadline, before, owed, uses>>

(* EQUIP_BIND_CONFIRM is answered: the move is sent, or it is not. *)
AnswerPrompt ==
  /\ \E m \in parked : parked' = parked \ {m} /\ wire' \in {wire, Append(wire, m)}
  /\ fired' = "" /\ UNCHANGED <<world, pending, history, uses, acts>>

(* The player moves an item while a swap is in flight, enters or leaves combat, opens or closes the bank. *)
PlayerMoves ==
  /\ active
  /\ \E p, q \in Places : p # q /\ at[p] # None /\ wire' = Append(wire, Move(p, q))
  /\ UNCHANGED <<world, parked>>
CombatChanges == inCombat' = ~inCombat /\ UNCHANGED <<at, bankOpen, wire, parked>>
BankToggles == bankOpen' = ~bankOpen /\ UNCHANGED <<at, inCombat, wire, parked>>

PlayerActs ==
  /\ acts < MaxActs /\ acts' = acts + 1
  /\ PlayerMoves \/ CombatChanges \/ BankToggles
  /\ trouble' = active /\ fired' = ""
  /\ UNCHANGED <<pending, before, owed, uses>>

-----------------------------------------------------------------------------
Wearable ==
  {a \in [Places -> Items \cup {None}] :
     /\ \A i \in Items : Cardinality({p \in Places : a[p] = i}) = 1
     /\ \A p \in Places : MayLie(a[p], p)}

SwapInit ==
  /\ at \in Wearable
  /\ inCombat = FALSE /\ bankOpen = TRUE
  /\ wire = <<>> /\ parked = {}
  /\ active = FALSE /\ refused = FALSE /\ lastWorn = Worn /\ deadline = 0
  /\ req = [want |-> <<>>, moved |-> {}, bagsFull |-> FALSE]
  /\ fired = "" /\ before = <<>> /\ owed = <<>> /\ trouble = FALSE
  /\ uses = 0 /\ acts = 0

SwapNext ==
  \/ UseEquipmentSet \/ UseWithinWarning \/ OnTick \/ OnInGameInit
  \/ Accept \/ Refuse \/ AnswerPrompt \/ PlayerActs

SwapSpec == SwapInit /\ [][SwapNext]_swapVars

(* The world ticks. *)
SwapFairSpec == SwapSpec /\ WF_swapVars(OnTick)

-----------------------------------------------------------------------------
(* Every item is in one place, where it may lie. *)
SwapTypeOK ==
  /\ at \in Wearable /\ {inCombat, bankOpen, active, refused, trouble} \subseteq BOOLEAN
  /\ wire \in Seq([src : Places, dst : Places]) /\ parked \subseteq [src : Places, dst : Places]
  /\ req.moved \subseteq Items
  /\ deadline \in 0..SettleTime /\ fired \in {"", "success", "failure"}

(* Where else an item may be worn that a set wants in slot i, whatever fits i may be worn too, and
   in combat be changed if it may in i: the two can trade what they hold. *)
SlotsCanTrade ==
  \A s \in DOMAIN Sets, i, j \in WornSlots : Sets[s][i] \in Items /\ Fits(Sets[s][i], j) =>
    (\A x \in Items : Fits(x, i) => Fits(x, j)) /\ (i \in CombatSlots => j \in CombatSlots)

(* EQUIPMENT_SWAP_FINISHED with success means that every slot the set could change when it was
   used holds what the set wants, none having been given up for want of room, and, when nothing
   came between, that no move is still on its way.  With failure it has a cause outside the plan:
   full bags, a server that has not answered, somebody who moved items, changed what is allowed
   or refused.  Planned against one snapshot, the moves never get into each other's way. *)
ResultIsHonest ==
  [][/\ fired' = "success" => /\ \A i \in DOMAIN owed : at[i] = owed[i]
                              /\ trouble \/ wire = <<>>
     /\ fired' = "failure" => trouble \/ req.bagsFull \/ wire # <<>>]_swapVars

(* While nothing comes between, a slot that the set leaves alone, or cannot change now, keeps its
   item, unless the set wants that very item in another slot. *)
OthersAreLeftAlone ==
  active /\ ~trouble =>
    \A i \in WornSlots \ DOMAIN owed : at[i] = before[i] \/ before[i] \in Range(owed)

(* A swap always ends, and sets can be used again, whatever the server and the player do. *)
SwapEnds == active ~> ~active
=============================================================================
