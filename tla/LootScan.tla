------------------------------ MODULE LootScan ------------------------------
(***************************************************************************)
(* Looting on an addon's behalf: the walk over the corpses in reach        *)
(* (loot/Scan.cpp: C_Loot.ScanNearbyLoot and LootAllCorpses), the taking   *)
(* of one item (loot/UnitItem.cpp: C_Loot.LootUnitItem), and the request   *)
(* both of them and C_Loot.LootUnit send (loot/Request.cpp, Unit.cpp).     *)
(*                                                                         *)
(* All of them, and the player's right click, share the engine's one held  *)
(* loot target and its one loot window.  The engine and the server are     *)
(* external: the server answers a request, refuses it or never answers,    *)
(* and what it sends arrives in order.                                     *)
(***************************************************************************)
EXTENDS Integers, Sequences, FiniteSets, SequencesExt

CONSTANTS
  Corpses,       \* GUIDs of units
  Full,          \* those with something for the player at first
  StepTimeout,   \* kStepTimeoutMs, in units of time
  ItemTicks,     \* UnitItem's kStepTimeoutTicks
  MaxWalks,      \* bound: walks begun
  MaxHands,      \* bound: requests of the player, of LootUnit and of LootUnitItem
  MaxChanges     \* bound: units that leave, quest changes, moves of the player

ASSUME LootScanAssumption ==
  /\ IsFiniteSet(Corpses) /\ "none" \notin Corpses /\ Full \subseteq Corpses
  /\ {StepTimeout, ItemTicks} \subseteq Nat \ {0}
  /\ {MaxWalks, MaxHands, MaxChanges} \subseteq Nat

VARIABLES
  lootable,   \* the units in view the server grants loot on
  content,    \* corpse -> the server has something in it for this player
  seen,       \* the units that have not changed since the last world tick
  player,     \* "near" (every corpse is in reach), "far" (none is),
              \* "moving" (past them: the engine refuses to send), "mounted"
  held,       \* the player's held loot target
  holder,     \* history: who asked for it: "hand", "scan", "item"
  window,     \* VAR_LOOT_GUID: the corpse whose window is open
  down,       \* what the server has sent
  scan,       \* s_scan, without its results
  empties,    \* s_emptyCorpses, as the set it is used as
  item,       \* UnitItem's state
  hands, changes,   \* history: how many of those happened
  begun,      \* history: walks begun
  completed   \* history: LOOT_SCAN_COMPLETED events

world == <<lootable, content, seen, player>>
target == <<held, holder>>
bounds == <<hands, changes>>
walks == <<begun, completed>>
vars == <<world, target, window, down, scan, empties, item, bounds, walks>>

NoWalk == [state |-> "Idle", cur |-> "none", age |-> 0, lootMode |-> FALSE, queue |-> <<>>]
NoItem == [state |-> "Idle", target |-> "none", ticks |-> 0]

Change == changes < MaxChanges /\ changes' = changes + 1 /\ UNCHANGED hands

IsLootable(c) == c \in lootable

-----------------------------------------------------------------------------

Init ==
  /\ lootable = Corpses
  /\ content = [c \in Corpses |-> c \in Full]
  /\ seen = Corpses
  /\ player = "near"
  /\ held = "none" /\ holder = "none" /\ window = "none"
  /\ down = <<>>
  /\ scan = NoWalk /\ empties = {} /\ item = NoItem
  /\ hands = 0 /\ changes = 0
  /\ begun = 0 /\ completed = 0

-----------------------------------------------------------------------------
(* The server. *)

Message(kind, c) == [kind |-> kind, corpse |-> c, empty |-> kind = "open" /\ ~content[c]]

(* It opens the corpse, refuses it, or never answers. *)
Answer(c, sofar) ==
  \/ IsLootable(c) /\ down' = Append(sofar, Message("open", c))
  \/ down' = Append(sofar, Message("refuse", c))
  \/ down' = sofar

-----------------------------------------------------------------------------
(* Loot::Request.  `h` is the held target and `sofar` what the server has sent
   when a request is made. *)

(* FUN_CMSG_LOOT_UNIT sends and holds the target, unless one is held or the
   player is busy. *)
CanLootNow(h) == h = "none" /\ player \in {"near", "far"}

Holds(c, who) == held' = c /\ holder' = who

Keeps(h) == held' = h /\ holder' = IF h = held THEN holder ELSE "none"

(* Mutant: a request the server never answers stays held. *)
ReleasedNever(c) == held

(* ReleaseIfUnanswered: what is held afterwards; a window goes with it. *)
Released(c) == IF held = c THEN "none" ELSE held

(* Send asks whether the target is held, and takes that for having sent. *)
SendSucceeds(c, h) == player # "mounted" /\ (CanLootNow(h) \/ h = c)

Send(c, who, h, sofar) ==
  IF CanLootNow(h) THEN Holds(c, who) /\ Answer(c, sofar)
  ELSE Keeps(h) /\ down' = sofar

-----------------------------------------------------------------------------
(* Loot::Scan: the walk. *)

Good(c) == IsLootable(c) /\ player # "far"

(* The walk is over: LOOT_SCAN_COMPLETED. *)
Complete(h, sofar) ==
  /\ scan' = NoWalk
  /\ completed' = completed + 1
  /\ Keeps(h) /\ down' = sofar

Step(state, c, age, queue, lootMode) ==
  [state |-> state, cur |-> c, age |-> age, lootMode |-> lootMode, queue |-> queue]

(* Mutant: stops at a corpse that is no longer good. *)
TryStartNextOrStop(queue, lootMode, h, sofar) ==
  IF queue # <<>> /\ Good(Last(queue)) THEN
    /\ Send(Last(queue), "scan", h, sofar)
    /\ scan' = Step(IF SendSucceeds(Last(queue), h) THEN "WaitingForResponse" ELSE "WaitingToSend",
                    Last(queue), 0, Front(queue), lootMode)
    /\ UNCHANGED completed
  ELSE
    /\ scan' = NoWalk
    /\ Keeps(h) /\ down' = sofar /\ UNCHANGED completed

(* TryStartNext, StartLoot and SendCurrent: on to the last corpse of the queue
   that is still good, or the walk is complete.  A corpse the engine refuses to
   send for stays current. *)
TryStartNext(queue, lootMode, h, sofar) ==
  LET good == {n \in DOMAIN queue : Good(queue[n])}
      n == Max(good)
  IN IF good = {} THEN Complete(h, sofar)
     ELSE /\ Send(queue[n], "scan", h, sofar)
          /\ scan' = Step(IF SendSucceeds(queue[n], h) THEN "WaitingForResponse"
                          ELSE "WaitingToSend", queue[n], 0, SubSeq(queue, 1, n - 1), lootMode)
          /\ UNCHANGED completed

(* ScanNearbyLoot, LootAllCorpses: every corpse in reach, or the `max` of one. *)
BeginWalk(lootMode) ==
  /\ scan.state = "Idle" /\ player # "mounted"
  /\ begun < MaxWalks
  /\ begun' = begun + 1
  /\ LET near == {c \in Corpses : Good(c) /\ (lootMode => c \notin empties)} IN
     \E some \in {near} \cup {{c} : c \in IF lootMode THEN near ELSE {}} :
       TryStartNext(SetToSeq(some), lootMode, held, down)
  /\ UNCHANGED <<world, window, empties, item, bounds>>

-----------------------------------------------------------------------------
(* What arrives. *)

Incoming(kind) == down # <<>> /\ Head(down).kind = kind
From == Head(down).corpse

IsScanOpen == scan.state = "WaitingForResponse" /\ From = scan.cur

(* The controller hook on an open it waits for: the window opens unseen, is
   scraped, in loot mode emptied of what there is room for, closed with a
   release, and the walk goes on. *)
ScanOpens ==
  /\ Incoming("open") /\ IsScanOpen
  /\ empties' = IF scan.lootMode /\ Head(down).empty THEN empties \cup {From} ELSE empties
  /\ IF scan.lootMode /\ ~Head(down).empty
     THEN \E left \in BOOLEAN : content' = [content EXCEPT ![From] = @ /\ left]
     ELSE UNCHANGED content
  /\ window' = "none"
  /\ TryStartNext(scan.queue, scan.lootMode, "none", Append(Tail(down), Message("release", From)))
  /\ UNCHANGED <<lootable, seen, player, item, bounds, begun>>

(* Any other open goes through to the engine and the UI. *)
OtherOpens ==
  /\ Incoming("open") /\ ~IsScanOpen
  /\ down' = Tail(down)
  /\ window' = From
  /\ UNCHANGED <<world, target, scan, empties, item, bounds, walks>>

(* The engine may as well ignore an open it does not hold the target of. *)
OpenIsIgnored ==
  /\ Incoming("open") /\ held # From
  /\ down' = Tail(down)
  /\ UNCHANGED <<world, target, window, scan, empties, item, bounds, walks>>

Refused ==
  /\ Incoming("refuse")
  /\ down' = Tail(down)
  /\ Keeps(Released(From))
  /\ UNCHANGED <<world, window, scan, empties, item, bounds, walks>>

ReleaseArrives ==
  /\ Incoming("release")
  /\ down' = Tail(down)
  /\ Keeps(Released(From))
  /\ window' = IF held = From THEN "none" ELSE window
  /\ UNCHANGED <<world, scan, empties, item, bounds, walks>>

(* QUEST_LOG_UPDATE, once the server has told of the change. *)
ForgetEmptyCorpsesOnQuestChange ==
  /\ Incoming("quest")
  /\ down' = Tail(down)
  /\ empties' = {}
  /\ UNCHANGED <<world, target, window, scan, item, bounds, walks>>

Receive ==
  \/ ScanOpens \/ OtherOpens \/ OpenIsIgnored \/ Refused \/ ReleaseArrives
  \/ ForgetEmptyCorpsesOnQuestChange

-----------------------------------------------------------------------------
(* The world tick; `dt` is the time since the last. *)

(* Mutant: every tick begins the step again. *)
LaterStartsAgain(dt) == 0

Later(dt) == IF scan.age + dt < StepTimeout THEN scan.age + dt ELSE StepTimeout

(* Mutant: an emptied corpse is remembered for good. *)
PruneEmptyCorpsesNever == empties' = empties

PruneEmptyCorpses == empties' = {c \in empties : IsLootable(c)}

Tick(dt) ==
  /\ seen' = Corpses
  /\ PruneEmptyCorpses
  /\ UNCHANGED <<lootable, content, player, item, bounds, begun>>

TickIdle(dt) ==
  /\ scan.state = "Idle"
  /\ Tick(dt)
  /\ UNCHANGED <<target, window, down, scan, completed>>

(* The engine still refuses to send: end the walk in time, or try again. *)
TickWaitingToSend(dt) ==
  /\ scan.state = "WaitingToSend"
  /\ Tick(dt)
  /\ UNCHANGED window
  /\ IF Later(dt) >= StepTimeout THEN Complete(held, down)
     ELSE IF Good(scan.cur) /\ ~SendSucceeds(scan.cur, held)
     THEN scan' = [scan EXCEPT !.age = Later(dt)] /\ UNCHANGED <<target, down, completed>>
     ELSE TryStartNext(Append(scan.queue, scan.cur), scan.lootMode, held, down)

(* The corpse was refused, or is given up; else the wait goes on. *)
TickWaitingForResponse(dt) ==
  /\ scan.state = "WaitingForResponse"
  /\ Tick(dt)
  /\ IF held # scan.cur
     THEN UNCHANGED window /\ TryStartNext(scan.queue, scan.lootMode, held, down)
     ELSE IF Later(dt) >= StepTimeout
     THEN /\ window' = "none"
          /\ TryStartNext(scan.queue, scan.lootMode, Released(scan.cur), down)
     ELSE scan' = [scan EXCEPT !.age = Later(dt)]
          /\ UNCHANGED <<target, window, down, completed>>

OnTick(dt) == TickIdle(dt) \/ TickWaitingToSend(dt) \/ TickWaitingForResponse(dt)

-----------------------------------------------------------------------------
(* Loot::UnitItem. *)

(* The window is open already: the item is taken at once. *)
LootUnitItemNow(c) ==
  /\ item.state = "Idle" /\ window = c
  /\ content[c]
  /\ content' = [content EXCEPT ![c] = FALSE]
  /\ UNCHANGED <<lootable, seen, player, target, window, down, scan, empties, item,
                 bounds, walks>>

LootUnitItem(c) ==
  /\ item.state = "Idle" /\ window # c
  /\ hands < MaxHands /\ hands' = hands + 1 /\ UNCHANGED changes
  /\ IsLootable(c) /\ SendSucceeds(c, held)
  /\ Send(c, "item", held, down)
  /\ item' = [state |-> "WaitingOpen", target |-> c, ticks |-> 0]
  /\ UNCHANGED <<world, window, scan, empties, walks>>

ItemTick ==
  /\ item.state = "WaitingOpen"
  /\ IF window = item.target
     THEN /\ content' = [content EXCEPT ![window] = FALSE]
          /\ item' = NoItem
          /\ UNCHANGED <<target, window>>
     ELSE /\ UNCHANGED content
          /\ IF item.ticks + 1 >= ItemTicks
             THEN /\ item' = NoItem
                  /\ Keeps(Released(item.target))
                  /\ window' = IF held = item.target THEN "none" ELSE window
             ELSE item' = [item EXCEPT !.ticks = @ + 1] /\ UNCHANGED <<target, window>>
  /\ UNCHANGED <<lootable, seen, player, down, scan, empties, bounds, walks>>

-----------------------------------------------------------------------------
(* The player and the world. *)

(* A right click on a corpse, or C_Loot.LootUnit. *)
Hand(c) ==
  /\ hands < MaxHands /\ hands' = hands + 1 /\ UNCHANGED changes
  /\ IsLootable(c) /\ CanLootNow(held)
  /\ Send(c, "hand", held, down)
  /\ UNCHANGED <<world, window, scan, empties, item, walks>>

CloseWindow ==
  /\ window # "none"
  /\ Keeps("none")
  /\ window' = "none"
  /\ down' = Append(down, Message("release", window))
  /\ UNCHANGED <<world, scan, empties, item, bounds, walks>>

Moves(to) ==
  /\ IF player = "near" THEN Change ELSE to = "near" /\ UNCHANGED bounds
  /\ player' = to
  /\ UNCHANGED <<lootable, content, seen, target, window, down, scan, empties, item, walks>>

(* A corpse leaves the view, respawns or is emptied; comes back or dies again, with
   loot.  The server sends this in the order of its answers, and no two changes of
   a unit fall between two ticks. *)
UnitChanges(c) ==
  /\ c \in seen /\ \A n \in DOMAIN down : down[n].corpse # c
  /\ IF IsLootable(c) THEN Change /\ lootable' = lootable \ {c}
     ELSE UNCHANGED bounds /\ lootable' = lootable \cup {c}
  /\ content' = [content EXCEPT ![c] = ~IsLootable(c)]
  /\ seen' = seen \ {c}
  /\ UNCHANGED <<player, target, window, down, scan, empties, item, walks>>

(* A quest gives the player something to find in a corpse. *)
QuestChange(c) ==
  /\ Change
  /\ IsLootable(c) /\ ~content[c]
  /\ content' = [content EXCEPT ![c] = TRUE]
  /\ down' = Append(down, Message("quest", "none"))
  /\ UNCHANGED <<lootable, seen, player, target, window, scan, empties, item,
                 walks>>

Next ==
  \/ \E lootMode \in BOOLEAN : BeginWalk(lootMode)
  \/ Receive
  \/ \E dt \in {0, 1} : OnTick(dt)
  \/ ItemTick
  \/ \E c \in Corpses : LootUnitItemNow(c) \/ LootUnitItem(c) \/ Hand(c) \/ UnitChanges(c)
                        \/ QuestChange(c)
  \/ CloseWindow
  \/ \E to \in {"near", "far", "moving", "mounted"} \ {player} : Moves(to)

Spec == Init /\ [][Next]_vars

(* Frames are drawn as time passes. *)
FairSpec == Spec /\ WF_vars(OnTick(1)) /\ WF_vars(ItemTick)

-----------------------------------------------------------------------------
(* Properties. *)

(* Every variable has its type. *)
TypeOK ==
  /\ lootable \subseteq Corpses
  /\ content \in [Corpses -> BOOLEAN]
  /\ seen \subseteq Corpses
  /\ player \in {"near", "far", "moving", "mounted"}
  /\ held \in Corpses \cup {"none"} /\ window \in Corpses \cup {"none"}
  /\ holder \in {"none", "hand", "scan", "item"}
  /\ \A n \in DOMAIN down : down[n].kind \in {"open", "refuse", "release", "quest"}
  /\ scan.state \in {"Idle", "WaitingToSend", "WaitingForResponse"}
  /\ empties \subseteq Corpses
  /\ scan.age \in 0..StepTimeout /\ ToSet(scan.queue) \subseteq Corpses
  /\ (scan.state = "Idle") = (scan.cur = "none")
  /\ item.ticks \in 0..(ItemTicks - 1)
  /\ hands \in 0..MaxHands /\ changes \in 0..MaxChanges

(* LOOT_SCAN_COMPLETED fires once for each walk begun, whatever became of it. *)
OneCompletionPerWalk == begun = completed + IF scan.state = "Idle" THEN 0 ELSE 1

(* A corpse later walks skip has nothing for the player: not after a respawn
   under the same GUID, nor after a quest change, even one that crosses an
   answer on the wire. *)
SkippedIsEmpty ==
  \A c \in empties :
    ~content[c] \/ c \notin seen \/ \E n \in DOMAIN down : down[n].kind = "quest"

(* What a walk or LootUnitItem made the player hold is held only while that
   request waits, or a window shows it: a server that never answers blocks
   no looting. *)
NothingIsLeftHeld ==
  holder \in {"scan", "item"} =>
    \/ window # "none"
    \/ scan.state = "WaitingForResponse" /\ scan.cur = held
    \/ item.target = held

(* Every walk ends, whether corpses are answered, refused, lost, gone or the
   player never stands still. *)
WalkEnds == scan.state # "Idle" ~> scan.state = "Idle"
=============================================================================
