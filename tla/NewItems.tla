------------------------------ MODULE NewItems ------------------------------
(***************************************************************************)
(* C_NewItems (item/NewItems.cpp): which items in the bags are new.  An    *)
(* item is known by its GUID; the seen-set holds the GUIDs of everything   *)
(* owned, worn and banked items included, and forgets those that a number  *)
(* of scans running did not read.  The half of a split stack has a GUID of *)
(* its own: the splits sent are kept, and each excuses one unseen item.    *)
(*                                                                         *)
(* Places are "bag" (bags 0 to 4), "bank" (all else that is owned) and     *)
(* "none".  A scan may miss items that are in the middle of an update.     *)
(***************************************************************************)
EXTENDS Integers, FiniteSets, Sequences, SequencesExt

CONSTANTS
  Players,           \* characters of the account
  Kinds,             \* item ids
  MaxMissStreak,     \* kMaxMissStreak
  MaxPendingSplits,  \* kMaxPendingSplits
  MaxCount,          \* the largest stack
  MaxGuid,           \* bound: items that ever exist
  MaxActs            \* bound: acts of the player

ASSUME NewItemsAssumption ==
  /\ MaxMissStreak \in Nat \ {0} /\ MaxPendingSplits \in Nat \ {0}
  /\ {MaxCount, MaxGuid, MaxActs} \subseteq Nat

VARIABLES
  player,       \* Unit::Identity::PlayerGuid
  items,        \* GUID -> item, as the client's objects show it
  lastGuid,     \* the last GUID the server gave an item
  wire,         \* splits the server has not answered
  dirty,        \* Bag::UpdateDelayed's g_pending
  seen,         \* g_seen: GUID -> miss
  new,          \* g_new
  splits,       \* g_splits
  seeded,       \* g_seeded
  playerGuid,   \* g_playerGuid
  acts,         \* acts of the player so far
  heard,        \* history: the new items as an addon that follows the event knows them
  wanted,       \* history: acquired since the baseline, not cleared
  unread,       \* history: GUID -> scans running that did not read it, once read
  due,          \* history: wanted items a scan has shown with no split in its way
  halves,       \* history: halves of split stacks no scan has read
  strays,       \* history: halves that a scan went by without reading, not cleared
  disturbed     \* history: a split was disturbed, or the same character came back

world == <<player, items, lastGuid, wire, acts>>
set == <<seen, new, splits, seeded, playerGuid>>
past == <<heard, wanted, unread, due, halves, strays, disturbed>>
vars == <<world, dirty, set, past>>

Guids == 1..MaxGuid
Item(k, n, at) == [kind |-> k, n |-> n, at |-> at]
NoItem == [kind |-> "none", n |-> 0, at |-> "none"]
Owned == {g \in Guids : items[g].at # "none"}
InBags == {g \in Guids : items[g].at = "bag"}

(* A split of kind k is on its way, or its half or another item of that kind
   has not been read. *)
Busy(k) ==
  \/ \E i \in DOMAIN wire : wire[i].kind = k
  \/ \E g \in halves \cup (wanted \ DOMAIN unread) : items[g].kind = k

-----------------------------------------------------------------------------

Init ==
  /\ player \in Players
  /\ items \in [Guids -> {NoItem} \cup [kind : Kinds, n : 1..MaxCount, at : {"bag", "bank"}]]
  /\ lastGuid \in 0..MaxGuid /\ \A g \in Guids : items[g] = NoItem <=> g > lastGuid
  /\ wire = <<>> /\ dirty = TRUE
  /\ seen = <<>> /\ new = {} /\ splits = <<>>
  /\ seeded = FALSE /\ playerGuid = 0
  /\ acts = 0
  /\ heard = {} /\ wanted = {} /\ unread = <<>> /\ due = {} /\ halves = {} /\ strays = {}
  /\ disturbed = FALSE

-----------------------------------------------------------------------------
(* A frame. *)

(* Another character: drop everything and wait for the bags to fill. *)
TickRearm ==
  /\ player # playerGuid
  /\ playerGuid' = player
  /\ new' = {} /\ seen' = <<>> /\ splits' = <<>> /\ seeded' = FALSE
  /\ UNCHANGED <<world, dirty, past>>

(* Settled: everything owned now is old. *)
TickBaseline ==
  /\ player = playerGuid /\ ~seeded
  /\ seen' = [g \in Owned |-> 0]
  /\ new' = {}
  /\ seeded' = TRUE
  /\ unread' = [g \in Owned |-> 0]
  /\ halves' = {}
  /\ UNCHANGED <<world, dirty, splits, playerGuid, heard, wanted, due, strays, disturbed>>

(* The last entry takes the place of the removed one. *)
SwapRemove(s, i) == [j \in 1..Len(s) - 1 |-> IF j = i THEN s[Len(s)] ELSE s[j]]

(* An unseen item claims the first split of its kind, or is new. *)
ClaimSplitHalf(st, g) ==
  LET hits == {i \in DOMAIN st.splits : st.splits[i].kind = items[g].kind}
  IN IF hits = {}
     THEN [st EXCEPT !.flagged = @ \cup {g}]
     ELSE [st EXCEPT !.splits = SwapRemove(@, CHOOSE i \in hits : \A j \in hits : i <= j)]

(* Mutant: a source that has not changed counts as shrunk. *)
SpentEarly(split) == items[split.source] = NoItem \/ items[split.source].n <= split.count

(* The source has shrunk or gone. *)
Spent(split) == items[split.source] = NoItem \/ items[split.source].n < split.count

RetireNext(st, split) ==
  IF Spent(st.s[st.i]) THEN [st EXCEPT !.s = SwapRemove(@, st.i)] ELSE [st EXCEPT !.i = @ + 1]

RetireSplits(s) == FoldLeft(RetireNext, [i |-> 1, s |-> s], s).s

(* Mutant: what is owned and not seen is not added. *)
SeenReconcileNoInsert(owned) ==
  LET kept == {g \in DOMAIN seen : seen[g] + 1 < MaxMissStreak \/ g \in owned}
  IN [g \in kept |-> IF g \in owned THEN 0 ELSE seen[g] + 1]

(* Mutant: nothing is ever forgotten. *)
SeenReconcileKeepsAll(owned) ==
  [g \in DOMAIN seen \cup owned |-> IF g \in owned THEN 0 ELSE seen[g]]

(* Ages the entries, renews and adds what is owned, drops what was missed too often. *)
SeenReconcile(owned) ==
  LET kept == {g \in DOMAIN seen : seen[g] + 1 < MaxMissStreak} \cup owned
  IN [g \in kept |-> IF g \in owned THEN 0 ELSE seen[g] + 1]

Orders(S) == {s \in [1..Cardinality(S) -> S] : \A i, j \in DOMAIN s : s[i] = s[j] => i = j}

(* No owned item is missed so often that it would be forgotten. *)
MayMiss(g) == g \in DOMAIN unread => unread[g] + 1 < MaxMissStreak

(* What the histories make of a scan that reads the items in owned. *)
Record(owned) ==
  /\ unread' = [g \in DOMAIN unread \cup owned |->
                  IF g \in owned THEN 0
                  ELSE IF unread[g] < MaxMissStreak THEN unread[g] + 1 ELSE MaxMissStreak]
  /\ due' = due \cup {g \in wanted \cap owned \cap InBags :
                        /\ g \notin DOMAIN unread
                        /\ \A i \in DOMAIN splits : splits[i].kind # items[g].kind}
  /\ strays' = strays \cup (halves \ owned)
  /\ halves' = halves \ owned

(* OnBagChanged: a bag has changed, and this is the scan. *)
Scan(missed) ==
  LET owned == Owned \ missed
      unseen == (owned \cap InBags) \ DOMAIN seen
  IN \E order \in Orders(unseen) :
       LET claimed == FoldLeft(ClaimSplitHalf, [splits |-> splits, flagged |-> {}], order)
           flagged == new \cup claimed.flagged
       IN /\ seen' = SeenReconcile(owned)
          /\ splits' = RetireSplits(claimed.splits)
          /\ new' = flagged \cap DOMAIN seen'
          /\ heard' = IF flagged # new \/ new' # flagged THEN new' ELSE heard
          /\ Record(owned)

OnBagChanged ==
  /\ dirty
  /\ dirty' = FALSE
  /\ IF seeded /\ player = playerGuid
     THEN \E missed \in SUBSET {g \in Owned : MayMiss(g)} :
            Scan(missed) /\ UNCHANGED <<seeded, playerGuid, wanted, disturbed>>
     ELSE UNCHANGED <<set, past>>
  /\ UNCHANGED world

Tick == TickRearm \/ TickBaseline \/ OnBagChanged

-----------------------------------------------------------------------------
(* The addon. *)

(* Mutant: the event is left out. *)
Script_RemoveNewItemSilently(g) ==
  /\ g \in InBags \cap new
  /\ new' = new \ {g}
  /\ wanted' = wanted \ {g} /\ due' = due \ {g} /\ strays' = strays \ {g}
  /\ UNCHANGED <<world, dirty, seen, splits, seeded, playerGuid, heard, unread, halves, disturbed>>

Script_RemoveNewItem(g) ==
  /\ g \in InBags \cap new
  /\ new' = new \ {g} /\ heard' = new'
  /\ wanted' = wanted \ {g} /\ due' = due \ {g} /\ strays' = strays \ {g}
  /\ UNCHANGED <<world, dirty, seen, splits, seeded, playerGuid, unread, halves, disturbed>>

Script_ClearAll ==
  /\ new # {}
  /\ new' = {} /\ heard' = {}
  /\ wanted' = wanted \ new /\ due' = {} /\ strays' = strays \ new
  /\ UNCHANGED <<world, dirty, seen, splits, seeded, playerGuid, unread, halves, disturbed>>

Addon == Script_ClearAll \/ \E g \in Guids : Script_RemoveNewItem(g)

-----------------------------------------------------------------------------
(* The player and the server, external except where the library listens. *)

(* A player who acts has seen a frame of the world. *)
Act == player = playerGuid /\ acts < MaxActs /\ acts' = acts + 1

Disturbs(condition) == disturbed' = (disturbed \/ condition)

(* OnSend hears the request, the server does not answer it yet. *)
SendSplit(g, to) ==
  /\ Act
  /\ g \in Owned /\ items[g].n > 1
  /\ wire' = Append(wire, [source |-> g, kind |-> items[g].kind, to |-> to])
  /\ splits' = IF Len(splits) < MaxPendingSplits
               THEN Append(splits, [source |-> g, kind |-> items[g].kind, count |-> items[g].n])
               ELSE splits
  /\ Disturbs(Busy(items[g].kind) \/ Len(splits) >= MaxPendingSplits)
  /\ UNCHANGED <<player, items, lastGuid, dirty, seen, new, seeded, playerGuid,
                 heard, wanted, unread, due, halves, strays>>

Request == Head(wire)
CanSplit == wire # <<>> /\ items[Request.source].n > 1
Shrunk(g) == [items EXCEPT ![g].n = @ - 1]

(* A slot of the bank's own has no watcher. *)
Touches(places) == dirty' = (dirty \/ "bag" \in places)

AnswerNewStack ==
  /\ CanSplit
  /\ lastGuid < MaxGuid
  /\ items' = [Shrunk(Request.source) EXCEPT ![lastGuid + 1] = Item(Request.kind, 1, Request.to)]
  /\ lastGuid' = lastGuid + 1
  /\ halves' = halves \cup {lastGuid + 1}
  /\ Touches({Request.to, items[Request.source].at})
  /\ wire' = Tail(wire)
  /\ UNCHANGED <<player, acts, set, heard, wanted, unread, due, strays, disturbed>>

AnswerOntoStack ==
  /\ CanSplit
  /\ \E g \in Owned \ {Request.source} :
       /\ items[g].kind = Request.kind /\ items[g].at = Request.to /\ items[g].n < MaxCount
       /\ items' = [Shrunk(Request.source) EXCEPT ![g].n = @ + 1]
  /\ Touches({Request.to, items[Request.source].at})
  /\ wire' = Tail(wire)
  /\ UNCHANGED <<player, lastGuid, acts, set, past>>

(* SMSG_INVENTORY_CHANGE_FAILURE, for the oldest split or for anything else. *)
OnPacket ==
  /\ splits' = <<>>
  /\ \/ /\ wire # <<>>
        /\ wire' = Tail(wire)
        /\ Disturbs(Len(wire) > 1 \/ halves # {})
        /\ UNCHANGED acts
     \/ /\ Act
        /\ Disturbs(wire # <<>> \/ halves # {})
        /\ UNCHANGED wire
  /\ UNCHANGED <<player, items, lastGuid, dirty, seen, new, seeded, playerGuid,
                 heard, wanted, unread, due, halves, strays>>

(* Loot, a purchase, a reward, mail, a trade. *)
Acquire(k) ==
  /\ Act
  /\ lastGuid < MaxGuid
  /\ items' = [items EXCEPT ![lastGuid + 1] = Item(k, 1, "bag")]
  /\ lastGuid' = lastGuid + 1
  /\ dirty' = TRUE
  /\ wanted' = IF seeded /\ player = playerGuid THEN wanted \cup {lastGuid + 1} ELSE wanted
  /\ Disturbs(Busy(k))
  /\ UNCHANGED <<player, wire, set, heard, unread, due, halves, strays>>

(* ... onto a stack there is. *)
AcquireOnto(g) ==
  /\ Act
  /\ g \in InBags /\ items[g].n < MaxCount
  /\ items' = [items EXCEPT ![g].n = @ + 1]
  /\ dirty' = TRUE
  /\ Disturbs(Busy(items[g].kind))
  /\ UNCHANGED <<player, lastGuid, wire, set, heard, wanted, unread, due, halves, strays>>

Consume(g) ==
  /\ Act
  /\ g \in InBags
  /\ items' = IF items[g].n > 1 THEN Shrunk(g) ELSE [items EXCEPT ![g] = NoItem]
  /\ dirty' = TRUE
  /\ due' = due \cap {h \in Guids : items'[h] # NoItem}
  /\ halves' = halves \cap {h \in Guids : items'[h] # NoItem}
  /\ Disturbs(Busy(items[g].kind))
  /\ UNCHANGED <<player, lastGuid, wire, set, heard, wanted, unread, strays>>

(* Between the bags and the bank or the body. *)
Move(g) ==
  /\ Act
  /\ g \in Owned
  /\ items' = [items EXCEPT ![g].at = IF @ = "bag" THEN "bank" ELSE "bag"]
  /\ dirty' = TRUE
  /\ Disturbs(Busy(items[g].kind))
  /\ UNCHANGED <<player, lastGuid, wire, set, heard, wanted, unread, due, halves, strays>>

(* Another character, who has one stack, or the same one again. *)
Login(p) ==
  /\ Act
  /\ player' = p
  /\ IF p = player
     THEN UNCHANGED <<items, lastGuid, heard>>
     ELSE /\ lastGuid < MaxGuid
          /\ lastGuid' = lastGuid + 1
          /\ \E k \in Kinds, at \in {"bag", "bank"} :
               items' = [g \in Guids |-> IF g = lastGuid' THEN Item(k, 1, at) ELSE NoItem]
          /\ heard' = {}
  /\ wire' = <<>>
  /\ dirty' = TRUE
  /\ wanted' = {} /\ due' = {} /\ halves' = {} /\ strays' = {}
  /\ Disturbs(p = player)
  /\ UNCHANGED <<set, unread>>

Player ==
  \/ \E g \in Guids : \/ AcquireOnto(g) \/ Consume(g) \/ Move(g)
                      \/ \E to \in {"bag", "bank"} : SendSplit(g, to)
  \/ \E k \in Kinds : Acquire(k)
  \/ \E p \in Players : Login(p)

Server == AnswerNewStack \/ AnswerOntoStack \/ OnPacket

Next == Tick \/ Addon \/ Player \/ Server

Spec == Init /\ [][Next]_vars

-----------------------------------------------------------------------------

Armed == seeded /\ player = playerGuid

(* Every variable stays in its range, and what is new has been seen. *)
TypeOK ==
  /\ player \in Players /\ playerGuid \in Players \cup {0}
  /\ items \in [Guids -> {NoItem} \cup [kind : Kinds, n : 1..MaxCount, at : {"bag", "bank"}]]
  /\ lastGuid \in 0..MaxGuid /\ acts \in 0..MaxActs
  /\ DOMAIN seen \subseteq 1..lastGuid /\ \A g \in DOMAIN seen : seen[g] \in 0..MaxMissStreak - 1
  /\ new \subseteq DOMAIN seen
  /\ Len(splits) <= MaxPendingSplits /\ \A i \in DOMAIN splits : splits[i].source \in 1..lastGuid
  /\ {dirty, seeded, disturbed} \subseteq BOOLEAN

(* Only what was acquired since login is new, and once cleared it stays so:
   not what was owned at login, came out of the bank or was missed by scans, and
   not the half of a stack, when nothing disturbs the split and the first scan
   after it reads the half: one that does not has retired the split. *)
NewWasAcquired == Armed /\ ~disturbed => new \subseteq wanted \cup strays

(* What was acquired, and no split stood in its way when it was first read, is
   new until it is cleared or gone. *)
AcquiredIsNew == Armed => due \subseteq new

(* Both: new is what was acquired. *)
NewIsWhatWasAcquired == NewWasAcquired /\ AcquiredIsNew

(* An addon that looks again at each BAG_NEW_ITEMS_UPDATED is never behind. *)
PictureIsCurrent == Armed => heard = new

(* A flag outlives its item by fewer than kMaxMissStreak scans. *)
FlagsFade == Armed => \A g \in new : g \in DOMAIN unread /\ unread[g] < MaxMissStreak

=============================================================================
