------------------------------ MODULE ItemData ------------------------------
(***************************************************************************)
(* Item records on demand (item/Data.cpp), and the one module that waits   *)
(* for them on an addon's behalf (item/AverageLevel.cpp).                  *)
(*                                                                         *)
(* A lookup of a record the client does not have is noted in a queue; the  *)
(* world tick sends the queries, rations them, sends again what the server *)
(* dropped behind a loading screen, and gives up after kMaxTimeouts.  The  *)
(* engine's response handler fills the record and the queue is swept.      *)
(* Every completion runs addon handlers, which may ask again while the     *)
(* sweep or the tick that runs them is in the middle of the queue.         *)
(*                                                                         *)
(* The walk over the queue is one step per entry, so that handlers can run *)
(* between two of them.  Times are ages, capped where the code stops       *)
(* telling them apart.                                                     *)
(***************************************************************************)
EXTENDS Integers, Sequences, FiniteSets, SequencesExt

CONSTANTS
  Items,
  Known,         \* those the server has a record of
  Carried,       \* those the player carries
  MaxPending,    \* kMaxPending
  OwnedPerTick,  \* kOwnedPerTick
  Spacing,       \* kMinRequestSpacingMs, in units of time
  Settle,        \* kSettleMs
  Resend,        \* kResendMs
  MaxTimeouts,   \* kMaxTimeouts
  MaxAsks,       \* bound: requests for other items
  MaxTurns       \* bound: loading screens after the first, /reloads, and lookups by the engine

ASSUME ItemDataAssumption ==
  /\ Known \subseteq Items /\ Carried \subseteq Items
  /\ IsFiniteSet(Items)
  /\ {MaxPending, OwnedPerTick, Spacing, Settle, Resend, MaxTimeouts} \subseteq Nat \ {0}
  /\ {MaxAsks, MaxTurns} \subseteq Nat

VARIABLES
  world,         \* the player: "in" the world, "leaving" it (the server has let go, the
                 \* client does not know), "away", "arriving" (the client is back first)
  cache,         \* item -> "none", "pending" (a node that waits), "loaded"
  called,        \* items whose node has the escalation callback
  answers,       \* items whose response is on the way
  pending,       \* g_pending
  settled,       \* g_settled
  sinceEntered,  \* age of g_inWorldSinceMs, -1 for its 0
  sinceSent,     \* age of g_lastRequestMs
  prefetched,    \* g_ownedPrefetched
  waiting,       \* AverageLevel's g_waiting
  walk,          \* the sweep or the tick under way
  event,         \* the event whose handlers run
  asks, turns,
  owed           \* history: item -> the event it is owed, "none" if none

server == <<world, answers, turns>>
clocks == <<sinceEntered, sinceSent>>
records == <<cache, called>>
vars == <<server, records, clocks, pending, settled, prefetched, waiting, walk, event, asks,
          owed>>

InWorld == world \in {"in", "arriving", "leaving"}

NoWalk == [kind |-> "none", i |-> 0, owned |-> 0, bg |-> FALSE]
NoEvent == [kind |-> "none", item |-> "none", ok |-> FALSE]

Idle == walk.kind = "none"
LuaRuns == Idle \/ event # NoEvent

Aged(age, dt, cap) == IF age + dt < cap THEN age + dt ELSE cap

-----------------------------------------------------------------------------
(* The queue. *)

PendingItems == {pending[n].item : n \in DOMAIN pending}

NewEntry(item, implicit) ==
  [item |-> item, implicit |-> implicit, issued |-> FALSE, sentOnce |-> FALSE, age |-> 0,
   timeouts |-> 0, failed |-> FALSE,
   lost |-> 0]       \* history: its queries the server dropped

(* Mutant: drops the last entry instead of moving it. *)
RemovePendingAtForgets(queue, n) == SubSeq(queue, 1, Len(queue) - 1)

(* The last entry takes the place of the one removed. *)
RemovePendingAt(queue, n) ==
  SubSeq([queue EXCEPT ![n] = queue[Len(queue)]], 1, Len(queue) - 1)

(* Track: the queue after a request that finds `queue`. *)
Track(queue, item, implicit) ==
  LET there == {n \in DOMAIN queue : queue[n].item = item} IN
  IF cache[item] = "loaded" THEN queue
  ELSE IF there # {} THEN
    [n \in DOMAIN queue |->
       IF n \in there /\ ~implicit THEN [queue[n] EXCEPT !.implicit = FALSE] ELSE queue[n]]
  ELSE IF Len(queue) >= MaxPending THEN queue
  ELSE Append(queue, NewEntry(item, implicit))

(* History: what is owed after the same request, told without the queue. *)
Owe(debts, item, implicit) ==
  IF cache[item] = "loaded" THEN debts
  ELSE IF debts[item] # "none" THEN IF implicit THEN debts ELSE [debts EXCEPT ![item] = "explicit"]
  ELSE IF Cardinality({i \in Items : debts[i] # "none"}) >= MaxPending THEN debts
  ELSE [debts EXCEPT ![item] = IF implicit THEN "implicit" ELSE "explicit"]

(* Requests for each of `items` in turn, the queue being `queue`. *)
Request(queue, items, implicit) ==
  /\ pending' = FoldLeft(LAMBDA q, item : Track(q, item, implicit), queue, items)
  /\ owed' = FoldLeft(LAMBDA debts, item : Owe(debts, item, implicit), owed, items)

-----------------------------------------------------------------------------

Init ==
  /\ world = "away"
  /\ cache = [i \in Items |-> "none"]
  /\ called = {} /\ answers = {}
  /\ pending = <<>>
  /\ settled = FALSE /\ prefetched = FALSE
  /\ sinceEntered = -1 /\ sinceSent = Spacing
  /\ waiting = {}
  /\ walk = NoWalk /\ event = NoEvent
  /\ asks = 0 /\ turns = 0
  /\ owed = [i \in Items |-> "none"]

-----------------------------------------------------------------------------
(* Addons. *)

Budget(item) ==
  /\ LuaRuns
  /\ asks < MaxAsks
  /\ asks' = asks + 1

(* C_Item.RequestLoadItemDataByID, or GetItemInfo and its kin (WarmCache).  An
   explicit request for a record the client has fires its event at once and
   changes nothing. *)
Ask(item, implicit) ==
  /\ Budget(item)
  /\ Request(pending, <<item>>, implicit)
  /\ <<pending, owed>>' # <<pending, owed>>
  /\ UNCHANGED <<server, records, clocks, settled, prefetched, waiting, walk, event>>

Missing == {i \in Carried : cache[i] # "loaded"}

(* Asks for every carried record that is missing, and waits for those queued. *)
GetAverageItemLevel ==
  /\ LuaRuns /\ asks < MaxAsks /\ Missing # {}
  /\ asks' = asks + 1
  /\ Request(pending, SetToSeq(Missing), TRUE)
  /\ waiting' = waiting \cup (Missing \cap {pending'[n].item : n \in DOMAIN pending'})
  /\ UNCHANGED <<server, records, clocks, settled, prefetched, walk, event>>

(* A /reload: both modules' RegisterLuaFunctions.  The queue outlives it. *)
RegisterLuaFunctions ==
  /\ Idle /\ turns < MaxTurns
  /\ turns' = turns + 1
  /\ prefetched' = FALSE
  /\ waiting' = {}
  /\ UNCHANGED <<world, answers, records, clocks, settled, pending, walk, event, asks, owed>>

-----------------------------------------------------------------------------
(* The server and the engine. *)

(* A query sent now: dropped unless the server has the player in the world. *)
Reaches == world \in {"in", "arriving"}
IsDropped == world # "in"

(* Any other code that looks the record up, query and all. *)
EngineFetch(item) ==
  /\ Idle /\ turns < MaxTurns
  /\ turns' = turns + 1
  /\ cache[item] = "none"
  /\ cache' = [cache EXCEPT ![item] = "pending"]
  /\ \/ Reaches /\ answers' = answers \cup {item}
     \/ IsDropped /\ UNCHANGED answers
  /\ UNCHANGED <<world, called, clocks, pending, settled, prefetched, waiting, walk, event, asks,
                 owed>>

World(from, to) ==
  /\ Idle
  /\ world = from /\ world' = to
  /\ UNCHANGED <<answers, records, clocks, pending, settled, prefetched, waiting, walk, event,
                 asks, owed>>

ServerLetsGo ==
  /\ turns < MaxTurns
  /\ World("in", "leaving")
  /\ turns' = turns + 1

ScreenUp == World("leaving", "away") /\ UNCHANGED turns

(* The connection keeps order: what was answered before the transfer has come. *)
ScreenDown ==
  /\ answers = {}
  /\ World("away", "arriving")
  /\ UNCHANGED turns

ServerAdmits == World("arriving", "in") /\ UNCHANGED turns

(* The engine fills the record, or refuses it and runs the escalation callback
   if the node has it; what becomes of a refused node is the engine's affair. *)
EngineResponse(item) ==
  /\ called' = called \ {item}
  /\ IF item \in Known
     THEN /\ cache' = [cache EXCEPT ![item] = "loaded"]
          /\ UNCHANGED pending
     ELSE /\ \E node \in {"none", "pending"} : cache' = [cache EXCEPT ![item] = node]
          /\ pending' = [n \in DOMAIN pending |->
               IF pending[n].item = item /\ item \in called
               THEN [pending[n] EXCEPT !.failed = TRUE] ELSE pending[n]]

ItemStatsCacheResponse(item) ==
  /\ Idle /\ item \in answers
  /\ answers' = answers \ {item}
  /\ EngineResponse(item)
  /\ settled' = (settled \/ InWorld)
  /\ walk' = [NoWalk EXCEPT !.kind = "sweep", !.i = 1]
  /\ UNCHANGED <<world, turns, clocks, prefetched, waiting, event, asks, owed>>

-----------------------------------------------------------------------------
(* Completions. *)

Resolved(e) == cache[e.item] = "loaded" \/ e.failed

(* Takes the entry off the queue, then runs the handlers of its event. *)
Complete(queue, n, ok) ==
  /\ pending' = RemovePendingAt(queue, n)
  /\ event' = [kind |-> IF queue[n].implicit THEN "implicit" ELSE "explicit",
               item |-> queue[n].item, ok |-> ok]
  /\ owed' = [owed EXCEPT ![queue[n].item] = "none"]

(* A tick ends behind the last entry. *)
Onward(queue, w) == IF w.kind = "tick" /\ w.i > Len(queue) THEN NoWalk ELSE w

(* FireByTag once the addons' handlers have returned: the subscribers, of which
   AverageLevel's runs the handlers of PLAYER_AVG_ITEM_LEVEL_READY in turn. *)
Subscribers ==
  /\ event # NoEvent
  /\ waiting' = waiting \ {event.item}
  /\ event' = IF event.item \in waiting /\ waiting' = {}
              THEN [NoEvent EXCEPT !.kind = "ready"] ELSE NoEvent
  /\ walk' = IF event' = NoEvent THEN Onward(pending, walk) ELSE walk
  /\ UNCHANGED <<server, records, clocks, pending, settled, prefetched, asks, owed>>

(* The response hook's sweep. *)
SweepResolved == {n \in DOMAIN pending : n >= walk.i /\ Resolved(pending[n])}

SweepFires ==
  /\ walk.kind = "sweep" /\ event = NoEvent /\ SweepResolved # {}
  /\ LET n == CHOOSE m \in SweepResolved : \A k \in SweepResolved : m <= k IN
       /\ Complete(pending, n, cache[pending[n].item] = "loaded")
       /\ walk' = [walk EXCEPT !.i = n]
  /\ UNCHANGED <<server, records, clocks, settled, prefetched, waiting, asks>>

SweepEnds ==
  /\ walk.kind = "sweep" /\ event = NoEvent /\ SweepResolved = {}
  /\ walk' = NoWalk
  /\ UNCHANGED <<server, records, clocks, pending, settled, prefetched, waiting, event, asks, owed>>

-----------------------------------------------------------------------------
(* OnWorldTick, the only reader of the clock: `dt` is the time since the last. *)

TickAway(dt) ==
  /\ Idle /\ ~InWorld
  /\ settled' = FALSE
  /\ sinceEntered' = -1
  /\ sinceSent' = Aged(sinceSent, dt, Spacing)
  /\ pending' = [n \in DOMAIN pending |-> [pending[n] EXCEPT !.issued = FALSE, !.age = 0]]
  /\ UNCHANGED <<server, records, prefetched, waiting, walk, event, asks, owed>>

(* The queue as time passes: only a query under way has an age. *)
Older(dt) ==
  [n \in DOMAIN pending |->
     IF pending[n].issued THEN [pending[n] EXCEPT !.age = Aged(@, dt, Resend)] ELSE pending[n]]

(* Mutant: every tick starts the wait after a loading screen over. *)
TickInWorldRestarts(dt) ==
  /\ Idle /\ InWorld
  /\ sinceEntered' = IF settled THEN -1 ELSE 0
  /\ settled' = (settled \/ sinceEntered' >= Settle)
  /\ sinceSent' = Aged(sinceSent, dt, Spacing)
  /\ IF settled' /\ ~prefetched
     THEN Request(Older(dt), SetToSeq(Carried), TRUE) /\ prefetched' = TRUE
     ELSE pending' = Older(dt) /\ UNCHANGED <<owed, prefetched>>
  /\ walk' = Onward(pending', [kind |-> "tick", i |-> 1,
                               owned |-> IF settled' THEN OwnedPerTick ELSE 0,
                               bg |-> settled' /\ sinceSent' >= Spacing])
  /\ UNCHANGED <<server, records, waiting, event, asks>>

(* The world gate, the prefetch of carried items, and the budgets of this tick. *)
TickInWorld(dt) ==
  /\ Idle /\ InWorld
  /\ sinceEntered' = IF sinceEntered # -1 THEN Aged(sinceEntered, dt, Settle)
                     ELSE IF settled THEN -1 ELSE 0
  /\ settled' = (settled \/ sinceEntered' >= Settle)
  /\ sinceSent' = Aged(sinceSent, dt, Spacing)
  /\ IF settled' /\ ~prefetched
     THEN Request(Older(dt), SetToSeq(Carried), TRUE) /\ prefetched' = TRUE
     ELSE pending' = Older(dt) /\ UNCHANGED <<owed, prefetched>>
  /\ walk' = Onward(pending', [kind |-> "tick", i |-> 1,
                               owned |-> IF settled' THEN OwnedPerTick ELSE 0,
                               bg |-> settled' /\ sinceSent' >= Spacing])
  /\ UNCHANGED <<server, records, waiting, event, asks>>

Current == pending[walk.i]

OnEntry == walk.kind = "tick" /\ event = NoEvent /\ walk.i \in DOMAIN pending

Owned(e) == e.item \in Carried
Issues(e) ==
  /\ settled /\ ~e.issued
  /\ IF Owned(e) THEN walk.owned > 0 ELSE walk.bg

(* A node that waits already takes the callback and sends nothing. *)
Sends(e) == Issues(e) /\ (e.sentOnce \/ cache[e.item] = "none")

(* What is left of the tick's budgets. *)
Budgeted(e) ==
  [walk EXCEPT !.owned = IF Issues(e) /\ Owned(e) THEN @ - 1 ELSE @,
               !.bg = @ /\ ~(Issues(e) /\ ~Owned(e))]

Issued(e, lost) ==
  IF Issues(e)
  THEN [e EXCEPT !.issued = TRUE, !.sentOnce = TRUE, !.age = 0,
                 !.lost = IF Sends(e) /\ lost /\ @ < MaxTimeouts THEN @ + 1 ELSE @]
  ELSE e

(* Cache::Query::Send, or CacheFetch with the escalation callback.  `lost`: the
   server drops the query. *)
Query(e, lost) ==
  /\ LET first == Issues(e) /\ ~e.sentOnce /\ cache[e.item] # "loaded" IN
       /\ called' = IF first THEN called \cup {e.item} ELSE called
       /\ cache' = IF first THEN [cache EXCEPT ![e.item] = "pending"] ELSE cache
  /\ IF lost THEN Sends(e) /\ IsDropped /\ UNCHANGED answers
     ELSE IF Sends(e) THEN Reaches /\ answers' = answers \cup {e.item} ELSE UNCHANGED answers
  /\ sinceSent' = IF Issues(e) /\ ~Owned(e) THEN 0 ELSE sinceSent
  /\ UNCHANGED <<world, turns, sinceEntered, settled, prefetched, waiting, asks>>

TimedOut(e) == e.issued /\ e.age >= Resend

(* Mutant: gives up at the first query that is not answered. *)
TickCompletesEarly(lost) ==
  /\ OnEntry
  /\ Query(Current, lost)
  /\ Resolved(Current) \/ TimedOut(Issued(Current, lost))
  /\ Complete(pending, walk.i, cache[Current.item] = "loaded")
  /\ walk' = Budgeted(Current)

(* The entry is resolved, or its last query timed out. *)
TickCompletes(lost) ==
  /\ OnEntry
  /\ Query(Current, lost)
  /\ \/ Resolved(Current)
     \/ TimedOut(Issued(Current, lost)) /\ Current.timeouts + 1 >= MaxTimeouts
  /\ Complete(pending, walk.i, cache[Current.item] = "loaded")
  /\ walk' = Budgeted(Current)

(* On to the next entry; a query that timed out is to be sent again. *)
TickMovesOn(lost) ==
  /\ OnEntry
  /\ Query(Current, lost)
  /\ LET e == Issued(Current, lost) IN
       /\ ~Resolved(Current)
       /\ TimedOut(e) => e.timeouts + 1 < MaxTimeouts
       /\ pending' = [pending EXCEPT ![walk.i] =
            IF TimedOut(e)
            THEN [e EXCEPT !.timeouts = @ + 1, !.issued = FALSE, !.age = 0] ELSE e]
  /\ walk' = Onward(pending', [Budgeted(Current) EXCEPT !.i = @ + 1])
  /\ UNCHANGED <<event, owed>>

-----------------------------------------------------------------------------

OnWorldTick(dt) == TickAway(dt) \/ TickInWorld(dt)

Walk ==
  \/ Subscribers \/ SweepFires \/ SweepEnds
  \/ \E lost \in BOOLEAN : TickCompletes(lost) \/ TickMovesOn(lost)

Next ==
  \/ \E item \in Items : \/ \E implicit \in BOOLEAN : Ask(item, implicit)
                         \/ EngineFetch(item)
                         \/ ItemStatsCacheResponse(item)
  \/ GetAverageItemLevel \/ RegisterLuaFunctions
  \/ ServerLetsGo \/ ScreenUp \/ ScreenDown \/ ServerAdmits
  \/ \E dt \in {0, 1} : OnWorldTick(dt)
  \/ Walk

Spec == Init /\ [][Next]_vars

(* Frames are drawn as time passes, answers arrive, a sweep or a tick runs to
   its end, and every loading screen ends. *)
Fairness ==
  /\ SF_vars(OnWorldTick(1)) /\ WF_vars(Walk)
  /\ SF_vars(\E item \in Items : ItemStatsCacheResponse(item))
  /\ SF_vars(ScreenUp \/ ScreenDown \/ ServerAdmits)

FairSpec == Spec /\ Fairness

-----------------------------------------------------------------------------
(* Properties. *)

Entry == [item : Items, implicit : BOOLEAN, issued : BOOLEAN, sentOnce : BOOLEAN, age : 0..Resend,
          timeouts : 0..MaxTimeouts, failed : BOOLEAN, lost : 0..MaxTimeouts]

(* Every variable has its type. *)
TypeOK ==
  /\ world \in {"in", "leaving", "away", "arriving"}
  /\ cache \in [Items -> {"none", "pending", "loaded"}]
  /\ called \subseteq Items /\ answers \subseteq Items /\ waiting \subseteq Items
  /\ pending \in Seq(Entry)
  /\ settled \in BOOLEAN /\ prefetched \in BOOLEAN
  /\ sinceEntered \in -1..Settle /\ sinceSent \in 0..Spacing
  /\ walk.kind \in {"none", "sweep", "tick"}
  /\ event.kind \in {"none", "implicit", "explicit", "ready"}
  /\ asks \in 0..MaxAsks /\ turns \in 0..MaxTurns
  /\ owed \in [Items -> {"none", "implicit", "explicit"}]

(* However handlers ask in the middle of a sweep or a tick, the queue holds
   exactly the items an event is owed for, once each, under the right event;
   and AverageLevel waits only for items whose event is still to come, so its
   answer is never stranded. *)
QueueIsWhatIsOwed ==
  /\ PendingItems = {i \in Items : owed[i] # "none"}
  /\ Cardinality(PendingItems) = Len(pending)
  /\ Len(pending) <= MaxPending
  /\ \A n \in DOMAIN pending : (owed[pending[n].item] = "implicit") = pending[n].implicit
  /\ waiting \subseteq PendingItems \cup {event.item}

(* An item the server knows is reported as failed only when the server dropped
   all but the first of the queries it was granted, or still has an answer on
   the way: a loading screen alone is never taken for a missing item. *)
FailureIsHonest ==
  [][event' # event /\ event'.kind \in {"implicit", "explicit"} /\ ~event'.ok =>
       \/ event'.item \notin Known
       \/ event'.item \in answers
       \/ Current.lost >= MaxTimeouts - 1]_vars

(* Every request is answered, one way or the other: as long as addons do not
   ask without end, nothing is owed again and again. *)
EveryAskIsAnswered == []<>(\A i \in Items : owed[i] = "none")

=============================================================================
