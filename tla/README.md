# ClassicAPI in TLA+

ClassicAPI is a DLL injected into the World of Warcraft 1.12 client. It adds the
script API of later clients (`C_Timer`, `C_Container`, `C_Item`, ...) by hooking
engine functions, and it is written as some five hundred small C++ files under
`src/src/`, one per feature. Everything runs on the client's main thread, so
its concurrency is not that of threads. It is that of

- **callbacks**: addon code (Lua) runs inside the library's own loops and calls
  back into the very component that is running;
- **frames**: a job spread over many frames shares the game with the player,
  with addons and with incoming packets, and acts on what it saw frames ago;
- **a server**: item moves, splits, posts and queries are requests whose
  answers come later, refused, out of step with other changes, or not at all;
- **an engine** whose tables are rebuilt at each login and `/reload`, and which
  other injected libraries patch as well.

Those four are what the modules below are about.

## Inventory

### Components with logic of their own

| Component | State it keeps | Operations | Meets | Hard parts |
|---|---|---|---|---|
| `C_Timer` (`time/Timer.cpp`) | queue of entries, next id, cached next deadline, snapshot of due ids, callbacks pinned in the Lua registry | `After`, `NewTimer`, `NewTicker`, `Cancel`, one walk per frame, reload hook | world tick, addon callbacks | callbacks change the queue being walked; cached deadline; ids restart on reload |
| Bag sorting (`container/SortBags.cpp`) | phase, awaited items, deadline, bags of the sort | sort call, per-frame tick, direction setting, reload | `item/Swap.cpp` (requests), `item/Lock.cpp` (lock bits), server, player | a batch planned against one snapshot; lost and refused replies; the player drags items meanwhile |
| Custom events (`event/Custom.cpp`) | reservations with their slots, growth latch | reserve a name, rename an engine event, claim at a registration, grow the table, rebuild | engine event table, hooks in `DllMain.cpp`, other libraries | order of claim, growth and registration; rebuilds; foreign writes; slots the engine signals by number |
| Auction posting (`auctionhouse/PostItem.cpp`) | one job: source, sizes, counts, phase, work slot, GUID | `PostItem`, per-frame tick | `item/Swap.cpp` (split), auction window, server, player | each step recognised only by what the slot shows |
| New items (`item/NewItems.cpp`) | seen GUIDs, new GUIDs, outstanding splits | bag change, tick, split and its answer, remove | send observer, packets | telling an acquisition from a move or from half of a stack |
| Item records on demand (`item/Data.cpp`, `item/AverageLevel.cpp`) | queue of records asked for, world gate, budgets, the records AverageLevel waits for | request, warm, response hook with its sweep, world tick, prefetch of carried items, reload | item cache of the engine, loading screens, addon handlers | handlers ask again in the middle of the sweep or the tick; queries dropped behind a loading screen |
| Loot (`loot/Scan.cpp`, `Request.cpp`, `UnitItem.cpp`) | walk, queue of corpses, corpses known empty, the request of `LootUnitItem` | scan, loot all, tick, open/refuse/release packets, quest change | one held loot target and one window, shared with the player; server | answers that never come or come late, a player who moves and loots by hand |
| Animation groups (`animation/`) | per group: loop state, paused, pending finish, order, progress; per region: playing groups, stored alpha | play, pause, stop, finish, the update of a frame | scripts run inside the update | scripts stop, restart and finish the groups being updated; shared stored alpha |
| Use of an equipment set (`equipmentset/Api.cpp`, `Pending.cpp`, `Locations.cpp`) | the swap in flight: wanted slots, moved items, refusal, deadline | use, tick, refusal packet, reload | `item/Swap.cpp`, server, bind prompt, player | a batch of moves against one snapshot; success read off the worn items |
| Sets and their buttons (`equipmentset/Data.cpp`, `Storage.cpp`, `Action.cpp`) | sets in memory and whose they are, one file per character, noted action slots, cursor | create, save, delete, pick up, place, merge at login | action bar, server, files | memory outlives a logout; crash between saves; a button lives at the server or in the file |
| Unit events and tokens (`frame/UnitEvent.cpp`, `unit/Token*.cpp`, `nameplate/Events.cpp`) | unit filters per frame and event, last GUID per token | register, fire, refresh per frame | event table, nameplates | registration while an event is being fired |
| Persistent player names (`player/NameCache.cpp`) | store by GUID and by name, the realm it holds, changed or not, v4 file to migrate; one file per realm | name reply, invalidation, lookup, remember, toggle, flush at reload and exit, world entry | the engine's own name cache, packets, files, accounts | a player is in one of two caches and moves at every packet; realms and accounts change under the store |
| Other asynchronous data (`cache/QueryLoad.cpp`) | waiting continuations, requests under way | request, answer, expire | server | duplicate, late and missing answers |
| Loot history (`loot/History.cpp`) | kept rolls | roll packets, queries | server, chat | rolls told by two sources |
| Auras, casts, combat log (`aura/`, `spell/Cast*.cpp`, `combatlog/`) | instances, current casts, kept entries | packets, per-frame diff | server | what was seen last against what is there now |

What makes each correct: a timer is called once per period, never early, never
after its cancellation, never starved; a sort ends, leaves nothing locked and
leaves the bags in order; an event reaches those who registered for it and
nobody else; a posted count is a count of posted stacks; an item is new once
and only when it was acquired; a record asked for is delivered or its failure
told, to everybody who waits for it, and never because of a loading screen; a
loot walk ends, tells so once and blocks nobody's looting; a region gets its
alpha back when its animations end; a set reported as worn is worn, and what the
set leaves alone stays; a set's button is kept, on one side, for the character
whose it is; a player once named is known on that realm from then on, under the
last name told.

### The rest

The other directories are reads of engine records (`item/`, `unit/`, `spell/`,
`player/` queries), layout and rendering (`frame/`, `texture/`, `text/`,
`model/`), source and text transformation (`luasyntax/`, `macro/`, `xml/`),
library functions (`baselib/`, `table/`, `encoding/`) and windows that pass one
request at a time. `PROJECT.json` lists every directory and file of `src/src/`, and for
each that has no module the reason.

## Modules

| Module | Models | Checked by | Proofs |
|---|---|---|---|
| `TimerService` | what `C_Timer` promises, without queue or frames | as the property of `Timer` | |
| `Timer` | `time/Timer.cpp` | `MCTimer` | `CallbackProofs` |
| `SortPlan` | the two planners of `container/SortBags.cpp`, as functions of the bags | through `SortBags` | `SortBagsProofs` |
| `SortBags` (extends `SortPlan`) | the sort in flight, with server and player | `MCSortBags` | `SortBagsProofs` |
| `EventCustom` | `event/Custom.cpp` and the hooks of `DllMain.cpp` that order it | `MCEventCustom` | `CallbackProofs` |
| `PostItem` | `auctionhouse/PostItem.cpp` with the split of `item/Swap.cpp` | `MCPostItem` | `PostItemProofs` |
| `NewItems` | `item/NewItems.cpp`, fed by `bag/UpdateDelayed.cpp` and the splits sent | `MCNewItems` | `NewItemsProofs` |
| `ItemData` | `item/Data.cpp`, and `item/AverageLevel.cpp` as what waits for it | `MCItemData` | `CacheProofs` |
| `LootScan` | `loot/Scan.cpp`, `Request.cpp`, `UnitItem.cpp`, `Unit.cpp` | `MCLootScan` | `LootScanProofs` |
| `AnimGroup` | `animation/Group.cpp`, `Anim.cpp`, and the alpha of `Region.cpp` | `MCAnimGroup` | `CallbackProofs` |
| `EquipmentSwap` | `equipmentset/Api.cpp`, `Pending.cpp`, `Locations.cpp` with `item/Swap.cpp` | `MCEquipmentSwap` | `EquipmentProofs` |
| `EquipmentSets` | `equipmentset/Data.cpp`, `Storage.cpp`, `Action.cpp` | `MCEquipmentSets` | `EquipmentProofs` |
| `NameCache` | `player/NameCache.cpp`, with the flushes of `DllMain.cpp` | `MCNameCache` | `CacheProofs` |
| `FoldLemmas` | no code: what a loop over a list computes, for the proofs | | itself |

`MC*` modules give the constants values; a definition whose comment begins with
`Mutant:` is a plausible bug in the definition after it, used to show that a
property notices it; no specification uses it.

Time is a clock of a few units. A GUID is a number or a model value, an item
kind a name; names, sizes and texts that no property tells apart are gone. Where
the code reads what the client shows, the variable is what the client shows:
requests are on a `wire` until the server answers. The server, the player, other
libraries and the engine are external; what the library relies on of them is
read from its uses and its comments.

### Timer

`timers` is `g_timers` (entries have distinct, growing ids, so a vector in order
of age is a function from ids), `nextID` and `nextDeadline` are the globals of
those names, `toFire` the part of `g_toFire` pass 2 has not reached, `registry`
the Lua references. `pc` and `running` say where the frame's walk is: one walk
is `Snapshot`, then `FireSkip` or `FireCall` for each due id in order, then
`Sweep`. While `pc = "callback"` the addon may take any of its own actions
(`After`, `NewTimer`, `NewTicker`, `Cancel`) any number of times before
`CallbackReturns`; between frames it may take them too. `PrepareForReload` is
the hook that clears the queue and starts the ids over.

`TimerService` keeps, per timer, only when it is next due and how many calls are
left. It says what an addon may count on: no call before its time, none after
`Cancel` or a reload, no call inside another, one per iteration, the next one due
a period after the last was due. `KeepsPromise` is `TimerService` with the queue's live
entries put for its timers: snapshot, sweep and cached deadline are stutters.

### SortPlan and SortBags

`SortPlan` has the two planners as operators of a view of the bags: `Merge`
requests (fill stacks of one kind from the ends) and placement requests (which
item goes in which cell, with bag families, junk at the end, and `KeepHome`).
They are folds, so that the modules can be used by proofs; a sort is `InOrder`,
which puts n-th what has n - 1 others ahead of it.

`SortBags` is the sort in flight. `phase`, `waiting`, `lastPending`, `deadline`
and `scope` are `g_phase`, `g_waiting`, `g_lastPending`, `g_deadline` and
`g_activeBags`; `locked` is the lock bit of `item/Lock.cpp`. `Call` is the
script function with its early returns; `TickProgress`, `TickMerged`,
`TickPlaced` are what `OnTick` does when a reply came, when the merge is over
and when the placement is over; a frame that finds neither is a stutter.
`Elapse` is time during which the server is quiet. The server merges, swaps,
splits a merge that does not fit, refuses, or never answers; the player picks
up, puts back or drops an item, sweeps the locks, turns the direction; `Reload`
and `Relog` rebuild what the code rebuilds.

### EventCustom

`table` and `chains` are the engine's event table, `staticNames` the static
array a build copies, `reserved` is `g_reserved` (a claim's `slot` and its
`fixed` id), `writes`, `growLatched`, `forceGrow` the globals. Initialisation
goes in the order of `DllMain.cpp`: `AutoReserve` and `EngineName` mostly before the
first, then for each build `Initialize` (writes off, claims forgotten, frames
gone), `LoadScriptFunctions` (writes on) or `LoadGlueScriptFunctions`, then
`RebuildEventTable`. Claims are made in `RegisterEvent` of the first Lua frame:
grow if there is a deficit (`Grow`, which may fail or be skipped once latched),
then `Claims`, then the registration proper. `OtherWrites` is another library
that puts a name in a slot of the live table; `EngineRegisters` is a C frame.
`FirstRegistrationClaimsAll` is about the two counts that must agree: the room
`Grow` counts and makes (`Open`, `Deficit`), and the room the claim walk finds
(`Claimable`), where the ids signalled by number, watched unit fields and other
libraries' names are empty or taken without being room. Unless a chain is live or an
allocation fails, the first registration of a build leaves no reservation without a slot.
`Fire` changes nothing and is read off the state: a name is fired on the slot
of its claim, and `SubscribersAreHeard` compares the chain there with `asked`,
the registrations made. It speaks of the game's table only: an id of the engine's may
lie in the band the login screens use (that of `UNIT_TARGET` does), where their own
table has other names.

### PostItem

`job` is `g_job`. Each action `Tick...` is one path through `Tick()`: window
closed, done, source gone or no room, post the source itself, split, a split that is not
sent, the split landed, the posted stack left, wait, timeout. `wire` keeps order; `sales` is
what the auction house got. The server honours a request the bags allow, or
refuses it; the player moves or splits a stack, loots, closes and opens the
window. `CountIsHonest` is stated for a player who leaves the bags alone
(`meddled`): the code counts a stack as posted when its slot no longer shows it,
and a stack dragged elsewhere looks the same. `PostedAsAsked` is what a job that
met no trouble (no refusal, timeout, foreign move or closed window) comes to: its sales
are stacks of the kind and size asked for, at most as many as asked for and just
as many when it is done, it does not fail, and it never uses a second free slot.

### NewItems

`seen`, `new`, `splits`, `seeded`, `playerGuid` are the file's globals. `items`
is what the client's objects show. A tick is `TickRearm` (another GUID),
`TickBaseline` (settled: everything owned is old) or `OnBagChanged`, the scan
with its three parts in order: new GUIDs are recorded, each unseen one claiming a
split or becoming new; splits are retired; GUIDs not read for `MaxMissStreak`
scans are forgotten. A scan may miss an item in the middle of an update, fewer
than `MaxMissStreak` times running. History variables keep what really happened:
`wanted` what was acquired, `heard` what an addon knows that looks again at each
`BAG_NEW_ITEMS_UPDATED`. Splits are told apart by kind only, as in the code;
`disturbed` notes the cases where that cannot be enough (a second split of a kind, or
loot, use or a bank move of that kind, while one is under way; a split more than the
library records; a failure while one is pending; the same character back) and
`NewIsWhatWasAcquired` is stated for the rest.
A scan that goes by a half without reading it disturbs nothing: it retires the split,
whose source has shrunk, and a later scan flags the half (see below). `strays` keeps just those
halves, and the property says that what is new was acquired or is one of them.

### ItemData

`pending` is `g_pending` with the flags of an entry; `settled`, `prefetched`,
`sinceEntered` and `sinceSent` are `g_settled`, `g_ownedPrefetched` and the ages of
`g_inWorldSinceMs` and `g_lastRequestMs`; `cache` is the engine's record per item,
`called` the nodes that carry the escalation callback; `waiting` is the set
`AverageLevel` waits for. The tick walks the queue one entry per step
(`TickCompletes`, `TickMovesOn`), and so does the
sweep of the response hook (`SweepFires`, `SweepEnds`). A completion takes the
entry off, moves the last one into its place (`RemovePendingAt`) and sets `event`:
while `event` is set addon handlers run and may ask for items again, then
`Subscribers` runs the library's own. `world` is where the player is as client and
server see it; a query is dropped whenever the server does not have the player.
`owed` repeats the requests without the queue and `lost` counts, per entry, the
queries the server dropped.

### LootScan

`scan` is `s_scan` without its results, `empties` `s_emptyCorpses` (a set: the
code adds, removes and asks whether it holds a corpse, no more), `item` the state
of `UnitItem.cpp`. `held` is the player's loot target, which the engine allows one
of, and `window` the corpse whose window is open; both are shared between the
walk, `LootUnitItem` and the player's own clicks (`Hand`). `Send` and
`SendSucceeds` are `Loot::Request`, `TryStartNext` the walk's step from wherever
it is called, `ScanOpens` the controller hook on an open that the walk waits for,
`OnTick` the three states of the tick. `down` is what the server has sent, in
order; it opens, refuses or never answers. Corpses leave, respawn under the same
GUID with loot, and get quest items.

### AnimGroup

`group` holds loop state, pause, pending finish, stopping and `currentOrder`; `anim` is
each order's animation, its play state, how far it is and what it last showed
(`smoothProgress`); `playing` is `m_playingAnimGroups`, `data` the region's `AnimData`.
`stack` is what is under way, innermost first: an entry is a group with the time its
update has left and the point it has reached. At most points a script runs, which
may call any group: the group's `OnPlay` (`onplay`) and its animation's (`animplay`) in
`Play`, the animation's `OnUpdate` (`animupdate`) and `OnFinished` (`finished`), the
`OnPlay` of the next order's animation (`advanceplay`), `OnLoop` (`loop`), `OnUpdate` of
a group that is done (`done`), `OnUpdate` or `OnFinished` at the end (`update`), the
animation's `OnStop` in `Stop` (`stopping`). At the `Silent` ones none does, since a
script may also not be there. A `Play` or `Stop` from a script puts an entry on top.

`Play` goes `Play`, `BeginPlay`, `EndPlay`: the list and the stored alpha (`NotifyBegin`) come after
the animation's `OnPlay`, whatever that did. An update is `Pass` (stored alphas back, earlier
orders apply, progress) and, if the animation has an `OnUpdate`, `AfterAnimUpdate` (its
own `Apply`), then `AdvanceOrder`, `AdvanceLoop`, `AfterOnLoop`, `NextPass`, `Finished`, `Updated`. `Stop`
is `Stop` and `EndStop`. Each order holds one Alpha animation without throttle, and no
region is inside a transparent one. The script of an `OnStop` is also offered where the animation had stopped
by itself, which allows more than the code does. Two histories: `base` is what a
region's alpha would be without animations, `late` the groups that are listed
although an animation's `OnPlay` had ended them before they were.

### EquipmentSwap

`at` is what the client shows in each worn slot, bag cell and bank cell.
`Planned` is the three phases of `Script_UseEquipmentSet` (between worn slots, from
bags or bank, to the bags) as folds over the slots, each against what the phases
before it have planned; `Use` puts the moves on the `wire`, holds back those that
prompt (`parked`) and begins the swap in flight: `active`, `refused`, `req`,
`lastWorn` and `deadline` are the globals of `Pending.cpp`. `OnTick` finishes it:
refused, done, or nothing changed for the settling time. Handlers of the result
(`Finish`) and of the warnings (`UseWithinWarning`) may use a set themselves. The
server does the moves in order, or refuses; the player moves an item, enters
combat, closes the bank; `OnInGameInit` is a `/reload`.

### EquipmentSets

`sets` and `path` are `g_sets` and whose they are, `file` what `Load` would read
for each character, `bar` the client's action table, `server` the buttons the
server keeps, `cursor` what it holds. `Keep` is each change with its save;
`Persist` may fail before or after the old file is removed. `Login` is the merge
of `ActionButtons_h`, `PickupAction` and `Place` what the hooks make of a click on
the bar, `Delete` includes `ClearButtons`. `Crash` forgets memory, perhaps within a
save, and `PlayElsewhere` changes the buttons at the server without the library.
Two simplifications: `Notify` always saves, where `SetActionSlot` saves only what changed
(`Data.cpp:298`), which writes the same file again; and an action that saves
twice in the code (placing over an occupied slot) is one step with one save, so a crash or a failure between
its two saves is not exercised.

### NameCache

`store` is the module's globals (`g_entries`, `g_byName`, `g_loadedPath` as a
realm, `g_dirty`, `g_migratedV4Path`), `engine` the client's own name cache, `disk`
per realm what `Load` would make of the v5 file, and which v4 files there are. A
name is a full name. `Upsert`, `Erase`, `HandOver`, `Taken` and `HandedOver` are
the operations on store and index; the engine walks its records in any order.
Operations on files give a set of outcomes: `Saves` succeeds, fails, or fails
with the old file gone; `LoadCacheIfNeeded` saves the realm in memory if it changed and
loads the session's; `MaybeFlush` saves or not, whatever the clock says.
`NameQueryResponse` and `InvalidatePlayer` are `OnPacket` and the engine's own
handler after it, `EnterWorld` is the hook that runs before the engine forgets
its records, `Reload` the flush at a `/reload` and a logout, `Exit` a `/quit`,
`FatalExit` an exit without the `atexit` handlers, `Kill` neither.

`book` keeps the last word on each player of each realm; where a save failed and
the realm left memory, it goes back to what the file says. Two histories mark
what is not claimed, for reasons listed below: `doubtful` the names the engine
holds for two players at once or that changed hands while the cache was off, and
`skipped` the realms that were in memory when a world was entered with the cache
off, or were unsaved in memory when it was turned off on another realm.

## Runs

| Run | Expect | Shows |
|---|---|---|
| `timer` | pass | no due timer hidden by the early return, no callback leaked, `TimerService` implemented, every due timer called |
| `sort_calm` | pass | with a server that honours requests: each request fits the bags it meets, all locks go, stacks are packed, kinds in order, a second sort sends nothing |
| `sort_any` | pass | with any server and a meddling player: an undisturbed sort leaves nothing locked, every sort ends |
| `event` | pass | a claim keeps its slot; the first registration of a build claims all there is room for; who registers is heard; no live chain moves |
| `post` | pass | what is counted was auctioned; what is auctioned without trouble is what was asked for, in kind, size and number; one free slot is enough; every job ends |
| `newitems` | pass | new means acquired and the reverse, but for halves a scan went by, the event is enough to follow, flags fade with their items |
| `itemdata` | pass | the queue is what is owed through every nested request, nobody waits for what is not queued, a failure is the server's and never a loading screen's, every request is answered |
| `lootscan` | pass | one completion for each walk, only empty corpses are skipped, a lost answer blocks no looting, every walk ends |
| `anim` | pass | groups stay within their orders and listed while scripts stop and restart them inside `Play`, `Stop` and updates, updates never build up, the alpha comes back unless an animation's `OnPlay` stopped its group, a finish ends a loop |
| `equipswap` | pass | a result is true and a failure has a cause outside the plan, slots left alone keep their items, every swap ends |
| `equipsets` | pass | bar, notes and server agree, no set passes from one character to another, buttons come back through logouts, crashes and failed saves |
| `namecache` | pass | a player is in the store or with the engine, never both; the last word on it is what is read and what is saved, on its own realm; no save drops a player from the file |

Each module also states a `TypeOK`; the runs spend their time on the rest, and
where a module has proofs its type invariant is part of the proved one.

### Bounds, and why they are enough

- `timer`: delays -1 (clamped), 0 and 2, iteration counts 0 (endless) and 2, ids
  up to 3, clock up to 3. Two timers make every order of a walk; the third is the
  one a callback appends. With a period of 1 and delays of 2, timers become due
  together, one after the other and late.
- `sort_calm`: five items (two stacks of one kind, which is junk, two herbs and one
  other), six cells of which two in a bag for herbs, or five with one of them; every
  layout and every count, both orders of ties. Herbs overflow their bag, or stand outside it. `sort_any`: three items in three cells, one act of
  the player, one request left over when a sort starts, one reload or relog. The
  hazards need two stacks of one kind, one other item, and one foreign change.
- `event`: a static table of five slots, in-game tables of five (claims need to
  grow) and six, two reserved names, two renamed ids, three builds. A claim, a rebuild
  and a claim again need two; the third reaches a latch or a failure left over.
- `post`: three cells, two of them general, stacks of up to 3, `quantity` and
  `numStacks` of 1 and 2, a wait of one frame, two jobs, one act of the player.
  A wait is either cut short or runs out, so its length only adds waits.
- `newitems`: two characters, two kinds (symmetric: no action names one), three
  GUIDs, two splits pending, forgetting after two misses, stacks of two, three
  acts. A split of a new stack, a second item of its kind and one that is not are
  within these.
- `itemdata`: one item of each sort (carried, known, unknown to the server), a
  queue of two, so that it is full, moves its last entry and refuses; one turn of
  the world besides the first login; two requests, which may come from handlers.
  Waits are one unit: an age is below its limit or at it. The budget for carried
  items is never the limit here.
- `lootscan`: two corpses, one empty, two walks, one act by hand, one change of the
  world. A walk over two corpses has a current one, a next one and an end; what
  comes late for the first meets the second.
- `anim`: two groups on one frame, one that ends and keeps its alpha and one that
  bounces, two orders of two units, one alpha to set, four calls. A play, two interferences
  from scripts and one call after it are within four. A group that repeats differs
  from one that bounces in `AfterEnd` alone; the proofs cover it, the instance does not.
- `equipswap`: two slots that share their items and one that does not, four items,
  two bag cells, one bank cell, every arrangement to start from; sets that trade
  two worn items, leave a slot alone, and empty two slots with too little room; two
  uses and one disturbance.
- `equipsets`: two characters, two slots, two set ids, one trouble (crash, failed
  save or change elsewhere). Ids are reused as soon as the last set is deleted.
- `namecache`: two realms, two GUIDs that name a player on each, two names, every
  choice of v4 files, three news (replies, invalidations, additions by addons), two
  troubles (failed save, fatal exit, kill). A rename takes two news, a name that
  changes hands two, and a third tells whose it is after that; world entries,
  toggles, reloads and exits are not bounded.

Deadlock is not checked where the bounded system may stop: timers out of ids and
time, event tables past the last build, jobs, acts, calls and changes at their
bounds. The runs
of the bag sort check it: a sort can always be asked for or go on.

### Fairness

- `timer`: `WF(Tick)`. Frames keep coming and a callback returns. Nothing is
  assumed of addons or of the clock's steps.
- `sort_any`: `FairTick`, which is weak fairness of `Tick` with its enabling
  condition written out, and `WF(Elapse)`: frames and time go on. Nothing is
  assumed of the server or the player: the deadline ends a sort by itself.
- `post`: `WF(Tick)`, the world tick of each frame. The waits are counted in
  frames, so the server is not needed.
- `itemdata`: strong fairness of the tick in the world and of the responses, and of the
  two steps that end a loading screen, weak fairness of the walk. Frames keep coming,
  a server that has the player answers a query it got, loading screens end;
  strong, because a loading screen or an addon may interrupt any of these for a
  while. A response may still say that there is no such item.
- `lootscan`: `WF(OnTick(1))` and `WF(ItemTick)`: frames are drawn as time passes.
  Nothing is assumed of the server.
- `anim`: weak fairness of `Step` or a shown frame: scripts return, and the frame is
  shown. Calls of addons are bounded, so no script restarts a group for ever.
- `equipswap`: `WF(OnTick)`. Nothing is assumed of server, prompt or player.
- `event`, `newitems`, `equipsets` and `namecache` have safety properties only.

### Where documents and code part

No run shows one; these were met while modelling, and the properties are stated
around them:

- **Bag sort.** "the plan stays valid as slots shuffle" (`SortBags.cpp:667`) fails in a
  crowded special bag (`Crowded`): herbs of several kinds for fewer cells. A herb
  `KeepHome` leaves at home puts another out, which an earlier swap may have moved into the
  herb bag; it then has to leave for a cell that still holds something that is not a
  herb, and the server refuses. Cells 4-6 for herbs, m1 to m3 of a kind behind x's, i
  anything, laid out `m2 - i | x m3 m1` and sorted right to left, does it. The same goes for
  junk with a family. The properties of `sort_calm` are stated apart from that.
  "NEVER plan a swap between two stacks of the same item" (`SortBags.cpp:633`)
  looks at the bags as they are when the plan is made; earlier swaps of the same
  batch, with a third kind between, can put the second stack under a later swap.
  "The run is contiguous because identical items agree on every key ahead of count"
  (`SortBags.cpp:643`) needs more: that different items do not. Two items of one name and class sort by
  count first and may take turns. `SortIsDecided` rules that out for the proofs.
  Within a kind `KeepHome` lets each stack stay where it is after the sort by
  count, so "fuller stacks come first" (`API.md`) does not follow
  (`SortBags.cpp:657`). The reload hook forgets the awaited items and not their
  locks (`:790`): if a reply is lost nothing unlocks them. Kinds of the same name
  and rank tie (`:643`). The deadline may unlock the item on the cursor.

- **Auction posting.** Success is noticed one frame after the last update; the window closed in that
  frame turns it into `AUCTION_MULTISELL_FAILURE` (`PostItem.cpp:219`). A posted
  count includes a stack the player dragged away (`:277`). A job refuses a new one
  from within the handler of its own last update, and survives a reload.

- **New items.** Any `SMSG_INVENTORY_CHANGE_FAILURE` drops all pending splits
  (`NewItems.cpp:407`). The baseline is armed by a change of GUID, which does not
  change when the same character comes back (`:453`). A split between bank slots
  leaves a record that only a later item of that kind retires.
  "so after that scan the half has either been claimed or the split went onto an existing
  stack (no new GUID)" (`:340`) counts on a scan that reads the half. `RetireSplits` reads the source by its GUID,
  wherever it is, so a scan that finds it shrunk while the bag with the half reads as empty drops the
  split. The next scan finds the half unseen, with nothing to claim, and flags it. The claim
  leaves out just that half (`strays`).

- **Custom events.** A library that writes one of our names into its own slot shares its events with
  us (`Custom.cpp:150`).

- **Item records.** As the last entry moves into a hole (`Data.cpp:255`), handlers that ask again
  for two refused items whenever they fail can keep a waiting request from ever
  being served (`API.md:14582`); the run bounds requests. A query is sent
  `kMaxTimeouts` times, resends being one less. A failure handler that calls
  `GetAverageItemLevel` queues the item again, and `OnItemLoaded` then erases its
  wait: that READY event is not fired.

- **Loot.** `Send` (`Request.cpp:78`) also says yes when the target is already held by the
  player's own click: the walk then swallows that window, or lets it go after its
  timeout (`Scan.cpp:338`). An answer later than the timeout opens a window nobody
  asked for (`API.md:15656`). `LootUnitItem` on the corpse a walk has asked for
  rides on that request, and its item is not taken. `C_Loot.LootUnit` left
  unanswered is never released.

- **Animation.** With one group on a frame and one on its texture, `AnimDeactivated`
  (`Region.cpp:319`) clears the stored alpha of the texture whose own group still
  plays, and `AnimActivated` (`:280`) may store the animated one: "when the last
  group with an Alpha animation on the region, or on a frame around it, stops or
  finishes, the stored alpha comes back" (`API.md:2004`) fails then, and
  `AlphaComesBack` is checked for groups on one region. `SetOrder` sets
  the order before it tells the group, so an animation at the
  front of its old list is not found there, and a clamped order on a lone
  animation lists it twice. `Stop` or `Pause` from the last `OnUpdate` of a group
  that is done indexes past the order lists; the model leaves these calls out.
  `Stop` from an animation's `OnPlay` ends the group before `Play` has listed it: `NotifyBegin`
  (`Group.cpp:400`) then lists a stopped group and stores the alpha, and as no update or stop of
  it follows, neither comes undone until the group is played and ends again; `late` marks these
  groups, and `PlayIsInOrder` and `AlphaComesBack` leave out just them. `Stop` from an
  animation's own `OnUpdate` is followed by its `Apply` (`Anim.cpp:208`): if that was the last group, what it adds
  stays for good and is the base of the next. `NothingBuildsUp` and `AlphaComesBack` count it as such.
  `SetAlpha` there is added to for that one update. `Stop` and
  `Play` in `OnFinished` skip the first order of the new run. `Stop` in `OnLoop`
  fires `OnStop` and `OnFinished`, `Pause` there finishes the group, `Stop` in
  the group's `OnPlay` does not stop. Two groups on different regions of one frame wipe each
  other's share of an update.

- **Equipment.** A displaced item goes where the new one was, which it may not fit (a shield for
  the second of two weapons): the server refuses that move, and the swap ends as a failure.
  The instance's shared slots are interchangeable, and `SlotsCanTrade` says what the theorems need. Free
  cells are counted before phase 2 frees some, and cells of special bags count as
  free. A move the engine does not send is not cared for, so success is told
  without it. A handler of `EQUIPMENT_SWAP_FINISHED` that uses a set makes `Finish`
  read the new request's `bagsFull`; one of `UI_ERROR_MESSAGE` that does leaves the
  outer `EQUIPMENT_SWAP_PENDING` without its end. "SetIDs are not reused" (`API.md:5561`)
  holds for all but the highest. The comment at `Storage.cpp:193` counts on the `.tmp`
  file, which `Load` never reads: a crash between removal and renaming loses all
  sets (`spoiled` in the model).

- **Player names.** "Re-enabling later restores the prior contents" (`API.md`, `SetEnabled`) fails
  for the players handed over to the engine when a world is entered with the cache
  off: nobody takes them back (`NameCache.cpp:654`), the store is not loaded again
  since its realm has not changed (`:548`), and the next save drops them from the
  file. The same hook, reached with the cache on for an account and the realm of
  another still in memory, copies the other realm's engine records into it. After a
  fatal exit the file holds the store alone, without players that were in the file
  before and had passed to the engine (`DllMain.cpp:235`), which is more than "roughly
  this interval" (`NameCache.cpp:104`). "One realm's players
  never land in another realm's file" (`NameCache.cpp:544`) counts on a save that works: where
  both the save at a realm change and the one of turning the cache off on the new
  realm fail, the old realm stays in memory unsaved, and turning the cache on again saves
  it together with what the engine holds, which is the new realm's. If the engine holds one name for two
  players, its order decides which of them a save keeps. `FullName::Make` depends on
  the realm of the session, so names taken at a change of realm are compared by the
  rules of the new one.

## Proofs

The theorems hold for every value of the constants under the `ASSUME` of the
module (`TimerAssumption`, `SortPlanAssumption`, `SortBagsAssumption`,
`EventCustomAssumption`, `PostItemAssumption`, `NewItemsAssumption`,
`LootScanAssumption`, `EquipmentSetsAssumption`, `EquipmentSwapAssumption`,
`AnimGroupAssumption`, `ItemDataAssumption`, `NameCacheAssumption`), which fix no more than the
constants' types, that there are finitely many items or players, and bounds above zero;
for the events that a build's table is at least as long as the static names it copies;
for the sets that an item they want fits its slot and is wanted once, since a set is saved from
what is worn (`Data.cpp:51`); and
for the names that a v4 file, once read, has a name for one player only, which is
what `Upsert` makes of any file. `CallbackProofs`,
`CacheProofs` and `EquipmentProofs` extend more than one component; there the first has the usual names (`Init`,
`Next`, `Spec`), the others have names of their own (`EventSpec`, `AnimSpec`,
`NameSpec`, `SwapSpec`).
No proof uses the assumption of another component.

- **`CallbackProofs`, `Timer`**: `TypeCorrect`, `NoDueTimerIsSkipped`, `NoCallbackLeaks`,
  `SnapshotStaysOld`. The inductive invariant adds to the run's invariants that
  every id of the queue is below `nextID` (an append cannot overwrite) and that
  `running` is set only inside a callback (a sweep cannot meet one). The cached
  deadline needs the snapshot clause: during a walk it may be too late for the
  entries just called, and `Sweep` recomputes it. `KeepsThePromise` is the refinement:
  every step of the queue is a step of `TimerService` or a stutter. It needs that ids
  stay within the bound, that a live timer has calls left (`CallsAreLeft`: else a
  sweep could drop a promise) and that what a snapshot holds is still in the queue and
  due (`SnapshotIsDue`); the running entry is mapped to what it will be once its
  callback returns, which `RunningIsServed` shows it then is.
- **`CallbackProofs`, `EventCustom`**: `ClaimsStayOurs`, `NoNameMoves`. The invariant adds the type of the reservations, that the table
  is an interval of ids (so growing appends), and `ClaimsAreFresh`: while no table
  stands, no claim does. That last one is what a rebuild relies on. `NoLiveChainMoves`
  follows from growing being an append. `SubscribersStayHeard` holds where our names
  are apart from the engine's, the other library's and the other modules'
  (`NamesAreApart`, its hypothesis): then a name of ours in the table is at the slot of
  its claim (`NamesLeadHome`), and the first registration of a build claims all there
  is room for, so that no later one claims a name a frame was already refused
  (`NothingLeftToClaim`).
- **`LootScanProofs`**: `TypeCorrect`, `EachWalkCompletesOnce`,
  `WhatIsHeldIsLetGo`, `WhatIsSkippedIsEmpty`. The walk's own lemma, `WalkGoesOn`, covers every place the
  code calls `TryStartNext` from: if the target goes in, or the walk did not hold
  it, the state that comes out satisfies the invariant again. Letting go needs
  `NothingIsAskedFor`: an idle `LootUnitItem` names no corpse, and a target nobody
  holds has no holder. That queues hold corpses rests on `SetToSeq` and `Max` being
  what they choose, for which a largest element has to exist (`LastIsIn`).
  That what is skipped is empty takes an invariant of its own over the wire,
  `SkipInv`: a skipped corpse is lootable and empty, or has changed since the last
  tick, or a quest change is on its way; and the server is `Honest`: what an answer
  calls empty is empty or has a quest change behind it.
- **`CallbackProofs`, `AnimGroup`**: `PlayStaysInOrder` needs, beside the types (a group
  that is stopped is not paused), what the things under way are: which point the innermost entry of a group is at
  says whether it may be at no order (`done`) or not listed yet (`onplay`, `animplay`,
  `begin`) or any more (`stopping`), and a lemma each (`StaysInOrder`, `MovesInOrder`) carries that through entries
  put on top, moved on and taken off. A group that is listed and stopped is in `late`.
  `AlphaDoesComeBack` and `NothingDoesBuildUp` rest on `Restorable`: just the regions with a group
  listed have a stored alpha, it is `base`, and the others show `base`; it speaks of the lists,
  as `HasActiveAnim` does, and so holds of a group in `late` too.
  Their hypothesis `GroupsAreApart` (no group of a frame beside
  one of a region on it) is where the code stops keeping that, see above.

- **`SortBagsProofs`**: `IdleAwaitsNothing` is inductive as it stands once the
  requests of a plan are known to be of items; `NothingLeftGreyed` needs
  `LocksAreAwaited`: until the player acts, whatever is locked is in `waiting`.
  The other four are about `CalmSpec`, a sort nobody disturbs, for any number of bags, families,
  stacks and kinds: `RequestsCanBeHonoured`, `LocksAreReleased`, `OneSortSorts`,
  `SortingTwiceIsSortingOnce`. They assume `SortIsDecided` (finitely many cells; the keys
  ahead of the stack count tell the kinds apart; a tie order orders), `MaxWire = 0` (a call comes when
  the requests before it are answered) and that `SettleTime` is positive; `MCSortBags` has TLC confirm
  `SortIsDecided` of its instance. Like the properties, what they say of a placement
  is for bags of which none is `Crowded`.
  The argument goes up in layers. Requests lead (`Leads`) from one state of the bags to another
  when each can be honoured in turn, and what is honoured leaves an orderly state orderly
  (`AfterIsOk`). Phase one: a turn of the two ends of `Pour` keeps full stacks before and used-up
  ones behind (`PouringGoesOn`), so a kind ends packed (`PourEnds`) and so do all (`ConsolidateIs`); what is packed
  asks for nothing (`NothingToMerge`). Phase two: the two cursors of `Assign` give each entry a cell of its own, in
  the order of the records (`GivenSeats`), and room suffices because each entry stands in a cell
  that could be its own (`SpilledFit`); `KeepHome` trades cells within a kind only
  (`TradeRehomes`), and after it an item in a special bag stays in one of the family unless the bags
  are crowded (`HandedHome`). Then each swap is between two cells whose items may trade places
  (`ShownFires`), and what the plan believes of the cells is, kind by kind, what they show, although a
  swap of two stacks of one kind may merge them (`ShownMoves`). A second sort has the
  same kinds for the same cells, so everyone is at home (`PlaceSettles`). `CalmInv` carries this through
  the flight: what is on the wire leads to packed stacks, or to settled bags, and every lock is on
  an item that will leave its cell.
- **`PostItemProofs`**: `CountStaysHonest`, `StacksArePostedAsAsked`. The invariant `Kept` is conditional on
  bags left alone and relates count, wire and sales: GUIDs in the bags are
  distinct and not sold, the wire holds only the job's own requests, and the count
  is behind the sales, by at least one whenever a posted stack has left its slot
  (`CountIsBehind`): the next frame may then count it. A job without trouble is in
  one of five places (`Ready`, `SplitSent`, `SplitLanded`, `SaleSent`, `Sold`), each
  with the one request that may be on the wire, what the slot in work shows, how many of
  the sales are this job's, and that the source holds enough for the rest (`Left`), which is
  why it neither stops short nor fails; the
  slots in use go up by one between the first and the last of them, and down again.
- **`NewItemsProofs`**: `PictureStaysCurrent`, from `heard = new` for the armed
  character and `NothingYet`, which covers the frames between a login and the
  tick that notices it: the flags of the last character are still there, on items
  that are not; and `FlagsDoFade`, from `StreaksAreTrue`: the miss count of a
  record is the number of scans that did not read it. `NewIsAcquired` rests on `AcquiredInv`.
  Owned items that were read stay in the seen-set (`NothingIsForgotten`), so whatever a scan finds unseen
  was acquired or is a half (`NewIsWanted`). While no split is disturbed, a kind has one business
  at a time (`SplitsAreCalm`): a split on its way, whose entry is still there with a source that has
  not shrunk, or a half that no scan has gone by, with an entry of its kind to claim; a half that one has
  is a stray, and nothing more is said of it. `ClaimedIs` and
  `RetiredIs` are about the two loops of a scan: whatever order the bags are in, the only unseen item of a kind
  that has an entry claims one, an item without an entry is flagged, the entries of other kinds stay, and the
  walk that retires spent splits, swapping the last entry into the hole, passes over none.
- **`EquipmentProofs`, `EquipmentSets`**: `TypeCorrect`, `BarStaysKept`,
  `SetsDoStayWithTheirCharacter`, `ButtonsDoComeBack`. Four invariants carry them:
  `Owners` (the sets in memory are those of the file that was read, and every file
  holds its character's), `OneClaim` (no slot is noted with two sets, so that the
  choice made at login is no choice), `Saved` (memory and file agree for a character
  whose saves went well) and `NotesAreLeft`, which bridges a character's absence:
  the notes in its file are the buttons its logout took off the bar.
- **`EquipmentProofs`, `EquipmentSwap`**: `SwapTypeCorrect`, `SlotsAreLeftAlone`, `ResultsAreHonest`. Moves
  lead (`Leads`) from one arrangement of the items to another when each can be made once
  those before it are, something the set wants is still missing before each, and slots the set does
  not decide over are left alone throughout. `Progress` says what holds of the plan when phase n has
  been through k slots: its moves lead to the arrangement it believes in, the slots done are as the set
  wants them, and what a later phase will fetch is still where it was seen. `PlanLeads` puts the three
  phases together. In flight (`Flight`), while nothing came between, what is on the wire
  leads from what is worn now to what the set wants: the next move is never refused, so no move
  of the plan is, and an early end is no end, as something is missing until the last one is made. The hypothesis
  `SlotsCanTrade` is about phase 1 alone, where an item from another slot displaces one that goes
  there: whatever may be worn in a slot must fit where else the set's item for that slot may be. Rings,
  trinkets and two-handed weapons always do; sets that move a one-handed weapon between
  the hands do not when an item is only for one of them, which is where the code parts from its promise, see above.
- **`CacheProofs`, `ItemData`**: `TypeCorrect`, `QueueIsOwed`, `FailuresAreHonest`. The
  invariant has the queue and the debts agree (`Agree`: an entry each, no item twice, the
  event that was asked for) and two things no property of a run says: `NothingStrands` (what
  `AverageLevel` waits for is in the queue or being completed just now), and
  that every entry is honest by itself (`Honest`): where the server has a record that is neither
  here nor on its way, each query but one was dropped, and only drops bring an entry to
  its last timeout. Removal from the middle of the queue (`RemovePendingAt` moves the last entry
  into the hole) and handlers that append to it while the walk stands are
  lemmas of their own, and so is the queue that a walk over the carried items leaves.
- **`CacheProofs`, `NameCache`**: `TypeCorrect`, `OneCopyEach`, `NobodyIsForgotten`, `NobodyIsLost`.
  Store, engine and files hold a player in turn, so the invariant says of each what it
  may hold: `Kept` (the files have the last word on every realm but one that is unsaved in
  memory), `InView` (what readers get has it on the session's realm), `Parted` (the
  engine's players and their names have left the store) while the cache is on,
  and `Off` (what has been told and is missing from the store is with the engine) while it is off.
  `TakeEngineRecords`, `HandOverAll` and `SaveCache` walk the engine's records in an order
  nobody knows: `ToldMerges` and `HandedMerges` say what a walk comes to in any
  order, for the names that the engine holds for one player. `NobodyIsLost` follows from `Saved`, which the
  proof of each action establishes beside the invariant: a file a step
  changes has the last word of before or after the step.
- **`FoldLemmas`**: a fold over a sequence is the last state of a run with a step for each
  element. The loops above are reasoned about on that run, by induction over its
  length as a set of numbers (`UpTo`). `WalkRuns` has the run for a loop whose turns keep within
  a set of states.

Only model-checked: what depends on fairness (`DueTimersAreCalled`, `SortEnds`,
`JobEnds`, `EveryAskIsAnswered`, `WalkEnds`, `FinishEnds`, `SwapEnds`): liveness is out of
the prover's reach; and `FirstRegistrationClaimsAll`, of which the proof of `SubscribersStayHeard` has the part
it needs. Every other property a run checks is a theorem here, some under the hypotheses named above.

## Not modelled

- Limits of fixed arrays that the code sizes past what the game can hold (the 512
  seen records, the sort's cells).
- A baseline that misses items because it comes too early; mail that returns an
  item under its old GUID.
- The inside of `item/Swap.cpp` beyond when it sends; where requests fail in the
  client they are never on the wire.
- The components of the inventory without a module, as listed in `PROJECT.json`.

## Plan

Done: `Timer` with its promise, the bag sort, custom events, auction posting, new
items, the loot walk, animation groups, sets with their buttons,
item records on demand, player names and the use of an equipment set, with proofs too. A
new component takes a run from the least telling of these, or shares one.

Next, in this order:

1. Proofs: a sort when kinds agree on every key ahead of the count, and calls while requests are
   on the wire.
2. `UnitEvent`: unit filters of a registration and the tokens that follow a GUID;
   composes with `EventCustom`.
3. `QueryLoad`: one request per record and the continuations that wait for it.
4. `AuraInstance`, `CastEvents`, `CombatLogHistory`, `LootHistory`: what packets and
   a frame's comparison with the last one make of the game's state.
