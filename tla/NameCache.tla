------------------------------ MODULE NameCache ------------------------------
(***************************************************************************)
(* The persistent name cache (player/NameCache.cpp).                       *)
(*                                                                         *)
(* The engine knows the players it named since the last world entry; the   *)
(* library keeps the others, and never one the engine has.  A name reply   *)
(* hands a player over to the engine, a world entry takes the engine's     *)
(* players back just before the engine forgets them, and a save writes     *)
(* both.  One file per realm outlives the process; the store in memory is  *)
(* one realm's, and follows the session when it is used.                   *)
(*                                                                         *)
(* Class, race and sex are not told, nor are records without a class,      *)
(* which the cache does not keep.  Names are full names.                   *)
(***************************************************************************)
EXTENDS Integers, Sequences, FiniteSets, SequencesExt, Functions

CONSTANTS
  Realms, NoRealm,
  Guids,         \* a counter per realm: one GUID is another player on each
  Names,
  V4Names,       \* GUID -> name, what a load of a v4 file gives: names are one player's
  MaxNews,       \* bound: what is told of players
  MaxTrouble     \* bound: failed saves, crashes and fatal exits

ASSUME NameCacheAssumption ==
  /\ NoRealm \notin Realms /\ {MaxNews, MaxTrouble} \subseteq Nat
  /\ IsFiniteSet(Guids)
  /\ \A g \in DOMAIN V4Names : g \in Guids /\ V4Names[g] \in Names
  /\ \A g, h \in DOMAIN V4Names : V4Names[g] = V4Names[h] => g = h

VARIABLES
  realm,      \* the realm of the session, NoRealm before the first world entry
  inWorld,
  enabled,    \* g_enabled, of the account that plays
  engine,     \* VAR_PLAYER_NAME_CACHE: GUID -> record
  store,      \* g_entries, g_byName, g_loadedPath, g_dirty, g_migratedV4Path
  disk,       \* per realm what loading the v5 file gives; realms with a v5, a v4 file
  book,       \* history: realm -> GUID -> the last word on it
  doubtful,   \* history: realm -> names that the engine holds for two players at once,
              \* or that changed hands while the cache was off
  skipped,    \* history: realms in memory when a world was entered with the cache off,
              \* or unsaved in memory when it was turned off on another realm
  news, troubles    \* history

session == <<realm, inWorld, enabled>>
past == <<book, doubtful, skipped>>
nameVars == <<session, engine, store, disk, past, news, troubles>>

(* The realm of a record is history: nothing in it says where it was learned. *)
Record(name) == [name |-> name, from |-> realm]

Nobody == <<>>      \* no GUIDs, or no names

With(f, x, v) == [y \in DOMAIN f \cup {x} |-> IF y = x THEN v ELSE f[y]]
Without(f, S) == Restrict(f, DOMAIN f \ S)

-----------------------------------------------------------------------------
(* The store and its index by name. *)

(* Mutant: the entry under a name that changes hands stays. *)
UpsertKeeps(s, g, e) ==
  [s EXCEPT !.entries = With(@, g, e), !.byName = With(@, e.name, g)]

(* Another player under the name is gone; a name the player had is. *)
Upsert(s, g, e) ==
  LET other == IF e.name \in DOMAIN s.byName THEN {s.byName[e.name]} \ {g} ELSE {}
      former == IF g \in DOMAIN s.entries THEN {s.entries[g].name} ELSE {}
  IN [s EXCEPT !.entries = With(Without(@, other), g, e),
               !.byName = With(Without(@, former), e.name, g)]

Erase(s, g) ==
  IF g \notin DOMAIN s.entries THEN s
  ELSE [s EXCEPT !.entries = Without(@, {g}), !.byName = Without(@, {s.entries[g].name})]

(* The engine has the player now, and its name is no other's. *)
HandOver(s, g, e) ==
  LET mine == Erase(s, g) IN
  IF e.name \in DOMAIN mine.byName THEN Erase(mine, mine.byName[e.name]) ELSE mine

(* The engine walks its records in an order of its own. *)
Orders == SetToSeqs(DOMAIN engine)

(* TakeEngineRecords, and what loading a file gives that was written from both. *)
Taken(s, order) == FoldLeft(LAMBDA t, g : Upsert(t, g, engine[g]), s, order)

(* HandOverAll *)
HandedOver(s, order) ==
  [FoldLeft(LAMBDA t, g : HandOver(t, g, engine[g]), s, order) EXCEPT !.dirty = @ \/ order # <<>>]

-----------------------------------------------------------------------------
(* Files.  What comes of an operation on them: `failed` if a save did, `lost` if what was not
   saved left memory. *)

Outcome(s, d, failed) == [store |-> s, disk |-> d, failed |-> failed, lost |-> FALSE]

V4Records(r) == [g \in DOMAIN V4Names |-> [name |-> V4Names[g], from |-> r]]

(* What a load of r's files gives. *)
Content(d, r) ==
  IF r \in d.v5 THEN d.lines[r] ELSE IF r \in d.v4 THEN V4Records(r) ELSE Nobody

Index(entries) ==
  [n \in {entries[g].name : g \in DOMAIN entries} |-> CHOOSE g \in DOMAIN entries : entries[g].name = n]

(* SaveCache of `all`, which is s with the engine's records: the file is written aside, removed
   and replaced; a v4 file goes once the v5 one is there. *)
Saves(s, d, all) ==
  {Outcome([s EXCEPT !.dirty = FALSE, !.migrated = FALSE],
           [d EXCEPT !.lines[s.realm] = all.entries, !.v5 = @ \cup {s.realm},
                     !.v4 = IF s.migrated THEN @ \ {s.realm} ELSE @], FALSE)}
  \cup IF troubles < MaxTrouble
       THEN {Outcome(s, d, TRUE),
             Outcome(s, [d EXCEPT !.lines[s.realm] = Nobody, !.v5 = @ \ {s.realm}], TRUE)}
       ELSE {}

SaveCache(s, d) ==
  IF s.realm = NoRealm THEN {Outcome(s, d, FALSE)}
  ELSE UNION {Saves(s, d, Taken(s, order)) : order \in Orders}

(* LoadCacheIfNeeded: the realm in memory is saved, and this session's is loaded. *)
Loaded(d) ==
  [entries |-> Content(d, realm), byName |-> Index(Content(d, realm)), realm |-> realm,
   dirty |-> realm \notin d.v5 /\ realm \in d.v4,
   migrated |-> realm \notin d.v5 /\ realm \in d.v4]

LoadCacheIfNeeded(s, d) ==
  IF s.realm = realm THEN {Outcome(s, d, FALSE)}
  ELSE {[o EXCEPT !.store = Loaded(o.disk), !.lost = o.failed] :
          o \in IF s.dirty THEN SaveCache(s, d) ELSE {Outcome(s, d, FALSE)}}

(* MaybeFlush: whether the interval is over is not told. *)
MaybeFlush(o) ==
  {o} \cup IF o.store.dirty /\ ~o.failed
           THEN {[p EXCEPT !.lost = o.lost] : p \in SaveCache(o.store, o.disk)} ELSE {}

Flushed == IF enabled /\ store.dirty THEN SaveCache(store, disk) ELSE {Outcome(store, disk, FALSE)}

-----------------------------------------------------------------------------
(* History. *)

(* The last word on g: no other player has that name any more. *)
Told(b, g, e) ==
  [h \in {x \in DOMAIN b : b[x].name # e.name} \cup {g} |-> IF h = g THEN e ELSE b[h]]

(* What is remembered of the realm that left memory, if it could not be saved. *)
Remembered(o) ==
  IF o.lost
  THEN [book EXCEPT ![store.realm] = Content(o.disk, store.realm)] ELSE book

Comes(o) ==
  /\ disk' = o.disk
  /\ troubles' = IF o.failed THEN troubles + 1 ELSE troubles

Held(name, g) == \E h \in DOMAIN engine \ {g} : engine[h].name = name

IsNews == news < MaxNews /\ news' = news + 1

InDoubt(names) == doubtful' = [doubtful EXCEPT ![realm] = @ \cup names]

-----------------------------------------------------------------------------
(* The engine's packets.  OnPacket runs before the engine's handler. *)

(* Mutant: the backstop save comes after the drop. *)
NameReplyLate(g, e) ==
  UNION {MaybeFlush([o EXCEPT !.store = [HandOver(@, g, e) EXCEPT !.dirty = TRUE]]) :
           o \in LoadCacheIfNeeded(store, disk)}

(* The backstop save comes first, then the player is dropped. *)
NameReply(g, e) ==
  {[o EXCEPT !.store = [HandOver(@, g, e) EXCEPT !.dirty = TRUE]] :
     o \in UNION {MaybeFlush(o) : o \in LoadCacheIfNeeded(store, disk)}}

NameQueryResponse(g, name) ==
  /\ inWorld /\ g \notin DOMAIN engine /\ IsNews
  /\ engine' = With(engine, g, Record(name))
  /\ InDoubt(IF Held(name, g) THEN {name} ELSE {})
  /\ IF enabled
     THEN \E o \in NameReply(g, Record(name)) :
            /\ store' = o.store /\ Comes(o)
            /\ book' = [Remembered(o) EXCEPT ![realm] = Told(@, g, Record(name))]
     ELSE UNCHANGED <<store, disk, book, troubles>>
  /\ UNCHANGED <<session, skipped>>

(* SMSG_INVALIDATE_PLAYER: the player has a new name. *)
Dropped(s, g) == [Erase(s, g) EXCEPT !.dirty = @ \/ g \in DOMAIN s.entries \cup DOMAIN engine]

Invalidated(g) ==
  {[o EXCEPT !.store = Dropped(@, g)] : o \in UNION {MaybeFlush(o) : o \in LoadCacheIfNeeded(store, disk)}}

InvalidatePlayer(g) ==
  /\ inWorld /\ IsNews
  /\ engine' = Without(engine, {g})
  /\ IF enabled
     THEN \E o \in Invalidated(g) :
            /\ store' = o.store /\ Comes(o)
            /\ book' = [Remembered(o) EXCEPT ![realm] = Without(@, {g})]
            /\ UNCHANGED doubtful
     ELSE /\ InDoubt(IF g \in DOMAIN engine THEN {engine[g].name} ELSE {})
          /\ UNCHANGED <<store, disk, book, troubles>>
  /\ UNCHANGED <<session, skipped>>

-----------------------------------------------------------------------------
(* Addons. *)

(* Lookup, GuidForName. *)
Lookup ==
  /\ inWorld /\ enabled /\ store.realm # realm
  /\ \E o \in LoadCacheIfNeeded(store, disk) :
       store' = o.store /\ Comes(o) /\ book' = Remembered(o)
  /\ UNCHANGED <<session, engine, doubtful, skipped, news>>

(* The server's word on a player is not changed by an addon's. *)
Remember(g, name) ==
  /\ inWorld /\ enabled /\ g \notin DOMAIN engine /\ IsNews
  /\ \E l \in LoadCacheIfNeeded(store, disk) :
       LET s == Upsert(l.store, g, Record(name))
           new == [l EXCEPT !.store = [s EXCEPT !.dirty = @ \/ s # l.store]]
       IN \E o \in IF s # l.store THEN MaybeFlush(new) ELSE {new} :
            /\ store' = o.store /\ Comes(o)
            /\ book' = [Remembered(o) EXCEPT ![realm] = Told(@, g, Record(name))]
  /\ InDoubt(IF Held(name, g) THEN {name} ELSE {})
  /\ UNCHANGED <<session, engine, skipped>>

Enabled(s) == {HandedOver(s, order) : order \in Orders}

SetEnabled ==
  /\ inWorld /\ enabled' = ~enabled
  /\ IF enabled' THEN
       \E l \in LoadCacheIfNeeded(store, disk) :
         /\ store' \in Enabled(l.store) /\ Comes(l)
         /\ book' = [Remembered(l) EXCEPT ![realm] =
                       FoldLeft(LAMBDA b, g : Told(b, g, engine[g]), @, SetToSeq(DOMAIN engine))]
         /\ UNCHANGED skipped
     ELSE
       \E o \in Flushed :
         /\ store' = o.store /\ Comes(o)
         /\ skipped' = skipped \cup IF store'.dirty /\ store.realm # realm THEN {store.realm} ELSE {}
         /\ UNCHANGED book
  /\ UNCHANGED <<realm, inWorld, engine, doubtful, news>>

-----------------------------------------------------------------------------
(* Sessions. *)

(* FrameScript_Initialize_h, at a /reload and a logout. *)
Reload(leaves) ==
  /\ inWorld /\ inWorld' = ~leaves
  /\ leaves \/ (enabled /\ store.dirty)
  /\ \E o \in Flushed : store' = o.store /\ Comes(o)
  /\ UNCHANGED <<realm, enabled, engine, past, news>>

(* Mutant: the players the engine forgets are lost. *)
TakenNone(s) == {s}

TakenBack(s) == {Taken(s, order) : order \in Orders}

(* NameCacheClear_h, as a character of an account with the cache on or off enters a realm, or is
   moved within the world. *)
EnterWorld(r, on) ==
  /\ inWorld => r = realm /\ on = enabled
  /\ inWorld' = TRUE
  /\ realm' = r /\ enabled' = on
  /\ store' \in IF store.realm # NoRealm /\ on THEN TakenBack(store) ELSE {store}
  /\ engine' = Nobody
  /\ skipped' = skipped \cup IF (on /\ enabled) \/ store.realm = NoRealm THEN {} ELSE {store.realm}
  /\ UNCHANGED <<disk, book, doubtful, troubles, news>>

Fresh == [entries |-> Nobody, byName |-> Nobody, realm |-> NoRealm, dirty |-> FALSE, migrated |-> FALSE]

(* A new process, with what there is on disk. *)
Ends(o, known) ==
  /\ realm' = NoRealm /\ inWorld' = FALSE /\ enabled' = TRUE
  /\ engine' = Nobody /\ store' = Fresh /\ disk' = o.disk
  /\ book' = IF store.realm = NoRealm \/ known THEN book
             ELSE [book EXCEPT ![store.realm] = Content(o.disk, store.realm)]
  /\ UNCHANGED <<doubtful, skipped, news>>

(* OnProcessExit: the engine's records are taken, and saved with the others. *)
Exit ==
  /\ realm # NoRealm
  /\ \E s \in IF store.realm # NoRealm /\ enabled THEN TakenBack(store) ELSE {store} :
       \E o \in IF enabled /\ s.dirty THEN Saves(s, disk, s) ELSE {Outcome(s, disk, FALSE)} :
         /\ Ends(o, ~o.store.dirty)
         /\ troubles' = IF o.failed THEN troubles + 1 ELSE troubles

(* An exit that skips the atexit handlers: Shutdown saves the store alone. *)
FatalExit ==
  /\ realm # NoRealm /\ troubles < MaxTrouble /\ troubles' = troubles + 1
  /\ \E o \in IF enabled /\ store.dirty THEN Saves(store, disk, store) ELSE {Outcome(store, disk, FALSE)} :
       Ends(o, FALSE)

(* The process is killed, perhaps while it saves. *)
Kill ==
  /\ realm # NoRealm /\ troubles < MaxTrouble /\ troubles' = troubles + 1
  /\ \E d \in {disk} \cup IF enabled /\ store.dirty
                          THEN {[disk EXCEPT !.lines[store.realm] = Nobody, !.v5 = @ \ {store.realm}]}
                          ELSE {} :
       Ends(Outcome(store, d, TRUE), FALSE)

-----------------------------------------------------------------------------
NameInit ==
  /\ realm = NoRealm /\ inWorld = FALSE /\ enabled = TRUE
  /\ engine = Nobody /\ store = Fresh
  /\ disk \in [lines : {[r \in Realms |-> Nobody]}, v5 : {{}}, v4 : SUBSET Realms]
  /\ book = [r \in Realms |-> Content(disk, r)]
  /\ doubtful = [r \in Realms |-> {}] /\ skipped = {} /\ news = 0 /\ troubles = 0

NameNext ==
  \/ \E g \in Guids, name \in Names : NameQueryResponse(g, name) \/ Remember(g, name)
  \/ \E g \in Guids : InvalidatePlayer(g)
  \/ Lookup \/ SetEnabled
  \/ \E leaves \in BOOLEAN : Reload(leaves)
  \/ \E r \in Realms, on \in BOOLEAN : EnterWorld(r, on)
  \/ Exit \/ FatalExit \/ Kill

NameSpec == NameInit /\ [][NameNext]_nameVars

-----------------------------------------------------------------------------
(* Properties. *)

Book(b) == DOMAIN b \subseteq Guids /\ \A g \in DOMAIN b : b[g] \in [name : Names, from : Realms]

(* Every variable has its type. *)
NameTypeOK ==
  /\ realm \in Realms \cup {NoRealm} /\ {inWorld, enabled} \subseteq BOOLEAN
  /\ Book(engine) /\ Book(store.entries) /\ store.realm \in Realms \cup {NoRealm}
  /\ disk.v5 \subseteq Realms /\ disk.v4 \subseteq Realms
  /\ \A r \in Realms : Book(disk.lines[r]) /\ Book(book[r])
  /\ doubtful \in [Realms -> SUBSET Names] /\ skipped \subseteq Realms
  /\ news \in 0..MaxNews /\ troubles \in 0..MaxTrouble

(* The index answers for exactly the players of the store, one for each name. *)
InLockstep ==
  \A n \in Names, g \in Guids :
    (n \in DOMAIN store.byName /\ store.byName[n] = g)
      <=> (g \in DOMAIN store.entries /\ store.entries[g].name = n)

(* While the cache is on, no player is both in the store and with the engine, whichever comes
   first, the cache is turned on late or the realm changes. *)
OneCopyPerPlayer ==
  /\ InLockstep
  /\ enabled /\ inWorld /\ store.realm = realm => DOMAIN store.entries \cap DOMAIN engine = {}

Says(b, g, e) == g \in DOMAIN b /\ b[g] = e

Agrees(have, want, r) ==
  \A g \in Guids, e \in [name : Names \ doubtful[r], from : Realms] : Says(have, g, e) <=> Says(want, g, e)

(* Readers ask the engine first. *)
Visible == [g \in DOMAIN engine \cup DOMAIN store.entries |->
              IF g \in DOMAIN engine THEN engine[g] ELSE store.entries[g]]

(* The last word on every player is what readers get while the cache is on, and what the files hold of
   every realm that is not in memory, or is there without a change to save: through renames and
   reused names, world entries, realm changes, exits and failed saves. *)
NothingIsForgotten ==
  \A r \in Realms \ skipped :
    /\ r # store.realm \/ ~store.dirty => Agrees(Content(disk, r), book[r], r)
    /\ r = store.realm /\ r = realm /\ enabled => Agrees(Visible, book[r], r)

(* No save loses a player that was on disk: one that moves between engine and store is written from
   one of them. *)
SavesLoseNobody ==
  [][\A r \in Realms \ skipped', g \in Guids :
       troubles' = troubles /\ g \in DOMAIN Content(disk, r) \cap DOMAIN book[r] \cap DOMAIN book'[r]
         => g \in DOMAIN Content(disk', r) \/ {book[r][g].name, book'[r][g].name} \cap doubtful'[r] # {}]_nameVars
=============================================================================
