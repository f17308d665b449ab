---------------------------- MODULE EventCustom ----------------------------
(***************************************************************************)
(* Custom events in the engine's event table (event/Custom.cpp, with the   *)
(* hooks of DllMain.cpp that drive it).  A reserved name is claimed in a   *)
(* slot of the live table on the first Lua RegisterEvent after the table   *)
(* was built; every reload or logout rebuilds the table and the claims     *)
(* start over.  Other libraries write names into the same table.           *)
(***************************************************************************)
EXTENDS Integers, Sequences, FiniteSets

CONSTANTS
  Names,        \* the names AutoReserve is given
  EngineNames,  \* the <<id, name>> pairs EngineName is given
  Others,       \* the <<id, name>> pairs other libraries write
  NoName,       \* the name of an empty slot
  Frames,       \* Lua frames
  StaticCount,  \* EVENT_NAME_TABLE_STATIC_COUNT
  GameNames,    \* [0..StaticCount-1 -> name or NoName]: what the engine names
  TableSizes,   \* sizes of the table an in-game build makes
  GlueNames,    \* [0..GlueCount-1 -> name]: the table of the login screens
  GlueCount,    \* GLUE_EVENT_COUNT
  ChatIds,      \* the chat-type event ids
  UnitMax,      \* EVENT_NAME_UNIT_MAX: ids below it are unit fields
  Watched,      \* the unit fields with a slot in the watch copy
  Spares,       \* spare entries of the watched-field table
  MaxReserved,  \* MAX_RESERVED
  Margin,       \* kMargin
  MaxBuilds     \* bound: script initialisations

ASSUME EventCustomAssumption ==
  /\ StaticCount \in Nat /\ GlueCount \in Nat /\ Margin \in Nat
  /\ TableSizes \subseteq Nat /\ \A n \in TableSizes : n >= StaticCount
  /\ DOMAIN GameNames = 0..(StaticCount - 1) /\ DOMAIN GlueNames = 0..(GlueCount - 1)
  /\ NoName \notin Names
  /\ \A e \in EngineNames : e = <<e[1], e[2]>> /\ e[1] \in Nat /\ e[2] # NoName

VARIABLES
  stage,        \* "boot", "scripts", "loaded", "glueLoaded", "built"
  table,        \* id -> name or NoName
  chains,       \* id -> the frames on the entry's subscriber chain
  staticNames,  \* the static name array a build copies
  watched,      \* unit fields with a watch slot
  spares,       \* spare entries left
  reserved,     \* g_reserved
  writes,       \* g_writesEnabled
  growLatched,  \* g_growLatched
  forceGrow,    \* g_forceGrowNext
  memoryFails,  \* whether allocations may fail in this process
  builds,       \* script initialisations so far
  asked         \* history: <<frame, name>> registered in this build

engine == <<stage, table, chains, builds>>
static == <<staticNames, watched, spares>>
flags == <<writes, growLatched, forceGrow, memoryFails>>
eventVars == <<engine, static, reserved, flags, asked>>

Ids(n) == 0..(n - 1)

Reservation(name, slot, fixed) == [name |-> name, slot |-> slot, fixed |-> fixed]
AtSlot(r, id) == Reservation(r.name, id, r.fixed)

EventInit ==
  /\ stage = "boot"
  /\ table = [id \in {} |-> NoName]
  /\ chains = [id \in {} |-> {}]
  /\ staticNames = GameNames
  /\ watched = Watched
  /\ spares = Spares
  /\ reserved = <<>>
  /\ writes = FALSE
  /\ growLatched = FALSE
  /\ forceGrow = FALSE
  /\ memoryFails \in BOOLEAN
  /\ builds = 0
  /\ asked = {}

-----------------------------------------------------------------------------
(* Reservations.  Static initialisers run in an unspecified order; a module
   may also reserve while the script functions load (voicechat/Tts.cpp). *)

AutoReserve(name) ==
  /\ stage \in {"boot", "scripts"}
  /\ \A i \in DOMAIN reserved : reserved[i].name # name
  /\ Len(reserved) < MaxReserved
  /\ reserved' = Append(reserved, Reservation(name, -1, -1))
  /\ UNCHANGED <<engine, static, flags, asked>>

(* GiveWatchSlot *)
Watchable(id) == id \in watched \/ spares > 0

EngineName(id, name) ==
  /\ stage = "boot"
  /\ id < StaticCount
  /\ Len(reserved) < MaxReserved
  /\ id < UnitMax => Watchable(id)
  /\ watched' = IF id < UnitMax THEN watched \cup {id} ELSE watched
  /\ spares' = IF id < UnitMax /\ id \notin watched THEN spares - 1 ELSE spares
  /\ IF staticNames[id] = NoName
     THEN /\ staticNames' = [staticNames EXCEPT ![id] = name]
          /\ reserved' = Append(reserved, Reservation(name, id, id))
     ELSE UNCHANGED <<staticNames, reserved>>
  /\ UNCHANGED <<engine, flags, asked>>

-----------------------------------------------------------------------------
(* The engine's script system, external, with our hooks in it. *)

(* Mutant: the claims of the last build survive into the next. *)
InitializeKeepsClaims ==
  /\ stage \in {"boot", "built"}
  /\ builds < MaxBuilds
  /\ builds' = builds + 1
  /\ stage' = "scripts"
  /\ writes' = FALSE
  /\ growLatched' = FALSE
  /\ chains' = [id \in DOMAIN table |-> {}]
  /\ asked' = {}
  /\ UNCHANGED <<table, static, forceGrow, memoryFails, reserved>>

(* FrameScript_Initialize, on a login, a /reload and a logout: PrepareForReload
   runs first, and the frames go with the Lua state. *)
Initialize ==
  /\ stage \in {"boot", "built"}
  /\ builds < MaxBuilds
  /\ builds' = builds + 1
  /\ stage' = "scripts"
  /\ reserved' = [i \in DOMAIN reserved |-> AtSlot(reserved[i], reserved[i].fixed)]
  /\ writes' = FALSE
  /\ growLatched' = FALSE
  /\ chains' = [id \in DOMAIN table |-> {}]
  /\ asked' = {}
  /\ UNCHANGED <<table, static, forceGrow, memoryFails>>

(* LoadScriptFunctions, ahead of the table build: EnableWrites. *)
LoadScriptFunctions ==
  /\ stage = "scripts"
  /\ stage' = "loaded"
  /\ writes' = TRUE
  /\ UNCHANGED <<table, chains, builds, static, reserved, growLatched, forceGrow, memoryFails,
                 asked>>

LoadGlueScriptFunctions ==
  /\ stage = "scripts"
  /\ stage' = "glueLoaded"
  /\ UNCHANGED <<table, chains, builds, static, reserved, flags, asked>>

(* RebuildEventTable: a fresh table over the game's names, or glue's. *)
RebuildEventTable ==
  /\ \/ /\ stage = "loaded"
        /\ \E n \in TableSizes :
             table' = [id \in Ids(n) |-> IF id < StaticCount THEN staticNames[id] ELSE NoName]
     \/ /\ stage = "glueLoaded"
        /\ table' = GlueNames
  /\ stage' = "built"
  /\ chains' = [id \in DOMAIN table' |-> {}]
  /\ UNCHANGED <<builds, static, reserved, flags, asked>>

(* Another library names a slot of its own before any Lua runs. *)
OtherWrites ==
  /\ stage = "built" /\ writes /\ ~growLatched
  /\ \E o \in Others :
       /\ o[1] \in DOMAIN table
       /\ table[o[1]] = NoName
       /\ table' = [table EXCEPT ![o[1]] = o[2]]
  /\ UNCHANGED <<stage, chains, builds, static, reserved, flags, asked>>

(* A subscription the RegisterEvent hook does not see. *)
EngineRegisters ==
  /\ stage = "built"
  /\ \E f \in Frames, id \in DOMAIN table :
       /\ table[id] # NoName
       /\ chains' = [chains EXCEPT ![id] = @ \cup {f}]
  /\ UNCHANGED <<stage, table, builds, static, reserved, flags, asked>>

UnregisterEvent(f, name) ==
  /\ stage = "built"
  /\ <<f, name>> \in asked
  /\ asked' = asked \ {<<f, name>>}
  /\ chains' = [id \in DOMAIN table |-> IF table[id] = name THEN chains[id] \ {f} ELSE chains[id]]
  /\ UNCHANGED <<stage, table, builds, static, reserved, flags>>

(* _classicapi_ForceEventGrow *)
ForceEventGrow ==
  /\ stage = "built" /\ writes
  /\ forceGrow' = TRUE
  /\ UNCHANGED <<engine, static, reserved, writes, growLatched, memoryFails, asked>>

-----------------------------------------------------------------------------
(* RegisterEvent with our hook: Grow, RetryClaims, then the engine's own. *)

Claimable(t, id) == id >= GlueCount /\ t[id] = NoName /\ id \notin ChatIds
Open(t) == {id \in DOMAIN t : Claimable(t, id)}

ClaimDemand == Cardinality({i \in DOMAIN reserved : reserved[i].fixed < 0})

(* Mutant: every empty slot is room, the ids the engine signals by number too. *)
DeficitOfEmptySlots ==
  LET empty == Cardinality({id \in DOMAIN table : table[id] = NoName})
  IN IF empty < ClaimDemand THEN ClaimDemand - empty ELSE 0

Deficit == IF Cardinality(Open(table)) < ClaimDemand
           THEN ClaimDemand - Cardinality(Open(table)) ELSE 0

GrowAttempted == ~growLatched /\ writes /\ DOMAIN table # {} /\ ClaimDemand > 0
ChainsEmpty == \A id \in DOMAIN table : chains[id] = {}
Bigger ==
  [id \in Ids(Cardinality(DOMAIN table) + Deficit + Margin) |->
     IF id \in DOMAIN table THEN table[id] ELSE NoName]

(* Mutant: the table moves with the lists in it. *)
GrowAnyway ==
  IF GrowAttempted /\ (Deficit > 0 \/ forceGrow)
  THEN {Bigger} \cup (IF memoryFails THEN {table} ELSE {})
  ELSE {table}

(* The tables Grow may leave: the chains must all be empty for it to move one. *)
Grow ==
  IF GrowAttempted /\ (Deficit > 0 \/ forceGrow) /\ ChainsEmpty
  THEN {Bigger} \cup (IF memoryFails THEN {table} ELSE {})
  ELSE {table}

Unclaimed == {i \in DOMAIN reserved : reserved[i].slot < 0}

(* TryClaim for each unclaimed reservation in turn: took maps those served to
   the lowest open slots, in order.  A name that cannot be copied is passed
   over. *)
Claims(t, failed, took) ==
  LET served == DOMAIN took
  IN /\ \A i, j \in served : i < j => took[i] < took[j]
     /\ \A i \in served, id \in Open(t) : id < took[i] => \E j \in served : took[j] = id
     /\ served \cap failed = {}
     /\ \A i \in Unclaimed \ (served \cup failed) :
          \A id \in Open(t) : \E j \in served : j < i /\ took[j] = id

Claimed(t, took) ==
  [id \in DOMAIN t |-> IF \E i \in DOMAIN took : took[i] = id
                       THEN reserved[CHOOSE i \in DOMAIN took : took[i] = id].name
                       ELSE t[id]]

(* The entry the engine finds for a name: the first. *)
Found(t, name) == {id \in DOMAIN t : t[id] = name /\ \A d \in Ids(id) : t[d] # name}

RetryClaims(t, failed, took) ==
  /\ Claims(t, failed, took)
  /\ table' = Claimed(t, took)
  /\ reserved' = [i \in DOMAIN reserved |->
                    IF i \in DOMAIN took THEN AtSlot(reserved[i], took[i])
                    ELSE reserved[i]]

(* Mutant: the engine looks the name up before the claims are made. *)
RegisterEventFirst(f, name) ==
  /\ stage = "built"
  /\ \E grown \in Grow :
       IF writes
       THEN \E failed \in SUBSET (IF memoryFails THEN Unclaimed ELSE {}),
               served \in SUBSET Unclaimed :
              \E took \in [served -> Open(grown)] : RetryClaims(grown, failed, took)
       ELSE UNCHANGED <<table, reserved>>
  /\ growLatched' = (growLatched \/ writes)
  /\ forceGrow' = (forceGrow /\ ~GrowAttempted)
  /\ chains' = [id \in DOMAIN table' |->
                  (IF id \in DOMAIN chains THEN chains[id] ELSE {})
                  \cup (IF id \in Found(table, name) THEN {f} ELSE {})]
  /\ asked' = asked \cup {<<f, name>>}
  /\ UNCHANGED <<stage, builds, static, writes, memoryFails>>

RegisterEvent(f, name) ==
  /\ stage = "built"
  /\ \E grown \in Grow :
       IF writes
       THEN \E failed \in SUBSET (IF memoryFails THEN Unclaimed ELSE {}),
               served \in SUBSET Unclaimed :
              \E took \in [served -> Open(grown)] : RetryClaims(grown, failed, took)
       ELSE UNCHANGED <<table, reserved>>
  /\ growLatched' = (growLatched \/ writes)
  /\ forceGrow' = (forceGrow /\ ~GrowAttempted)
  /\ chains' = [id \in DOMAIN table' |->
                  (IF id \in DOMAIN chains THEN chains[id] ELSE {})
                  \cup (IF id \in Found(table', name) THEN {f} ELSE {})]
  /\ asked' = asked \cup {<<f, name>>}
  /\ UNCHANGED <<stage, builds, static, writes, memoryFails>>

-----------------------------------------------------------------------------

Reserve ==
  \/ \E name \in Names : AutoReserve(name)
  \/ \E e \in EngineNames : EngineName(e[1], e[2])

Build == Initialize \/ LoadScriptFunctions \/ LoadGlueScriptFunctions \/ RebuildEventTable

Known == Names \cup {e[2] : e \in EngineNames} \cup {o[2] : o \in Others}

Lua == \E f \in Frames, name \in Known : RegisterEvent(f, name) \/ UnregisterEvent(f, name)

EventNext == Reserve \/ Build \/ OtherWrites \/ EngineRegisters \/ ForceEventGrow \/ Lua

EventSpec == EventInit /\ [][EventNext]_eventVars

-----------------------------------------------------------------------------

EventTypeOK ==
  /\ stage \in {"boot", "scripts", "loaded", "glueLoaded", "built"}
  /\ DOMAIN chains = DOMAIN table
  /\ \A id \in DOMAIN table : id \in Nat /\ chains[id] \subseteq Frames
  /\ watched \subseteq Watched \cup Ids(UnitMax) /\ spares \in 0..Spares
  /\ Len(reserved) <= MaxReserved
  /\ \A i \in DOMAIN reserved : reserved[i].slot \in Int /\ reserved[i].fixed \in Int
  /\ {writes, growLatched, forceGrow, memoryFails} \subseteq BOOLEAN
  /\ builds \in 0..MaxBuilds

(* A claimed slot of the live table bears the claimed name: Fire never reaches
   another event's listeners, across rebuilds, growth and other libraries. *)
ClaimsAreOurs ==
  \A i \in DOMAIN reserved :
    reserved[i].slot >= 0 /\ reserved[i].fixed < 0 =>
      /\ reserved[i].slot \in DOMAIN table
      /\ table[reserved[i].slot] = reserved[i].name

(* In the game's table, a frame that registered for a custom event is on the
   chain Fire, or the engine for an id it signals itself, walks for as long as
   the event has a slot.  A name that could not be copied at its registration
   and is claimed at a later one has no such chain. *)
SubscribersAreHeard ==
  \A i \in DOMAIN reserved, f \in Frames :
    /\ ~memoryFails /\ stage = "built" /\ writes
    /\ reserved[i].slot \in DOMAIN table /\ <<f, reserved[i].name>> \in asked
    => f \in chains[reserved[i].slot]

(* Growing moves the table only while nobody is subscribed: no list anchor in
   use changes its address. *)
LiveChainsDoNotMove ==
  [][stage = "built" /\ DOMAIN table' # DOMAIN table => ChainsEmpty]_eventVars

(* The room that the first registration of a build counts, and makes, is room its
   walk can claim: unless a chain was live or an allocation failed, it leaves no
   reservation without a slot, however many of the empty slots are ones the engine
   signals by number, unit fields are named at or other libraries have taken. *)
FirstRegistrationClaimsAll ==
  [][~growLatched /\ growLatched' /\ ChainsEmpty /\ ~memoryFails =>
       \A i \in DOMAIN reserved' : reserved'[i].slot >= 0]_eventVars

(* Within a build, a name once in the table stays where it is. *)
NamesStay ==
  [][stage = "built" /\ stage' = "built" =>
       \A id \in DOMAIN table :
         table[id] # NoName => id \in DOMAIN table' /\ table'[id] = table[id]]_eventVars

=============================================================================
