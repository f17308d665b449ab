---------------------------- MODULE EquipmentSets ----------------------------
(***************************************************************************)
(* The equipment sets of each character, kept in a file                    *)
(* (equipmentset/Data.cpp, Storage.cpp), and their buttons on the action   *)
(* bar (Action.cpp).                                                       *)
(*                                                                         *)
(* The library outlives a logout, so the sets in memory are those of the   *)
(* last character until another one's are asked for.  The server does not  *)
(* keep a set's button: it is told that the slot is empty, the slot is     *)
(* noted with the set, and at login the noted slots are merged into the    *)
(* buttons the server sends.                                               *)
(*                                                                         *)
(* A file that is not there reads like an empty one, and is not told from  *)
(* it.  What a set holds, its name and its icon are not told.              *)
(***************************************************************************)
EXTENDS Integers, FiniteSets, FiniteSetsExt, Functions

CONSTANTS
  Chars, NoChar,
  Slots,        \* of the action bar
  MaxSets,      \* bound: set IDs
  MaxTrouble    \* bound: crashes, failed saves and changes made elsewhere

Empty == 0
Spell == -1     \* any action that the server keeps
SetIDs == 1..MaxSets

ASSUME EquipmentSetsAssumption == NoChar \notin Chars /\ {MaxSets, MaxTrouble} \subseteq Nat

VARIABLES
  char,         \* the character in the world
  path,         \* g_path, g_loaded: whose sets are in memory
  sets,         \* g_sets: set ID -> [slots, owner]; the owner, who made it, is history
  file,         \* character -> what Load would read
  bar,          \* VAR_ACTION_TABLE
  cursor,       \* what it holds: nothing, a spell, or g_cursorSetID
  server,       \* character -> the buttons the server keeps
  left,         \* history: character -> the bar when it was last in the world
  spoiled,      \* history: characters whose file a crash or a failure has spoiled
  troubles      \* history

past == <<left, spoiled, troubles>>
vars == <<char, path, sets, file, bar, cursor, server, past>>

NoButtons == [slot \in Slots |-> Empty]
InWorld == char # NoChar

-----------------------------------------------------------------------------
(* Data and Storage. *)

(* Mutant: what is in memory is kept for good. *)
LoadedOnce(c) == IF path # NoChar THEN sets ELSE file[c]

(* EnsureLoaded, for character c: the sets then in memory. *)
Loaded(c) == IF path = c THEN sets ELSE file[c]

(* NextAvailableID *)
NextID == Max(DOMAIN sets \cup {0}) + 1

(* SetActionSlot: the slot belongs to setID, and to no other set. *)
WithActionSlot(all, slot, setID) ==
  [id \in DOMAIN all |-> [all[id] EXCEPT !.slots = IF id = setID THEN @ \cup {slot} ELSE @ \ {slot}]]

Without(all, slots) == [id \in DOMAIN all |-> [all[id] EXCEPT !.slots = @ \ slots]]

(* Persist: the file is written aside, removed and replaced.  Writing it may fail, and so may the
   replacement when the old file is gone. *)
Persist(c, all) ==
  \/ file' = [file EXCEPT ![c] = all] /\ spoiled' = spoiled \ {c} /\ UNCHANGED troubles
  \/ /\ troubles < MaxTrouble /\ troubles' = troubles + 1
     /\ \E kept \in {file[c], <<>>} : file' = [file EXCEPT ![c] = kept]
     /\ spoiled' = spoiled \cup {c}

(* Mutant: a change waits for a later one to be saved. *)
KeepUnsaved(all) == sets' = all /\ UNCHANGED <<file, past>>

Keep(all) == sets' = all /\ Persist(char, all) /\ UNCHANGED left

Create ==
  /\ InWorld /\ NextID \in SetIDs
  /\ Keep([id \in DOMAIN sets \cup {NextID} |->
             IF id = NextID THEN [slots |-> {}, owner |-> char] ELSE sets[id]])
  /\ UNCHANGED <<char, path, bar, cursor, server>>

(* Save or Rename of a set. *)
SaveExisting ==
  /\ InWorld /\ sets # <<>> /\ Keep(sets)
  /\ UNCHANGED <<char, path, bar, cursor, server>>

(* Mutant: the buttons of a deleted set stay. *)
ButtonsOfNone(setID) == {}

(* The slots ClearButtons empties. *)
ButtonsOf(setID) == {slot \in Slots : bar[slot] = setID}

(* Delete, and ClearButtons. *)
Delete ==
  /\ InWorld
  /\ \E id \in DOMAIN sets :
       /\ Keep(Restrict(Without(sets, ButtonsOf(id)), DOMAIN sets \ {id}))
       /\ bar' = [slot \in Slots |-> IF slot \in ButtonsOf(id) THEN Empty ELSE bar[slot]]
       /\ server' = [server EXCEPT ![char] = [slot \in Slots |-> IF slot \in ButtonsOf(id) THEN Empty ELSE @[slot]]]
  /\ UNCHANGED <<char, path, cursor>>

-----------------------------------------------------------------------------
(* Action.  The cursor takes up a set only while there is one. *)

OnCursor(entry) == IF entry \in SetIDs \ DOMAIN sets THEN Empty ELSE entry

(* What the server keeps once Notify_h has told it of an entry: a set's is sent as empty. *)
Told(slot, entry) ==
  [server EXCEPT ![char][slot] = IF entry \in SetIDs THEN Empty ELSE entry]

(* Notify_h, for an entry the player has written to a slot. *)
Notify(slot, entry) ==
  /\ bar' = [bar EXCEPT ![slot] = entry]
  /\ Keep(WithActionSlot(sets, slot, entry))
  /\ server' = Told(slot, entry)

(* Place_h: the cursor's set (PlaceSet), or the engine's spell, goes to the slot and what was
   there to the cursor. *)
Place(slot) ==
  IF cursor # OnCursor(cursor) \/ bar[slot] = cursor
  THEN cursor' = Empty /\ UNCHANGED <<bar, sets, file, server, past>>
  ELSE cursor' = OnCursor(bar[slot]) /\ Notify(slot, cursor)

(* Pickup_h, and UseAction_h with a loaded cursor. *)
PickupAction ==
  /\ InWorld
  /\ \E slot \in Slots :
       IF cursor # Empty THEN Place(slot)
       ELSE bar[slot] # Empty /\ cursor' = OnCursor(bar[slot]) /\ Notify(slot, Empty)
  /\ UNCHANGED <<char, path>>

(* PickupEquipmentSet, a spell taken from the book, and WorldButton_h or ClearCursor. *)
TakeUp ==
  /\ InWorld /\ cursor' \in DOMAIN sets \cup {Spell, Empty}
  /\ UNCHANGED <<char, path, sets, file, bar, server, past>>

-----------------------------------------------------------------------------
(* Sessions. *)

(* ActionButtons_h: the sets on slots that are empty at the server; the slots of the others are
   forgotten, and so are those that two sets claim. *)
Login ==
  /\ ~InWorld
  /\ \E c \in Chars :
       LET all == Loaded(c)
           claim(slot) == {id \in DOMAIN all : slot \in all[id].slots}
           stale == {slot \in Slots : claim(slot) # {} /\ (server[c][slot] # Empty \/ Cardinality(claim(slot)) > 1)}
       IN /\ char' = c /\ path' = c
          /\ bar' = [slot \in Slots |-> IF server[c][slot] = Empty /\ claim(slot) # {}
                                        THEN Min(claim(slot)) ELSE server[c][slot]]
          /\ sets' = Without(all, stale)
          /\ IF stale = {} THEN UNCHANGED <<file, spoiled, troubles>> ELSE Persist(c, sets')
  /\ UNCHANGED <<cursor, server, left>>

Leave == left' = [left EXCEPT ![char] = bar] /\ char' = NoChar /\ bar' = NoButtons /\ cursor' = Empty

Logout ==
  /\ InWorld /\ Leave
  /\ UNCHANGED <<path, sets, file, server, spoiled, troubles>>

(* The client crashes, perhaps while it saves: what was written aside is never read. *)
Crash ==
  /\ InWorld /\ troubles < MaxTrouble /\ troubles' = troubles + 1 /\ Leave
  /\ path' = NoChar /\ sets' = <<>>
  /\ \/ UNCHANGED <<file, spoiled>>
     \/ file' = [file EXCEPT ![char] = <<>>] /\ spoiled' = spoiled \cup {char}
  /\ UNCHANGED server

(* A character is played where the library is not installed. *)
PlayElsewhere ==
  /\ troubles < MaxTrouble /\ troubles' = troubles + 1
  /\ \E c \in Chars \ {char}, slot \in Slots, entry \in {Empty, Spell} :
       server' = [server EXCEPT ![c][slot] = entry]
  /\ UNCHANGED <<char, path, sets, file, bar, cursor, left, spoiled>>

-----------------------------------------------------------------------------
Init ==
  /\ char = NoChar /\ path = NoChar /\ sets = <<>>
  /\ file = [c \in Chars |-> <<>>]
  /\ bar = NoButtons /\ cursor = Empty /\ server = [c \in Chars |-> NoButtons]
  /\ left = [c \in Chars |-> NoButtons] /\ spoiled = {} /\ troubles = 0

Next ==
  \/ Create \/ SaveExisting \/ Delete
  \/ PickupAction \/ TakeUp
  \/ Login \/ Logout \/ Crash \/ PlayElsewhere

Spec == Init /\ [][Next]_vars

-----------------------------------------------------------------------------
SetsOf(f) ==
  /\ DOMAIN f \subseteq SetIDs
  /\ \A id \in DOMAIN f : f[id] \in [slots : SUBSET Slots, owner : Chars]

(* Everything in its range. *)
TypeOK ==
  /\ {char, path} \subseteq Chars \cup {NoChar}
  /\ SetsOf(sets) /\ \A c \in Chars : SetsOf(file[c])
  /\ bar \in [Slots -> {Empty, Spell} \cup SetIDs] /\ cursor \in {Empty, Spell} \cup SetIDs
  /\ server \in [Chars -> [Slots -> {Empty, Spell}]]

(* In the world, a slot of the bar shows a set exactly when the slot is noted with that set and no
   other, and the server keeps exactly the other buttons: a deleted set leaves no button, an
   overwritten one no note, and no button is kept on both sides or on neither. *)
BarIsKept ==
  InWorld =>
    \A slot \in Slots :
      /\ {id \in DOMAIN sets : slot \in sets[id].slots} = {bar[slot]} \cap SetIDs
      /\ server[char][slot] = IF bar[slot] \in SetIDs THEN Empty ELSE bar[slot]

(* A character finds the buttons that it left, through logouts, other characters and crashes:
   the server's, and where the server has none the sets that were there.  Only a save that went
   wrong, and was not made good by a later one, breaks this. *)
ButtonsComeBack ==
  [][\A c \in Chars :
       char = NoChar /\ char' = c /\ c \notin spoiled =>
         \A slot \in Slots :
           bar'[slot] = IF server[c][slot] = Empty /\ left[c][slot] \in SetIDs
                        THEN left[c][slot] ELSE server[c][slot]]_vars

(* What one character made is never kept in the file of another, nor shown to it, though the
   library and what it remembers outlive both sessions. *)
SetsStayWithTheirCharacter ==
  /\ \A c \in Chars : \A id \in DOMAIN file[c] : file[c][id].owner = c
  /\ InWorld => \A id \in DOMAIN sets : sets[id].owner = char
=============================================================================
