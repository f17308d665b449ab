-------------------------- MODULE EquipmentProofs --------------------------
(***************************************************************************)
(* Proofs about equipment sets.                                            *)
(*                                                                         *)
(* Sets and their buttons, for any characters, slots and sets.             *)
(*                                                                         *)
(* The use of a set, for any sets, slots, items, bags and bank: the moves  *)
(* planned against one snapshot lead, one by one, through arrangements     *)
(* that leave the other slots alone to the one the set wants, and none of  *)
(* them gets into the way of another.                                      *)
(***************************************************************************)
EXTENDS EquipmentSets, EquipmentSwap, FiniteSetTheorems, WellFoundedInduction,
        FoldLemmas, TLAPS

-----------------------------------------------------------------------------
(* Sets and buttons. *)

Claims(f, slot) == {id \in DOMAIN f : slot \in f[id].slots}

MadeBy(f, c) == \A id \in DOMAIN f : f[id].owner = c

ASet == [slots : SUBSET Slots, owner : Chars]

IsSets(f) == DOMAIN f \subseteq SetIDs /\ f \in [DOMAIN f -> ASet]

Entries == {Empty, Spell} \cup SetIDs

Types ==
  /\ {char, path} \subseteq Chars \cup {NoChar}
  /\ IsSets(sets) /\ DOMAIN file = Chars /\ \A c \in Chars : IsSets(file[c])
  /\ bar \in [Slots -> Entries] /\ cursor \in Entries
  /\ server \in [Chars -> [Slots -> {Empty, Spell}]]
  /\ left \in [Chars -> [Slots -> Entries]]

(* Whose the sets in memory and in the files are. *)
Owners ==
  /\ InWorld => path = char
  /\ path # NoChar => MadeBy(sets, path)
  /\ \A c \in Chars : MadeBy(file[c], c)

(* No slot is noted with two sets, in memory or in a file. *)
OneClaimIn(f) == \A slot \in Slots : \A i, j \in Claims(f, slot) : i = j

OneClaim == OneClaimIn(sets) /\ \A c \in Chars : OneClaimIn(file[c])

(* What is in memory of a character whose saves went well is in its file. *)
Saved == path # NoChar /\ path \notin spoiled => file[path] = sets

(* A character that is away has its notes as it left them. *)
NotesAreLeft ==
  \A c \in Chars \ ({char} \cup spoiled), slot \in Slots :
    Claims(Loaded(c), slot) = {left[c][slot]} \cap SetIDs

Inv == Types /\ Owners /\ OneClaim /\ Saved /\ NotesAreLeft /\ BarIsKept

-----------------------------------------------------------------------------
(* The operators. *)

LEMMA MinOfOne == ASSUME NEW x \in Int PROVE Min({x}) = x
  BY DEF Min

(* A set of IDs has a largest one, so that the next one is new. *)
LEMMA NextIsNew ==
  ASSUME DOMAIN sets \subseteq SetIDs
  PROVE  NextID \notin DOMAIN sets
<1> DEFINE S == DOMAIN sets \cup {0}
           gaps == {MaxSets - x : x \in S}
<1>1. S \subseteq Int /\ \A x \in S : x <= MaxSets
  BY EquipmentSetsAssumption DEF SetIDs
<1>2. gaps \subseteq Nat /\ gaps # {}
  BY <1>1, EquipmentSetsAssumption
<1>3. PICK m \in gaps : \A n \in gaps : ~(<<n, m>> \in OpToRel(<, Nat))
  <2> HIDE DEF gaps
  <2> QED BY <1>2, WFMin, NatLessThanWellFounded
<1>4. \A n \in gaps : m <= n
  <2> HIDE DEF gaps
  <2> SUFFICES ASSUME NEW n \in gaps, n < m PROVE FALSE
    BY <1>2
  <2>1. <<n, m>> \in OpToRel(<, Nat)
    BY <1>2 DEF OpToRel
  <2> QED BY <2>1, <1>3
<1>5. \E x \in S : \A y \in S : x >= y
  <2>1. PICK x \in S : m = MaxSets - x
    BY DEF gaps
  <2>2. ASSUME NEW y \in S PROVE x >= y
    <3>1. MaxSets - y \in gaps
      OBVIOUS
    <3>2. MaxSets - x <= MaxSets - y
      BY <3>1, <2>1, <1>4
    <3> HIDE DEF S
    <3> QED BY <3>2, <1>1, EquipmentSetsAssumption
  <2> QED BY <2>2
<1>6. PICK top : top = Max(S)
  OBVIOUS
<1>7. top \in S /\ \A x \in S : top >= x
  BY <1>5, <1>6 DEF Max
<1>8. NextID = top + 1
  BY <1>6 DEF NextID
<1> QED BY <1>1, <1>7, <1>8

LEMMA WithoutClaims ==
  ASSUME NEW f, IsSets(f), NEW S \in SUBSET Slots
  PROVE  /\ IsSets(Without(f, S)) /\ DOMAIN Without(f, S) = DOMAIN f
         /\ \A c \in Chars : MadeBy(f, c) => MadeBy(Without(f, S), c)
         /\ \A slot \in Slots : Claims(Without(f, S), slot) = IF slot \in S THEN {} ELSE Claims(f, slot)
         /\ S = {} => Without(f, S) = f
<1>1. \A id \in DOMAIN f : /\ Without(f, S)[id] \in ASet
                           /\ Without(f, S)[id].owner = f[id].owner
                           /\ Without(f, S)[id].slots = f[id].slots \ S
                           /\ S = {} => Without(f, S)[id] = f[id]
  BY DEF Without, IsSets, ASet
<1>2. DOMAIN Without(f, S) = DOMAIN f /\ Without(f, S) \in [DOMAIN f -> ASet]
  BY <1>1 DEF Without
<1>3. S = {} => Without(f, S) = f
  BY <1>1, <1>2 DEF IsSets
<1> QED BY <1>1, <1>2, <1>3 DEF IsSets, MadeBy, Claims

LEMMA WithActionSlotClaims ==
  ASSUME NEW f, IsSets(f), NEW s \in Slots, NEW entry
  PROVE  /\ IsSets(WithActionSlot(f, s, entry))
         /\ \A c \in Chars : MadeBy(f, c) => MadeBy(WithActionSlot(f, s, entry), c)
         /\ \A slot \in Slots : Claims(WithActionSlot(f, s, entry), slot) =
                                  IF slot = s THEN {entry} \cap DOMAIN f ELSE Claims(f, slot)
<1> DEFINE g == WithActionSlot(f, s, entry)
<1>1. \A id \in DOMAIN f : /\ g[id] \in ASet /\ g[id].owner = f[id].owner
                           /\ g[id].slots = IF id = entry THEN f[id].slots \cup {s} ELSE f[id].slots \ {s}
  BY DEF WithActionSlot, IsSets, ASet
<1>2. DOMAIN g = DOMAIN f /\ g \in [DOMAIN f -> ASet]
  BY <1>1 DEF WithActionSlot
<1> QED BY <1>1, <1>2 DEF IsSets, MadeBy, Claims

LEMMA EmptyIsSets ==
  IsSets(<<>>) /\ (\A c \in Chars : MadeBy(<<>>, c)) /\ OneClaimIn(<<>>)
<1>1. DOMAIN <<>> = {} /\ <<>> \in [{} -> ASet]
  OBVIOUS
<1> QED BY <1>1 DEF IsSets, MadeBy, OneClaimIn, Claims

-----------------------------------------------------------------------------
(* A save of c's sets touches no other file, and if c counts as saved it was. *)

LEMMA PersistFacts ==
  ASSUME DOMAIN file = Chars, NEW c \in Chars, NEW all, Persist(c, all)
  PROVE  /\ DOMAIN file' = Chars
         /\ \A d \in Chars \ {c} : file'[d] = file[d] /\ (d \in spoiled' <=> d \in spoiled)
         /\ file'[c] \in {all, file[c], <<>>}
         /\ c \notin spoiled' => file'[c] = all
<1>1. CASE file' = [file EXCEPT ![c] = all] /\ spoiled' = spoiled \ {c}
  BY <1>1
<1>2. CASE /\ \E kept \in {file[c], <<>>} : file' = [file EXCEPT ![c] = kept]
           /\ spoiled' = spoiled \cup {c}
  BY <1>2
<1> QED BY <1>1, <1>2 DEF Persist

(* The actions in the world keep a set of sets that agrees with the bar. *)
LEMMA KeepInv ==
  ASSUME Inv, InWorld, UNCHANGED <<char, path>>,
         NEW all, IsSets(all), MadeBy(all, char), Keep(all),
         bar' \in [Slots -> Entries], cursor' \in Entries,
         server' \in [Chars -> [Slots -> {Empty, Spell}]],
         \A slot \in Slots :
           /\ Claims(all, slot) = {bar'[slot]} \cap SetIDs
           /\ server'[char][slot] = IF bar'[slot] \in SetIDs THEN Empty ELSE bar'[slot]
  PROVE  Inv'
<1>1. /\ char \in Chars /\ char # NoChar /\ path = char /\ DOMAIN file = Chars
      /\ sets' = all /\ left' = left /\ char' = char /\ path' = char
  BY DEF Inv, Types, Owners, InWorld, Keep
<1>2. /\ DOMAIN file' = Chars
      /\ \A d \in Chars \ {char} : file'[d] = file[d] /\ (d \in spoiled' <=> d \in spoiled)
      /\ file'[char] \in {all, file[char], <<>>}
      /\ char \notin spoiled' => file'[char] = all
  BY <1>1, PersistFacts DEF Keep
<1>3. Types'
  BY <1>1, <1>2, EmptyIsSets DEF Inv, Types
<1>4. Owners'
  BY <1>1, <1>2, EmptyIsSets DEF Inv, Owners, InWorld
<1>5. OneClaimIn(all)
  BY DEF OneClaimIn
<1>6. OneClaim'
  BY <1>1, <1>2, <1>5, EmptyIsSets DEF Inv, OneClaim
<1>7. Saved'
  BY <1>1, <1>2 DEF Saved
<1>8. NotesAreLeft'
  <2> SUFFICES ASSUME NEW c \in Chars, c # char, c \notin spoiled', NEW slot \in Slots
               PROVE  Claims(Loaded(c)', slot) = {left[c][slot]} \cap SetIDs
    BY <1>1 DEF NotesAreLeft, Claims
  <2>1. c \notin spoiled /\ Loaded(c) = file[c] /\ Loaded(c)' = file[c]
    BY <1>1, <1>2 DEF Loaded
  <2>2. Claims(Loaded(c), slot) = {left[c][slot]} \cap SetIDs
    BY <2>1 DEF Inv, NotesAreLeft
  <2> QED BY <2>1, <2>2
<1>9. BarIsKept'
  BY <1>1 DEF BarIsKept, Claims
<1> QED BY <1>3, <1>4, <1>6, <1>7, <1>8, <1>9 DEF Inv

(* What holds in the world. *)
LEMMA InTheWorld ==
  ASSUME Inv, InWorld
  PROVE  /\ char \in Chars /\ IsSets(sets) /\ MadeBy(sets, char)
         /\ \A slot \in Slots :
              /\ Claims(sets, slot) = {bar[slot]} \cap SetIDs
              /\ server[char][slot] = IF bar[slot] \in SetIDs THEN Empty ELSE bar[slot]
<1>1. char \in Chars /\ IsSets(sets) /\ MadeBy(sets, char)
  BY DEF Inv, Types, Owners, InWorld
<1> QED BY <1>1 DEF Inv, BarIsKept, Claims

LEMMA CreateInv == ASSUME Inv, Create PROVE Inv'
<1> DEFINE all == [id \in DOMAIN sets \cup {NextID} |->
                    IF id = NextID THEN [slots |-> {}, owner |-> char] ELSE sets[id]]
<1>1. /\ InWorld /\ NextID \in SetIDs /\ Keep(all)
      /\ UNCHANGED <<char, path, bar, cursor, server>>
  BY DEF Create
<1>2. NextID \notin DOMAIN sets
  BY <1>1, InTheWorld, NextIsNew DEF IsSets
<1>3. /\ DOMAIN all = DOMAIN sets \cup {NextID}
      /\ all[NextID] = [slots |-> {}, owner |-> char]
      /\ \A id \in DOMAIN sets : all[id] = sets[id]
  BY <1>2
<1>4. all \in [DOMAIN all -> ASet]
  <2>1. \A id \in DOMAIN all : all[id] \in ASet
    BY <1>1, <1>3, InTheWorld DEF IsSets, ASet
  <2> QED BY <2>1
<1> HIDE DEF all
<1>5. IsSets(all) /\ MadeBy(all, char)
  BY <1>1, <1>3, <1>4, InTheWorld DEF IsSets, MadeBy
<1>6. \A slot \in Slots : Claims(all, slot) = Claims(sets, slot)
  BY <1>2, <1>3 DEF Claims
<1> QED BY <1>1, <1>5, <1>6, InTheWorld, KeepInv DEF Inv, Types

LEMMA SaveExistingInv == ASSUME Inv, SaveExisting PROVE Inv'
<1>1. InWorld /\ Keep(sets) /\ UNCHANGED <<char, path, bar, cursor, server>>
  BY DEF SaveExisting
<1> QED BY <1>1, InTheWorld, KeepInv DEF Inv, Types

LEMMA DeleteInv == ASSUME Inv, Delete PROVE Inv'
<1>1. InWorld /\ UNCHANGED <<char, path, cursor>>
  BY DEF Delete
<1>2. PICK id \in DOMAIN sets :
        /\ Keep(Restrict(Without(sets, ButtonsOf(id)), DOMAIN sets \ {id}))
        /\ bar' = [slot \in Slots |-> IF slot \in ButtonsOf(id) THEN Empty ELSE bar[slot]]
        /\ server' = [server EXCEPT ![char] = [slot \in Slots |-> IF slot \in ButtonsOf(id) THEN Empty ELSE @[slot]]]
  BY DEF Delete
<1> DEFINE rest == Without(sets, ButtonsOf(id))
           all == Restrict(rest, DOMAIN sets \ {id})
<1>3. /\ IsSets(rest) /\ DOMAIN rest = DOMAIN sets /\ MadeBy(rest, char)
      /\ \A slot \in Slots : Claims(rest, slot) = IF slot \in ButtonsOf(id) THEN {} ELSE Claims(sets, slot)
  <2>1. ButtonsOf(id) \in SUBSET Slots
    BY DEF ButtonsOf
  <2> QED BY <1>1, <2>1, InTheWorld, WithoutClaims
<1> HIDE DEF rest
<1>4. DOMAIN all = DOMAIN rest \ {id} /\ \A i \in DOMAIN all : all[i] = rest[i]
  BY <1>3 DEF Restrict
<1>5. all \in [DOMAIN all -> ASet]
  BY <1>3, <1>4 DEF Restrict, IsSets
<1>6. Keep(all)
  BY <1>2 DEF rest
<1> HIDE DEF all
<1>7. IsSets(all) /\ MadeBy(all, char)
  BY <1>3, <1>4, <1>5 DEF IsSets, MadeBy
<1>8. id \in SetIDs
  BY <1>1, InTheWorld DEF IsSets
<1>9. \A slot \in Slots : Claims(all, slot) = {bar'[slot]} \cap SetIDs
  <2> SUFFICES ASSUME NEW slot \in Slots PROVE Claims(all, slot) = {bar'[slot]} \cap SetIDs
    OBVIOUS
  <2>1. Claims(all, slot) = Claims(rest, slot) \ {id}
    BY <1>4 DEF Claims
  <2>2. Claims(sets, slot) = {bar[slot]} \cap SetIDs
    BY <1>1, InTheWorld
  <2>3. slot \in ButtonsOf(id) <=> bar[slot] = id
    BY DEF ButtonsOf
  <2>4. Empty \notin SetIDs
    BY DEF Empty, SetIDs
  <2> QED BY <1>2, <1>3, <2>1, <2>2, <2>3, <2>4
<1>10. /\ bar' \in [Slots -> Entries] /\ server' \in [Chars -> [Slots -> {Empty, Spell}]]
  BY <1>1, <1>2, InTheWorld DEF Inv, Types, Entries
<1>11. \A slot \in Slots : server'[char][slot] = IF bar'[slot] \in SetIDs THEN Empty ELSE bar'[slot]
  <2>1. \A slot \in Slots : server'[char][slot] = IF slot \in ButtonsOf(id) THEN Empty ELSE server[char][slot]
    BY <1>1, <1>2, InTheWorld DEF Inv, Types
  <2>2. Empty \notin SetIDs
    BY DEF Empty, SetIDs
  <2> QED BY <1>1, <1>2, <2>1, <2>2, InTheWorld
<1> QED BY <1>1, <1>6, <1>7, <1>9, <1>10, <1>11, KeepInv DEF Inv, Types

(* An entry is written to a slot of the bar. *)
LEMMA NotifyInv ==
  ASSUME Inv, InWorld, NEW s \in Slots, NEW entry \in DOMAIN sets \cup {Spell, Empty},
         Notify(s, entry), cursor' \in Entries, UNCHANGED <<char, path>>
  PROVE  Inv'
<1> DEFINE all == WithActionSlot(sets, s, entry)
<1>1. /\ bar' = [bar EXCEPT ![s] = entry] /\ Keep(all)
      /\ server' = [server EXCEPT ![char][s] = IF entry \in SetIDs THEN Empty ELSE entry]
  BY DEF Notify, Told
<1>2. /\ IsSets(all) /\ MadeBy(all, char)
      /\ \A slot \in Slots : Claims(all, slot) = IF slot = s THEN {entry} \cap DOMAIN sets ELSE Claims(sets, slot)
  BY InTheWorld, WithActionSlotClaims
<1> HIDE DEF all
<1>3. {Empty, Spell} \cap SetIDs = {} /\ DOMAIN sets \subseteq SetIDs
  BY InTheWorld DEF Empty, Spell, SetIDs, IsSets
<1>4. bar' \in [Slots -> Entries] /\ server' \in [Chars -> [Slots -> {Empty, Spell}]]
  BY <1>1, <1>3, InTheWorld DEF Inv, Types, Entries
<1>5. \A slot \in Slots : Claims(all, slot) = {bar'[slot]} \cap SetIDs
  <2>1. {entry} \cap DOMAIN sets = {entry} \cap SetIDs
    BY <1>3
  <2>2. \A slot \in Slots : bar'[slot] = IF slot = s THEN entry ELSE bar[slot]
    BY <1>1 DEF Inv, Types
  <2> QED BY <1>2, <2>1, <2>2, InTheWorld
<1>6. \A slot \in Slots : server'[char][slot] = IF bar'[slot] \in SetIDs THEN Empty ELSE bar'[slot]
  <2>1. \A slot \in Slots : bar'[slot] = IF slot = s THEN entry ELSE bar[slot]
    BY <1>1 DEF Inv, Types
  <2>2. \A slot \in Slots : server'[char][slot] =
          IF slot = s THEN IF entry \in SetIDs THEN Empty ELSE entry ELSE server[char][slot]
    BY <1>1, InTheWorld DEF Inv, Types
  <2> QED BY <2>1, <2>2, InTheWorld
<1> QED BY <1>1, <1>2, <1>4, <1>5, <1>6, KeepInv

LEMMA PickupActionInv == ASSUME Inv, PickupAction PROVE Inv'
<1>1. InWorld /\ UNCHANGED <<char, path>>
  BY DEF PickupAction
<1>2. \A entry \in Entries : OnCursor(entry) \in Entries \cap (DOMAIN sets \cup {Spell, Empty})
  BY DEF OnCursor, Entries
<1>3. PICK slot \in Slots :
        IF cursor # Empty THEN Place(slot)
        ELSE bar[slot] # Empty /\ cursor' = OnCursor(bar[slot]) /\ Notify(slot, Empty)
  BY DEF PickupAction
<1>4. bar[slot] \in Entries /\ cursor \in Entries
  BY DEF Inv, Types
<1>5. CASE cursor # Empty /\ (cursor # OnCursor(cursor) \/ bar[slot] = cursor)
  <2>1. cursor' = Empty /\ UNCHANGED <<char, path, bar, sets, file, server, past>>
    BY <1>1, <1>3, <1>5 DEF Place
  <2> QED BY <2>1 DEF past, Inv, Types, Owners, OneClaim, Saved, NotesAreLeft, BarIsKept, Loaded, InWorld, Entries
<1>6. CASE cursor # Empty /\ ~(cursor # OnCursor(cursor) \/ bar[slot] = cursor)
  <2>1. cursor' = OnCursor(bar[slot]) /\ Notify(slot, cursor)
    BY <1>3, <1>6 DEF Place
  <2>2. cursor \in DOMAIN sets \cup {Spell, Empty}
    BY <1>2, <1>4, <1>6
  <2> QED BY <1>1, <1>2, <1>4, <2>1, <2>2, NotifyInv
<1>7. CASE cursor = Empty
  BY <1>1, <1>2, <1>3, <1>4, <1>7, NotifyInv
<1> QED BY <1>5, <1>6, <1>7

LEMMA TakeUpInv == ASSUME Inv, TakeUp PROVE Inv'
<1>1. /\ InWorld /\ cursor' \in DOMAIN sets \cup {Spell, Empty}
      /\ UNCHANGED <<char, path, sets, file, bar, server, past>>
  BY DEF TakeUp
<1>2. cursor' \in Entries
  BY <1>1, InTheWorld DEF Entries, IsSets
<1> QED BY <1>1, <1>2 DEF past, Inv, Types, Owners, OneClaim, Saved, NotesAreLeft, BarIsKept, Loaded, InWorld

-----------------------------------------------------------------------------
(* Sessions. *)

LEMMA LogoutInv == ASSUME Inv, Logout PROVE Inv'
<1>1. /\ InWorld /\ left' = [left EXCEPT ![char] = bar] /\ char' = NoChar /\ bar' = NoButtons /\ cursor' = Empty
      /\ UNCHANGED <<path, sets, file, server, spoiled>>
  BY DEF Logout, Leave
<1>2. Types'
  BY <1>1, InTheWorld DEF Inv, Types, NoButtons, Entries
<1>3. NotesAreLeft'
  <2> SUFFICES ASSUME NEW c \in Chars \ spoiled, NEW slot \in Slots
               PROVE  Claims(Loaded(c), slot) = {left'[c][slot]} \cap SetIDs
    BY <1>1 DEF NotesAreLeft, Loaded
  <2>1. CASE c = char
    <3>1. Loaded(c) = sets /\ left'[c] = bar
      BY <1>1, <2>1 DEF Inv, Owners, Loaded, Types
    <3> QED BY <1>1, <3>1, InTheWorld
  <2>2. CASE c # char
    BY <1>1, <2>2 DEF Inv, NotesAreLeft, Types
  <2> QED BY <2>1, <2>2
<1> QED BY <1>1, <1>2, <1>3 DEF Inv, Owners, OneClaim, Saved, BarIsKept, InWorld

LEMMA CrashInv == ASSUME Inv, Crash PROVE Inv'
<1>1. /\ InWorld /\ left' = [left EXCEPT ![char] = bar] /\ char' = NoChar /\ bar' = NoButtons /\ cursor' = Empty
      /\ path' = NoChar /\ sets' = <<>> /\ UNCHANGED server
  BY DEF Crash, Leave
<1>2. DOMAIN file = Chars /\ char \in Chars
  BY <1>1, InTheWorld DEF Inv, Types
<1>3. /\ DOMAIN file' = Chars /\ \A c \in Chars \ {char} : file'[c] = file[c]
      /\ file'[char] \in {file[char], <<>>}
      /\ \A c \in Chars \ spoiled' : c \notin spoiled /\ file'[c] = file[c]
  BY <1>2 DEF Crash
<1>4. Types'
  BY <1>1, <1>2, <1>3, EmptyIsSets DEF Inv, Types, NoButtons, Entries
<1>5. Owners' /\ OneClaim'
  BY <1>1, <1>2, <1>3, EmptyIsSets DEF Inv, Owners, OneClaim, InWorld
<1>6. NotesAreLeft'
  <2> SUFFICES ASSUME NEW c \in Chars \ spoiled', NEW slot \in Slots
               PROVE  Claims(file'[c], slot) = {left'[c][slot]} \cap SetIDs
    BY <1>1, EquipmentSetsAssumption DEF NotesAreLeft, Loaded
  <2>1. file'[c] = file[c] /\ c \notin spoiled
    BY <1>3
  <2>2. CASE c = char
    <3>1. file[c] = sets /\ left'[c] = bar
      BY <1>1, <1>2, <2>1, <2>2 DEF Inv, Owners, Saved, Types, InWorld
    <3> QED BY <1>1, <2>1, <3>1, InTheWorld
  <2>3. CASE c # char
    BY <1>1, <2>1, <2>3 DEF Inv, NotesAreLeft, Types, Loaded, Owners
  <2> QED BY <2>2, <2>3
<1> QED BY <1>1, <1>4, <1>5, <1>6 DEF Inv, Saved, BarIsKept, InWorld

LEMMA PlayElsewhereInv == ASSUME Inv, PlayElsewhere PROVE Inv'
<1>1. UNCHANGED <<char, path, sets, file, bar, cursor, left, spoiled>>
  BY DEF PlayElsewhere
<1>2. PICK c \in Chars \ {char}, slot \in Slots, entry \in {Empty, Spell} :
        server' = [server EXCEPT ![c][slot] = entry]
  BY DEF PlayElsewhere
<1>3. server' \in [Chars -> [Slots -> {Empty, Spell}]] /\ server'[char] = server[char]
  BY <1>2 DEF Inv, Types
<1> QED BY <1>1, <1>3 DEF Inv, Types, Owners, OneClaim, Saved, NotesAreLeft, BarIsKept, Loaded, InWorld

(* A login shows the noted sets where the server has nothing, and forgets the other notes. *)
LEMMA LoginInv ==
  ASSUME Inv, Login
  PROVE  /\ Inv'
         /\ \A c \in Chars : char' = c /\ c \notin spoiled =>
              \A slot \in Slots :
                bar'[slot] = IF server[c][slot] = Empty /\ left[c][slot] \in SetIDs
                             THEN left[c][slot] ELSE server[c][slot]
<1>1. ~InWorld /\ UNCHANGED <<cursor, server, left>>
  BY DEF Login
<1> DEFINE all(c) == Loaded(c)
           stale(c) == {slot \in Slots : /\ Claims(all(c), slot) # {}
                                         /\ server[c][slot] # Empty \/ Cardinality(Claims(all(c), slot)) > 1}
<1>2. PICK c \in Chars :
        /\ char' = c /\ path' = c
        /\ bar' = [slot \in Slots |-> IF server[c][slot] = Empty /\ Claims(all(c), slot) # {}
                                      THEN Min(Claims(all(c), slot)) ELSE server[c][slot]]
        /\ sets' = Without(all(c), stale(c))
        /\ IF stale(c) = {} THEN UNCHANGED <<file, spoiled, troubles>> ELSE Persist(c, sets')
  BY DEF Login, Claims
<1>3. c # NoChar /\ IsSets(all(c)) /\ MadeBy(all(c), c) /\ OneClaimIn(all(c))
  BY EquipmentSetsAssumption DEF Inv, Types, Owners, OneClaim, Loaded
<1> DEFINE notes == all(c)
           gone == stale(c)
<1>4. \A slot \in Slots : Claims(notes, slot) = {} \/ \E id \in SetIDs : Claims(notes, slot) = {id}
  BY <1>3 DEF OneClaimIn, IsSets, Claims
<1>5. gone = {slot \in Slots : Claims(notes, slot) # {} /\ server[c][slot] # Empty}
  <2>1. \A slot \in Slots : ~(Cardinality(Claims(notes, slot)) > 1)
    <3>1. Cardinality({}) = 0 /\ \A x : Cardinality({x}) = 1
      BY FS_EmptySet, FS_Singleton
    <3> HIDE DEF notes
    <3> SUFFICES ASSUME NEW slot \in Slots PROVE Cardinality(Claims(notes, slot)) \in {0, 1}
      OBVIOUS
    <3>2. CASE Claims(notes, slot) = {}
      BY <3>1, <3>2
    <3>3. CASE \E id \in SetIDs : Claims(notes, slot) = {id}
      BY <3>1, <3>3
    <3> QED BY <1>4, <3>2, <3>3
  <2> QED BY <2>1
<1>6. \A slot \in Slots :
        bar'[slot] = IF server[c][slot] = Empty /\ Claims(notes, slot) # {}
                     THEN Min(Claims(notes, slot)) ELSE server[c][slot]
  BY <1>2
<1>7. sets' = Without(notes, gone)
  BY <1>2
<1>8. IF gone = {} THEN UNCHANGED <<file, spoiled, troubles>> ELSE Persist(c, sets')
  BY <1>2
<1>9. notes = Loaded(c) /\ IsSets(notes) /\ MadeBy(notes, c)
  BY <1>3
<1> HIDE DEF notes, gone
<1>10. \A id \in SetIDs : Min({id}) = id /\ id \notin {Empty, Spell}
  BY MinOfOne DEF SetIDs, Empty, Spell
<1>11. server \in [Chars -> [Slots -> {Empty, Spell}]]
  BY DEF Inv, Types
<1>12. \A slot \in Slots :
         /\ bar'[slot] \in Entries
         /\ IF server[c][slot] = Empty
            THEN /\ Claims(notes, slot) = {bar'[slot]} \cap SetIDs
                 /\ bar'[slot] \notin SetIDs => bar'[slot] = Empty
            ELSE bar'[slot] = server[c][slot] /\ bar'[slot] \notin SetIDs
  <2> SUFFICES ASSUME NEW slot \in Slots
               PROVE /\ bar'[slot] \in Entries
                     /\ IF server[c][slot] = Empty
                        THEN /\ Claims(notes, slot) = {bar'[slot]} \cap SetIDs
                             /\ bar'[slot] \notin SetIDs => bar'[slot] = Empty
                        ELSE bar'[slot] = server[c][slot] /\ bar'[slot] \notin SetIDs
    OBVIOUS
  <2>1. server[c][slot] \in {Empty, Spell}
    BY <1>11
  <2>2. CASE server[c][slot] # Empty \/ Claims(notes, slot) = {}
    BY <1>6, <1>10, <2>1, <2>2 DEF Entries
  <2>3. CASE server[c][slot] = Empty /\ Claims(notes, slot) # {}
    <3>1. PICK id \in SetIDs : Claims(notes, slot) = {id}
      BY <1>4, <2>3
    <3>2. bar'[slot] = id
      BY <1>6, <1>10, <2>3, <3>1
    <3> QED BY <2>3, <3>1, <3>2 DEF Entries
  <2> QED BY <2>2, <2>3
<1>13. gone \in SUBSET Slots
  BY <1>5
<1>14. /\ IsSets(sets') /\ MadeBy(sets', c)
       /\ gone = {} => sets' = notes
       /\ \A slot \in Slots : Claims(sets', slot) = IF slot \in gone THEN {} ELSE Claims(notes, slot)
  BY <1>7, <1>9, <1>13, WithoutClaims
<1>15. \A slot \in Slots : Claims(sets', slot) = {bar'[slot]} \cap SetIDs
  BY <1>5, <1>12, <1>14
<1>16. /\ DOMAIN file' = Chars
       /\ \A d \in Chars \ {c} : file'[d] = file[d] /\ (d \in spoiled' <=> d \in spoiled)
       /\ file'[c] \in {sets', file[c], <<>>}
       /\ c \notin spoiled' => file'[c] = sets'
  <2>1. DOMAIN file = Chars
    BY DEF Inv, Types
  <2>2. CASE gone = {}
    <3>1. sets' = notes /\ UNCHANGED <<file, spoiled>>
      BY <1>8, <1>14, <2>2
    <3>2. c \notin spoiled => file[c] = notes
      BY <1>3, <1>9 DEF Inv, Saved, Loaded
    <3> QED BY <2>1, <3>1, <3>2
  <2>3. CASE gone # {}
    BY <1>8, <2>1, <2>3, PersistFacts
  <2> QED BY <2>2, <2>3
<1>17. Types'
  <2>1. bar' \in [Slots -> Entries]
    BY <1>2, <1>12
  <2> QED BY <1>1, <1>2, <1>14, <1>16, <2>1, EmptyIsSets DEF Inv, Types
<1>18. Owners'
  BY <1>2, <1>3, <1>14, <1>16, EmptyIsSets DEF Inv, Owners, InWorld
<1>19. OneClaim'
  <2>1. OneClaimIn(sets')
    BY <1>15 DEF OneClaimIn
  <2> QED BY <1>16, <2>1, EmptyIsSets DEF Inv, OneClaim
<1>20. Saved'
  BY <1>2, <1>16 DEF Saved
<1>21. NotesAreLeft'
  <2> SUFFICES ASSUME NEW d \in Chars \ ({c} \cup spoiled'), NEW slot \in Slots
               PROVE  Claims(file'[d], slot) = {left[d][slot]} \cap SetIDs
    BY <1>1, <1>2 DEF NotesAreLeft, Loaded
  <2>1. d \notin spoiled /\ d # char /\ file'[d] = file[d]
    BY <1>1, <1>16, EquipmentSetsAssumption DEF InWorld
  <2>2. file[d] = Loaded(d)
    BY <2>1, EquipmentSetsAssumption DEF Inv, Saved, Loaded
  <2> QED BY <2>1, <2>2 DEF Inv, NotesAreLeft
<1>22. BarIsKept'
  <2>1. \A slot \in Slots : server'[c][slot] = IF bar'[slot] \in SetIDs THEN Empty ELSE bar'[slot]
    BY <1>1, <1>12
  <2> QED BY <1>2, <1>15, <2>1 DEF BarIsKept, Claims
<1>23. ASSUME c \notin spoiled, NEW slot \in Slots
       PROVE  bar'[slot] = IF server[c][slot] = Empty /\ left[c][slot] \in SetIDs
                           THEN left[c][slot] ELSE server[c][slot]
  <2>1. c # char
    BY <1>1, <1>3 DEF InWorld
  <2>2. Claims(notes, slot) = {left[c][slot]} \cap SetIDs
    BY <1>9, <1>23, <2>1 DEF Inv, NotesAreLeft
  <2> QED BY <1>6, <1>10, <2>2
<1> QED BY <1>2, <1>17, <1>18, <1>19, <1>20, <1>21, <1>22, <1>23 DEF Inv

-----------------------------------------------------------------------------
LEMMA InitInv == Init => Inv
<1> SUFFICES ASSUME Init PROVE Inv
  OBVIOUS
<1>1. Types
  BY EmptyIsSets DEF Init, Types, NoButtons, Entries
<1>2. Owners /\ OneClaim
  BY EmptyIsSets, EquipmentSetsAssumption DEF Init, Owners, OneClaim, InWorld
<1>3. NotesAreLeft
  <2>1. Empty \notin SetIDs
    BY DEF Empty, SetIDs
  <2>2. \A slot \in Slots : Claims(<<>>, slot) = {}
    BY DEF Claims
  <2> QED BY <2>1, <2>2 DEF Init, NotesAreLeft, Loaded, NoButtons
<1>4. Saved /\ BarIsKept
  BY DEF Init, Saved, BarIsKept, InWorld
<1> QED BY <1>1, <1>2, <1>3, <1>4 DEF Inv

LEMMA StepInv == Inv /\ [Next]_vars => Inv'
<1> SUFFICES ASSUME Inv, [Next]_vars PROVE Inv'
  OBVIOUS
<1>1. CASE UNCHANGED vars
  BY <1>1 DEF vars, past, Inv, Types, Owners, OneClaim, Saved, NotesAreLeft, BarIsKept, Loaded, InWorld
<1> QED
  BY <1>1, CreateInv, SaveExistingInv, DeleteInv, PickupActionInv, TakeUpInv, LoginInv, LogoutInv,
     CrashInv, PlayElsewhereInv DEF Next

LEMMA Invariance == Spec => []Inv
  BY InitInv, StepInv, PTL DEF Spec

(* Sets in memory, files, bar, cursor and the server's buttons keep their types. *)
THEOREM TypeCorrect == Spec => []TypeOK
<1>1. Inv => TypeOK
  BY DEF Inv, Types, TypeOK, IsSets, SetsOf, ASet, Entries
<1> QED BY <1>1, Invariance, PTL

(* A slot of the bar shows a set exactly when it is noted with that set and no
   other, and the server keeps exactly the other buttons. *)
THEOREM BarStaysKept == Spec => []BarIsKept
<1>1. Inv => BarIsKept
  BY DEF Inv
<1> QED BY <1>1, Invariance, PTL

(* What one character made is never kept in the file of another, nor shown to
   it. *)
THEOREM SetsDoStayWithTheirCharacter == Spec => []SetsStayWithTheirCharacter
<1>1. Inv => SetsStayWithTheirCharacter
  <2> SUFFICES ASSUME Inv PROVE SetsStayWithTheirCharacter
    OBVIOUS
  <2>1. \A c \in Chars : MadeBy(file[c], c)
    BY DEF Inv, Owners
  <2>2. InWorld => MadeBy(sets, char)
    BY InTheWorld
  <2> QED BY <2>1, <2>2 DEF SetsStayWithTheirCharacter, MadeBy
<1> QED BY <1>1, Invariance, PTL

(* A character whose saves went well finds the buttons it left: the server's,
   and where the server has none the sets that were there. *)
THEOREM ButtonsDoComeBack == Spec => ButtonsComeBack
<1> DEFINE CameBack ==
      \A c \in Chars :
        char = NoChar /\ char' = c /\ c \notin spoiled =>
          \A slot \in Slots :
            bar'[slot] = IF server[c][slot] = Empty /\ left[c][slot] \in SetIDs
                         THEN left[c][slot] ELSE server[c][slot]
<1>1. Inv /\ [Next]_vars => [CameBack]_vars
  <2> SUFFICES ASSUME Inv, [Next]_vars, NEW c \in Chars, char = NoChar, char' = c PROVE Login
    BY LoginInv
  <2>1. c # NoChar
    BY EquipmentSetsAssumption
  <2> QED BY <2>1 DEF Next, vars, InWorld, Create, SaveExisting, Delete, PickupAction, TakeUp, Logout,
                      Crash, PlayElsewhere
<1>2. Spec => [][CameBack]_vars
  BY <1>1, Invariance, PTL DEF Spec
<1> QED BY <1>2 DEF ButtonsComeBack

-----------------------------------------------------------------------------
(* The use of a set. *)

Things == Items \cup {None}
Moves == [src : Places, dst : Places]

(* Where items can be taken from and put just now. *)
Open == {p \in Places : Reachable(p)}

(* Swaps and what Accept makes of it, from any arrangement a, where the places R are open. *)
CanSwap(a, m, R) ==
  /\ a[m.src] # None /\ m.src \in R /\ m.dst \in R
  /\ MayLie(a[m.src], m.dst) /\ MayLie(a[m.dst], m.src)
Swapped(a, m) == [a EXCEPT ![m.src] = a[m.dst], ![m.dst] = a[m.src]]

(* OthersAreLeftAlone of an arrangement, when b was worn. *)
LeftAlone(a, b, want) ==
  \A i \in WornSlots \ DOMAIN want : a[i] = b[i] \/ b[i] \in Range(want)

(* The arrangements that the moves w lead through.  None of them is refused, some slot of H
   is not as it should be before each, and the others are left alone throughout. *)
Way(run, w, b, want, H, R) ==
  /\ run \in [0..Len(w) -> Wearable]
  /\ \A k \in 1..Len(w) : /\ CanSwap(run[k - 1], w[k], R) /\ run[k] = Swapped(run[k - 1], w[k])
                          /\ \E i \in H : run[k - 1][i] # want[i]
  /\ \A k \in 0..Len(w) : LeftAlone(run[k], b, want)

Leads(a, w, z, b, want, H, R) ==
  \E run : Way(run, w, b, want, H, R) /\ run[0] = a /\ run[Len(w)] = z

-----------------------------------------------------------------------------
LEMMA PlacesAre ==
  ASSUME EquipmentSwapAssumption
  PROVE  /\ IsFiniteSet(Places) /\ SlotCount \in Nat /\ WornSlots = 1..SlotCount
         /\ Bags \subseteq Nat /\ None \notin Items
         /\ \A p \in Bags \cup Bank : p \in Places /\ p \notin WornSlots
         /\ \A p \in Bags : p \notin Bank
         /\ \A p \in WornSlots : p \notin Bank /\ p \notin Bags /\ p \in Places
<1>1. IsFiniteSet(WornSlots) /\ IsFiniteSet(Bags \cup Bank)
  <2>1. SlotCount \in Int /\ 1 \in Int /\ IsFiniteSet(Bags \cup Bank)
    BY DEF EquipmentSwapAssumption
  <2>2. IsFiniteSet(1..SlotCount)
    BY <2>1, FS_Interval
  <2> QED BY <2>1, <2>2 DEF WornSlots
<1>2. Places = WornSlots \cup (Bags \cup Bank)
  BY DEF Places
<1>3. IsFiniteSet(Places)
  BY <1>1, <1>2, FS_Union
<1> QED BY <1>3 DEF EquipmentSwapAssumption, WornSlots, Places

LEMMA WearableIs ==
  ASSUME EquipmentSwapAssumption, NEW a \in Wearable
  PROVE  /\ a \in [Places -> Things]
         /\ \A p \in Places : MayLie(a[p], p)
         /\ \A p, q \in Places : a[p] \in Items /\ a[p] = a[q] => p = q
         /\ \A i \in Items : \E p \in Places : a[p] = i
<1>1. ASSUME NEW i \in Items
      PROVE  \E x \in Places : a[x] = i /\ \A y \in Places : a[y] = i => y = x
  <2> DEFINE S == {p \in Places : a[p] = i}
  <2>1. IsFiniteSet(S) /\ Cardinality(S) = 1
    BY PlacesAre, FS_Subset DEF Wearable
  <2>2. PICK x : S = {x}
    <3> HIDE DEF S
    <3> QED BY <2>1, FS_Singleton
  <2>3. x \in Places /\ a[x] = i /\ \A y \in Places : a[y] = i => y = x
    BY <2>2
  <2> QED BY <2>3
<1>2. a \in [Places -> Things] /\ \A p \in Places : MayLie(a[p], p)
  BY DEF Wearable, Things
<1>3. ASSUME NEW p \in Places, NEW q \in Places, a[p] \in Items, a[p] = a[q]
      PROVE  p = q
  BY <1>1, <1>3
<1> QED BY <1>1, <1>2, <1>3

LEMMA WearableForm ==
  ASSUME EquipmentSwapAssumption, NEW a \in [Places -> Things],
         \A p \in Places : MayLie(a[p], p),
         \A p, q \in Places : a[p] \in Items /\ a[p] = a[q] => p = q,
         \A i \in Items : \E p \in Places : a[p] = i
  PROVE  a \in Wearable
<1>1. ASSUME NEW i \in Items PROVE Cardinality({p \in Places : a[p] = i}) = 1
  <2>1. PICK x \in Places : a[x] = i
    OBVIOUS
  <2>2. {p \in Places : a[p] = i} = {x}
    BY <2>1
  <2> QED BY <2>2, FS_Singleton
<1> QED BY <1>1 DEF Wearable, Things

(* A swap keeps every item in one place. *)
LEMMA SwappedIs ==
  ASSUME EquipmentSwapAssumption, NEW R, NEW a \in Wearable, NEW m \in Moves, CanSwap(a, m, R)
  PROVE  /\ Swapped(a, m) \in Wearable
         /\ \A p \in Places : Swapped(a, m)[p] =
              IF p = m.dst THEN a[m.src] ELSE IF p = m.src THEN a[m.dst] ELSE a[p]
<1> DEFINE c == Swapped(a, m)
<1>1. a \in [Places -> Things] /\ m.src \in Places /\ m.dst \in Places
  BY WearableIs DEF Moves
<1>2. c \in [Places -> Things] /\ \A p \in Places : c[p] =
              IF p = m.dst THEN a[m.src] ELSE IF p = m.src THEN a[m.dst] ELSE a[p]
  BY <1>1 DEF Swapped
<1> HIDE DEF c
<1>3. \A p \in Places : MayLie(c[p], p)
  <2>1. MayLie(a[m.src], m.dst) /\ MayLie(a[m.dst], m.src) /\ \A p \in Places : MayLie(a[p], p)
    BY WearableIs DEF CanSwap
  <2> QED BY <1>2, <2>1
<1>4. \A p, q \in Places : c[p] \in Items /\ c[p] = c[q] => p = q
  <2>1. \A p, q \in Places : a[p] \in Items /\ a[p] = a[q] => p = q
    BY WearableIs
  <2> QED BY <1>1, <1>2, <2>1
<1>5. ASSUME NEW i \in Items PROVE \E p \in Places : c[p] = i
  <2>1. PICK x \in Places : a[x] = i
    BY WearableIs
  <2>2. CASE x = m.src BY <1>1, <1>2, <2>1, <2>2
  <2>3. CASE x = m.dst /\ x # m.src BY <1>1, <1>2, <2>1, <2>3
  <2>4. CASE x # m.dst /\ x # m.src BY <1>1, <1>2, <2>1, <2>4
  <2> QED BY <2>2, <2>3, <2>4
<1>6. c \in Wearable
  BY <1>2, <1>3, <1>4, <1>5, WearableForm
<1> QED BY <1>2, <1>6 DEF c

-----------------------------------------------------------------------------
(* Ways, made longer and shorter. *)

LEMMA LeadsNowhere ==
  ASSUME NEW a \in Wearable, NEW b, NEW want, NEW H, NEW R, LeftAlone(a, b, want)
  PROVE  Leads(a, <<>>, a, b, want, H, R)
<1> DEFINE run == [k \in 0..0 |-> a]
<1>1. /\ run \in [0..0 -> Wearable] /\ run[0] = a /\ \A k \in 0..0 : run[k] = a
  OBVIOUS
<1> HIDE DEF run
<1>2. Len(<<>>) = 0 /\ 1..0 = {}
  OBVIOUS
<1>3. Way(run, <<>>, b, want, H, R)
  BY <1>1, <1>2 DEF Way
<1> QED BY <1>1, <1>2, <1>3 DEF Leads

LEMMA LeadsMore ==
  ASSUME NEW a, NEW w, NEW z, NEW b, NEW want, NEW H, NEW G, NEW R, H \subseteq G,
         Leads(a, w, z, b, want, H, R)
  PROVE  Leads(a, w, z, b, want, G, R)
BY DEF Leads, Way

LEMMA LeadsOn ==
  ASSUME EquipmentSwapAssumption, NEW a, NEW w \in Seq(Moves), NEW z, NEW b, NEW want, NEW H, NEW R,
         NEW m \in Moves, NEW i \in H,
         Leads(a, w, z, b, want, H, R), CanSwap(z, m, R), z[i] # want[i],
         LeftAlone(Swapped(z, m), b, want)
  PROVE  Leads(a, Append(w, m), Swapped(z, m), b, want, H, R)
<1> DEFINE n == Len(w)
           v == Append(w, m)
<1>1. PICK run : Way(run, w, b, want, H, R) /\ run[0] = a /\ run[n] = z
  BY DEF Leads
<1>2. n \in Nat /\ Len(v) = n + 1 /\ v[n + 1] = m /\ \A k \in 1..n : v[k] = w[k]
  OBVIOUS
<1>3. run \in [0..n -> Wearable] /\ z \in Wearable
  BY <1>1, <1>2 DEF Way
<1> DEFINE c == Swapped(z, m)
<1>4. c \in Wearable
  BY <1>3, SwappedIs
<1> DEFINE new == [k \in 0..n + 1 |-> IF k = n + 1 THEN c ELSE run[k]]
<1> HIDE DEF c, n, v
<1>5. /\ new \in [0..n + 1 -> Wearable] /\ new[n + 1] = c /\ new[n] = z /\ new[0] = a
      /\ \A k \in 0..n : new[k] = run[k]
  BY <1>1, <1>2, <1>3, <1>4
<1> HIDE DEF new
<1>6. ASSUME NEW k \in 1..n + 1
      PROVE  /\ CanSwap(new[k - 1], v[k], R) /\ new[k] = Swapped(new[k - 1], v[k])
             /\ \E j \in H : new[k - 1][j] # want[j]
  <2>1. CASE k = n + 1
    <3>1. new[k - 1] = z /\ v[k] = m /\ new[k] = c
      BY <1>2, <1>5, <2>1
    <3> QED BY <3>1 DEF c
  <2>2. CASE k # n + 1
    <3>1. k \in 1..n /\ k - 1 \in 0..n /\ k \in 0..n
      BY <1>2, <2>2
    <3>2. new[k - 1] = run[k - 1] /\ v[k] = w[k] /\ new[k] = run[k]
      BY <1>2, <1>5, <3>1
    <3> QED BY <1>1, <3>1, <3>2 DEF Way, n
  <2> QED BY <2>1, <2>2
<1>7. ASSUME NEW k \in 0..n + 1 PROVE LeftAlone(new[k], b, want)
  <2>1. CASE k = n + 1 BY <1>5, <2>1 DEF c
  <2>2. CASE k # n + 1
    <3>1. k \in 0..n
      BY <1>2, <2>2
    <3> QED BY <1>1, <1>5, <3>1 DEF Way, n
  <2> QED BY <2>1, <2>2
<1>8. Way(new, v, b, want, H, R)
  BY <1>2, <1>5, <1>6, <1>7 DEF Way
<1> QED BY <1>2, <1>5, <1>8 DEF Leads, c, v

(* The first move of a way can be made, and leads to the rest of it. *)
LEMMA LeadsNext ==
  ASSUME EquipmentSwapAssumption, NEW a, NEW w \in Seq(Moves), w # <<>>, NEW z, NEW b, NEW want, NEW H, NEW R,
         Leads(a, w, z, b, want, H, R)
  PROVE  /\ CanSwap(a, Head(w), R)
         /\ \E i \in H : a[i] # want[i]
         /\ Leads(Swapped(a, Head(w)), Tail(w), z, b, want, H, R)
<1> DEFINE n == Len(w)
           v == Tail(w)
<1>1. PICK run : Way(run, w, b, want, H, R) /\ run[0] = a /\ run[n] = z
  BY DEF Leads
<1>2. /\ n \in Nat \ {0} /\ Len(v) = n - 1 /\ Head(w) = w[1]
      /\ \A k \in 1..(n - 1) : v[k] = w[k + 1]
  OBVIOUS
<1>3. /\ run \in [0..n -> Wearable]
      /\ \A k \in 1..n : /\ CanSwap(run[k - 1], w[k], R) /\ run[k] = Swapped(run[k - 1], w[k])
                         /\ \E i \in H : run[k - 1][i] # want[i]
      /\ \A k \in 0..n : LeftAlone(run[k], b, want)
  BY <1>1 DEF Way
<1> DEFINE new == [k \in 0..n - 1 |-> run[k + 1]]
<1> HIDE DEF n, v
<1>4. 1 \in 1..n /\ 1 - 1 = 0
  BY <1>2
<1>5. /\ CanSwap(a, Head(w), R) /\ run[1] = Swapped(a, Head(w))
      /\ \E i \in H : a[i] # want[i]
  <2>1. /\ CanSwap(run[1 - 1], w[1], R) /\ run[1] = Swapped(run[1 - 1], w[1])
        /\ \E i \in H : run[1 - 1][i] # want[i]
    BY <1>3, <1>4
  <2> QED BY <1>1, <1>2, <1>4, <2>1
<1>6. /\ new \in [0..n - 1 -> Wearable] /\ new[0] = run[1] /\ new[n - 1] = z
      /\ \A k \in 0..n - 1 : new[k] = run[k + 1]
  BY <1>1, <1>2, <1>3
<1> HIDE DEF new
<1>7. ASSUME NEW k \in 1..n - 1
      PROVE  /\ CanSwap(new[k - 1], v[k], R) /\ new[k] = Swapped(new[k - 1], v[k])
             /\ \E i \in H : new[k - 1][i] # want[i]
  <2>1. k + 1 \in 1..n /\ k - 1 \in 0..n - 1 /\ k \in 0..n - 1 /\ k - 1 + 1 = k /\ k + 1 - 1 = k
    BY <1>2
  <2>2. new[k - 1] = run[k] /\ new[k] = run[k + 1] /\ v[k] = w[k + 1]
    BY <1>2, <1>6, <2>1
  <2>3. /\ CanSwap(run[k + 1 - 1], w[k + 1], R) /\ run[k + 1] = Swapped(run[k + 1 - 1], w[k + 1])
        /\ \E i \in H : run[k + 1 - 1][i] # want[i]
    BY <1>3, <2>1
  <2> QED BY <2>1, <2>2, <2>3
<1>8. ASSUME NEW k \in 0..n - 1 PROVE LeftAlone(new[k], b, want)
  <2>1. k + 1 \in 0..n
    BY <1>2
  <2> QED BY <1>3, <1>6, <2>1
<1>9. Way(new, v, b, want, H, R)
  BY <1>2, <1>6, <1>7, <1>8 DEF Way
<1> QED BY <1>2, <1>5, <1>6, <1>9 DEF Leads, v

LEMMA LeadsEmpty ==
  ASSUME NEW a, NEW z, NEW b, NEW want, NEW H, NEW R, Leads(a, <<>>, z, b, want, H, R)
  PROVE  z = a
BY DEF Leads

LEMMA LeadsFrom ==
  ASSUME NEW a, NEW w \in Seq(Moves), NEW z, NEW b, NEW want, NEW H, NEW R, Leads(a, w, z, b, want, H, R)
  PROVE  a \in Wearable /\ z \in Wearable /\ LeftAlone(a, b, want) /\ LeftAlone(z, b, want)
<1>1. Len(w) \in Nat /\ 0 \in 0..Len(w) /\ Len(w) \in 0..Len(w)
  OBVIOUS
<1> QED BY <1>1 DEF Leads, Way

-----------------------------------------------------------------------------
(* The three phases. *)

SetsKept == {Sets[s] : s \in DOMAIN Sets}

Plans(set) ==
  [worn : [WornSlots -> Things], sent : Seq(Moves), moved : SUBSET Things, cares : SUBSET Decided(set),
   free : SUBSET Bags, bagsFull : BOOLEAN]

(* The slots whose item is worn elsewhere, those whose item is in a bag or the bank, and both. *)
FromSlots(set) == {i \in Decided(set) : set[i] \in Items /\ Where(set[i]) \in WornSlots}
FromStore(set) == {i \in Decided(set) : set[i] \in Items /\ Where(set[i]) \notin WornSlots}

Filled(set) == {i \in Decided(set) : set[i] \in Items}

LEMMA FirstIs ==
  ASSUME NEW P \in SUBSET Nat, P # {}
  PROVE  First(P) \in P
<1>1. PICK m \in P : \A k \in P : ~(<<k, m>> \in OpToRel(<, Nat))
  BY WFMin, NatLessThanWellFounded
<1>2. \A k \in P : m <= k
  <2> SUFFICES ASSUME NEW k \in P, k < m PROVE FALSE
    OBVIOUS
  <2> QED BY <1>1 DEF OpToRel
<1> QED BY <1>2 DEF First

LEMMA DecidedIs ==
  ASSUME EquipmentSwapAssumption, at \in Wearable, NEW set \in SetsKept, NEW i \in Decided(set)
  PROVE  /\ i \in WornSlots /\ ~Locked(i) /\ set[i] \in Things
         /\ set[i] \in Items =>
              /\ Where(set[i]) \in Places /\ at[Where(set[i])] = set[i] /\ Where(set[i]) \in Open \cup WornSlots
              /\ \A q \in Places : at[q] = set[i] => q = Where(set[i])
              /\ Fits(set[i], i) /\ \A j \in WornSlots : set[j] = set[i] => j = i
<1>1. i \in WornSlots /\ ~Locked(i) /\ set[i] # Ignored /\ (set[i] = None \/ Found(set[i]))
  BY DEF Decided
<1>2. PICK s \in DOMAIN Sets : set = Sets[s]
  BY DEF SetsKept
<1>3. set \in [WornSlots -> Items \cup {None, Ignored}]
  BY <1>2 DEF EquipmentSwapAssumption
<1>4. set[i] \in Things
  BY <1>1, <1>3 DEF Things
<1>5. ASSUME set[i] \in Items
      PROVE  /\ Where(set[i]) \in Places /\ at[Where(set[i])] = set[i] /\ Where(set[i]) \in Open \cup WornSlots
             /\ \A q \in Places : at[q] = set[i] => q = Where(set[i])
  <2>1. Found(set[i])
    BY <1>1, <1>5, PlacesAre
  <2>2. PICK p \in IF bankOpen THEN Places ELSE WornSlots \cup Bags : at[p] = set[i]
    BY <2>1 DEF Found
  <2>3. p \in Places
    BY <2>2 DEF Places
  <2>4. Where(set[i]) \in Places /\ at[Where(set[i])] = set[i]
    BY <2>2, <2>3 DEF Where
  <2>5. \A q \in Places : at[q] = set[i] => q = Where(set[i])
    BY <1>5, <2>4, WearableIs
  <2>6. p = Where(set[i])
    BY <2>2, <2>3, <2>5
  <2>7. p \in Open \cup WornSlots
    <3>1. p \notin WornSlots => Reachable(p)
      BY <2>2, PlacesAre DEF Reachable, Places
    <3> QED BY <2>3, <3>1 DEF Open
  <2> QED BY <2>4, <2>5, <2>6, <2>7
<1>6. set[i] \in Items => Fits(set[i], i) /\ \A j \in WornSlots : set[j] = set[i] => j = i
  BY <1>1, <1>2 DEF EquipmentSwapAssumption
<1> QED BY <1>1, <1>4, <1>5, <1>6

(* The plan q goes on from p with the move that brings to slot i its item, worn in slot src. *)
Brought(set, p, q, i, src) ==
  /\ p.worn[src] = set[i]
  /\ q.sent = Append(p.sent, Move(src, i))
  /\ \A j \in WornSlots : q.worn[j] = IF j = src THEN p.worn[i] ELSE IF j = i THEN set[i] ELSE p.worn[j]
  /\ q.cares = p.cares /\ q.free = p.free /\ q.bagsFull = p.bagsFull

LEMMA FromPaperdollIs ==
  ASSUME EquipmentSwapAssumption, at \in Wearable, NEW set \in SetsKept, NEW p \in Plans(set), NEW i \in WornSlots
  PROVE  /\ FromPaperdoll(set, p, i) \in Plans(set)
         /\ FromPaperdoll(set, p, i) # p =>
              /\ i \in FromSlots(set) /\ i \in p.cares /\ p.worn[i] # set[i]
              /\ \E src \in WornSlots : Brought(set, p, FromPaperdoll(set, p, i), i, src)
         /\ i \in FromSlots(set) /\ i \in p.cares /\ FromPaperdoll(set, p, i) = p =>
              \A j \in WornSlots : p.worn[j] = set[i] => p.worn[i] = set[i]
<1> DEFINE q == FromPaperdoll(set, p, i)
           skips == \/ i \notin p.cares \/ set[i] = None \/ Where(set[i]) \notin WornSlots
                    \/ set[i] \notin Range(p.worn) \ {p.worn[i]}
           src == CHOOSE j \in WornSlots : p.worn[j] = set[i]
           worn == [p.worn EXCEPT ![i] = set[i], ![src] = p.worn[i]]
           moved == [p EXCEPT !.worn = worn, !.sent = Append(@, Move(src, i)),
                              !.moved = @ \cup {set[i], p.worn[i]}]
<1>1. q = IF skips THEN p ELSE moved
  BY DEF FromPaperdoll
<1>2. /\ p.worn \in [WornSlots -> Things] /\ p.sent \in Seq(Moves) /\ p.moved \in SUBSET Things
      /\ p.cares \in SUBSET Decided(set) /\ p.free \in SUBSET Bags /\ p.bagsFull \in BOOLEAN
      /\ p = [worn |-> p.worn, sent |-> p.sent, moved |-> p.moved, cares |-> p.cares,
              free |-> p.free, bagsFull |-> p.bagsFull]
  BY DEF Plans
<1>3. CASE skips
  <2>1. q = p
    BY <1>1, <1>3
  <2>2. ASSUME i \in FromSlots(set), i \in p.cares, NEW j \in WornSlots, p.worn[j] = set[i]
        PROVE  p.worn[i] = set[i]
    <3>1. set[i] \in Items /\ Where(set[i]) \in WornSlots
      BY <2>2 DEF FromSlots
    <3>2. set[i] # None
      BY <3>1, PlacesAre
    <3>3. set[i] \in Range(p.worn)
      BY <1>2, <2>2 DEF Range
    <3> QED BY <1>3, <2>2, <3>1, <3>2, <3>3
  <2> QED BY <2>1, <2>2
<1>4. CASE ~skips
  <2>1. i \in p.cares /\ set[i] # None /\ Where(set[i]) \in WornSlots /\ set[i] # p.worn[i]
    BY <1>4
  <2>2. src \in WornSlots /\ p.worn[src] = set[i]
    <3>1. \E j \in WornSlots : p.worn[j] = set[i]
      BY <1>2, <1>4 DEF Range
    <3> QED BY <3>1
  <2>3. i \in Decided(set) /\ set[i] \in Things
    BY <1>2, <2>1, DecidedIs
  <2>4. i \in FromSlots(set)
    BY <2>1, <2>3 DEF FromSlots, Things
  <2>5. src \in Places /\ i \in Places
    BY <2>2 DEF Places
  <2>6. Move(src, i) \in Moves
    BY <2>5 DEF Move, Moves
  <2> HIDE DEF src
  <2>7. q = moved
    BY <1>1, <1>4
  <2>8. moved = [worn |-> worn, sent |-> Append(p.sent, Move(src, i)),
                 moved |-> p.moved \cup {set[i], p.worn[i]}, cares |-> p.cares, free |-> p.free,
                 bagsFull |-> p.bagsFull]
    <3> HIDE DEF worn, q, skips
    <3>1. moved = [p EXCEPT !.worn = worn, !.sent = Append(@, Move(src, i)),
                            !.moved = @ \cup {set[i], p.worn[i]}]
      OBVIOUS
    <3> HIDE DEF moved
    <3> QED BY <1>2, <3>1
  <2>9. /\ worn \in [WornSlots -> Things]
        /\ Append(p.sent, Move(src, i)) \in Seq(Moves) /\ p.moved \cup {set[i], p.worn[i]} \in SUBSET Things
    BY <1>2, <2>2, <2>3, <2>6
  <2>10. moved \in Plans(set)
    <3> HIDE DEF moved, worn
    <3> QED BY <1>2, <2>8, <2>9 DEF Plans
  <2>11. moved # p
    <3>1. moved.sent = Append(p.sent, Move(src, i))
      BY <1>2
    <3>2. Len(moved.sent) # Len(p.sent)
      BY <1>2, <2>6, <3>1
    <3> QED BY <3>2
  <2> HIDE DEF moved, q, skips
  <2>12. /\ q.sent = Append(p.sent, Move(src, i)) /\ q.worn = worn
         /\ q.cares = p.cares /\ q.free = p.free /\ q.bagsFull = p.bagsFull
    <3> HIDE DEF worn
    <3> QED BY <2>7, <2>8
  <2>13. \A j \in WornSlots : worn[j] = IF j = src THEN p.worn[i] ELSE IF j = i THEN set[i] ELSE p.worn[j]
    BY <1>2, <2>2
  <2> HIDE DEF worn
  <2>14. Brought(set, p, q, i, src)
    BY <2>2, <2>12, <2>13 DEF Brought
  <2> QED BY <2>1, <2>2, <2>4, <2>7, <2>10, <2>11, <2>14 DEF q
<1> QED BY <1>3, <1>4

LEMMA FromBagIs ==
  ASSUME EquipmentSwapAssumption, at \in Wearable, NEW set \in SetsKept, NEW p \in Plans(set), NEW i \in WornSlots
  PROVE  /\ FromBag(set, p, i) \in Plans(set)
         /\ i \notin FromStore(set) \/ i \notin p.cares => FromBag(set, p, i) = p
         /\ i \in FromStore(set) /\ i \in p.cares =>
              /\ FromBag(set, p, i).sent = Append(p.sent, Move(Where(set[i]), i))
              /\ \A j \in WornSlots : FromBag(set, p, i).worn[j] = IF j = i THEN set[i] ELSE p.worn[j]
              /\ FromBag(set, p, i).cares = p.cares /\ FromBag(set, p, i).free = p.free
              /\ FromBag(set, p, i).bagsFull = p.bagsFull
<1>1. /\ p.worn \in [WornSlots -> Things] /\ p.sent \in Seq(Moves) /\ p.moved \in SUBSET Things
      /\ p.cares \in SUBSET Decided(set) /\ p.free \in SUBSET Bags /\ p.bagsFull \in BOOLEAN
      /\ p = [worn |-> p.worn, sent |-> p.sent, moved |-> p.moved, cares |-> p.cares,
              free |-> p.free, bagsFull |-> p.bagsFull]
  BY DEF Plans
<1>2. CASE i \notin p.cares
  BY <1>2 DEF FromBag
<1>3. CASE i \in p.cares /\ i \notin FromStore(set)
  <2>1. set[i] = None \/ Where(set[i]) \in WornSlots
    BY <1>1, <1>3, DecidedIs DEF FromStore, Things
  <2> QED BY <1>3, <2>1 DEF FromBag
<1>4. CASE i \in p.cares /\ i \in FromStore(set)
  <2>1. /\ set[i] \in Items /\ set[i] # None /\ Where(set[i]) \notin WornSlots /\ Where(set[i]) \in Places
        /\ i \in Places
    BY <1>4, DecidedIs, PlacesAre DEF FromStore, Places
  <2> DEFINE src == Where(set[i])
  <2>2. Move(src, i) \in Moves
    BY <2>1 DEF Move, Moves
  <2>3. FromBag(set, p, i) = [p EXCEPT !.worn[i] = set[i], !.sent = Append(@, Move(src, i)),
                                       !.moved = @ \cup {set[i], p.worn[i]}]
    BY <1>4, <2>1 DEF FromBag
  <2> HIDE DEF src
  <2>4. FromBag(set, p, i) =
          [worn |-> [p.worn EXCEPT ![i] = set[i]], sent |-> Append(p.sent, Move(src, i)),
           moved |-> p.moved \cup {set[i], p.worn[i]}, cares |-> p.cares, free |-> p.free,
           bagsFull |-> p.bagsFull]
    BY <1>1, <2>3
  <2>5. /\ [p.worn EXCEPT ![i] = set[i]] \in [WornSlots -> Things]
        /\ Append(p.sent, Move(src, i)) \in Seq(Moves) /\ p.moved \cup {set[i], p.worn[i]} \in SUBSET Things
    BY <1>1, <2>1, <2>2 DEF Things
  <2>6. FromBag(set, p, i) \in Plans(set)
    BY <1>1, <2>4, <2>5 DEF Plans
  <2>7. \A j \in WornSlots : [p.worn EXCEPT ![i] = set[i]][j] = IF j = i THEN set[i] ELSE p.worn[j]
    BY <1>1
  <2> QED BY <1>4, <2>4, <2>6, <2>7 DEF src
<1> QED BY <1>2, <1>3, <1>4

(* The plan q goes on from p with the move of what slot i has to the free place dst. *)
TakenOff(p, q, i, dst) ==
  /\ q.sent = Append(p.sent, Move(i, dst))
  /\ \A j \in WornSlots : q.worn[j] = IF j = i THEN None ELSE p.worn[j]
  /\ q.cares = p.cares /\ q.free = p.free \ {dst} /\ q.bagsFull = p.bagsFull

(* The plan q gives slot i up. *)
GivenUp(p, q, i) ==
  /\ q.sent = p.sent /\ q.worn = p.worn /\ q.cares = p.cares \ {i} /\ q.free = p.free
  /\ q.bagsFull = TRUE

LEMMA TakeOffIs ==
  ASSUME EquipmentSwapAssumption, NEW set \in SetsKept, NEW p \in Plans(set), NEW i \in WornSlots
  PROVE  /\ TakeOff(set, p, i) \in Plans(set)
         /\ i \notin p.cares \/ set[i] # None \/ p.worn[i] = None => TakeOff(set, p, i) = p
         /\ i \in p.cares /\ set[i] = None /\ p.worn[i] # None /\ p.free = {} =>
              GivenUp(p, TakeOff(set, p, i), i)
         /\ i \in p.cares /\ set[i] = None /\ p.worn[i] # None /\ p.free # {} =>
              \E dst \in p.free : TakenOff(p, TakeOff(set, p, i), i, dst)
<1>1. /\ p.worn \in [WornSlots -> Things] /\ p.sent \in Seq(Moves) /\ p.moved \in SUBSET Things
      /\ p.cares \in SUBSET Decided(set) /\ p.free \in SUBSET Bags /\ p.bagsFull \in BOOLEAN
      /\ p = [worn |-> p.worn, sent |-> p.sent, moved |-> p.moved, cares |-> p.cares,
              free |-> p.free, bagsFull |-> p.bagsFull]
  BY DEF Plans
<1>2. p.free # {} => First(p.free) \in p.free
  <2>1. p.free \in SUBSET Nat
    BY <1>1, PlacesAre
  <2> QED BY <2>1, FirstIs
<1>3. CASE i \notin p.cares \/ set[i] # None \/ p.worn[i] = None
  BY <1>3 DEF TakeOff
<1>4. CASE ~(i \notin p.cares \/ set[i] # None \/ p.worn[i] = None) /\ p.free = {}
  <2>1. TakeOff(set, p, i) = [worn |-> p.worn, sent |-> p.sent, moved |-> p.moved, cares |-> p.cares \ {i},
                              free |-> p.free, bagsFull |-> TRUE]
    BY <1>1, <1>4 DEF TakeOff
  <2>2. TakeOff(set, p, i) \in Plans(set)
    BY <1>1, <2>1 DEF Plans
  <2>3. GivenUp(p, TakeOff(set, p, i), i)
    BY <2>1 DEF GivenUp
  <2> QED BY <1>4, <2>2, <2>3
<1>5. CASE ~(i \notin p.cares \/ set[i] # None \/ p.worn[i] = None) /\ p.free # {}
  <2> DEFINE dst == First(p.free)
  <2>1. dst \in Bags /\ dst \in Places /\ i \in Places
    BY <1>1, <1>2, <1>5 DEF Places
  <2>2. Move(i, dst) \in Moves
    BY <2>1 DEF Move, Moves
  <2>3. TakeOff(set, p, i) = [p EXCEPT !.worn[i] = None, !.sent = Append(@, Move(i, dst)),
                                       !.moved = @ \cup {p.worn[i]}, !.free = @ \ {First(@)}]
    BY <1>5 DEF TakeOff
  <2>4. TakeOff(set, p, i) = [p EXCEPT !.worn[i] = None, !.sent = Append(@, Move(i, dst)),
                                       !.moved = @ \cup {p.worn[i]}, !.free = @ \ {dst}]
    BY <1>1, <2>3
  <2> HIDE DEF dst
  <2>5. TakeOff(set, p, i) =
          [worn |-> [p.worn EXCEPT ![i] = None], sent |-> Append(p.sent, Move(i, dst)),
           moved |-> p.moved \cup {p.worn[i]}, cares |-> p.cares, free |-> p.free \ {dst},
           bagsFull |-> p.bagsFull]
    BY <1>1, <2>4
  <2>6. /\ [p.worn EXCEPT ![i] = None] \in [WornSlots -> Things]
        /\ Append(p.sent, Move(i, dst)) \in Seq(Moves) /\ p.moved \cup {p.worn[i]} \in SUBSET Things
    BY <1>1, <2>2 DEF Things
  <2>7. TakeOff(set, p, i) \in Plans(set)
    BY <1>1, <2>5, <2>6 DEF Plans
  <2>8. \A j \in WornSlots : [p.worn EXCEPT ![i] = None][j] = IF j = i THEN None ELSE p.worn[j]
    BY <1>1
  <2>9. dst \in p.free
    BY <1>2, <1>5 DEF dst
  <2>10. TakenOff(p, TakeOff(set, p, i), i, dst)
    BY <2>5, <2>8 DEF TakenOff
  <2> QED BY <1>5, <2>7, <2>9, <2>10
<1> QED BY <1>3, <1>4, <1>5

LEMMA PhaseIs ==
  ASSUME EquipmentSwapAssumption, at \in Wearable, NEW set \in SetsKept, NEW n \in 1..3,
         NEW p \in Plans(set), NEW i \in WornSlots
  PROVE  Phase(n, set, p, i) \in Plans(set)
<1>1. n = 1 \/ n = 2 \/ n = 3
  OBVIOUS
<1> QED BY <1>1, FromPaperdollIs, FromBagIs, TakeOffIs DEF Phase

(* What a phase comes to is the last state of a run with a step for each slot. *)
LEMMA ThroughRuns ==
  ASSUME EquipmentSwapAssumption, at \in Wearable, NEW set \in SetsKept, NEW n \in 1..3, NEW q \in Plans(set)
  PROVE  \E run : /\ run[0] = q /\ \A i \in 0..SlotCount : run[i] \in Plans(set)
                  /\ \A i \in 1..SlotCount : run[i] = Phase(n, set, run[i - 1], i)
                  /\ run[SlotCount] = Through(n, set, q)
<1> DEFINE order == InOrder
           N == SlotCount
           D == Plans(set)
           T(p, i) == Phase(n, set, p, order[i])
           step == [x \in D \X (1..N) |-> T(x[1], x[2])]
<1>1. N \in Nat /\ DOMAIN order = 1..N /\ (\A i \in 1..N : order[i] = i) /\ WornSlots = 1..N
  BY PlacesAre DEF InOrder, WornSlots
<1> HIDE DEF order, N, D
<1>2. ASSUME NEW p \in D, NEW i \in 1..N PROVE T(p, i) \in D
  BY <1>1, PhaseIs DEF D
<1>3. step \in [D \X (1..N) -> D]
  <2> HIDE DEF T
  <2> QED BY <1>2
<1>4. \A p \in D, i \in 1..N : step[p, i] = T(p, i)
  <2> HIDE DEF T
  <2> QED OBVIOUS
<1>5. PICK f : Walks(f, N, D, q, step)
  <2>1. q \in D
    BY DEF D
  <2> HIDE DEF step
  <2> QED BY <1>1, <1>3, <2>1, WalkExists
<1>6. f = [w \in SUBSET DOMAIN order |-> IF w = {} THEN q ELSE T(f[w \ {Max(w)}], Max(w))]
  <2> HIDE DEF step, T, Max
  <2>1. \A w \in SUBSET (1..N) : w # {} => Max(w) \in 1..N
    BY <1>1, MaxIsIn
  <2>2. \A w \in SUBSET (1..N) : w # {} => step[f[w \ {Max(w)}], Max(w)] = T(f[w \ {Max(w)}], Max(w))
    <3>1. \A w \in SUBSET (1..N) : w \ {Max(w)} \in SUBSET (1..N)
      OBVIOUS
    <3>2. \A w \in SUBSET (1..N) : f[w] \in D
      BY <1>5 DEF Walks
    <3> QED BY <1>4, <3>1, <3>2, <2>1
  <2>3. /\ f \in [SUBSET (1..N) -> D]
        /\ \A w \in SUBSET (1..N) : f[w] = IF w = {} THEN q ELSE T(f[w \ {Max(w)}], Max(w))
    BY <1>5, <2>2 DEF Walks
  <2> QED BY <1>1, <2>3
<1>7. PICK h : /\ h = [w \in SUBSET DOMAIN order |-> IF w = {} THEN q ELSE T(h[w \ {Max(w)}], Max(w))]
               /\ FoldLeft(LAMBDA p, i : Phase(n, set, p, i), q, order) = h[DOMAIN order]
  BY <1>6 DEF FoldLeft, MapThenFoldSet
<1>8. h[{}] = q /\ \A i \in 1..N : h[1..i] = T(h[1..(i - 1)], i)
  <2> HIDE DEF T, Max
  <2>1. \A i \in 1..N : /\ Max(1..i) = i /\ (1..i) \ {Max(1..i)} = 1..(i - 1)
                        /\ 1..i \in SUBSET DOMAIN order /\ 1..i # {}
    <3> SUFFICES ASSUME NEW i \in 1..N
                 PROVE  /\ Max(1..i) = i /\ (1..i) \ {Max(1..i)} = 1..(i - 1)
                        /\ 1..i \in SUBSET DOMAIN order /\ 1..i # {}
      OBVIOUS
    <3>1. i \in Nat \ {0} /\ 1..i \in SUBSET (1..N) /\ i \in 1..i
      BY <1>1
    <3> QED BY <1>1, <3>1, MaxOfUpTo
  <2> QED BY <1>7, <2>1
<1> DEFINE run == [i \in 0..N |-> h[1..i]]
<1>9. run[0] = q /\ (\A i \in 1..N : run[i] = T(run[i - 1], i)) /\ run[N] = h[DOMAIN order]
  <2> HIDE DEF T
  <2>1. 1..0 = {} /\ 0 \in 0..N /\ N \in 0..N /\ \A i \in 1..N : i \in 0..N /\ i - 1 \in 0..N
    BY <1>1
  <2> QED BY <1>1, <1>8, <2>1
<1> HIDE DEF run
<1>10. \A i \in 0..N : run[i] \in D
  <2> DEFINE S == {i \in 0..N : run[i] \in D}
  <2> HIDE DEF T
  <2>1. 0 \in S /\ \A i \in 1..N : i - 1 \in S => i \in S
    <3>1. q \in D
      BY DEF D
    <3> QED BY <1>1, <1>2, <1>9, <3>1
  <2>2. \A i \in 0..N : i \in S
    <3> HIDE DEF S
    <3> QED BY <1>1, <2>1, UpTo
  <2> QED BY <2>2
<1>11. run[N] = Through(n, set, q)
  BY <1>7, <1>9 DEF Through, order
<1>12. \A i \in 1..N : run[i] = Phase(n, set, run[i - 1], i)
  BY <1>1, <1>9
<1> QED BY <1>9, <1>10, <1>11, <1>12 DEF N, D

(* What the set wants of what can be had. *)
WantOf(set) == [i \in Decided(set) |-> set[i]]

(* The slots that are sure to be as the set wants them in the end, when k slots of phase n are done. *)
Settled(n, k, set, p) == Filled(set) \cup {j \in p.cares : n = 3 /\ j <= k}

(* The moves planned so far lead to the arrangement a: the plan p is true of it, and the slots
   that the phases have been through are as they should be. *)
Progress(n, k, set, p, a) ==
  /\ \A i \in WornSlots : p.worn[i] = a[i]
  /\ Filled(set) \subseteq p.cares
  /\ p.bagsFull = FALSE => p.cares = Decided(set)
  /\ n < 3 => p.bagsFull = FALSE
  /\ n = 1 => \A q \in Bags \cup Bank : a[q] = at[q]
  /\ \A j \in FromSlots(set) : n > 1 \/ j <= k => a[j] = set[j]
  /\ \A j \in FromStore(set) : n = 3 \/ (n = 2 /\ j <= k) => a[j] = set[j]
  /\ \A j \in FromStore(set) : n = 1 \/ (n = 2 /\ j > k) => a[Where(set[j])] = set[j]
  /\ \A j \in p.cares : n = 3 /\ j <= k /\ set[j] = None => a[j] = None
  /\ \A q \in p.free : a[q] = None
  /\ Leads(at, p.sent, a, Worn, WantOf(set), Settled(n, k, set, p), Open)

(* Phase 1.  The slot an item is brought from takes whatever is displaced, as the two can trade. *)
LEMMA FromPaperdollProgress ==
  ASSUME EquipmentSwapAssumption, SlotsCanTrade, at \in Wearable, NEW set \in SetsKept,
         NEW k \in 1..SlotCount, NEW p \in Plans(set), NEW a, Progress(1, k - 1, set, p, a)
  PROVE  \E c : Progress(1, k, set, FromPaperdoll(set, p, k), c)
<1> DEFINE q == FromPaperdoll(set, p, k)
<1>1. /\ k \in WornSlots /\ \A j \in WornSlots : j \in Int /\ (j <= k => j <= k - 1 \/ j = k)
  BY PlacesAre DEF WornSlots
<1>2. /\ \A i \in WornSlots : p.worn[i] = a[i]
      /\ Filled(set) \subseteq p.cares
      /\ p.cares = Decided(set) /\ p.bagsFull = FALSE
      /\ \A i \in Bags \cup Bank : a[i] = at[i]
      /\ \A j \in FromSlots(set) : j <= k - 1 => a[j] = set[j]
      /\ \A j \in FromStore(set) : a[Where(set[j])] = set[j]
      /\ \A i \in p.free : a[i] = None
      /\ Leads(at, p.sent, a, Worn, WantOf(set), Filled(set), Open)
  <2>1. Settled(1, k - 1, set, p) = Filled(set)
    BY DEF Settled
  <2> QED BY <2>1 DEF Progress
<1>3. p.sent \in Seq(Moves) /\ p.free \in SUBSET Bags /\ p.worn \in [WornSlots -> Things]
  BY DEF Plans
<1>4. a \in Wearable /\ LeftAlone(a, Worn, WantOf(set))
  BY <1>2, <1>3, LeadsFrom
<1>5. CASE q = p
  <2>1. ASSUME NEW j \in FromSlots(set), j = k PROVE a[j] = set[j]
    <3>1. j \in Decided(set) /\ j \in WornSlots /\ set[j] \in Items /\ Where(set[j]) \in WornSlots
      BY <2>1, <1>1 DEF FromSlots
    <3>2. \A x \in Places : at[x] = set[j] => x = Where(set[j])
      BY <3>1, DecidedIs
    <3>3. PICK x \in Places : a[x] = set[j]
      BY <1>4, <3>1, WearableIs
    <3>4. x \in WornSlots
      BY <1>2, <3>1, <3>2, <3>3, PlacesAre DEF Places
    <3>5. p.worn[x] = set[j]
      BY <1>2, <3>3, <3>4
    <3>6. k \in FromSlots(set) /\ k \in p.cares
      BY <1>2, <2>1, <3>1 DEF Filled
    <3>7. p.worn[k] = set[k]
      BY <1>1, <1>5, <2>1, <3>4, <3>5, <3>6, FromPaperdollIs
    <3> QED BY <1>1, <1>2, <2>1, <3>7
  <2>2. \A j \in FromSlots(set) : j <= k => a[j] = set[j]
    <3>1. \A j \in FromSlots(set) : j \in WornSlots
      BY DecidedIs DEF FromSlots
    <3> QED BY <1>1, <1>2, <2>1, <3>1
  <2>3. Settled(1, k, set, p) = Filled(set)
    BY DEF Settled
  <2>4. Progress(1, k, set, p, a)
    BY <1>2, <2>2, <2>3 DEF Progress
  <2> QED BY <1>5, <2>4
<1>6. CASE q # p
  <2>0. PICK src \in WornSlots : Brought(set, p, q, k, src)
    BY <1>1, <1>6, FromPaperdollIs
  <2>1. /\ p.worn[src] = set[k] /\ q.sent = Append(p.sent, Move(src, k))
        /\ \A j \in WornSlots : q.worn[j] = IF j = src THEN p.worn[k] ELSE IF j = k THEN set[k] ELSE p.worn[j]
        /\ q.cares = p.cares /\ q.free = p.free /\ q.bagsFull = p.bagsFull
    <3> HIDE DEF q
    <3> QED BY <2>0 DEF Brought
  <2>2. k \in FromSlots(set) /\ k \in p.cares /\ p.worn[k] # set[k]
    BY <1>1, <1>6, FromPaperdollIs
  <2>3. /\ k \in Decided(set) /\ set[k] \in Items /\ set[k] # None /\ ~Locked(k) /\ Fits(set[k], k)
        /\ \A j \in WornSlots : set[j] = set[k] => j = k
    BY <2>2, DecidedIs, PlacesAre DEF FromSlots
  <2> DEFINE m == Move(src, k)
             c == Swapped(a, m)
  <2>4. /\ m.src = src /\ m.dst = k /\ m \in Moves /\ src \in Places /\ k \in Places /\ src # k
        /\ src \notin Bank /\ k \notin Bank
    BY <1>1, <2>1, <2>2, PlacesAre DEF Move, Moves
  <2>5. a[src] = set[k] /\ a[k] # set[k] /\ a[k] = p.worn[k]
    BY <1>1, <1>2, <2>1, <2>2
  <2>6. CanSwap(a, m, Open)
    <3>1. \A x \in Places : MayLie(a[x], x)
      BY <1>4, WearableIs
    <3>2. Fits(a[src], src) /\ Fits(a[src], k)
      BY <2>1, <2>3, <2>4, <2>5, <3>1 DEF MayLie
    <3>3. (\A x \in Items : Fits(x, k) => Fits(x, src)) /\ (k \in CombatSlots => src \in CombatSlots)
      <4>1. PICK s \in DOMAIN Sets : Sets[s] = set
        BY DEF SetsKept
      <4> QED BY <1>1, <2>3, <2>5, <3>2, <4>1 DEF SlotsCanTrade
    <3>4. a[k] \in Items \cup {None}
      BY <1>4, <2>4, WearableIs DEF Things
    <3>5. MayLie(a[k], src) /\ MayLie(a[src], k)
      BY <1>1, <2>4, <3>1, <3>2, <3>3, <3>4 DEF MayLie
    <3>6. ~Locked(src)
      BY <2>3, <3>3 DEF Locked
    <3>7. src \in Open /\ k \in Open
      BY <2>3, <2>4, <3>6 DEF Open, Reachable
    <3> QED BY <2>3, <2>4, <2>5, <3>5, <3>7 DEF CanSwap
  <2>7. \A x \in Places : c[x] = IF x = k THEN set[k] ELSE IF x = src THEN a[k] ELSE a[x]
    <3>1. \A x \in Places : Swapped(a, m)[x] =
            IF x = m.dst THEN a[m.src] ELSE IF x = m.src THEN a[m.dst] ELSE a[x]
      <4> HIDE DEF m
      <4>1. a \in Wearable /\ m \in Moves /\ CanSwap(a, m, Open)
        BY <1>4, <2>4, <2>6
      <4> QED BY <4>1, SwappedIs
    <3> QED BY <2>4, <2>5, <3>1
  <2> HIDE DEF c, m
  <2>8. LeftAlone(c, Worn, WantOf(set))
    <3>1. DOMAIN WantOf(set) = Decided(set) /\ set[k] \in Range(WantOf(set))
      BY <2>3 DEF WantOf, Range
    <3>2. ASSUME NEW i \in WornSlots \ Decided(set) PROVE c[i] = Worn[i] \/ Worn[i] \in Range(WantOf(set))
      <4>1. i # k /\ i \in Places /\ (a[i] = Worn[i] \/ Worn[i] \in Range(WantOf(set)))
        BY <1>4, <2>3, <3>1, PlacesAre DEF LeftAlone
      <4>2. CASE i = src
        BY <2>5, <3>1, <4>1, <4>2
      <4>3. CASE i # src
        BY <2>7, <4>1, <4>3
      <4> QED BY <4>2, <4>3
    <3> QED BY <3>1, <3>2 DEF LeftAlone
  <2>9. Leads(at, Append(p.sent, m), c, Worn, WantOf(set), Filled(set), Open)
    <3>1. k \in Filled(set) /\ WantOf(set)[k] = set[k]
      BY <2>2, <2>3 DEF WantOf, Filled
    <3>2. LeftAlone(Swapped(a, m), Worn, WantOf(set)) /\ a[k] # WantOf(set)[k] /\ m \in Moves
      BY <2>4, <2>5, <2>8, <3>1 DEF c
    <3> QED BY <1>2, <1>3, <2>6, <3>1, <3>2, LeadsOn DEF c
  <2> HIDE DEF q
  <2>10. q.sent = Append(p.sent, m)
    BY <2>1 DEF m
  <2>12. \A i \in WornSlots : q.worn[i] = c[i]
    BY <1>1, <1>2, <2>1, <2>4, <2>5, <2>7, PlacesAre
  <2>13. \A i \in Bags \cup Bank : c[i] = a[i]
    BY <1>1, <2>7, PlacesAre
  <2>14. ASSUME NEW j \in FromSlots(set), j <= k PROVE c[j] = set[j]
    <3>1. j \in WornSlots /\ j \in Places
      BY DecidedIs, PlacesAre DEF FromSlots
    <3>2. CASE j = k BY <2>7, <3>1, <3>2
    <3>3. CASE j # k
      <4>1. a[j] = set[j]
        BY <1>1, <1>2, <2>14, <3>1, <3>3
      <4>2. j # src
        BY <2>3, <2>5, <3>1, <3>3, <4>1
      <4> QED BY <2>7, <3>1, <3>3, <4>1, <4>2
    <3> QED BY <3>2, <3>3
  <2>15. \A j \in FromStore(set) : c[Where(set[j])] = set[j]
    <3>1. \A j \in FromStore(set) : Where(set[j]) \in Bags \cup Bank
      BY DecidedIs DEF FromStore, Places
    <3> QED BY <1>2, <2>13, <3>1
  <2>16. \A i \in q.free : c[i] = None
    BY <1>2, <1>3, <2>1, <2>13
  <2>17. Settled(1, k, set, q) = Filled(set)
    BY DEF Settled
  <2>18. Progress(1, k, set, q, c)
    BY <1>2, <2>1, <2>9, <2>10, <2>12, <2>13, <2>14, <2>15, <2>16, <2>17 DEF Progress
  <2> QED BY <2>18 DEF q
<1> QED BY <1>5, <1>6

(* Phase 2.  The displaced item goes where the new one came from, which takes anything. *)
LEMMA FromBagProgress ==
  ASSUME EquipmentSwapAssumption, at \in Wearable, NEW set \in SetsKept,
         NEW k \in 1..SlotCount, NEW p \in Plans(set), NEW a, Progress(2, k - 1, set, p, a)
  PROVE  \E c : Progress(2, k, set, FromBag(set, p, k), c)
<1> DEFINE q == FromBag(set, p, k)
<1>1. /\ k \in WornSlots /\ \A j \in WornSlots : j \in Int /\ (j <= k <=> j <= k - 1 \/ j = k)
                                          /\ (j > k - 1 <=> j > k \/ j = k) /\ (j > k => j # k)
  BY PlacesAre DEF WornSlots
<1>2. /\ \A i \in WornSlots : p.worn[i] = a[i]
      /\ Filled(set) \subseteq p.cares /\ p.cares = Decided(set) /\ p.bagsFull = FALSE
      /\ \A j \in FromSlots(set) : a[j] = set[j]
      /\ \A j \in FromStore(set) : j <= k - 1 => a[j] = set[j]
      /\ \A j \in FromStore(set) : j > k - 1 => a[Where(set[j])] = set[j]
      /\ \A i \in p.free : a[i] = None
      /\ Leads(at, p.sent, a, Worn, WantOf(set), Filled(set), Open)
  <2>1. Settled(2, k - 1, set, p) = Filled(set)
    BY DEF Settled
  <2> QED BY <2>1 DEF Progress
<1>3. p.sent \in Seq(Moves) /\ p.free \in SUBSET Bags /\ p.worn \in [WornSlots -> Things]
  BY DEF Plans
<1>4. a \in Wearable /\ LeftAlone(a, Worn, WantOf(set))
  BY <1>2, <1>3, LeadsFrom
<1>5. \A j \in FromSlots(set) \cup FromStore(set) : j \in WornSlots /\ j \in Places
  BY DecidedIs, PlacesAre DEF FromSlots, FromStore
<1>6. Settled(2, k, set, q) = Filled(set)
  BY DEF Settled
<1>7. CASE k \notin FromStore(set)
  <2>1. q = p
    BY <1>1, <1>7, FromBagIs
  <2> HIDE DEF q
  <2>2. \A j \in FromStore(set) : j <= k => a[j] = set[j]
    BY <1>1, <1>2, <1>5, <1>7
  <2>3. \A j \in FromStore(set) : j > k => a[Where(set[j])] = set[j]
    BY <1>1, <1>2, <1>5, <1>7
  <2>4. Progress(2, k, set, q, a)
    BY <1>2, <1>6, <2>1, <2>2, <2>3 DEF Progress
  <2> QED BY <2>4 DEF q
<1>8. CASE k \in FromStore(set)
  <2>1. k \in p.cares
    BY <1>2, <1>8 DEF FromStore, Filled
  <2>2. /\ q.sent = Append(p.sent, Move(Where(set[k]), k))
        /\ \A j \in WornSlots : q.worn[j] = IF j = k THEN set[k] ELSE p.worn[j]
        /\ q.cares = p.cares /\ q.free = p.free /\ q.bagsFull = p.bagsFull
    BY <1>1, <1>8, <2>1, FromBagIs
  <2> HIDE DEF q
  <2>3. /\ k \in Decided(set) /\ set[k] \in Items /\ set[k] # None /\ ~Locked(k) /\ Fits(set[k], k)
        /\ \A j \in WornSlots : set[j] = set[k] => j = k
        /\ Where(set[k]) \notin WornSlots /\ Where(set[k]) \in Places /\ Where(set[k]) \in Open
        /\ at[Where(set[k])] = set[k]
    BY <1>8, DecidedIs, PlacesAre DEF FromStore
  <2> DEFINE src == Where(set[k])
             m == Move(src, k)
             c == Swapped(a, m)
  <2>4. m.src = src /\ m.dst = k /\ m \in Moves /\ src \in Places /\ k \in Places /\ src # k /\ k \notin Bank
    BY <1>1, <2>3, PlacesAre DEF Move, Moves
  <2>5. a[src] = set[k]
    BY <1>1, <1>2, <1>8
  <2>6. a[k] # set[k]
    <3>1. \A x, y \in Places : a[x] \in Items /\ a[x] = a[y] => x = y
      BY <1>4, WearableIs
    <3> QED BY <2>3, <2>4, <2>5, <3>1
  <2>7. CanSwap(a, m, Open)
    <3>1. MayLie(a[k], src) /\ MayLie(a[src], k)
      BY <2>3, <2>5 DEF MayLie
    <3>2. k \in Open
      BY <2>3, <2>4 DEF Open, Reachable
    <3> QED BY <2>3, <2>4, <2>5, <3>1, <3>2 DEF CanSwap
  <2>8. \A x \in Places : c[x] = IF x = k THEN set[k] ELSE IF x = src THEN a[k] ELSE a[x]
    <3>1. \A x \in Places : Swapped(a, m)[x] =
            IF x = m.dst THEN a[m.src] ELSE IF x = m.src THEN a[m.dst] ELSE a[x]
      <4> HIDE DEF m
      <4>1. a \in Wearable /\ m \in Moves /\ CanSwap(a, m, Open)
        BY <1>4, <2>4, <2>7
      <4> QED BY <4>1, SwappedIs
    <3> QED BY <2>4, <2>5, <3>1
  <2>9. q.sent = Append(p.sent, m)
    BY <2>2
  <2> HIDE DEF c, m
  <2>10. \A i \in WornSlots : c[i] = IF i = k THEN set[k] ELSE a[i]
    BY <2>3, <2>8, PlacesAre
  <2>11. LeftAlone(c, Worn, WantOf(set))
    <3>1. DOMAIN WantOf(set) = Decided(set)
      BY DEF WantOf
    <3> QED BY <1>4, <2>3, <2>10, <3>1 DEF LeftAlone
  <2>12. Leads(at, Append(p.sent, m), c, Worn, WantOf(set), Filled(set), Open)
    <3>1. k \in Filled(set) /\ WantOf(set)[k] = set[k]
      BY <2>3 DEF WantOf, Filled
    <3>2. LeftAlone(Swapped(a, m), Worn, WantOf(set)) /\ a[k] # WantOf(set)[k] /\ m \in Moves
      BY <2>4, <2>6, <2>11, <3>1 DEF c
    <3> QED BY <1>2, <1>3, <2>7, <3>1, <3>2, LeadsOn DEF c
  <2>13. \A i \in WornSlots : q.worn[i] = c[i]
    BY <1>2, <2>2, <2>10
  <2>14. \A j \in FromSlots(set) : c[j] = set[j]
    BY <1>2, <1>5, <2>10
  <2>15. \A j \in FromStore(set) : j <= k => c[j] = set[j]
    BY <1>1, <1>2, <1>5, <2>10
  <2>16. ASSUME NEW j \in FromStore(set), j > k PROVE c[Where(set[j])] = set[j]
    <3>1. j \in Decided(set) /\ j # k /\ set[j] \in Items /\ Where(set[j]) \notin WornSlots
      BY <1>1, <1>5, <2>16 DEF FromStore
    <3>2. Where(set[j]) \in Places /\ at[Where(set[j])] = set[j]
      BY <3>1, DecidedIs
    <3>3. set[j] # set[k] /\ Where(set[j]) # src /\ Where(set[j]) # k
      BY <1>1, <1>5, <2>3, <3>1, <3>2
    <3>4. a[Where(set[j])] = set[j]
      BY <1>1, <1>2, <1>5, <2>16
    <3> QED BY <2>8, <3>2, <3>3, <3>4
  <2>17. ASSUME NEW i \in q.free PROVE c[i] = None
    <3>1. a[i] = None /\ i \in Places /\ i # k
      BY <1>1, <1>2, <1>3, <2>2, PlacesAre
    <3> QED BY <2>3, <2>5, <2>8, <3>1
  <2>18. Progress(2, k, set, q, c)
    BY <1>2, <1>6, <2>2, <2>9, <2>12, <2>13, <2>14, <2>15, <2>16, <2>17 DEF Progress
  <2> QED BY <2>18 DEF q
<1> QED BY <1>7, <1>8

(* Phase 3.  A slot that cannot be made empty is given up, and no move counted on it. *)
LEMMA TakeOffProgress ==
  ASSUME EquipmentSwapAssumption, at \in Wearable, NEW set \in SetsKept,
         NEW k \in 1..SlotCount, NEW p \in Plans(set), NEW a, Progress(3, k - 1, set, p, a)
  PROVE  \E c : Progress(3, k, set, TakeOff(set, p, k), c)
<1> DEFINE q == TakeOff(set, p, k)
<1>1. /\ k \in WornSlots /\ \A j \in WornSlots : j \in Int /\ (j <= k <=> j <= k - 1 \/ j = k) /\ (j <= k - 1 => j # k)
  BY PlacesAre DEF WornSlots
<1>2. /\ \A i \in WornSlots : p.worn[i] = a[i]
      /\ Filled(set) \subseteq p.cares /\ (p.bagsFull = FALSE => p.cares = Decided(set))
      /\ \A j \in FromSlots(set) \cup FromStore(set) : a[j] = set[j]
      /\ \A j \in p.cares : j <= k - 1 /\ set[j] = None => a[j] = None
      /\ \A i \in p.free : a[i] = None
      /\ Leads(at, p.sent, a, Worn, WantOf(set), Settled(3, k - 1, set, p), Open)
  BY DEF Progress
<1>3. /\ p.sent \in Seq(Moves) /\ p.free \in SUBSET Bags /\ p.worn \in [WornSlots -> Things]
      /\ p.cares \in SUBSET Decided(set)
  BY DEF Plans
<1>4. a \in Wearable /\ LeftAlone(a, Worn, WantOf(set))
  BY <1>2, <1>3, LeadsFrom
<1>5. /\ \A j \in FromSlots(set) \cup FromStore(set) : j \in WornSlots /\ j \in Filled(set)
      /\ \A j \in Filled(set) : set[j] # None
      /\ \A j \in p.cares : j \in WornSlots
  BY <1>3, DecidedIs, PlacesAre DEF FromSlots, FromStore, Filled
<1>6. CASE k \notin p.cares \/ set[k] # None \/ p.worn[k] = None
  <2>1. q = p
    BY <1>1, <1>6, TakeOffIs
  <2> HIDE DEF q
  <2>2. \A j \in p.cares : j <= k /\ set[j] = None => a[j] = None
    BY <1>1, <1>2, <1>5, <1>6
  <2>3. Settled(3, k - 1, set, p) \subseteq Settled(3, k, set, q)
    BY <1>1, <1>5, <2>1 DEF Settled
  <2>4. Leads(at, p.sent, a, Worn, WantOf(set), Settled(3, k, set, q), Open)
    BY <1>2, <2>3, LeadsMore
  <2>5. Progress(3, k, set, q, a)
    BY <1>2, <2>1, <2>2, <2>4 DEF Progress
  <2> QED BY <2>5 DEF q
<1>7. CASE k \in p.cares /\ set[k] = None /\ p.worn[k] # None /\ p.free = {}
  <2>1. /\ q.sent = p.sent /\ q.worn = p.worn /\ q.cares = p.cares \ {k} /\ q.free = p.free
        /\ q.bagsFull = TRUE
    <3>1. GivenUp(p, q, k)
      BY <1>1, <1>7, TakeOffIs
    <3> HIDE DEF q
    <3> QED BY <3>1 DEF GivenUp
  <2> HIDE DEF q
  <2>2. \A j \in q.cares : j <= k /\ set[j] = None => a[j] = None
    BY <1>1, <1>2, <1>5, <2>1
  <2>3. Filled(set) \subseteq q.cares
    BY <1>2, <1>5, <1>7, <2>1
  <2>4. Settled(3, k - 1, set, p) \subseteq Settled(3, k, set, q)
    BY <1>1, <1>5, <2>1 DEF Settled
  <2>5. Leads(at, p.sent, a, Worn, WantOf(set), Settled(3, k, set, q), Open)
    BY <1>2, <2>4, LeadsMore
  <2>6. Progress(3, k, set, q, a)
    BY <1>2, <2>1, <2>2, <2>3, <2>5 DEF Progress
  <2> QED BY <2>6 DEF q
<1>8. CASE k \in p.cares /\ set[k] = None /\ p.worn[k] # None /\ p.free # {}
  <2>0. PICK dst \in p.free : TakenOff(p, q, k, dst)
    BY <1>1, <1>8, TakeOffIs
  <2>1. /\ q.sent = Append(p.sent, Move(k, dst))
        /\ \A j \in WornSlots : q.worn[j] = IF j = k THEN None ELSE p.worn[j]
        /\ q.cares = p.cares /\ q.free = p.free \ {dst} /\ q.bagsFull = p.bagsFull
    <3> HIDE DEF q
    <3> QED BY <2>0 DEF TakenOff
  <2> HIDE DEF q
  <2>2. k \in Decided(set) /\ ~Locked(k) /\ a[k] # None /\ a[dst] = None
    BY <1>1, <1>2, <1>3, <1>8, DecidedIs
  <2> DEFINE m == Move(k, dst)
             c == Swapped(a, m)
  <2>3. /\ m.src = k /\ m.dst = dst /\ m \in Moves /\ dst \in Places /\ k \in Places /\ dst # k
        /\ k \notin Bank /\ dst \notin Bank /\ dst \notin WornSlots
    <3>1. dst \in Bags
      BY <1>3
    <3>2. dst \in Places /\ dst \notin WornSlots /\ dst \notin Bank /\ k \in Places /\ k \notin Bank
      BY <1>1, <3>1, PlacesAre
    <3> QED BY <1>1, <3>2 DEF Move, Moves
  <2>4. CanSwap(a, m, Open)
    <3>1. MayLie(a[k], dst) /\ MayLie(a[dst], k)
      BY <2>2, <2>3 DEF MayLie
    <3>2. k \in Open /\ dst \in Open
      BY <2>2, <2>3 DEF Open, Reachable
    <3> QED BY <2>2, <2>3, <3>1, <3>2 DEF CanSwap
  <2>5. \A x \in Places : c[x] = IF x = dst THEN a[k] ELSE IF x = k THEN None ELSE a[x]
    <3>1. \A x \in Places : Swapped(a, m)[x] =
            IF x = m.dst THEN a[m.src] ELSE IF x = m.src THEN a[m.dst] ELSE a[x]
      <4> HIDE DEF m
      <4>1. a \in Wearable /\ m \in Moves /\ CanSwap(a, m, Open)
        BY <1>4, <2>3, <2>4
      <4> QED BY <4>1, SwappedIs
    <3> QED BY <2>2, <2>3, <3>1
  <2>6. q.sent = Append(p.sent, m)
    BY <2>1
  <2> HIDE DEF c, m
  <2>7. \A i \in WornSlots : c[i] = IF i = k THEN None ELSE a[i]
    BY <2>3, <2>5, PlacesAre
  <2>8. LeftAlone(c, Worn, WantOf(set))
    <3>1. DOMAIN WantOf(set) = Decided(set)
      BY DEF WantOf
    <3> QED BY <1>4, <2>2, <2>7, <3>1 DEF LeftAlone
  <2>9. Settled(3, k - 1, set, p) \subseteq Settled(3, k, set, q) /\ k \in Settled(3, k, set, q)
    BY <1>1, <1>5, <1>8, <2>1 DEF Settled
  <2>10. Leads(at, Append(p.sent, m), c, Worn, WantOf(set), Settled(3, k, set, q), Open)
    <3>1. WantOf(set)[k] = None
      BY <1>8, <2>2 DEF WantOf
    <3>2. LeftAlone(Swapped(a, m), Worn, WantOf(set)) /\ a[k] # WantOf(set)[k] /\ m \in Moves
      BY <2>2, <2>3, <2>8, <3>1 DEF c
    <3>3. Leads(at, p.sent, a, Worn, WantOf(set), Settled(3, k, set, q), Open)
      BY <1>2, <2>9, LeadsMore
    <3> QED BY <1>3, <2>4, <2>9, <3>2, <3>3, LeadsOn DEF c
  <2>11. \A i \in WornSlots : q.worn[i] = c[i]
    BY <1>2, <2>1, <2>7
  <2>12. \A j \in FromSlots(set) \cup FromStore(set) : c[j] = set[j]
    BY <1>2, <1>5, <1>8, <2>7
  <2>13. \A j \in q.cares : j <= k /\ set[j] = None => c[j] = None
    BY <1>1, <1>2, <1>5, <2>1, <2>7
  <2>14. ASSUME NEW i \in q.free PROVE c[i] = None
    <3>1. a[i] = None /\ i \in Places /\ i # k /\ i # dst
      BY <1>1, <1>2, <1>3, <2>1, PlacesAre
    <3> QED BY <2>5, <3>1
  <2>15. Progress(3, k, set, q, c)
    BY <1>2, <2>1, <2>6, <2>10, <2>11, <2>12, <2>13, <2>14 DEF Progress
  <2> QED BY <2>15 DEF q
<1> QED BY <1>6, <1>7, <1>8

LEMMA ThroughProgress ==
  ASSUME EquipmentSwapAssumption, SlotsCanTrade, at \in Wearable, NEW set \in SetsKept, NEW n \in 1..3,
         NEW q \in Plans(set), NEW a, Progress(n, 0, set, q, a)
  PROVE  \E c : Progress(n, SlotCount, set, Through(n, set, q), c)
<1>1. PICK run : /\ run[0] = q /\ \A i \in 0..SlotCount : run[i] \in Plans(set)
                 /\ \A i \in 1..SlotCount : run[i] = Phase(n, set, run[i - 1], i)
                 /\ run[SlotCount] = Through(n, set, q)
  BY ThroughRuns
<1> DEFINE S == {k \in 0..SlotCount : \E c : Progress(n, k, set, run[k], c)}
<1>2. SlotCount \in Nat /\ 0 \in S
  BY <1>1, PlacesAre
<1>3. ASSUME NEW k \in 1..SlotCount, k - 1 \in S PROVE k \in S
  <2>1. k - 1 \in 0..SlotCount /\ k \in 0..SlotCount /\ k \in WornSlots
    BY <1>2, PlacesAre
  <2>2. PICK b : Progress(n, k - 1, set, run[k - 1], b)
    BY <1>3
  <2> DEFINE p == run[k - 1]
  <2>3. p \in Plans(set) /\ run[k] = Phase(n, set, p, k)
    BY <1>1, <2>1
  <2> HIDE DEF p
  <2>4. Progress(n, k - 1, set, p, b)
    BY <2>2 DEF p
  <2>5. \E c : Progress(n, k, set, run[k], c)
    <3>1. CASE n = 1
      <4>1. run[k] = FromPaperdoll(set, p, k)
        BY <2>3, <3>1 DEF Phase
      <4> QED BY <2>3, <2>4, <3>1, <4>1, FromPaperdollProgress
    <3>2. CASE n = 2
      <4>1. run[k] = FromBag(set, p, k)
        BY <2>3, <3>2 DEF Phase
      <4> QED BY <2>3, <2>4, <3>2, <4>1, FromBagProgress
    <3>3. CASE n = 3
      <4>1. run[k] = TakeOff(set, p, k)
        BY <2>3, <3>3 DEF Phase
      <4> QED BY <2>3, <2>4, <3>3, <4>1, TakeOffProgress
    <3> QED BY <3>1, <3>2, <3>3
  <2> QED BY <2>1, <2>5
<1>4. SlotCount \in S
  <2> HIDE DEF S
  <2>1. \A k \in 0..SlotCount : k \in S
    BY <1>2, <1>3, UpTo
  <2> QED BY <1>2, <2>1
<1> QED BY <1>1, <1>4

(* The plan a call starts from. *)
NoPlan(set) ==
  [worn |-> Worn, sent |-> <<>>, moved |-> {}, cares |-> Decided(set), free |-> FreeSlots, bagsFull |-> FALSE]

LEMMA NoPlanIs ==
  ASSUME EquipmentSwapAssumption, at \in Wearable, NEW set \in SetsKept
  PROVE  NoPlan(set) \in Plans(set) /\ Planned(set) = Through(3, set, Through(2, set, Through(1, set, NoPlan(set))))
<1>1. at \in [Places -> Things] /\ \A i \in WornSlots : i \in Places
  BY WearableIs, PlacesAre
<1>2. Worn \in [WornSlots -> Things] /\ FreeSlots \subseteq Bags /\ <<>> \in Seq(Moves)
  BY <1>1 DEF Worn, FreeSlots
<1> QED BY <1>2 DEF NoPlan, Plans, Planned

LEMMA PlannedIs ==
  ASSUME EquipmentSwapAssumption, at \in Wearable, NEW set \in SetsKept
  PROVE  Planned(set) \in Plans(set)
<1>1. ASSUME NEW n \in 1..3, NEW q \in Plans(set) PROVE Through(n, set, q) \in Plans(set)
  <2>1. SlotCount \in 0..SlotCount
    BY PlacesAre
  <2> QED BY <2>1, ThroughRuns
<1>2. Through(1, set, NoPlan(set)) \in Plans(set)
  BY <1>1, NoPlanIs
<1>3. Through(2, set, Through(1, set, NoPlan(set))) \in Plans(set)
  BY <1>1, <1>2
<1>4. Through(3, set, Through(2, set, Through(1, set, NoPlan(set)))) \in Plans(set)
  BY <1>1, <1>3
<1> QED BY <1>4, NoPlanIs

(* Left alone, the moves of a plan can all be made, one by one, and lead to what the set wants. *)
LEMMA PlanLeads ==
  ASSUME EquipmentSwapAssumption, SlotsCanTrade, at \in Wearable, NEW set \in SetsKept
  PROVE  /\ Planned(set).bagsFull = FALSE => Planned(set).cares = Decided(set)
         /\ \E z : /\ Leads(at, Planned(set).sent, z, Worn, WantOf(set), Planned(set).cares, Open)
                   /\ \A i \in Planned(set).cares : z[i] = set[i]
<1> DEFINE p0 == NoPlan(set)
           p1 == Through(1, set, p0)
           p2 == Through(2, set, p1)
           p3 == Through(3, set, p2)
<1>1. p0 \in Plans(set) /\ p1 \in Plans(set) /\ p2 \in Plans(set) /\ p3 \in Plans(set) /\ Planned(set) = p3
  <2>1. ASSUME NEW n \in 1..3, NEW q \in Plans(set) PROVE Through(n, set, q) \in Plans(set)
    <3>1. SlotCount \in 0..SlotCount
      BY PlacesAre
    <3> QED BY <3>1, ThroughRuns
  <2>2. p0 \in Plans(set)
    BY NoPlanIs
  <2>3. p1 \in Plans(set)
    <3> HIDE DEF p0
    <3> QED BY <2>1, <2>2
  <2>4. p2 \in Plans(set)
    <3> HIDE DEF p1
    <3> QED BY <2>1, <2>3
  <2>5. p3 \in Plans(set)
    <3> HIDE DEF p2
    <3> QED BY <2>1, <2>4
  <2> QED BY <2>2, <2>3, <2>4, <2>5, NoPlanIs
<1>2. \A j \in WornSlots : j \in Int /\ j >= 1 /\ j <= SlotCount
  BY PlacesAre DEF WornSlots
<1>3. \A j \in FromSlots(set) \cup FromStore(set) : j \in WornSlots
  BY DecidedIs DEF FromSlots, FromStore
<1>4. Progress(1, 0, set, p0, at)
  <2>1. /\ p0.worn = Worn /\ p0.sent = <<>> /\ p0.cares = Decided(set) /\ p0.free = FreeSlots /\ p0.bagsFull = FALSE
    BY DEF NoPlan
  <2>2. \A i \in WornSlots : Worn[i] = at[i]
    BY DEF Worn
  <2>3. Leads(at, <<>>, at, Worn, WantOf(set), Settled(1, 0, set, p0), Open)
    BY <2>2, LeadsNowhere DEF LeftAlone
  <2>4. \A j \in FromStore(set) : at[Where(set[j])] = set[j]
    BY DecidedIs DEF FromStore
  <2>5. (\A i \in FreeSlots : at[i] = None) /\ Filled(set) \subseteq Decided(set)
    BY DEF FreeSlots, Filled
  <2>6. \A j \in FromSlots(set) : ~(j <= 0)
    BY <1>2, <1>3
  <2> HIDE DEF p0
  <2> QED BY <2>1, <2>2, <2>3, <2>4, <2>5, <2>6 DEF Progress
<1> HIDE DEF p0
<1>5. PICK a1 : Progress(1, SlotCount, set, p1, a1)
  BY <1>1, <1>4, ThroughProgress
<1> HIDE DEF p1
<1>6. Progress(2, 0, set, p1, a1)
  <2>1. \A j \in FromSlots(set) : a1[j] = set[j]
    BY <1>2, <1>3, <1>5 DEF Progress
  <2>2. \A j \in FromStore(set) : ~(j <= 0)
    BY <1>2, <1>3
  <2>3. Settled(1, SlotCount, set, p1) = Filled(set) /\ Settled(2, 0, set, p1) = Filled(set)
    BY DEF Settled
  <2> QED BY <1>5, <2>1, <2>2, <2>3 DEF Progress
<1>7. PICK a2 : Progress(2, SlotCount, set, p2, a2)
  BY <1>1, <1>6, ThroughProgress
<1> HIDE DEF p2
<1>8. Progress(3, 0, set, p2, a2)
  <2>1. \A j \in FromStore(set) : a2[j] = set[j]
    BY <1>2, <1>3, <1>7 DEF Progress
  <2>2. \A j \in p2.cares : j \in WornSlots /\ ~(j <= 0)
    BY <1>1, <1>2, DecidedIs DEF Plans
  <2>3. Settled(2, SlotCount, set, p2) = Filled(set) /\ Settled(3, 0, set, p2) = Filled(set)
    BY <2>2 DEF Settled
  <2> QED BY <1>7, <2>1, <2>2, <2>3 DEF Progress
<1>9. PICK z : Progress(3, SlotCount, set, p3, z)
  BY <1>1, <1>8, ThroughProgress
<1> HIDE DEF p3
<1>10. p3.cares \subseteq Decided(set) /\ \A j \in p3.cares : j \in WornSlots /\ set[j] \in Things
  BY <1>1, DecidedIs DEF Plans
<1>11. \A i \in p3.cares : z[i] = set[i]
  <2>1. \A i \in p3.cares : i <= SlotCount
    BY <1>2, <1>10
  <2>2. \A i \in p3.cares : set[i] \in Items => i \in FromSlots(set) \cup FromStore(set)
    BY <1>10 DEF FromSlots, FromStore
  <2> QED BY <1>9, <1>10, <2>1, <2>2 DEF Progress, Things
<1>12. Leads(at, p3.sent, z, Worn, WantOf(set), p3.cares, Open)
  <2>1. Settled(3, SlotCount, set, p3) = p3.cares
    BY <1>2, <1>9, <1>10 DEF Settled, Progress
  <2> QED BY <1>9, <2>1 DEF Progress
<1>13. p3.bagsFull = FALSE => p3.cares = Decided(set)
  BY <1>9 DEF Progress
<1> QED BY <1>1, <1>11, <1>12, <1>13

-----------------------------------------------------------------------------
(* Types. *)

SwapTypes == SwapTypeOK /\ req.bagsFull \in BOOLEAN

LEMMA TypesAre ==
  ASSUME SwapTypes
  PROVE  /\ at \in Wearable /\ wire \in Seq(Moves) /\ parked \in SUBSET Moves
         /\ inCombat \in BOOLEAN /\ bankOpen \in BOOLEAN /\ active \in BOOLEAN /\ refused \in BOOLEAN
         /\ trouble \in BOOLEAN /\ req.bagsFull \in BOOLEAN
         /\ req.moved \in SUBSET Items /\ deadline \in 0..SettleTime
         /\ fired \in {"", "success", "failure"}
BY DEF SwapTypes, SwapTypeOK, Moves

LEMMA TypesForm ==
  ASSUME at' \in Wearable, wire' \in Seq(Moves), parked' \in SUBSET Moves,
         inCombat' \in BOOLEAN, bankOpen' \in BOOLEAN, active' \in BOOLEAN, refused' \in BOOLEAN,
         trouble' \in BOOLEAN, req'.bagsFull \in BOOLEAN,
         req'.moved \in SUBSET Items, deadline' \in 0..SettleTime,
         fired' \in {"", "success", "failure"}
  PROVE  SwapTypes'
BY DEF SwapTypes, SwapTypeOK, Moves, Wearable, MayLie

(* What a call of UseEquipmentSet leaves. *)
LEMMA UseIs ==
  ASSUME EquipmentSwapAssumption, at \in Wearable, NEW s \in DOMAIN Sets, NEW held \in Nat,
         NEW w \in Seq(Moves), NEW h \in SUBSET Moves, Use(s, held, w, h)
  PROVE  /\ Sets[s] \in SetsKept
         /\ wire' \in Seq(Moves) /\ parked' \in SUBSET Moves /\ trouble' \in BOOLEAN
         /\ active' = TRUE /\ refused' = FALSE /\ deadline' = SettleTime
         /\ req'.bagsFull = Planned(Sets[s]).bagsFull /\ req'.bagsFull \in BOOLEAN
         /\ req'.moved \in SUBSET Items
         /\ req'.want = [i \in Planned(Sets[s]).cares |-> Sets[s][i]]
         /\ before' = Worn /\ owed' = WantOf(Sets[s])
         /\ ~trouble' => wire' = Planned(Sets[s]).sent /\ parked' = {}
<1> DEFINE p == Planned(Sets[s])
           back == IF held = 0 THEN {} ELSE {p.sent[held]}
           rest == IF held = 0 THEN p.sent ELSE RemoveAt(p.sent, held)
<1>1. Sets[s] \in SetsKept
  BY DEF SetsKept
<1>2. p \in Plans(Sets[s])
  BY <1>1, PlannedIs
<1>3. p.sent \in Seq(Moves) /\ p.moved \in SUBSET Things /\ p.bagsFull \in BOOLEAN
  <2> HIDE DEF p
  <2> QED BY <1>2 DEF Plans
<1>4. /\ held \in 0..Len(p.sent) /\ wire' = w \o rest /\ parked' = h \cup back
      /\ req' = [want |-> [i \in p.cares |-> Sets[s][i]], moved |-> p.moved \ {None}, bagsFull |-> p.bagsFull]
      /\ active' = TRUE /\ refused' = FALSE /\ deadline' = SettleTime
      /\ before' = Worn /\ owed' = WantOf(Sets[s])
      /\ trouble' = (w # <<>> \/ h \cup back # {})
  BY DEF Use, WantOf
<1> HIDE DEF p
<1>5. back \in SUBSET Moves /\ rest \in Seq(Moves)
  <2>1. CASE held = 0
    BY <1>3, <2>1
  <2>2. CASE held # 0
    <3>1. held \in 1..Len(p.sent)
      BY <1>4, <2>2
    <3>2. p.sent[held] \in Moves
      BY <1>3, <3>1
    <3>3. SubSeq(p.sent, 1, held - 1) \in Seq(Moves) /\ SubSeq(p.sent, held + 1, Len(p.sent)) \in Seq(Moves)
      BY <1>3, <3>1
    <3>4. RemoveAt(p.sent, held) \in Seq(Moves)
      BY <3>3 DEF RemoveAt
    <3> QED BY <2>2, <3>2, <3>4
  <2> QED BY <2>1, <2>2
<1>6. ~trouble' => held = 0 /\ w = <<>> /\ parked' = {}
  BY <1>4
<1>7. held = 0 /\ w = <<>> => wire' = p.sent
  BY <1>3, <1>4
<1> HIDE DEF back, rest
<1>8. wire' \in Seq(Moves) /\ parked' \in SUBSET Moves /\ trouble' \in BOOLEAN
  BY <1>4, <1>5
<1>9. /\ req'.bagsFull = p.bagsFull /\ req'.moved \in SUBSET Items
      /\ req'.want = [i \in p.cares |-> Sets[s][i]]
  BY <1>3, <1>4 DEF Things
<1> QED BY <1>1, <1>3, <1>4, <1>6, <1>7, <1>8, <1>9 DEF p

LEMMA FinishTypes ==
  ASSUME EquipmentSwapAssumption, SwapTypes, NEW success \in BOOLEAN, Finish(success), UNCHANGED <<world, acts>>
  PROVE  SwapTypes'
<1>1. fired' \in {"", "success", "failure"} /\ at' \in Wearable /\ inCombat' \in BOOLEAN /\ bankOpen' \in BOOLEAN
  BY TypesAre DEF Finish, world
<1>2. CASE active' = FALSE /\ Forgotten /\ UNCHANGED <<wire, parked, refused, req, lastWorn, deadline, uses>>
  <2>1. trouble' = FALSE
    BY <1>2 DEF Forgotten
  <2> QED BY <1>1, <1>2, <2>1, TypesAre, TypesForm
<1>3. CASE \E s \in DOMAIN Sets : Use(s, 0, wire, parked)
  <2>1. PICK s \in DOMAIN Sets : Use(s, 0, wire, parked)
    BY <1>3
  <2>2. SettleTime \in 0..SettleTime /\ 0 \in Nat
    BY DEF EquipmentSwapAssumption
  <2>3. /\ wire' \in Seq(Moves) /\ parked' \in SUBSET Moves /\ trouble' \in BOOLEAN
        /\ active' = TRUE /\ refused' = FALSE /\ deadline' = SettleTime
        /\ req'.bagsFull \in BOOLEAN /\ req'.moved \in SUBSET Items
    BY <2>1, <2>2, TypesAre, UseIs
  <2> QED BY <1>1, <2>2, <2>3, TypesForm
<1> QED BY <1>2, <1>3 DEF Finish

LEMMA TypesNext ==
  ASSUME EquipmentSwapAssumption, SwapTypes, [SwapNext]_swapVars
  PROVE  SwapTypes'
<1>1. ASSUME NEW s \in DOMAIN Sets, NEW held \in Nat, NEW w \in Seq(Moves), NEW h \in SUBSET Moves,
             Use(s, held, w, h), fired' = "", UNCHANGED world
      PROVE  SwapTypes'
  <2>1. SettleTime \in 0..SettleTime
    BY DEF EquipmentSwapAssumption
  <2>2. /\ wire' \in Seq(Moves) /\ parked' \in SUBSET Moves /\ trouble' \in BOOLEAN
        /\ active' = TRUE /\ refused' = FALSE /\ deadline' = SettleTime
        /\ req'.bagsFull \in BOOLEAN /\ req'.moved \in SUBSET Items
    BY <1>1, TypesAre, UseIs
  <2>3. at' \in Wearable /\ inCombat' \in BOOLEAN /\ bankOpen' \in BOOLEAN
    BY <1>1, TypesAre DEF world
  <2> QED BY <1>1, <2>1, <2>2, <2>3, TypesForm
<1>2. CASE UseEquipmentSet
  <2>1. PICK s \in DOMAIN Sets, held \in 0..IF acts < MaxActs THEN SlotCount ELSE 0 :
          Use(s, held, wire, parked)
    BY <1>2 DEF UseEquipmentSet
  <2>2. held \in Nat /\ fired' = "" /\ UNCHANGED world
    <3>1. (IF acts < MaxActs THEN SlotCount ELSE 0) \in Nat
      BY PlacesAre
    <3>2. held \in Nat
      BY <3>1
    <3> QED BY <1>2, <3>2 DEF UseEquipmentSet
  <2> QED BY <1>1, <2>1, <2>2, TypesAre
<1>3. CASE UseWithinWarning
  <2>1. PICK s \in DOMAIN Sets, t \in DOMAIN Sets : Use(s, 0, wire \o Planned(Sets[t]).sent, parked)
    BY <1>3 DEF UseWithinWarning
  <2>2. fired' = "" /\ UNCHANGED world
    BY <1>3 DEF UseWithinWarning
  <2>3. Sets[t] \in SetsKept
    BY DEF SetsKept
  <2>4. Planned(Sets[t]) \in Plans(Sets[t])
    BY <2>3, TypesAre, PlannedIs
  <2>5. Planned(Sets[t]).sent \in Seq(Moves)
    BY <2>4 DEF Plans
  <2>6. wire \o Planned(Sets[t]).sent \in Seq(Moves)
    <3>1. wire \in Seq(Moves)
      BY TypesAre
    <3> QED BY <2>5, <3>1
  <2> QED BY <1>1, <2>1, <2>2, <2>6, TypesAre
<1>4. CASE OnTick
  <2>1. UNCHANGED <<world, acts>>
    BY <1>4 DEF OnTick
  <2>2. CASE refused /\ Finish(FALSE)
    BY <2>1, <2>2, FinishTypes
  <2>3. CASE Finish(DoneResult)
    <3>1. DoneResult \in BOOLEAN
      BY TypesAre DEF DoneResult
    <3> QED BY <2>1, <2>3, <3>1, FinishTypes
  <2>4. CASE Finish(FALSE)
    BY <2>1, <2>4, FinishTypes
  <2>5. CASE /\ ~(Worn = lastWorn /\ Waits.deadline < 0)
             /\ deadline' = Waits.deadline /\ fired' = ""
             /\ UNCHANGED <<wire, parked, active, refused, req, history, uses>>
    <3>1. deadline' \in 0..SettleTime
      <4>1. deadline \in 0..SettleTime /\ SettleTime \in Nat
        BY TypesAre DEF EquipmentSwapAssumption
      <4>2. Waits.deadline = IF Worn # lastWorn THEN SettleTime ELSE deadline - 1
        BY DEF Waits
      <4>3. deadline' = Waits.deadline /\ ~(Worn = lastWorn /\ Waits.deadline < 0)
        BY <2>5
      <4>4. CASE Worn = lastWorn
        <5>1. deadline' = deadline - 1 /\ ~(deadline' < 0)
          BY <4>2, <4>3, <4>4
        <5> QED BY <4>1, <5>1
      <4>5. CASE Worn # lastWorn
        <5>1. deadline' = SettleTime
          BY <4>2, <4>3, <4>5
        <5> QED BY <4>1, <5>1
      <4> QED BY <4>4, <4>5
    <3>2. at' \in Wearable /\ inCombat' \in BOOLEAN /\ bankOpen' \in BOOLEAN
      BY <2>1, TypesAre DEF world
    <3>3. trouble' \in BOOLEAN
      BY <2>5, TypesAre DEF history
    <3> QED BY <2>5, <3>1, <3>2, <3>3, TypesAre, TypesForm
  <2> QED BY <1>4, <2>2, <2>3, <2>4, <2>5 DEF OnTick
<1>5. CASE OnInGameInit
  <2>1. /\ active' = FALSE /\ fired' = "" /\ trouble' = FALSE
        /\ UNCHANGED <<world, wire, parked, refused, req, lastWorn, deadline, uses>>
    BY <1>5 DEF OnInGameInit, Forgotten
  <2>2. at' \in Wearable /\ inCombat' \in BOOLEAN /\ bankOpen' \in BOOLEAN
    BY <2>1, TypesAre DEF world
  <2> QED BY <2>1, <2>2, TypesAre, TypesForm
<1>6. CASE Accept
  <2>1. /\ wire # <<>> /\ Swaps(Head(wire)) /\ at' = Swapped(at, Head(wire)) /\ wire' = Tail(wire) /\ fired' = ""
        /\ UNCHANGED <<inCombat, bankOpen, parked, pending, history, uses, acts>>
    BY <1>6 DEF Accept, Swapped
  <2>2. Head(wire) \in Moves /\ wire' \in Seq(Moves)
    <3>1. wire \in Seq(Moves)
      BY TypesAre
    <3>2. wire # <<>> /\ wire' = Tail(wire)
      BY <2>1
    <3> QED BY <3>1, <3>2
  <2>3. at' \in Wearable
    <3>1. CanSwap(at, Head(wire), Open)
      BY <2>1, <2>2 DEF Swaps, CanSwap, Open, Moves
    <3> QED BY <2>1, <2>2, <3>1, SwappedIs, TypesAre
  <2>4. /\ parked' = parked /\ inCombat' = inCombat /\ bankOpen' = bankOpen /\ active' = active
        /\ refused' = refused /\ trouble' = trouble /\ req' = req /\ deadline' = deadline
    BY <2>1 DEF pending, history
  <2> QED BY <2>1, <2>2, <2>3, <2>4, TypesAre, TypesForm
<1>7. CASE Refuse
  <2>1. /\ wire # <<>> /\ wire' = Tail(wire) /\ fired' = ""
        /\ UNCHANGED <<world, parked, active, req, lastWorn, deadline, before, owed, uses>>
        /\ trouble' = trouble \/ trouble' = active
        /\ \E named : refused' = (refused \/ (active /\ named \cap req.moved # {}))
    BY <1>7 DEF Refuse
  <2>2. wire' \in Seq(Moves)
    <3>1. wire \in Seq(Moves)
      BY TypesAre
    <3>2. wire # <<>> /\ wire' = Tail(wire)
      BY <2>1
    <3> QED BY <3>1, <3>2
  <2>3. trouble' \in BOOLEAN /\ refused' \in BOOLEAN
    BY <2>1, TypesAre
  <2>4. at' \in Wearable /\ inCombat' \in BOOLEAN /\ bankOpen' \in BOOLEAN
    BY <2>1, TypesAre DEF world
  <2> QED BY <2>1, <2>2, <2>3, <2>4, TypesAre, TypesForm
<1>8. CASE AnswerPrompt
  <2>1. PICK m \in parked : parked' = parked \ {m} /\ wire' \in {wire, Append(wire, m)}
    BY <1>8 DEF AnswerPrompt
  <2>2. fired' = "" /\ UNCHANGED <<world, pending, history, uses, acts>>
    BY <1>8 DEF AnswerPrompt
  <2>3. m \in Moves /\ wire \in Seq(Moves) /\ parked' \in SUBSET Moves
    BY <2>1, TypesAre
  <2>4. wire' \in Seq(Moves)
    BY <2>1, <2>3
  <2>5. /\ at' = at /\ inCombat' = inCombat /\ bankOpen' = bankOpen /\ active' = active
        /\ refused' = refused /\ trouble' = trouble /\ req' = req /\ deadline' = deadline
    BY <2>2 DEF world, pending, history
  <2> QED BY <2>2, <2>3, <2>4, <2>5, TypesAre, TypesForm
<1>9. CASE PlayerActs
  <2>1. trouble' = active /\ fired' = "" /\ UNCHANGED pending /\ (PlayerMoves \/ CombatChanges \/ BankToggles)
    BY <1>9 DEF PlayerActs
  <2>2. active' = active /\ refused' = refused /\ req' = req /\ deadline' = deadline
    BY <2>1 DEF pending
  <2>3. wire' \in Seq(Moves) /\ parked' = parked /\ at' = at
    <3>1. CASE PlayerMoves
      <4>1. PICK p \in Places, q \in Places : wire' = Append(wire, Move(p, q))
        BY <3>1 DEF PlayerMoves
      <4>2. Move(p, q) \in Moves
        BY DEF Move, Moves
      <4>3. wire' \in Seq(Moves)
        <5>1. wire \in Seq(Moves)
          BY TypesAre
        <5> QED BY <4>1, <4>2, <5>1
      <4> QED BY <3>1, <4>3 DEF PlayerMoves, world
    <3>2. CASE CombatChanges BY <3>2, TypesAre DEF CombatChanges
    <3>3. CASE BankToggles BY <3>3, TypesAre DEF BankToggles
    <3> QED BY <2>1, <3>1, <3>2, <3>3
  <2>4. inCombat' \in BOOLEAN /\ bankOpen' \in BOOLEAN
    BY <2>1, TypesAre DEF PlayerMoves, CombatChanges, BankToggles, world
  <2> QED BY <2>1, <2>2, <2>3, <2>4, TypesAre, TypesForm
<1>10. CASE UNCHANGED swapVars
  <2>1. /\ at' = at /\ inCombat' = inCombat /\ bankOpen' = bankOpen /\ wire' = wire /\ parked' = parked
        /\ active' = active /\ refused' = refused /\ trouble' = trouble /\ req' = req /\ deadline' = deadline
        /\ fired' = fired
    BY <1>10 DEF swapVars, world, pending, history
  <2> QED BY <2>1, TypesAre, TypesForm
<1> QED BY <1>2, <1>3, <1>4, <1>5, <1>6, <1>7, <1>8, <1>9, <1>10 DEF SwapNext

LEMMA TypesInit ==
  ASSUME EquipmentSwapAssumption, SwapInit
  PROVE  SwapTypes
<1>1. SettleTime \in Nat /\ 0 \in 0..SettleTime
  BY DEF EquipmentSwapAssumption
<1>2. /\ at \in Wearable /\ {inCombat, bankOpen, active, refused, trouble} \subseteq BOOLEAN
      /\ wire = <<>> /\ parked = {} /\ deadline = 0 /\ fired = ""
      /\ req = [want |-> <<>>, moved |-> {}, bagsFull |-> FALSE]
  BY DEF SwapInit
<1>3. req.moved = {} /\ req.bagsFull = FALSE
  BY <1>2
<1>4. wire \in Seq([src : Places, dst : Places])
  <2>1. <<>> \in Seq(Moves)
    OBVIOUS
  <2> QED BY <1>2, <2>1 DEF Moves
<1> QED BY <1>1, <1>2, <1>3, <1>4 DEF SwapTypes, SwapTypeOK

(* Every item is in one place, where it may lie, whatever sets are used, and whatever the
   server, the prompt and the player do. *)
THEOREM SwapTypeCorrect ==
  ASSUME EquipmentSwapAssumption
  PROVE  SwapSpec => []SwapTypeOK
<1>1. SwapInit => SwapTypes
  BY TypesInit
<1>2. SwapTypes /\ [SwapNext]_swapVars => SwapTypes'
  BY TypesNext
<1>3. SwapTypes => SwapTypeOK
  BY DEF SwapTypes
<1> QED BY <1>1, <1>2, <1>3, PTL DEF SwapSpec

-----------------------------------------------------------------------------
(* A swap in flight that nothing came between: what is on the wire leads to what the set wants. *)

Flight ==
  /\ active /\ refused => trouble
  /\ active => \A i \in DOMAIN req.want : req.want[i] = owed[i]
  /\ active /\ req.bagsFull = FALSE => DOMAIN req.want = DOMAIN owed
  /\ active /\ ~trouble =>
       /\ parked = {}
       /\ \E z : /\ Leads(at, wire, z, before, owed, DOMAIN req.want, Open)
                 /\ \A i \in DOMAIN req.want : z[i] = owed[i]

FlightInv == SwapTypes /\ Flight

LEMMA UseFlies ==
  ASSUME EquipmentSwapAssumption, SlotsCanTrade, SwapTypes, NEW s \in DOMAIN Sets, NEW held \in Nat,
         NEW w \in Seq(Moves), NEW h \in SUBSET Moves, Use(s, held, w, h), UNCHANGED world
  PROVE  Flight'
<1> DEFINE set == Sets[s]
           p == Planned(set)
<1>1. /\ set \in SetsKept /\ trouble' \in BOOLEAN /\ active' = TRUE /\ refused' = FALSE
      /\ req'.bagsFull = p.bagsFull /\ req'.want = [i \in p.cares |-> set[i]]
      /\ before' = Worn /\ owed' = WantOf(set) /\ (~trouble' => wire' = p.sent /\ parked' = {})
  BY TypesAre, UseIs
<1>2. p \in Plans(set)
  BY <1>1, TypesAre, PlannedIs
<1>3. /\ p.bagsFull = FALSE => p.cares = Decided(set)
      /\ \E z : /\ Leads(at, p.sent, z, Worn, WantOf(set), p.cares, Open) /\ \A i \in p.cares : z[i] = set[i]
  BY <1>1, TypesAre, PlanLeads
<1> HIDE DEF p, set
<1>4. p.cares \in SUBSET Decided(set)
  BY <1>2 DEF Plans
<1>5. /\ DOMAIN req'.want = p.cares /\ \A i \in p.cares : req'.want[i] = set[i]
      /\ DOMAIN owed' = Decided(set) /\ \A i \in p.cares : owed'[i] = set[i]
  BY <1>1, <1>4 DEF WantOf
<1>6. at' = at /\ Open' = Open
  BY DEF world, Open, Reachable, Locked
<1>7. ASSUME ~trouble'
      PROVE  /\ parked' = {}
             /\ \E z : /\ Leads(at', wire', z, before', owed', DOMAIN req'.want, Open')
                       /\ \A i \in DOMAIN req'.want : z[i] = owed'[i]
  <2>1. PICK z : Leads(at, p.sent, z, Worn, WantOf(set), p.cares, Open) /\ \A i \in p.cares : z[i] = set[i]
    BY <1>3
  <2>2. Leads(at', wire', z, before', owed', DOMAIN req'.want, Open')
    BY <1>1, <1>5, <1>6, <1>7, <2>1
  <2>3. \A i \in DOMAIN req'.want : z[i] = owed'[i]
    BY <1>5, <2>1
  <2> QED BY <1>1, <1>7, <2>2, <2>3
<1>8. (\E z : /\ Leads(at, wire, z, before, owed, DOMAIN req.want, Open)
              /\ \A i \in DOMAIN req.want : z[i] = owed[i])' <=>
      (\E z : /\ Leads(at', wire', z, before', owed', DOMAIN req'.want, Open')
              /\ \A i \in DOMAIN req'.want : z[i] = owed'[i])
  BY DEF Leads, Way, CanSwap, Swapped, LeftAlone, Wearable, MayLie
<1> QED BY <1>1, <1>3, <1>5, <1>7, <1>8 DEF Flight

(* The server makes the moves of such a swap, and until the last is made something is missing. *)
LEMMA NextIsMade ==
  ASSUME EquipmentSwapAssumption, SwapTypes, Flight, active, ~trouble, wire # <<>>
  PROVE  /\ Swaps(Head(wire)) /\ \E i \in DOMAIN req.want : at[i] # owed[i]
         /\ \E z : /\ Leads(Swapped(at, Head(wire)), Tail(wire), z, before, owed, DOMAIN req.want, Open)
                   /\ \A i \in DOMAIN req.want : z[i] = owed[i]
<1>1. PICK z : /\ Leads(at, wire, z, before, owed, DOMAIN req.want, Open)
               /\ \A i \in DOMAIN req.want : z[i] = owed[i]
  BY DEF Flight
<1>2. wire \in Seq(Moves)
  BY TypesAre
<1>3. /\ CanSwap(at, Head(wire), Open) /\ \E i \in DOMAIN req.want : at[i] # owed[i]
      /\ Leads(Swapped(at, Head(wire)), Tail(wire), z, before, owed, DOMAIN req.want, Open)
  BY <1>1, <1>2, LeadsNext
<1>4. Swaps(Head(wire))
  BY <1>3 DEF CanSwap, Swaps, Open
<1> QED BY <1>1, <1>3, <1>4

(* When they are all made, nothing is missing. *)
LEMMA NothingIsMissing ==
  ASSUME Flight, active, ~trouble, wire = <<>>
  PROVE  \A i \in DOMAIN req.want : at[i] = owed[i]
<1>1. PICK z : /\ Leads(at, wire, z, before, owed, DOMAIN req.want, Open)
               /\ \A i \in DOMAIN req.want : z[i] = owed[i]
  BY DEF Flight
<1>2. Leads(at, <<>>, z, before, owed, DOMAIN req.want, Open)
  BY <1>1
<1>3. z = at
  BY <1>2, LeadsEmpty
<1> QED BY <1>1, <1>3

LEMMA FlightNext ==
  ASSUME EquipmentSwapAssumption, SlotsCanTrade, FlightInv, [SwapNext]_swapVars
  PROVE  FlightInv'
<1> USE DEF FlightInv
<1>1. SwapTypes'
  BY TypesNext
<1>2. ASSUME ~active' PROVE Flight'
  BY <1>2 DEF Flight
<1>3. ASSUME active' = active, refused' \in BOOLEAN, refused' => trouble', req' = req, owed' = owed, trouble' = TRUE
      PROVE  Flight'
  BY <1>3 DEF Flight
<1>4. ASSUME UNCHANGED <<at, inCombat, bankOpen, wire, parked, active, refused, req, before, owed, trouble>>
      PROVE  Flight'
  <2>1. Open' = Open
    BY <1>4 DEF Open, Reachable, Locked
  <2>2. (\E z : /\ Leads(at, wire, z, before, owed, DOMAIN req.want, Open)
                /\ \A i \in DOMAIN req.want : z[i] = owed[i])' <=>
        (\E z : /\ Leads(at, wire, z, before, owed, DOMAIN req.want, Open)
                /\ \A i \in DOMAIN req.want : z[i] = owed[i])
    BY <1>4, <2>1 DEF Leads, Way, CanSwap, Swapped, LeftAlone, Wearable, MayLie
  <2> QED BY <1>4, <2>2 DEF Flight
<1>5. CASE UseEquipmentSet
  <2>1. PICK s \in DOMAIN Sets, held \in 0..IF acts < MaxActs THEN SlotCount ELSE 0 :
          Use(s, held, wire, parked)
    BY <1>5 DEF UseEquipmentSet
  <2>2. held \in Nat /\ UNCHANGED world
    <3>1. (IF acts < MaxActs THEN SlotCount ELSE 0) \in Nat
      BY PlacesAre
    <3>2. held \in Nat
      BY <3>1
    <3> QED BY <1>5, <3>2 DEF UseEquipmentSet
  <2>3. Flight'
    BY <2>1, <2>2, TypesAre, UseFlies
  <2> QED BY <1>1, <2>3
<1>6. CASE UseWithinWarning
  <2>1. PICK s \in DOMAIN Sets, t \in DOMAIN Sets : Use(s, 0, wire \o Planned(Sets[t]).sent, parked)
    BY <1>6 DEF UseWithinWarning
  <2>2. UNCHANGED world /\ Sets[t] \in SetsKept
    BY <1>6 DEF UseWithinWarning, SetsKept
  <2>3. Planned(Sets[t]) \in Plans(Sets[t])
    BY <2>2, TypesAre, PlannedIs
  <2>4. wire \o Planned(Sets[t]).sent \in Seq(Moves)
    <3>1. wire \in Seq(Moves) /\ Planned(Sets[t]).sent \in Seq(Moves)
      BY <2>3, TypesAre DEF Plans
    <3> QED BY <3>1
  <2>5. Flight'
    BY <2>1, <2>2, <2>4, TypesAre, UseFlies
  <2> QED BY <1>1, <2>5
<1>7. CASE OnTick
  <2>1. UNCHANGED world
    BY <1>7 DEF OnTick
  <2>2. ASSUME NEW success \in BOOLEAN, Finish(success) PROVE Flight'
    <3>1. CASE active' = FALSE
      BY <1>2, <3>1
    <3>2. CASE \E s \in DOMAIN Sets : Use(s, 0, wire, parked)
      BY <2>1, <3>2, TypesAre, UseFlies
    <3> QED BY <2>2, <3>1, <3>2 DEF Finish
  <2>3. CASE Finish(FALSE)
    BY <1>1, <2>2, <2>3
  <2>4. CASE Finish(DoneResult)
    <3>1. DoneResult \in BOOLEAN
      BY TypesAre DEF DoneResult
    <3> QED BY <1>1, <2>2, <2>4, <3>1
  <2>5. CASE UNCHANGED <<wire, parked, active, refused, req, history, uses>>
    <3>1. UNCHANGED <<at, inCombat, bankOpen, wire, parked, active, refused, req, before, owed, trouble>>
      BY <2>1, <2>5 DEF world, history
    <3> QED BY <1>1, <1>4, <3>1
  <2> QED BY <1>7, <2>3, <2>4, <2>5 DEF OnTick
<1>8. CASE OnInGameInit
  BY <1>1, <1>2, <1>8 DEF OnInGameInit
<1>9. CASE Accept
  <2>1. /\ wire # <<>> /\ at' = Swapped(at, Head(wire)) /\ wire' = Tail(wire)
        /\ inCombat' = inCombat /\ bankOpen' = bankOpen /\ parked' = parked
        /\ active' = active /\ refused' = refused /\ req' = req
        /\ before' = before /\ owed' = owed /\ trouble' = trouble
    BY <1>9 DEF Accept, Swapped, pending, history
  <2>2. Open' = Open
    BY <2>1 DEF Open, Reachable, Locked
  <2>3. ASSUME active, ~trouble
        PROVE  \E z : /\ Leads(at', wire', z, before', owed', DOMAIN req'.want, Open')
                      /\ \A i \in DOMAIN req'.want : z[i] = owed'[i]
    BY <2>1, <2>2, <2>3, NextIsMade
  <2>4. (\E z : /\ Leads(at, wire, z, before, owed, DOMAIN req.want, Open)
                /\ \A i \in DOMAIN req.want : z[i] = owed[i])' <=>
        (\E z : /\ Leads(at', wire', z, before', owed', DOMAIN req'.want, Open')
                /\ \A i \in DOMAIN req'.want : z[i] = owed'[i])
    BY DEF Leads, Way, CanSwap, Swapped, LeftAlone, Wearable, MayLie
  <2>5. Flight'
    BY <2>1, <2>3, <2>4 DEF Flight
  <2> QED BY <1>1, <2>5
<1>10. CASE Refuse
  <2>1. /\ wire # <<>> /\ active' = active /\ req' = req /\ owed' = owed
        /\ \/ ~Swaps(Head(wire)) /\ trouble' = trouble
           \/ trouble' = active
    BY <1>10 DEF Refuse
  <2>2. active => trouble'
    <3>1. active /\ ~trouble => Swaps(Head(wire))
      BY <2>1, NextIsMade
    <3>2. CASE ~Swaps(Head(wire)) /\ trouble' = trouble
      BY <3>1, <3>2
    <3>3. CASE trouble' = active
      BY <3>3
    <3> QED BY <2>1, <3>2, <3>3
  <2>3. Flight'
    BY <1>2, <2>1, <2>2 DEF Flight
  <2> QED BY <1>1, <2>3
<1>11. CASE AnswerPrompt
  <2>1. parked # {} /\ UNCHANGED <<pending, history>>
    BY <1>11 DEF AnswerPrompt
  <2>2. active' = active /\ refused' = refused /\ req' = req /\ owed' = owed /\ trouble' = trouble
    BY <2>1 DEF pending, history
  <2>3. Flight'
    BY <2>1, <2>2 DEF Flight
  <2> QED BY <1>1, <2>3
<1>12. CASE PlayerActs
  <2>1. active' = active /\ refused' = refused /\ req' = req /\ owed' = owed /\ trouble' = active
    BY <1>12 DEF PlayerActs, pending
  <2>2. Flight'
    BY <2>1 DEF Flight
  <2> QED BY <1>1, <2>2
<1>13. CASE UNCHANGED swapVars
  <2>1. UNCHANGED <<at, inCombat, bankOpen, wire, parked, active, refused, req, before, owed, trouble>>
    BY <1>13 DEF swapVars, world, pending, history
  <2> QED BY <1>1, <1>4, <2>1
<1> QED BY <1>5, <1>6, <1>7, <1>8, <1>9, <1>10, <1>11, <1>12, <1>13 DEF SwapNext

LEMMA FlightInit ==
  ASSUME EquipmentSwapAssumption, SwapInit
  PROVE  FlightInv
<1>1. SwapTypes /\ active = FALSE
  BY TypesInit DEF SwapInit
<1> QED BY <1>1 DEF FlightInv, Flight

(* While nothing comes between, a slot that the set leaves alone keeps its item, unless the set
   wants that very item elsewhere, for any sets, slots, items, bags and bank, wherever the
   slots that hold an item the set wants can trade with the slot it is wanted in. *)
THEOREM SlotsAreLeftAlone ==
  ASSUME EquipmentSwapAssumption, SlotsCanTrade
  PROVE  SwapSpec => []OthersAreLeftAlone
<1>1. SwapInit => FlightInv
  BY FlightInit
<1>2. FlightInv /\ [SwapNext]_swapVars => FlightInv'
  BY FlightNext
<1>3. FlightInv => OthersAreLeftAlone
  <2> SUFFICES ASSUME SwapTypes, Flight, active, ~trouble
               PROVE  \A i \in WornSlots \ DOMAIN owed : at[i] = before[i] \/ before[i] \in Range(owed)
    BY DEF FlightInv, OthersAreLeftAlone
  <2>1. PICK z : Leads(at, wire, z, before, owed, DOMAIN req.want, Open)
    BY DEF Flight
  <2>2. wire \in Seq(Moves)
    BY TypesAre
  <2>3. LeftAlone(at, before, owed)
    BY <2>1, <2>2, LeadsFrom
  <2> QED BY <2>3 DEF LeftAlone
<1> QED BY <1>1, <1>2, <1>3, PTL DEF SwapSpec

LEMMA HonestStep ==
  ASSUME EquipmentSwapAssumption, FlightInv, SwapNext
  PROVE  /\ fired' = "success" => (\A i \in DOMAIN owed : at[i] = owed[i]) /\ (trouble \/ wire = <<>>)
         /\ fired' = "failure" => trouble \/ req.bagsFull \/ wire # <<>>
<1> USE DEF FlightInv
<1>1. CASE ~OnTick
  <2>1. fired' = ""
    BY <1>1 DEF SwapNext, UseEquipmentSet, UseWithinWarning, OnInGameInit, Accept, Refuse, AnswerPrompt, PlayerActs
  <2> QED BY <2>1
<1>2. CASE OnTick
  <2>1. active
    BY <1>2 DEF OnTick
  <2>2. CASE refused
    <3>1. fired' = "failure" /\ trouble
      BY <1>2, <2>1, <2>2 DEF OnTick, Finish, Flight
    <3> QED BY <3>1
  <2>3. CASE ~refused /\ Done
    <3>1. fired' = IF DoneResult THEN "success" ELSE "failure"
      BY <1>2, <2>3 DEF OnTick, Finish
    <3>2. CASE req.bagsFull = TRUE
      <4>1. fired' = "failure"
        BY <3>1, <3>2 DEF DoneResult
      <4> QED BY <3>2, <4>1
    <3>3. CASE req.bagsFull = FALSE
      <4>1. fired' = "success"
        BY <3>1, <3>3 DEF DoneResult
      <4>2. DOMAIN req.want = DOMAIN owed /\ \A i \in DOMAIN req.want : at[i] = owed[i]
        BY <2>1, <2>3, <3>3 DEF Flight, Done
      <4>3. trouble \/ wire = <<>>
        BY <2>1, <4>2, NextIsMade
      <4> QED BY <4>1, <4>2, <4>3
    <3> QED BY <3>2, <3>3, TypesAre
  <2>4. CASE ~refused /\ ~Done
    <3>1. fired' \in {"", "failure"}
      BY <1>2, <2>4 DEF OnTick, Finish
    <3>2. trouble \/ wire # <<>>
      BY <2>1, <2>4, NothingIsMissing DEF Done, Flight
    <3> QED BY <3>1, <3>2
  <2> QED BY <2>2, <2>3, <2>4
<1> QED BY <1>1, <1>2

(* The result a swap is reported with is true of it, and a failure has a cause outside the plan,
   for any sets, slots, items, bags and bank, any answers of the server and any doings of the
   player, under the same condition. *)
THEOREM ResultsAreHonest ==
  ASSUME EquipmentSwapAssumption, SlotsCanTrade
  PROVE  SwapSpec => ResultIsHonest
<1>1. SwapInit => FlightInv
  BY FlightInit
<1>2. FlightInv /\ [SwapNext]_swapVars => FlightInv'
  BY FlightNext
<1>3. FlightInv /\ [SwapNext]_swapVars =>
        [/\ fired' = "success" => /\ \A i \in DOMAIN owed : at[i] = owed[i]
                                  /\ trouble \/ wire = <<>>
         /\ fired' = "failure" => trouble \/ req.bagsFull \/ wire # <<>>]_swapVars
  BY HonestStep
<1> QED BY <1>1, <1>2, <1>3, PTL DEF SwapSpec, ResultIsHonest
=============================================================================
