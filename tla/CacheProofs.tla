---------------------------- MODULE CacheProofs ----------------------------
(***************************************************************************)
(* Proofs about what the library keeps beside the engine's own caches.     *)
(*                                                                         *)
(* Item records, for any records, requests, answers, timeouts and budgets, *)
(* in any order: the queue holds what is owed to addons, once each and     *)
(* with its event, and a record is reported missing only when the server   *)
(* said so, or its answers were lost as often as the client asks again.    *)
(*                                                                         *)
(* Player names, for any realms, players and names, any save that fails    *)
(* and any end of the process: readers get, and the files hold, the last   *)
(* word on every player.                                                   *)
(***************************************************************************)
EXTENDS ItemData, NameCache, FiniteSetTheorems, SequenceTheorems, FoldLemmas

-----------------------------------------------------------------------------
(* Item records. *)

Owing == {"none", "implicit", "explicit"}

Named(q) == {q[n].item : n \in DOMAIN q}

(* What an entry tells of its queries, the records being c and the answers under way a. *)
Honest(e, c, a) ==
  /\ e.failed => e.item \notin Known
  /\ e.timeouts < MaxTimeouts
  /\ ~e.sentOnce => e.timeouts = 0 /\ ~e.issued
  /\ e.item \in Known /\ c[e.item] # "loaded" /\ e.item \notin a
       => e.timeouts + (IF e.issued THEN 1 ELSE 0) <= e.lost + 1

(* The queue q and the debts d tell the same. *)
Distinct(q) == \A m, n \in DOMAIN q : q[m].item = q[n].item => m = n
SameItems(q, d) == Named(q) = {i \in Items : d[i] # "none"}
SameEvents(q, d) == \A n \in DOMAIN q : (d[q[n].item] = "implicit") <=> q[n].implicit

Agree(q, d) ==
  /\ q \in Seq(Entry) /\ d \in [Items -> Owing]
  /\ Distinct(q) /\ Len(q) <= MaxPending
  /\ SameItems(q, d) /\ SameEvents(q, d)

AllHonest(q, c, a) == \A n \in DOMAIN q : Honest(q[n], c, a)

Types ==
  /\ world \in {"in", "leaving", "away", "arriving"}
  /\ cache \in [Items -> {"none", "pending", "loaded"}]
  /\ called \subseteq Items /\ answers \subseteq Items /\ waiting \subseteq Items
  /\ settled \in BOOLEAN /\ prefetched \in BOOLEAN
  /\ sinceEntered \in -1..Settle /\ sinceSent \in 0..Spacing
  /\ walk \in [kind : {"none", "sweep", "tick"}, i : Int, owned : Int, bg : BOOLEAN]
  /\ event \in [kind : {"none", "implicit", "explicit", "ready"}, item : Items \cup {"none"},
               ok : BOOLEAN]
  /\ asks \in 0..MaxAsks /\ turns \in 0..MaxTurns

Completed == IF event.kind \in {"implicit", "explicit"} THEN {event.item} ELSE {}

NothingStrands == waiting \subseteq Named(pending) \cup Completed

Inv ==
  /\ Types /\ Agree(pending, owed) /\ AllHonest(pending, cache, answers) /\ NothingStrands

-----------------------------------------------------------------------------
(* An item is in the queue once: there are as many items as entries. *)
LEMMA CountOfDistinct ==
  ASSUME NEW q \in Seq(Entry), Distinct(q)
  PROVE  Cardinality(Named(q)) = Len(q)
<1> DEFINE f == [n \in 1..Len(q) |-> q[n].item]
<1>1. Len(q) \in Nat /\ DOMAIN q = 1..Len(q)
  OBVIOUS
<1>2. f \in Bijection(1..Len(q), Named(q))
  BY <1>1 DEF Bijection, Injection, Surjection, IsInjective, Distinct, Named
<1>3. ExistsBijection(1..Len(q), Named(q))
  BY <1>2 DEF ExistsBijection
<1>4. IsFiniteSet(Named(q))
  <2>1. IsFiniteSet(1..Len(q))
    BY <1>1, FS_Interval
  <2> QED BY <2>1, <1>3, FS_Bijection
<1> QED BY <1>1, <1>3, <1>4, FS_CountingElements

(* The requests of a walk over equipped items, one at a time. *)
LEMMA TrackType ==
  ASSUME ItemDataAssumption, NEW q \in Seq(Entry), NEW item \in Items, NEW implicit \in BOOLEAN
  PROVE  Track(q, item, implicit) \in Seq(Entry)
<1> USE ItemDataAssumption
<1>1. NewEntry(item, implicit) \in Entry
  BY DEF NewEntry, Entry
<1>2. ASSUME NEW n \in DOMAIN q PROVE [q[n] EXCEPT !.implicit = FALSE] \in Entry
  <2>1. q[n] \in Entry
    BY <1>2
  <2> QED BY <2>1 DEF Entry
<1>3. [n \in DOMAIN q |-> IF q[n].item = item /\ ~implicit THEN [q[n] EXCEPT !.implicit = FALSE]
                          ELSE q[n]] \in Seq(Entry)
  <2> HIDE DEF Entry
  <2> QED BY <1>2
<1>4. Append(q, NewEntry(item, implicit)) \in Seq(Entry)
  BY <1>1
<1>5. LET there == {n \in DOMAIN q : q[n].item = item} IN
  [n \in DOMAIN q |->
       IF n \in there /\ ~implicit THEN [q[n] EXCEPT !.implicit = FALSE] ELSE q[n]]
   = [n \in DOMAIN q |-> IF q[n].item = item /\ ~implicit THEN [q[n] EXCEPT !.implicit = FALSE]
                          ELSE q[n]]
  OBVIOUS
<1> QED BY <1>3, <1>4, <1>5 DEF Track

LEMMA TrackRuns ==
  ASSUME ItemDataAssumption, NEW q \in Seq(Entry), NEW items \in Seq(Items), NEW implicit \in BOOLEAN
  PROVE  \E g : /\ g[0] = q
                /\ \A i \in 1..Len(items) : g[i] = Track(g[i - 1], items[i], implicit)
                /\ g[Len(items)] = FoldLeft(LAMBDA p, item : Track(p, item, implicit), q, items)
<1> DEFINE n == Len(items)
           D == Seq(Entry)
           T(p, i) == Track(p, items[i], implicit)
           step == [x \in D \X (1..n) |-> T(x[1], x[2])]
<1>1. n \in Nat /\ DOMAIN items = 1..n /\ q \in D
  OBVIOUS
<1>2. ASSUME NEW p \in D, NEW i \in 1..n PROVE T(p, i) \in D
  <2>1. items[i] \in Items
    OBVIOUS
  <2>2. p \in Seq(Entry)
    OBVIOUS
  <2> HIDE DEF n, D
  <2>3. Track(p, items[i], implicit) \in Seq(Entry)
    BY <2>1, <2>2, TrackType
  <2> QED BY <2>3 DEF D
<1>3. step \in [D \X (1..n) -> D]
  <2> HIDE DEF D, n, T
  <2> QED BY <1>2
<1>4. \A p \in D, i \in 1..n : step[p, i] = T(p, i)
  <2> HIDE DEF D, n, T
  <2> QED OBVIOUS
<1>5. PICK f : Walks(f, n, D, q, step)
  <2> HIDE DEF D, n, step
  <2> QED BY <1>1, <1>3, WalkExists
<1>6. f = [s \in SUBSET DOMAIN items |-> IF s = {} THEN q ELSE T(f[s \ {Max(s)}], Max(s))]
  <2> HIDE DEF step, n, D, T, Max
  <2>1. \A s \in SUBSET (1..n) : s # {} => Max(s) \in 1..n
    BY <1>1, MaxIsIn
  <2>2. \A s \in SUBSET (1..n) : s # {} => step[f[s \ {Max(s)}], Max(s)] = T(f[s \ {Max(s)}], Max(s))
    <3>1. \A s \in SUBSET (1..n) : s \ {Max(s)} \in SUBSET (1..n)
      OBVIOUS
    <3>2. \A s \in SUBSET (1..n) : f[s] \in D
      BY <1>5 DEF Walks
    <3> QED BY <1>4, <3>1, <3>2, <2>1
  <2>3. f \in [SUBSET (1..n) -> D] /\ \A s \in SUBSET (1..n) : f[s] = IF s = {} THEN q ELSE T(f[s \ {Max(s)}], Max(s))
    BY <1>5, <2>2 DEF Walks
  <2> QED BY <1>1, <2>3
<1>7. PICK h : /\ h = [s \in SUBSET DOMAIN items |-> IF s = {} THEN q ELSE T(h[s \ {Max(s)}], Max(s))]
               /\ FoldLeft(LAMBDA p, item : Track(p, item, implicit), q, items) = h[DOMAIN items]
  BY <1>6 DEF FoldLeft, MapThenFoldSet
<1>8. h[{}] = q /\ \A i \in 1..n : h[1..i] = T(h[1..(i - 1)], i)
  <2> HIDE DEF T, Max, n
  <2>1. \A i \in 1..n : /\ Max(1..i) = i /\ (1..i) \ {Max(1..i)} = 1..(i - 1)
                        /\ 1..i \in SUBSET DOMAIN items /\ 1..i # {}
    <3> SUFFICES ASSUME NEW i \in 1..n
                 PROVE  /\ Max(1..i) = i /\ (1..i) \ {Max(1..i)} = 1..(i - 1)
                        /\ 1..i \in SUBSET DOMAIN items /\ 1..i # {}
      OBVIOUS
    <3>1. i \in Nat \ {0} /\ 1..i \in SUBSET (1..n) /\ i \in 1..i
      BY <1>1
    <3> QED BY <1>1, <3>1, MaxOfUpTo
  <2> QED BY <1>7, <2>1
<1> DEFINE g == [i \in 0..n |-> h[1..i]]
<1>9. g[0] = q /\ (\A i \in 1..n : g[i] = T(g[i - 1], i)) /\ g[n] = h[DOMAIN items]
  <2> HIDE DEF T, n
  <2>1. 1..0 = {} /\ 0 \in 0..n /\ n \in 0..n /\ \A i \in 1..n : i \in 0..n /\ i - 1 \in 0..n
    BY <1>1
  <2> QED BY <1>1, <1>8, <2>1
<1> HIDE DEF g
<1> QED BY <1>7, <1>9

(* What a walk adds to the debts, one item at a time. *)
LEMMA OweType ==
  ASSUME ItemDataAssumption, NEW d \in [Items -> Owing], NEW item \in Items, NEW implicit \in BOOLEAN
  PROVE  Owe(d, item, implicit) \in [Items -> Owing]
  BY DEF Owe, Owing

LEMMA OweRuns ==
  ASSUME ItemDataAssumption, NEW q \in [Items -> Owing], NEW items \in Seq(Items), NEW implicit \in BOOLEAN
  PROVE  \E g : /\ g[0] = q
                /\ \A i \in 1..Len(items) : g[i] = Owe(g[i - 1], items[i], implicit)
                /\ g[Len(items)] = FoldLeft(LAMBDA p, item : Owe(p, item, implicit), q, items)
<1> DEFINE n == Len(items)
           D == [Items -> Owing]
           T(p, i) == Owe(p, items[i], implicit)
           step == [x \in D \X (1..n) |-> T(x[1], x[2])]
<1>1. n \in Nat /\ DOMAIN items = 1..n /\ q \in D
  OBVIOUS
<1>2. ASSUME NEW p \in D, NEW i \in 1..n PROVE T(p, i) \in D
  <2>1. items[i] \in Items
    OBVIOUS
  <2>2. p \in [Items -> Owing]
    OBVIOUS
  <2> HIDE DEF n, D
  <2>3. Owe(p, items[i], implicit) \in [Items -> Owing]
    BY <2>1, <2>2, OweType
  <2> QED BY <2>3 DEF D
<1>3. step \in [D \X (1..n) -> D]
  <2> HIDE DEF D, n, T
  <2> QED BY <1>2
<1>4. \A p \in D, i \in 1..n : step[p, i] = T(p, i)
  <2> HIDE DEF D, n, T
  <2> QED OBVIOUS
<1>5. PICK f : Walks(f, n, D, q, step)
  <2> HIDE DEF D, n, step
  <2> QED BY <1>1, <1>3, WalkExists
<1>6. f = [s \in SUBSET DOMAIN items |-> IF s = {} THEN q ELSE T(f[s \ {Max(s)}], Max(s))]
  <2> HIDE DEF step, n, D, T, Max
  <2>1. \A s \in SUBSET (1..n) : s # {} => Max(s) \in 1..n
    BY <1>1, MaxIsIn
  <2>2. \A s \in SUBSET (1..n) : s # {} => step[f[s \ {Max(s)}], Max(s)] = T(f[s \ {Max(s)}], Max(s))
    <3>1. \A s \in SUBSET (1..n) : s \ {Max(s)} \in SUBSET (1..n)
      OBVIOUS
    <3>2. \A s \in SUBSET (1..n) : f[s] \in D
      BY <1>5 DEF Walks
    <3> QED BY <1>4, <3>1, <3>2, <2>1
  <2>3. f \in [SUBSET (1..n) -> D] /\ \A s \in SUBSET (1..n) : f[s] = IF s = {} THEN q ELSE T(f[s \ {Max(s)}], Max(s))
    BY <1>5, <2>2 DEF Walks
  <2> QED BY <1>1, <2>3
<1>7. PICK h : /\ h = [s \in SUBSET DOMAIN items |-> IF s = {} THEN q ELSE T(h[s \ {Max(s)}], Max(s))]
               /\ FoldLeft(LAMBDA p, item : Owe(p, item, implicit), q, items) = h[DOMAIN items]
  BY <1>6 DEF FoldLeft, MapThenFoldSet
<1>8. h[{}] = q /\ \A i \in 1..n : h[1..i] = T(h[1..(i - 1)], i)
  <2> HIDE DEF T, Max, n
  <2>1. \A i \in 1..n : /\ Max(1..i) = i /\ (1..i) \ {Max(1..i)} = 1..(i - 1)
                        /\ 1..i \in SUBSET DOMAIN items /\ 1..i # {}
    <3> SUFFICES ASSUME NEW i \in 1..n
                 PROVE  /\ Max(1..i) = i /\ (1..i) \ {Max(1..i)} = 1..(i - 1)
                        /\ 1..i \in SUBSET DOMAIN items /\ 1..i # {}
      OBVIOUS
    <3>1. i \in Nat \ {0} /\ 1..i \in SUBSET (1..n) /\ i \in 1..i
      BY <1>1
    <3> QED BY <1>1, <3>1, MaxOfUpTo
  <2> QED BY <1>7, <2>1
<1> DEFINE g == [i \in 0..n |-> h[1..i]]
<1>9. g[0] = q /\ (\A i \in 1..n : g[i] = T(g[i - 1], i)) /\ g[n] = h[DOMAIN items]
  <2> HIDE DEF T, n
  <2>1. 1..0 = {} /\ 0 \in 0..n /\ n \in 0..n /\ \A i \in 1..n : i \in 0..n /\ i - 1 \in 0..n
    BY <1>1
  <2> QED BY <1>1, <1>8, <2>1
<1> HIDE DEF g
<1> QED BY <1>7, <1>9

-----------------------------------------------------------------------------
(* A request keeps the queue and the debts in agreement. *)
LEMMA AppendAgrees ==
  ASSUME ItemDataAssumption, NEW q, NEW d, Agree(q, d), NEW item \in Items, NEW implicit \in BOOLEAN,
         d[item] = "none", Len(q) < MaxPending
  PROVE  Agree(Append(q, NewEntry(item, implicit)),
               [d EXCEPT ![item] = IF implicit THEN "implicit" ELSE "explicit"])
<1> DEFINE e == NewEntry(item, implicit)
           r == Append(q, e)
           f == [d EXCEPT ![item] = IF implicit THEN "implicit" ELSE "explicit"]
<1>1. e \in Entry /\ e.item = item /\ e.implicit = implicit
  BY ItemDataAssumption DEF NewEntry, Entry
<1>2. q \in Seq(Entry) /\ d \in [Items -> Owing] /\ Len(q) \in Nat /\ MaxPending \in Nat
  BY ItemDataAssumption DEF Agree
<1> HIDE DEF e
<1>3. /\ r \in Seq(Entry) /\ Len(r) = Len(q) + 1 /\ DOMAIN r = 1..(Len(q) + 1) /\ DOMAIN q = 1..Len(q)
      /\ r[Len(q) + 1] = e /\ \A n \in DOMAIN q : r[n] = q[n]
  BY <1>1, <1>2
<1> HIDE DEF r
<1>4. \A n \in DOMAIN q : q[n].item \in Items /\ q[n].item # item /\ d[q[n].item] # "none"
  BY <1>2 DEF Agree, SameItems, Named
<1>5. \A n \in DOMAIN r : n \in DOMAIN q \/ n = Len(q) + 1
  BY <1>2, <1>3
<1>6. f \in [Items -> Owing] /\ f[item] = (IF implicit THEN "implicit" ELSE "explicit")
      /\ \A i \in Items \ {item} : f[i] = d[i]
  BY <1>2 DEF Owing
<1> HIDE DEF f
<1>7. Distinct(r)
  <2>1. \A m, n \in DOMAIN q : q[m].item = q[n].item => m = n
    BY DEF Agree, Distinct
  <2> QED BY <2>1, <1>1, <1>3, <1>4, <1>5 DEF Distinct
<1>8. SameItems(r, f)
  <2>1. Named(q) = {i \in Items : d[i] # "none"}
    BY DEF Agree, SameItems
  <2>2. Named(r) = Named(q) \cup {item}
    <3>1. Len(q) + 1 \in DOMAIN r /\ DOMAIN q \subseteq DOMAIN r
      BY <1>2, <1>3
    <3> QED BY <1>1, <1>3, <1>5, <3>1 DEF Named
  <2> QED BY <2>1, <2>2, <1>6 DEF SameItems
<1>9. SameEvents(r, f)
  <2>1. \A n \in DOMAIN q : (d[q[n].item] = "implicit") <=> q[n].implicit
    BY DEF Agree, SameEvents
  <2>2. ASSUME NEW n \in DOMAIN r PROVE (f[r[n].item] = "implicit") <=> r[n].implicit
    <3>1. CASE n \in DOMAIN q
      BY <3>1, <2>1, <1>3, <1>4, <1>6
    <3>2. CASE n = Len(q) + 1
      BY <3>2, <1>1, <1>3, <1>6
    <3> QED BY <1>5, <3>1, <3>2
  <2> QED BY <2>2 DEF SameEvents
<1>10. Len(r) <= MaxPending
  BY <1>2, <1>3
<1>11. Agree(r, f)
  BY <1>3, <1>6, <1>7, <1>8, <1>9, <1>10 DEF Agree
<1> QED BY <1>11 DEF r, e, f

(* An explicit request for a queued record makes its entry explicit. *)
LEMMA UpgradeAgrees ==
  ASSUME NEW q, NEW d, Agree(q, d), NEW item \in Items, d[item] # "none",
         NEW r, r = [n \in DOMAIN q |-> IF q[n].item = item THEN [q[n] EXCEPT !.implicit = FALSE]
                                        ELSE q[n]]
  PROVE  Agree(r, [d EXCEPT ![item] = "explicit"])
<1> DEFINE f == [d EXCEPT ![item] = "explicit"]
<1>1. q \in Seq(Entry) /\ d \in [Items -> Owing]
  BY DEF Agree
<1>2. ASSUME NEW n \in DOMAIN q
      PROVE  /\ r[n] \in Entry /\ r[n].item = q[n].item
             /\ r[n].implicit <=> q[n].implicit /\ q[n].item # item
  <2>1. q[n] \in Entry
    BY <1>1
  <2> QED BY <2>1 DEF Entry
<1>3. DOMAIN r = DOMAIN q
  OBVIOUS
<1>4. r \in Seq(Entry) /\ Len(r) = Len(q)
  <2> HIDE DEF Entry
  <2>1. DOMAIN q = 1..Len(q) /\ Len(q) \in Nat
    BY <1>1
  <2>2. r \in [1..Len(q) -> Entry]
    BY <2>1, <1>2
  <2> QED BY <2>1, <2>2
<1>5. f \in [Items -> Owing] /\ f[item] = "explicit" /\ \A i \in Items \ {item} : f[i] = d[i]
  BY <1>1 DEF Owing
<1> HIDE DEF f
<1>6. Named(r) = Named(q)
  BY <1>2, <1>3 DEF Named
<1>7. Distinct(r)
  BY <1>2, <1>3 DEF Agree, Distinct
<1>8. SameItems(r, f)
  BY <1>5, <1>6 DEF Agree, SameItems
<1>9. SameEvents(r, f)
  <2>1. \A n \in DOMAIN q : q[n].item \in Items /\ ((d[q[n].item] = "implicit") <=> q[n].implicit)
    BY DEF Agree, SameEvents, SameItems, Named
  <2> QED BY <2>1, <1>2, <1>3, <1>5 DEF SameEvents
<1>10. Agree(r, f)
  BY <1>4, <1>5, <1>7, <1>8, <1>9 DEF Agree
<1> QED BY <1>10 DEF f

LEMMA TrackAgrees ==
  ASSUME ItemDataAssumption, NEW q, NEW d, Agree(q, d), NEW item \in Items, NEW implicit \in BOOLEAN
  PROVE  /\ Agree(Track(q, item, implicit), Owe(d, item, implicit))
         /\ Named(q) \subseteq Named(Track(q, item, implicit))
<1> DEFINE r == Track(q, item, implicit)
           f == Owe(d, item, implicit)
           there == {n \in DOMAIN q : q[n].item = item}
           up == [n \in DOMAIN q |-> IF q[n].item = item THEN [q[n] EXCEPT !.implicit = FALSE]
                                     ELSE q[n]]
<1>1. there # {} <=> d[item] # "none"
  BY DEF Agree, SameItems, Named
<1>2. Cardinality({i \in Items : d[i] # "none"}) = Len(q)
  BY CountOfDistinct DEF Agree, SameItems
<1>3. CASE cache[item] = "loaded"
  BY <1>3 DEF Track, Owe
<1>4. CASE cache[item] # "loaded" /\ d[item] # "none" /\ implicit
  <2>1. r = [n \in DOMAIN q |-> q[n]] /\ f = d
    BY <1>1, <1>4 DEF Track, Owe
  <2>2. r = q
    BY <2>1 DEF Agree
  <2> QED BY <2>1, <2>2
<1>5. CASE cache[item] # "loaded" /\ d[item] # "none" /\ ~implicit
  <2>1. r = up /\ f = [d EXCEPT ![item] = "explicit"]
    BY <1>1, <1>5 DEF Track, Owe
  <2>2. Agree(up, [d EXCEPT ![item] = "explicit"])
    <3> HIDE DEF up
    <3>1. up = [n \in DOMAIN q |-> IF q[n].item = item THEN [q[n] EXCEPT !.implicit = FALSE]
                                   ELSE q[n]]
      BY DEF up
    <3> QED BY <1>5, <3>1, UpgradeAgrees
  <2>3. Named(q) \subseteq Named(up)
    <3>1. q \in Seq(Entry)
      BY DEF Agree
    <3>2. ASSUME NEW n \in DOMAIN q PROVE n \in DOMAIN up /\ up[n].item = q[n].item
      <4>1. q[n] \in Entry
        BY <3>1
      <4> QED BY <4>1 DEF Entry
    <3> HIDE DEF up
    <3> QED BY <3>2 DEF Named
  <2> QED BY <2>1, <2>2, <2>3
<1>6. CASE cache[item] # "loaded" /\ d[item] = "none" /\ Len(q) >= MaxPending
  <2>1. r = q /\ f = d
    BY <1>1, <1>2, <1>6 DEF Track, Owe
  <2> QED BY <2>1
<1>7. CASE cache[item] # "loaded" /\ d[item] = "none" /\ ~(Len(q) >= MaxPending)
  <2>1. r = Append(q, NewEntry(item, implicit))
        /\ f = [d EXCEPT ![item] = IF implicit THEN "implicit" ELSE "explicit"]
    BY <1>1, <1>2, <1>7 DEF Track, Owe
  <2>2. q \in Seq(Entry) /\ Len(q) \in Nat /\ MaxPending \in Nat
    BY ItemDataAssumption DEF Agree
  <2>3. Agree(r, f)
    <3>1. Len(q) < MaxPending
      BY <1>7, <2>2
    <3>2. Agree(Append(q, NewEntry(item, implicit)),
                [d EXCEPT ![item] = IF implicit THEN "implicit" ELSE "explicit"])
      BY <1>7, <3>1, AppendAgrees
    <3> QED BY <2>1, <3>2
  <2>4. Named(q) \subseteq Named(r)
    <3> DEFINE e == NewEntry(item, implicit)
    <3> HIDE DEF e
    <3>1. r = Append(q, e)
      BY <2>1 DEF e
    <3>2. \A n \in DOMAIN q : n \in DOMAIN r /\ r[n] = q[n]
      BY <2>2, <3>1
    <3> HIDE DEF r
    <3> QED BY <3>2 DEF Named
  <2> QED BY <2>3, <2>4
<1> QED BY <1>3, <1>4, <1>5, <1>6, <1>7

(* New entries have sent nothing yet. *)
LEMMA TrackIsHonest ==
  ASSUME ItemDataAssumption, NEW q \in Seq(Entry), NEW c, NEW a, AllHonest(q, c, a),
         NEW item \in Items, NEW implicit \in BOOLEAN
  PROVE  AllHonest(Track(q, item, implicit), c, a)
<1> DEFINE r == Track(q, item, implicit)
           up == [n \in DOMAIN q |-> IF q[n].item = item /\ ~implicit
                                     THEN [q[n] EXCEPT !.implicit = FALSE] ELSE q[n]]
           e == NewEntry(item, implicit)
<1> SUFFICES AllHonest(r, c, a)
  OBVIOUS
<1>1. r = q \/ r = up \/ r = Append(q, e)
  BY DEF Track
<1>2. CASE r = up
  <2>1. ASSUME NEW n \in DOMAIN up PROVE Honest(up[n], c, a)
    <3>1. n \in DOMAIN q /\ q[n] \in Entry
      OBVIOUS
    <3>2. Honest(q[n], c, a)
      BY <3>1 DEF AllHonest
    <3> QED BY <3>1, <3>2 DEF Honest, Entry
  <2> HIDE DEF up, r
  <2> QED BY <1>2, <2>1 DEF AllHonest
<1>3. CASE r = Append(q, e)
  <2>1. Honest(e, c, a)
    BY ItemDataAssumption DEF Honest, NewEntry
  <2> HIDE DEF e
  <2>2. \A n \in DOMAIN Append(q, e) :
           (n \in DOMAIN q /\ Append(q, e)[n] = q[n]) \/ Append(q, e)[n] = e
    OBVIOUS
  <2> HIDE DEF r
  <2> QED BY <1>3, <2>1, <2>2 DEF AllHonest
<1> HIDE DEF r, up, e
<1> QED BY <1>1, <1>2, <1>3

LEMMA RequestAgrees ==
  ASSUME ItemDataAssumption, NEW q, Agree(q, owed), NEW c, NEW a, AllHonest(q, c, a),
         NEW items \in Seq(Items), NEW implicit \in BOOLEAN, Request(q, items, implicit)
  PROVE  Agree(pending', owed') /\ AllHonest(pending', c, a) /\ Named(q) \subseteq Named(pending')
<1>1. q \in Seq(Entry) /\ owed \in [Items -> Owing]
  BY DEF Agree
<1>2. PICK g : /\ g[0] = q
               /\ \A i \in 1..Len(items) : g[i] = Track(g[i - 1], items[i], implicit)
               /\ g[Len(items)] = FoldLeft(LAMBDA p, item : Track(p, item, implicit), q, items)
  BY <1>1, TrackRuns
<1>3. PICK h : /\ h[0] = owed
               /\ \A i \in 1..Len(items) : h[i] = Owe(h[i - 1], items[i], implicit)
               /\ h[Len(items)] = FoldLeft(LAMBDA p, item : Owe(p, item, implicit), owed, items)
  BY <1>1, OweRuns
<1>4. pending' = g[Len(items)] /\ owed' = h[Len(items)]
  BY <1>2, <1>3 DEF Request
<1> DEFINE S == {i \in 0..Len(items) : /\ Agree(g[i], h[i]) /\ AllHonest(g[i], c, a)
                                       /\ Named(q) \subseteq Named(g[i])}
<1>5. Len(items) \in Nat
  OBVIOUS
<1>6. 0 \in S
  <2>1. g[0] = q
    BY <1>2
  <2>3. h[0] = owed
    BY <1>3
  <2>4. 0 \in 0..Len(items)
    BY <1>5
  <2>2. Agree(g[0], h[0]) /\ AllHonest(g[0], c, a) /\ Named(q) \subseteq Named(g[0])
    BY <2>1, <2>3
  <2> QED BY <2>4, <2>2
<1>7. ASSUME NEW i \in 1..Len(items), i - 1 \in S PROVE i \in S
  <2>1. Agree(g[i - 1], h[i - 1]) /\ AllHonest(g[i - 1], c, a) /\ Named(q) \subseteq Named(g[i - 1])
    BY <1>7
  <2>2. items[i] \in Items
    OBVIOUS
  <2>3. g[i] = Track(g[i - 1], items[i], implicit) /\ h[i] = Owe(h[i - 1], items[i], implicit)
    BY <1>2, <1>3
  <2>4. Agree(g[i], h[i]) /\ Named(g[i - 1]) \subseteq Named(g[i])
    BY <2>1, <2>2, <2>3, TrackAgrees
  <2>5. AllHonest(g[i], c, a)
    <3>1. g[i - 1] \in Seq(Entry)
      BY <2>1 DEF Agree
    <3> QED BY <2>1, <2>2, <2>3, <3>1, TrackIsHonest
  <2> QED BY <2>1, <2>4, <2>5
<1>8. Len(items) \in S
  <2> HIDE DEF S
  <2>1. Len(items) \in 0..Len(items)
    BY <1>5
  <2> QED BY <1>5, <1>6, <1>7, <2>1, UpTo
<1> QED BY <1>4, <1>8

(* A completion takes the item off both. *)
LEMMA RemoveAgrees ==
  ASSUME ItemDataAssumption, NEW q, NEW d, Agree(q, d), NEW n \in DOMAIN q, NEW c, NEW a, AllHonest(q, c, a)
  PROVE  /\ Agree(RemovePendingAt(q, n), [d EXCEPT ![q[n].item] = "none"])
         /\ AllHonest(RemovePendingAt(q, n), c, a)
         /\ Named(q) = Named(RemovePendingAt(q, n)) \cup {q[n].item}
<1> DEFINE r == RemovePendingAt(q, n)
           f == [d EXCEPT ![q[n].item] = "none"]
           L == Len(q)
           from(m) == IF m = n THEN L ELSE m
<1>1. q \in Seq(Entry) /\ d \in [Items -> Owing] /\ L \in Nat \ {0} /\ DOMAIN q = 1..L /\ L <= MaxPending
  BY DEF Agree
<1>2. r \in Seq(Entry) /\ DOMAIN r = 1..(L - 1) /\ Len(r) = L - 1
      /\ \A m \in DOMAIN r : r[m] = q[from(m)]
  <2> DEFINE p == [q EXCEPT ![n] = q[L]]
  <2>1. p \in Seq(Entry) /\ Len(p) = L /\ \A m \in 1..L : p[m] = q[from(m)]
    <3> HIDE DEF Entry
    <3>1. p \in [1..L -> Entry]
      BY <1>1
    <3>2. p \in Seq(Entry) /\ Len(p) = L
      BY <1>1, <3>1
    <3> QED BY <1>1, <3>2
  <2>2. r = SubSeq(p, 1, L - 1)
    BY DEF RemovePendingAt
  <2> HIDE DEF p, r, from, Entry
  <2>3. r \in Seq(Entry) /\ Len(r) = L - 1 /\ \A m \in 1..(L - 1) : r[m] = p[m]
    BY <1>1, <2>1, <2>2
  <2>4. DOMAIN r = 1..(L - 1)
    BY <2>3
  <2>5. \A m \in DOMAIN r : r[m] = q[from(m)]
    <3>1. \A m \in DOMAIN r : m \in 1..L
      BY <1>1, <2>4
    <3> QED BY <2>1, <2>3, <2>4, <3>1
  <2> QED BY <2>3, <2>4, <2>5
<1> HIDE DEF r
<1>3. \A m \in DOMAIN r : from(m) \in DOMAIN q /\ from(m) # n
  BY <1>1, <1>2
<1>4. \A m \in DOMAIN q \ {n} : \E k \in DOMAIN r : from(k) = m
  <2> SUFFICES ASSUME NEW m \in DOMAIN q \ {n} PROVE \E k \in DOMAIN r : from(k) = m
    OBVIOUS
  <2>1. CASE m # L
    BY <1>1, <1>2, <2>1
  <2>2. CASE m = L
    <3>1. n \in DOMAIN r /\ from(n) = m
      BY <1>1, <1>2, <2>2
    <3> QED BY <3>1
  <2> QED BY <2>1, <2>2
<1>5. \A m, k \in DOMAIN r : from(m) = from(k) => m = k
  BY <1>1, <1>2
<1> HIDE DEF from, L
<1>6. \A m, k \in DOMAIN q : q[m].item = q[k].item => m = k
  BY DEF Agree, Distinct
<1>7. \A m \in DOMAIN q : q[m].item \in Items /\ ((d[q[m].item] = "implicit") <=> q[m].implicit)
  BY DEF Agree, SameEvents, SameItems, Named
<1>8. f \in [Items -> Owing] /\ f[q[n].item] = "none" /\ \A i \in Items \ {q[n].item} : f[i] = d[i]
  BY <1>1, <1>7 DEF Owing
<1> HIDE DEF f
<1>9. Named(r) = Named(q) \ {q[n].item}
  <2>1. \A m \in DOMAIN r : r[m].item \in Named(q) \ {q[n].item}
    BY <1>2, <1>3, <1>6 DEF Named
  <2>2. ASSUME NEW m \in DOMAIN q, q[m].item # q[n].item PROVE q[m].item \in Named(r)
    <3>1. PICK k \in DOMAIN r : from(k) = m
      BY <1>4, <2>2
    <3>2. r[k] = q[m]
      BY <1>2, <3>1
    <3> QED BY <3>2 DEF Named
  <2> QED BY <2>1, <2>2 DEF Named
<1>10. Distinct(r)
  BY <1>2, <1>3, <1>5, <1>6 DEF Distinct
<1>11. SameItems(r, f)
  BY <1>8, <1>9 DEF Agree, SameItems
<1>12. SameEvents(r, f)
  <2>1. \A m \in DOMAIN r : r[m].item # q[n].item
    BY <1>2, <1>3, <1>6
  <2> QED BY <2>1, <1>2, <1>3, <1>7, <1>8 DEF SameEvents
<1>13. Agree(r, f)
  <2>1. L - 1 <= MaxPending
    BY <1>1, ItemDataAssumption DEF L
  <2> QED BY <1>2, <1>8, <1>10, <1>11, <1>12, <2>1 DEF Agree
<1>14. AllHonest(r, c, a)
  BY <1>2, <1>3 DEF AllHonest
<1>15. Named(q) = Named(r) \cup {q[n].item}
  BY <1>9 DEF Named
<1> QED BY <1>13, <1>14, <1>15 DEF r, f

(* Entries that keep their item and their event leave the agreement as it is. *)
LEMMA ReshapeAgrees ==
  ASSUME NEW q, NEW d, Agree(q, d), NEW r, DOMAIN r = DOMAIN q, r = [n \in DOMAIN r |-> r[n]],
         \A n \in DOMAIN q : /\ r[n] \in Entry /\ r[n].item = q[n].item
                             /\ r[n].implicit <=> q[n].implicit
  PROVE  Agree(r, d) /\ Named(r) = Named(q)
<1>1. q \in Seq(Entry) /\ DOMAIN q = 1..Len(q) /\ Len(q) \in Nat
  BY DEF Agree
<1>2. r \in Seq(Entry) /\ Len(r) = Len(q)
  <2> HIDE DEF Entry
  <2>1. r \in [1..Len(q) -> Entry]
    BY <1>1
  <2> QED BY <1>1, <2>1
<1>3. Named(r) = Named(q)
  BY DEF Named
<1>4. Distinct(r) /\ SameItems(r, d) /\ SameEvents(r, d)
  <2>1. Distinct(r)
    BY DEF Agree, Distinct
  <2>2. SameItems(r, d)
    BY <1>3 DEF Agree, SameItems
  <2>3. SameEvents(r, d)
    BY DEF Agree, SameEvents
  <2> QED BY <2>1, <2>2, <2>3
<1> QED BY <1>2, <1>3, <1>4 DEF Agree

-----------------------------------------------------------------------------
(* The bounds of the model are numbers. *)
LEMMA Bounds ==
  ASSUME ItemDataAssumption
  PROVE  /\ {MaxPending, OwnedPerTick, Spacing, Settle, Resend, MaxTimeouts} \subseteq Nat \ {0}
         /\ MaxPending \in Nat \ {0} /\ Spacing \in Nat \ {0} /\ Settle \in Nat \ {0}
         /\ Resend \in Nat \ {0} /\ MaxTimeouts \in Nat \ {0} /\ OwnedPerTick \in Nat \ {0}
         /\ MaxAsks \in Nat /\ MaxTurns \in Nat
  BY DEF ItemDataAssumption

LEMMA InitInv == ASSUME ItemDataAssumption, Init PROVE Inv
<1>1. Types
  <2>1. /\ cache \in [Items -> {"none", "pending", "loaded"}] /\ world = "away"
        /\ called = {} /\ answers = {} /\ waiting = {} /\ settled = FALSE /\ prefetched = FALSE
    BY DEF Init
  <2>2. sinceEntered \in -1..Settle /\ sinceSent \in 0..Spacing /\ asks \in 0..MaxAsks /\ turns \in 0..MaxTurns
    BY Bounds DEF Init
  <2>3. walk \in [kind : {"none", "sweep", "tick"}, i : Int, owned : Int, bg : BOOLEAN]
    BY DEF Init, NoWalk
  <2>4. event \in [kind : {"none", "implicit", "explicit", "ready"}, item : Items \cup {"none"}, ok : BOOLEAN]
    BY DEF Init, NoEvent
  <2> QED BY <2>1, <2>2, <2>3, <2>4 DEF Types
<1>2. Agree(pending, owed)
  <2>1. pending = <<>> /\ owed = [i \in Items |-> "none"]
    BY DEF Init
  <2>2. Named(pending) = {} /\ Distinct(pending) /\ SameEvents(pending, owed) /\ SameItems(pending, owed)
    BY <2>1 DEF Named, Distinct, SameEvents, SameItems
  <2>3. Len(pending) <= MaxPending
    BY <2>1, ItemDataAssumption
  <2> QED BY <2>1, <2>2, <2>3 DEF Agree, Owing
<1>3. AllHonest(pending, cache, answers) /\ NothingStrands
  BY DEF Init, AllHonest, NothingStrands
<1> QED BY <1>1, <1>2, <1>3 DEF Inv

(* Requests. *)
LEMMA AskInv ==
  ASSUME ItemDataAssumption, Inv, NEW item \in Items, NEW implicit \in BOOLEAN, Ask(item, implicit)
  PROVE  Inv'
<1>1. <<item>> \in Seq(Items)
  OBVIOUS
<1>2. /\ Agree(pending', owed') /\ AllHonest(pending', cache, answers)
      /\ Named(pending) \subseteq Named(pending')
  BY <1>1, RequestAgrees DEF Inv, Ask
<1>3. Types'
  BY ItemDataAssumption DEF Inv, Types, Ask, Budget, server, records, clocks
<1>4. NothingStrands'
  BY <1>2 DEF Inv, NothingStrands, Completed, Ask
<1>5. cache' = cache /\ answers' = answers
  BY DEF Ask, server, records
<1> QED BY <1>2, <1>3, <1>4, <1>5 DEF Inv

LEMMA SetToSeqIsOfIt ==
  ASSUME ItemDataAssumption, NEW S \in SUBSET Items
  PROVE  SetToSeq(S) \in Seq(Items)
<1>1. IsFiniteSet(S)
  BY FS_Subset DEF ItemDataAssumption
<1>2. Cardinality(S) \in Nat /\ ExistsBijection(1..Cardinality(S), S)
  BY <1>1, FS_CardinalityType
<1>3. \E f \in [1..Cardinality(S) -> S] : IsInjective(f)
  BY <1>2 DEF ExistsBijection, Bijection, Injection, IsInjective
<1>4. SetToSeq(S) \in [1..Cardinality(S) -> S]
  BY <1>3 DEF SetToSeq
<1> QED BY <1>2, <1>4

LEMMA GetAverageItemLevelInv == ASSUME ItemDataAssumption, Inv, GetAverageItemLevel PROVE Inv'
<1>1. Missing \in SUBSET Items
  BY DEF Missing, ItemDataAssumption
<1>2. SetToSeq(Missing) \in Seq(Items)
  BY <1>1, SetToSeqIsOfIt
<1>3. /\ Agree(pending', owed') /\ AllHonest(pending', cache, answers)
      /\ Named(pending) \subseteq Named(pending')
  BY <1>2, RequestAgrees DEF Inv, GetAverageItemLevel
<1>4. waiting' = waiting \cup (Missing \cap Named(pending'))
  BY DEF GetAverageItemLevel, Named
<1>5. Types'
  BY <1>1, <1>4, ItemDataAssumption DEF Inv, Types, GetAverageItemLevel, server, records, clocks
<1>6. NothingStrands'
  BY <1>3, <1>4 DEF Inv, NothingStrands, Completed, GetAverageItemLevel
<1>7. cache' = cache /\ answers' = answers
  BY DEF GetAverageItemLevel, server, records
<1> QED BY <1>3, <1>5, <1>6, <1>7 DEF Inv

(* Steps that leave the queue alone, and with it what is owed. *)
LEMMA QuietInv ==
  ASSUME ItemDataAssumption, Inv, Types', UNCHANGED <<pending, owed>>,
         AllHonest(pending, cache', answers'), NothingStrands'
  PROVE  Inv'
  BY DEF Inv

LEMMA WorldInv ==
  ASSUME ItemDataAssumption, Inv,
         RegisterLuaFunctions \/ ServerLetsGo \/ ScreenUp \/ ScreenDown \/ ServerAdmits
  PROVE  Inv'
<1>1. /\ UNCHANGED <<cache, called, answers, pending, owed, event, settled, asks, sinceEntered, sinceSent, walk>>
      /\ waiting' \in {waiting, {}} /\ prefetched' \in {prefetched, FALSE}
      /\ turns' = turns \/ (turns < MaxTurns /\ turns' = turns + 1)
      /\ world' \in {"in", "leaving", "away", "arriving"}
  BY DEF Inv, Types, RegisterLuaFunctions, ServerLetsGo, ScreenUp, ScreenDown, ServerAdmits, World, records, clocks
<1>2. Types'
  <2>1. Types
    BY DEF Inv
  <2>2. turns' \in 0..MaxTurns
    BY <1>1, <2>1, Bounds DEF Types
  <2>3. waiting' \subseteq Items /\ prefetched' \in BOOLEAN
    BY <1>1, <2>1 DEF Types
  <2> QED BY <1>1, <2>1, <2>2, <2>3 DEF Types
<1>3. NothingStrands'
  BY <1>1 DEF Inv, NothingStrands, Completed
<1>4. AllHonest(pending, cache', answers')
  BY <1>1 DEF Inv
<1> QED BY <1>1, <1>2, <1>3, <1>4, QuietInv

LEMMA EngineFetchInv ==
  ASSUME ItemDataAssumption, Inv, NEW item \in Items, EngineFetch(item) PROVE Inv'
<1>1. Types'
  BY ItemDataAssumption DEF Inv, Types, EngineFetch, clocks
<1>2. NothingStrands' /\ UNCHANGED <<pending, owed>>
  BY DEF Inv, NothingStrands, Completed, EngineFetch
<1>3. AllHonest(pending, cache', answers')
  <2>1. pending \in Seq(Entry)
    BY DEF Inv, Agree
  <2>2. ASSUME NEW n \in DOMAIN pending PROVE Honest(pending[n], cache', answers')
    <3>1. Honest(pending[n], cache, answers)
      BY DEF Inv, AllHonest
    <3>2. pending[n].item \in Items
      <4>1. pending[n] \in Entry
        BY <2>1
      <4> QED BY <4>1 DEF Entry
    <3>3. cache \in [Items -> {"none", "pending", "loaded"}] /\ cache[item] = "none"
          /\ cache' = [cache EXCEPT ![item] = "pending"] /\ answers \subseteq answers'
      BY DEF Inv, Types, EngineFetch
    <3> QED BY <3>1, <3>2, <3>3 DEF Honest
  <2> QED BY <2>2 DEF AllHonest
<1> QED BY <1>1, <1>2, <1>3, QuietInv

LEMMA ItemStatsCacheResponseInv ==
  ASSUME ItemDataAssumption, Inv, NEW item \in Items, ItemStatsCacheResponse(item) PROVE Inv'
<1>1. /\ item \in answers /\ answers' = answers \ {item} /\ EngineResponse(item)
      /\ UNCHANGED <<waiting, event, owed>>
  BY DEF ItemStatsCacheResponse
<1>2. /\ pending \in Seq(Entry) /\ Agree(pending, owed) /\ AllHonest(pending, cache, answers)
      /\ cache \in [Items -> {"none", "pending", "loaded"}]
  BY DEF Inv, Agree, Types
<1>3. Types'
  <2>1. cache' \in [Items -> {"none", "pending", "loaded"}] /\ called' \subseteq called
    BY <1>1, <1>2 DEF EngineResponse
  <2>2. settled' \in BOOLEAN
    BY DEF ItemStatsCacheResponse, Inv, Types, InWorld
  <2>3. walk' = [kind |-> "sweep", i |-> 1, owned |-> 0, bg |-> FALSE]
    BY DEF ItemStatsCacheResponse, NoWalk
  <2>4. UNCHANGED <<world, turns, sinceEntered, sinceSent, prefetched, waiting, event, asks>>
    BY DEF ItemStatsCacheResponse, clocks
  <2>5. Types
    BY DEF Inv
  <2> QED BY <1>1, <2>1, <2>2, <2>3, <2>4, <2>5 DEF Types
<1>4. /\ DOMAIN pending' = DOMAIN pending /\ pending' = [n \in DOMAIN pending' |-> pending'[n]]
      /\ \A n \in DOMAIN pending :
           \/ pending'[n] = pending[n]
           \/ item \notin Known /\ pending[n].item = item /\ pending'[n] = [pending[n] EXCEPT !.failed = TRUE]
  <2>1. CASE item \in Known
    <3>1. pending' = pending
      BY <1>1, <2>1 DEF EngineResponse
    <3>2. pending = [n \in DOMAIN pending |-> pending[n]]
      BY <1>2
    <3> QED BY <3>1, <3>2
  <2>2. CASE item \notin Known
    <3>1. pending' = [n \in DOMAIN pending |-> IF pending[n].item = item /\ item \in called
                                               THEN [pending[n] EXCEPT !.failed = TRUE] ELSE pending[n]]
      BY <1>1, <2>2 DEF EngineResponse
    <3> QED BY <3>1, <2>2
  <2> QED BY <2>1, <2>2
<1>5. ASSUME NEW n \in DOMAIN pending
      PROVE  /\ pending'[n] \in Entry /\ pending'[n].item = pending[n].item
             /\ pending'[n].implicit <=> pending[n].implicit
             /\ Honest(pending'[n], cache', answers')
  <2>1. pending[n] \in Entry /\ Honest(pending[n], cache, answers)
    BY <1>2 DEF AllHonest
  <2>2. CASE pending'[n] = pending[n]
    <3>1. item \in Known => cache' = [cache EXCEPT ![item] = "loaded"]
      BY <1>1 DEF EngineResponse
    <3>2. item \notin Known => \E node : cache' = [cache EXCEPT ![item] = node]
      BY <1>1 DEF EngineResponse
    <3>3. pending[n].item \in Items
      BY <2>1 DEF Entry
    <3>4. pending[n].item \in Known /\ cache'[pending[n].item] # "loaded" /\ pending[n].item \notin answers'
            => cache[pending[n].item] # "loaded" /\ pending[n].item \notin answers
      BY <1>1, <1>2, <3>1, <3>2, <3>3
    <3> QED BY <2>1, <2>2, <3>4 DEF Honest
  <2>3. CASE item \notin Known /\ pending[n].item = item /\ pending'[n] = [pending[n] EXCEPT !.failed = TRUE]
    BY <2>1, <2>3 DEF Honest, Entry
  <2> QED BY <1>4, <2>2, <2>3
<1>6. Agree(pending', owed') /\ Named(pending') = Named(pending)
  <2> DEFINE r == pending'
  <2> HIDE DEF r
  <2>1. Agree(r, owed) /\ Named(r) = Named(pending)
    <3>1. DOMAIN r = DOMAIN pending /\ r = [n \in DOMAIN r |-> r[n]]
      BY <1>4 DEF r
    <3>2. \A n \in DOMAIN pending : /\ r[n] \in Entry /\ r[n].item = pending[n].item
                                    /\ r[n].implicit <=> pending[n].implicit
      BY <1>5 DEF r
    <3> QED BY <1>2, <3>1, <3>2, ReshapeAgrees
  <2> QED BY <1>1, <2>1 DEF r
<1>7. AllHonest(pending', cache', answers')
  BY <1>4, <1>5 DEF AllHonest
<1>8. NothingStrands'
  BY <1>1, <1>6 DEF Inv, NothingStrands, Completed
<1> QED BY <1>3, <1>6, <1>7, <1>8 DEF Inv

(* Completions. *)
LEMMA CompleteKeeps ==
  ASSUME ItemDataAssumption, Inv, event = NoEvent, NEW n \in DOMAIN pending, NEW ok \in BOOLEAN,
         Complete(pending, n, ok), waiting' = waiting
  PROVE  /\ Agree(pending', owed') /\ AllHonest(pending', cache, answers) /\ NothingStrands'
         /\ event' \in [kind : {"none", "implicit", "explicit", "ready"}, item : Items \cup {"none"},
                        ok : BOOLEAN]
<1>1. Agree(pending, owed) /\ AllHonest(pending, cache, answers) /\ pending \in Seq(Entry)
  BY DEF Inv, Agree
<1>2. /\ pending' = RemovePendingAt(pending, n)
      /\ event' = [kind |-> IF pending[n].implicit THEN "implicit" ELSE "explicit",
                   item |-> pending[n].item, ok |-> ok]
      /\ owed' = [owed EXCEPT ![pending[n].item] = "none"]
  BY DEF Complete
<1>3. /\ Agree(pending', owed') /\ AllHonest(pending', cache, answers)
      /\ Named(pending) = Named(pending') \cup {pending[n].item}
  BY <1>1, <1>2, RemoveAgrees
<1>4. pending[n].item \in Items
  <2>1. pending[n] \in Entry
    BY <1>1
  <2> QED BY <2>1 DEF Entry
<1>5. event'.item = pending[n].item /\ event'.kind \in {"implicit", "explicit"}
  BY <1>2
<1>6. event' \in [kind : {"none", "implicit", "explicit", "ready"}, item : Items \cup {"none"}, ok : BOOLEAN]
  BY <1>2, <1>4
<1>7. waiting \subseteq Named(pending)
  BY DEF Inv, NothingStrands, Completed, NoEvent
<1>8. waiting' \subseteq Named(pending') \cup (IF event'.kind \in {"implicit", "explicit"} THEN {event'.item} ELSE {})
  BY <1>3, <1>5, <1>7
<1>9. NothingStrands'
  BY <1>8 DEF NothingStrands, Completed
<1> QED BY <1>3, <1>6, <1>9

LEMMA SubscribersInv == ASSUME ItemDataAssumption, Inv, Subscribers PROVE Inv'
<1>1. /\ waiting' = waiting \ {event.item}
      /\ event' \in {[NoEvent EXCEPT !.kind = "ready"], NoEvent}
      /\ walk' \in {walk, NoWalk}
      /\ UNCHANGED <<world, answers, turns, cache, called, sinceEntered, sinceSent, pending, settled,
                     prefetched, asks, owed>>
  BY DEF Subscribers, Onward, server, records, clocks
<1>2. Types'
  <2>1. Types
    BY DEF Inv
  <2>2. event' \in [kind : {"none", "implicit", "explicit", "ready"}, item : Items \cup {"none"}, ok : BOOLEAN]
    <3>1. NoEvent \in [kind : {"none", "implicit", "explicit", "ready"}, item : Items \cup {"none"}, ok : BOOLEAN]
      BY DEF NoEvent
    <3>2. [NoEvent EXCEPT !.kind = "ready"]
            \in [kind : {"none", "implicit", "explicit", "ready"}, item : Items \cup {"none"}, ok : BOOLEAN]
      BY <3>1
    <3> QED BY <1>1, <3>1, <3>2
  <2>3. walk' \in [kind : {"none", "sweep", "tick"}, i : Int, owned : Int, bg : BOOLEAN]
    <3>1. walk \in [kind : {"none", "sweep", "tick"}, i : Int, owned : Int, bg : BOOLEAN]
      BY <2>1 DEF Types
    <3>2. NoWalk \in [kind : {"none", "sweep", "tick"}, i : Int, owned : Int, bg : BOOLEAN]
      BY DEF NoWalk
    <3> QED BY <1>1, <3>1, <3>2
  <2>4. waiting' \subseteq Items
    BY <1>1, <2>1 DEF Types
  <2> QED BY <1>1, <2>1, <2>2, <2>3, <2>4 DEF Types
<1>3. NothingStrands'
  BY <1>1 DEF Inv, NothingStrands, Completed
<1>4. AllHonest(pending, cache', answers')
  BY <1>1 DEF Inv
<1> QED BY <1>1, <1>2, <1>3, <1>4, QuietInv

(* The sweep: the first entry that is resolved is completed. *)
LEMMA FirstResolved ==
  ASSUME pending \in Seq(Entry), walk.i \in Int, SweepResolved # {}
  PROVE  (CHOOSE m \in SweepResolved : \A k \in SweepResolved : m <= k) \in SweepResolved
<1>1. SweepResolved \subseteq Nat
  BY DEF SweepResolved
<1>2. PICK m \in SweepResolved : \A k \in SweepResolved : ~(<<k, m>> \in OpToRel(<, Nat))
  BY <1>1, WFMin, NatLessThanWellFounded
<1>3. \A k \in SweepResolved : m <= k
  <2> SUFFICES ASSUME NEW k \in SweepResolved, k < m PROVE FALSE
    BY <1>1
  <2>1. <<k, m>> \in OpToRel(<, Nat)
    BY <1>1 DEF OpToRel
  <2> QED BY <1>2, <2>1
<1> QED BY <1>3

LEMMA SweepFiresInv == ASSUME ItemDataAssumption, Inv, SweepFires PROVE Inv'
<1> DEFINE n == CHOOSE m \in SweepResolved : \A k \in SweepResolved : m <= k
<1>1. pending \in Seq(Entry) /\ walk.i \in Int /\ Types
  BY DEF Inv, Agree, Types
<1>2. n \in DOMAIN pending
  <2>1. n \in SweepResolved
    BY <1>1, FirstResolved DEF SweepFires
  <2> HIDE DEF n
  <2> QED BY <2>1 DEF SweepResolved
<1>3. /\ event = NoEvent /\ Complete(pending, n, cache[pending[n].item] = "loaded")
      /\ walk' = [walk EXCEPT !.i = n]
      /\ UNCHANGED <<server, records, clocks, settled, prefetched, waiting, asks>>
  BY DEF SweepFires
<1> HIDE DEF n
<1>4. /\ Agree(pending', owed') /\ AllHonest(pending', cache, answers) /\ NothingStrands'
      /\ event' \in [kind : {"none", "implicit", "explicit", "ready"}, item : Items \cup {"none"}, ok : BOOLEAN]
  <2>1. (cache[pending[n].item] = "loaded") \in BOOLEAN
    OBVIOUS
  <2>2. waiting' = waiting
    BY <1>3
  <2> QED BY <1>2, <1>3, <2>1, <2>2, CompleteKeeps
<1>5. Types'
  <2>1. n \in Int
    BY <1>1, <1>2
  <2>2. walk' \in [kind : {"none", "sweep", "tick"}, i : Int, owned : Int, bg : BOOLEAN]
    BY <1>1, <1>3, <2>1 DEF Types
  <2>3. UNCHANGED <<world, answers, turns, cache, called, sinceEntered, sinceSent, settled, prefetched, waiting, asks>>
    BY <1>3 DEF server, records, clocks
  <2> QED BY <1>1, <1>4, <2>2, <2>3 DEF Types
<1>6. cache' = cache /\ answers' = answers
  BY <1>3 DEF server, records
<1> QED BY <1>4, <1>5, <1>6 DEF Inv

LEMMA SweepEndsInv == ASSUME ItemDataAssumption, Inv, SweepEnds PROVE Inv'
<1>1. /\ walk' = NoWalk
      /\ UNCHANGED <<world, answers, turns, cache, called, sinceEntered, sinceSent, pending, settled,
                     prefetched, waiting, event, asks, owed>>
  BY DEF SweepEnds, server, records, clocks
<1>2. Types'
  <2>1. NoWalk \in [kind : {"none", "sweep", "tick"}, i : Int, owned : Int, bg : BOOLEAN]
    BY DEF NoWalk
  <2> QED BY <1>1, <2>1 DEF Inv, Types
<1>3. NothingStrands' /\ AllHonest(pending, cache', answers')
  BY <1>1 DEF Inv, NothingStrands, Completed
<1> QED BY <1>1, <1>2, <1>3, QuietInv

(* The tick. *)
LEMMA AgedInRange ==
  ASSUME NEW cap \in Nat, NEW low \in Int, NEW age \in Int, low <= age, age <= cap, NEW dt \in {0, 1}
  PROVE  Aged(age, dt, cap) \in low..cap
  BY DEF Aged

LEMMA TickAwayInv == ASSUME ItemDataAssumption, Inv, NEW dt \in {0, 1}, TickAway(dt) PROVE Inv'
<1> DEFINE r == [n \in DOMAIN pending |-> [pending[n] EXCEPT !.issued = FALSE, !.age = 0]]
<1>1. /\ pending \in Seq(Entry) /\ Agree(pending, owed) /\ AllHonest(pending, cache, answers) /\ Types
  BY DEF Inv, Agree
<1>2. /\ pending' = r /\ settled' = FALSE /\ sinceEntered' = -1 /\ sinceSent' = Aged(sinceSent, dt, Spacing)
      /\ UNCHANGED <<world, answers, turns, cache, called, prefetched, waiting, walk, event, asks, owed>>
  BY DEF TickAway, server, records
<1>3. ASSUME NEW n \in DOMAIN pending
      PROVE  /\ r[n] \in Entry /\ r[n].item = pending[n].item /\ (r[n].implicit <=> pending[n].implicit)
             /\ Honest(r[n], cache, answers)
  <2> DEFINE e == pending[n]
             g == [e EXCEPT !.issued = FALSE]
             f == [g EXCEPT !.age = 0]
  <2>1. e \in Entry /\ Honest(e, cache, answers)
    BY <1>1 DEF AllHonest
  <2>2. r[n] = f
    OBVIOUS
  <2> HIDE DEF e, r
  <2>3. g \in Entry /\ g.item = e.item /\ (g.implicit <=> e.implicit) /\ (g.failed <=> e.failed)
        /\ g.timeouts = e.timeouts /\ g.lost = e.lost /\ ~g.issued /\ (g.sentOnce <=> e.sentOnce)
    BY <2>1 DEF Entry
  <2> HIDE DEF g
  <2>6. f \in Entry /\ f.item = g.item /\ (f.implicit <=> g.implicit) /\ (f.failed <=> g.failed)
        /\ f.timeouts = g.timeouts /\ f.lost = g.lost /\ ~f.issued /\ (f.sentOnce <=> g.sentOnce)
    BY <2>3, Bounds DEF Entry
  <2>4. e.timeouts \in Nat /\ e.lost \in Nat
    BY <2>1, Bounds DEF Entry
  <2> HIDE DEF f
  <2>5. Honest(f, cache, answers)
    BY <2>1, <2>3, <2>4, <2>6 DEF Honest
  <2> QED BY <2>2, <2>3, <2>5, <2>6 DEF e
<1>4. DOMAIN r = DOMAIN pending /\ r = [n \in DOMAIN r |-> r[n]]
  OBVIOUS
<1> HIDE DEF r
<1>5. Agree(r, owed) /\ Named(r) = Named(pending)
  <2>1. \A n \in DOMAIN pending : /\ r[n] \in Entry /\ r[n].item = pending[n].item
                                  /\ r[n].implicit <=> pending[n].implicit
    BY <1>3
  <2> QED BY <1>1, <1>4, <2>1, ReshapeAgrees
<1>6. AllHonest(r, cache, answers)
  BY <1>3, <1>4 DEF AllHonest
<1>7. Types'
  <2>1. sinceSent' \in 0..Spacing
    <3>1. sinceSent \in Int /\ 0 <= sinceSent /\ sinceSent <= Spacing /\ Spacing \in Nat
      BY <1>1, Bounds DEF Types
    <3> QED BY <1>2, <3>1, AgedInRange
  <2>2. sinceEntered' \in -1..Settle
    BY <1>2, Bounds
  <2> QED BY <1>1, <1>2, <2>1, <2>2 DEF Types
<1>8. NothingStrands'
  BY <1>2, <1>5 DEF Inv, NothingStrands, Completed
<1> QED BY <1>2, <1>5, <1>6, <1>7, <1>8 DEF Inv

(* A frame ages the entries and leaves what they ask for. *)
LEMMA OlderAgrees ==
  ASSUME ItemDataAssumption, Inv, NEW dt \in {0, 1}
  PROVE  /\ Agree(Older(dt), owed) /\ AllHonest(Older(dt), cache, answers)
         /\ Named(Older(dt)) = Named(pending)
<1> DEFINE r == Older(dt)
<1>1. pending \in Seq(Entry) /\ Agree(pending, owed) /\ AllHonest(pending, cache, answers)
  BY DEF Inv, Agree
<1>2. ASSUME NEW n \in DOMAIN pending
      PROVE  /\ r[n] \in Entry /\ r[n].item = pending[n].item /\ (r[n].implicit <=> pending[n].implicit)
             /\ Honest(r[n], cache, answers)
  <2> DEFINE e == pending[n]
  <2>1. e \in Entry /\ Honest(e, cache, answers)
    BY <1>1 DEF AllHonest
  <2>2. r[n] = IF e.issued THEN [e EXCEPT !.age = Aged(e.age, dt, Resend)] ELSE e
    BY DEF Older
  <2>3. Aged(e.age, dt, Resend) \in 0..Resend
    <3>1. e.age \in 0..Resend
      BY <2>1 DEF Entry
    <3>2. Resend \in Nat
      BY Bounds
    <3>3. e.age \in Int /\ 0 <= e.age /\ e.age <= Resend /\ 0 \in Int
      BY <3>1, <3>2
    <3> HIDE DEF e
    <3> QED BY <3>2, <3>3, AgedInRange
  <2> DEFINE a == Aged(e.age, dt, Resend)
             f == [e EXCEPT !.age = a]
  <2>4. r[n] = e \/ r[n] = f
    BY <2>2
  <2> HIDE DEF e, r, a
  <2>5. f \in Entry /\ f.item = e.item /\ (f.implicit <=> e.implicit) /\ (f.failed <=> e.failed)
        /\ f.timeouts = e.timeouts /\ f.lost = e.lost /\ (f.issued <=> e.issued) /\ (f.sentOnce <=> e.sentOnce)
    BY <2>1, <2>3 DEF Entry, a
  <2> HIDE DEF f
  <2>6. Honest(f, cache, answers)
    BY <2>1, <2>5 DEF Honest
  <2> QED BY <2>1, <2>4, <2>5, <2>6 DEF e
<1>3. DOMAIN r = DOMAIN pending /\ r = [n \in DOMAIN r |-> r[n]]
  BY DEF Older
<1> HIDE DEF r
<1>4. Agree(r, owed) /\ Named(r) = Named(pending)
  <2>1. \A n \in DOMAIN pending : /\ r[n] \in Entry /\ r[n].item = pending[n].item
                                  /\ r[n].implicit <=> pending[n].implicit
    BY <1>2
  <2> QED BY <1>1, <1>3, <2>1, ReshapeAgrees
<1>5. AllHonest(r, cache, answers)
  BY <1>2, <1>3 DEF AllHonest
<1> QED BY <1>4, <1>5 DEF r

LEMMA TickInWorldInv == ASSUME ItemDataAssumption, Inv, NEW dt \in {0, 1}, TickInWorld(dt) PROVE Inv'
<1> DEFINE r == Older(dt)
           w == [kind |-> "tick", i |-> 1, owned |-> IF settled' THEN OwnedPerTick ELSE 0,
                 bg |-> settled' /\ sinceSent' >= Spacing]
<1>1. Types
  BY DEF Inv
<1>2. /\ sinceEntered' = IF sinceEntered # -1 THEN Aged(sinceEntered, dt, Settle)
                         ELSE IF settled THEN -1 ELSE 0
      /\ settled' = (settled \/ sinceEntered' >= Settle)
      /\ sinceSent' = Aged(sinceSent, dt, Spacing)
      /\ walk' = Onward(pending', w)
      /\ UNCHANGED <<world, answers, turns, cache, called, waiting, event, asks>>
  BY DEF TickInWorld, server, records
<1>3. Agree(r, owed) /\ AllHonest(r, cache, answers) /\ Named(r) = Named(pending)
  BY OlderAgrees
<1>4. /\ prefetched' \in BOOLEAN
      /\ \/ Request(r, SetToSeq(Carried), TRUE)
         \/ pending' = r /\ owed' = owed
  BY <1>1 DEF TickInWorld, Types
<1> HIDE DEF r
<1>5. /\ Agree(pending', owed') /\ AllHonest(pending', cache, answers)
      /\ Named(pending) \subseteq Named(pending')
  <2>1. CASE Request(r, SetToSeq(Carried), TRUE)
    <3>1. SetToSeq(Carried) \in Seq(Items)
      BY SetToSeqIsOfIt DEF ItemDataAssumption
    <3>2. /\ Agree(pending', owed') /\ AllHonest(pending', cache, answers)
          /\ Named(r) \subseteq Named(pending')
      BY <1>3, <2>1, <3>1, RequestAgrees
    <3> QED BY <1>3, <3>2
  <2>2. CASE pending' = r /\ owed' = owed
    BY <1>3, <2>2
  <2> QED BY <1>4, <2>1, <2>2
<1>6. sinceEntered' \in -1..Settle /\ sinceSent' \in 0..Spacing
  <2>1. sinceSent' \in 0..Spacing
    <3>1. sinceSent \in Int /\ 0 <= sinceSent /\ sinceSent <= Spacing /\ Spacing \in Nat
      BY <1>1, Bounds DEF Types
    <3> QED BY <1>2, <3>1, AgedInRange
  <2>2. CASE sinceEntered # -1
    <3>1. sinceEntered \in Int /\ 0 <= sinceEntered /\ sinceEntered <= Settle /\ Settle \in Nat
      BY <1>1, <2>2, Bounds DEF Types
    <3>2. Aged(sinceEntered, dt, Settle) \in 0..Settle
      BY <3>1, AgedInRange
    <3> QED BY <1>2, <2>1, <2>2, <3>1, <3>2
  <2>3. CASE sinceEntered = -1
    BY <1>2, <2>1, <2>3, Bounds
  <2> QED BY <2>2, <2>3
<1>7. settled' \in BOOLEAN
  BY <1>1, <1>2 DEF Types
<1>8. walk' \in [kind : {"none", "sweep", "tick"}, i : Int, owned : Int, bg : BOOLEAN]
  <2>1. w \in [kind : {"none", "sweep", "tick"}, i : Int, owned : Int, bg : BOOLEAN]
    BY <1>7, Bounds
  <2>2. NoWalk \in [kind : {"none", "sweep", "tick"}, i : Int, owned : Int, bg : BOOLEAN]
    BY DEF NoWalk
  <2> HIDE DEF w
  <2> QED BY <1>2, <2>1, <2>2 DEF Onward
<1>9. Types'
  BY <1>1, <1>2, <1>4, <1>6, <1>7, <1>8 DEF Types
<1>10. NothingStrands'
  BY <1>2, <1>5 DEF Inv, NothingStrands, Completed
<1> QED BY <1>2, <1>5, <1>9, <1>10 DEF Inv

(* A query only makes a record wait, or an answer come. *)
LEMMA QueryKeeps ==
  ASSUME Inv, NEW e \in Entry, NEW lost \in BOOLEAN, Query(e, lost)
  PROVE  /\ cache' \in [Items -> {"none", "pending", "loaded"}] /\ called' \subseteq Items
         /\ answers' \subseteq Items /\ answers \subseteq answers'
         /\ \A i \in Items : cache'[i] = "loaded" <=> cache[i] = "loaded"
         /\ Sends(e) /\ ~lost => e.item \in answers'
         /\ sinceSent' \in {0, sinceSent}
         /\ UNCHANGED <<world, turns, sinceEntered, settled, prefetched, waiting, asks>>
<1> DEFINE first == Issues(e) /\ ~e.sentOnce /\ cache[e.item] # "loaded"
<1>1. e.item \in Items /\ Types
  BY DEF Entry, Inv
<1>2. /\ called' = IF first THEN called \cup {e.item} ELSE called
      /\ cache' = IF first THEN [cache EXCEPT ![e.item] = "pending"] ELSE cache
      /\ \/ answers' = answers
         \/ answers' = answers \cup {e.item}
      /\ sinceSent' \in {0, sinceSent}
      /\ UNCHANGED <<world, turns, sinceEntered, settled, prefetched, waiting, asks>>
  BY DEF Query
<1>3. Sends(e) /\ ~lost => e.item \in answers'
  BY DEF Query
<1>4. first => cache[e.item] # "loaded"
  OBVIOUS
<1> HIDE DEF first
<1>5. /\ cache' \in [Items -> {"none", "pending", "loaded"}]
      /\ \A i \in Items : cache'[i] = "loaded" <=> cache[i] = "loaded"
  BY <1>1, <1>2, <1>4 DEF Types
<1>6. called' \subseteq Items /\ answers' \subseteq Items
  BY <1>1, <1>2 DEF Types
<1> QED BY <1>2, <1>3, <1>5, <1>6

LEMMA HonestAfterQuery ==
  ASSUME Inv, NEW e \in Entry, NEW lost \in BOOLEAN, Query(e, lost),
         NEW x \in Entry, Honest(x, cache, answers)
  PROVE  Honest(x, cache', answers')
<1>1. x.item \in Items
  BY DEF Entry
<1>2. answers \subseteq answers' /\ \A i \in Items : cache'[i] = "loaded" <=> cache[i] = "loaded"
  BY QueryKeeps
<1> QED BY <1>1, <1>2 DEF Honest

LEMMA BudgetedType ==
  ASSUME Types, NEW e
  PROVE  Budgeted(e) \in [kind : {"none", "sweep", "tick"}, i : Int, owned : Int, bg : BOOLEAN]
<1> DEFINE W == [kind : {"none", "sweep", "tick"}, i : Int, owned : Int, bg : BOOLEAN]
           o == IF Issues(e) /\ Owned(e) THEN walk.owned - 1 ELSE walk.owned
           b == walk.bg /\ ~(Issues(e) /\ ~Owned(e))
<1>1. walk \in W /\ o \in Int /\ b \in BOOLEAN
  BY DEF Types
<1>2. Budgeted(e) = [walk EXCEPT !.owned = o, !.bg = b]
  BY DEF Budgeted
<1> DEFINE v == [walk EXCEPT !.owned = o]
<1>3. Budgeted(e) = [v EXCEPT !.bg = b]
  BY <1>2
<1> HIDE DEF o, b
<1>4. v \in W
  BY <1>1
<1> HIDE DEF v
<1> QED BY <1>1, <1>3, <1>4

LEMMA TickCompletesInv ==
  ASSUME ItemDataAssumption, Inv, NEW lost \in BOOLEAN, TickCompletes(lost)
  PROVE  Inv'
<1> DEFINE e == Current
           n == walk.i
<1>1. /\ event = NoEvent /\ n \in DOMAIN pending /\ Query(e, lost)
      /\ Complete(pending, n, cache[e.item] = "loaded") /\ walk' = Budgeted(e)
  BY DEF TickCompletes, OnEntry
<1>2. Types /\ pending \in Seq(Entry) /\ e \in Entry
  <2>1. Types /\ pending \in Seq(Entry)
    BY DEF Inv, Agree
  <2> QED BY <1>1, <2>1 DEF Current
<1> HIDE DEF e, n
<1>3. /\ cache' \in [Items -> {"none", "pending", "loaded"}] /\ called' \subseteq Items
      /\ answers' \subseteq Items /\ sinceSent' \in {0, sinceSent}
      /\ UNCHANGED <<world, turns, sinceEntered, settled, prefetched, waiting, asks>>
  BY <1>1, <1>2, QueryKeeps
<1>4. /\ Agree(pending', owed') /\ AllHonest(pending', cache, answers) /\ NothingStrands'
      /\ event' \in [kind : {"none", "implicit", "explicit", "ready"}, item : Items \cup {"none"}, ok : BOOLEAN]
  <2>1. (cache[e.item] = "loaded") \in BOOLEAN /\ waiting' = waiting
    BY <1>3
  <2> QED BY <1>1, <2>1, CompleteKeeps
<1>5. AllHonest(pending', cache', answers')
  <2>1. ASSUME NEW m \in DOMAIN pending' PROVE Honest(pending'[m], cache', answers')
    <3>1. pending'[m] \in Entry
      BY <1>4 DEF Agree
    <3>2. Honest(pending'[m], cache, answers)
      BY <1>4 DEF AllHonest
    <3> QED BY <1>1, <1>2, <3>1, <3>2, HonestAfterQuery
  <2> QED BY <2>1 DEF AllHonest
<1>6. Types'
  <2>1. walk' \in [kind : {"none", "sweep", "tick"}, i : Int, owned : Int, bg : BOOLEAN]
    BY <1>1, <1>2, BudgetedType
  <2>2. sinceSent' \in 0..Spacing
    BY <1>2, <1>3, Bounds DEF Types
  <2> QED BY <1>2, <1>3, <1>4, <2>1, <2>2 DEF Types
<1> QED BY <1>4, <1>5, <1>6 DEF Inv

(* What an entry is when the tick moves on from it. *)
MovedOn(e, lost) ==
  LET f == Issued(e, lost) IN
  IF TimedOut(f) THEN [f EXCEPT !.timeouts = @ + 1, !.issued = FALSE, !.age = 0] ELSE f

LEMMA IssuedFacts ==
  ASSUME ItemDataAssumption, NEW e \in Entry, NEW lost \in BOOLEAN, Issues(e)
  PROVE  LET f == Issued(e, lost) IN
         /\ f \in Entry /\ f.item = e.item /\ (f.implicit <=> e.implicit)
         /\ (f.failed <=> e.failed) /\ f.timeouts = e.timeouts /\ f.issued /\ f.sentOnce /\ f.age = 0
         /\ f.lost = IF Sends(e) /\ lost /\ e.lost < MaxTimeouts THEN e.lost + 1 ELSE e.lost
<1> DEFINE l == IF Sends(e) /\ lost /\ e.lost < MaxTimeouts THEN e.lost + 1 ELSE e.lost
           f1 == [e EXCEPT !.issued = TRUE]
           f2 == [f1 EXCEPT !.sentOnce = TRUE]
           f3 == [f2 EXCEPT !.age = 0]
           f4 == [f3 EXCEPT !.lost = l]
<1>1. Issued(e, lost) = f4
  BY DEF Issued, Entry
<1>2. l \in 0..MaxTimeouts
  BY Bounds DEF Entry
<1> HIDE DEF l
<1>3. f1 \in Entry /\ f1.item = e.item /\ (f1.implicit <=> e.implicit) /\ (f1.failed <=> e.failed)
      /\ f1.timeouts = e.timeouts /\ f1.issued
  BY DEF Entry
<1> HIDE DEF f1
<1>4. f2 \in Entry /\ f2.item = e.item /\ (f2.implicit <=> e.implicit) /\ (f2.failed <=> e.failed)
      /\ f2.timeouts = e.timeouts /\ f2.issued /\ f2.sentOnce
  BY <1>3 DEF Entry
<1> HIDE DEF f2
<1>5. f3 \in Entry /\ f3.item = e.item /\ (f3.implicit <=> e.implicit) /\ (f3.failed <=> e.failed)
      /\ f3.timeouts = e.timeouts /\ f3.issued /\ f3.sentOnce /\ f3.age = 0
  BY <1>4, Bounds DEF Entry
<1> HIDE DEF f3
<1>6. f4 \in Entry /\ f4.item = e.item /\ (f4.implicit <=> e.implicit) /\ (f4.failed <=> e.failed)
      /\ f4.timeouts = e.timeouts /\ f4.issued /\ f4.sentOnce /\ f4.age = 0 /\ f4.lost = l
  BY <1>2, <1>5 DEF Entry
<1> HIDE DEF f4
<1> QED BY <1>1, <1>6 DEF l

(* An entry that the tick moves on from keeps its item and its event. *)
LEMMA MovedOnFacts ==
  ASSUME ItemDataAssumption, Inv, NEW e \in Entry, NEW lost \in BOOLEAN, Query(e, lost),
         Honest(e, cache, answers), TimedOut(Issued(e, lost)) => Issued(e, lost).timeouts + 1 < MaxTimeouts
  PROVE  /\ MovedOn(e, lost) \in Entry /\ MovedOn(e, lost).item = e.item
         /\ (MovedOn(e, lost).implicit <=> e.implicit)
         /\ Honest(MovedOn(e, lost), cache', answers')
<1>1. Honest(e, cache', answers') /\ e.timeouts \in Nat /\ e.lost \in Nat
  <2>1. Honest(e, cache', answers')
    BY HonestAfterQuery
  <2> QED BY <2>1, Bounds DEF Entry
<1>2. CASE Issues(e)
  <2> DEFINE f == Issued(e, lost)
  <2>1. /\ f \in Entry /\ f.item = e.item /\ (f.implicit <=> e.implicit)
        /\ (f.failed <=> e.failed) /\ f.timeouts = e.timeouts /\ f.issued /\ f.sentOnce /\ f.age = 0
        /\ f.lost = IF Sends(e) /\ lost /\ e.lost < MaxTimeouts THEN e.lost + 1 ELSE e.lost
    BY <1>2, IssuedFacts
  <2>2. MovedOn(e, lost) = f
    BY <2>1, Bounds DEF MovedOn, TimedOut
  <2>3. Sends(e) /\ ~lost => e.item \in answers'
    BY QueryKeeps
  <2>4. ~Sends(e) => ~e.sentOnce
    BY <1>2 DEF Sends
  <2>5. ~e.issued
    BY <1>2 DEF Issues
  <2> HIDE DEF f
  <2>6. ASSUME e.item \in Known, cache'[e.item] # "loaded", e.item \notin answers'
        PROVE  e.timeouts + 1 <= f.lost + 1
    <3>1. e.timeouts <= e.lost + 1 /\ e.timeouts < MaxTimeouts
      BY <1>1, <2>5, <2>6 DEF Honest
    <3>2. CASE ~Sends(e)
      <4>1. e.timeouts = 0
        BY <1>1, <2>4, <3>2 DEF Honest
      <4> QED BY <1>1, <2>1, <3>2, <4>1
    <3>3. CASE Sends(e)
      <4>1. lost
        BY <2>3, <2>6, <3>3
      <4> QED BY <1>1, <2>1, <3>1, <3>3, <4>1, Bounds
    <3> QED BY <3>2, <3>3
  <2>7. Honest(f, cache', answers')
    BY <1>1, <2>1, <2>6 DEF Honest
  <2> QED BY <2>1, <2>2, <2>7
<1>3. CASE ~Issues(e)
  <2>1. Issued(e, lost) = e
    BY <1>3 DEF Issued
  <2>2. CASE ~TimedOut(e)
    <3>1. MovedOn(e, lost) = e
      BY <2>1, <2>2 DEF MovedOn
    <3> QED BY <1>1, <3>1
  <2>3. CASE TimedOut(e)
    <3> DEFINE t == e.timeouts + 1
               f1 == [e EXCEPT !.timeouts = t]
               f2 == [f1 EXCEPT !.issued = FALSE]
               f3 == [f2 EXCEPT !.age = 0]
    <3>1. MovedOn(e, lost) = f3
      BY <2>1, <2>3 DEF MovedOn, Entry
    <3>2. e.issued /\ t \in 0..MaxTimeouts /\ t < MaxTimeouts
      BY <1>1, <2>1, <2>3, Bounds DEF TimedOut
    <3>3. e.sentOnce
      BY <1>1, <3>2 DEF Honest
    <3> HIDE DEF t
    <3>4. f1 \in Entry /\ f1.item = e.item /\ (f1.implicit <=> e.implicit) /\ (f1.failed <=> e.failed)
          /\ f1.timeouts = t /\ (f1.sentOnce <=> e.sentOnce) /\ f1.lost = e.lost
      BY <3>2 DEF Entry
    <3> HIDE DEF f1
    <3>5. f2 \in Entry /\ f2.item = e.item /\ (f2.implicit <=> e.implicit) /\ (f2.failed <=> e.failed)
          /\ f2.timeouts = t /\ (f2.sentOnce <=> e.sentOnce) /\ f2.lost = e.lost /\ ~f2.issued
      BY <3>4 DEF Entry
    <3> HIDE DEF f2
    <3>6. f3 \in Entry /\ f3.item = e.item /\ (f3.implicit <=> e.implicit) /\ (f3.failed <=> e.failed)
          /\ f3.timeouts = t /\ (f3.sentOnce <=> e.sentOnce) /\ f3.lost = e.lost /\ ~f3.issued
      BY <3>5, Bounds DEF Entry
    <3> HIDE DEF f3
    <3>7. Honest(f3, cache', answers')
      BY <1>1, <3>2, <3>3, <3>6 DEF Honest, t
    <3> QED BY <3>1, <3>6, <3>7
  <2> QED BY <2>2, <2>3
<1> QED BY <1>2, <1>3

LEMMA TickMovesOnInv ==
  ASSUME ItemDataAssumption, Inv, NEW lost \in BOOLEAN, TickMovesOn(lost)
  PROVE  Inv'
<1> DEFINE e == Current
           m == MovedOn(e, lost)
           r == [pending EXCEPT ![walk.i] = m]
<1>1. /\ event = NoEvent /\ walk.i \in DOMAIN pending /\ Query(e, lost)
      /\ TimedOut(Issued(e, lost)) => Issued(e, lost).timeouts + 1 < MaxTimeouts
      /\ pending' = r
      /\ walk' = Onward(pending', [Budgeted(e) EXCEPT !.i = @ + 1])
      /\ UNCHANGED <<event, owed>>
  BY DEF TickMovesOn, OnEntry, MovedOn
<1>2. /\ Types /\ pending \in Seq(Entry) /\ Agree(pending, owed) /\ AllHonest(pending, cache, answers)
      /\ e \in Entry /\ Honest(e, cache, answers) /\ e = pending[walk.i]
  <2>1. /\ Types /\ pending \in Seq(Entry) /\ Agree(pending, owed) /\ AllHonest(pending, cache, answers)
    BY DEF Inv, Agree
  <2> QED BY <1>1, <2>1 DEF Current, AllHonest
<1> HIDE DEF e
<1>3. /\ cache' \in [Items -> {"none", "pending", "loaded"}] /\ called' \subseteq Items
      /\ answers' \subseteq Items /\ sinceSent' \in {0, sinceSent}
      /\ UNCHANGED <<world, turns, sinceEntered, settled, prefetched, waiting, asks>>
  BY <1>1, <1>2, QueryKeeps
<1>4. m \in Entry /\ m.item = e.item /\ (m.implicit <=> e.implicit) /\ Honest(m, cache', answers')
  BY <1>1, <1>2, MovedOnFacts
<1> HIDE DEF m
<1>5. DOMAIN r = DOMAIN pending /\ r = [k \in DOMAIN r |-> r[k]]
      /\ \A k \in DOMAIN pending : r[k] = IF k = walk.i THEN m ELSE pending[k]
  BY <1>2
<1> HIDE DEF r
<1>6. ASSUME NEW k \in DOMAIN pending
      PROVE  /\ r[k] \in Entry /\ r[k].item = pending[k].item /\ (r[k].implicit <=> pending[k].implicit)
             /\ Honest(r[k], cache', answers')
  <2>1. CASE k = walk.i
    BY <1>2, <1>4, <1>5, <2>1
  <2>2. CASE k # walk.i
    <3>1. r[k] = pending[k] /\ pending[k] \in Entry /\ Honest(pending[k], cache, answers)
      BY <1>2, <1>5, <2>2 DEF AllHonest
    <3>2. Honest(pending[k], cache', answers')
      BY <1>1, <1>2, <3>1, HonestAfterQuery
    <3> QED BY <3>1, <3>2
  <2> QED BY <2>1, <2>2
<1>7. Agree(r, owed) /\ Named(r) = Named(pending)
  <2>1. \A k \in DOMAIN pending : /\ r[k] \in Entry /\ r[k].item = pending[k].item
                                  /\ r[k].implicit <=> pending[k].implicit
    BY <1>6
  <2> QED BY <1>2, <1>5, <2>1, ReshapeAgrees
<1>8. AllHonest(pending', cache', answers')
  BY <1>1, <1>5, <1>6 DEF AllHonest
<1>9. Types'
  <2> DEFINE b == Budgeted(e)
             w == [b EXCEPT !.i = @ + 1]
  <2>1. b \in [kind : {"none", "sweep", "tick"}, i : Int, owned : Int, bg : BOOLEAN]
    BY <1>2, BudgetedType
  <2> HIDE DEF b
  <2>2. w \in [kind : {"none", "sweep", "tick"}, i : Int, owned : Int, bg : BOOLEAN]
    BY <2>1
  <2>3. NoWalk \in [kind : {"none", "sweep", "tick"}, i : Int, owned : Int, bg : BOOLEAN]
    BY DEF NoWalk
  <2>4. walk' \in {w, NoWalk}
    BY <1>1 DEF Onward, b
  <2> HIDE DEF w
  <2>5. walk' \in [kind : {"none", "sweep", "tick"}, i : Int, owned : Int, bg : BOOLEAN]
    BY <2>2, <2>3, <2>4
  <2>6. sinceSent' \in 0..Spacing
    BY <1>2, <1>3, Bounds DEF Types
  <2> QED BY <1>1, <1>2, <1>3, <2>5, <2>6 DEF Types
<1>10. NothingStrands'
  BY <1>1, <1>3, <1>7 DEF Inv, NothingStrands, Completed
<1> QED BY <1>1, <1>7, <1>8, <1>9, <1>10 DEF Inv

LEMMA NextInv == ASSUME ItemDataAssumption, Inv, [Next]_vars PROVE Inv'
<1>1. CASE Next
  <2>1. ASSUME NEW item \in Items, NEW implicit \in BOOLEAN, Ask(item, implicit) PROVE Inv'
    BY <2>1, AskInv
  <2>2. ASSUME NEW item \in Items, EngineFetch(item) PROVE Inv'
    BY <2>2, EngineFetchInv
  <2>3. ASSUME NEW item \in Items, ItemStatsCacheResponse(item) PROVE Inv'
    BY <2>3, ItemStatsCacheResponseInv
  <2>4. ASSUME NEW dt \in {0, 1}, TickAway(dt) PROVE Inv'
    BY <2>4, TickAwayInv
  <2>5. ASSUME NEW dt \in {0, 1}, TickInWorld(dt) PROVE Inv'
    BY <2>5, TickInWorldInv
  <2>6. ASSUME NEW lost \in BOOLEAN, TickCompletes(lost) PROVE Inv'
    BY <2>6, TickCompletesInv
  <2>7. ASSUME NEW lost \in BOOLEAN, TickMovesOn(lost) PROVE Inv'
    BY <2>7, TickMovesOnInv
  <2> QED BY <1>1, <2>1, <2>2, <2>3, <2>4, <2>5, <2>6, <2>7, GetAverageItemLevelInv, WorldInv,
             SubscribersInv, SweepFiresInv, SweepEndsInv DEF Next, OnWorldTick, Walk
<1>2. CASE UNCHANGED vars
  BY <1>2 DEF vars, server, records, clocks, Inv, Types, Agree, AllHonest, NothingStrands, Completed
<1> QED BY <1>1, <1>2

LEMMA Invariance == ASSUME ItemDataAssumption PROVE Spec => []Inv
<1>1. Init => Inv
  BY InitInv
<1>2. Inv /\ [Next]_vars => Inv'
  BY NextInv
<1> QED BY <1>1, <1>2, PTL DEF Spec

-----------------------------------------------------------------------------
(* Every variable of the queue, the client and the server has its type. *)
THEOREM TypeCorrect == ASSUME ItemDataAssumption PROVE Spec => []TypeOK
<1>1. Inv => TypeOK
  BY DEF Inv, Types, TypeOK, Agree, Owing
<1> QED BY <1>1, Invariance, PTL

(* The queue holds exactly the records owed to addons, each once, with the event
   it is owed, within its limit; and no record an addon waits for is left out. *)
THEOREM QueueIsOwed == ASSUME ItemDataAssumption PROVE Spec => []QueueIsWhatIsOwed
<1>1. Inv => QueueIsWhatIsOwed
  <2> SUFFICES ASSUME Inv PROVE QueueIsWhatIsOwed
    OBVIOUS
  <2>1. Agree(pending, owed) /\ PendingItems = Named(pending)
    BY DEF Inv, PendingItems, Named
  <2>2. Cardinality(PendingItems) = Len(pending)
    BY <2>1, CountOfDistinct DEF Agree
  <2>3. \A n \in DOMAIN pending : (owed[pending[n].item] = "implicit") = pending[n].implicit
    <3>1. pending \in Seq(Entry)
      BY <2>1 DEF Agree
    <3>2. ASSUME NEW n \in DOMAIN pending
          PROVE  (owed[pending[n].item] = "implicit") = pending[n].implicit
      <4>1. pending[n] \in Entry
        BY <3>1
      <4>2. pending[n].implicit \in BOOLEAN
        BY <4>1 DEF Entry
      <4>3. (owed[pending[n].item] = "implicit") <=> pending[n].implicit
        BY <2>1 DEF Agree, SameEvents
      <4> QED BY <4>2, <4>3
    <3> QED BY <3>2
  <2>4. waiting \subseteq PendingItems \cup {event.item}
    BY <2>1 DEF Inv, NothingStrands, Completed
  <2> QED BY <2>1, <2>2, <2>3, <2>4 DEF QueueIsWhatIsOwed, Agree, SameItems
<1> QED BY <1>1, Invariance, PTL

(* The steps that report a failure. *)
LEMMA FailsHonestly ==
  ASSUME ItemDataAssumption, Inv, [Next]_vars,
         event' # event, event'.kind \in {"implicit", "explicit"}, ~event'.ok
  PROVE  \/ event'.item \notin Known
         \/ event'.item \in answers
         \/ Current.lost >= MaxTimeouts - 1
<1>1. /\ pending \in Seq(Entry) /\ AllHonest(pending, cache, answers) /\ walk.i \in Int
  BY DEF Inv, Agree, Types
<1>2. CASE SweepFires
  <2> DEFINE n == CHOOSE m \in SweepResolved : \A k \in SweepResolved : m <= k
  <2>1. n \in SweepResolved /\ Complete(pending, n, cache[pending[n].item] = "loaded")
    BY <1>1, <1>2, FirstResolved DEF SweepFires
  <2> HIDE DEF n
  <2>2. /\ n \in DOMAIN pending /\ Resolved(pending[n])
        /\ event'.item = pending[n].item /\ event'.ok = (cache[pending[n].item] = "loaded")
    BY <2>1 DEF SweepResolved, Complete
  <2>3. pending[n].failed
    BY <2>2 DEF Resolved
  <2> QED BY <1>1, <2>2, <2>3 DEF AllHonest, Honest
<1>3. ASSUME NEW lost \in BOOLEAN, TickCompletes(lost)
      PROVE  \/ event'.item \notin Known
             \/ event'.item \in answers
             \/ Current.lost >= MaxTimeouts - 1
  <2> DEFINE e == Current
  <2>1. /\ e = pending[walk.i] /\ walk.i \in DOMAIN pending
        /\ Complete(pending, walk.i, cache[e.item] = "loaded")
        /\ Resolved(e) \/ (TimedOut(Issued(e, lost)) /\ e.timeouts + 1 >= MaxTimeouts)
    BY <1>3 DEF TickCompletes, OnEntry, Current
  <2>2. e \in Entry /\ Honest(e, cache, answers)
    BY <1>1, <2>1 DEF AllHonest
  <2>3. event'.item = e.item /\ event'.ok = (cache[e.item] = "loaded")
    BY <2>1 DEF Complete
  <2>4. cache[e.item] # "loaded"
    BY <2>3
  <2> HIDE DEF e
  <2>5. CASE Resolved(e)
    BY <2>2, <2>3, <2>4, <2>5 DEF Resolved, Honest
  <2>6. CASE TimedOut(Issued(e, lost)) /\ e.timeouts + 1 >= MaxTimeouts
    <3>1. ~Issues(e)
      <4>1. ASSUME Issues(e) PROVE FALSE
        <5>1. Issued(e, lost).age = 0
          BY <2>2, <4>1, IssuedFacts
        <5> QED BY <2>6, <5>1, Bounds DEF TimedOut
      <4> QED BY <4>1
    <3>2. e.issued
      BY <2>6, <3>1 DEF Issued, TimedOut
    <3>3. e.timeouts \in Nat /\ e.lost \in Nat
      BY <2>2, Bounds DEF Entry
    <3>4. e.item \in Known /\ e.item \notin answers => e.timeouts + 1 <= e.lost + 1
      BY <2>2, <2>4, <3>2 DEF Honest
    <3>5. e.item \in Known /\ e.item \notin answers => e.lost >= MaxTimeouts - 1
      BY <2>6, <3>3, <3>4, Bounds
    <3> QED BY <2>3, <3>5 DEF e
  <2> QED BY <2>1, <2>5, <2>6
<1>4. CASE Subscribers
  BY <1>4 DEF Subscribers, NoEvent
<1>5. CASE event' = event
  BY <1>5
<1> QED BY <1>2, <1>3, <1>4, <1>5
    DEF Next, vars, OnWorldTick, Walk, Ask, EngineFetch, ItemStatsCacheResponse, GetAverageItemLevel,
        RegisterLuaFunctions, ServerLetsGo, ScreenUp, ScreenDown, ServerAdmits, World, TickAway,
        TickInWorld, SweepEnds, TickMovesOn

(* A request fails only if there is no such record, the answer is about to come, or
   answers were lost as often as the client asks. *)
THEOREM FailuresAreHonest == ASSUME ItemDataAssumption PROVE Spec => FailureIsHonest
<1>1. Inv /\ [Next]_vars
        => [event' # event /\ event'.kind \in {"implicit", "explicit"} /\ ~event'.ok =>
              \/ event'.item \notin Known
              \/ event'.item \in answers
              \/ Current.lost >= MaxTimeouts - 1]_vars
  BY FailsHonestly
<1> QED BY <1>1, Invariance, PTL DEF Spec, FailureIsHonest

-----------------------------------------------------------------------------
(* Player names. *)

Players == [name : Names, from : Realms]
Books == UNION {[S -> Players] : S \in SUBSET Guids}
Indexes == UNION {[S -> Guids] : S \in SUBSET Names}
Stores == [entries : Books, byName : Indexes, realm : Realms \cup {NoRealm},
           dirty : BOOLEAN, migrated : BOOLEAN]

(* InLockstep, of any store. *)
Lockstep(s) ==
  \A n \in Names, g \in Guids :
    (n \in DOMAIN s.byName /\ s.byName[n] = g)
      <=> (g \in DOMAIN s.entries /\ s.entries[g].name = n)

Goods == {s \in Stores : Lockstep(s)}

-----------------------------------------------------------------------------
(* Books and indexes, and what adding to them and taking from them gives. *)
LEMMA BookForm ==
  ASSUME NEW S \in SUBSET Guids, NEW f \in [S -> Players]
  PROVE  f \in Books
  BY DEF Books

LEMMA BookParts ==
  ASSUME NEW b \in Books
  PROVE  DOMAIN b \in SUBSET Guids /\ b \in [DOMAIN b -> Players]
  BY DEF Books

LEMMA IndexForm ==
  ASSUME NEW S \in SUBSET Names, NEW f \in [S -> Guids]
  PROVE  f \in Indexes
  BY DEF Indexes

LEMMA IndexParts ==
  ASSUME NEW b \in Indexes
  PROVE  DOMAIN b \in SUBSET Names /\ b \in [DOMAIN b -> Guids]
  BY DEF Indexes

LEMMA EmptyBook == Nobody \in Books /\ Nobody \in Indexes /\ DOMAIN Nobody = {}
<1>1. Nobody \in [{} -> Players] /\ Nobody \in [{} -> Guids] /\ DOMAIN Nobody = {}
  BY DEF Nobody
<1> QED BY <1>1, BookForm, IndexForm

LEMMA WithBook ==
  ASSUME NEW b \in Books, NEW g \in Guids, NEW e \in Players
  PROVE  /\ With(b, g, e) \in Books
         /\ \A h : h \in DOMAIN With(b, g, e) <=> h = g \/ h \in DOMAIN b
         /\ \A h \in DOMAIN With(b, g, e) : With(b, g, e)[h] = IF h = g THEN e ELSE b[h]
<1>1. DOMAIN b \in SUBSET Guids /\ b \in [DOMAIN b -> Players]
  BY BookParts
<1>2. With(b, g, e) \in [DOMAIN b \cup {g} -> Players]
  BY <1>1 DEF With
<1>3. With(b, g, e) \in Books
  BY <1>1, <1>2, BookForm
<1> QED BY <1>3 DEF With

LEMMA WithoutBook ==
  ASSUME NEW b \in Books, NEW S
  PROVE  /\ Without(b, S) \in Books
         /\ \A h : h \in DOMAIN Without(b, S) <=> h \in DOMAIN b /\ h \notin S
         /\ \A h \in DOMAIN Without(b, S) : Without(b, S)[h] = b[h]
<1>1. DOMAIN b \in SUBSET Guids /\ b \in [DOMAIN b -> Players]
  BY BookParts
<1>2. Without(b, S) \in [DOMAIN b \ S -> Players]
  BY <1>1 DEF Without, Restrict
<1>3. Without(b, S) \in Books
  BY <1>1, <1>2, BookForm
<1> QED BY <1>3 DEF Without, Restrict

LEMMA WithIndex ==
  ASSUME NEW b \in Indexes, NEW n \in Names, NEW g \in Guids
  PROVE  /\ With(b, n, g) \in Indexes
         /\ \A m : m \in DOMAIN With(b, n, g) <=> m = n \/ m \in DOMAIN b
         /\ \A m \in DOMAIN With(b, n, g) : With(b, n, g)[m] = IF m = n THEN g ELSE b[m]
<1>1. DOMAIN b \in SUBSET Names /\ b \in [DOMAIN b -> Guids]
  BY IndexParts
<1>2. With(b, n, g) \in [DOMAIN b \cup {n} -> Guids]
  BY <1>1 DEF With
<1>3. With(b, n, g) \in Indexes
  BY <1>1, <1>2, IndexForm
<1> QED BY <1>3 DEF With

LEMMA WithoutIndex ==
  ASSUME NEW b \in Indexes, NEW S
  PROVE  /\ Without(b, S) \in Indexes
         /\ \A m : m \in DOMAIN Without(b, S) <=> m \in DOMAIN b /\ m \notin S
         /\ \A m \in DOMAIN Without(b, S) : Without(b, S)[m] = b[m]
<1>1. DOMAIN b \in SUBSET Names /\ b \in [DOMAIN b -> Guids]
  BY IndexParts
<1>2. Without(b, S) \in [DOMAIN b \ S -> Guids]
  BY <1>1 DEF Without, Restrict
<1>3. Without(b, S) \in Indexes
  BY <1>1, <1>2, IndexForm
<1> QED BY <1>3 DEF Without, Restrict

LEMMA ToldBook ==
  ASSUME NEW b \in Books, NEW g \in Guids, NEW e \in Players
  PROVE  /\ Told(b, g, e) \in Books
         /\ \A h : h \in DOMAIN Told(b, g, e) <=> h = g \/ (h \in DOMAIN b /\ b[h].name # e.name)
         /\ \A h \in DOMAIN Told(b, g, e) : Told(b, g, e)[h] = IF h = g THEN e ELSE b[h]
<1> DEFINE S == {x \in DOMAIN b : b[x].name # e.name} \cup {g}
<1>1. DOMAIN b \in SUBSET Guids /\ b \in [DOMAIN b -> Players]
  BY BookParts
<1>2. Told(b, g, e) = [h \in S |-> IF h = g THEN e ELSE b[h]]
  BY DEF Told
<1>3. [h \in S |-> IF h = g THEN e ELSE b[h]] \in [S -> Players]
  BY <1>1
<1>4. S \in SUBSET Guids
  BY <1>1
<1> HIDE DEF S
<1>5. Told(b, g, e) \in Books
  BY <1>2, <1>3, <1>4, BookForm
<1>6. DOMAIN Told(b, g, e) = S /\ \A h \in S : Told(b, g, e)[h] = IF h = g THEN e ELSE b[h]
  BY <1>2
<1> QED BY <1>5, <1>6 DEF S

(* What a name given to a player leaves of a book. *)
LEMMA ToldSays ==
  ASSUME NEW b \in Books, NEW g \in Guids, NEW e \in Players, NEW h \in Guids, NEW f \in Players
  PROVE  Says(Told(b, g, e), h, f)
           <=> IF h = g THEN f = e ELSE Says(b, h, f) /\ f.name # e.name
  BY ToldBook DEF Says

-----------------------------------------------------------------------------
(* The operations on a store keep its index, and do to its players what is told. *)

SameSession(s, t) == t.realm = s.realm /\ (t.dirty <=> s.dirty) /\ (t.migrated <=> s.migrated)

LEMMA GoodParts ==
  ASSUME NEW s \in Goods
  PROVE  /\ s.entries \in Books /\ s.byName \in Indexes /\ Lockstep(s)
         /\ s.realm \in Realms \cup {NoRealm} /\ s.dirty \in BOOLEAN /\ s.migrated \in BOOLEAN
         /\ DOMAIN s.entries \subseteq Guids /\ DOMAIN s.byName \subseteq Names
         /\ \A g \in DOMAIN s.entries :
              /\ s.entries[g] \in Players /\ s.entries[g].name \in DOMAIN s.byName
              /\ s.byName[s.entries[g].name] = g
         /\ \A n \in DOMAIN s.byName :
              s.byName[n] \in DOMAIN s.entries /\ s.entries[s.byName[n]].name = n
<1>1. /\ s.entries \in Books /\ s.byName \in Indexes /\ Lockstep(s)
      /\ s.realm \in Realms \cup {NoRealm} /\ s.dirty \in BOOLEAN /\ s.migrated \in BOOLEAN
  BY DEF Goods, Stores
<1>2. DOMAIN s.entries \in SUBSET Guids /\ s.entries \in [DOMAIN s.entries -> Players]
  BY <1>1, BookParts
<1>3. DOMAIN s.byName \in SUBSET Names /\ s.byName \in [DOMAIN s.byName -> Guids]
  BY <1>1, IndexParts
<1>4. \A g \in DOMAIN s.entries : s.entries[g] \in Players /\ s.entries[g].name \in Names
  BY <1>2 DEF Players
<1>5. \A g \in DOMAIN s.entries : s.entries[g].name \in DOMAIN s.byName /\ s.byName[s.entries[g].name] = g
  BY <1>1, <1>2, <1>4 DEF Lockstep
<1>6. \A n \in DOMAIN s.byName : s.byName[n] \in DOMAIN s.entries /\ s.entries[s.byName[n]].name = n
  BY <1>1, <1>3 DEF Lockstep
<1> QED BY <1>1, <1>2, <1>3, <1>4, <1>5, <1>6

(* A player taken out of the store. *)
LEMMA EraseIs ==
  ASSUME NEW s \in Goods, NEW g \in Guids
  PROVE  /\ Erase(s, g) \in Goods /\ SameSession(s, Erase(s, g))
         /\ Erase(s, g).entries = Without(s.entries, {g})
<1> DEFINE t == Erase(s, g)
<1>1. CASE g \notin DOMAIN s.entries
  <2>1. t = s
    BY <1>1 DEF Erase
  <2>2. s.entries \in [DOMAIN s.entries -> Players]
    BY GoodParts, BookParts
  <2>3. Without(s.entries, {g}) = s.entries
    BY <1>1, <2>2 DEF Without, Restrict
  <2> QED BY <2>1, <2>3 DEF SameSession
<1>2. CASE g \in DOMAIN s.entries
  <2> DEFINE n == s.entries[g].name
  <2>1. t = [s EXCEPT !.entries = Without(s.entries, {g}), !.byName = Without(s.byName, {n})]
    BY <1>2 DEF Erase
  <2>2. s \in Stores /\ s.entries \in Books /\ s.byName \in Indexes
    BY DEF Goods, Stores
  <2>3. /\ Without(s.entries, {g}) \in Books /\ Without(s.byName, {n}) \in Indexes
        /\ \A h : h \in DOMAIN Without(s.entries, {g}) <=> h \in DOMAIN s.entries /\ h \notin {g}
        /\ \A h : h \in DOMAIN Without(s.byName, {n}) <=> h \in DOMAIN s.byName /\ h \notin {n}
        /\ \A h \in DOMAIN Without(s.entries, {g}) : Without(s.entries, {g})[h] = s.entries[h]
        /\ \A m \in DOMAIN Without(s.byName, {n}) : Without(s.byName, {n})[m] = s.byName[m]
    BY <2>2, WithoutBook, WithoutIndex
  <2>4. /\ t \in Stores /\ t.entries = Without(s.entries, {g}) /\ t.byName = Without(s.byName, {n})
        /\ SameSession(s, t)
    BY <2>1, <2>2, <2>3 DEF Stores, SameSession
  <2>5. Lockstep(t)
    <3> HIDE DEF t
    <3>1. s.byName[n] = g /\ Lockstep(s)
      BY <1>2, GoodParts
    <3>2. SUFFICES ASSUME NEW m \in Names, NEW h \in Guids
                   PROVE  (m \in DOMAIN t.byName /\ t.byName[m] = h)
                            <=> (h \in DOMAIN t.entries /\ t.entries[h].name = m)
      BY DEF Lockstep
    <3>3. (m \in DOMAIN s.byName /\ s.byName[m] = h) <=> (h \in DOMAIN s.entries /\ s.entries[h].name = m)
      BY <3>1 DEF Lockstep
    <3>4. m \in DOMAIN t.byName <=> m \in DOMAIN s.byName /\ m # n
      BY <2>3, <2>4
    <3>5. h \in DOMAIN t.entries <=> h \in DOMAIN s.entries /\ h # g
      BY <2>3, <2>4
    <3> QED BY <1>2, <2>3, <2>4, <3>1, <3>3, <3>4, <3>5
  <2> QED BY <2>4, <2>5 DEF Goods
<1> QED BY <1>1, <1>2

(* A player put in the store: another one with the name is forgotten. *)
LEMMA UpsertIs ==
  ASSUME NEW s \in Goods, NEW g \in Guids, NEW e \in Players
  PROVE  /\ Upsert(s, g, e) \in Goods /\ SameSession(s, Upsert(s, g, e))
         /\ Upsert(s, g, e).entries = Told(s.entries, g, e)
<1> DEFINE t == Upsert(s, g, e)
           other == IF e.name \in DOMAIN s.byName THEN {s.byName[e.name]} \ {g} ELSE {}
           former == IF g \in DOMAIN s.entries THEN {s.entries[g].name} ELSE {}
           b == With(Without(s.entries, other), g, e)
           x == With(Without(s.byName, former), e.name, g)
<1>1. t = [s EXCEPT !.entries = b, !.byName = x]
  BY DEF Upsert
<1>2. s \in Stores /\ s.entries \in Books /\ s.byName \in Indexes /\ e.name \in Names
  BY DEF Goods, Stores, Players
<1>3. other = {h \in DOMAIN s.entries : s.entries[h].name = e.name} \ {g}
  BY <1>2, GoodParts
<1> DEFINE b0 == Without(s.entries, other)
           x0 == Without(s.byName, former)
<1>4. /\ b0 \in Books /\ \A h : h \in DOMAIN b0 <=> h \in DOMAIN s.entries /\ h \notin other
      /\ \A h \in DOMAIN b0 : b0[h] = s.entries[h]
  <2> HIDE DEF other
  <2> QED BY <1>2, WithoutBook
<1>5. /\ x0 \in Indexes /\ \A n : n \in DOMAIN x0 <=> n \in DOMAIN s.byName /\ n \notin former
      /\ \A n \in DOMAIN x0 : x0[n] = s.byName[n]
  <2> HIDE DEF former
  <2> QED BY <1>2, WithoutIndex
<1>6. /\ b \in Books /\ \A h : h \in DOMAIN b <=> h = g \/ h \in DOMAIN b0
      /\ \A h \in DOMAIN b : b[h] = IF h = g THEN e ELSE b0[h]
  <2> HIDE DEF b0
  <2>1. b = With(b0, g, e)
    BY DEF b0
  <2> HIDE DEF b
  <2> QED BY <1>4, <2>1, WithBook
<1>7. /\ x \in Indexes /\ \A n : n \in DOMAIN x <=> n = e.name \/ n \in DOMAIN x0
      /\ \A n \in DOMAIN x : x[n] = IF n = e.name THEN g ELSE x0[n]
  <2> HIDE DEF x0
  <2>1. x = With(x0, e.name, g)
    BY DEF x0
  <2> HIDE DEF x
  <2> QED BY <1>2, <1>5, <2>1, WithIndex
<1> HIDE DEF b, x, b0, x0, t
<1>8. t \in Stores /\ t.entries = b /\ t.byName = x /\ SameSession(s, t)
  BY <1>1, <1>2, <1>6, <1>7 DEF Stores, SameSession
<1>9. Lockstep(t)
  <2>1. SUFFICES ASSUME NEW n \in Names, NEW h \in Guids
                 PROVE  (n \in DOMAIN x /\ x[n] = h) <=> (h \in DOMAIN b /\ b[h].name = n)
    BY <1>8 DEF Lockstep
  <2>2. CASE n = e.name
    BY <2>2, <1>3, <1>4, <1>6, <1>7
  <2>3. CASE h = g /\ n # e.name
    <3>1. b[h] = e /\ h \in DOMAIN b
      BY <2>3, <1>6
    <3>2. n \in DOMAIN x => x[n] # g
      BY <2>3, <1>5, <1>7, GoodParts
    <3> QED BY <2>3, <3>1, <3>2
  <2>4. CASE h # g /\ n # e.name
    BY <2>4, <1>3, <1>4, <1>5, <1>6, <1>7, GoodParts
  <2> QED BY <2>2, <2>3, <2>4
<1>10. b = Told(s.entries, g, e)
  <2>1. /\ Told(s.entries, g, e) \in Books
        /\ \A h : h \in DOMAIN Told(s.entries, g, e)
                   <=> h = g \/ (h \in DOMAIN s.entries /\ s.entries[h].name # e.name)
        /\ \A h \in DOMAIN Told(s.entries, g, e) :
             Told(s.entries, g, e)[h] = IF h = g THEN e ELSE s.entries[h]
    BY <1>2, ToldBook
  <2>2. DOMAIN b = DOMAIN Told(s.entries, g, e)
    BY <1>3, <1>4, <1>6, <2>1
  <2>3. \A h \in DOMAIN b : b[h] = Told(s.entries, g, e)[h]
    BY <1>4, <1>6, <2>1, <2>2
  <2>4. b \in [DOMAIN b -> Players] /\ Told(s.entries, g, e) \in [DOMAIN b -> Players]
    BY <1>6, <2>1, <2>2, BookParts
  <2> QED BY <2>3, <2>4
<1> QED BY <1>8, <1>9, <1>10 DEF Goods, t

(* A player left to the engine: neither the player nor the name stays. *)
LEMMA HandOverIs ==
  ASSUME NEW s \in Goods, NEW g \in Guids, NEW e \in Players
  PROVE  /\ HandOver(s, g, e) \in Goods /\ SameSession(s, HandOver(s, g, e))
         /\ \A h : h \in DOMAIN HandOver(s, g, e).entries
                    <=> h # g /\ h \in DOMAIN s.entries /\ s.entries[h].name # e.name
         /\ \A h \in DOMAIN HandOver(s, g, e).entries : HandOver(s, g, e).entries[h] = s.entries[h]
<1> DEFINE mine == Erase(s, g)
<1>1. mine \in Goods /\ SameSession(s, mine) /\ mine.entries = Without(s.entries, {g})
  BY EraseIs
<1>2. /\ \A h : h \in DOMAIN mine.entries <=> h \in DOMAIN s.entries /\ h \notin {g}
      /\ \A h \in DOMAIN mine.entries : mine.entries[h] = s.entries[h]
  <2>1. s.entries \in Books
    BY GoodParts
  <2> HIDE DEF mine
  <2> QED BY <1>1, <2>1, WithoutBook
<1>3. HandOver(s, g, e) = IF e.name \in DOMAIN mine.byName THEN Erase(mine, mine.byName[e.name]) ELSE mine
  BY DEF HandOver
<1> HIDE DEF mine
<1>4. CASE e.name \in DOMAIN mine.byName
  <2> DEFINE o == mine.byName[e.name]
             t == Erase(mine, o)
  <2>1. o \in DOMAIN mine.entries /\ o \in Guids /\ mine.entries[o].name = e.name
        /\ \A h \in DOMAIN mine.entries : mine.entries[h].name = e.name => h = o
    <3>1. /\ DOMAIN mine.entries \subseteq Guids
          /\ \A h \in DOMAIN mine.entries : mine.byName[mine.entries[h].name] = h
          /\ \A n \in DOMAIN mine.byName :
               mine.byName[n] \in DOMAIN mine.entries /\ mine.entries[mine.byName[n]].name = n
      BY <1>1, GoodParts
    <3> QED BY <1>4, <3>1
  <2> HIDE DEF o
  <2>2. t \in Goods /\ SameSession(mine, t) /\ t.entries = Without(mine.entries, {o})
    BY <1>1, <2>1, EraseIs
  <2> HIDE DEF t
  <2>3. /\ \A h : h \in DOMAIN t.entries <=> h \in DOMAIN mine.entries /\ h \notin {o}
        /\ \A h \in DOMAIN t.entries : t.entries[h] = mine.entries[h]
    <3>1. mine.entries \in Books
      BY <1>1, GoodParts
    <3> QED BY <2>2, <3>1, WithoutBook
  <2>4. HandOver(s, g, e) = t
    BY <1>3, <1>4 DEF o, t
  <2> QED BY <1>1, <1>2, <2>1, <2>2, <2>3, <2>4 DEF SameSession
<1>5. CASE e.name \notin DOMAIN mine.byName
  <2>1. \A h \in DOMAIN mine.entries : mine.entries[h].name # e.name
    BY <1>1, <1>5, GoodParts
  <2> QED BY <1>1, <1>2, <1>3, <1>5, <2>1
<1> QED BY <1>4, <1>5

-----------------------------------------------------------------------------
(* The walks over the engine's records, step by step. *)
LEMMA TakenRuns ==
  ASSUME engine \in Books, NEW s \in Goods, NEW order \in Seq(DOMAIN engine)
  PROVE  \E run : /\ run[0] = s /\ \A i \in 0..Len(order) : run[i] \in Goods
                  /\ \A i \in 1..Len(order) : run[i] = Upsert(run[i - 1], order[i], engine[order[i]])
                  /\ run[Len(order)] = Taken(s, order)
<1> DEFINE n == Len(order)
           T(p, i) == Upsert(p, order[i], engine[order[i]])
           step == [x \in Goods \X (1..n) |-> T(x[1], x[2])]
<1>1. n \in Nat /\ DOMAIN order = 1..n
  OBVIOUS
<1>2. ASSUME NEW p \in Goods, NEW i \in 1..n PROVE T(p, i) \in Goods
  <2>1. order[i] \in Guids /\ engine[order[i]] \in Players
    <3>1. order[i] \in DOMAIN engine
      OBVIOUS
    <3> QED BY <3>1, BookParts
  <2> QED BY <2>1, UpsertIs
<1>3. step \in [Goods \X (1..n) -> Goods]
  <2> HIDE DEF n, T
  <2> QED BY <1>2
<1>4. \A p \in Goods, i \in 1..n : step[p, i] = T(p, i)
  <2> HIDE DEF n, T
  <2> QED OBVIOUS
<1>5. PICK f : Walks(f, n, Goods, s, step)
  <2> HIDE DEF n, step
  <2> QED BY <1>1, <1>3, WalkExists
<1>6. f = [w \in SUBSET DOMAIN order |-> IF w = {} THEN s ELSE T(f[w \ {Max(w)}], Max(w))]
  <2> HIDE DEF step, n, T, Max
  <2>1. \A w \in SUBSET (1..n) : w # {} => Max(w) \in 1..n
    BY <1>1, MaxIsIn
  <2>2. \A w \in SUBSET (1..n) : w # {} => step[f[w \ {Max(w)}], Max(w)] = T(f[w \ {Max(w)}], Max(w))
    <3>1. \A w \in SUBSET (1..n) : w \ {Max(w)} \in SUBSET (1..n)
      OBVIOUS
    <3>2. \A w \in SUBSET (1..n) : f[w] \in Goods
      BY <1>5 DEF Walks
    <3> QED BY <1>4, <3>1, <3>2, <2>1
  <2>3. /\ f \in [SUBSET (1..n) -> Goods]
        /\ \A w \in SUBSET (1..n) : f[w] = IF w = {} THEN s ELSE T(f[w \ {Max(w)}], Max(w))
    BY <1>5, <2>2 DEF Walks
  <2> QED BY <1>1, <2>3
<1>7. PICK h : /\ h = [w \in SUBSET DOMAIN order |-> IF w = {} THEN s ELSE T(h[w \ {Max(w)}], Max(w))]
               /\ FoldLeft(LAMBDA t, g : Upsert(t, g, engine[g]), s, order) = h[DOMAIN order]
  BY <1>6 DEF FoldLeft, MapThenFoldSet
<1>8. h[{}] = s /\ \A i \in 1..n : h[1..i] = T(h[1..(i - 1)], i)
  <2> HIDE DEF T, Max, n
  <2>1. \A i \in 1..n : /\ Max(1..i) = i /\ (1..i) \ {Max(1..i)} = 1..(i - 1)
                        /\ 1..i \in SUBSET DOMAIN order /\ 1..i # {}
    <3> SUFFICES ASSUME NEW i \in 1..n
                 PROVE  /\ Max(1..i) = i /\ (1..i) \ {Max(1..i)} = 1..(i - 1)
                        /\ 1..i \in SUBSET DOMAIN order /\ 1..i # {}
      OBVIOUS
    <3>1. i \in Nat \ {0} /\ 1..i \in SUBSET (1..n) /\ i \in 1..i
      BY <1>1
    <3> QED BY <1>1, <3>1, MaxOfUpTo
  <2> QED BY <1>7, <2>1
<1> DEFINE run == [i \in 0..n |-> h[1..i]]
<1>9. run[0] = s /\ (\A i \in 1..n : run[i] = T(run[i - 1], i)) /\ run[n] = h[DOMAIN order]
  <2> HIDE DEF T, n
  <2>1. 1..0 = {} /\ 0 \in 0..n /\ n \in 0..n /\ \A i \in 1..n : i \in 0..n /\ i - 1 \in 0..n
    BY <1>1
  <2> QED BY <1>1, <1>8, <2>1
<1> HIDE DEF run
<1>10. \A i \in 0..n : run[i] \in Goods
  <2> DEFINE S == {i \in 0..n : run[i] \in Goods}
  <2> HIDE DEF n, T
  <2>1. 0 \in S /\ \A i \in 1..n : i - 1 \in S => i \in S
    BY <1>1, <1>2, <1>9
  <2>2. \A i \in 0..n : i \in S
    <3> HIDE DEF S
    <3> QED BY <1>1, <2>1, UpTo
  <2> QED BY <2>2
<1> QED BY <1>7, <1>9, <1>10 DEF Taken

LEMMA HandedRuns ==
  ASSUME engine \in Books, NEW s \in Goods, NEW order \in Seq(DOMAIN engine)
  PROVE  \E run : /\ run[0] = s /\ \A i \in 0..Len(order) : run[i] \in Goods
                  /\ \A i \in 1..Len(order) : run[i] = HandOver(run[i - 1], order[i], engine[order[i]])
                  /\ run[Len(order)] = FoldLeft(LAMBDA t, g : HandOver(t, g, engine[g]), s, order)
<1> DEFINE n == Len(order)
           T(p, i) == HandOver(p, order[i], engine[order[i]])
           step == [x \in Goods \X (1..n) |-> T(x[1], x[2])]
<1>1. n \in Nat /\ DOMAIN order = 1..n
  OBVIOUS
<1>2. ASSUME NEW p \in Goods, NEW i \in 1..n PROVE T(p, i) \in Goods
  <2>1. order[i] \in Guids /\ engine[order[i]] \in Players
    <3>1. order[i] \in DOMAIN engine
      OBVIOUS
    <3> QED BY <3>1, BookParts
  <2> QED BY <2>1, HandOverIs
<1>3. step \in [Goods \X (1..n) -> Goods]
  <2> HIDE DEF n, T
  <2> QED BY <1>2
<1>4. \A p \in Goods, i \in 1..n : step[p, i] = T(p, i)
  <2> HIDE DEF n, T
  <2> QED OBVIOUS
<1>5. PICK f : Walks(f, n, Goods, s, step)
  <2> HIDE DEF n, step
  <2> QED BY <1>1, <1>3, WalkExists
<1>6. f = [w \in SUBSET DOMAIN order |-> IF w = {} THEN s ELSE T(f[w \ {Max(w)}], Max(w))]
  <2> HIDE DEF step, n, T, Max
  <2>1. \A w \in SUBSET (1..n) : w # {} => Max(w) \in 1..n
    BY <1>1, MaxIsIn
  <2>2. \A w \in SUBSET (1..n) : w # {} => step[f[w \ {Max(w)}], Max(w)] = T(f[w \ {Max(w)}], Max(w))
    <3>1. \A w \in SUBSET (1..n) : w \ {Max(w)} \in SUBSET (1..n)
      OBVIOUS
    <3>2. \A w \in SUBSET (1..n) : f[w] \in Goods
      BY <1>5 DEF Walks
    <3> QED BY <1>4, <3>1, <3>2, <2>1
  <2>3. /\ f \in [SUBSET (1..n) -> Goods]
        /\ \A w \in SUBSET (1..n) : f[w] = IF w = {} THEN s ELSE T(f[w \ {Max(w)}], Max(w))
    BY <1>5, <2>2 DEF Walks
  <2> QED BY <1>1, <2>3
<1>7. PICK h : /\ h = [w \in SUBSET DOMAIN order |-> IF w = {} THEN s ELSE T(h[w \ {Max(w)}], Max(w))]
               /\ FoldLeft(LAMBDA t, g : HandOver(t, g, engine[g]), s, order) = h[DOMAIN order]
  BY <1>6 DEF FoldLeft, MapThenFoldSet
<1>8. h[{}] = s /\ \A i \in 1..n : h[1..i] = T(h[1..(i - 1)], i)
  <2> HIDE DEF T, Max, n
  <2>1. \A i \in 1..n : /\ Max(1..i) = i /\ (1..i) \ {Max(1..i)} = 1..(i - 1)
                        /\ 1..i \in SUBSET DOMAIN order /\ 1..i # {}
    <3> SUFFICES ASSUME NEW i \in 1..n
                 PROVE  /\ Max(1..i) = i /\ (1..i) \ {Max(1..i)} = 1..(i - 1)
                        /\ 1..i \in SUBSET DOMAIN order /\ 1..i # {}
      OBVIOUS
    <3>1. i \in Nat \ {0} /\ 1..i \in SUBSET (1..n) /\ i \in 1..i
      BY <1>1
    <3> QED BY <1>1, <3>1, MaxOfUpTo
  <2> QED BY <1>7, <2>1
<1> DEFINE run == [i \in 0..n |-> h[1..i]]
<1>9. run[0] = s /\ (\A i \in 1..n : run[i] = T(run[i - 1], i)) /\ run[n] = h[DOMAIN order]
  <2> HIDE DEF T, n
  <2>1. 1..0 = {} /\ 0 \in 0..n /\ n \in 0..n /\ \A i \in 1..n : i \in 0..n /\ i - 1 \in 0..n
    BY <1>1
  <2> QED BY <1>1, <1>8, <2>1
<1> HIDE DEF run
<1>10. \A i \in 0..n : run[i] \in Goods
  <2> DEFINE S == {i \in 0..n : run[i] \in Goods}
  <2> HIDE DEF n, T
  <2>1. 0 \in S /\ \A i \in 1..n : i - 1 \in S => i \in S
    BY <1>1, <1>2, <1>9
  <2>2. \A i \in 0..n : i \in S
    <3> HIDE DEF S
    <3> QED BY <1>1, <2>1, UpTo
  <2> QED BY <2>2
<1> QED BY <1>7, <1>9, <1>10

LEMMA ToldRuns ==
  ASSUME engine \in Books, NEW b \in Books, NEW order \in Seq(DOMAIN engine)
  PROVE  \E run : /\ run[0] = b /\ \A i \in 0..Len(order) : run[i] \in Books
                  /\ \A i \in 1..Len(order) : run[i] = Told(run[i - 1], order[i], engine[order[i]])
                  /\ run[Len(order)] = FoldLeft(LAMBDA c, g : Told(c, g, engine[g]), b, order)
<1> DEFINE n == Len(order)
           T(p, i) == Told(p, order[i], engine[order[i]])
           step == [x \in Books \X (1..n) |-> T(x[1], x[2])]
<1>1. n \in Nat /\ DOMAIN order = 1..n
  OBVIOUS
<1>2. ASSUME NEW p \in Books, NEW i \in 1..n PROVE T(p, i) \in Books
  <2>1. order[i] \in Guids /\ engine[order[i]] \in Players
    <3>1. order[i] \in DOMAIN engine
      OBVIOUS
    <3> QED BY <3>1, BookParts
  <2> QED BY <2>1, ToldBook
<1>3. step \in [Books \X (1..n) -> Books]
  <2> HIDE DEF n, T
  <2> QED BY <1>2
<1>4. \A p \in Books, i \in 1..n : step[p, i] = T(p, i)
  <2> HIDE DEF n, T
  <2> QED OBVIOUS
<1>5. PICK f : Walks(f, n, Books, b, step)
  <2> HIDE DEF n, step
  <2> QED BY <1>1, <1>3, WalkExists
<1>6. f = [w \in SUBSET DOMAIN order |-> IF w = {} THEN b ELSE T(f[w \ {Max(w)}], Max(w))]
  <2> HIDE DEF step, n, T, Max
  <2>1. \A w \in SUBSET (1..n) : w # {} => Max(w) \in 1..n
    BY <1>1, MaxIsIn
  <2>2. \A w \in SUBSET (1..n) : w # {} => step[f[w \ {Max(w)}], Max(w)] = T(f[w \ {Max(w)}], Max(w))
    <3>1. \A w \in SUBSET (1..n) : w \ {Max(w)} \in SUBSET (1..n)
      OBVIOUS
    <3>2. \A w \in SUBSET (1..n) : f[w] \in Books
      BY <1>5 DEF Walks
    <3> QED BY <1>4, <3>1, <3>2, <2>1
  <2>3. /\ f \in [SUBSET (1..n) -> Books]
        /\ \A w \in SUBSET (1..n) : f[w] = IF w = {} THEN b ELSE T(f[w \ {Max(w)}], Max(w))
    BY <1>5, <2>2 DEF Walks
  <2> QED BY <1>1, <2>3
<1>7. PICK h : /\ h = [w \in SUBSET DOMAIN order |-> IF w = {} THEN b ELSE T(h[w \ {Max(w)}], Max(w))]
               /\ FoldLeft(LAMBDA c, g : Told(c, g, engine[g]), b, order) = h[DOMAIN order]
  BY <1>6 DEF FoldLeft, MapThenFoldSet
<1>8. h[{}] = b /\ \A i \in 1..n : h[1..i] = T(h[1..(i - 1)], i)
  <2> HIDE DEF T, Max, n
  <2>1. \A i \in 1..n : /\ Max(1..i) = i /\ (1..i) \ {Max(1..i)} = 1..(i - 1)
                        /\ 1..i \in SUBSET DOMAIN order /\ 1..i # {}
    <3> SUFFICES ASSUME NEW i \in 1..n
                 PROVE  /\ Max(1..i) = i /\ (1..i) \ {Max(1..i)} = 1..(i - 1)
                        /\ 1..i \in SUBSET DOMAIN order /\ 1..i # {}
      OBVIOUS
    <3>1. i \in Nat \ {0} /\ 1..i \in SUBSET (1..n) /\ i \in 1..i
      BY <1>1
    <3> QED BY <1>1, <3>1, MaxOfUpTo
  <2> QED BY <1>7, <2>1
<1> DEFINE run == [i \in 0..n |-> h[1..i]]
<1>9. run[0] = b /\ (\A i \in 1..n : run[i] = T(run[i - 1], i)) /\ run[n] = h[DOMAIN order]
  <2> HIDE DEF T, n
  <2>1. 1..0 = {} /\ 0 \in 0..n /\ n \in 0..n /\ \A i \in 1..n : i \in 0..n /\ i - 1 \in 0..n
    BY <1>1
  <2> QED BY <1>1, <1>8, <2>1
<1> HIDE DEF run
<1>10. \A i \in 0..n : run[i] \in Books
  <2> DEFINE S == {i \in 0..n : run[i] \in Books}
  <2> HIDE DEF n, T
  <2>1. 0 \in S /\ \A i \in 1..n : i - 1 \in S => i \in S
    BY <1>1, <1>2, <1>9
  <2>2. \A i \in 0..n : i \in S
    <3> HIDE DEF S
    <3> QED BY <1>1, <2>1, UpTo
  <2> QED BY <2>2
<1> QED BY <1>7, <1>9, <1>10

Covers(order, S) == \A x \in S : \E i \in 1..Len(order) : order[i] = x

(* An order of a finite set has every element of it. *)
LEMMA OrderCovers ==
  ASSUME NEW S, IsFiniteSet(S), NEW order \in [1..Cardinality(S) -> S],
         \A i, j \in 1..Cardinality(S) : i # j => order[i] # order[j]
  PROVE  /\ order \in Seq(S) /\ Len(order) = Cardinality(S) /\ Cardinality(S) \in Nat
         /\ Covers(order, S) /\ (order # <<>> <=> S # {})
<1> DEFINE n == Cardinality(S)
           T == {order[i] : i \in 1..n}
<1>1. n \in Nat
  BY FS_CardinalityType
<1>2. order \in Seq(S) /\ Len(order) = n /\ DOMAIN order = 1..n
  BY <1>1
<1>3. T \subseteq S
  OBVIOUS
<1>4. ExistsBijection(1..n, T)
  <2>1. order \in Bijection(1..n, T)
    BY DEF Bijection, Injection, Surjection, IsInjective
  <2> QED BY <2>1 DEF ExistsBijection
<1>5. IsFiniteSet(T)
  <2> HIDE DEF T
  <2> QED BY <1>3, FS_Subset
<1>6. Cardinality(T) = n
  <2> HIDE DEF T, n
  <2> QED BY <1>1, <1>4, <1>5, FS_CountingElements
<1>7. T = S
  <2> HIDE DEF T
  <2> QED BY <1>3, <1>6, FS_Subset
<1>8. Covers(order, S)
  BY <1>2, <1>7 DEF Covers
<1>9. order # <<>> <=> S # {}
  <2>1. order = <<>> <=> n = 0
    BY <1>1, <1>2
  <2>2. n = 0 <=> S = {}
    BY FS_EmptySet
  <2> QED BY <2>1, <2>2
<1> QED BY <1>1, <1>2, <1>8, <1>9

(* Every order of the engine's records has all of them. *)
LEMMA EngineOrders ==
  ASSUME NameCacheAssumption, engine \in Books
  PROVE  /\ IsFiniteSet(DOMAIN engine)
         /\ \A order \in Orders \cup {SetToSeq(DOMAIN engine)} :
              /\ order \in Seq(DOMAIN engine) /\ Covers(order, DOMAIN engine)
              /\ order # <<>> <=> DOMAIN engine # {}
<1> DEFINE E == DOMAIN engine
<1>1. IsFiniteSet(E)
  <2>1. E \subseteq Guids
    BY BookParts
  <2> HIDE DEF E
  <2> QED BY <2>1, FS_Subset DEF NameCacheAssumption
<1>2. ASSUME NEW order \in Orders
      PROVE  /\ order \in [1..Cardinality(E) -> E]
             /\ \A i, j \in 1..Cardinality(E) : i # j => order[i] # order[j]
  BY DEF Orders, SetToSeqs
<1>3. /\ SetToSeq(E) \in [1..Cardinality(E) -> E]
      /\ \A i, j \in 1..Cardinality(E) : i # j => SetToSeq(E)[i] # SetToSeq(E)[j]
  <2> HIDE DEF E
  <2>1. ExistsBijection(1..Cardinality(E), E)
    BY <1>1, FS_CardinalityType, FS_CountingElements
  <2>2. PICK f \in Bijection(1..Cardinality(E), E) : TRUE
    BY <2>1 DEF ExistsBijection
  <2>3. f \in [1..Cardinality(E) -> E] /\ IsInjective(f)
    BY <2>2 DEF Bijection, Injection, IsInjective
  <2>4. SetToSeq(E) \in [1..Cardinality(E) -> E] /\ IsInjective(SetToSeq(E))
    BY <2>3 DEF SetToSeq
  <2> QED BY <2>4 DEF IsInjective
<1> HIDE DEF E
<1>4. ASSUME NEW order \in Orders \cup {SetToSeq(E)}
      PROVE  order \in Seq(E) /\ Covers(order, E) /\ (order # <<>> <=> E # {})
  <2>1. order \in [1..Cardinality(E) -> E]
    BY <1>2, <1>3
  <2>2. \A i, j \in 1..Cardinality(E) : i # j => order[i] # order[j]
    BY <1>2, <1>3
  <2> QED BY <1>1, <2>1, <2>2, OrderCovers
<1> QED BY <1>1, <1>4 DEF E

-----------------------------------------------------------------------------
(* What the walks come to, for the records whose names are not in doubt. *)

Sure(names) == [name : Names \ names, from : Realms]

(* Two books say the same, but for the names in doubt. *)
Same(have, want, names) ==
  \A g \in Guids, e \in Sure(names) : Says(have, g, e) <=> Says(want, g, e)

(* Neither the player nor the name of a record is in the book. *)
Free(b, g, e) == g \notin DOMAIN b /\ \A h \in DOMAIN b : b[h].name # e.name

(* What both say, the first one's word being the last. *)
Merged(have, first, second, names) ==
  \A g \in Guids, e \in Sure(names) :
    Says(have, g, e) <=> Says(first, g, e) \/ (Says(second, g, e) /\ Free(first, g, e))

(* A name held for two players is in doubt. *)
Single(b, names) ==
  \A g, h \in DOMAIN b : g # h /\ b[g].name = b[h].name => b[g].name \in names

LEMMA SureIsKnown ==
  ASSUME NEW names, NEW e \in Sure(names)
  PROVE  e \in Players /\ e.name \in Names /\ e.name \notin names
  BY DEF Sure, Players

(* Told one by one, the records have the last word. *)
LEMMA ToldMerges ==
  ASSUME engine \in Books, NEW order \in Seq(DOMAIN engine), Covers(order, DOMAIN engine),
         NEW run, \A i \in 0..Len(order) : run[i] \in Books,
         \A i \in 1..Len(order) : run[i] = Told(run[i - 1], order[i], engine[order[i]]),
         NEW names, Single(engine, names)
  PROVE  Merged(run[Len(order)], engine, run[0], names)
<1> DEFINE n == Len(order)
<1> SUFFICES ASSUME NEW g \in Guids, NEW e \in Sure(names)
             PROVE  Says(run[n], g, e)
                      <=> Says(engine, g, e) \/ (Says(run[0], g, e) /\ Free(engine, g, e))
  BY DEF Merged
<1> DEFINE Met(i) == \E j \in 1..i : order[j] = g
           Apart(i) == \A j \in 1..i : order[j] # g /\ engine[order[j]].name # e.name
           Here(i) == Says(run[i], g, e)
                        <=> (Met(i) /\ engine[g] = e) \/ (Says(run[0], g, e) /\ Apart(i))
           S == {i \in 0..n : Here(i)}
<1>1. n \in Nat /\ e \in Players /\ e.name \notin names
  BY SureIsKnown
<1>2. \A i \in 1..n : order[i] \in DOMAIN engine /\ order[i] \in Guids /\ engine[order[i]] \in Players
  <2>1. \A i \in 1..n : order[i] \in DOMAIN engine
    OBVIOUS
  <2>2. DOMAIN engine \in SUBSET Guids /\ engine \in [DOMAIN engine -> Players]
    BY BookParts
  <2> QED BY <2>1, <2>2
<1>3. 0 \in S
  BY <1>1
<1>4. ASSUME NEW i \in 1..n, i - 1 \in S PROVE i \in S
  <2> DEFINE h == order[i]
             f == engine[h]
  <2>1. /\ i \in 0..n /\ i - 1 \in 0..n /\ Here(i - 1) /\ run[i - 1] \in Books
        /\ h \in DOMAIN engine /\ h \in Guids /\ f \in Players
        /\ run[i] = Told(run[i - 1], h, f)
    BY <1>1, <1>2, <1>4
  <2>2. \A j \in 1..i : j \in 1..(i - 1) \/ j = i
    OBVIOUS
  <2>3. i \in 1..i /\ \A j \in 1..(i - 1) : j \in 1..i /\ j \in 1..n
    OBVIOUS
  <2> HIDE DEF h, f
  <2>4. Says(run[i], g, e) <=> IF g = h THEN e = f ELSE Says(run[i - 1], g, e) /\ e.name # f.name
    BY <1>1, <2>1, ToldSays
  <2>5. (Met(i) <=> Met(i - 1) \/ h = g) /\ (Apart(i) <=> Apart(i - 1) /\ h # g /\ f.name # e.name)
    BY <2>2, <2>3 DEF h, f
  <2>6. Here(i)
    <3>1. CASE g = h
      <4>1. engine[g] = f
        BY <3>1 DEF f
      <4> HIDE DEF Met, Apart
      <4> QED BY <3>1, <4>1, <2>4, <2>5
    <3>2. CASE g # h
      <4>1. Met(i - 1) /\ engine[g] = e => e.name # f.name
        <5> SUFFICES ASSUME Met(i - 1), engine[g] = e, e.name = f.name PROVE FALSE
          OBVIOUS
        <5>1. g \in DOMAIN engine
          BY <1>2, <2>3
        <5> QED BY <1>1, <2>1, <3>2, <5>1 DEF Single, f
      <4> HIDE DEF Met, Apart
      <4> QED BY <3>2, <4>1, <2>1, <2>4, <2>5
    <3> QED BY <3>1, <3>2
  <2> QED BY <2>1, <2>6
<1>5. n \in S
  <2> HIDE DEF S
  <2>1. \A i \in 0..n : i \in S
    BY <1>1, <1>3, <1>4, UpTo
  <2> QED BY <1>1, <2>1
<1>6. /\ Met(n) <=> g \in DOMAIN engine
      /\ Apart(n) <=> Free(engine, g, e)
  BY <1>2 DEF Covers, Free
<1>7. Says(engine, g, e) <=> g \in DOMAIN engine /\ engine[g] = e
  BY DEF Says
<1> HIDE DEF Met, Apart
<1> QED BY <1>5, <1>6, <1>7

(* Handed over one by one, the records leave nothing of theirs behind. *)
LEMMA HandedMerges ==
  ASSUME engine \in Books, NEW order \in Seq(DOMAIN engine), Covers(order, DOMAIN engine),
         NEW run, \A i \in 0..Len(order) : run[i] \in Goods,
         \A i \in 1..Len(order) : run[i] = HandOver(run[i - 1], order[i], engine[order[i]])
  PROVE  /\ \A g \in Guids, e \in Players :
              Says(run[Len(order)].entries, g, e)
                <=> Says(run[0].entries, g, e) /\ Free(engine, g, e)
         /\ SameSession(run[0], run[Len(order)])
<1> DEFINE n == Len(order)
           Apart(i, g, e) == \A j \in 1..i : order[j] # g /\ engine[order[j]].name # e.name
           Here(i) == /\ \A g \in Guids, e \in Players :
                           Says(run[i].entries, g, e) <=> Says(run[0].entries, g, e) /\ Apart(i, g, e)
                      /\ SameSession(run[0], run[i])
           S == {i \in 0..n : Here(i)}
<1>1. n \in Nat
  OBVIOUS
<1>2. \A i \in 1..n : order[i] \in DOMAIN engine /\ order[i] \in Guids /\ engine[order[i]] \in Players
  <2>1. \A i \in 1..n : order[i] \in DOMAIN engine
    OBVIOUS
  <2>2. DOMAIN engine \in SUBSET Guids /\ engine \in [DOMAIN engine -> Players]
    BY BookParts
  <2> QED BY <2>1, <2>2
<1>3. 0 \in S
  BY <1>1 DEF SameSession
<1>4. ASSUME NEW i \in 1..n, i - 1 \in S PROVE i \in S
  <2> DEFINE h == order[i]
             f == engine[h]
  <2>1. /\ i \in 0..n /\ i - 1 \in 0..n /\ Here(i - 1) /\ run[i - 1] \in Goods
        /\ h \in Guids /\ f \in Players /\ run[i] = HandOver(run[i - 1], h, f)
    BY <1>1, <1>2, <1>4
  <2>2. \A j \in 1..i : j \in 1..(i - 1) \/ j = i
    OBVIOUS
  <2>3. i \in 1..i /\ \A j \in 1..(i - 1) : j \in 1..i
    OBVIOUS
  <2>4. \A g, e : Apart(i, g, e) <=> Apart(i - 1, g, e) /\ h # g /\ f.name # e.name
    BY <2>2, <2>3
  <2> HIDE DEF h, f
  <2>5. /\ SameSession(run[i - 1], run[i])
        /\ \A g : g \in DOMAIN run[i].entries
                    <=> g # h /\ g \in DOMAIN run[i - 1].entries /\ run[i - 1].entries[g].name # f.name
        /\ \A g \in DOMAIN run[i].entries : run[i].entries[g] = run[i - 1].entries[g]
    BY <2>1, HandOverIs
  <2>6. \A g, e : Says(run[i].entries, g, e) <=> Says(run[i - 1].entries, g, e) /\ g # h /\ e.name # f.name
    BY <2>5 DEF Says
  <2>7. Here(i)
    <3>1. SameSession(run[0], run[i])
      BY <2>1, <2>5 DEF SameSession
    <3> HIDE DEF Apart
    <3> QED BY <2>1, <2>4, <2>6, <3>1
  <2> QED BY <2>1, <2>7
<1>5. n \in S
  <2> HIDE DEF S
  <2>1. \A i \in 0..n : i \in S
    BY <1>1, <1>3, <1>4, UpTo
  <2> QED BY <1>1, <2>1
<1>6. \A g, e : Apart(n, g, e) <=> Free(engine, g, e)
  BY <1>2 DEF Covers, Free
<1> HIDE DEF Apart
<1> QED BY <1>5, <1>6

(* What readers get of a store s while the engine knows b. *)
View(s, b) ==
  [g \in DOMAIN b \cup DOMAIN s.entries |-> IF g \in DOMAIN b THEN b[g] ELSE s.entries[g]]

(* No player of s is in b, nor, unless it is in doubt, is its name. *)
Clear(s, b, names) ==
  \A g \in DOMAIN s.entries :
    /\ g \notin DOMAIN b
    /\ \A h \in DOMAIN b : b[h].name = s.entries[g].name => b[h].name \in names

LEMMA ViewSays ==
  ASSUME NEW s, NEW b, NEW g, NEW e
  PROVE  Says(View(s, b), g, e)
           <=> Says(b, g, e) \/ (g \notin DOMAIN b /\ Says(s.entries, g, e))
  BY DEF View, Says

(* The store after TakeEngineRecords holds what readers got before it. *)
LEMMA TakenIs ==
  ASSUME NameCacheAssumption, engine \in Books, NEW s \in Goods, NEW order \in Orders
  PROVE  /\ Taken(s, order) \in Goods /\ SameSession(s, Taken(s, order))
         /\ \A names : Single(engine, names) /\ Clear(s, engine, names)
                         => Same(Taken(s, order).entries, View(s, engine), names)
<1>1. order \in Seq(DOMAIN engine) /\ Covers(order, DOMAIN engine)
  BY EngineOrders
<1>2. PICK run : /\ run[0] = s /\ \A i \in 0..Len(order) : run[i] \in Goods
                 /\ \A i \in 1..Len(order) : run[i] = Upsert(run[i - 1], order[i], engine[order[i]])
                 /\ run[Len(order)] = Taken(s, order)
  BY <1>1, TakenRuns
<1> DEFINE n == Len(order)
           books == [i \in 0..n |-> run[i].entries]
<1>3. n \in Nat /\ \A i \in 1..n : i \in 0..n /\ i - 1 \in 0..n
  BY <1>1
<1>4. \A i \in 0..n : books[i] \in Books
  BY <1>2, GoodParts
<1>5. \A i \in 1..n : order[i] \in Guids /\ engine[order[i]] \in Players
  <2>1. \A i \in 1..n : order[i] \in DOMAIN engine
    BY <1>1
  <2>2. DOMAIN engine \in SUBSET Guids /\ engine \in [DOMAIN engine -> Players]
    BY BookParts
  <2> QED BY <2>1, <2>2
<1>6. ASSUME NEW i \in 1..n
      PROVE  /\ books[i] = Told(books[i - 1], order[i], engine[order[i]])
             /\ SameSession(run[i - 1], run[i])
  <2>1. run[i - 1] \in Goods /\ run[i] = Upsert(run[i - 1], order[i], engine[order[i]])
    BY <1>2, <1>3
  <2>2. run[i].entries = Told(run[i - 1].entries, order[i], engine[order[i]])
        /\ SameSession(run[i - 1], run[i])
    BY <1>5, <2>1, UpsertIs
  <2> QED BY <1>3, <2>2
<1>7. SameSession(s, run[n])
  <2> DEFINE S == {i \in 0..n : SameSession(s, run[i])}
  <2>1. 0 \in S
    BY <1>2, <1>3 DEF SameSession
  <2>2. \A i \in 1..n : i - 1 \in S => i \in S
    BY <1>3, <1>6 DEF SameSession
  <2>3. n \in S
    <3> HIDE DEF S, n
    <3>1. \A i \in 0..n : i \in S
      BY <1>3, <2>1, <2>2, UpTo
    <3> QED BY <1>3, <3>1
  <2> QED BY <2>3
<1>8. ASSUME NEW names, Single(engine, names), Clear(s, engine, names)
      PROVE  Same(Taken(s, order).entries, View(s, engine), names)
  <2>1. Merged(books[n], engine, books[0], names)
    <3> HIDE DEF books
    <3> QED BY <1>1, <1>4, <1>6, <1>8, ToldMerges
  <2>2. books[n] = Taken(s, order).entries /\ books[0] = s.entries
    BY <1>2, <1>3
  <2> HIDE DEF books
  <2>3. ASSUME NEW g \in Guids, NEW e \in Sure(names)
        PROVE  Says(Taken(s, order).entries, g, e) <=> Says(View(s, engine), g, e)
    <3>1. e.name \notin names
      BY SureIsKnown
    <3>2. Says(s.entries, g, e) => Free(engine, g, e)
      BY <1>8, <3>1 DEF Clear, Says, Free
    <3>3. Free(engine, g, e) => g \notin DOMAIN engine
      BY DEF Free
    <3> QED BY <2>1, <2>2, <3>2, <3>3, ViewSays DEF Merged
  <2> QED BY <2>3 DEF Same
<1> QED BY <1>2, <1>3, <1>7, <1>8

(* The store after HandOverAll keeps the players the engine does not have. *)
LEMMA HandedOverIs ==
  ASSUME NameCacheAssumption, engine \in Books, NEW s \in Goods, NEW order \in Orders
  PROVE  /\ HandedOver(s, order) \in Goods /\ HandedOver(s, order).realm = s.realm
         /\ (HandedOver(s, order).dirty <=> s.dirty \/ DOMAIN engine # {})
         /\ \A g \in Guids, e \in Players :
              Says(HandedOver(s, order).entries, g, e) <=> Says(s.entries, g, e) /\ Free(engine, g, e)
<1>1. /\ order \in Seq(DOMAIN engine) /\ Covers(order, DOMAIN engine)
      /\ order # <<>> <=> DOMAIN engine # {}
  BY EngineOrders
<1> DEFINE t == FoldLeft(LAMBDA x, g : HandOver(x, g, engine[g]), s, order)
<1>2. PICK run : /\ run[0] = s /\ \A i \in 0..Len(order) : run[i] \in Goods
                 /\ \A i \in 1..Len(order) : run[i] = HandOver(run[i - 1], order[i], engine[order[i]])
                 /\ run[Len(order)] = t
  BY <1>1, HandedRuns
<1> HIDE DEF t
<1>3. /\ \A g \in Guids, e \in Players :
           Says(t.entries, g, e) <=> Says(s.entries, g, e) /\ Free(engine, g, e)
      /\ SameSession(s, t)
  BY <1>1, <1>2, HandedMerges
<1>4. t \in Goods
  <2>1. Len(order) \in Nat /\ Len(order) \in 0..Len(order)
    BY <1>1
  <2> QED BY <1>2, <2>1
<1>5. HandedOver(s, order) = [t EXCEPT !.dirty = t.dirty \/ order # <<>>]
  BY DEF HandedOver, t
<1> DEFINE u == HandedOver(s, order)
<1>6. /\ u \in Stores /\ u.entries = t.entries /\ u.byName = t.byName /\ u.realm = t.realm
      /\ u.dirty <=> (t.dirty \/ order # <<>>)
  <2>1. t \in Stores /\ t.dirty \in BOOLEAN
    BY <1>4 DEF Goods, Stores
  <2>2. (t.dirty \/ order # <<>>) \in BOOLEAN
    OBVIOUS
  <2> DEFINE d == t.dirty \/ order # <<>>
  <2> HIDE DEF d
  <2>3. u = [t EXCEPT !.dirty = d] /\ d \in BOOLEAN
    BY <1>5, <2>2 DEF d
  <2> HIDE DEF u
  <2>4. u \in Stores /\ u.entries = t.entries /\ u.byName = t.byName /\ u.realm = t.realm /\ u.dirty = d
    BY <2>1, <2>3 DEF Stores
  <2> QED BY <2>4 DEF d
<1> HIDE DEF u
<1>7. u \in Goods
  BY <1>4, <1>6 DEF Goods, Lockstep
<1> QED BY <1>1, <1>3, <1>6, <1>7 DEF u, SameSession

LEMMA ToldAllIs ==
  ASSUME NameCacheAssumption, engine \in Books, NEW b \in Books
  PROVE  LET c == FoldLeft(LAMBDA x, g : Told(x, g, engine[g]), b, SetToSeq(DOMAIN engine))
         IN  c \in Books /\ \A names : Single(engine, names) => Merged(c, engine, b, names)
<1> DEFINE order == SetToSeq(DOMAIN engine)
           c == FoldLeft(LAMBDA x, g : Told(x, g, engine[g]), b, order)
<1>1. order \in Seq(DOMAIN engine) /\ Covers(order, DOMAIN engine)
  BY EngineOrders
<1> HIDE DEF order
<1>2. PICK run : /\ run[0] = b /\ \A i \in 0..Len(order) : run[i] \in Books
                 /\ \A i \in 1..Len(order) : run[i] = Told(run[i - 1], order[i], engine[order[i]])
                 /\ run[Len(order)] = c
  BY <1>1, ToldRuns
<1> HIDE DEF c
<1>3. Len(order) \in Nat /\ Len(order) \in 0..Len(order)
  BY <1>1
<1>4. c \in Books
  BY <1>2, <1>3
<1>5. ASSUME NEW names, Single(engine, names) PROVE Merged(c, engine, b, names)
  <2>1. Merged(run[Len(order)], engine, run[0], names)
    BY <1>1, <1>2, <1>5, ToldMerges
  <2> QED BY <1>2, <2>1
<1>6. c \in Books /\ \A names : Single(engine, names) => Merged(c, engine, b, names)
  BY <1>4, <1>5
<1> QED BY <1>6 DEF c, order

-----------------------------------------------------------------------------
(* Files. *)

Disks == [lines : [Realms -> Books], v5 : SUBSET Realms, v4 : SUBSET Realms]

Unique(b) == \A g, h \in DOMAIN b : b[g].name = b[h].name => g = h

GoodDisk(d) == d \in Disks /\ \A r \in Realms : Unique(d.lines[r])

LEMMA V4Book ==
  ASSUME NameCacheAssumption, NEW r \in Realms
  PROVE  V4Records(r) \in Books /\ Unique(V4Records(r))
<1>1. DOMAIN V4Names \in SUBSET Guids
  BY DEF NameCacheAssumption
<1>2. V4Records(r) \in [DOMAIN V4Names -> Players]
  BY DEF NameCacheAssumption, V4Records, Players
<1>3. V4Records(r) \in Books
  BY <1>1, <1>2, BookForm
<1>4. Unique(V4Records(r))
  BY DEF NameCacheAssumption, V4Records, Unique
<1> QED BY <1>3, <1>4

LEMMA ContentIs ==
  ASSUME NameCacheAssumption, NEW d, GoodDisk(d), NEW r \in Realms
  PROVE  Content(d, r) \in Books /\ Unique(Content(d, r))
<1>1. d.lines[r] \in Books /\ Unique(d.lines[r])
  BY DEF GoodDisk, Disks
<1>2. V4Records(r) \in Books /\ Unique(V4Records(r))
  BY V4Book
<1>3. Nobody \in Books /\ Unique(Nobody)
  BY EmptyBook DEF Unique
<1> QED BY <1>1, <1>2, <1>3 DEF Content

(* A load gives a store of the realm, with what its file says. *)
LEMMA LoadedIs ==
  ASSUME NameCacheAssumption, NEW d, GoodDisk(d), realm \in Realms
  PROVE  /\ Loaded(d) \in Goods /\ Loaded(d).entries = Content(d, realm)
         /\ Loaded(d).realm = realm
<1> DEFINE b == Content(d, realm)
           l == Loaded(d)
<1>1. b \in Books /\ Unique(b) /\ DOMAIN b \in SUBSET Guids /\ b \in [DOMAIN b -> Players]
  BY ContentIs, BookParts
<1> HIDE DEF b
<1> DEFINE S == {b[g].name : g \in DOMAIN b}
<1>2. S \in SUBSET Names
  BY <1>1 DEF Players
<1>3. \A n \in S : \E g \in DOMAIN b : b[g].name = n
  OBVIOUS
<1>4. \A g \in DOMAIN b : b[g].name \in S
  OBVIOUS
<1>5. Index(b) = [n \in S |-> CHOOSE g \in DOMAIN b : b[g].name = n]
  BY DEF Index
<1> HIDE DEF S
<1>6. \A n \in S : Index(b)[n] \in DOMAIN b /\ b[Index(b)[n]].name = n
  BY <1>3, <1>5
<1>7. Index(b) \in [S -> Guids] /\ DOMAIN Index(b) = S
  BY <1>1, <1>5, <1>6
<1>8. Index(b) \in Indexes
  BY <1>2, <1>7, IndexForm
<1>9. /\ l.entries = b /\ l.byName = Index(b) /\ l.realm = realm
      /\ l = [entries |-> b, byName |-> Index(b), realm |-> realm,
              dirty |-> realm \notin d.v5 /\ realm \in d.v4,
              migrated |-> realm \notin d.v5 /\ realm \in d.v4]
  BY DEF Loaded, b
<1>10. l \in Stores
  <2> DEFINE c == realm \notin d.v5 /\ realm \in d.v4
  <2>1. c \in BOOLEAN
    OBVIOUS
  <2>2. l = [entries |-> b, byName |-> Index(b), realm |-> realm, dirty |-> c, migrated |-> c]
    BY <1>9
  <2> HIDE DEF c, l
  <2> QED BY <1>1, <1>8, <2>1, <2>2 DEF Stores
<1> HIDE DEF l
<1>11. Lockstep(l)
  <2> SUFFICES ASSUME NEW n \in Names, NEW g \in Guids
               PROVE  (n \in S /\ Index(b)[n] = g) <=> (g \in DOMAIN b /\ b[g].name = n)
    BY <1>7, <1>9 DEF Lockstep
  <2> QED BY <1>1, <1>4, <1>6 DEF Unique
<1> QED BY <1>9, <1>10, <1>11 DEF Goods, b, l

-----------------------------------------------------------------------------
(* What the files hold of each realm is what was told of it, b, but for the realm in memory while
   it has changed.  In K are the realms nothing is claimed of, in D the names. *)
Kept(s, d, b, D, K) ==
  \A r \in Realms \ K : r # s.realm \/ ~s.dirty => Same(Content(d, r), b[r], D[r])

(* A file that changed says what was told. *)
Filed(d, e, b, D, K) ==
  \A r \in Realms \ K : Content(e, r) = Content(d, r) \/ Same(Content(e, r), b[r], D[r])

IsOutcome(o) ==
  /\ o = [store |-> o.store, disk |-> o.disk, failed |-> o.failed, lost |-> o.lost]
  /\ o.failed \in BOOLEAN /\ o.lost \in BOOLEAN

(* What comes of a save: the store keeps its players, the other files are left alone. *)
Fine(o, s, d, b, D, K) ==
  /\ o.store \in Goods /\ o.store.entries = s.entries /\ o.store.realm = s.realm
  /\ o.store.dirty => s.dirty
  /\ GoodDisk(o.disk)
  /\ \A r \in Realms \ {s.realm} : Content(o.disk, r) = Content(d, r)
  /\ Kept(o.store, o.disk, b, D, K)
  /\ IsOutcome(o) /\ (o.failed => o.store.dirty /\ troubles < MaxTrouble)
  /\ ~o.failed => Filed(d, o.disk, b, D, K)
  /\ ~o.lost

LEMMA SameIsTransitive ==
  ASSUME NEW a, NEW b, NEW c, NEW names, Same(a, b, names), Same(b, c, names)
  PROVE  Same(a, c, names) /\ Same(b, a, names)
  BY DEF Same

LEMMA OutcomeIs ==
  ASSUME NEW s, NEW d, NEW f \in BOOLEAN
  PROVE  IsOutcome(Outcome(s, d, f))
  BY DEF Outcome, IsOutcome

(* A save writes what was told of its realm, or leaves the files as they were. *)
LEMMA SavesAre ==
  ASSUME NameCacheAssumption, NEW s \in Goods, s.realm \in Realms, s.dirty,
         NEW d, GoodDisk(d), NEW all \in Goods, NEW o \in Saves(s, d, all),
         NEW b, NEW D, NEW K, Kept(s, d, b, D, K),
         s.realm \notin K => Same(all.entries, b[s.realm], D[s.realm])
  PROVE  Fine(o, s, d, b, D, K) /\ (~o.failed => ~o.store.dirty)
<1> DEFINE r0 == s.realm
           s1 == [s EXCEPT !.dirty = FALSE, !.migrated = FALSE]
           d1 == [d EXCEPT !.lines[s.realm] = all.entries, !.v5 = @ \cup {s.realm},
                           !.v4 = IF s.migrated THEN @ \ {s.realm} ELSE @]
           d2 == [d EXCEPT !.lines[s.realm] = Nobody, !.v5 = @ \ {s.realm}]
<1>1. /\ d \in Disks /\ \A r \in Realms : Unique(d.lines[r])
      /\ all.entries \in Books /\ s \in Stores
  BY GoodParts DEF GoodDisk, Goods
<1>2. Unique(all.entries)
  BY GoodParts DEF Unique
<1>3. /\ s1 \in Goods /\ s1.entries = s.entries /\ s1.realm = s.realm /\ ~s1.dirty
  <2>1. /\ s1 \in Stores /\ s1.entries = s.entries /\ s1.byName = s.byName /\ s1.realm = s.realm
        /\ s1.dirty = FALSE
    BY <1>1 DEF Stores
  <2> HIDE DEF s1
  <2> QED BY <2>1 DEF Goods, Lockstep
<1>4. /\ GoodDisk(d1) /\ Content(d1, r0) = all.entries
      /\ \A r \in Realms \ {r0} : Content(d1, r) = Content(d, r)
  <2> DEFINE v == IF s.migrated THEN d.v4 \ {r0} ELSE d.v4
             w == [d.lines EXCEPT ![r0] = all.entries]
             x == d.v5 \cup {r0}
  <2>1. /\ w \in [Realms -> Books] /\ w[r0] = all.entries
        /\ \A r \in Realms \ {r0} : w[r] = d.lines[r]
    BY <1>1 DEF Disks
  <2>2. x \in SUBSET Realms /\ r0 \in x /\ \A r \in Realms \ {r0} : r \in x <=> r \in d.v5
    BY <1>1 DEF Disks
  <2>3. v \in SUBSET Realms /\ \A r \in Realms \ {r0} : r \in v <=> r \in d.v4
    BY <1>1 DEF Disks
  <2>4. d1 = [d EXCEPT !.lines = w, !.v5 = x, !.v4 = v]
    BY <1>1 DEF Disks
  <2> HIDE DEF w, x, v, d1
  <2>5. d1 \in Disks /\ d1.lines = w /\ d1.v5 = x /\ d1.v4 = v
    BY <1>1, <2>1, <2>2, <2>3, <2>4 DEF Disks
  <2> QED BY <1>1, <1>2, <2>1, <2>2, <2>3, <2>5 DEF GoodDisk, Content
<1>5. /\ GoodDisk(d2)
      /\ \A r \in Realms \ {r0} : Content(d2, r) = Content(d, r)
  <2> DEFINE w == [d.lines EXCEPT ![r0] = Nobody]
             x == d.v5 \ {r0}
  <2>1. /\ w \in [Realms -> Books] /\ w[r0] = Nobody
        /\ \A r \in Realms \ {r0} : w[r] = d.lines[r]
    BY <1>1, EmptyBook DEF Disks
  <2>2. x \in SUBSET Realms /\ \A r \in Realms \ {r0} : r \in x <=> r \in d.v5
    BY <1>1 DEF Disks
  <2>3. d2 = [d EXCEPT !.lines = w, !.v5 = x]
    BY <1>1 DEF Disks
  <2> HIDE DEF w, x, d2
  <2>4. d2 \in Disks /\ d2.lines = w /\ d2.v5 = x /\ d2.v4 = d.v4
    BY <1>1, <2>1, <2>2, <2>3 DEF Disks
  <2>5. Unique(Nobody)
    BY EmptyBook DEF Unique
  <2> QED BY <1>1, <2>1, <2>2, <2>4, <2>5 DEF GoodDisk, Content
<1>6. \/ o = Outcome(s1, d1, FALSE)
      \/ troubles < MaxTrouble /\ (o = Outcome(s, d, TRUE) \/ o = Outcome(s, d2, TRUE))
  BY DEF Saves
<1> HIDE DEF s1, d1, d2
<1>0. IsOutcome(o)
  BY <1>6, OutcomeIs
<1>7. CASE o = Outcome(s1, d1, FALSE)
  <2>1. o.store = s1 /\ o.disk = d1 /\ o.failed = FALSE /\ o.lost = FALSE
    BY <1>7 DEF Outcome
  <2>2. \A r \in Realms \ K : r = s.realm => Same(Content(d1, r), b[r], D[r])
    BY <1>4
  <2>3. Kept(s1, d1, b, D, K)
    BY <1>3, <1>4, <2>2 DEF Kept
  <2>4. Filed(d, d1, b, D, K)
    BY <1>4, <2>2 DEF Filed
  <2> QED BY <1>0, <1>3, <1>4, <2>1, <2>3, <2>4 DEF Fine
<1>8. CASE troubles < MaxTrouble /\ (o = Outcome(s, d, TRUE) \/ o = Outcome(s, d2, TRUE))
  <2>1. o.store = s /\ (o.disk = d \/ o.disk = d2) /\ o.failed = TRUE /\ o.lost = FALSE
    BY <1>8 DEF Outcome
  <2>2. Kept(s, o.disk, b, D, K)
    BY <1>5, <2>1 DEF Kept
  <2>3. GoodDisk(o.disk) /\ \A r \in Realms \ {s.realm} : Content(o.disk, r) = Content(d, r)
    BY <1>5, <2>1
  <2> QED BY <1>0, <1>8, <2>1, <2>2, <2>3 DEF Fine
<1> QED BY <1>6, <1>7, <1>8

(* What is claimed of the realm in memory while the cache is on. *)
Seen(s, E, b, D, K) ==
  s.realm \notin K =>
    /\ Single(E, D[s.realm]) /\ Clear(s, E, D[s.realm])
    /\ Same(View(s, E), b[s.realm], D[s.realm])

LEMMA SaveCacheIs ==
  ASSUME NameCacheAssumption, engine \in Books, NEW s \in Goods, s.realm \in Realms, s.dirty,
         NEW d, GoodDisk(d), NEW o \in SaveCache(s, d),
         NEW b, NEW D, NEW K, Kept(s, d, b, D, K), Seen(s, engine, b, D, K)
  PROVE  Fine(o, s, d, b, D, K) /\ (~o.failed => ~o.store.dirty)
<1>1. PICK order \in Orders : o \in Saves(s, d, Taken(s, order))
  BY DEF NameCacheAssumption, SaveCache
<1>2. Taken(s, order) \in Goods
  BY TakenIs
<1>3. s.realm \notin K => Same(Taken(s, order).entries, b[s.realm], D[s.realm])
  <2> SUFFICES ASSUME s.realm \notin K PROVE Same(Taken(s, order).entries, b[s.realm], D[s.realm])
    OBVIOUS
  <2>1. /\ Single(engine, D[s.realm]) /\ Clear(s, engine, D[s.realm])
        /\ Same(View(s, engine), b[s.realm], D[s.realm])
    BY DEF Seen
  <2>2. Same(Taken(s, order).entries, View(s, engine), D[s.realm])
    BY <2>1, TakenIs
  <2> QED BY <2>1, <2>2, SameIsTransitive
<1> QED BY <1>1, <1>2, <1>3, SavesAre

-----------------------------------------------------------------------------
NameTypes ==
  /\ realm \in Realms \cup {NoRealm} /\ inWorld \in BOOLEAN /\ enabled \in BOOLEAN
  /\ engine \in Books /\ store \in Goods /\ GoodDisk(disk)
  /\ book \in [Realms -> Books] /\ doubtful \in [Realms -> SUBSET Names]
  /\ skipped \in SUBSET Realms
  /\ news \in 0..MaxNews /\ troubles \in 0..MaxTrouble

(* Without a realm there is nothing in memory. *)
NoRealmNoPlayers ==
  /\ store.realm = NoRealm => store.entries = Nobody /\ ~store.dirty
  /\ realm = NoRealm => store.realm = NoRealm /\ engine = Nobody /\ ~inWorld

(* While the cache is on. *)
Parted ==
  IF store.realm = realm THEN realm \in Realms => Clear(store, engine, doubtful[realm])
  ELSE engine = Nobody

InView ==
  store.realm \in Realms \ skipped =>
    Same(View(store, engine), book[store.realm], doubtful[store.realm])

(* While the cache is off: what was told and is not in x any more is with the engine. *)
Behind(x, E, b, names) ==
  \A g \in Guids, e \in Sure(names) :
    /\ Says(b, g, e) => Says(E, g, e) \/ Says(x, g, e)
    /\ Says(x, g, e) => Says(b, g, e)

Off ==
  store.realm \in Realms \ skipped =>
    IF store.realm = realm THEN Behind(store.entries, engine, book[realm], doubtful[realm])
    ELSE ~store.dirty

NameInv ==
  /\ NameTypes /\ NoRealmNoPlayers
  /\ realm \in Realms => Single(engine, doubtful[realm])
  /\ Kept(store, disk, book, doubtful, skipped)
  /\ enabled => Parted /\ InView
  /\ ~enabled => Off

(* What is known of an operation under way, when the realm of the session is in memory: b is
   what was told, D the names in doubt. *)
Midway(o, b, D) ==
  /\ IsOutcome(o) /\ o.store \in Goods /\ o.store.realm = realm /\ GoodDisk(o.disk)
  /\ Kept(o.store, o.disk, b, D, skipped)
  /\ o.failed => troubles < MaxTrouble
  /\ o.lost => o.failed
  /\ ~o.failed => Filed(disk, o.disk, b, D, skipped)

LEMMA SaidByNobody ==
  /\ DOMAIN Nobody = {}
  /\ \A g, e : ~Says(Nobody, g, e) /\ Free(Nobody, g, e)
  /\ \A names : Single(Nobody, names)
  /\ \A s, names : Clear(s, Nobody, names)
<1>1. DOMAIN Nobody = {}
  BY EmptyBook
<1> HIDE DEF Nobody
<1> QED BY <1>1 DEF Says, Free, Single, Clear

(* The realm in memory is saved before the one of the session is read. *)
LEMMA LoadIs ==
  ASSUME NameCacheAssumption, NameInv, realm \in Realms, NEW o \in LoadCacheIfNeeded(store, disk)
  PROVE  /\ Midway(o, Remembered(o), doubtful)
         /\ Content(o.disk, realm) = Content(disk, realm)
         /\ Remembered(o) \in [Realms -> Books] /\ Remembered(o)[realm] = book[realm]
         /\ ~o.failed => Remembered(o) = book
         /\ IF store.realm = realm THEN o.store = store
            ELSE o.store.entries = Content(disk, realm)
<1> DEFINE b == Remembered(o)
<1>1. /\ engine \in Books /\ store \in Goods /\ GoodDisk(disk) /\ book \in [Realms -> Books]
      /\ Kept(store, disk, book, doubtful, skipped)
  BY DEF NameInv, NameTypes
<1>2. CASE store.realm = realm
  <2>1. o = Outcome(store, disk, FALSE)
    BY <1>2 DEF LoadCacheIfNeeded
  <2>2. o.store = store /\ o.disk = disk /\ o.failed = FALSE /\ o.lost = FALSE /\ IsOutcome(o)
    BY <2>1 DEF Outcome, IsOutcome
  <2>3. b = book
    BY <2>2 DEF Remembered
  <2>4. Filed(disk, disk, book, doubtful, skipped)
    BY DEF Filed
  <2> QED BY <1>1, <1>2, <2>2, <2>3, <2>4 DEF Midway
<1>3. CASE store.realm # realm
  <2>1. PICK q \in IF store.dirty THEN SaveCache(store, disk) ELSE {Outcome(store, disk, FALSE)} :
               o = [q EXCEPT !.store = Loaded(q.disk), !.lost = q.failed]
    BY <1>3 DEF LoadCacheIfNeeded
  <2>2. /\ Fine(q, store, disk, book, doubtful, skipped)
        /\ ~q.failed => ~q.store.dirty
    <3>1. CASE ~store.dirty
      <4>1. q = Outcome(store, disk, FALSE)
        BY <2>1, <3>1
      <4>2. q.store = store /\ q.disk = disk /\ q.failed = FALSE /\ q.lost = FALSE /\ IsOutcome(q)
        BY <4>1 DEF Outcome, IsOutcome
      <4>3. Filed(disk, disk, book, doubtful, skipped)
        BY DEF Filed
      <4> QED BY <1>1, <3>1, <4>2, <4>3 DEF Fine
    <3>2. CASE store.dirty
      <4>1. store.realm \in Realms
        BY <1>1, <3>2, GoodParts DEF NameInv, NoRealmNoPlayers
      <4>2. store.realm \notin skipped => enabled /\ engine = Nobody
        BY <1>3, <3>2, <4>1 DEF NameInv, NameTypes, Off, Parted
      <4>3. Seen(store, engine, book, doubtful, skipped)
        <5> SUFFICES ASSUME store.realm \notin skipped
                     PROVE  /\ Single(engine, doubtful[store.realm])
                            /\ Clear(store, engine, doubtful[store.realm])
                            /\ Same(View(store, engine), book[store.realm], doubtful[store.realm])
          BY DEF Seen
        <5>1. InView
          BY <4>2 DEF NameInv
        <5> QED BY <4>1, <4>2, <5>1, SaidByNobody DEF InView
      <4>4. q \in SaveCache(store, disk)
        BY <2>1, <3>2
      <4> QED BY <1>1, <3>2, <4>1, <4>3, <4>4, SaveCacheIs
    <3> QED BY <3>1, <3>2
  <2>3. /\ IsOutcome(q) /\ GoodDisk(q.disk) /\ q.store.realm = store.realm
        /\ q.failed => troubles < MaxTrouble
        /\ \A r \in Realms \ {store.realm} : Content(q.disk, r) = Content(disk, r)
        /\ Kept(q.store, q.disk, book, doubtful, skipped)
        /\ ~q.failed => Filed(disk, q.disk, book, doubtful, skipped)
    BY <2>2 DEF Fine
  <2>4. o.store = Loaded(q.disk) /\ o.disk = q.disk /\ o.failed = q.failed /\ o.lost = q.failed
        /\ IsOutcome(o)
    BY <2>1, <2>3 DEF IsOutcome
  <2>5. /\ Loaded(q.disk) \in Goods /\ Loaded(q.disk).entries = Content(q.disk, realm)
        /\ Loaded(q.disk).realm = realm
    BY <2>3, LoadedIs
  <2>6. b = IF q.failed THEN [book EXCEPT ![store.realm] = Content(q.disk, store.realm)] ELSE book
    BY <2>4 DEF Remembered
  <2>7. q.failed => store.realm \in Realms
    <3>1. q.failed => store.dirty
      BY <2>2 DEF Fine
    <3> QED BY <1>1, <3>1, GoodParts DEF NameInv, NoRealmNoPlayers
  <2>8. b \in [Realms -> Books] /\ b[realm] = book[realm]
    BY <1>1, <1>3, <2>3, <2>6, <2>7, ContentIs
  <2>9. ASSUME NEW r \in Realms \ skipped
        PROVE  Same(Content(q.disk, r), b[r], doubtful[r])
    <3>1. CASE q.failed /\ r = store.realm
      BY <1>1, <2>6, <3>1 DEF Same
    <3>2. CASE ~q.failed /\ r = store.realm
      BY <2>2, <2>3, <2>6, <3>2 DEF Kept
    <3>3. CASE r # store.realm
      BY <1>1, <2>3, <2>6, <3>3 DEF Kept
    <3> QED BY <3>1, <3>2, <3>3
  <2>10. Kept(o.store, o.disk, b, doubtful, skipped)
    BY <2>4, <2>9 DEF Kept
  <2>11. ~o.failed => Filed(disk, o.disk, b, doubtful, skipped)
    BY <2>3, <2>4, <2>6
  <2>12. Midway(o, b, doubtful)
    <3> HIDE DEF b
    <3> QED BY <2>3, <2>4, <2>5, <2>10, <2>11 DEF Midway
  <2>13. o.store.entries = Content(disk, realm) /\ Content(o.disk, realm) = Content(disk, realm)
    BY <1>3, <2>3, <2>4, <2>5
  <2>14. ~o.failed => b = book
    BY <2>4, <2>6
  <2> HIDE DEF b
  <2> QED BY <1>3, <2>8, <2>12, <2>13, <2>14 DEF b
<1> QED BY <1>2, <1>3

(* A flush on the way changes nothing that readers get. *)
LEMMA FlushIs ==
  ASSUME NameCacheAssumption, engine \in Books, realm \in Realms, NEW o, NEW b, NEW D,
         Midway(o, b, D), Seen(o.store, engine, b, D, skipped), NEW p \in MaybeFlush(o)
  PROVE  /\ Midway(p, b, D) /\ p.store.entries = o.store.entries
         /\ Remembered(p) = Remembered(o) /\ (o.failed => p.failed)
         /\ p.store.dirty => o.store.dirty
<1>1. CASE p = o
  BY <1>1
<1>2. CASE p # o
  <2>1. PICK q \in SaveCache(o.store, o.disk) : p = [q EXCEPT !.lost = o.lost]
    BY <1>2 DEF MaybeFlush
  <2>2. o.store.dirty /\ ~o.failed
    BY <1>2 DEF MaybeFlush
  <2>3. /\ IsOutcome(o) /\ o.store \in Goods /\ o.store.realm = realm /\ GoodDisk(o.disk)
        /\ Kept(o.store, o.disk, b, D, skipped) /\ ~o.lost
        /\ Filed(disk, o.disk, b, D, skipped)
    BY <2>2 DEF Midway
  <2>4. Fine(q, o.store, o.disk, b, D, skipped)
    BY <2>1, <2>2, <2>3, SaveCacheIs
  <2>5. /\ q.store \in Goods /\ q.store.entries = o.store.entries /\ q.store.realm = realm
        /\ GoodDisk(q.disk) /\ Kept(q.store, q.disk, b, D, skipped) /\ IsOutcome(q)
        /\ q.failed => troubles < MaxTrouble
        /\ ~q.failed => Filed(o.disk, q.disk, b, D, skipped)
    BY <2>3, <2>4 DEF Fine
  <2>6. /\ p.store = q.store /\ p.disk = q.disk /\ p.failed = q.failed /\ p.lost = o.lost
        /\ IsOutcome(p)
    BY <2>1, <2>3, <2>5 DEF IsOutcome
  <2>7. ~q.failed => Filed(disk, q.disk, b, D, skipped)
    BY <2>3, <2>5 DEF Filed
  <2>8. Midway(p, b, D)
    BY <2>3, <2>5, <2>6, <2>7 DEF Midway
  <2>9. Remembered(p) = Remembered(o)
    BY <2>3, <2>6 DEF Remembered
  <2> QED BY <2>2, <2>3, <2>5, <2>6, <2>8, <2>9
<1> QED BY <1>1, <1>2

-----------------------------------------------------------------------------
(* The actions. *)

(* What a step wrote is what was told, before the step or in it. *)
Saved ==
  troubles' = troubles =>
    \A r \in Realms \ skipped' :
      \/ Content(disk', r) = Content(disk, r)
      \/ Same(Content(disk', r), book[r], doubtful'[r])
      \/ Same(Content(disk', r), book'[r], doubtful'[r])

LEMMA Ground ==
  ASSUME NameInv
  PROVE  /\ realm \in Realms \cup {NoRealm} /\ inWorld \in BOOLEAN /\ enabled \in BOOLEAN
         /\ engine \in Books /\ store \in Goods /\ GoodDisk(disk)
         /\ book \in [Realms -> Books] /\ doubtful \in [Realms -> SUBSET Names]
         /\ skipped \in SUBSET Realms
         /\ news \in 0..MaxNews /\ troubles \in 0..MaxTrouble
         /\ inWorld => realm \in Realms
         /\ Kept(store, disk, book, doubtful, skipped)
  BY DEF NameInv, NameTypes, NoRealmNoPlayers

LEMMA MoreDoubt ==
  ASSUME NEW a, NEW b, NEW names, NEW more, names \subseteq more
  PROVE  /\ Same(a, b, names) => Same(a, b, more)
         /\ Single(a, names) => Single(a, more)
         /\ \A s : Clear(s, a, names) => Clear(s, a, more)
         /\ \A x : Behind(x, a, b, names) => Behind(x, a, b, more)
<1>1. Sure(more) \subseteq Sure(names)
  BY DEF Sure
<1> QED BY <1>1 DEF Same, Single, Clear, Behind

LEMMA InDoubtIs ==
  ASSUME doubtful \in [Realms -> SUBSET Names], realm \in Realms, NEW names \in SUBSET Names,
         InDoubt(names)
  PROVE  /\ doubtful' \in [Realms -> SUBSET Names]
         /\ doubtful'[realm] = doubtful[realm] \cup names
         /\ \A r \in Realms \ {realm} : doubtful'[r] = doubtful[r]
         /\ \A r \in Realms : doubtful[r] \subseteq doubtful'[r]
  BY DEF InDoubt

LEMMA KeptInDoubt ==
  ASSUME NEW s, NEW d, NEW b, NEW D, NEW E, NEW K, \A r \in Realms : D[r] \subseteq E[r]
  PROVE  /\ Kept(s, d, b, D, K) => Kept(s, d, b, E, K)
         /\ \A e : Filed(d, e, b, D, K) => Filed(d, e, b, E, K)
  BY MoreDoubt DEF Kept, Filed

(* A player named: readers see what is told. *)
LEMMA NamedIsSeen ==
  ASSUME NEW E \in Books, NEW x, NEW y, NEW b \in Books, NEW g \in Guids, NEW e \in Players,
         NEW names, NEW more, names \subseteq more,
         Same(View(x, E), b, names), g \notin DOMAIN E,
         \A h \in DOMAIN E : E[h].name = e.name => e.name \in more,
         \A h \in Guids \ {g}, f \in Players :
           Says(y.entries, h, f) <=> Says(x.entries, h, f) /\ f.name # e.name
  PROVE  /\ Same(View(y, With(E, g, e)), Told(b, g, e), more)
         /\ Says(y.entries, g, e) => Same(View(y, E), Told(b, g, e), more)
<1>1. /\ \A h : h \in DOMAIN With(E, g, e) <=> h = g \/ h \in DOMAIN E
      /\ \A h \in DOMAIN With(E, g, e) : With(E, g, e)[h] = IF h = g THEN e ELSE E[h]
  BY WithBook
<1>2. ASSUME NEW h \in Guids, NEW f \in Sure(more)
      PROVE  /\ f \in Players /\ f.name \notin more
             /\ Says(Told(b, g, e), h, f) <=> IF h = g THEN f = e ELSE Says(b, h, f) /\ f.name # e.name
             /\ Says(b, h, f) <=> Says(E, h, f) \/ (h \notin DOMAIN E /\ Says(x.entries, h, f))
             /\ Says(E, h, f) => f.name # e.name
  <2>1. f \in Players /\ f.name \notin more /\ f \in Sure(names)
    BY SureIsKnown DEF Sure
  <2>2. Says(Told(b, g, e), h, f) <=> IF h = g THEN f = e ELSE Says(b, h, f) /\ f.name # e.name
    BY <2>1, ToldSays
  <2>3. Says(b, h, f) <=> Says(View(x, E), h, f)
    BY <2>1 DEF Same
  <2>4. Says(E, h, f) => f.name # e.name
    BY <2>1 DEF Says
  <2> QED BY <2>1, <2>2, <2>3, <2>4, ViewSays
<1>3. ASSUME NEW h \in Guids, NEW f \in Sure(more)
      PROVE  Says(View(y, With(E, g, e)), h, f) <=> Says(Told(b, g, e), h, f)
  <2>1. Says(View(y, With(E, g, e)), h, f)
          <=> Says(With(E, g, e), h, f) \/ (h \notin DOMAIN With(E, g, e) /\ Says(y.entries, h, f))
    BY ViewSays
  <2>2. CASE h = g
    <3>1. Says(With(E, g, e), g, f) <=> f = e
      BY <1>1 DEF Says
    <3> QED BY <1>1, <1>2, <2>1, <2>2, <3>1
  <2>3. CASE h # g
    <3>1. Says(With(E, g, e), h, f) <=> Says(E, h, f)
      BY <1>1, <2>3 DEF Says
    <3> QED BY <1>1, <1>2, <2>1, <2>3, <3>1
  <2> QED BY <2>2, <2>3
<1>4. ASSUME Says(y.entries, g, e), NEW h \in Guids, NEW f \in Sure(more)
      PROVE  Says(View(y, E), h, f) <=> Says(Told(b, g, e), h, f)
  <2>1. Says(View(y, E), h, f) <=> Says(E, h, f) \/ (h \notin DOMAIN E /\ Says(y.entries, h, f))
    BY ViewSays
  <2>2. CASE h = g
    <3>1. ~Says(E, g, f) /\ (Says(y.entries, g, f) <=> f = e)
      BY <1>4 DEF Says
    <3> QED BY <1>2, <2>1, <2>2, <3>1
  <2>3. CASE h # g
    BY <1>2, <2>1, <2>3
  <2> QED BY <2>2, <2>3
<1> QED BY <1>3, <1>4 DEF Same

(* What Parted and InView say of the store once the session's realm is in it. *)
LEMMA LoadOn ==
  ASSUME NameCacheAssumption, NameInv, enabled, realm \in Realms, NEW o \in LoadCacheIfNeeded(store, disk)
  PROVE  /\ Clear(o.store, engine, doubtful[realm])
         /\ Seen(o.store, engine, Remembered(o), doubtful, skipped)
<1>1. /\ o.store.realm = realm /\ Remembered(o)[realm] = book[realm]
      /\ IF store.realm = realm THEN o.store = store ELSE o.store.entries = Content(disk, realm)
  BY LoadIs DEF Midway
<1>2. Single(engine, doubtful[realm]) /\ Parted /\ InView /\ Kept(store, disk, book, doubtful, skipped)
  BY DEF NameInv
<1>3. CASE store.realm = realm
  BY <1>1, <1>2, <1>3 DEF Parted, InView, Seen
<1>4. CASE store.realm # realm
  <2>1. engine = Nobody /\ o.store.entries = Content(disk, realm)
    BY <1>1, <1>2, <1>4 DEF Parted
  <2>2. realm \notin skipped => Same(Content(disk, realm), book[realm], doubtful[realm])
    BY <1>2, <1>4 DEF Kept
  <2>3. \A g, e : Says(View(o.store, engine), g, e) <=> Says(Content(disk, realm), g, e)
    <3> SUFFICES ASSUME NEW g, NEW e
                 PROVE  Says(View(o.store, engine), g, e) <=> Says(Content(disk, realm), g, e)
      OBVIOUS
    <3>1. Says(View(o.store, engine), g, e)
            <=> Says(engine, g, e) \/ (g \notin DOMAIN engine /\ Says(o.store.entries, g, e))
      BY ViewSays
    <3> QED BY <2>1, <3>1, SaidByNobody
  <2>4. realm \notin skipped => Same(View(o.store, engine), book[realm], doubtful[realm])
    BY <2>2, <2>3 DEF Same
  <2> QED BY <1>1, <1>2, <2>1, <2>4, SaidByNobody DEF Seen
<1> QED BY <1>3, <1>4

LEMMA DirtyIs ==
  ASSUME NEW s \in Goods, NEW v \in BOOLEAN
  PROVE  LET t == [s EXCEPT !.dirty = v]
         IN t \in Goods /\ t.entries = s.entries /\ t.realm = s.realm /\ (t.dirty <=> v)
<1> DEFINE t == [s EXCEPT !.dirty = v]
<1>1. /\ t \in Stores /\ t.entries = s.entries /\ t.byName = s.byName /\ t.realm = s.realm
      /\ t.dirty = v /\ Lockstep(s)
  BY DEF Goods, Stores
<1> HIDE DEF t
<1>2. t \in Goods /\ t.entries = s.entries /\ t.realm = s.realm /\ (t.dirty <=> v)
  BY <1>1 DEF Goods, Lockstep
<1> QED BY <1>2 DEF t

LEMMA SameView ==
  ASSUME NEW s, NEW t, t.entries = s.entries
  PROVE  /\ \A b : View(t, b) = View(s, b)
         /\ \A b, names : Clear(s, b, names) => Clear(t, b, names)
  BY DEF View, Clear

LEMMA RecordIs ==
  ASSUME realm \in Realms, NEW name \in Names
  PROVE  Record(name) \in Players /\ Record(name).name = name
  BY DEF Record, Players

(* Another player with the name puts the name in doubt. *)
LEMMA NameInDoubt ==
  ASSUME doubtful \in [Realms -> SUBSET Names], realm \in Realms, engine \in Books,
         NEW g \in Guids, g \notin DOMAIN engine, NEW name \in Names,
         InDoubt(IF Held(name, g) THEN {name} ELSE {})
  PROVE  /\ doubtful' \in [Realms -> SUBSET Names]
         /\ \A r \in Realms \ {realm} : doubtful'[r] = doubtful[r]
         /\ \A r \in Realms : doubtful[r] \subseteq doubtful'[r]
         /\ \A h \in DOMAIN engine : engine[h].name = name => name \in doubtful'[realm]
         /\ Single(engine, doubtful[realm]) => Single(With(engine, g, Record(name)), doubtful'[realm])
<1> DEFINE more == IF Held(name, g) THEN {name} ELSE {}
<1>1. more \in SUBSET Names
  OBVIOUS
<1>2. InDoubt(more)
  OBVIOUS
<1>3. /\ doubtful' \in [Realms -> SUBSET Names] /\ doubtful'[realm] = doubtful[realm] \cup more
      /\ \A r \in Realms \ {realm} : doubtful'[r] = doubtful[r]
      /\ \A r \in Realms : doubtful[r] \subseteq doubtful'[r]
  <2> HIDE DEF more
  <2> QED BY <1>1, <1>2, InDoubtIs
<1>4. \A h \in DOMAIN engine : engine[h].name = name => name \in doubtful'[realm]
  BY <1>3 DEF Held
<1>5. ASSUME Single(engine, doubtful[realm])
      PROVE  Single(With(engine, g, Record(name)), doubtful'[realm])
  <2>1. /\ \A h : h \in DOMAIN With(engine, g, Record(name)) <=> h = g \/ h \in DOMAIN engine
        /\ \A h \in DOMAIN With(engine, g, Record(name)) :
             With(engine, g, Record(name))[h] = IF h = g THEN Record(name) ELSE engine[h]
    BY RecordIs, WithBook
  <2>2. Record(name).name = name
    BY RecordIs
  <2>3. doubtful[realm] \subseteq doubtful'[realm]
    BY <1>3
  <2> HIDE DEF more
  <2> QED BY <1>4, <1>5, <2>1, <2>2, <2>3 DEF Single
<1> QED BY <1>3, <1>4, <1>5

(* SMSG_NAME_QUERY_RESPONSE, with the cache on and off. *)
LEMMA NameReplyKeeps ==
  ASSUME NameCacheAssumption, NameInv, enabled, NEW g \in Guids, NEW name \in Names,
         NameQueryResponse(g, name)
  PROVE  NameInv' /\ Saved
<1> DEFINE e == Record(name)
<1>1. PICK o \in NameReply(g, e) :
        /\ store' = o.store /\ Comes(o)
        /\ book' = [Remembered(o) EXCEPT ![realm] = Told(@, g, e)]
  BY DEF NameQueryResponse
<1>2. /\ inWorld /\ g \notin DOMAIN engine /\ IsNews /\ engine' = With(engine, g, e)
      /\ InDoubt(IF Held(name, g) THEN {name} ELSE {})
      /\ realm' = realm /\ inWorld' = inWorld /\ enabled' = enabled /\ skipped' = skipped
  BY DEF NameQueryResponse, session
<1>3. /\ realm \in Realms /\ engine \in Books /\ store \in Goods
      /\ doubtful \in [Realms -> SUBSET Names] /\ news \in 0..MaxNews /\ troubles \in 0..MaxTrouble
  BY <1>2, Ground
<1>4. e \in Players /\ e.name = name
  BY <1>3, RecordIs
<1>5. /\ doubtful' \in [Realms -> SUBSET Names]
      /\ \A r \in Realms \ {realm} : doubtful'[r] = doubtful[r]
      /\ \A r \in Realms : doubtful[r] \subseteq doubtful'[r]
      /\ \A h \in DOMAIN engine : engine[h].name = name => name \in doubtful'[realm]
      /\ Single(engine, doubtful[realm]) => Single(With(engine, g, e), doubtful'[realm])
  BY <1>2, <1>3, NameInDoubt
<1> HIDE DEF e
<1>0. PICK q \in LoadCacheIfNeeded(store, disk) : \E p \in MaybeFlush(q) :
        o = [p EXCEPT !.store = [HandOver(p.store, g, e) EXCEPT !.dirty = TRUE]]
  BY <1>1 DEF NameReply
<1>6. PICK p \in MaybeFlush(q) :
        o = [p EXCEPT !.store = [HandOver(p.store, g, e) EXCEPT !.dirty = TRUE]]
  BY <1>0
<1>7. /\ Midway(q, Remembered(q), doubtful)
      /\ Remembered(q) \in [Realms -> Books] /\ Remembered(q)[realm] = book[realm]
      /\ ~q.failed => Remembered(q) = book
  BY <1>3, <1>6, LoadIs
<1>8. /\ Clear(q.store, engine, doubtful[realm])
      /\ Seen(q.store, engine, Remembered(q), doubtful, skipped)
  BY <1>3, <1>6, LoadOn
<1>9. /\ Midway(p, Remembered(q), doubtful) /\ p.store.entries = q.store.entries
      /\ Remembered(p) = Remembered(q) /\ (q.failed => p.failed)
  BY <1>3, <1>6, <1>7, <1>8, FlushIs
<1> DEFINE b == Remembered(q)
           s == p.store
           t == [HandOver(s, g, e) EXCEPT !.dirty = TRUE]
<1>10. /\ IsOutcome(p) /\ s \in Goods /\ s.realm = realm /\ GoodDisk(p.disk)
       /\ Kept(s, p.disk, b, doubtful, skipped) /\ (p.failed => troubles < MaxTrouble)
       /\ ~p.failed => Filed(disk, p.disk, b, doubtful, skipped)
  BY <1>9 DEF Midway
<1>11. /\ HandOver(s, g, e) \in Goods /\ HandOver(s, g, e).realm = realm
       /\ \A h : h \in DOMAIN HandOver(s, g, e).entries
                   <=> h # g /\ h \in DOMAIN s.entries /\ s.entries[h].name # e.name
       /\ \A h \in DOMAIN HandOver(s, g, e).entries : HandOver(s, g, e).entries[h] = s.entries[h]
  BY <1>4, <1>10, HandOverIs DEF SameSession
<1>12. t \in Goods /\ t.entries = HandOver(s, g, e).entries /\ t.realm = realm /\ t.dirty
  BY <1>11, DirtyIs
<1> HIDE DEF t, s
<1>13. o.store = t /\ o.disk = p.disk /\ o.failed = p.failed /\ o.lost = p.lost
  BY <1>6, <1>10 DEF IsOutcome, t, s
<1>14. Remembered(o) = b
  BY <1>9, <1>13 DEF Remembered
<1> HIDE DEF b
<1>15. /\ b \in [Realms -> Books] /\ b[realm] = book[realm] /\ b[realm] \in Books
       /\ book' = [b EXCEPT ![realm] = Told(b[realm], g, e)]
  BY <1>1, <1>3, <1>7, <1>14 DEF b
<1>16. book' \in [Realms -> Books] /\ book'[realm] = Told(b[realm], g, e)
       /\ \A r \in Realms \ {realm} : book'[r] = b[r]
  <2>1. Told(b[realm], g, e) \in Books
    BY <1>4, <1>15, ToldBook
  <2> QED BY <1>3, <1>15, <2>1
<1>17. store' = t /\ disk' = p.disk /\ troubles' = IF p.failed THEN troubles + 1 ELSE troubles
  BY <1>1, <1>13 DEF Comes
<1>18. /\ engine' \in Books
       /\ \A h : h \in DOMAIN engine' <=> h = g \/ h \in DOMAIN engine
       /\ \A h \in DOMAIN engine' : engine'[h] = IF h = g THEN e ELSE engine[h]
  BY <1>2, <1>3, <1>4, WithBook
<1>19. NameTypes'
  <2>1. news' \in 0..MaxNews /\ troubles' \in 0..MaxTrouble
    BY <1>2, <1>3, <1>10, <1>17 DEF IsNews, NameCacheAssumption
  <2> QED BY <1>2, <1>3, <1>5, <1>10, <1>12, <1>16, <1>17, <1>18, <2>1, Ground DEF NameTypes
<1>20. NoRealmNoPlayers'
  BY <1>2, <1>3, <1>12, <1>17 DEF NoRealmNoPlayers, NameCacheAssumption
<1>21. Single(engine, doubtful[realm]) /\ Single(engine', doubtful'[realm])
  <2>1. Single(engine, doubtful[realm])
    BY <1>3 DEF NameInv
  <2> QED BY <1>2, <1>5, <2>1
<1>22. Kept(store', disk', book', doubtful', skipped)
  BY <1>5, <1>10, <1>12, <1>16, <1>17 DEF Kept
<1>23. Clear(t, engine', doubtful'[realm])
  <2>1. doubtful[realm] \subseteq doubtful'[realm] /\ Clear(q.store, engine, doubtful[realm])
    BY <1>3, <1>5, <1>8
  <2>2. s.entries = q.store.entries
    BY <1>9 DEF s
  <2> QED BY <1>11, <1>12, <1>18, <2>1, <2>2 DEF Clear
<1>24. realm \notin skipped => Same(View(t, engine'), book'[realm], doubtful'[realm])
  <2> SUFFICES ASSUME realm \notin skipped
               PROVE  Same(View(t, engine'), book'[realm], doubtful'[realm])
    OBVIOUS
  <2>1. q.store.realm = realm
    BY <1>7 DEF Midway
  <2>2. Same(View(q.store, engine), b[realm], doubtful[realm])
    BY <1>8, <2>1 DEF Seen, b
  <2>3. View(s, engine) = View(q.store, engine)
    BY <1>9, SameView DEF s
  <2>4. \A h \in Guids \ {g}, f \in Players :
          Says(t.entries, h, f) <=> Says(s.entries, h, f) /\ f.name # e.name
    BY <1>11, <1>12 DEF Says
  <2>5. doubtful[realm] \subseteq doubtful'[realm]
    BY <1>3, <1>5
  <2>6. \A h \in DOMAIN engine : engine[h].name = e.name => e.name \in doubtful'[realm]
    BY <1>4, <1>5
  <2>7. Same(View(t, With(engine, g, e)), Told(b[realm], g, e), doubtful'[realm])
    BY <1>2, <1>3, <1>4, <1>15, <2>2, <2>3, <2>4, <2>5, <2>6, NamedIsSeen
  <2> QED BY <1>2, <1>16, <2>7
<1>25. NameInv'
  <2>1. Parted' /\ InView'
    BY <1>2, <1>12, <1>17, <1>23, <1>24 DEF Parted, InView
  <2> QED BY <1>2, <1>19, <1>20, <1>21, <1>22, <2>1 DEF NameInv
<1>26. Saved
  <2> SUFFICES ASSUME troubles' = troubles, NEW r \in Realms \ skipped
               PROVE  \/ Content(disk', r) = Content(disk, r)
                      \/ Same(Content(disk', r), book[r], doubtful'[r])
    BY <1>2 DEF Saved
  <2>1. ~p.failed
    BY <1>3, <1>17
  <2>2. Filed(disk, disk', book, doubtful, skipped)
    BY <1>7, <1>9, <1>10, <1>17, <2>1 DEF b
  <2>3. Filed(disk, disk', book, doubtful', skipped)
    BY <1>5, <2>2, KeptInDoubt
  <2> QED BY <2>3 DEF Filed
<1> QED BY <1>25, <1>26

(* Nothing is written, and what was told stays what was told. *)
LEMMA NothingWritten ==
  ASSUME NameInv, disk' = disk, book' = book, skipped' = skipped, realm \in Realms,
         \A r \in Realms : doubtful[r] \subseteq doubtful'[r]
  PROVE  /\ Saved
         /\ store' = store => Kept(store', disk', book', doubtful', skipped')
<1>1. Kept(store, disk, book, doubtful, skipped)
  BY DEF NameInv
<1>2. Kept(store, disk, book, doubtful', skipped)
  BY <1>1, KeptInDoubt
<1> QED BY <1>2 DEF Saved

LEMMA NameUnheardKeeps ==
  ASSUME NameCacheAssumption, NameInv, ~enabled, NEW g \in Guids, NEW name \in Names,
         NameQueryResponse(g, name)
  PROVE  NameInv' /\ Saved
<1> DEFINE e == Record(name)
<1>1. /\ inWorld /\ g \notin DOMAIN engine /\ IsNews /\ engine' = With(engine, g, e)
      /\ InDoubt(IF Held(name, g) THEN {name} ELSE {})
      /\ realm' = realm /\ inWorld' = inWorld /\ enabled' = enabled /\ skipped' = skipped
      /\ store' = store /\ disk' = disk /\ book' = book /\ troubles' = troubles
  BY DEF NameQueryResponse, session
<1>2. /\ realm \in Realms /\ engine \in Books /\ store \in Goods
      /\ doubtful \in [Realms -> SUBSET Names] /\ news \in 0..MaxNews /\ troubles \in 0..MaxTrouble
  BY <1>1, Ground
<1>3. e \in Players /\ e.name = name
  BY <1>2, RecordIs
<1>4. /\ doubtful' \in [Realms -> SUBSET Names]
      /\ \A r \in Realms \ {realm} : doubtful'[r] = doubtful[r]
      /\ \A r \in Realms : doubtful[r] \subseteq doubtful'[r]
      /\ Single(engine, doubtful[realm]) => Single(With(engine, g, e), doubtful'[realm])
  BY <1>1, <1>2, NameInDoubt
<1> HIDE DEF e
<1>5. /\ engine' \in Books
      /\ \A h : h \in DOMAIN engine' <=> h = g \/ h \in DOMAIN engine
      /\ \A h \in DOMAIN engine' : engine'[h] = IF h = g THEN e ELSE engine[h]
  BY <1>1, <1>2, <1>3, WithBook
<1>6. NameTypes' /\ NoRealmNoPlayers'
  <2>1. news' \in 0..MaxNews
    BY <1>1, <1>2 DEF IsNews, NameCacheAssumption
  <2>2. NameTypes'
    BY <1>1, <1>2, <1>4, <1>5, <2>1, Ground DEF NameTypes
  <2>3. NoRealmNoPlayers'
    BY <1>1, <1>2 DEF NoRealmNoPlayers, NameCacheAssumption, NameInv
  <2> QED BY <2>2, <2>3
<1>7. Single(engine', doubtful'[realm])
  <2>1. Single(engine, doubtful[realm])
    BY <1>2 DEF NameInv
  <2> QED BY <1>1, <1>4, <2>1
<1>8. Saved /\ Kept(store', disk', book', doubtful', skipped')
  BY <1>1, <1>2, <1>4, NothingWritten
<1>9. Off'
  <2> SUFFICES ASSUME store.realm \in Realms \ skipped
               PROVE  IF store.realm = realm THEN Behind(store.entries, engine', book[realm], doubtful'[realm])
                      ELSE ~store.dirty
    BY <1>1 DEF Off
  <2>1. IF store.realm = realm THEN Behind(store.entries, engine, book[realm], doubtful[realm])
        ELSE ~store.dirty
    BY DEF NameInv, Off
  <2>2. doubtful[realm] \subseteq doubtful'[realm]
    BY <1>2, <1>4
  <2>3. \A h \in Guids, f \in Players : Says(engine, h, f) => Says(engine', h, f)
    BY <1>1, <1>5 DEF Says
  <2>4. Sure(doubtful'[realm]) \subseteq Players
    BY SureIsKnown
  <2>5. ASSUME Behind(store.entries, engine, book[realm], doubtful[realm])
        PROVE  Behind(store.entries, engine', book[realm], doubtful'[realm])
    <3>1. Behind(store.entries, engine, book[realm], doubtful'[realm])
      BY <2>2, <2>5, MoreDoubt
    <3> QED BY <2>3, <2>4, <3>1 DEF Behind
  <2> QED BY <2>1, <2>5
<1> QED BY <1>1, <1>6, <1>7, <1>8, <1>9 DEF NameInv

(* SMSG_INVALIDATE_PLAYER, with the cache on and off. *)
LEMMA InvalidatedKeeps ==
  ASSUME NameCacheAssumption, NameInv, enabled, NEW g \in Guids, InvalidatePlayer(g)
  PROVE  NameInv' /\ Saved
<1>1. PICK o \in Invalidated(g) :
        /\ store' = o.store /\ Comes(o)
        /\ book' = [Remembered(o) EXCEPT ![realm] = Without(@, {g})]
        /\ doubtful' = doubtful
  BY DEF InvalidatePlayer
<1>2. /\ inWorld /\ IsNews /\ engine' = Without(engine, {g})
      /\ realm' = realm /\ inWorld' = inWorld /\ enabled' = enabled /\ skipped' = skipped
  BY DEF InvalidatePlayer, session
<1>3. /\ realm \in Realms /\ engine \in Books /\ store \in Goods
      /\ doubtful \in [Realms -> SUBSET Names] /\ news \in 0..MaxNews /\ troubles \in 0..MaxTrouble
  BY <1>2, Ground
<1>4. PICK q \in LoadCacheIfNeeded(store, disk) : \E p \in MaybeFlush(q) :
        o = [p EXCEPT !.store = Dropped(p.store, g)]
  BY <1>1 DEF Invalidated
<1>5. PICK p \in MaybeFlush(q) :
        o = [p EXCEPT !.store = Dropped(p.store, g)]
  BY <1>4
<1>6. /\ Midway(q, Remembered(q), doubtful)
      /\ Remembered(q) \in [Realms -> Books] /\ Remembered(q)[realm] = book[realm]
      /\ ~q.failed => Remembered(q) = book
  BY <1>3, <1>4, LoadIs
<1>7. /\ Clear(q.store, engine, doubtful[realm])
      /\ Seen(q.store, engine, Remembered(q), doubtful, skipped)
  BY <1>3, <1>4, LoadOn
<1>8. /\ Midway(p, Remembered(q), doubtful) /\ p.store.entries = q.store.entries
      /\ Remembered(p) = Remembered(q) /\ (q.failed => p.failed)
  BY <1>3, <1>5, <1>6, <1>7, FlushIs
<1> DEFINE b == Remembered(q)
           s == p.store
           known == g \in DOMAIN s.entries \cup DOMAIN engine
           v == Erase(s, g).dirty \/ known
           t == [Erase(s, g) EXCEPT !.dirty = v]
<1>9. /\ IsOutcome(p) /\ s \in Goods /\ s.realm = realm /\ GoodDisk(p.disk)
      /\ Kept(s, p.disk, b, doubtful, skipped) /\ (p.failed => troubles < MaxTrouble)
      /\ ~p.failed => Filed(disk, p.disk, b, doubtful, skipped)
  BY <1>8 DEF Midway
<1>10. /\ Erase(s, g) \in Goods /\ Erase(s, g).realm = realm /\ (Erase(s, g).dirty <=> s.dirty)
       /\ Erase(s, g).entries = Without(s.entries, {g})
  BY <1>9, EraseIs DEF SameSession
<1>11. v \in BOOLEAN /\ o = [p EXCEPT !.store = t]
  BY <1>5, <1>10, GoodParts DEF Dropped
<1> HIDE DEF v
<1>12. t \in Goods /\ t.entries = Without(s.entries, {g}) /\ t.realm = realm /\ (t.dirty <=> v)
  BY <1>10, <1>11, DirtyIs
<1> HIDE DEF t, s
<1>13. o.store = t /\ o.disk = p.disk /\ o.failed = p.failed /\ o.lost = p.lost
  BY <1>9, <1>11 DEF IsOutcome
<1>14. Remembered(o) = b
  BY <1>8, <1>13 DEF Remembered
<1> HIDE DEF b
<1>15. /\ b \in [Realms -> Books] /\ b[realm] = book[realm] /\ b[realm] \in Books
       /\ book' = [b EXCEPT ![realm] = Without(b[realm], {g})]
  BY <1>1, <1>3, <1>6, <1>14 DEF b
<1>16. book' \in [Realms -> Books] /\ book'[realm] = Without(b[realm], {g})
       /\ \A r \in Realms \ {realm} : book'[r] = b[r]
  <2>1. Without(b[realm], {g}) \in Books
    BY <1>15, WithoutBook
  <2> QED BY <1>3, <1>15, <2>1
<1>17. store' = t /\ disk' = p.disk /\ troubles' = IF p.failed THEN troubles + 1 ELSE troubles
  BY <1>1, <1>13 DEF Comes
<1>18. /\ engine' \in Books
       /\ \A h, f : Says(engine', h, f) <=> Says(engine, h, f) /\ h # g
       /\ \A h : h \in DOMAIN engine' <=> h \in DOMAIN engine /\ h # g
       /\ \A h \in DOMAIN engine' : engine'[h] = engine[h]
  <2>1. /\ engine' \in Books
        /\ \A h : h \in DOMAIN engine' <=> h \in DOMAIN engine /\ h \notin {g}
        /\ \A h \in DOMAIN engine' : engine'[h] = engine[h]
    BY <1>2, <1>3, WithoutBook
  <2> QED BY <2>1 DEF Says
<1>19. s.entries \in Books /\ DOMAIN t.entries \subseteq DOMAIN s.entries
       /\ (\A h \in DOMAIN t.entries : t.entries[h] = s.entries[h])
       /\ \A h, f : Says(t.entries, h, f) <=> Says(s.entries, h, f) /\ h # g
  <2>1. s.entries \in Books
    BY <1>9, GoodParts DEF s
  <2>2. /\ \A h : h \in DOMAIN t.entries <=> h \in DOMAIN s.entries /\ h \notin {g}
        /\ \A h \in DOMAIN t.entries : t.entries[h] = s.entries[h]
    BY <1>12, <2>1, WithoutBook
  <2> QED BY <2>1, <2>2 DEF Says
<1>20. \A h, f : Says(book'[realm], h, f) <=> Says(b[realm], h, f) /\ h # g
  <2>1. /\ \A h : h \in DOMAIN book'[realm] <=> h \in DOMAIN b[realm] /\ h \notin {g}
        /\ \A h \in DOMAIN book'[realm] : book'[realm][h] = b[realm][h]
    BY <1>15, <1>16, WithoutBook
  <2> QED BY <2>1 DEF Says
<1>21. NameTypes'
  <2>1. news' \in 0..MaxNews /\ troubles' \in 0..MaxTrouble
    BY <1>2, <1>3, <1>9, <1>17 DEF IsNews, NameCacheAssumption
  <2>2. disk' = p.disk /\ GoodDisk(disk') /\ store' \in Goods
    BY <1>9, <1>12, <1>17
  <2> QED BY <1>1, <1>2, <1>3, <1>16, <1>18, <2>1, <2>2, Ground DEF NameTypes
<1>22. NoRealmNoPlayers'
  BY <1>2, <1>3, <1>12, <1>17 DEF NoRealmNoPlayers, NameCacheAssumption
<1>23. Single(engine, doubtful[realm]) /\ Single(engine', doubtful'[realm])
  <2>1. Single(engine, doubtful[realm])
    BY <1>3 DEF NameInv
  <2> QED BY <1>1, <1>18, <2>1 DEF Single
<1>24. Clear(t, engine', doubtful'[realm])
  <2>1. s.entries = q.store.entries /\ Clear(q.store, engine, doubtful[realm])
    BY <1>7, <1>8 DEF s
  <2> QED BY <1>1, <1>18, <1>19, <2>1 DEF Clear
<1>25. realm \notin skipped => Same(View(s, engine), b[realm], doubtful[realm])
  <2>1. q.store.realm = realm
    BY <1>6 DEF Midway
  <2>2. View(s, engine) = View(q.store, engine)
    BY <1>8, SameView DEF s
  <2> QED BY <1>7, <2>1, <2>2 DEF Seen, b
<1>26. realm \notin skipped => Same(View(t, engine'), book'[realm], doubtful'[realm])
  <2> SUFFICES ASSUME realm \notin skipped, NEW h \in Guids, NEW f \in Sure(doubtful[realm])
               PROVE  Says(View(t, engine'), h, f) <=> Says(book'[realm], h, f)
    BY <1>1 DEF Same
  <2>1. Says(View(s, engine), h, f) <=> Says(b[realm], h, f)
    BY <1>25 DEF Same
  <2>2. Says(View(t, engine'), h, f)
          <=> Says(engine', h, f) \/ (h \notin DOMAIN engine' /\ Says(t.entries, h, f))
    BY ViewSays
  <2>3. Says(View(s, engine), h, f)
          <=> Says(engine, h, f) \/ (h \notin DOMAIN engine /\ Says(s.entries, h, f))
    BY ViewSays
  <2> QED BY <1>18, <1>19, <1>20, <2>1, <2>2, <2>3
<1>27. Kept(store', disk', book', doubtful', skipped')
  <2> SUFFICES ASSUME NEW r \in Realms \ skipped, r # realm \/ ~t.dirty
               PROVE  Same(Content(p.disk, r), book'[r], doubtful[r])
    BY <1>1, <1>2, <1>12, <1>17 DEF Kept
  <2>1. CASE r # realm
    BY <1>9, <1>16, <2>1 DEF Kept, s
  <2>2. CASE r = realm /\ ~t.dirty
    <3>1. ~s.dirty /\ g \notin DOMAIN s.entries /\ g \notin DOMAIN engine
      BY <1>10, <1>12, <2>2 DEF v
    <3>2. Same(Content(p.disk, r), b[r], doubtful[r])
      BY <1>9, <2>2, <3>1 DEF Kept, s
    <3>3. \A f \in Sure(doubtful[realm]) : ~Says(b[realm], g, f)
      <4> SUFFICES ASSUME NEW f \in Sure(doubtful[realm]) PROVE ~Says(b[realm], g, f)
        OBVIOUS
      <4>1. Says(View(s, engine), g, f) <=> Says(b[realm], g, f)
        BY <1>25, <2>2 DEF Same
      <4>2. Says(View(s, engine), g, f)
              <=> Says(engine, g, f) \/ (g \notin DOMAIN engine /\ Says(s.entries, g, f))
        BY ViewSays
      <4> QED BY <3>1, <4>1, <4>2 DEF Says
    <3> QED BY <1>20, <2>2, <3>2, <3>3 DEF Same
  <2> QED BY <2>1, <2>2
<1>28. NameInv'
  <2>1. Parted' /\ InView'
    BY <1>2, <1>12, <1>17, <1>24, <1>26 DEF Parted, InView
  <2> QED BY <1>2, <1>21, <1>22, <1>23, <1>27, <2>1 DEF NameInv
<1>29. Saved
  <2> SUFFICES ASSUME troubles' = troubles, NEW r \in Realms \ skipped
               PROVE  \/ Content(disk', r) = Content(disk, r)
                      \/ Same(Content(disk', r), book[r], doubtful'[r])
    BY <1>2 DEF Saved
  <2>1. ~p.failed
    BY <1>3, <1>17
  <2>2. Filed(disk, disk', book, doubtful', skipped)
    BY <1>1, <1>6, <1>8, <1>9, <1>17, <2>1 DEF b
  <2> QED BY <2>2 DEF Filed
<1> QED BY <1>28, <1>29

LEMMA InvalidateUnheardKeeps ==
  ASSUME NameCacheAssumption, NameInv, ~enabled, NEW g \in Guids, InvalidatePlayer(g)
  PROVE  NameInv' /\ Saved
<1> DEFINE names == IF g \in DOMAIN engine THEN {engine[g].name} ELSE {}
<1>1. /\ inWorld /\ IsNews /\ engine' = Without(engine, {g}) /\ InDoubt(names)
      /\ realm' = realm /\ inWorld' = inWorld /\ enabled' = enabled /\ skipped' = skipped
      /\ store' = store /\ disk' = disk /\ book' = book /\ troubles' = troubles
  BY DEF InvalidatePlayer, session
<1>2. /\ realm \in Realms /\ engine \in Books /\ store \in Goods
      /\ doubtful \in [Realms -> SUBSET Names] /\ news \in 0..MaxNews /\ troubles \in 0..MaxTrouble
  BY <1>1, Ground
<1>3. names \in SUBSET Names /\ (g \in DOMAIN engine => engine[g].name \in names)
  <2>1. engine \in [DOMAIN engine -> Players]
    BY <1>2, BookParts
  <2> QED BY <2>1 DEF Players
<1> HIDE DEF names
<1>4. /\ doubtful' \in [Realms -> SUBSET Names]
      /\ doubtful'[realm] = doubtful[realm] \cup names
      /\ \A r \in Realms \ {realm} : doubtful'[r] = doubtful[r]
      /\ \A r \in Realms : doubtful[r] \subseteq doubtful'[r]
  BY <1>1, <1>2, <1>3, InDoubtIs
<1>5. /\ engine' \in Books
      /\ \A h : h \in DOMAIN engine' <=> h \in DOMAIN engine /\ h # g
      /\ \A h \in DOMAIN engine' : engine'[h] = engine[h]
  BY <1>1, <1>2, WithoutBook
<1>6. NameTypes' /\ NoRealmNoPlayers'
  <2>1. news' \in 0..MaxNews
    BY <1>1, <1>2 DEF IsNews, NameCacheAssumption
  <2>2. NameTypes'
    BY <1>1, <1>2, <1>4, <1>5, <2>1, Ground DEF NameTypes
  <2>3. NoRealmNoPlayers'
    BY <1>1, <1>2 DEF NoRealmNoPlayers, NameCacheAssumption, NameInv
  <2> QED BY <2>2, <2>3
<1>7. Single(engine', doubtful'[realm])
  <2>1. Single(engine, doubtful[realm])
    BY <1>2 DEF NameInv
  <2> QED BY <1>4, <1>5, <2>1 DEF Single
<1>8. Saved /\ Kept(store', disk', book', doubtful', skipped')
  BY <1>1, <1>2, <1>4, NothingWritten
<1>9. Off'
  <2> SUFFICES ASSUME store.realm \in Realms \ skipped
               PROVE  IF store.realm = realm THEN Behind(store.entries, engine', book[realm], doubtful'[realm])
                      ELSE ~store.dirty
    BY <1>1 DEF Off
  <2>1. IF store.realm = realm THEN Behind(store.entries, engine, book[realm], doubtful[realm])
        ELSE ~store.dirty
    BY DEF NameInv, Off
  <2>2. doubtful[realm] \subseteq doubtful'[realm]
    BY <1>2, <1>4
  <2>3. \A h \in Guids, f \in Sure(doubtful'[realm]) : Says(engine, h, f) => Says(engine', h, f)
    <3> SUFFICES ASSUME NEW h \in Guids, NEW f \in Sure(doubtful'[realm]), Says(engine, h, f)
                 PROVE  Says(engine', h, f)
      OBVIOUS
    <3>1. f.name \notin names
      BY <1>4, SureIsKnown
    <3>2. h # g
      BY <1>3, <3>1 DEF Says
    <3> QED BY <1>5, <3>2 DEF Says
  <2>4. ASSUME Behind(store.entries, engine, book[realm], doubtful[realm])
        PROVE  Behind(store.entries, engine', book[realm], doubtful'[realm])
    <3>1. Behind(store.entries, engine, book[realm], doubtful'[realm])
      BY <2>2, <2>4, MoreDoubt
    <3> QED BY <2>3, <3>1 DEF Behind
  <2> QED BY <2>1, <2>4
<1> QED BY <1>1, <1>6, <1>7, <1>8, <1>9 DEF NameInv

LEMMA LookupKeeps ==
  ASSUME NameCacheAssumption, NameInv, Lookup
  PROVE  NameInv' /\ Saved
<1>1. PICK o \in LoadCacheIfNeeded(store, disk) :
        store' = o.store /\ Comes(o) /\ book' = Remembered(o)
  BY DEF Lookup
<1>2. /\ inWorld /\ enabled /\ engine' = engine /\ doubtful' = doubtful /\ news' = news
      /\ realm' = realm /\ inWorld' = inWorld /\ enabled' = enabled /\ skipped' = skipped
  BY DEF Lookup, session
<1>3. /\ realm \in Realms /\ engine \in Books /\ store \in Goods
      /\ doubtful \in [Realms -> SUBSET Names] /\ news \in 0..MaxNews /\ troubles \in 0..MaxTrouble
  BY <1>2, Ground
<1>4. /\ Midway(o, Remembered(o), doubtful)
      /\ Remembered(o) \in [Realms -> Books] /\ Remembered(o)[realm] = book[realm]
      /\ ~o.failed => Remembered(o) = book
  BY <1>3, <1>1, LoadIs
<1>5. /\ Clear(o.store, engine, doubtful[realm])
      /\ Seen(o.store, engine, Remembered(o), doubtful, skipped)
  BY <1>1, <1>2, <1>3, LoadOn
<1>6. /\ IsOutcome(o) /\ o.store \in Goods /\ o.store.realm = realm /\ GoodDisk(o.disk)
      /\ Kept(o.store, o.disk, Remembered(o), doubtful, skipped)
      /\ o.failed => troubles < MaxTrouble
      /\ ~o.failed => Filed(disk, o.disk, Remembered(o), doubtful, skipped)
  BY <1>4 DEF Midway
<1>7. disk' = o.disk /\ troubles' = IF o.failed THEN troubles + 1 ELSE troubles
  BY <1>1 DEF Comes
<1>8. NameTypes'
  <2>1. troubles' \in 0..MaxTrouble
    BY <1>3, <1>6, <1>7 DEF NameCacheAssumption
  <2>2. GoodDisk(disk') /\ store' \in Goods /\ book' \in [Realms -> Books]
    BY <1>1, <1>4, <1>6, <1>7
  <2> QED BY <1>2, <1>3, <2>1, <2>2, Ground DEF NameTypes
<1>9. NoRealmNoPlayers'
  BY <1>1, <1>2, <1>3, <1>6 DEF NoRealmNoPlayers, NameCacheAssumption
<1>10. Single(engine', doubtful'[realm'])
  BY <1>2, <1>3 DEF NameInv
<1>11. Parted' /\ InView'
  BY <1>1, <1>2, <1>5, <1>6 DEF Parted, InView, Seen
<1>12. Kept(store', disk', book', doubtful', skipped')
  BY <1>1, <1>2, <1>6, <1>7
<1>13. NameInv'
  BY <1>2, <1>8, <1>9, <1>10, <1>11, <1>12 DEF NameInv
<1>14. Saved
  <2> SUFFICES ASSUME troubles' = troubles, NEW r \in Realms \ skipped
               PROVE  \/ Content(disk', r) = Content(disk, r)
                      \/ Same(Content(disk', r), book[r], doubtful'[r])
    BY <1>2 DEF Saved
  <2>1. ~o.failed
    BY <1>3, <1>7
  <2>2. Filed(disk, disk', book, doubtful', skipped)
    BY <1>2, <1>4, <1>6, <1>7, <2>1
  <2> QED BY <2>2 DEF Filed
<1> QED BY <1>13, <1>14

(* A player of a who list. *)
LEMMA RememberKeeps ==
  ASSUME NameCacheAssumption, NameInv, NEW g \in Guids, NEW name \in Names, Remember(g, name)
  PROVE  NameInv' /\ Saved
<1> DEFINE e == Record(name)
<1>1. PICK l \in LoadCacheIfNeeded(store, disk) :
        LET s == Upsert(l.store, g, e)
            new == [l EXCEPT !.store = [s EXCEPT !.dirty = @ \/ s # l.store]]
        IN \E o \in IF s # l.store THEN MaybeFlush(new) ELSE {new} :
             /\ store' = o.store /\ Comes(o)
             /\ book' = [Remembered(o) EXCEPT ![realm] = Told(@, g, e)]
  BY DEF Remember
<1> DEFINE s == Upsert(l.store, g, e)
           v == s.dirty \/ s # l.store
           t == [s EXCEPT !.dirty = v]
           new == [l EXCEPT !.store = t]
<1>2. PICK o \in IF s # l.store THEN MaybeFlush(new) ELSE {new} :
        /\ store' = o.store /\ Comes(o)
        /\ book' = [Remembered(o) EXCEPT ![realm] = Told(@, g, e)]
  BY <1>1
<1>3. /\ inWorld /\ enabled /\ g \notin DOMAIN engine /\ IsNews /\ engine' = engine
      /\ InDoubt(IF Held(name, g) THEN {name} ELSE {})
      /\ realm' = realm /\ inWorld' = inWorld /\ enabled' = enabled /\ skipped' = skipped
  BY DEF Remember, session
<1>4. /\ realm \in Realms /\ engine \in Books /\ store \in Goods
      /\ doubtful \in [Realms -> SUBSET Names] /\ news \in 0..MaxNews /\ troubles \in 0..MaxTrouble
  BY <1>3, Ground
<1>5. e \in Players /\ e.name = name
  BY <1>4, RecordIs
<1>6. /\ doubtful' \in [Realms -> SUBSET Names]
      /\ \A r \in Realms \ {realm} : doubtful'[r] = doubtful[r]
      /\ \A r \in Realms : doubtful[r] \subseteq doubtful'[r]
      /\ \A h \in DOMAIN engine : engine[h].name = name => name \in doubtful'[realm]
  BY <1>3, <1>4, NameInDoubt
<1> HIDE DEF e
<1>7. /\ Midway(l, Remembered(l), doubtful)
      /\ Remembered(l) \in [Realms -> Books] /\ Remembered(l)[realm] = book[realm]
      /\ ~l.failed => Remembered(l) = book
      /\ Content(l.disk, realm) = Content(disk, realm)
  BY <1>1, <1>4, LoadIs
<1>8. /\ Clear(l.store, engine, doubtful[realm])
      /\ Seen(l.store, engine, Remembered(l), doubtful, skipped)
  BY <1>1, <1>3, <1>4, LoadOn
<1> DEFINE b == Remembered(l)
           c == [b EXCEPT ![realm] = Told(b[realm], g, e)]
<1>9. /\ IsOutcome(l) /\ l.store \in Goods /\ l.store.realm = realm /\ GoodDisk(l.disk)
      /\ Kept(l.store, l.disk, b, doubtful, skipped) /\ (l.failed => troubles < MaxTrouble)
      /\ l.lost => l.failed
      /\ ~l.failed => Filed(disk, l.disk, b, doubtful, skipped)
  BY <1>7 DEF Midway
<1>10. /\ s \in Goods /\ s.realm = realm /\ (s.dirty <=> l.store.dirty)
       /\ s.entries = Told(l.store.entries, g, e)
  BY <1>5, <1>9, UpsertIs DEF SameSession
<1>11. s.dirty \in BOOLEAN /\ v \in BOOLEAN
  BY <1>10, GoodParts
<1> HIDE DEF s
<1>12. v <=> s.dirty \/ s # l.store
  OBVIOUS
<1> HIDE DEF v
<1>13. t \in Goods /\ t.entries = s.entries /\ t.realm = realm /\ (t.dirty <=> v)
  BY <1>10, <1>11, DirtyIs
<1> HIDE DEF t
<1>14. /\ new.store = t /\ new.disk = l.disk /\ new.failed = l.failed /\ new.lost = l.lost
       /\ IsOutcome(new)
  BY <1>9 DEF IsOutcome
<1> HIDE DEF new
<1>15. Remembered(new) = b
  BY <1>14 DEF Remembered
<1>16. /\ b \in [Realms -> Books] /\ b[realm] = book[realm] /\ b[realm] \in Books
       /\ c \in [Realms -> Books] /\ c[realm] = Told(b[realm], g, e)
       /\ \A r \in Realms \ {realm} : c[r] = b[r]
  <2>1. b \in [Realms -> Books] /\ b[realm] = book[realm] /\ b[realm] \in Books
    BY <1>4, <1>7
  <2>2. Told(b[realm], g, e) \in Books
    BY <1>5, <2>1, ToldBook
  <2> HIDE DEF b
  <2> QED BY <1>4, <2>1, <2>2
<1> HIDE DEF c, b
<1>17. l.store.entries \in Books
  BY <1>9, GoodParts
<1>18. /\ \A h : h \in DOMAIN t.entries
                   <=> h = g \/ (h \in DOMAIN l.store.entries /\ l.store.entries[h].name # e.name)
       /\ \A h \in DOMAIN t.entries : t.entries[h] = IF h = g THEN e ELSE l.store.entries[h]
  BY <1>5, <1>10, <1>13, <1>17, ToldBook
<1>19. Clear(t, engine, doubtful'[realm])
  <2>1. doubtful[realm] \subseteq doubtful'[realm]
    BY <1>4, <1>6
  <2> QED BY <1>3, <1>5, <1>6, <1>8, <1>18, <2>1 DEF Clear
<1>20. Single(engine, doubtful'[realm])
  <2>1. Single(engine, doubtful[realm]) /\ doubtful[realm] \subseteq doubtful'[realm]
    BY <1>4, <1>6 DEF NameInv
  <2> QED BY <2>1, MoreDoubt
<1>21. realm \notin skipped => Same(View(l.store, engine), b[realm], doubtful[realm])
  BY <1>8, <1>9 DEF Seen, b
<1>22. realm \notin skipped => Same(View(t, engine), c[realm], doubtful'[realm])
  <2> SUFFICES ASSUME realm \notin skipped
               PROVE  Same(View(t, engine), c[realm], doubtful'[realm])
    OBVIOUS
  <2>1. Same(View(l.store, engine), b[realm], doubtful[realm])
    BY <1>21
  <2>2. \A h \in Guids \ {g}, f \in Players :
          Says(t.entries, h, f) <=> Says(l.store.entries, h, f) /\ f.name # e.name
    BY <1>18 DEF Says
  <2>3. doubtful[realm] \subseteq doubtful'[realm]
    BY <1>4, <1>6
  <2>4. \A h \in DOMAIN engine : engine[h].name = e.name => e.name \in doubtful'[realm]
    BY <1>5, <1>6
  <2>5. Says(t.entries, g, e)
    BY <1>18 DEF Says
  <2>6. Same(View(t, engine), Told(b[realm], g, e), doubtful'[realm])
    BY <1>3, <1>4, <1>5, <1>16, <2>1, <2>2, <2>3, <2>4, <2>5, NamedIsSeen
  <2> QED BY <1>16, <2>6
<1>23. Seen(t, engine, c, doubtful', skipped)
  BY <1>13, <1>19, <1>20, <1>22 DEF Seen
<1>24. Kept(t, l.disk, c, doubtful', skipped)
  <2> SUFFICES ASSUME NEW r \in Realms \ skipped, r # realm \/ ~t.dirty
               PROVE  Same(Content(l.disk, r), c[r], doubtful'[r])
    BY <1>13 DEF Kept
  <2>1. CASE r # realm
    <3>1. Same(Content(l.disk, r), b[r], doubtful[r])
      BY <1>9, <2>1 DEF Kept
    <3> QED BY <1>6, <1>16, <2>1, <3>1
  <2>2. CASE r = realm /\ ~t.dirty
    <3>1. s = l.store /\ ~l.store.dirty
      BY <1>10, <1>12, <1>13, <2>2
    <3>2. Same(Content(l.disk, r), b[r], doubtful[r])
      BY <1>9, <2>2, <3>1 DEF Kept
    <3>3. View(t, engine) = View(l.store, engine)
      BY <1>13, <3>1, SameView
    <3>4. doubtful[r] \subseteq doubtful'[r]
      BY <1>6
    <3>5. Same(Content(l.disk, r), b[r], doubtful'[r])
      BY <3>2, <3>4, MoreDoubt
    <3>6. Same(View(l.store, engine), b[r], doubtful'[r])
      BY <1>21, <2>2, <3>4, MoreDoubt
    <3>7. Same(View(l.store, engine), c[r], doubtful'[r])
      BY <1>22, <2>2, <3>3
    <3> QED BY <3>5, <3>6, <3>7 DEF Same
  <2> QED BY <2>1, <2>2
<1>25. ~l.failed => Filed(disk, l.disk, c, doubtful', skipped)
  <2> SUFFICES ASSUME ~l.failed, NEW r \in Realms \ skipped
               PROVE  Content(l.disk, r) = Content(disk, r) \/ Same(Content(l.disk, r), c[r], doubtful'[r])
    BY DEF Filed
  <2>1. CASE r = realm
    BY <1>7, <2>1
  <2>2. CASE r # realm
    <3>1. Content(l.disk, r) = Content(disk, r) \/ Same(Content(l.disk, r), b[r], doubtful[r])
      BY <1>9 DEF Filed
    <3> QED BY <1>6, <1>16, <2>2, <3>1
  <2> QED BY <2>1, <2>2
<1>26. Midway(new, c, doubtful')
  BY <1>9, <1>13, <1>14, <1>24, <1>25 DEF Midway
<1>27. /\ Midway(o, c, doubtful') /\ o.store.entries = t.entries /\ Remembered(o) = b
       /\ (l.failed => o.failed)
  <2>1. CASE s = l.store
    BY <1>2, <1>14, <1>15, <1>26, <2>1
  <2>2. CASE s # l.store
    <3>1. Seen(new.store, engine, c, doubtful', skipped)
      BY <1>14, <1>23
    <3>2. o \in MaybeFlush(new)
      BY <1>2, <2>2
    <3>3. /\ Midway(o, c, doubtful') /\ o.store.entries = new.store.entries
          /\ Remembered(o) = Remembered(new) /\ (new.failed => o.failed)
      BY <1>4, <1>26, <3>1, <3>2, FlushIs
    <3> QED BY <1>14, <1>15, <3>3
  <2> QED BY <2>1, <2>2
<1>28. /\ IsOutcome(o) /\ o.store \in Goods /\ o.store.realm = realm /\ GoodDisk(o.disk)
       /\ Kept(o.store, o.disk, c, doubtful', skipped) /\ (o.failed => troubles < MaxTrouble)
       /\ ~o.failed => Filed(disk, o.disk, c, doubtful', skipped)
  BY <1>27 DEF Midway
<1>29. /\ store' = o.store /\ disk' = o.disk /\ book' = c
       /\ troubles' = IF o.failed THEN troubles + 1 ELSE troubles
  BY <1>2, <1>27 DEF Comes, c
<1>30. NameTypes'
  <2>1. news' \in 0..MaxNews /\ troubles' \in 0..MaxTrouble
    BY <1>3, <1>4, <1>28, <1>29 DEF IsNews, NameCacheAssumption
  <2>2. GoodDisk(disk') /\ store' \in Goods /\ book' \in [Realms -> Books]
    BY <1>16, <1>28, <1>29
  <2> QED BY <1>3, <1>4, <1>6, <2>1, <2>2, Ground DEF NameTypes
<1>31. NoRealmNoPlayers'
  BY <1>3, <1>4, <1>28, <1>29 DEF NoRealmNoPlayers, NameCacheAssumption
<1>32. Parted' /\ InView'
  <2>1. Clear(o.store, engine, doubtful'[realm]) /\ View(o.store, engine) = View(t, engine)
    BY <1>19, <1>27, SameView
  <2> QED BY <1>3, <1>22, <1>28, <1>29, <2>1 DEF Parted, InView
<1>33. NameInv'
  BY <1>3, <1>20, <1>28, <1>29, <1>30, <1>31, <1>32 DEF NameInv
<1>34. Saved
  <2> SUFFICES ASSUME troubles' = troubles, NEW r \in Realms \ skipped
               PROVE  \/ Content(disk', r) = Content(disk, r)
                      \/ Same(Content(disk', r), book'[r], doubtful'[r])
    BY <1>3 DEF Saved
  <2>1. ~o.failed
    BY <1>4, <1>29
  <2>2. Filed(disk, disk', book', doubtful', skipped)
    BY <1>28, <1>29, <2>1
  <2> QED BY <2>2 DEF Filed
<1> QED BY <1>33, <1>34

(* The cache is turned on: the engine's players leave the store. *)
LEMMA TurnedOnKeeps ==
  ASSUME NameCacheAssumption, NameInv, ~enabled, SetEnabled
  PROVE  NameInv' /\ Saved
<1> DEFINE told(x) == FoldLeft(LAMBDA b, g : Told(b, g, engine[g]), x, SetToSeq(DOMAIN engine))
<1>1. /\ inWorld /\ enabled' = ~enabled
      /\ realm' = realm /\ inWorld' = inWorld /\ engine' = engine /\ doubtful' = doubtful /\ news' = news
  BY DEF SetEnabled
<1>2. /\ realm \in Realms /\ engine \in Books /\ store \in Goods /\ enabled' = TRUE
      /\ doubtful \in [Realms -> SUBSET Names] /\ news \in 0..MaxNews /\ troubles \in 0..MaxTrouble
      /\ book \in [Realms -> Books]
  BY <1>1, Ground
<1>3. PICK l \in LoadCacheIfNeeded(store, disk) :
        /\ store' \in Enabled(l.store) /\ Comes(l)
        /\ book' = [Remembered(l) EXCEPT ![realm] =
                      FoldLeft(LAMBDA b, g : Told(b, g, engine[g]), @, SetToSeq(DOMAIN engine))]
        /\ skipped' = skipped
  BY <1>2 DEF SetEnabled
<1>4. PICK order \in Orders : store' = HandedOver(l.store, order)
  BY <1>3 DEF Enabled
<1>5. /\ Midway(l, Remembered(l), doubtful)
      /\ Remembered(l) \in [Realms -> Books] /\ Remembered(l)[realm] = book[realm]
      /\ ~l.failed => Remembered(l) = book
      /\ Content(l.disk, realm) = Content(disk, realm)
      /\ IF store.realm = realm THEN l.store = store ELSE l.store.entries = Content(disk, realm)
  BY <1>2, <1>3, LoadIs
<1>6. /\ IsOutcome(l) /\ l.store \in Goods /\ l.store.realm = realm /\ GoodDisk(l.disk)
      /\ Kept(l.store, l.disk, Remembered(l), doubtful, skipped)
      /\ l.failed => troubles < MaxTrouble
      /\ ~l.failed => Filed(disk, l.disk, Remembered(l), doubtful, skipped)
  BY <1>5 DEF Midway
<1> DEFINE c == told(book[realm])
<1>7. c \in Books /\ \A names : Single(engine, names) => Merged(c, engine, book[realm], names)
  <2>1. book[realm] \in Books
    BY <1>2
  <2> QED BY <1>2, <2>1, ToldAllIs
<1>8. /\ book' \in [Realms -> Books] /\ book'[realm] = c
      /\ \A r \in Realms \ {realm} : book'[r] = Remembered(l)[r]
  <2>1. book' = [Remembered(l) EXCEPT ![realm] = told(Remembered(l)[realm])]
    BY <1>3
  <2>2. told(Remembered(l)[realm]) = c
    BY <1>5
  <2> HIDE DEF c, told
  <2> QED BY <1>2, <1>5, <1>7, <2>1, <2>2
<1> HIDE DEF c, told
<1>9. Single(engine, doubtful[realm])
  BY <1>2 DEF NameInv
<1>10. Merged(c, engine, book[realm], doubtful[realm])
  BY <1>7, <1>9
<1>11. realm \notin skipped => Behind(l.store.entries, engine, book[realm], doubtful[realm])
  <2> SUFFICES ASSUME realm \notin skipped
               PROVE  Behind(l.store.entries, engine, book[realm], doubtful[realm])
    OBVIOUS
  <2>1. CASE store.realm = realm
    BY <1>2, <1>5, <2>1 DEF NameInv, Off
  <2>2. CASE store.realm # realm
    <3>1. Same(Content(disk, realm), book[realm], doubtful[realm])
      BY <1>2, <2>2, Ground DEF Kept
    <3> QED BY <1>5, <2>2, <3>1 DEF Same, Behind
  <2> QED BY <2>1, <2>2
<1> DEFINE w == HandedOver(l.store, order)
<1>12. /\ w \in Goods /\ w.realm = l.store.realm /\ (w.dirty <=> l.store.dirty \/ DOMAIN engine # {})
       /\ \A g \in Guids, e \in Players :
            Says(w.entries, g, e) <=> Says(l.store.entries, g, e) /\ Free(engine, g, e)
  BY <1>2, <1>4, <1>6, HandedOverIs
<1> HIDE DEF w
<1>13. store' = w
  BY <1>4 DEF w
<1>14. Clear(w, engine, doubtful[realm])
  <2>1. \A g \in DOMAIN w.entries : g \in Guids /\ w.entries[g] \in Players
    BY <1>12, GoodParts
  <2>2. \A g \in DOMAIN w.entries : Free(engine, g, w.entries[g])
    BY <1>12, <2>1 DEF Says
  <2> QED BY <2>2 DEF Free, Clear
<1>15. realm \notin skipped => Same(View(w, engine), c, doubtful[realm])
  <2> SUFFICES ASSUME realm \notin skipped, NEW g \in Guids, NEW e \in Sure(doubtful[realm])
               PROVE  Says(View(w, engine), g, e) <=> Says(c, g, e)
    BY DEF Same
  <2>1. e \in Players
    BY SureIsKnown
  <2>2. Says(View(w, engine), g, e) <=> Says(engine, g, e) \/ (g \notin DOMAIN engine /\ Says(w.entries, g, e))
    BY ViewSays
  <2>3. Says(w.entries, g, e) <=> Says(l.store.entries, g, e) /\ Free(engine, g, e)
    BY <1>12, <2>1
  <2>4. Says(c, g, e) <=> Says(engine, g, e) \/ (Says(book[realm], g, e) /\ Free(engine, g, e))
    BY <1>10 DEF Merged
  <2>5. /\ Says(book[realm], g, e) => Says(engine, g, e) \/ Says(l.store.entries, g, e)
        /\ Says(l.store.entries, g, e) => Says(book[realm], g, e)
    BY <1>11 DEF Behind
  <2>6. Free(engine, g, e) => g \notin DOMAIN engine
    BY DEF Free
  <2> QED BY <2>2, <2>3, <2>4, <2>5, <2>6
<1>16. disk' = l.disk /\ troubles' = IF l.failed THEN troubles + 1 ELSE troubles
  BY <1>3 DEF Comes
<1>17. Kept(store', disk', book', doubtful', skipped')
  <2> SUFFICES ASSUME NEW r \in Realms \ skipped, r # realm \/ ~w.dirty
               PROVE  Same(Content(l.disk, r), book'[r], doubtful[r])
    BY <1>1, <1>3, <1>6, <1>12, <1>13, <1>16 DEF Kept
  <2>1. CASE r # realm
    <3>1. Same(Content(l.disk, r), Remembered(l)[r], doubtful[r])
      BY <1>6, <2>1 DEF Kept
    <3> QED BY <1>8, <2>1, <3>1
  <2>2. CASE r = realm /\ ~w.dirty
    <3>1. ~l.store.dirty /\ DOMAIN engine = {}
      BY <1>12, <2>2
    <3>2. Same(Content(l.disk, r), book[r], doubtful[r])
      BY <1>5, <1>6, <2>2, <3>1 DEF Kept
    <3>3. Same(book[r], c, doubtful[r])
      BY <1>10, <2>2, <3>1 DEF Same, Merged, Says, Free
    <3> QED BY <1>8, <2>2, <3>2, <3>3, SameIsTransitive
  <2> QED BY <2>1, <2>2
<1>18. NameTypes'
  <2>1. troubles' \in 0..MaxTrouble
    BY <1>2, <1>6, <1>16 DEF NameCacheAssumption
  <2>2. GoodDisk(disk') /\ store' \in Goods /\ book' \in [Realms -> Books]
    BY <1>6, <1>8, <1>12, <1>13, <1>16
  <2> QED BY <1>1, <1>2, <1>3, <2>1, <2>2, Ground DEF NameTypes
<1>19. NoRealmNoPlayers'
  BY <1>1, <1>2, <1>6, <1>12, <1>13 DEF NoRealmNoPlayers, NameCacheAssumption
<1>20. Parted' /\ InView'
  BY <1>1, <1>2, <1>3, <1>6, <1>8, <1>12, <1>13, <1>14, <1>15 DEF Parted, InView
<1>21. NameInv'
  BY <1>1, <1>2, <1>9, <1>17, <1>18, <1>19, <1>20 DEF NameInv
<1>22. Saved
  <2> SUFFICES ASSUME troubles' = troubles, NEW r \in Realms \ skipped
               PROVE  \/ Content(disk', r) = Content(disk, r)
                      \/ Same(Content(disk', r), book'[r], doubtful'[r])
    BY <1>3 DEF Saved
  <2>1. ~l.failed
    BY <1>2, <1>16
  <2>2. CASE r = realm
    BY <1>5, <1>16, <2>2
  <2>3. CASE r # realm
    <3>1. Content(disk', r) = Content(disk, r) \/ Same(Content(disk', r), Remembered(l)[r], doubtful[r])
      BY <1>6, <1>16, <2>1 DEF Filed
    <3> QED BY <1>1, <1>8, <2>3, <3>1
  <2> QED BY <2>2, <2>3
<1> QED BY <1>21, <1>22

LEMMA SeenNow ==
  ASSUME NameInv, enabled, store.realm \in Realms
  PROVE  Seen(store, engine, book, doubtful, skipped)
<1>1. CASE store.realm = realm
  BY <1>1 DEF NameInv, Parted, InView, Seen
<1>2. CASE store.realm # realm
  <2>1. engine = Nobody
    BY <1>2 DEF NameInv, Parted
  <2> QED BY <2>1, SaidByNobody DEF NameInv, InView, Seen
<1> QED BY <1>1, <1>2

LEMMA FlushedIs ==
  ASSUME NameCacheAssumption, NameInv, NEW o \in Flushed
  PROVE  Fine(o, store, disk, book, doubtful, skipped)
<1>1. CASE enabled /\ store.dirty
  <2>1. store.realm \in Realms
    BY <1>1, Ground, GoodParts DEF NameInv, NoRealmNoPlayers
  <2>2. o \in SaveCache(store, disk)
    BY <1>1 DEF Flushed
  <2>3. Seen(store, engine, book, doubtful, skipped)
    BY <1>1, <2>1, SeenNow
  <2> QED BY <1>1, <2>1, <2>2, <2>3, Ground, SaveCacheIs
<1>2. CASE ~(enabled /\ store.dirty)
  <2>1. o = Outcome(store, disk, FALSE)
    BY <1>2 DEF Flushed
  <2>2. o.store = store /\ o.disk = disk /\ o.failed = FALSE /\ o.lost = FALSE
    BY <2>1 DEF Outcome
  <2>3. IsOutcome(o)
    BY <2>1, OutcomeIs
  <2> QED BY <2>2, <2>3, Ground DEF Fine, Filed
<1> QED BY <1>1, <1>2

(* What a save leaves of the invariant, whatever becomes of the session. *)
LEMMA AfterFlush ==
  ASSUME NameCacheAssumption, NameInv, realm \in Realms, NEW o \in Flushed,
         store' = o.store, Comes(o), UNCHANGED <<realm, engine, book, doubtful, news>>,
         inWorld' \in BOOLEAN, enabled' \in BOOLEAN, skipped' \in SUBSET Realms, skipped \subseteq skipped'
  PROVE  /\ NameTypes' /\ NoRealmNoPlayers' /\ Single(engine', doubtful'[realm'])
         /\ Kept(store', disk', book', doubtful', skipped') /\ Saved
         /\ store'.entries = store.entries /\ store'.realm = store.realm /\ (store'.dirty => store.dirty)
<1>1. Fine(o, store, disk, book, doubtful, skipped)
  BY FlushedIs
<1>2. /\ o.store \in Goods /\ o.store.entries = store.entries /\ o.store.realm = store.realm
      /\ o.store.dirty => store.dirty
      /\ GoodDisk(o.disk)
      /\ Kept(o.store, o.disk, book, doubtful, skipped)
      /\ IsOutcome(o) /\ (o.failed => o.store.dirty /\ troubles < MaxTrouble)
      /\ ~o.failed => Filed(disk, o.disk, book, doubtful, skipped)
  BY <1>1 DEF Fine
<1>3. disk' = o.disk /\ troubles' = IF o.failed THEN troubles + 1 ELSE troubles
  BY DEF Comes
<1>4. news \in 0..MaxNews /\ troubles \in 0..MaxTrouble
  BY Ground
<1>5. troubles' \in 0..MaxTrouble
  BY <1>2, <1>3, <1>4 DEF NameCacheAssumption
<1>6. NameTypes'
  BY <1>2, <1>3, <1>5, Ground DEF NameTypes
<1>7. NoRealmNoPlayers'
  BY <1>2 DEF NameInv, NoRealmNoPlayers, NameCacheAssumption
<1>8. Single(engine', doubtful'[realm'])
  BY DEF NameInv
<1>9. Kept(store', disk', book', doubtful', skipped')
  BY <1>2, <1>3 DEF Kept
<1>10. Saved
  <2> SUFFICES ASSUME troubles' = troubles, NEW r \in Realms \ skipped'
               PROVE  \/ Content(disk', r) = Content(disk, r)
                      \/ Same(Content(disk', r), book[r], doubtful'[r])
    BY DEF Saved
  <2>1. ~o.failed
    BY <1>3, <1>4
  <2> QED BY <1>2, <1>3, <2>1 DEF Filed
<1> QED BY <1>2, <1>6, <1>7, <1>8, <1>9, <1>10

(* The cache is turned off: the store keeps the players it has, but for those of another realm that could
   not be saved. *)
LEMMA TurnedOffKeeps ==
  ASSUME NameCacheAssumption, NameInv, enabled, SetEnabled
  PROVE  NameInv' /\ Saved
<1>1. /\ inWorld /\ enabled' = ~enabled
      /\ realm' = realm /\ inWorld' = inWorld /\ engine' = engine /\ doubtful' = doubtful /\ news' = news
  BY DEF SetEnabled
<1>2. realm \in Realms /\ enabled' = FALSE /\ inWorld \in BOOLEAN
  BY <1>1, Ground
<1>3. PICK o \in Flushed :
        /\ store' = o.store /\ Comes(o)
        /\ skipped' = skipped \cup IF store'.dirty /\ store.realm # realm THEN {store.realm} ELSE {}
        /\ book' = book
  BY <1>2 DEF SetEnabled
<1>4. o.store.dirty => store.realm \in Realms
  <2>1. o.store.dirty => store.dirty
    BY FlushedIs DEF Fine
  <2> QED BY <2>1, Ground, GoodParts DEF NameInv, NoRealmNoPlayers
<1>5. skipped' \in SUBSET Realms /\ skipped \subseteq skipped'
  BY <1>3, <1>4, Ground
<1>6. /\ NameTypes' /\ NoRealmNoPlayers' /\ Single(engine', doubtful'[realm'])
      /\ Kept(store', disk', book', doubtful', skipped') /\ Saved
      /\ store'.entries = store.entries /\ store'.realm = store.realm
  BY <1>1, <1>2, <1>3, <1>5, AfterFlush
<1>7. Off'
  <2> SUFFICES ASSUME store.realm \in Realms \ skipped'
               PROVE  IF store.realm = realm THEN Behind(store.entries, engine, book[realm], doubtful[realm])
                      ELSE ~store'.dirty
    BY <1>1, <1>3, <1>6 DEF Off
  <2>1. CASE store.realm # realm
    BY <1>3, <2>1
  <2>2. CASE store.realm = realm
    <3>1. Same(View(store, engine), book[realm], doubtful[realm]) /\ Clear(store, engine, doubtful[realm])
      BY <1>2, <1>5, <2>2 DEF NameInv, Parted, InView
    <3>2. Behind(store.entries, engine, book[realm], doubtful[realm])
      <4> SUFFICES ASSUME NEW g \in Guids, NEW e \in Sure(doubtful[realm])
                   PROVE  /\ Says(book[realm], g, e) => Says(engine, g, e) \/ Says(store.entries, g, e)
                          /\ Says(store.entries, g, e) => Says(book[realm], g, e)
        BY DEF Behind
      <4>1. Says(View(store, engine), g, e)
              <=> Says(engine, g, e) \/ (g \notin DOMAIN engine /\ Says(store.entries, g, e))
        BY ViewSays
      <4>2. Says(View(store, engine), g, e) <=> Says(book[realm], g, e)
        BY <3>1 DEF Same
      <4>3. Says(store.entries, g, e) => g \notin DOMAIN engine
        BY <3>1 DEF Says, Clear
      <4> QED BY <4>1, <4>2, <4>3
    <3> QED BY <2>2, <3>2
  <2> QED BY <2>1, <2>2
<1> QED BY <1>2, <1>6, <1>7 DEF NameInv

LEMMA ReloadKeeps ==
  ASSUME NameCacheAssumption, NameInv, NEW leaves \in BOOLEAN, Reload(leaves)
  PROVE  NameInv' /\ Saved
<1>1. /\ inWorld /\ inWorld' = ~leaves
      /\ realm' = realm /\ enabled' = enabled /\ engine' = engine /\ book' = book /\ doubtful' = doubtful
      /\ skipped' = skipped /\ news' = news
  BY DEF Reload, past
<1>2. PICK o \in Flushed : store' = o.store /\ Comes(o)
  BY DEF Reload
<1>3. /\ realm \in Realms /\ inWorld' \in BOOLEAN /\ enabled \in BOOLEAN /\ skipped \in SUBSET Realms
  BY <1>1, Ground
<1>4. /\ NameTypes' /\ NoRealmNoPlayers' /\ Single(engine', doubtful'[realm'])
      /\ Kept(store', disk', book', doubtful', skipped') /\ Saved
      /\ store'.entries = store.entries /\ store'.realm = store.realm /\ (store'.dirty => store.dirty)
  BY <1>1, <1>2, <1>3, AfterFlush
<1>5. enabled => Parted' /\ InView'
  <2> SUFFICES ASSUME enabled PROVE Parted' /\ InView'
    OBVIOUS
  <2>1. View(store', engine) = View(store, engine)
        /\ \A names : Clear(store, engine, names) => Clear(store', engine, names)
    BY <1>4, SameView
  <2> QED BY <1>1, <1>4, <2>1 DEF NameInv, Parted, InView
<1>6. ~enabled => Off'
  BY <1>1, <1>4 DEF NameInv, Off
<1> QED BY <1>1, <1>3, <1>4, <1>5, <1>6 DEF NameInv

LEMMA NobodyInView ==
  ASSUME NEW s
  PROVE  \A g, e : Says(View(s, Nobody), g, e) <=> Says(s.entries, g, e)
  BY ViewSays, SaidByNobody

LEMMA TakenBackIs ==
  ASSUME NameCacheAssumption, NameInv, enabled, store.realm \in Realms, NEW s \in TakenBack(store)
  PROVE  /\ s \in Goods /\ SameSession(store, s)
         /\ store.realm \notin skipped => Same(s.entries, book[store.realm], doubtful[store.realm])
<1>1. PICK order \in Orders : s = Taken(store, order)
  BY DEF TakenBack
<1>2. /\ s \in Goods /\ SameSession(store, s)
      /\ \A names : Single(engine, names) /\ Clear(store, engine, names)
                      => Same(s.entries, View(store, engine), names)
  BY <1>1, Ground, TakenIs
<1>3. Seen(store, engine, book, doubtful, skipped)
  BY SeenNow
<1>4. ASSUME store.realm \notin skipped
      PROVE  Same(s.entries, book[store.realm], doubtful[store.realm])
  <2>1. Same(s.entries, View(store, engine), doubtful[store.realm])
    BY <1>2, <1>3, <1>4 DEF Seen
  <2>2. Same(View(store, engine), book[store.realm], doubtful[store.realm])
    BY <1>3, <1>4 DEF Seen
  <2> QED BY <2>1, <2>2, SameIsTransitive
<1> QED BY <1>2, <1>4

(* The engine clears its records: the store takes them back first. *)
LEMMA EnterWorldKeeps ==
  ASSUME NameCacheAssumption, NameInv, NEW r \in Realms, NEW on \in BOOLEAN, EnterWorld(r, on)
  PROVE  NameInv' /\ Saved
<1>1. /\ inWorld' = TRUE /\ realm' = r /\ enabled' = on /\ engine' = Nobody
      /\ store' \in IF store.realm # NoRealm /\ on THEN TakenBack(store) ELSE {store}
      /\ skipped' = skipped \cup IF (on /\ enabled) \/ store.realm = NoRealm THEN {} ELSE {store.realm}
      /\ disk' = disk /\ book' = book /\ doubtful' = doubtful /\ troubles' = troubles /\ news' = news
  BY DEF EnterWorld
<1>2. /\ store \in Goods /\ store.realm \in Realms \cup {NoRealm} /\ NoRealm \notin Realms /\ engine \in Books
  BY Ground, GoodParts DEF NameCacheAssumption
<1>3. skipped' \in SUBSET Realms /\ skipped \subseteq skipped'
  BY <1>1, <1>2, Ground
<1>4. store' \in Goods /\ SameSession(store, store')
  <2>1. CASE store.realm # NoRealm /\ on
    <3>1. PICK order \in Orders : store' = Taken(store, order)
      BY <1>1, <2>1 DEF TakenBack
    <3> QED BY <1>2, <3>1, TakenIs
  <2>2. CASE ~(store.realm # NoRealm /\ on)
    BY <1>1, <1>2, <2>2 DEF SameSession
  <2> QED BY <2>1, <2>2
<1>5. NameTypes'
  BY <1>1, <1>3, <1>4, Ground, EmptyBook DEF NameTypes
<1>6. NoRealmNoPlayers'
  BY <1>1, <1>2, <1>4 DEF NameInv, NoRealmNoPlayers, SameSession
<1>7. Single(engine', doubtful'[realm'])
  BY <1>1, SaidByNobody
<1>8. Kept(store', disk', book', doubtful', skipped')
  BY <1>1, <1>3, <1>4, Ground DEF Kept, SameSession
<1>9. Parted'
  BY <1>1, SaidByNobody DEF Parted
<1>10. on => InView'
  <2> SUFFICES ASSUME on, store.realm \in Realms \ skipped'
               PROVE  Same(View(store', Nobody), book[store.realm], doubtful[store.realm])
    BY <1>1, <1>4 DEF InView, SameSession
  <2>1. enabled /\ store.realm # NoRealm
    BY <1>1, <1>2
  <2>2. store' \in TakenBack(store)
    BY <1>1, <2>1
  <2>3. Same(store'.entries, book[store.realm], doubtful[store.realm])
    BY <1>3, <2>1, <2>2, TakenBackIs
  <2> QED BY <2>3, NobodyInView DEF Same
<1>11. ~on => Off'
  BY <1>1, <1>2, <1>4 DEF Off, SameSession
<1>12. NameInv'
  BY <1>1, <1>5, <1>6, <1>7, <1>8, <1>9, <1>10, <1>11 DEF NameInv
<1> QED BY <1>1, <1>12 DEF Saved

-----------------------------------------------------------------------------
(* A process that ends leaves the files. *)
LEMMA FreshIs ==
  /\ Fresh \in Goods /\ Fresh.realm = NoRealm /\ Fresh.entries = Nobody /\ ~Fresh.dirty
<1>1. Fresh \in Stores /\ Fresh.realm = NoRealm /\ Fresh.entries = Nobody /\ Fresh.byName = Nobody /\ ~Fresh.dirty
  BY EmptyBook DEF Fresh, Stores
<1>2. Lockstep(Fresh)
  BY <1>1, EmptyBook DEF Lockstep
<1> QED BY <1>1, <1>2 DEF Goods

(* A new process reads what the last one left in the files. *)
LEMMA EndsKeeps ==
  ASSUME NameCacheAssumption, NameInv, NEW o, NEW known \in BOOLEAN, Ends(o, known), GoodDisk(o.disk),
         \A r \in Realms \ {store.realm} : Content(o.disk, r) = Content(disk, r),
         known /\ store.realm \in Realms \ skipped
           => Same(Content(o.disk, store.realm), book[store.realm], doubtful[store.realm]),
         troubles' \in 0..MaxTrouble
  PROVE  NameInv'
<1>1. /\ realm' = NoRealm /\ inWorld' = FALSE /\ enabled' = TRUE
      /\ engine' = Nobody /\ store' = Fresh /\ disk' = o.disk
      /\ book' = IF store.realm = NoRealm \/ known THEN book
                 ELSE [book EXCEPT ![store.realm] = Content(o.disk, store.realm)]
      /\ doubtful' = doubtful /\ skipped' = skipped /\ news' = news
  BY DEF Ends
<1>2. /\ book \in [Realms -> Books] /\ store.realm \in Realms \cup {NoRealm} /\ NoRealm \notin Realms
  BY Ground, GoodParts DEF NameCacheAssumption
<1>3. \A r \in Realms : Content(o.disk, r) \in Books
  BY ContentIs
<1>4. book' \in [Realms -> Books] /\ \A r \in Realms : r # store.realm => book'[r] = book[r]
  BY <1>1, <1>2, <1>3
<1>5. NameTypes'
  BY <1>1, <1>4, Ground, EmptyBook, FreshIs DEF NameTypes
<1>6. NoRealmNoPlayers'
  BY <1>1, FreshIs DEF NoRealmNoPlayers
<1>7. Kept(store', disk', book', doubtful', skipped')
  <2> SUFFICES ASSUME NEW r \in Realms \ skipped
               PROVE  Same(Content(o.disk, r), book'[r], doubtful[r])
    BY <1>1 DEF Kept
  <2>1. CASE r # store.realm
    <3>1. Same(Content(disk, r), book[r], doubtful[r])
      BY <2>1, Ground DEF Kept
    <3> QED BY <1>4, <2>1, <3>1
  <2>2. CASE r = store.realm /\ known
    BY <1>1, <2>2
  <2>3. CASE r = store.realm /\ ~known
    <3>1. book'[r] = Content(o.disk, r)
      BY <1>1, <1>2, <2>3
    <3> QED BY <3>1 DEF Same
  <2> QED BY <2>1, <2>2, <2>3
<1>8. Parted' /\ InView'
  BY <1>1, <1>2, FreshIs DEF Parted, InView
<1> QED BY <1>1, <1>2, <1>5, <1>6, <1>7, <1>8 DEF NameInv

LEMMA ExitKeeps ==
  ASSUME NameCacheAssumption, NameInv, Exit
  PROVE  NameInv' /\ Saved
<1>1. PICK s \in IF store.realm # NoRealm /\ enabled THEN TakenBack(store) ELSE {store} :
        \E o \in IF enabled /\ s.dirty THEN Saves(s, disk, s) ELSE {Outcome(s, disk, FALSE)} :
          /\ Ends(o, ~o.store.dirty)
          /\ troubles' = IF o.failed THEN troubles + 1 ELSE troubles
  BY DEF Exit
<1>2. PICK o \in IF enabled /\ s.dirty THEN Saves(s, disk, s) ELSE {Outcome(s, disk, FALSE)} :
        /\ Ends(o, ~o.store.dirty)
        /\ troubles' = IF o.failed THEN troubles + 1 ELSE troubles
  BY <1>1
<1>3. /\ store \in Goods /\ store.realm \in Realms \cup {NoRealm} /\ engine \in Books
      /\ Kept(store, disk, book, doubtful, skipped) /\ GoodDisk(disk)
  BY Ground, GoodParts
<1>4. s \in Goods /\ SameSession(store, s)
  <2>1. CASE store.realm # NoRealm /\ enabled
    BY <1>1, <1>3, <2>1, TakenBackIs
  <2>2. CASE ~(store.realm # NoRealm /\ enabled)
    BY <1>1, <1>3, <2>2 DEF SameSession
  <2> QED BY <2>1, <2>2
<1>5. Kept(s, disk, book, doubtful, skipped)
  BY <1>3, <1>4 DEF Kept, SameSession
<1>6. Fine(o, s, disk, book, doubtful, skipped)
  <2>1. CASE enabled /\ s.dirty
    <3>1. store.dirty /\ store.realm \in Realms
      BY <1>3, <1>4, <2>1 DEF SameSession, NameInv, NoRealmNoPlayers
    <3>2. store.realm # NoRealm
      BY <3>1 DEF NameCacheAssumption
    <3>3. s.realm \notin skipped => Same(s.entries, book[s.realm], doubtful[s.realm])
      BY <1>1, <1>4, <2>1, <3>1, <3>2, TakenBackIs DEF SameSession
    <3>4. o \in Saves(s, disk, s) /\ s.realm \in Realms
      BY <1>2, <1>4, <2>1, <3>1 DEF SameSession
    <3> QED BY <1>3, <1>4, <1>5, <2>1, <3>3, <3>4, SavesAre
  <2>2. CASE ~(enabled /\ s.dirty)
    <3>1. o = Outcome(s, disk, FALSE)
      BY <1>2, <2>2
    <3>2. o.store = s /\ o.disk = disk /\ o.failed = FALSE /\ o.lost = FALSE
      BY <3>1 DEF Outcome
    <3>3. IsOutcome(o)
      BY <3>1, OutcomeIs
    <3> QED BY <1>3, <1>4, <1>5, <3>2, <3>3 DEF Fine, Filed
  <2> QED BY <2>1, <2>2
<1>7. /\ o.store.realm = store.realm /\ o.store \in Goods /\ GoodDisk(o.disk)
      /\ \A r \in Realms \ {store.realm} : Content(o.disk, r) = Content(disk, r)
      /\ Kept(o.store, o.disk, book, doubtful, skipped)
      /\ (o.failed => troubles < MaxTrouble) /\ o.failed \in BOOLEAN
      /\ ~o.failed => Filed(disk, o.disk, book, doubtful, skipped)
  BY <1>4, <1>6 DEF Fine, SameSession, IsOutcome
<1>8. troubles \in 0..MaxTrouble /\ troubles' \in 0..MaxTrouble
  BY <1>2, <1>7, Ground DEF NameCacheAssumption
<1>9. ~o.store.dirty /\ store.realm \in Realms \ skipped
        => Same(Content(o.disk, store.realm), book[store.realm], doubtful[store.realm])
  BY <1>7 DEF Kept
<1>10. NameInv'
  <2> DEFINE known == ~o.store.dirty
  <2>1. known \in BOOLEAN /\ Ends(o, known) /\ (known <=> ~o.store.dirty)
    BY <1>2
  <2> HIDE DEF known
  <2> QED BY <1>7, <1>8, <1>9, <2>1, EndsKeeps
<1>11. Saved
  <2> SUFFICES ASSUME troubles' = troubles, NEW r \in Realms \ skipped
               PROVE  \/ Content(disk', r) = Content(disk, r)
                      \/ Same(Content(disk', r), book[r], doubtful'[r])
    BY <1>2 DEF Saved, Ends
  <2>1. ~o.failed
    BY <1>2, <1>8
  <2>2. disk' = o.disk /\ doubtful' = doubtful
    BY <1>2 DEF Ends
  <2> QED BY <1>7, <2>1, <2>2 DEF Filed
<1> QED BY <1>10, <1>11

(* An end that leaves the engine's players out. *)
LEMMA SuddenEndKeeps ==
  ASSUME NameCacheAssumption, NameInv, troubles < MaxTrouble, troubles' = troubles + 1,
         NEW o, Ends(o, FALSE),
         \/ o.disk = disk
         \/ store.dirty /\ o \in Saves(store, disk, store)
  PROVE  NameInv' /\ Saved
<1>1. GoodDisk(o.disk) /\ \A r \in Realms \ {store.realm} : Content(o.disk, r) = Content(disk, r)
  <2>1. CASE o.disk = disk
    BY <2>1, Ground
  <2>2. CASE store.dirty /\ o \in Saves(store, disk, store)
    <3> DEFINE K == skipped \cup {store.realm}
    <3>1. store.realm \in Realms
      BY <2>2, Ground, GoodParts DEF NameInv, NoRealmNoPlayers
    <3>2. Kept(store, disk, book, doubtful, K)
      BY Ground DEF Kept
    <3>3. store.realm \in K
      OBVIOUS
    <3> HIDE DEF K
    <3>4. Fine(o, store, disk, book, doubtful, K)
      BY <2>2, <3>1, <3>2, <3>3, Ground, SavesAre
    <3> QED BY <3>4 DEF Fine
  <2> QED BY <2>1, <2>2
<1>2. troubles \in 0..MaxTrouble /\ troubles' \in 0..MaxTrouble /\ troubles' # troubles
  BY Ground DEF NameCacheAssumption
<1>3. NameInv'
  <2> DEFINE known == FALSE
  <2>1. known \in BOOLEAN /\ Ends(o, known) /\ ~known
    OBVIOUS
  <2> HIDE DEF known
  <2> QED BY <1>1, <1>2, <2>1, EndsKeeps
<1> QED BY <1>2, <1>3 DEF Saved

LEMMA FatalExitKeeps ==
  ASSUME NameCacheAssumption, NameInv, FatalExit
  PROVE  NameInv' /\ Saved
<1>1. PICK o \in IF enabled /\ store.dirty THEN Saves(store, disk, store) ELSE {Outcome(store, disk, FALSE)} :
        Ends(o, FALSE)
  BY DEF FatalExit
<1>2. troubles < MaxTrouble /\ troubles' = troubles + 1
  BY DEF FatalExit
<1>3. o.disk = disk \/ (store.dirty /\ o \in Saves(store, disk, store))
  BY <1>1 DEF Outcome
<1> QED BY <1>1, <1>2, <1>3, SuddenEndKeeps

LEMMA KillKeeps ==
  ASSUME NameCacheAssumption, NameInv, Kill
  PROVE  NameInv' /\ Saved
<1> DEFINE torn == [disk EXCEPT !.lines[store.realm] = Nobody, !.v5 = @ \ {store.realm}]
<1>1. PICK d \in {disk} \cup IF enabled /\ store.dirty THEN {torn} ELSE {} :
        Ends(Outcome(store, d, TRUE), FALSE)
  BY DEF Kill
<1>2. troubles < MaxTrouble /\ troubles' = troubles + 1
  BY DEF Kill
<1> DEFINE o == Outcome(store, d, TRUE)
<1>3. o.disk = d
  BY DEF Outcome
<1>4. d = disk \/ (store.dirty /\ o \in Saves(store, disk, store))
  <2>1. CASE d = torn /\ store.dirty
    BY <1>2, <2>1 DEF Saves
  <2> HIDE DEF torn
  <2> QED BY <1>1, <2>1
<1>5. Ends(o, FALSE)
  BY <1>1
<1> HIDE DEF o
<1> QED BY <1>2, <1>3, <1>4, <1>5, SuddenEndKeeps

-----------------------------------------------------------------------------
LEMMA NameInitInv ==
  ASSUME NameCacheAssumption, NameInit
  PROVE  NameInv
<1>1. /\ realm = NoRealm /\ inWorld = FALSE /\ enabled = TRUE /\ engine = Nobody /\ store = Fresh
      /\ book = [r \in Realms |-> Content(disk, r)]
      /\ doubtful = [r \in Realms |-> {}] /\ skipped = {} /\ news = 0 /\ troubles = 0
  BY DEF NameInit
<1>2. GoodDisk(disk)
  <2>1. /\ disk \in Disks /\ \A r \in Realms : disk.lines[r] = Nobody
    BY EmptyBook DEF NameInit, Disks
  <2> QED BY <2>1, EmptyBook DEF GoodDisk, Unique
<1>3. book \in [Realms -> Books]
  BY <1>1, <1>2, ContentIs
<1>4. NameTypes
  <2>1. MaxNews \in Nat /\ MaxTrouble \in Nat
    BY DEF NameCacheAssumption
  <2>2. news \in 0..MaxNews /\ troubles \in 0..MaxTrouble
    BY <1>1, <2>1
  <2>3. doubtful \in [Realms -> SUBSET Names] /\ skipped \in SUBSET Realms
    BY <1>1
  <2>4. realm \in Realms \cup {NoRealm} /\ inWorld \in BOOLEAN /\ enabled \in BOOLEAN
    BY <1>1
  <2> QED BY <1>1, <1>2, <1>3, <2>2, <2>3, <2>4, EmptyBook, FreshIs DEF NameTypes
<1>5. NoRealmNoPlayers
  BY <1>1, FreshIs DEF NoRealmNoPlayers
<1>6. Kept(store, disk, book, doubtful, skipped)
  BY <1>1 DEF Kept, Same
<1>7. Parted /\ InView
  BY <1>1, FreshIs DEF Parted, InView, NameCacheAssumption
<1> QED BY <1>1, <1>4, <1>5, <1>6, <1>7 DEF NameInv, NameCacheAssumption

LEMMA StutterInv ==
  ASSUME NameInv, UNCHANGED nameVars
  PROVE  NameInv' /\ Saved
<1>1. NameInv'
  BY DEF nameVars, session, past, NameInv, NameTypes, NoRealmNoPlayers, Parted, InView, Off
<1>2. Saved
  BY DEF nameVars, session, past, Saved
<1> QED BY <1>1, <1>2

(* Every step keeps the invariant, and files what was told. *)
LEMMA NameNextInv ==
  ASSUME NameCacheAssumption, NameInv, [NameNext]_nameVars
  PROVE  NameInv' /\ Saved
<1>1. ASSUME NEW g \in Guids, NEW name \in Names, NameQueryResponse(g, name) PROVE NameInv' /\ Saved
  BY <1>1, NameReplyKeeps, NameUnheardKeeps
<1>2. ASSUME NEW g \in Guids, NEW name \in Names, Remember(g, name) PROVE NameInv' /\ Saved
  BY <1>2, RememberKeeps
<1>3. ASSUME NEW g \in Guids, InvalidatePlayer(g) PROVE NameInv' /\ Saved
  BY <1>3, InvalidatedKeeps, InvalidateUnheardKeeps
<1>4. CASE Lookup
  BY <1>4, LookupKeeps
<1>5. CASE SetEnabled
  BY <1>5, TurnedOnKeeps, TurnedOffKeeps
<1>6. ASSUME NEW leaves \in BOOLEAN, Reload(leaves) PROVE NameInv' /\ Saved
  BY <1>6, ReloadKeeps
<1>7. ASSUME NEW r \in Realms, NEW on \in BOOLEAN, EnterWorld(r, on) PROVE NameInv' /\ Saved
  BY <1>7, EnterWorldKeeps
<1>8. CASE Exit
  BY <1>8, ExitKeeps
<1>9. CASE FatalExit
  BY <1>9, FatalExitKeeps
<1>10. CASE Kill
  BY <1>10, KillKeeps
<1>11. CASE UNCHANGED nameVars
  BY <1>11, StutterInv
<1> QED BY <1>1, <1>2, <1>3, <1>4, <1>5, <1>6, <1>7, <1>8, <1>9, <1>10, <1>11 DEF NameNext

LEMMA NameInvariance ==
  ASSUME NameCacheAssumption
  PROVE  NameSpec => []NameInv
<1>1. NameInit => NameInv
  BY NameInitInv
<1>2. NameInv /\ [NameNext]_nameVars => NameInv'
  BY NameNextInv
<1> QED BY <1>1, <1>2, PTL DEF NameSpec

-----------------------------------------------------------------------------
(* Every variable has its type. *)
THEOREM NameTypeCorrect ==
  ASSUME NameCacheAssumption
  PROVE  NameSpec => []NameTypeOK
<1>1. ASSUME NEW b \in Books PROVE Book(b)
  BY BookParts DEF Book, Players
<1>2. NameInv => NameTypeOK
  <2> SUFFICES ASSUME NameInv PROVE NameTypeOK
    OBVIOUS
  <2>1. /\ store.entries \in Books /\ store.realm \in Realms \cup {NoRealm}
        /\ disk.v5 \subseteq Realms /\ disk.v4 \subseteq Realms
        /\ \A r \in Realms : disk.lines[r] \in Books /\ book[r] \in Books
    BY Ground, GoodParts DEF GoodDisk, Disks
  <2> QED BY <1>1, <2>1, Ground DEF NameTypeOK
<1> QED BY <1>2, NameInvariance, PTL

(* No player is both in the store and with the engine while the cache is on. *)
THEOREM OneCopyEach ==
  ASSUME NameCacheAssumption
  PROVE  NameSpec => []OneCopyPerPlayer
<1>1. NameInv => OneCopyPerPlayer
  <2> SUFFICES ASSUME NameInv PROVE OneCopyPerPlayer
    OBVIOUS
  <2>1. InLockstep
    BY Ground DEF Goods, Lockstep, InLockstep
  <2>2. ASSUME enabled, inWorld, store.realm = realm
        PROVE  DOMAIN store.entries \cap DOMAIN engine = {}
    <3>1. Clear(store, engine, doubtful[realm])
      BY <2>2, Ground DEF NameInv, Parted
    <3> QED BY <3>1 DEF Clear
  <2> QED BY <2>1, <2>2 DEF OneCopyPerPlayer
<1> QED BY <1>1, NameInvariance, PTL

(* The last word on every player is what readers get and what the files hold. *)
THEOREM NobodyIsForgotten ==
  ASSUME NameCacheAssumption
  PROVE  NameSpec => []NothingIsForgotten
<1>1. NameInv => NothingIsForgotten
  <2> SUFFICES ASSUME NameInv, NEW r \in Realms \ skipped
               PROVE  /\ r # store.realm \/ ~store.dirty => Agrees(Content(disk, r), book[r], r)
                      /\ r = store.realm /\ r = realm /\ enabled => Agrees(Visible, book[r], r)
    BY DEF NothingIsForgotten
  <2>1. \A a, b : Same(a, b, doubtful[r]) => Agrees(a, b, r)
    BY DEF Same, Agrees, Sure
  <2>2. r # store.realm \/ ~store.dirty => Same(Content(disk, r), book[r], doubtful[r])
    BY Ground DEF Kept
  <2>3. Visible = View(store, engine)
    BY DEF Visible, View
  <2>4. r = store.realm /\ r = realm /\ enabled => Same(View(store, engine), book[r], doubtful[r])
    BY DEF NameInv, InView
  <2> QED BY <2>1, <2>2, <2>3, <2>4
<1> QED BY <1>1, NameInvariance, PTL

(* No save loses a player that was on disk. *)
THEOREM NobodyIsLost ==
  ASSUME NameCacheAssumption
  PROVE  NameSpec => SavesLoseNobody
<1> DEFINE A == \A r \in Realms \ skipped', g \in Guids :
                  troubles' = troubles /\ g \in DOMAIN Content(disk, r) \cap DOMAIN book[r] \cap DOMAIN book'[r]
                    => g \in DOMAIN Content(disk', r)
                       \/ {book[r][g].name, book'[r][g].name} \cap doubtful'[r] # {}
<1>1. NameInv /\ NameInv' /\ [NameNext]_nameVars => [A]_nameVars
  <2> SUFFICES ASSUME NameInv, NameInv', [NameNext]_nameVars, NEW r \in Realms \ skipped', NEW g \in Guids,
                      troubles' = troubles, g \in DOMAIN Content(disk, r), g \in DOMAIN book[r],
                      g \in DOMAIN book'[r], NameCacheAssumption,
                      book[r][g].name \notin doubtful'[r], book'[r][g].name \notin doubtful'[r]
               PROVE  g \in DOMAIN Content(disk', r)
    OBVIOUS
  <2>1. \/ Content(disk', r) = Content(disk, r)
        \/ Same(Content(disk', r), book[r], doubtful'[r])
        \/ Same(Content(disk', r), book'[r], doubtful'[r])
    BY NameNextInv DEF Saved
  <2>2. book[r] \in Books /\ book'[r] \in Books
    BY DEF NameInv, NameTypes
  <2>3. book[r][g] \in Sure(doubtful'[r]) /\ book'[r][g] \in Sure(doubtful'[r])
    BY <2>2, BookParts DEF Players, Sure
  <2>4. Says(book[r], g, book[r][g]) /\ Says(book'[r], g, book'[r][g])
    BY DEF Says
  <2>5. ASSUME NEW b, Same(Content(disk', r), b, doubtful'[r]), b[g] \in Sure(doubtful'[r]), Says(b, g, b[g])
        PROVE  g \in DOMAIN Content(disk', r)
    BY <2>5 DEF Same, Says
  <2> QED BY <2>1, <2>3, <2>4, <2>5
<1> QED BY <1>1, NameInvariance, PTL DEF NameSpec, SavesLoseNobody
=============================================================================
