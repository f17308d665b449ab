--------------------------- MODULE NewItemsProofs ---------------------------
(***************************************************************************)
(* For any characters, items, splits, failures and missed reads: an addon  *)
(* that follows BAG_NEW_ITEMS_UPDATED knows which items are new, a flag    *)
(* does not outlive its item by kMaxMissStreak scans, and what is new is   *)
(* what was acquired, whatever the order a scan goes through the bags in.  *)
(***************************************************************************)
EXTENDS NewItems, FoldLemmas, FiniteSetTheorems, TLAPS

Requests == [source : Guids, kind : Kinds \cup {"none"}, to : {"bag", "bank"}]

(* Items that were never made are nowhere, and nobody has seen them. *)
GuidsAreFresh ==
  /\ lastGuid \in Nat
  /\ items \in [Guids -> [kind : Kinds \cup {"none"}, n : Int, at : {"none", "bag", "bank"}]]
  /\ \A g \in Guids : g > lastGuid => items[g].at = "none"
  /\ wire \in Seq(Requests) /\ \A i \in 1..Len(wire) : wire[i].source <= lastGuid
  /\ DOMAIN seen \subseteq 1..lastGuid

(* An entry of the seen-set counts the scans running that did not read it. *)
StreaksAreTrue ==
  Armed => \A g \in DOMAIN seen :
    g \in DOMAIN unread /\ seen[g] = unread[g] /\ seen[g] \in 0..MaxMissStreak - 1

(* Before the first frame of another character its bags hold nothing that is
   new, and no request of it is under way. *)
NothingYet ==
  player # playerGuid => heard = {} /\ wire = <<>> /\ InBags \cap new = {}

Inv ==
  /\ GuidsAreFresh
  /\ StreaksAreTrue
  /\ NothingYet
  /\ new \subseteq DOMAIN seen
  /\ ~seeded => new = {}
  /\ player = playerGuid => heard = new

-----------------------------------------------------------------------------

LEMMA InitInv == Init => Inv
<1> SUFFICES ASSUME Init PROVE Inv
  OBVIOUS
<1>1. GuidsAreFresh
  BY NewItemsAssumption DEF Init, GuidsAreFresh, Guids, NoItem
<1>2. StreaksAreTrue /\ NothingYet
  BY DEF Init, StreaksAreTrue, NothingYet, Armed
<1> QED BY <1>1, <1>2 DEF Init, Inv

(* The parts of the invariant about the set, from one scan to the next. *)
LEMMA ScanKeeps ==
  ASSUME Inv, Armed, NEW missed \in SUBSET Owned, Scan(missed),
         UNCHANGED <<world, seeded, playerGuid>>
  PROVE  Inv'
<1> DEFINE owned == Owned \ missed
<1> USE DEF world
<1>1. PICK flagged : /\ seen' = SeenReconcile(owned)
                     /\ new' = flagged \cap DOMAIN seen'
                     /\ heard' = IF flagged # new \/ new' # flagged THEN new' ELSE heard
                     /\ Record(owned)
  BY DEF Scan
<1>2. DOMAIN seen' = {g \in DOMAIN seen : seen[g] + 1 < MaxMissStreak} \cup owned
      /\ \A g \in DOMAIN seen' : seen'[g] = IF g \in owned THEN 0 ELSE seen[g] + 1
  BY <1>1 DEF SeenReconcile
<1>3. owned \subseteq 1..lastGuid
  BY DEF Inv, GuidsAreFresh, Owned, Guids
<1>4. GuidsAreFresh'
  BY <1>2, <1>3 DEF Inv, GuidsAreFresh, Guids
<1>5. StreaksAreTrue'
  <2> SUFFICES ASSUME NEW g \in DOMAIN seen'
               PROVE  g \in DOMAIN unread' /\ seen'[g] = unread'[g] /\ seen'[g] \in 0..MaxMissStreak - 1
    BY DEF StreaksAreTrue
  <2>1. DOMAIN unread' = DOMAIN unread \cup owned
        /\ \A h \in DOMAIN unread' :
             unread'[h] = IF h \in owned THEN 0
                          ELSE IF unread[h] < MaxMissStreak THEN unread[h] + 1 ELSE MaxMissStreak
    BY <1>1 DEF Record
  <2>2. CASE g \in owned
    BY <1>2, <2>1, <2>2, NewItemsAssumption
  <2>3. CASE g \notin owned
    <3>1. g \in DOMAIN seen /\ seen[g] + 1 < MaxMissStreak
      BY <1>2, <2>3
    <3>2. g \in DOMAIN unread /\ seen[g] = unread[g] /\ seen[g] \in 0..MaxMissStreak - 1
      BY <3>1 DEF Inv, StreaksAreTrue
    <3> QED BY <1>2, <2>1, <2>3, <3>1, <3>2, NewItemsAssumption
  <2> QED BY <2>2, <2>3
<1>6. heard' = new'
  BY <1>1 DEF Inv, Armed
<1> QED BY <1>1, <1>4, <1>5, <1>6 DEF Inv, NothingYet, Armed

(* A step of the player or the server leaves the set as it is. *)
LEMMA OthersKeep ==
  ASSUME Inv, UNCHANGED <<player, seen, new, seeded, playerGuid, heard, unread>>,
         GuidsAreFresh', player = playerGuid
  PROVE  Inv'
BY DEF Inv, StreaksAreTrue, NothingYet, Armed

LEMMA TailKeepsRequests ==
  ASSUME GuidsAreFresh, wire # <<>>, wire' = Tail(wire)
  PROVE  /\ Request \in Requests /\ Request.source <= lastGuid
         /\ wire' \in Seq(Requests) /\ \A i \in 1..Len(wire') : wire'[i].source <= lastGuid
<1>1. wire \in Seq(Requests) /\ Len(wire) \in Nat \ {0}
  BY DEF GuidsAreFresh
<1>2. Request = wire[1]
  BY <1>1 DEF Request
<1>3. wire' \in Seq(Requests) /\ Len(wire') = Len(wire) - 1
      /\ \A i \in 1..Len(wire') : wire'[i] = wire[i + 1]
  BY <1>1
<1> QED BY <1>1, <1>2, <1>3 DEF GuidsAreFresh

LEMMA ShrunkItems ==
  ASSUME GuidsAreFresh, NEW g \in Guids
  PROVE  Shrunk(g) \in [Guids -> [kind : Kinds \cup {"none"}, n : Int, at : {"none", "bag", "bank"}]]
         /\ \A h \in Guids : Shrunk(g)[h].at = items[h].at
<1> DEFINE R == [kind : Kinds \cup {"none"}, n : Int, at : {"none", "bag", "bank"}]
<1>1. items \in [Guids -> R]
  BY DEF GuidsAreFresh
<1>2. items[g] \in R
  BY <1>1
<1> DEFINE smaller == [items[g] EXCEPT !.n = @ - 1]
<1>3. smaller \in R /\ smaller.at = items[g].at
  BY <1>2
<1>4. Shrunk(g) = [items EXCEPT ![g] = smaller]
  BY DEF Shrunk
<1> HIDE DEF R, smaller
<1>5. Shrunk(g) \in [Guids -> R]
  BY <1>1, <1>3, <1>4
<1>6. \A h \in Guids : Shrunk(g)[h].at = items[h].at
  BY <1>1, <1>3, <1>4
<1> QED BY <1>5, <1>6 DEF R

LEMMA NextInv ==
  ASSUME Inv, [Next]_vars
  PROVE  Inv'
<1> USE DEF world, set, past
<1>0. GuidsAreFresh /\ lastGuid \in Nat
  BY DEF Inv, GuidsAreFresh
<1>1. CASE TickRearm
  BY <1>1 DEF TickRearm, Inv, GuidsAreFresh, StreaksAreTrue, NothingYet, Armed
<1>2. CASE TickBaseline
  <2>1. Owned \subseteq 1..lastGuid
    BY <1>0 DEF GuidsAreFresh, Owned, Guids
  <2>2. GuidsAreFresh'
    BY <1>2, <2>1 DEF TickBaseline, Inv, GuidsAreFresh
  <2>3. StreaksAreTrue'
    BY <1>2, NewItemsAssumption DEF TickBaseline, StreaksAreTrue
  <2> QED BY <1>2, <2>2, <2>3 DEF TickBaseline, Inv, NothingYet
<1>3. CASE OnBagChanged
  <2>1. CASE Armed
    BY <1>3, <2>1, ScanKeeps DEF OnBagChanged, Armed
  <2>2. CASE ~Armed
    BY <1>3, <2>2 DEF OnBagChanged, Inv, GuidsAreFresh, StreaksAreTrue, NothingYet, Armed, InBags
  <2> QED BY <2>1, <2>2
<1>4. CASE Addon
  <2>1. new' \subseteq new /\ heard' = new' /\ (player # playerGuid => new' = {})
    <3>1. CASE Script_ClearAll
      BY <3>1 DEF Script_ClearAll
    <3>2. CASE \E g \in Guids : Script_RemoveNewItem(g)
      <4>1. PICK g \in Guids : Script_RemoveNewItem(g)
        BY <3>2
      <4>2. player = playerGuid
        BY <4>1 DEF Script_RemoveNewItem, Inv, NothingYet
      <4> QED BY <4>1, <4>2 DEF Script_RemoveNewItem
    <3> QED BY <1>4, <3>1, <3>2 DEF Addon
  <2>2. UNCHANGED <<world, seen, seeded, playerGuid, unread>>
    BY <1>4 DEF Addon, Script_ClearAll, Script_RemoveNewItem
  <2> QED BY <2>1, <2>2 DEF Inv, GuidsAreFresh, StreaksAreTrue, NothingYet, Armed, InBags
<1>5. CASE \E g \in Guids, to \in {"bag", "bank"} : SendSplit(g, to)
  <2>1. PICK g \in Guids, to \in {"bag", "bank"} : SendSplit(g, to)
    BY <1>5
  <2>2. g <= lastGuid
    BY <1>0, <2>1 DEF SendSplit, Owned, GuidsAreFresh, Guids
  <2>3. GuidsAreFresh'
    <3>1. items[g].kind \in Kinds \cup {"none"}
      BY <1>0 DEF GuidsAreFresh
    <3>2. wire' \in Seq(Requests) /\ \A i \in 1..Len(wire') : wire'[i].source <= lastGuid
      BY <1>0, <2>1, <2>2, <3>1 DEF SendSplit, GuidsAreFresh, Requests
    <3> QED BY <1>0, <2>1, <3>2 DEF SendSplit, GuidsAreFresh
  <2> QED BY <2>1, <2>3, OthersKeep DEF SendSplit, Act
<1>6. CASE AnswerNewStack
  <2>1. wire # <<>> /\ player = playerGuid
    BY <1>6 DEF AnswerNewStack, CanSplit, Inv, NothingYet
  <2>2. Request \in Requests /\ wire' \in Seq(Requests)
        /\ \A i \in 1..Len(wire') : wire'[i].source <= lastGuid
    BY <1>0, <1>6, <2>1, TailKeepsRequests DEF AnswerNewStack
  <2> DEFINE new1 == Item(Request.kind, 1, Request.to)
  <2>3. items' = [Shrunk(Request.source) EXCEPT ![lastGuid + 1] = new1]
        /\ lastGuid' = lastGuid + 1
    BY <1>6 DEF AnswerNewStack
  <2>4. new1 \in [kind : Kinds \cup {"none"}, n : Int, at : {"none", "bag", "bank"}]
    BY <2>2 DEF Requests, Item
  <2>5. Request.source \in Guids
    BY <2>2 DEF Requests
  <2> HIDE DEF new1
  <2>6. items' \in [Guids -> [kind : Kinds \cup {"none"}, n : Int, at : {"none", "bag", "bank"}]]
        /\ \A g \in Guids : g # lastGuid + 1 => items'[g].at = items[g].at
    BY <1>0, <2>3, <2>4, <2>5, ShrunkItems
  <2>7. GuidsAreFresh'
    <3>1. \A g \in Guids : g > lastGuid' => items'[g].at = "none"
      BY <1>0, <2>3, <2>6 DEF GuidsAreFresh, Guids
    <3>2. DOMAIN seen' \subseteq 1..lastGuid' /\ lastGuid' \in Nat
      BY <1>0, <1>6, <2>3 DEF AnswerNewStack, GuidsAreFresh
    <3>3. \A i \in 1..Len(wire') : wire'[i].source <= lastGuid'
      <4> SUFFICES ASSUME NEW i \in 1..Len(wire') PROVE wire'[i].source <= lastGuid'
        OBVIOUS
      <4>1. wire'[i] \in Requests
        BY <2>2
      <4>2. wire'[i].source \in Nat /\ wire'[i].source <= lastGuid
        BY <2>2, <4>1, NewItemsAssumption DEF Requests, Guids
      <4> QED BY <1>0, <2>3, <4>2
    <3> QED BY <2>2, <2>6, <3>1, <3>2, <3>3 DEF GuidsAreFresh
  <2> QED BY <1>6, <2>1, <2>7, OthersKeep DEF AnswerNewStack
<1>7. CASE AnswerOntoStack
  <2>1. wire # <<>> /\ player = playerGuid
    BY <1>7 DEF AnswerOntoStack, CanSplit, Inv, NothingYet
  <2>2. Request \in Requests /\ wire' \in Seq(Requests)
        /\ \A i \in 1..Len(wire') : wire'[i].source <= lastGuid
    BY <1>0, <1>7, <2>1, TailKeepsRequests DEF AnswerOntoStack
  <2>3. PICK g \in Owned \ {Request.source} : items' = [Shrunk(Request.source) EXCEPT ![g].n = @ + 1]
    BY <1>7 DEF AnswerOntoStack
  <2>4. Request.source \in Guids /\ g \in Guids
    BY <2>2 DEF Requests, Owned
  <2>5. items' \in [Guids -> [kind : Kinds \cup {"none"}, n : Int, at : {"none", "bag", "bank"}]]
        /\ \A h \in Guids : items'[h].at = items[h].at
    <3> DEFINE less == Shrunk(Request.source)
    <3>1. /\ less \in [Guids -> [kind : Kinds \cup {"none"}, n : Int, at : {"none", "bag", "bank"}]]
          /\ \A h \in Guids : less[h].at = items[h].at
      BY <1>0, <2>4, ShrunkItems
    <3>2. items' = [less EXCEPT ![g].n = @ + 1]
      BY <2>3
    <3> HIDE DEF less
    <3> QED BY <2>4, <3>1, <3>2
  <2>6. GuidsAreFresh'
    BY <1>0, <1>7, <2>2, <2>5 DEF AnswerOntoStack, GuidsAreFresh
  <2> QED BY <1>7, <2>1, <2>6, OthersKeep DEF AnswerOntoStack
<1>8. CASE OnPacket
  <2>1. wire' \in Seq(Requests) /\ \A i \in 1..Len(wire') : wire'[i].source <= lastGuid
    BY <1>0, <1>8, TailKeepsRequests DEF OnPacket, GuidsAreFresh
  <2>2. GuidsAreFresh'
    BY <1>0, <1>8, <2>1 DEF OnPacket, GuidsAreFresh
  <2>3. player = playerGuid
    BY <1>8 DEF OnPacket, Act, Inv, NothingYet
  <2> QED BY <1>8, <2>2, <2>3, OthersKeep DEF OnPacket
<1>9. CASE \E k \in Kinds : Acquire(k)
  <2>1. PICK k \in Kinds : Acquire(k)
    BY <1>9
  <2>2. GuidsAreFresh'
    <3> DEFINE made == Item(k, 1, "bag")
    <3>1. made \in [kind : Kinds \cup {"none"}, n : Int, at : {"none", "bag", "bank"}]
      BY DEF Item
    <3>2. items' = [items EXCEPT ![lastGuid + 1] = made] /\ lastGuid' = lastGuid + 1
      BY <2>1 DEF Acquire
    <3> HIDE DEF made
    <3>3. items' \in [Guids -> [kind : Kinds \cup {"none"}, n : Int, at : {"none", "bag", "bank"}]]
      BY <1>0, <3>1, <3>2 DEF GuidsAreFresh
    <3>4. \A g \in Guids : g > lastGuid' => items'[g].at = "none"
      BY <1>0, <3>2, NewItemsAssumption DEF GuidsAreFresh, Guids
    <3>5. \A i \in 1..Len(wire) : wire[i].source <= lastGuid'
      <4> SUFFICES ASSUME NEW i \in 1..Len(wire) PROVE wire[i].source <= lastGuid'
        OBVIOUS
      <4>1. wire[i] \in Requests /\ wire[i].source <= lastGuid
        BY <1>0 DEF GuidsAreFresh
      <4> QED BY <1>0, <3>2, <4>1, NewItemsAssumption DEF Requests, Guids
    <3> QED BY <1>0, <2>1, <3>2, <3>3, <3>4, <3>5 DEF Acquire, GuidsAreFresh
  <2> QED BY <2>1, <2>2, OthersKeep DEF Acquire, Act
<1>10. CASE \E g \in Guids : AcquireOnto(g)
  <2>1. PICK g \in Guids : AcquireOnto(g)
    BY <1>10
  <2>2. GuidsAreFresh'
    BY <1>0, <2>1 DEF AcquireOnto, GuidsAreFresh
  <2> QED BY <2>1, <2>2, OthersKeep DEF AcquireOnto, Act
<1>11. CASE \E g \in Guids : Consume(g)
  <2>1. PICK g \in Guids : Consume(g)
    BY <1>11
  <2>2. GuidsAreFresh'
    BY <1>0, <2>1, ShrunkItems DEF Consume, GuidsAreFresh, NoItem
  <2> QED BY <2>1, <2>2, OthersKeep DEF Consume, Act
<1>12. CASE \E g \in Guids : Move(g)
  <2>1. PICK g \in Guids : Move(g)
    BY <1>12
  <2>2. items[g].at # "none"
    BY <2>1 DEF Move, Owned
  <2>3. GuidsAreFresh'
    BY <1>0, <2>1, <2>2 DEF Move, GuidsAreFresh
  <2> QED BY <2>1, <2>3, OthersKeep DEF Move, Act
<1>13. CASE \E p \in Players : Login(p)
  <2>1. PICK p \in Players : Login(p)
    BY <1>13
  <2>2. CASE p = player
    <3>1. GuidsAreFresh'
      BY <1>0, <2>1, <2>2 DEF Login, GuidsAreFresh
    <3> QED BY <2>1, <2>2, <3>1, OthersKeep DEF Login, Act
  <2>3. CASE p # player
    <3>1. PICK k \in Kinds, at \in {"bag", "bank"} :
            items' = [g \in Guids |-> IF g = lastGuid' THEN Item(k, 1, at) ELSE NoItem]
      BY <2>1, <2>3 DEF Login
    <3>2. lastGuid' = lastGuid + 1 /\ wire' = <<>> /\ heard' = {} /\ player' # playerGuid'
          /\ UNCHANGED <<seen, new, seeded, playerGuid>>
      BY <2>1, <2>3 DEF Login, Act
    <3>3. GuidsAreFresh'
      BY <1>0, <3>1, <3>2 DEF GuidsAreFresh, Item, NoItem
    <3>4. \A g \in InBags' : g = lastGuid + 1
      BY <3>1, <3>2 DEF InBags, NoItem, Item
    <3>5. lastGuid + 1 \notin new
      BY <1>0 DEF Inv, GuidsAreFresh
    <3> QED BY <3>2, <3>3, <3>4, <3>5 DEF Inv, StreaksAreTrue, NothingYet, Armed
  <2> QED BY <2>2, <2>3
<1>14. CASE UNCHANGED vars
  BY <1>14 DEF vars, Inv, GuidsAreFresh, StreaksAreTrue, NothingYet, Armed, InBags
<1> QED
  <2>1. Player => \/ \E g \in Guids, to \in {"bag", "bank"} : SendSplit(g, to)
                  \/ \E k \in Kinds : Acquire(k)
                  \/ \E g \in Guids : AcquireOnto(g)
                  \/ \E g \in Guids : Consume(g)
                  \/ \E g \in Guids : Move(g)
                  \/ \E p \in Players : Login(p)
    BY Zenon DEF Player
  <2> QED BY <1>1, <1>2, <1>3, <1>4, <1>5, <1>6, <1>7, <1>8, <1>9, <1>10, <1>11, <1>12, <1>13, <1>14, <2>1
             DEF Next, Tick, Server

THEOREM Invariance == Spec => []Inv
  BY InitInv, NextInv, PTL DEF Spec

(* An addon that looks again at each BAG_NEW_ITEMS_UPDATED is never behind. *)
THEOREM PictureStaysCurrent == Spec => []PictureIsCurrent
<1>1. Inv => PictureIsCurrent
  BY DEF Inv, PictureIsCurrent, Armed
<1> QED BY <1>1, Invariance, PTL

(* A flag outlives its item by fewer than kMaxMissStreak scans. *)
THEOREM FlagsDoFade == Spec => []FlagsFade
<1>1. Inv => FlagsFade
  BY NewItemsAssumption DEF Inv, StreaksAreTrue, FlagsFade
<1> QED BY <1>1, Invariance, PTL

-----------------------------------------------------------------------------
(* What a scan makes of the splits. *)

SplitRecords == [source : Guids, kind : Kinds \cup {"none"}, count : Int]

Has(s, e) == \E j \in 1..Len(s) : s[j] = e

(* Removal keeps every entry but the one removed. *)
LEMMA SwapRemoveKeeps ==
  ASSUME NEW T, NEW s \in Seq(T), NEW i \in 1..Len(s)
  PROVE  /\ SwapRemove(s, i) \in Seq(T) /\ Len(SwapRemove(s, i)) = Len(s) - 1
         /\ \A j \in 1..Len(s) : j # i => Has(SwapRemove(s, i), s[j])
         /\ \A e : Has(SwapRemove(s, i), e) => Has(s, e)
<1> DEFINE n == Len(s) - 1
           r == SwapRemove(s, i)
<1>1. n \in Nat /\ Len(s) = n + 1 /\ \A j \in 1..Len(s) : s[j] \in T
  OBVIOUS
<1>2. r = [j \in 1..n |-> IF j = i THEN s[n + 1] ELSE s[j]]
  BY <1>1 DEF SwapRemove
<1>3. r \in [1..n -> T]
  <2> HIDE DEF n, r
  <2> QED BY <1>1, <1>2
<1>4. r \in Seq(T) /\ Len(r) = n
  <2> HIDE DEF n, r
  <2> QED BY <1>1, <1>3
<1>5. ASSUME NEW j \in 1..Len(s), j # i PROVE Has(r, s[j])
  <2> HIDE DEF n, r
  <2>1. CASE j = n + 1
    <3>1. i \in 1..n /\ r[i] = s[j]
      BY <1>1, <1>2, <1>5, <2>1
    <3> QED BY <1>4, <3>1 DEF Has
  <2>2. CASE j # n + 1
    <3>1. j \in 1..n /\ r[j] = s[j]
      BY <1>1, <1>2, <1>5, <2>2
    <3> QED BY <1>4, <3>1 DEF Has
  <2> QED BY <2>1, <2>2
<1>6. ASSUME NEW e, Has(r, e) PROVE Has(s, e)
  <2> HIDE DEF n, r
  <2>1. PICK j \in 1..n : r[j] = e
    BY <1>4, <1>6 DEF Has
  <2>2. \E m \in 1..Len(s) : s[m] = e
    BY <1>1, <1>2, <2>1
  <2> QED BY <2>2 DEF Has
<1> QED BY <1>4, <1>5, <1>6

ClaimStates == [splits : Seq(SplitRecords), flagged : SUBSET Guids]

(* What one unseen item makes of it: it claims an entry of its kind, or is flagged. *)
Claimed(st, g, q) ==
  /\ q \in ClaimStates
  /\ \A e : Has(q.splits, e) => Has(st.splits, e)
  /\ \A e : Has(st.splits, e) /\ e.kind # items[g].kind => Has(q.splits, e)
  /\ (\E e : Has(st.splits, e) /\ e.kind = items[g].kind) => q.flagged = st.flagged
  /\ (\A e : Has(st.splits, e) => e.kind # items[g].kind) => q.flagged = st.flagged \cup {g}

LEMMA ClaimIs ==
  ASSUME NEW st \in ClaimStates, NEW g \in Guids
  PROVE  Claimed(st, g, ClaimSplitHalf(st, g))
<1> DEFINE q == ClaimSplitHalf(st, g)
           hits == {i \in DOMAIN st.splits : st.splits[i].kind = items[g].kind}
           first == CHOOSE i \in hits : \A j \in hits : i <= j
<1>1. st.splits \in Seq(SplitRecords) /\ st.flagged \in SUBSET Guids /\ DOMAIN st.splits = 1..Len(st.splits)
  BY DEF ClaimStates
<1>2. CASE hits = {}
  <2>1. q = [st EXCEPT !.flagged = @ \cup {g}]
    BY <1>2 DEF ClaimSplitHalf
  <2>2. q \in ClaimStates /\ q.splits = st.splits /\ q.flagged = st.flagged \cup {g}
    <3> HIDE DEF q
    <3> QED BY <1>1, <2>1 DEF ClaimStates
  <2>3. \A e : Has(st.splits, e) => e.kind # items[g].kind
    BY <1>1, <1>2 DEF Has
  <2>4. Claimed(st, g, q)
    <3> HIDE DEF q, hits
    <3> QED BY <2>2, <2>3 DEF Claimed
  <2> QED BY <2>4
<1>3. CASE hits # {}
  <2>1. first \in hits
    <3>1. Len(st.splits) \in Nat /\ hits \in SUBSET (1..Len(st.splits))
      BY <1>1
    <3>2. \E i \in hits : \A j \in hits : i <= j
      <4> HIDE DEF hits
      <4> QED BY <1>3, <3>1, LeastIsIn
    <3> HIDE DEF hits
    <3> QED BY <3>2
  <2>2. first \in 1..Len(st.splits) /\ st.splits[first].kind = items[g].kind
    BY <1>1, <2>1
  <2>3. q = [st EXCEPT !.splits = SwapRemove(st.splits, first)]
    BY <1>3 DEF ClaimSplitHalf
  <2> HIDE DEF first
  <2>4. /\ SwapRemove(st.splits, first) \in Seq(SplitRecords)
        /\ \A j \in 1..Len(st.splits) : j # first => Has(SwapRemove(st.splits, first), st.splits[j])
        /\ \A e : Has(SwapRemove(st.splits, first), e) => Has(st.splits, e)
    BY <1>1, <2>2, SwapRemoveKeeps
  <2>5. q \in ClaimStates /\ q.splits = SwapRemove(st.splits, first) /\ q.flagged = st.flagged
    <3> HIDE DEF q, SwapRemove
    <3> QED BY <1>1, <2>3, <2>4 DEF ClaimStates
  <2>6. \E e : Has(st.splits, e) /\ e.kind = items[g].kind
    BY <2>2 DEF Has
  <2>7. ASSUME NEW e, Has(st.splits, e), e.kind # items[g].kind PROVE Has(q.splits, e)
    <3>1. PICK j \in 1..Len(st.splits) : st.splits[j] = e
      BY <2>7 DEF Has
    <3>2. j # first
      BY <2>2, <2>7, <3>1
    <3> HIDE DEF q
    <3> QED BY <2>4, <2>5, <3>1, <3>2
  <2>8. Claimed(st, g, q)
    <3> HIDE DEF q
    <3> QED BY <2>4, <2>5, <2>6, <2>7 DEF Claimed
  <2> QED BY <2>8
<1> QED BY <1>2, <1>3

(* The loops are walks, with a step for each unseen item and for each split. *)
ClaimRun(run, n, q, list) ==
  /\ run[0] = q /\ \A i \in 0..n : run[i] \in ClaimStates
  /\ \A i \in 1..n : run[i] = ClaimSplitHalf(run[i - 1], list[i])
  /\ run[n] = FoldLeft(ClaimSplitHalf, q, list)

LEMMA ClaimRuns ==
  ASSUME NEW list, NEW n \in Nat, list \in [1..n -> Guids], NEW q \in ClaimStates
  PROVE  \E run : ClaimRun(run, n, q, list)
<1> DEFINE N == n
           D == ClaimStates
<1>1. N \in Nat /\ DOMAIN list = 1..N /\ q \in D /\ \A i \in 1..N : list[i] \in Guids
  OBVIOUS
<1> DEFINE T(p, i) == ClaimSplitHalf(p, list[i])
           step == [x \in D \X (1..N) |-> T(x[1], x[2])]
<1> HIDE DEF N, D
<1>2. ASSUME NEW p \in D, NEW i \in 1..N PROVE T(p, i) \in D
  BY <1>1, <1>2, ClaimIs DEF Claimed, D
<1>3. step \in [D \X (1..N) -> D]
  <2> HIDE DEF T
  <2> QED BY <1>2
<1>4. \A p \in D, i \in 1..N : step[p, i] = T(p, i)
  <2> HIDE DEF T
  <2> QED OBVIOUS
<1>5. PICK f : Walks(f, N, D, q, step)
  <2> HIDE DEF step
  <2> QED BY <1>1, <1>3, WalkExists
<1>6. f = [w \in SUBSET DOMAIN list |-> IF w = {} THEN q ELSE T(f[w \ {Max(w)}], Max(w))]
  <2> HIDE DEF step, T, Max
  <2>1. \A w \in SUBSET (1..N) : w # {} => Max(w) \in 1..N
    BY <1>1, MaxIsIn
  <2>2. \A w \in SUBSET (1..N) : w # {} => step[f[w \ {Max(w)}], Max(w)] = T(f[w \ {Max(w)}], Max(w))
    <3>1. \A w \in SUBSET (1..N) : w \ {Max(w)} \in SUBSET (1..N)
      OBVIOUS
    <3>2. \A w \in SUBSET (1..N) : f[w] \in D
      BY <1>5 DEF Walks
    <3> QED BY <1>4, <3>1, <3>2, <2>1
  <2>3. /\ f \in [SUBSET (1..N) -> D]
        /\ \A w \in SUBSET (1..N) : f[w] = IF w = {} THEN q ELSE T(f[w \ {Max(w)}], Max(w))
    BY <1>5, <2>2 DEF Walks
  <2> QED BY <1>1, <2>3
<1>7. PICK h : /\ h = [w \in SUBSET DOMAIN list |-> IF w = {} THEN q ELSE T(h[w \ {Max(w)}], Max(w))]
               /\ FoldLeft(ClaimSplitHalf, q, list) = h[DOMAIN list]
  BY <1>6 DEF FoldLeft, MapThenFoldSet
<1>8. h[{}] = q /\ \A i \in 1..N : h[1..i] = T(h[1..(i - 1)], i)
  <2> HIDE DEF T, Max
  <2>1. \A i \in 1..N : /\ Max(1..i) = i /\ (1..i) \ {Max(1..i)} = 1..(i - 1)
                        /\ 1..i \in SUBSET DOMAIN list /\ 1..i # {}
    <3> SUFFICES ASSUME NEW i \in 1..N
                 PROVE  /\ Max(1..i) = i /\ (1..i) \ {Max(1..i)} = 1..(i - 1)
                        /\ 1..i \in SUBSET DOMAIN list /\ 1..i # {}
      OBVIOUS
    <3>1. i \in Nat \ {0} /\ 1..i \in SUBSET (1..N) /\ i \in 1..i
      BY <1>1
    <3> QED BY <1>1, <3>1, MaxOfUpTo
  <2> QED BY <1>7, <2>1
<1> DEFINE run == [i \in 0..N |-> h[1..i]]
<1>9. run[0] = q /\ (\A i \in 1..N : run[i] = T(run[i - 1], i)) /\ run[N] = h[DOMAIN list]
  <2> HIDE DEF T
  <2>1. 1..0 = {} /\ 0 \in 0..N /\ N \in 0..N /\ \A i \in 1..N : i \in 0..N /\ i - 1 \in 0..N
    BY <1>1
  <2> QED BY <1>1, <1>8, <2>1
<1> HIDE DEF run
<1>10. \A i \in 0..N : run[i] \in D
  <2> DEFINE S == {i \in 0..N : run[i] \in D}
  <2> HIDE DEF T
  <2>1. 0 \in S /\ \A i \in 1..N : i - 1 \in S => i \in S
    BY <1>1, <1>2, <1>9
  <2>2. \A i \in 0..N : i \in S
    <3> HIDE DEF S
    <3> QED BY <1>1, <2>1, UpTo
  <2> QED BY <2>2
<1>11. (\A i \in 1..N : run[i] = ClaimSplitHalf(run[i - 1], list[i])) /\ run[N] = FoldLeft(ClaimSplitHalf, q, list)
  BY <1>7, <1>9
<1>12. ClaimRun(run, n, q, list)
  BY <1>9, <1>10, <1>11 DEF ClaimRun, N, D
<1> QED BY <1>12

RetireStates == [i : Nat \ {0}, s : Seq(SplitRecords)]

LEMMA RetireIs ==
  ASSUME NEW st \in RetireStates, NEW split
  PROVE  /\ RetireNext(st, split) \in RetireStates
         /\ st.i \in 1..Len(st.s) =>
              LET r == RetireNext(st, split) IN
              /\ r.i - Len(r.s) = st.i - Len(st.s) + 1 /\ Len(r.s) <= Len(st.s)
              /\ \A e : Has(st.s, e) /\ ~Spent(e) => Has(r.s, e)
<1> DEFINE r == RetireNext(st, split)
           gone == SwapRemove(st.s, st.i)
<1>1. st.i \in Nat \ {0} /\ st.s \in Seq(SplitRecords)
  BY DEF RetireStates
<1>2. r = IF Spent(st.s[st.i]) THEN [st EXCEPT !.s = gone] ELSE [st EXCEPT !.i = @ + 1]
  BY DEF RetireNext
<1>3. gone \in Seq(SplitRecords)
  <2>1. gone = [j \in 1..Len(st.s) - 1 |-> IF j = st.i THEN st.s[Len(st.s)] ELSE st.s[j]]
    BY DEF SwapRemove
  <2>2. gone \in [1..Len(st.s) - 1 -> SplitRecords]
    BY <1>1, <2>1
  <2>3. CASE Len(st.s) = 0
    <3>1. gone \in [1..0 -> SplitRecords]
      BY <2>2, <2>3
    <3> QED BY <3>1
  <2>4. CASE Len(st.s) # 0
    <3>1. Len(st.s) - 1 \in Nat
      BY <1>1, <2>4
    <3> HIDE DEF gone
    <3> QED BY <2>2, <3>1
  <2> QED BY <2>3, <2>4
<1> HIDE DEF gone
<1>4. CASE Spent(st.s[st.i])
  <2>1. r \in RetireStates /\ r.i = st.i /\ r.s = gone
    <3>1. r = [st EXCEPT !.s = gone]
      BY <1>2, <1>4
    <3> HIDE DEF r
    <3> QED BY <1>1, <1>3, <3>1 DEF RetireStates
  <2>2. ASSUME st.i \in 1..Len(st.s)
        PROVE  /\ Len(gone) = Len(st.s) - 1
               /\ \A e : Has(st.s, e) /\ ~Spent(e) => Has(gone, e)
    <3>1. Len(gone) = Len(st.s) - 1 /\ \A j \in 1..Len(st.s) : j # st.i => Has(gone, st.s[j])
      BY <1>1, <2>2, SwapRemoveKeeps DEF gone
    <3>2. ASSUME NEW e, Has(st.s, e), ~Spent(e) PROVE Has(gone, e)
      <4>1. PICK j \in 1..Len(st.s) : st.s[j] = e
        BY <3>2 DEF Has
      <4> QED BY <1>4, <3>1, <3>2, <4>1
    <3> QED BY <3>1, <3>2
  <2>3. Len(st.s) \in Nat
    BY <1>1
  <2> HIDE DEF r
  <2> QED BY <1>1, <2>1, <2>2, <2>3 DEF r
<1>5. CASE ~Spent(st.s[st.i])
  <2>1. r \in RetireStates /\ r.i = st.i + 1 /\ r.s = st.s
    <3>1. r = [st EXCEPT !.i = st.i + 1]
      BY <1>2, <1>5
    <3> HIDE DEF r
    <3> QED BY <1>1, <3>1 DEF RetireStates
  <2>2. Len(st.s) \in Nat
    BY <1>1
  <2> HIDE DEF r
  <2> QED BY <1>1, <2>1, <2>2 DEF r
<1> QED BY <1>4, <1>5

RetireRun(run, n, q, list) ==
  /\ run[0] = q /\ \A i \in 0..n : run[i] \in RetireStates
  /\ \A i \in 1..n : run[i] = RetireNext(run[i - 1], list[i])
  /\ run[n] = FoldLeft(RetireNext, q, list)

LEMMA RetireRuns ==
  ASSUME NEW list, NEW n \in Nat, list \in [1..n -> SplitRecords], NEW q \in RetireStates
  PROVE  \E run : RetireRun(run, n, q, list)
<1> DEFINE N == n
           D == RetireStates
<1>1. N \in Nat /\ DOMAIN list = 1..N /\ q \in D
  OBVIOUS
<1> DEFINE T(p, i) == RetireNext(p, list[i])
           step == [x \in D \X (1..N) |-> T(x[1], x[2])]
<1> HIDE DEF N, D
<1>2. ASSUME NEW p \in D, NEW i \in 1..N PROVE T(p, i) \in D
  BY <1>1, <1>2, RetireIs DEF D
<1>3. step \in [D \X (1..N) -> D]
  <2> HIDE DEF T
  <2> QED BY <1>2
<1>4. \A p \in D, i \in 1..N : step[p, i] = T(p, i)
  <2> HIDE DEF T
  <2> QED OBVIOUS
<1>5. PICK f : Walks(f, N, D, q, step)
  <2> HIDE DEF step
  <2> QED BY <1>1, <1>3, WalkExists
<1>6. f = [w \in SUBSET DOMAIN list |-> IF w = {} THEN q ELSE T(f[w \ {Max(w)}], Max(w))]
  <2> HIDE DEF step, T, Max
  <2>1. \A w \in SUBSET (1..N) : w # {} => Max(w) \in 1..N
    BY <1>1, MaxIsIn
  <2>2. \A w \in SUBSET (1..N) : w # {} => step[f[w \ {Max(w)}], Max(w)] = T(f[w \ {Max(w)}], Max(w))
    <3>1. \A w \in SUBSET (1..N) : w \ {Max(w)} \in SUBSET (1..N)
      OBVIOUS
    <3>2. \A w \in SUBSET (1..N) : f[w] \in D
      BY <1>5 DEF Walks
    <3> QED BY <1>4, <3>1, <3>2, <2>1
  <2>3. /\ f \in [SUBSET (1..N) -> D]
        /\ \A w \in SUBSET (1..N) : f[w] = IF w = {} THEN q ELSE T(f[w \ {Max(w)}], Max(w))
    BY <1>5, <2>2 DEF Walks
  <2> QED BY <1>1, <2>3
<1>7. PICK h : /\ h = [w \in SUBSET DOMAIN list |-> IF w = {} THEN q ELSE T(h[w \ {Max(w)}], Max(w))]
               /\ FoldLeft(RetireNext, q, list) = h[DOMAIN list]
  BY <1>6 DEF FoldLeft, MapThenFoldSet
<1>8. h[{}] = q /\ \A i \in 1..N : h[1..i] = T(h[1..(i - 1)], i)
  <2> HIDE DEF T, Max
  <2>1. \A i \in 1..N : /\ Max(1..i) = i /\ (1..i) \ {Max(1..i)} = 1..(i - 1)
                        /\ 1..i \in SUBSET DOMAIN list /\ 1..i # {}
    <3> SUFFICES ASSUME NEW i \in 1..N
                 PROVE  /\ Max(1..i) = i /\ (1..i) \ {Max(1..i)} = 1..(i - 1)
                        /\ 1..i \in SUBSET DOMAIN list /\ 1..i # {}
      OBVIOUS
    <3>1. i \in Nat \ {0} /\ 1..i \in SUBSET (1..N) /\ i \in 1..i
      BY <1>1
    <3> QED BY <1>1, <3>1, MaxOfUpTo
  <2> QED BY <1>7, <2>1
<1> DEFINE run == [i \in 0..N |-> h[1..i]]
<1>9. run[0] = q /\ (\A i \in 1..N : run[i] = T(run[i - 1], i)) /\ run[N] = h[DOMAIN list]
  <2> HIDE DEF T
  <2>1. 1..0 = {} /\ 0 \in 0..N /\ N \in 0..N /\ \A i \in 1..N : i \in 0..N /\ i - 1 \in 0..N
    BY <1>1
  <2> QED BY <1>1, <1>8, <2>1
<1> HIDE DEF run
<1>10. \A i \in 0..N : run[i] \in D
  <2> DEFINE S == {i \in 0..N : run[i] \in D}
  <2> HIDE DEF T
  <2>1. 0 \in S /\ \A i \in 1..N : i - 1 \in S => i \in S
    BY <1>1, <1>2, <1>9
  <2>2. \A i \in 0..N : i \in S
    <3> HIDE DEF S
    <3> QED BY <1>1, <2>1, UpTo
  <2> QED BY <2>2
<1>11. (\A i \in 1..N : run[i] = RetireNext(run[i - 1], list[i])) /\ run[N] = FoldLeft(RetireNext, q, list)
  BY <1>7, <1>9
<1>12. RetireRun(run, n, q, list)
  BY <1>9, <1>10, <1>11 DEF RetireRun, N, D
<1> QED BY <1>12

(* An order goes through all of a set, and comes to each but once. *)
LEMMA OrderIs ==
  ASSUME NEW S, IsFiniteSet(S), NEW order \in Orders(S)
  PROVE  /\ Cardinality(S) \in Nat /\ order \in [1..Cardinality(S) -> S]
         /\ \A i, j \in 1..Cardinality(S) : order[i] = order[j] => i = j
         /\ \A x \in S : \E i \in 1..Cardinality(S) : order[i] = x
<1> DEFINE n == Cardinality(S)
<1>1. n \in Nat
  BY FS_CardinalityType
<1>2. order \in [1..n -> S] /\ \A i, j \in 1..n : order[i] = order[j] => i = j
  BY DEF Orders
<1>3. IsFiniteSet(1..n) /\ Cardinality(1..n) = n
  <2>1. IsFiniteSet(1..n) /\ Cardinality(1..n) = IF 1 > n THEN 0 ELSE n - 1 + 1
    BY <1>1, FS_Interval
  <2> QED BY <1>1, <2>1
<1>4. order \in Injection(1..n, S)
  BY <1>2 DEF Injection, IsInjective
<1>5. order \in Surjection(1..n, S)
  <2> HIDE DEF n
  <2> QED BY <1>3, <1>4, FS_Injection DEF n
<1>6. \A x \in S : \E i \in 1..n : order[i] = x
  BY <1>5 DEF Surjection
<1> QED BY <1>1, <1>2, <1>6

(* A scan flags what finds no split of its kind, not the only one to claim a kind, and leaves
   the splits of other kinds alone. *)
LEMMA ClaimedIs ==
  ASSUME splits \in Seq(SplitRecords), NEW unseen \in SUBSET Guids, IsFiniteSet(unseen),
         NEW order \in Orders(unseen)
  PROVE  LET claimed == FoldLeft(ClaimSplitHalf, [splits |-> splits, flagged |-> {}], order) IN
         /\ claimed.splits \in Seq(SplitRecords) /\ claimed.flagged \subseteq unseen
         /\ \A e : Has(splits, e) /\ (\A g \in unseen : items[g].kind # e.kind) => Has(claimed.splits, e)
         /\ \A g \in unseen : (\A e : Has(splits, e) => e.kind # items[g].kind) => g \in claimed.flagged
         /\ \A g \in unseen : /\ \E e : Has(splits, e) /\ e.kind = items[g].kind
                              /\ \A h \in unseen : items[h].kind = items[g].kind => h = g
                              => g \notin claimed.flagged
<1> DEFINE n == Cardinality(unseen)
           q == [splits |-> splits, flagged |-> {}]
<1>1. /\ n \in Nat /\ order \in [1..n -> unseen]
      /\ \A i, j \in 1..n : order[i] = order[j] => i = j
      /\ \A x \in unseen : \E i \in 1..n : order[i] = x
  BY OrderIs
<1>2. q \in ClaimStates /\ q.splits = splits /\ q.flagged = {}
  BY DEF ClaimStates
<1> HIDE DEF n, q
<1>0. PICK run : ClaimRun(run, n, q, order)
  <2>1. order \in [1..n -> Guids]
    BY <1>1
  <2> QED BY <1>1, <1>2, <2>1, ClaimRuns
<1>3. /\ run[0] = q /\ \A i \in 0..n : run[i] \in ClaimStates
      /\ \A i \in 1..n : run[i] = ClaimSplitHalf(run[i - 1], order[i])
      /\ run[n] = FoldLeft(ClaimSplitHalf, q, order)
  BY <1>0 DEF ClaimRun
<1> DEFINE Bare(g) == \A e : Has(splits, e) => e.kind # items[g].kind
           Sole(g) == /\ \E e : Has(splits, e) /\ e.kind = items[g].kind
                      /\ \A h \in unseen : items[h].kind = items[g].kind => h = g
           Kept(k) == \A e : Has(splits, e) /\ (\A i \in 1..k : items[order[i]].kind # e.kind)
                               => Has(run[k].splits, e)
           Old(k) == \A e : Has(run[k].splits, e) => Has(splits, e)
           Flags(k) == /\ \A g \in run[k].flagged : \E i \in 1..k : order[i] = g
                       /\ \A i \in 1..k : Bare(order[i]) => order[i] \in run[k].flagged
                       /\ \A i \in 1..k : Sole(order[i]) => order[i] \notin run[k].flagged
           S == {k \in 0..n : Kept(k) /\ Old(k) /\ Flags(k)}
<1>4. 0 \in S
  BY <1>1, <1>2, <1>3
<1>5. ASSUME NEW k \in 1..n, k - 1 \in S PROVE k \in S
  <2> DEFINE st == run[k - 1]
             g == order[k]
  <2>1. Kept(k - 1) /\ Old(k - 1) /\ Flags(k - 1)
    BY <1>5
  <2>2. Claimed(st, g, run[k])
    <3>1. k - 1 \in 0..n /\ g \in Guids
      BY <1>1
    <3>2. run[k] = ClaimSplitHalf(st, g) /\ st \in ClaimStates
      BY <1>3, <3>1
    <3> QED BY <3>1, <3>2, ClaimIs
  <2>3. k \in 0..n /\ g \in unseen /\ \A i \in 1..k : i = k \/ i \in 1..(k - 1)
    BY <1>1
  <2>4. Old(k)
    <3> HIDE DEF st, g
    <3>1. \A e : Has(run[k].splits, e) => Has(st.splits, e)
      BY <2>2 DEF Claimed
    <3> QED BY <2>1, <3>1 DEF st
  <2>5. Kept(k)
    <3> SUFFICES ASSUME NEW e, Has(splits, e), \A i \in 1..k : items[order[i]].kind # e.kind
                 PROVE  Has(run[k].splits, e)
      OBVIOUS
    <3>1. Has(st.splits, e) /\ items[g].kind # e.kind
      <4>1. \A i \in 1..(k - 1) : i \in 1..k
        BY <1>1
      <4>2. k \in 1..k
        BY <1>1
      <4> QED BY <2>1, <4>1, <4>2
    <3> HIDE DEF st, g
    <3> QED BY <2>2, <3>1 DEF Claimed
  <2>6. g \notin st.flagged
    <3> SUFFICES ASSUME g \in st.flagged PROVE FALSE
      OBVIOUS
    <3>1. PICK i \in 1..(k - 1) : order[i] = g
      BY <2>1
    <3>2. i \in 1..n /\ i # k
      BY <1>1
    <3> QED BY <1>1, <3>1, <3>2
  <2>7. Bare(g) => run[k].flagged = st.flagged \cup {g}
    <3> SUFFICES ASSUME Bare(g) PROVE run[k].flagged = st.flagged \cup {g}
      OBVIOUS
    <3>1. \A e : Has(st.splits, e) => e.kind # items[g].kind
      BY <2>1
    <3> HIDE DEF st, g
    <3> QED BY <2>2, <3>1 DEF Claimed
  <2>8. Sole(g) => run[k].flagged = st.flagged
    <3> SUFFICES ASSUME Sole(g) PROVE run[k].flagged = st.flagged
      OBVIOUS
    <3>1. PICK e : Has(splits, e) /\ e.kind = items[g].kind
      OBVIOUS
    <3>2. ASSUME NEW i \in 1..(k - 1), items[order[i]].kind = e.kind PROVE FALSE
      <4>1. i \in 1..n /\ i # k /\ order[i] \in unseen
        BY <1>1
      <4>2. order[i] = g
        BY <3>1, <3>2, <4>1
      <4> QED BY <1>1, <4>1, <4>2
    <3>3. Has(st.splits, e)
      BY <2>1, <3>1, <3>2
    <3> HIDE DEF st, g
    <3> QED BY <2>2, <3>1, <3>3 DEF Claimed
  <2>9. run[k].flagged = st.flagged \/ run[k].flagged = st.flagged \cup {g}
    <3> HIDE DEF st, g
    <3>1. (\E e : Has(st.splits, e) /\ e.kind = items[g].kind) \/ (\A e : Has(st.splits, e) => e.kind # items[g].kind)
      OBVIOUS
    <3> QED BY <2>2, <3>1 DEF Claimed
  <2>10. Flags(k)
    <3> HIDE DEF Bare, Sole
    <3>1. \A x \in st.flagged : \E i \in 1..(k - 1) : order[i] = x
      BY <2>1
    <3>2. \A i \in 1..(k - 1) : /\ i \in 1..k /\ order[i] # g
                                /\ Bare(order[i]) => order[i] \in st.flagged
                                /\ Sole(order[i]) => order[i] \notin st.flagged
      BY <1>1, <2>1
    <3>3. k \in 1..k /\ order[k] = g
      BY <1>1
    <3> HIDE DEF st, g
    <3>4. \A x \in run[k].flagged : \E i \in 1..k : order[i] = x
      BY <2>9, <3>1, <3>2, <3>3
    <3>5. \A i \in 1..k : Bare(order[i]) => order[i] \in run[k].flagged
      BY <2>3, <2>7, <2>9, <3>2, <3>3
    <3>6. \A i \in 1..k : Sole(order[i]) => order[i] \notin run[k].flagged
      BY <2>3, <2>6, <2>8, <2>9, <3>2, <3>3
    <3> QED BY <3>4, <3>5, <3>6
  <2> QED BY <2>3, <2>4, <2>5, <2>10
<1>6. Kept(n) /\ Old(n) /\ Flags(n)
  <2>1. \A k \in 0..n : k \in S
    <3> HIDE DEF S
    <3> QED BY <1>1, <1>4, <1>5, UpTo
  <2> QED BY <1>1, <2>1
<1> DEFINE claimed == FoldLeft(ClaimSplitHalf, [splits |-> splits, flagged |-> {}], order)
<1>7. claimed = run[n]
  BY <1>3 DEF q
<1> HIDE DEF claimed
<1>8. claimed.splits \in Seq(SplitRecords) /\ claimed.flagged \subseteq unseen
  <2>1. n \in 0..n
    BY <1>1
  <2> QED BY <1>1, <1>3, <1>6, <1>7, <2>1 DEF ClaimStates
<1>9. \A e : Has(splits, e) /\ (\A g \in unseen : items[g].kind # e.kind) => Has(claimed.splits, e)
  BY <1>1, <1>6, <1>7
<1>10. \A g \in unseen : Bare(g) => g \in claimed.flagged
  <2> HIDE DEF Bare, Sole, Kept, Old
  <2> QED BY <1>1, <1>6, <1>7
<1>11. \A g \in unseen : Sole(g) => g \notin claimed.flagged
  <2> HIDE DEF Bare, Sole, Kept, Old
  <2> QED BY <1>1, <1>6, <1>7
<1> QED BY <1>8, <1>9, <1>10, <1>11 DEF claimed

(* Splits with a source that has not shrunk stay. *)
LEMMA RetiredIs ==
  ASSUME NEW s \in Seq(SplitRecords)
  PROVE  /\ RetireSplits(s) \in Seq(SplitRecords)
         /\ \A e : Has(s, e) /\ ~Spent(e) => Has(RetireSplits(s), e)
<1> DEFINE n == Len(s)
           q == [i |-> 1, s |-> s]
<1>1. n \in Nat /\ s \in [1..n -> SplitRecords]
  OBVIOUS
<1>2. q \in RetireStates /\ q.i = 1 /\ q.s = s
  BY DEF RetireStates
<1> HIDE DEF q
<1>0. PICK run : RetireRun(run, n, q, s)
  <2> HIDE DEF n
  <2> QED BY <1>1, <1>2, RetireRuns
<1>3. /\ run[0] = q /\ \A i \in 0..n : run[i] \in RetireStates
      /\ \A i \in 1..n : run[i] = RetireNext(run[i - 1], s[i])
      /\ run[n] = FoldLeft(RetireNext, q, s)
  BY <1>0 DEF RetireRun
<1> DEFINE Good(k) == /\ run[k].i - Len(run[k].s) = k + 1 - n /\ Len(run[k].s) <= n
                      /\ \A e : Has(s, e) /\ ~Spent(e) => Has(run[k].s, e)
           S == {k \in 0..n : Good(k)}
<1>4. 0 \in S
  BY <1>1, <1>2, <1>3
<1>5. ASSUME NEW k \in 1..n, k - 1 \in S PROVE k \in S
  <2> DEFINE st == run[k - 1]
  <2>1. /\ st.i - Len(st.s) = k - n /\ Len(st.s) <= n
        /\ \A e : Has(s, e) /\ ~Spent(e) => Has(st.s, e)
    BY <1>1, <1>5
  <2>2. k - 1 \in 0..n /\ k \in 0..n
    BY <1>1
  <2>3. st \in RetireStates /\ run[k] = RetireNext(st, s[k])
    BY <1>3, <2>2
  <2>4. st.i \in Nat \ {0} /\ st.s \in Seq(SplitRecords) /\ Len(st.s) \in Nat
    BY <2>3 DEF RetireStates
  <2>5. st.i \in 1..Len(st.s)
    BY <1>1, <2>1, <2>4
  <2>6. run[k] \in RetireStates /\ run[k].i \in Nat /\ Len(run[k].s) \in Nat
    BY <1>3, <2>2 DEF RetireStates
  <2> HIDE DEF st, n
  <2>7. /\ run[k].i - Len(run[k].s) = st.i - Len(st.s) + 1 /\ Len(run[k].s) <= Len(st.s)
        /\ \A e : Has(st.s, e) /\ ~Spent(e) => Has(run[k].s, e)
    BY <2>3, <2>5, RetireIs
  <2>8. Good(k)
    BY <1>1, <2>1, <2>4, <2>6, <2>7
  <2> QED BY <2>2, <2>8
<1>6. Good(n)
  <2>1. \A k \in 0..n : k \in S
    <3> HIDE DEF S, n
    <3> QED BY <1>1, <1>4, <1>5, UpTo
  <2> QED BY <1>1, <2>1
<1>7. RetireSplits(s) = run[n].s
  BY <1>3 DEF RetireSplits, q
<1>8. run[n].s \in Seq(SplitRecords)
  <2>1. n \in 0..n
    BY <1>1
  <2> QED BY <1>3, <2>1 DEF RetireStates
<1> QED BY <1>6, <1>7, <1>8

-----------------------------------------------------------------------------
(* What is new is what was acquired. *)

SplitsAreSent == splits \in Seq(SplitRecords)

(* A GUID is not given twice, and nothing is awaited before there is a baseline. *)
HistoryIsKnown ==
  /\ wanted \subseteq Guids \cap (1..lastGuid) /\ DOMAIN unread \subseteq 1..lastGuid /\ halves \subseteq Owned
  /\ halves \cap DOMAIN unread = {}
  /\ player # playerGuid => halves = {}
  /\ ~Armed => wanted = {} /\ due = {} /\ strays = {}

(* No owned item that was read is forgotten: none is missed so often. *)
NothingIsForgotten == Armed => \A g \in Owned \cap DOMAIN unread : g \in DOMAIN seen

DueIsFlagged == due \subseteq Owned /\ (Armed => due \subseteq new)

(* Until something disturbs a split: whatever no scan has read was acquired, or is a half, *)
NewIsWanted ==
  ~disturbed /\ Armed => /\ Owned \ DOMAIN unread \subseteq wanted \cup halves
                         /\ new \subseteq wanted \cup strays

(* and a kind has one business at a time, a split on its way or an item that waits to be read. *)
Awaited == halves \cup (wanted \ DOMAIN unread)

(* The split that r asks for has its entry, and its source has not shrunk. *)
SplitIsAwaited(r) ==
  /\ r.source \in Owned /\ items[r.source].kind = r.kind
  /\ \E e \in SplitRecords : /\ Has(splits, e) /\ e.source = r.source /\ e.kind = r.kind
                             /\ e.count <= items[r.source].n
  /\ \A g \in Awaited : items[g].kind # r.kind

(* There is an entry for the half h to claim. *)
HalfIsExcused(h) ==
  /\ \E e \in SplitRecords : Has(splits, e) /\ e.kind = items[h].kind
  /\ \A g \in Awaited : items[g].kind = items[h].kind => g = h

WireIsCalm ==
  \A i \in 1..Len(wire) : /\ SplitIsAwaited(wire[i])
                          /\ \A j \in 1..Len(wire) : wire[j].kind = wire[i].kind => j = i

(* No scan has gone by the halves that are excused: one that does retires the split. *)
SplitsAreCalm == ~disturbed => WireIsCalm /\ \A h \in halves \ strays : HalfIsExcused(h)

AcquiredInv ==
  SplitsAreSent /\ HistoryIsKnown /\ NothingIsForgotten /\ DueIsFlagged /\ NewIsWanted /\ SplitsAreCalm

LEMMA AcquiredInit == Init => AcquiredInv
<1> SUFFICES ASSUME Init PROVE AcquiredInv
  OBVIOUS
<1>1. SplitsAreSent /\ WireIsCalm
  BY DEF Init, SplitsAreSent, WireIsCalm
<1> QED BY <1>1 DEF Init, AcquiredInv, HistoryIsKnown, NothingIsForgotten, DueIsFlagged, NewIsWanted,
                    SplitsAreCalm, Armed

LEMMA ScanAcquires ==
  ASSUME Inv, AcquiredInv, Armed, NEW missed \in SUBSET {g \in Owned : MayMiss(g)}, Scan(missed),
         UNCHANGED <<world, seeded, playerGuid, wanted, disturbed>>
  PROVE  AcquiredInv'
<1> DEFINE owned == Owned \ missed
           unseen == (owned \cap InBags) \ DOMAIN seen
<1>0. /\ UNCHANGED <<player, items, lastGuid, wire, seeded, playerGuid, wanted, disturbed>>
      /\ Owned' = Owned /\ Armed' /\ GuidsAreFresh
  BY DEF world, Owned, Armed, Inv
<1>1. PICK order \in Orders(unseen) :
        LET claimed == FoldLeft(ClaimSplitHalf, [splits |-> splits, flagged |-> {}], order)
            flagged == new \cup claimed.flagged
        IN /\ seen' = SeenReconcile(owned)
           /\ splits' = RetireSplits(claimed.splits)
           /\ new' = flagged \cap DOMAIN seen'
           /\ Record(owned)
  BY DEF Scan
<1> DEFINE claimed == FoldLeft(ClaimSplitHalf, [splits |-> splits, flagged |-> {}], order)
<1>2. /\ seen' = SeenReconcile(owned) /\ splits' = RetireSplits(claimed.splits)
      /\ new' = (new \cup claimed.flagged) \cap DOMAIN seen' /\ Record(owned)
  BY <1>1
<1>3. /\ claimed.splits \in Seq(SplitRecords) /\ claimed.flagged \subseteq unseen
      /\ \A e : Has(splits, e) /\ (\A g \in unseen : items[g].kind # e.kind) => Has(claimed.splits, e)
      /\ \A g \in unseen : (\A e : Has(splits, e) => e.kind # items[g].kind) => g \in claimed.flagged
      /\ \A g \in unseen : /\ \E e : Has(splits, e) /\ e.kind = items[g].kind
                           /\ \A h \in unseen : items[h].kind = items[g].kind => h = g
                           => g \notin claimed.flagged
  <2>1. unseen \in SUBSET Guids
    BY DEF Owned
  <2>2. IsFiniteSet(unseen)
    <3>1. MaxGuid \in Int
      BY NewItemsAssumption
    <3>2. IsFiniteSet(Guids)
      BY <3>1, FS_Interval DEF Guids
    <3> HIDE DEF unseen
    <3> QED BY <2>1, <3>2, FS_Subset
  <2>3. splits \in Seq(SplitRecords)
    BY DEF AcquiredInv, SplitsAreSent
  <2> HIDE DEF unseen
  <2> QED BY <2>1, <2>2, <2>3, ClaimedIs
<1> HIDE DEF claimed
<1>4. /\ splits' \in Seq(SplitRecords)
      /\ \A e : Has(claimed.splits, e) /\ ~Spent(e) => Has(splits', e)
  BY <1>2, <1>3, RetiredIs
<1>5. /\ DOMAIN seen' = {g \in DOMAIN seen : seen[g] + 1 < MaxMissStreak} \cup owned
      /\ DOMAIN unread' = DOMAIN unread \cup owned
      /\ due' = due \cup {g \in wanted \cap owned \cap InBags :
                            g \notin DOMAIN unread /\ \A i \in DOMAIN splits : splits[i].kind # items[g].kind}
      /\ strays' = strays \cup (halves \ owned) /\ halves' = halves \ owned
  BY <1>2 DEF SeenReconcile, Record
<1>6. \A g \in Owned \cap DOMAIN unread : g \in DOMAIN seen /\ g \in DOMAIN seen'
  <2> SUFFICES ASSUME NEW g \in Owned \cap DOMAIN unread PROVE g \in DOMAIN seen /\ g \in DOMAIN seen'
    OBVIOUS
  <2>1. g \in DOMAIN seen /\ seen[g] = unread[g]
    BY DEF AcquiredInv, NothingIsForgotten, Inv, StreaksAreTrue
  <2>2. g \in owned \/ MayMiss(g)
    OBVIOUS
  <2> QED BY <1>5, <2>1, <2>2 DEF MayMiss
<1>7. owned \subseteq Owned /\ owned \subseteq 1..lastGuid /\ \A g \in Owned : g \in owned => g \in DOMAIN seen'
  BY <1>0, <1>5 DEF GuidsAreFresh, Owned, Guids
<1>8. SplitsAreSent'
  BY <1>4 DEF SplitsAreSent
<1>9. HistoryIsKnown'
  BY <1>0, <1>5, <1>7 DEF AcquiredInv, HistoryIsKnown, Armed
<1>10. NothingIsForgotten'
  BY <1>0, <1>5, <1>6, <1>7 DEF NothingIsForgotten
<1>11. DueIsFlagged'
  <2>1. due \subseteq Owned /\ due \subseteq new /\ new \subseteq DOMAIN seen
    BY DEF AcquiredInv, DueIsFlagged, Inv
  <2>2. \A g \in due : g \in DOMAIN seen'
    <3> SUFFICES ASSUME NEW g \in due PROVE g \in DOMAIN seen'
      OBVIOUS
    <3>1. g \in Owned /\ g \in DOMAIN seen /\ g \in DOMAIN unread
      BY <2>1 DEF Inv, StreaksAreTrue
    <3> QED BY <1>6, <3>1
  <2>3. ASSUME NEW g \in wanted \cap owned \cap InBags, g \notin DOMAIN unread,
               \A i \in DOMAIN splits : splits[i].kind # items[g].kind
        PROVE  g \in new' /\ g \in Owned
    <3>1. g \in unseen
      BY <2>3 DEF Inv, StreaksAreTrue
    <3>2. \A e : Has(splits, e) => e.kind # items[g].kind
      BY <2>3 DEF Has, AcquiredInv, SplitsAreSent
    <3> QED BY <1>2, <1>3, <1>7, <2>3, <3>1, <3>2
  <2> QED BY <1>0, <1>2, <1>5, <2>1, <2>2, <2>3 DEF DueIsFlagged
<1>12. ASSUME ~disturbed'
       PROVE  /\ ~disturbed /\ halves' \ strays' = {}
              /\ \A g \in unseen : g \in Awaited /\ g \notin DOMAIN unread /\ g \in wanted \cup halves
  <2>1. ~disturbed /\ halves' \ strays' = {}
    BY <1>0, <1>5, <1>12
  <2>2. \A g \in unseen : g \notin DOMAIN unread
    BY <1>6
  <2> QED BY <2>1, <2>2 DEF AcquiredInv, NewIsWanted, Awaited
<1>13. NewIsWanted'
  <2> SUFFICES ASSUME ~disturbed'
               PROVE  Owned \ DOMAIN unread' \subseteq wanted \cup halves' /\ new' \subseteq wanted \cup strays'
    BY <1>0 DEF NewIsWanted
  <2>1. Owned \ DOMAIN unread' \subseteq wanted \cup halves'
    BY <1>5, <1>12 DEF AcquiredInv, NewIsWanted
  <2>2. ASSUME NEW g \in claimed.flagged, g \notin wanted, g \notin strays' PROVE FALSE
    <3>1. g \in unseen /\ g \in halves \ strays
      BY <1>3, <1>5, <1>12, <2>2
    <3>2. HalfIsExcused(g)
      BY <1>12, <3>1 DEF AcquiredInv, SplitsAreCalm
    <3>3. \A h \in unseen : items[h].kind = items[g].kind => h = g
      BY <1>12, <3>2 DEF HalfIsExcused
    <3>4. \E e : Has(splits, e) /\ e.kind = items[g].kind
      BY <3>2 DEF HalfIsExcused
    <3> HIDE DEF unseen
    <3> QED BY <1>3, <2>2, <3>1, <3>3, <3>4
  <2> QED BY <1>2, <1>5, <1>12, <2>1, <2>2 DEF AcquiredInv, NewIsWanted
<1>14. SplitsAreCalm'
  <2> SUFFICES ASSUME ~disturbed' PROVE WireIsCalm'
    BY <1>12 DEF SplitsAreCalm
  <2> SUFFICES ASSUME NEW i \in 1..Len(wire)
               PROVE  SplitIsAwaited(wire[i])' /\ \A j \in 1..Len(wire) : wire[j].kind = wire[i].kind => j = i
    BY <1>0 DEF WireIsCalm
  <2>1. SplitIsAwaited(wire[i]) /\ \A j \in 1..Len(wire) : wire[j].kind = wire[i].kind => j = i
    BY <1>12 DEF AcquiredInv, SplitsAreCalm, WireIsCalm
  <2>2. PICK e \in SplitRecords : /\ Has(splits, e) /\ e.source = wire[i].source /\ e.kind = wire[i].kind
                                  /\ e.count <= items[wire[i].source].n
    BY <2>1 DEF SplitIsAwaited
  <2>3. Has(claimed.splits, e)
    BY <1>3, <1>12, <2>1, <2>2 DEF SplitIsAwaited
  <2>4. ~Spent(e)
    <3>1. wire[i].source \in Owned /\ wire[i].source \in Guids /\ items[wire[i].source].n \in Int /\ e.count \in Int
      BY <1>0, <2>1 DEF SplitIsAwaited, Owned, SplitRecords, GuidsAreFresh
    <3>2. items[wire[i].source] # NoItem
      BY <3>1 DEF Owned, NoItem
    <3> QED BY <2>2, <3>1, <3>2 DEF Spent
  <2>5. Awaited' \subseteq Awaited
    BY <1>0, <1>5, <1>12 DEF Awaited
  <2> QED BY <1>0, <1>4, <2>1, <2>2, <2>3, <2>4, <2>5 DEF SplitIsAwaited
<1> QED BY <1>8, <1>9, <1>10, <1>11, <1>13, <1>14 DEF AcquiredInv

(* What holds of the splits goes on to while the kinds that are waited for are left alone. *)
LEMMA CalmKeeps ==
  ASSUME GuidsAreFresh, WireIsCalm, \A h \in halves \ strays : HalfIsExcused(h),
         wire' = wire, \A e : Has(splits, e) => Has(splits', e),
         halves' \subseteq halves, strays' = strays, Awaited' \subseteq Awaited,
         \A g \in Awaited : items'[g].kind = items[g].kind,
         \A i \in 1..Len(wire) : LET g == wire[i].source IN
           g \in Owned => g \in Owned' /\ items'[g].kind = items[g].kind
                          /\ items'[g].n \in Int /\ items'[g].n >= items[g].n
  PROVE  WireIsCalm' /\ \A h \in halves' \ strays' : HalfIsExcused(h)'
<1>1. ASSUME NEW i \in 1..Len(wire)
      PROVE  SplitIsAwaited(wire[i])' /\ \A j \in 1..Len(wire) : wire[j].kind = wire[i].kind => j = i
  <2>1. SplitIsAwaited(wire[i]) /\ \A j \in 1..Len(wire) : wire[j].kind = wire[i].kind => j = i
    BY DEF WireIsCalm
  <2> DEFINE g == wire[i].source
  <2>2. /\ g \in Owned /\ g \in Owned' /\ items'[g].kind = items[g].kind /\ items'[g].n \in Int
        /\ items[g].n \in Int /\ items'[g].n >= items[g].n
    <3>1. g \in Owned /\ items[g].n \in Int
      BY <2>1 DEF SplitIsAwaited, Owned, GuidsAreFresh
    <3> QED BY <3>1
  <2>3. PICK e \in SplitRecords : Has(splits, e) /\ e.source = g /\ e.kind = wire[i].kind /\ e.count <= items[g].n
    BY <2>1 DEF SplitIsAwaited
  <2>4. e.count \in Int /\ e.count <= items'[g].n
    BY <2>2, <2>3 DEF SplitRecords
  <2>5. \A x \in Awaited' : items'[x].kind # wire[i].kind
    BY <2>1 DEF SplitIsAwaited
  <2> QED BY <2>1, <2>2, <2>3, <2>4, <2>5 DEF SplitIsAwaited
<1>2. ASSUME NEW h \in halves' \ strays' PROVE HalfIsExcused(h)'
  <2>1. HalfIsExcused(h) /\ h \in Awaited
    BY DEF Awaited
  <2> QED BY <2>1 DEF HalfIsExcused
<1> QED BY <1>1, <1>2 DEF WireIsCalm

(* Nobody but a baseline and a scan changes what has been read. *)
LEMMA AddonAcquires == ASSUME Inv, AcquiredInv, Addon PROVE AcquiredInv'
<1>1. UNCHANGED <<world, dirty, seen, splits, seeded, playerGuid, unread, halves, disturbed>>
  BY DEF Addon, Script_ClearAll, Script_RemoveNewItem
<1>2. /\ UNCHANGED <<player, items, lastGuid, wire, seen, splits, seeded, playerGuid, unread, halves, disturbed>>
      /\ Owned' = Owned /\ Armed' = Armed
  BY <1>1 DEF world, Owned, Armed
<1>3. /\ wanted' \subseteq wanted /\ due' \subseteq due
      /\ wanted' \ DOMAIN unread = wanted \ DOMAIN unread
      /\ Armed => due' \subseteq new'
      /\ Armed /\ new \subseteq wanted \cup strays => new' \subseteq wanted' \cup strays'
      /\ strays' \subseteq strays /\ halves \ strays' = halves \ strays
  <2>1. CASE Script_ClearAll
    <3>1. wanted \cap new # {} => new \subseteq DOMAIN unread
      <4> SUFFICES ASSUME wanted \cap new # {} PROVE new \subseteq DOMAIN unread
        OBVIOUS
      <4>1. Armed
        BY DEF AcquiredInv, HistoryIsKnown
      <4> QED BY <4>1 DEF Inv, StreaksAreTrue
    <3>2. strays' = strays \ new /\ new' = {} /\ halves \cap strays \cap new = {}
      <4>1. Armed \/ strays = {}
        BY DEF AcquiredInv, HistoryIsKnown
      <4>2. Armed => halves \cap new = {}
        BY DEF AcquiredInv, HistoryIsKnown, Inv, StreaksAreTrue
      <4> QED BY <2>1, <4>1, <4>2 DEF Script_ClearAll
    <3> QED BY <2>1, <3>1, <3>2 DEF Script_ClearAll
  <2>2. CASE \E g \in Guids : Script_RemoveNewItem(g)
    <3>1. PICK g \in Guids : Script_RemoveNewItem(g)
      BY <2>2
    <3>2. Armed
      BY <3>1 DEF Script_RemoveNewItem, Inv, NothingYet, Armed
    <3>3. g \in DOMAIN unread
      BY <3>1, <3>2 DEF Script_RemoveNewItem, Inv, StreaksAreTrue
    <3>4. strays' = strays \ {g} /\ g \notin halves
      BY <3>1, <3>3 DEF Script_RemoveNewItem, AcquiredInv, HistoryIsKnown
    <3> QED BY <3>1, <3>2, <3>3, <3>4 DEF Script_RemoveNewItem, AcquiredInv, DueIsFlagged
  <2> QED BY <2>1, <2>2 DEF Addon
<1>4. Awaited' = Awaited
  BY <1>2, <1>3 DEF Awaited
<1>5. SplitsAreSent' /\ HistoryIsKnown' /\ NothingIsForgotten' /\ DueIsFlagged'
  BY <1>2, <1>3 DEF AcquiredInv, SplitsAreSent, HistoryIsKnown, NothingIsForgotten, DueIsFlagged
<1>6. NewIsWanted'
  <2>1. ~disturbed /\ Armed => Owned \ DOMAIN unread \subseteq wanted' \cup halves
    BY <1>3 DEF AcquiredInv, NewIsWanted
  <2> QED BY <1>2, <1>3, <2>1 DEF AcquiredInv, NewIsWanted
<1>7. SplitsAreCalm'
  BY <1>2, <1>3, <1>4 DEF AcquiredInv, SplitsAreCalm, WireIsCalm, SplitIsAwaited, HalfIsExcused
<1> QED BY <1>5, <1>6, <1>7 DEF AcquiredInv

LEMMA RearmAcquires == ASSUME Inv, AcquiredInv, TickRearm PROVE AcquiredInv'
<1>1. /\ UNCHANGED <<player, items, lastGuid, wire, wanted, unread, due, halves, strays>>
      /\ Owned' = Owned /\ ~Armed /\ ~Armed' /\ wire = <<>> /\ halves = {} /\ splits' = <<>>
  BY DEF TickRearm, world, past, Owned, Armed, Inv, NothingYet, AcquiredInv, HistoryIsKnown
<1>2. SplitsAreSent' /\ WireIsCalm'
  BY <1>1 DEF SplitsAreSent, WireIsCalm
<1> QED BY <1>1, <1>2 DEF AcquiredInv, HistoryIsKnown, NothingIsForgotten, DueIsFlagged, NewIsWanted, SplitsAreCalm

LEMMA BaselineAcquires == ASSUME Inv, AcquiredInv, TickBaseline PROVE AcquiredInv'
<1>1. /\ UNCHANGED <<player, items, lastGuid, wire, splits, playerGuid, wanted, due, strays, disturbed>>
      /\ Owned' = Owned /\ ~Armed /\ Armed' /\ wanted = {} /\ due = {} /\ halves' = {} /\ new' = {}
      /\ DOMAIN seen' = Owned /\ DOMAIN unread' = Owned
  BY DEF TickBaseline, world, Owned, Armed, AcquiredInv, HistoryIsKnown
<1>2. Owned \subseteq 1..lastGuid
  BY DEF Inv, GuidsAreFresh, Owned, Guids
<1>3. Awaited' = {}
  BY <1>1 DEF Awaited
<1>4. SplitsAreCalm'
  BY <1>1, <1>3 DEF AcquiredInv, SplitsAreCalm, WireIsCalm, SplitIsAwaited
<1> QED BY <1>1, <1>2, <1>4 DEF AcquiredInv, SplitsAreSent, HistoryIsKnown, NothingIsForgotten, DueIsFlagged, NewIsWanted

LEMMA ChangedAcquires == ASSUME Inv, AcquiredInv, OnBagChanged PROVE AcquiredInv'
<1>1. CASE Armed
  <2>1. PICK missed \in SUBSET {g \in Owned : MayMiss(g)} : Scan(missed) /\ UNCHANGED <<seeded, playerGuid, wanted, disturbed>>
    BY <1>1 DEF OnBagChanged, Armed
  <2>2. UNCHANGED <<world, seeded, playerGuid, wanted, disturbed>>
    BY <2>1 DEF OnBagChanged
  <2> QED BY <1>1, <2>1, <2>2, ScanAcquires
<1>2. CASE ~Armed
  <2>1. /\ UNCHANGED <<player, items, lastGuid, wire, seen, new, splits, seeded, playerGuid>>
        /\ UNCHANGED <<wanted, unread, due, halves, strays, disturbed>>
    BY <1>2 DEF OnBagChanged, Armed, world, set, past
  <2> QED BY <2>1 DEF AcquiredInv, SplitsAreSent, HistoryIsKnown, NothingIsForgotten, DueIsFlagged, NewIsWanted,
                      SplitsAreCalm, WireIsCalm, SplitIsAwaited, HalfIsExcused, Awaited, Armed, Owned
<1> QED BY <1>1, <1>2

LEMMA NotBusy ==
  ASSUME GuidsAreFresh, NEW k, ~Busy(k)
  PROVE  /\ \A i \in 1..Len(wire) : wire[i].kind # k
         /\ \A g \in Awaited : items[g].kind # k
BY DEF Busy, Awaited, GuidsAreFresh

(* The player takes, uses or moves an item of a kind that nothing is waited for. *)
LEMMA TouchAcquires ==
  ASSUME Inv, AcquiredInv, NEW g \in Guids,
         UNCHANGED <<player, lastGuid, wire, seen, new, splits, seeded, playerGuid, wanted, unread, strays>>,
         disturbed' = (disturbed \/ Busy(items[g].kind)),
         \A h \in Guids : h # g => items'[h] = items[h],
         Owned' \subseteq Owned, halves' = halves \cap Owned', due' = due \cap Owned'
  PROVE  AcquiredInv'
<1>1. GuidsAreFresh /\ Armed' = Armed /\ due' \subseteq due /\ halves' \subseteq halves
  BY DEF Inv, Armed
<1>2. SplitsAreSent' /\ HistoryIsKnown' /\ NothingIsForgotten' /\ DueIsFlagged'
  BY <1>1 DEF AcquiredInv, SplitsAreSent, HistoryIsKnown, NothingIsForgotten, DueIsFlagged
<1>3. ASSUME ~disturbed'
      PROVE  /\ ~disturbed /\ halves' = halves /\ Awaited' = Awaited
             /\ \A h \in Awaited : items'[h].kind = items[h].kind
             /\ \A i \in 1..Len(wire) : wire[i].kind # items[g].kind
  <2>1. ~disturbed /\ ~Busy(items[g].kind)
    BY <1>3
  <2>2. /\ \A i \in 1..Len(wire) : wire[i].kind # items[g].kind
        /\ \A h \in Awaited : items[h].kind # items[g].kind
    BY <1>1, <2>1, NotBusy
  <2>3. \A h \in Awaited : h # g
    BY <2>2
  <2>4. Awaited \subseteq Guids
    <3>1. halves \subseteq Guids
      BY DEF AcquiredInv, HistoryIsKnown, Owned
    <3>2. wanted \subseteq Guids
      BY DEF AcquiredInv, HistoryIsKnown, Inv, GuidsAreFresh
    <3> QED BY <3>1, <3>2 DEF Awaited
  <2>5. halves' = halves
    <3>1. \A h \in halves : h \in Owned /\ h # g
      BY <2>3 DEF Awaited, AcquiredInv, HistoryIsKnown
    <3>2. \A h \in halves : h \in Owned'
      BY <3>1 DEF Owned
    <3> QED BY <3>2
  <2>6. Awaited' = Awaited
    BY <2>5 DEF Awaited
  <2> QED BY <2>1, <2>2, <2>3, <2>4, <2>5, <2>6
<1>4. NewIsWanted'
  BY <1>1, <1>3 DEF AcquiredInv, NewIsWanted
<1>5. SplitsAreCalm'
  <2> SUFFICES ASSUME ~disturbed' PROVE WireIsCalm' /\ \A h \in halves' \ strays' : HalfIsExcused(h)'
    BY DEF SplitsAreCalm
  <2>1. WireIsCalm /\ \A h \in halves \ strays : HalfIsExcused(h)
    BY <1>3 DEF AcquiredInv, SplitsAreCalm
  <2>2. ASSUME NEW i \in 1..Len(wire), wire[i].source \in Owned
        PROVE  LET h == wire[i].source IN h \in Owned' /\ items'[h].kind = items[h].kind
                                          /\ items'[h].n \in Int /\ items'[h].n >= items[h].n
    <3> DEFINE h == wire[i].source
    <3>1. h \in Owned /\ h \in Guids /\ items[h].kind = wire[i].kind /\ items[h].n \in Int
      BY <1>1, <2>1, <2>2 DEF WireIsCalm, SplitIsAwaited, Owned, GuidsAreFresh
    <3>2. h # g
      BY <1>3, <3>1
    <3> HIDE DEF h
    <3>3. items'[h] = items[h] /\ h \in Owned'
      BY <3>1, <3>2 DEF Owned
    <3> QED BY <3>1, <3>3 DEF h
  <2>3. \A e : Has(splits, e) => Has(splits', e)
    OBVIOUS
  <2> QED BY <1>1, <1>3, <2>1, <2>2, <2>3, CalmKeeps
<1> QED BY <1>2, <1>4, <1>5 DEF AcquiredInv

LEMMA TouchesAcquire ==
  ASSUME Inv, AcquiredInv, NEW g \in Guids, AcquireOnto(g) \/ Consume(g) \/ Move(g)
  PROVE  AcquiredInv'
<1>1. GuidsAreFresh /\ halves \subseteq Owned /\ due \subseteq Owned
  BY DEF Inv, AcquiredInv, HistoryIsKnown, DueIsFlagged
<1>2. /\ UNCHANGED <<player, lastGuid, wire, seen, new, splits, seeded, playerGuid, wanted, unread, strays>>
      /\ disturbed' = (disturbed \/ Busy(items[g].kind))
  BY DEF AcquireOnto, Consume, Move, set, Disturbs
<1>3. CASE AcquireOnto(g)
  <2>1. /\ \A h \in Guids : (h # g => items'[h] = items[h]) /\ items'[h].at = items[h].at
        /\ halves' = halves /\ due' = due
    BY <1>1, <1>3 DEF AcquireOnto, GuidsAreFresh
  <2>2. Owned' = Owned
    BY <2>1 DEF Owned
  <2> QED BY <1>1, <1>2, <2>1, <2>2, TouchAcquires
<1>4. CASE Move(g)
  <2>1. /\ \A h \in Guids : (h # g => items'[h] = items[h]) /\ (h = g => items'[h].at # "none")
        /\ halves' = halves /\ due' = due /\ g \in Owned
    BY <1>1, <1>4 DEF Move, GuidsAreFresh
  <2>2. Owned' = Owned
    BY <2>1 DEF Owned
  <2> QED BY <1>1, <1>2, <2>1, <2>2, TouchAcquires
<1>5. CASE Consume(g)
  <2>1. /\ items' = IF items[g].n > 1 THEN Shrunk(g) ELSE [items EXCEPT ![g] = NoItem]
        /\ due' = due \cap {h \in Guids : items'[h] # NoItem}
        /\ halves' = halves \cap {h \in Guids : items'[h] # NoItem}
    BY <1>5 DEF Consume
  <2>2. /\ \A h \in Guids : h # g => items'[h] = items[h]
        /\ items'[g].at = items[g].at \/ items'[g] = NoItem
    BY <1>1, <2>1 DEF Shrunk, GuidsAreFresh
  <2>3. Owned' \subseteq Owned
    BY <2>2 DEF Owned, NoItem
  <2>4. \A h \in Owned : items'[h] # NoItem <=> h \in Owned'
    BY <2>2 DEF Owned, NoItem
  <2>5. due' = due \cap Owned' /\ halves' = halves \cap Owned'
    BY <1>1, <2>1, <2>3, <2>4 DEF Owned
  <2> QED BY <1>2, <2>2, <2>3, <2>5, TouchAcquires
<1> QED BY <1>3, <1>4, <1>5

LEMMA SendAcquires ==
  ASSUME Inv, AcquiredInv, NEW g \in Guids, NEW to \in {"bag", "bank"}, SendSplit(g, to)
  PROVE  AcquiredInv'
<1> DEFINE k == items[g].kind
           r == [source |-> g, kind |-> k, to |-> to]
           e == [source |-> g, kind |-> k, count |-> items[g].n]
<1>1. /\ UNCHANGED <<player, items, lastGuid, seen, new, seeded, playerGuid, wanted, unread, due, halves, strays>>
      /\ Owned' = Owned /\ Armed' = Armed /\ Awaited' = Awaited /\ g \in Owned
      /\ wire' = Append(wire, r)
      /\ splits' = IF Len(splits) < MaxPendingSplits THEN Append(splits, e) ELSE splits
      /\ disturbed' = (disturbed \/ Busy(k) \/ Len(splits) >= MaxPendingSplits)
  BY DEF SendSplit, Act, Disturbs, Owned, Armed, Awaited
<1>2. GuidsAreFresh /\ e \in SplitRecords /\ splits \in Seq(SplitRecords) /\ wire \in Seq(Requests)
  BY DEF Inv, GuidsAreFresh, SplitRecords, AcquiredInv, SplitsAreSent
<1>3. /\ r.source = g /\ r.kind = k /\ e.source = g /\ e.kind = k /\ e.count = items[g].n /\ items[g].n \in Int
      /\ r \in Requests
  BY <1>2 DEF GuidsAreFresh, Requests
<1> HIDE DEF r, e
<1>4. SplitsAreSent'
  BY <1>1, <1>2 DEF SplitsAreSent
<1>5. HistoryIsKnown' /\ NothingIsForgotten' /\ DueIsFlagged' /\ NewIsWanted'
  BY <1>1 DEF AcquiredInv, HistoryIsKnown, NothingIsForgotten, DueIsFlagged, NewIsWanted
<1>6. ASSUME ~disturbed' PROVE WireIsCalm' /\ \A h \in halves' \ strays' : HalfIsExcused(h)'
  <2>1. ~disturbed /\ ~Busy(k) /\ splits' = Append(splits, e)
    <3>1. Len(splits) \in Nat /\ MaxPendingSplits \in Nat
      BY <1>2, NewItemsAssumption
    <3>2. ~disturbed /\ ~Busy(k) /\ ~(Len(splits) >= MaxPendingSplits)
      BY <1>1, <1>6, Zenon
    <3>3. Len(splits) < MaxPendingSplits
      BY <3>1, <3>2
    <3> QED BY <1>1, <3>2, <3>3
  <2>2. \A x : Has(splits, x) => Has(splits', x)
    BY <1>2, <2>1 DEF Has
  <2>3. Has(splits', e)
    <3>1. Len(splits) + 1 \in 1..Len(splits') /\ splits'[Len(splits) + 1] = e
      BY <1>2, <2>1
    <3> QED BY <3>1 DEF Has
  <2>4. WireIsCalm /\ \A h \in halves \ strays : HalfIsExcused(h)
    BY <2>1 DEF AcquiredInv, SplitsAreCalm
  <2>5. /\ \A i \in 1..Len(wire) : wire[i].kind # k
        /\ \A x \in Awaited : items[x].kind # k
    BY <1>2, <2>1, NotBusy
  <2>6. /\ Len(wire') = Len(wire) + 1 /\ wire'[Len(wire) + 1] = r /\ Len(wire) \in Nat
        /\ \A i \in 1..Len(wire) : wire'[i] = wire[i]
    BY <1>1, <1>2
  <2>7. ASSUME NEW i \in 1..Len(wire')
        PROVE  /\ wire'[i].source \in Owned /\ items[wire'[i].source].kind = wire'[i].kind
               /\ \E x \in SplitRecords : /\ Has(splits', x) /\ x.source = wire'[i].source
                                          /\ x.kind = wire'[i].kind /\ x.count <= items[wire'[i].source].n
               /\ \A x \in Awaited : items[x].kind # wire'[i].kind
               /\ \A j \in 1..Len(wire') : wire'[j].kind = wire'[i].kind => j = i
    <3>1. CASE i \in 1..Len(wire)
      <4>1. SplitIsAwaited(wire[i]) /\ \A j \in 1..Len(wire) : wire[j].kind = wire[i].kind => j = i
        BY <2>4, <3>1 DEF WireIsCalm
      <4>2. \A j \in 1..Len(wire') : wire'[j].kind = wire'[i].kind => j = i
        BY <1>3, <2>5, <2>6, <3>1, <4>1
      <4> QED BY <2>2, <2>6, <3>1, <4>1, <4>2 DEF SplitIsAwaited
    <3>2. CASE i = Len(wire) + 1
      <4>1. \A j \in 1..Len(wire') : wire'[j].kind = wire'[i].kind => j = i
        BY <1>3, <2>5, <2>6, <3>2
      <4>2. \E x \in SplitRecords : /\ Has(splits', x) /\ x.source = r.source
                                     /\ x.kind = r.kind /\ x.count <= items[r.source].n
        <5>1. e.source = r.source /\ e.kind = r.kind /\ e.count <= items[r.source].n
          BY <1>3
        <5> QED BY <1>2, <2>3, <5>1
      <4> QED BY <1>1, <1>3, <2>5, <2>6, <3>2, <4>1, <4>2
    <3> QED BY <2>6, <3>1, <3>2
  <2>8. WireIsCalm'
    BY <1>1, <2>7 DEF WireIsCalm, SplitIsAwaited
  <2>9. \A h \in halves' \ strays' : HalfIsExcused(h)'
    BY <1>1, <2>2, <2>4 DEF HalfIsExcused
  <2> QED BY <2>8, <2>9
<1> QED BY <1>4, <1>5, <1>6 DEF AcquiredInv, SplitsAreCalm

(* A new item appears, of a kind that nothing else is waited for. *)
LEMMA NewcomerIs ==
  ASSUME Inv, AcquiredInv, lastGuid < MaxGuid, lastGuid' = lastGuid + 1,
         \A h \in Guids : h # lastGuid + 1 => items'[h].at = items[h].at,
         items'[lastGuid + 1].at \in {"bag", "bank"}
  PROVE  /\ Owned' = Owned \cup {lastGuid + 1} /\ lastGuid + 1 \in Guids
         /\ lastGuid + 1 \notin Owned \cup wanted \cup halves \cup DOMAIN unread
         /\ Awaited \subseteq Guids
<1>1. GuidsAreFresh /\ HistoryIsKnown /\ lastGuid + 1 \in Guids
  BY NewItemsAssumption DEF Inv, AcquiredInv, GuidsAreFresh, Guids
<1>2. lastGuid + 1 \notin Owned \cup wanted \cup halves \cup DOMAIN unread
  BY <1>1 DEF GuidsAreFresh, HistoryIsKnown, Owned, Guids
<1>3. Owned' = Owned \cup {lastGuid + 1}
  BY <1>1 DEF Owned
<1>4. Awaited \subseteq Guids
  BY <1>1 DEF HistoryIsKnown, Awaited, Owned
<1> QED BY <1>1, <1>2, <1>3, <1>4

LEMMA NewStackAcquires == ASSUME Inv, AcquiredInv, AnswerNewStack PROVE AcquiredInv'
<1> DEFINE r == Request
           s == Request.source
           g == lastGuid + 1
<1>1. /\ UNCHANGED <<player, seen, new, splits, seeded, playerGuid, wanted, unread, due, strays, disturbed>>
      /\ Armed' = Armed /\ halves' = halves \cup {g} /\ lastGuid' = lastGuid + 1 /\ lastGuid < MaxGuid
      /\ wire # <<>> /\ wire' = Tail(wire)
      /\ items' = [Shrunk(s) EXCEPT ![g] = Item(r.kind, 1, r.to)]
  BY DEF AnswerNewStack, CanSplit, set, Armed
<1>2. GuidsAreFresh /\ wire \in Seq(Requests) /\ player = playerGuid
  BY <1>1 DEF Inv, GuidsAreFresh, NothingYet
<1>3. r \in Requests /\ s <= lastGuid /\ s \in Guids /\ s # g
  BY <1>1, <1>2, TailKeepsRequests, NewItemsAssumption DEF Requests, GuidsAreFresh, Guids
<1>4. /\ Len(wire) \in Nat \ {0} /\ wire[1] = r /\ Len(wire') = Len(wire) - 1
      /\ \A i \in 1..Len(wire') : i + 1 \in 1..Len(wire) /\ wire'[i] = wire[i + 1]
  BY <1>1, <1>2 DEF Request
<1>5. /\ \A h \in Guids : h # s /\ h # g => items'[h] = items[h]
      /\ items'[s].at = items[s].at
      /\ lastGuid + 1 \in Guids => items'[g] = Item(r.kind, 1, r.to)
  BY <1>1, <1>2, <1>3 DEF Shrunk, GuidsAreFresh
<1>6. items'[g].kind = r.kind /\ items'[g].at \in {"bag", "bank"} /\ g \in Guids
  <2>1. g \in Guids
    BY <1>1, <1>2, NewItemsAssumption DEF Guids, GuidsAreFresh
  <2> QED BY <1>3, <1>5, <2>1 DEF Item, Requests
<1>7. /\ Owned' = Owned \cup {g} /\ g \notin Owned \cup wanted \cup halves \cup DOMAIN unread
      /\ Awaited \subseteq Guids
  <2>1. \A h \in Guids : h # g => items'[h].at = items[h].at
    BY <1>5
  <2> QED BY <1>1, <1>6, <2>1, NewcomerIs
<1>8. Awaited' = Awaited \cup {g} /\ g \notin Awaited
  BY <1>1, <1>7 DEF Awaited
<1> HIDE DEF s, g, r
<1>9. SplitsAreSent' /\ HistoryIsKnown' /\ NothingIsForgotten' /\ DueIsFlagged' /\ NewIsWanted'
  <2>1. g = lastGuid + 1
    BY DEF g
  <2>2. HistoryIsKnown'
    BY <1>1, <1>2, <1>7, <2>1 DEF AcquiredInv, HistoryIsKnown, GuidsAreFresh
  <2> QED BY <1>1, <1>7, <2>2 DEF AcquiredInv, SplitsAreSent, NothingIsForgotten, DueIsFlagged, NewIsWanted
<1>10. ASSUME ~disturbed PROVE WireIsCalm' /\ \A h \in halves' \ strays' : HalfIsExcused(h)'
  <2>1. WireIsCalm /\ \A h \in halves \ strays : HalfIsExcused(h)
    BY <1>10 DEF AcquiredInv, SplitsAreCalm
  <2>2. /\ SplitIsAwaited(r) /\ \A j \in 1..Len(wire) : wire[j].kind = r.kind => j = 1
    BY <1>4, <2>1 DEF WireIsCalm
  <2>3. items[s].kind = r.kind /\ s \in Owned
    BY <2>2 DEF SplitIsAwaited, s, r
  <2>4. \A h \in Awaited : h \in Guids /\ items[h].kind # r.kind /\ items'[h] = items[h]
    BY <1>5, <1>7, <1>8, <2>2, <2>3 DEF SplitIsAwaited
  <2>5. ASSUME NEW i \in 1..Len(wire')
        PROVE  /\ wire'[i].source \in Owned' /\ items'[wire'[i].source].kind = wire'[i].kind
               /\ \E x \in SplitRecords : /\ Has(splits, x) /\ x.source = wire'[i].source
                                          /\ x.kind = wire'[i].kind /\ x.count <= items'[wire'[i].source].n
               /\ \A x \in Awaited' : items'[x].kind # wire'[i].kind
               /\ \A j \in 1..Len(wire') : wire'[j].kind = wire'[i].kind => j = i
    <3> DEFINE w == wire[i + 1]
    <3>1. wire'[i] = w /\ SplitIsAwaited(w) /\ w.kind # r.kind
      <4>1. i + 1 \in 1..Len(wire) /\ i + 1 # 1
        BY <1>4
      <4> QED BY <1>4, <2>1, <2>2, <4>1 DEF WireIsCalm
    <3>2. \A j \in 1..Len(wire') : wire'[j].kind = wire'[i].kind => j = i
      <4>1. \A j \in 1..Len(wire) : wire[j].kind = w.kind => j = i + 1
        BY <1>4, <2>1 DEF WireIsCalm
      <4>2. \A j \in 1..Len(wire') : wire[j + 1].kind = w.kind => j + 1 = i + 1
        BY <1>4, <4>1
      <4> QED BY <1>4, <3>1, <4>2
    <3> HIDE DEF w
    <3>3. w.source \in Owned /\ items'[w.source] = items[w.source]
      <4>1. w.source \in Owned /\ w.source \in Guids /\ items[w.source].kind = w.kind
        BY <3>1 DEF SplitIsAwaited, Owned
      <4>2. w.source # s /\ w.source # g
        BY <1>7, <2>3, <3>1, <4>1
      <4> QED BY <1>5, <4>1, <4>2
    <3>4. \A x \in Awaited' : items'[x].kind # w.kind
      BY <1>6, <1>8, <2>4, <3>1 DEF SplitIsAwaited
    <3> QED BY <1>7, <3>1, <3>2, <3>3, <3>4 DEF SplitIsAwaited
  <2>6. WireIsCalm'
    BY <1>1, <2>5 DEF WireIsCalm, SplitIsAwaited
  <2>7. ASSUME NEW h \in halves' \ strays' PROVE HalfIsExcused(h)'
    <3>1. CASE h = g
      <4>1. \E e \in SplitRecords : Has(splits, e) /\ e.kind = r.kind
        BY <2>2 DEF SplitIsAwaited
      <4>2. \A x \in Awaited' : items'[x].kind = r.kind => x = g
        BY <1>8, <2>4
      <4> QED BY <1>1, <1>6, <3>1, <4>1, <4>2 DEF HalfIsExcused
    <3>2. CASE h # g
      <4>1. h \in halves /\ h \in Awaited /\ HalfIsExcused(h) /\ items'[h] = items[h] /\ items[h].kind # r.kind
        BY <1>1, <2>1, <2>4, <3>2 DEF Awaited
      <4>2. \A x \in Awaited' : items'[x].kind = items[h].kind => x = h
        BY <1>6, <1>8, <2>4, <4>1 DEF HalfIsExcused
      <4> QED BY <1>1, <4>1, <4>2 DEF HalfIsExcused
    <3> QED BY <3>1, <3>2
  <2> QED BY <2>6, <2>7
<1> QED BY <1>1, <1>9, <1>10 DEF AcquiredInv, SplitsAreCalm

LEMMA OntoStackAcquires == ASSUME Inv, AcquiredInv, AnswerOntoStack PROVE AcquiredInv'
<1> DEFINE r == Request
           s == Request.source
<1>1. /\ UNCHANGED <<player, lastGuid, seen, new, splits, seeded, playerGuid, wanted, unread, due, halves, strays, disturbed>>
      /\ Armed' = Armed /\ wire # <<>> /\ wire' = Tail(wire)
  BY DEF AnswerOntoStack, CanSplit, set, past, Armed
<1>2. GuidsAreFresh /\ wire \in Seq(Requests)
  BY DEF Inv, GuidsAreFresh
<1>3. s \in Guids
  BY <1>1, <1>2, TailKeepsRequests DEF Requests
<1>4. /\ Len(wire) \in Nat \ {0} /\ wire[1] = r /\ Len(wire') = Len(wire) - 1
      /\ \A i \in 1..Len(wire') : i + 1 \in 1..Len(wire) /\ wire'[i] = wire[i + 1]
  BY <1>1, <1>2 DEF Request
<1>5. PICK g \in Owned \ {s} : items[g].kind = r.kind /\ items' = [Shrunk(s) EXCEPT ![g].n = @ + 1]
  BY DEF AnswerOntoStack
<1>6. /\ g \in Guids /\ \A h \in Guids : h # s /\ h # g => items'[h] = items[h]
      /\ \A h \in Guids : items'[h].at = items[h].at /\ items'[h].kind = items[h].kind
  BY <1>2, <1>3, <1>5 DEF Shrunk, GuidsAreFresh, Owned
<1>7. Owned' = Owned /\ Awaited' = Awaited
  BY <1>1, <1>6 DEF Owned, Awaited
<1>8. Awaited \subseteq Guids
  BY DEF Awaited, AcquiredInv, HistoryIsKnown, Owned
<1> HIDE DEF s, r
<1>9. SplitsAreSent' /\ HistoryIsKnown' /\ NothingIsForgotten' /\ DueIsFlagged' /\ NewIsWanted'
  BY <1>1, <1>7 DEF AcquiredInv, SplitsAreSent, HistoryIsKnown, NothingIsForgotten, DueIsFlagged, NewIsWanted
<1>10. ASSUME ~disturbed PROVE WireIsCalm' /\ \A h \in halves' \ strays' : HalfIsExcused(h)'
  <2>1. WireIsCalm /\ \A h \in halves \ strays : HalfIsExcused(h)
    BY <1>10 DEF AcquiredInv, SplitsAreCalm
  <2>2. /\ SplitIsAwaited(r) /\ \A j \in 1..Len(wire) : wire[j].kind = r.kind => j = 1
    BY <1>4, <2>1 DEF WireIsCalm
  <2>3. items[s].kind = r.kind
    BY <2>2 DEF SplitIsAwaited, s, r
  <2>4. ASSUME NEW i \in 1..Len(wire')
        PROVE  /\ wire'[i].source \in Owned /\ items'[wire'[i].source].kind = wire'[i].kind
               /\ \E x \in SplitRecords : /\ Has(splits, x) /\ x.source = wire'[i].source
                                          /\ x.kind = wire'[i].kind /\ x.count <= items'[wire'[i].source].n
               /\ \A x \in Awaited : items'[x].kind # wire'[i].kind
               /\ \A j \in 1..Len(wire') : wire'[j].kind = wire'[i].kind => j = i
    <3> DEFINE w == wire[i + 1]
    <3>1. wire'[i] = w /\ SplitIsAwaited(w) /\ w.kind # r.kind
      <4>1. i + 1 \in 1..Len(wire) /\ i + 1 # 1
        BY <1>4
      <4> QED BY <1>4, <2>1, <2>2, <4>1 DEF WireIsCalm
    <3>2. \A j \in 1..Len(wire') : wire'[j].kind = wire'[i].kind => j = i
      <4>1. \A j \in 1..Len(wire) : wire[j].kind = w.kind => j = i + 1
        BY <1>4, <2>1 DEF WireIsCalm
      <4>2. \A j \in 1..Len(wire') : wire[j + 1].kind = w.kind => j + 1 = i + 1
        BY <1>4, <4>1
      <4> QED BY <1>4, <3>1, <4>2
    <3> HIDE DEF w
    <3>3. w.source \in Owned /\ items'[w.source] = items[w.source]
      <4>1. w.source \in Owned /\ w.source \in Guids /\ items[w.source].kind = w.kind
        BY <3>1 DEF SplitIsAwaited, Owned
      <4>2. w.source # s /\ w.source # g
        BY <1>5, <2>3, <3>1, <4>1
      <4> QED BY <1>6, <4>1, <4>2
    <3>4. \A x \in Awaited : items'[x].kind # w.kind
      BY <1>6, <1>8, <3>1 DEF SplitIsAwaited
    <3> QED BY <3>1, <3>2, <3>3, <3>4 DEF SplitIsAwaited
  <2>5. WireIsCalm'
    BY <1>1, <1>7, <2>4 DEF WireIsCalm, SplitIsAwaited
  <2>6. ASSUME NEW h \in halves' \ strays' PROVE HalfIsExcused(h)'
    <3>1. h \in halves /\ h \in Awaited /\ HalfIsExcused(h)
      BY <1>1, <2>1 DEF Awaited
    <3> QED BY <1>1, <1>6, <1>7, <1>8, <3>1 DEF HalfIsExcused
  <2> QED BY <2>5, <2>6
<1> QED BY <1>1, <1>9, <1>10 DEF AcquiredInv, SplitsAreCalm

LEMMA PacketAcquires == ASSUME Inv, AcquiredInv, OnPacket PROVE AcquiredInv'
<1>1. /\ UNCHANGED <<player, items, lastGuid, seen, new, seeded, playerGuid, wanted, unread, due, halves, strays>>
      /\ Owned' = Owned /\ Armed' = Armed /\ splits' = <<>> /\ (disturbed => disturbed')
  BY DEF OnPacket, Disturbs, Owned, Armed
<1>2. ASSUME ~disturbed' PROVE wire' = <<>> /\ halves = {}
  <2>1. CASE wire # <<>> /\ wire' = Tail(wire) /\ Disturbs(Len(wire) > 1 \/ halves # {})
    <3>1. wire \in Seq(Requests) /\ ~(Len(wire) > 1) /\ halves = {}
      BY <1>2, <2>1 DEF Inv, GuidsAreFresh, Disturbs
    <3> QED BY <2>1, <3>1
  <2>2. CASE UNCHANGED wire /\ Disturbs(wire # <<>> \/ halves # {})
    BY <1>2, <2>2 DEF Disturbs
  <2> QED BY <2>1, <2>2 DEF OnPacket
<1>3. SplitsAreSent'
  BY <1>1 DEF SplitsAreSent
<1>4. SplitsAreCalm'
  BY <1>1, <1>2 DEF SplitsAreCalm, WireIsCalm
<1>5. NewIsWanted'
  <2> SUFFICES ASSUME ~disturbed', Armed
               PROVE  Owned \ DOMAIN unread \subseteq wanted \cup halves /\ new \subseteq wanted \cup strays
    BY <1>1 DEF NewIsWanted
  <2> QED BY <1>1 DEF AcquiredInv, NewIsWanted
<1> QED BY <1>1, <1>3, <1>4, <1>5 DEF AcquiredInv, HistoryIsKnown, NothingIsForgotten, DueIsFlagged

LEMMA AcquireAcquires == ASSUME Inv, AcquiredInv, NEW k \in Kinds, Acquire(k) PROVE AcquiredInv'
<1> DEFINE g == lastGuid + 1
<1>1. /\ UNCHANGED <<player, wire, seen, new, splits, seeded, playerGuid, unread, due, halves, strays>>
      /\ Armed' = Armed /\ lastGuid' = lastGuid + 1 /\ lastGuid < MaxGuid
      /\ items' = [items EXCEPT ![g] = Item(k, 1, "bag")]
      /\ wanted' = IF Armed THEN wanted \cup {g} ELSE wanted
      /\ disturbed' = (disturbed \/ Busy(k))
  BY DEF Acquire, Act, set, Armed, Disturbs
<1>2. GuidsAreFresh
  BY DEF Inv
<1>3. g \in Guids /\ items'[g].kind = k /\ items'[g].at = "bag" /\ \A h \in Guids : h # g => items'[h] = items[h]
  <2>1. g \in Guids
    BY <1>1, <1>2, NewItemsAssumption DEF Guids, GuidsAreFresh
  <2> QED BY <1>1, <1>2, <2>1 DEF Item, GuidsAreFresh
<1>4. /\ Owned' = Owned \cup {g} /\ g \notin Owned \cup wanted \cup halves \cup DOMAIN unread
      /\ Awaited \subseteq Guids
  <2>1. \A h \in Guids : h # g => items'[h].at = items[h].at
    BY <1>3
  <2> QED BY <1>1, <1>3, <2>1, NewcomerIs
<1>5. Awaited' \subseteq Awaited \cup {g}
  BY <1>1 DEF Awaited
<1>6. g = lastGuid + 1
  OBVIOUS
<1> HIDE DEF g
<1>7. SplitsAreSent' /\ HistoryIsKnown' /\ NothingIsForgotten' /\ DueIsFlagged'
  <2>1. HistoryIsKnown'
    BY <1>1, <1>2, <1>3, <1>4, <1>6 DEF AcquiredInv, HistoryIsKnown, GuidsAreFresh
  <2> QED BY <1>1, <1>4, <2>1 DEF AcquiredInv, SplitsAreSent, NothingIsForgotten, DueIsFlagged
<1>8. NewIsWanted'
  <2> SUFFICES ASSUME ~disturbed', Armed
               PROVE  Owned' \ DOMAIN unread \subseteq wanted' \cup halves /\ new \subseteq wanted' \cup strays
    BY <1>1 DEF NewIsWanted
  <2> QED BY <1>1, <1>4 DEF AcquiredInv, NewIsWanted
<1>9. ASSUME ~disturbed' PROVE WireIsCalm' /\ \A h \in halves' \ strays' : HalfIsExcused(h)'
  <2>1. ~disturbed /\ ~Busy(k)
    BY <1>1, <1>9
  <2>2. WireIsCalm /\ \A h \in halves \ strays : HalfIsExcused(h)
    BY <2>1 DEF AcquiredInv, SplitsAreCalm
  <2>3. /\ \A i \in 1..Len(wire) : wire[i].kind # k
        /\ \A x \in Awaited : items[x].kind # k /\ items'[x] = items[x]
    <3>1. /\ \A i \in 1..Len(wire) : wire[i].kind # k
          /\ \A x \in Awaited : items[x].kind # k
      BY <1>2, <2>1, NotBusy
    <3>2. \A x \in Awaited : x # g /\ x \in Guids
      BY <1>4 DEF Awaited
    <3> QED BY <1>3, <3>1, <3>2
  <2>4. ASSUME NEW i \in 1..Len(wire) PROVE SplitIsAwaited(wire[i])'
    <3>1. SplitIsAwaited(wire[i]) /\ wire[i].kind # k
      BY <2>2, <2>3 DEF WireIsCalm
    <3>2. wire[i].source \in Owned /\ items'[wire[i].source] = items[wire[i].source]
      BY <1>3, <1>4, <3>1 DEF SplitIsAwaited, Owned
    <3>3. \A x \in Awaited' : items'[x].kind # wire[i].kind
      BY <1>3, <1>5, <2>3, <3>1 DEF SplitIsAwaited
    <3> QED BY <1>1, <1>4, <3>1, <3>2, <3>3 DEF SplitIsAwaited
  <2>5. WireIsCalm'
    BY <1>1, <2>2, <2>4 DEF WireIsCalm
  <2>6. ASSUME NEW h \in halves' \ strays' PROVE HalfIsExcused(h)'
    <3>1. h \in Awaited /\ HalfIsExcused(h) /\ items'[h] = items[h] /\ items[h].kind # k
      BY <1>1, <2>2, <2>3 DEF Awaited
    <3>2. \A x \in Awaited' : items'[x].kind = items[h].kind => x = h
      BY <1>3, <1>5, <2>3, <3>1 DEF HalfIsExcused
    <3> QED BY <1>1, <3>1, <3>2 DEF HalfIsExcused
  <2> QED BY <2>5, <2>6
<1> QED BY <1>7, <1>8, <1>9 DEF AcquiredInv, SplitsAreCalm

LEMMA LoginAcquires == ASSUME Inv, AcquiredInv, NEW p \in Players, Login(p) PROVE AcquiredInv'
<1>1. /\ UNCHANGED <<seen, new, splits, seeded, playerGuid, unread>>
      /\ player = playerGuid /\ player' = p /\ wire' = <<>> /\ wanted' = {} /\ due' = {} /\ halves' = {}
      /\ strays' = {}
      /\ disturbed' = (disturbed \/ p = player)
  BY DEF Login, Act, set, Disturbs
<1>2. SplitsAreCalm' /\ SplitsAreSent'
  BY <1>1 DEF AcquiredInv, SplitsAreSent, SplitsAreCalm, WireIsCalm
<1>3. CASE p = player
  <2>1. Owned' = Owned /\ lastGuid' = lastGuid /\ Armed' = Armed
    BY <1>1, <1>3 DEF Login, Owned, Armed
  <2> QED BY <1>1, <1>2, <1>3, <2>1
         DEF AcquiredInv, HistoryIsKnown, NothingIsForgotten, DueIsFlagged, NewIsWanted
<1>4. CASE p # player
  <2>1. ~Armed' /\ lastGuid' = lastGuid + 1 /\ lastGuid \in Nat
    BY <1>1, <1>4 DEF Login, Armed, Inv, GuidsAreFresh
  <2> QED BY <1>1, <1>2, <2>1
         DEF AcquiredInv, HistoryIsKnown, NothingIsForgotten, DueIsFlagged, NewIsWanted
<1> QED BY <1>3, <1>4

LEMMA AcquiredNext == ASSUME Inv, AcquiredInv, [Next]_vars PROVE AcquiredInv'
<1>1. CASE \E g \in Guids, to \in {"bag", "bank"} : SendSplit(g, to)
  BY <1>1, SendAcquires
<1>2. CASE \E k \in Kinds : Acquire(k)
  BY <1>2, AcquireAcquires
<1>3. CASE \E g \in Guids : AcquireOnto(g) \/ Consume(g) \/ Move(g)
  BY <1>3, TouchesAcquire
<1>4. CASE \E p \in Players : Login(p)
  BY <1>4, LoginAcquires
<1>5. CASE UNCHANGED vars
  BY <1>5 DEF vars, world, set, past, AcquiredInv, SplitsAreSent, HistoryIsKnown, NothingIsForgotten, DueIsFlagged,
              NewIsWanted, SplitsAreCalm, WireIsCalm, SplitIsAwaited, HalfIsExcused, Awaited, Armed, Owned
<1>6. Player => \/ \E g \in Guids, to \in {"bag", "bank"} : SendSplit(g, to)
                \/ \E k \in Kinds : Acquire(k)
                \/ \E g \in Guids : AcquireOnto(g) \/ Consume(g) \/ Move(g)
                \/ \E p \in Players : Login(p)
  BY Zenon DEF Player
<1> QED BY <1>1, <1>2, <1>3, <1>4, <1>5, <1>6, RearmAcquires, BaselineAcquires, ChangedAcquires, AddonAcquires,
           NewStackAcquires, OntoStackAcquires, PacketAcquires DEF Next, Tick, Server

(* Only what was acquired since login is new, and the halves that a scan went by without reading,
   when nothing disturbs a split; and what was acquired is new until it is cleared or gone, when no
   split stood in its way: for any characters, items, splits and missed reads, and whatever the
   order in which a scan comes to the items. *)
THEOREM NewIsAcquired == Spec => []NewIsWhatWasAcquired
<1>1. Init => Inv /\ AcquiredInv
  BY InitInv, AcquiredInit
<1>2. Inv /\ AcquiredInv /\ [Next]_vars => Inv' /\ AcquiredInv'
  BY NextInv, AcquiredNext
<1>3. AcquiredInv => NewIsWhatWasAcquired
  BY DEF AcquiredInv, NewIsWanted, DueIsFlagged, NewIsWhatWasAcquired, NewWasAcquired, AcquiredIsNew
<1> QED BY <1>1, <1>2, <1>3, PTL DEF Spec
=============================================================================
