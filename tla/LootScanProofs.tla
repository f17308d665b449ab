--------------------------- MODULE LootScanProofs ---------------------------
(***************************************************************************)
(* For any corpses, timeouts, acts of the player and answers of the        *)
(* server, or none: each walk completes once, what a walk or LootUnitItem  *)
(* made the player hold is let go, and what walks skip is empty.           *)
(***************************************************************************)
EXTENDS LootScan, FiniteSetTheorems, SequenceTheorems, WellFoundedInduction, TLAPS

Targets == Corpses \cup {"none"}

(* What names a corpse names one, but for the news of a quest. *)
Messages ==
  {m \in [kind : {"open", "refuse", "release", "quest"}, corpse : Targets, empty : BOOLEAN] :
     m.kind # "quest" => m.corpse \in Corpses}

Steps ==
  {s \in [state : {"Idle", "WaitingToSend", "WaitingForResponse"}, cur : Targets,
          age : 0..StepTimeout, lootMode : BOOLEAN, queue : Seq(Corpses)] :
     (s.state = "Idle") = (s.cur = "none")}

Types ==
  /\ lootable \subseteq Corpses /\ seen \subseteq Corpses
  /\ content \in [Corpses -> BOOLEAN]
  /\ player \in {"near", "far", "moving", "mounted"}
  /\ held \in Targets /\ holder \in {"none", "hand", "scan", "item"}
  /\ window \in Targets
  /\ down \in Seq(Messages)
  /\ scan \in Steps
  /\ item \in [state : {"Idle", "WaitingOpen"}, target : Targets, ticks : 0..(ItemTicks - 1)]
  /\ hands \in 0..MaxHands /\ changes \in 0..MaxChanges
  /\ begun \in Nat /\ completed \in Nat

(* Nobody asked for what is not held, and an idle LootUnitItem waits for nothing. *)
NothingIsAskedFor ==
  /\ held = "none" => holder = "none"
  /\ item.state = "Idle" <=> item.target = "none"

Inv == Types /\ NothingIsAskedFor /\ OneCompletionPerWalk /\ NothingIsLeftHeld

-----------------------------------------------------------------------------
(* The last good corpse of a queue is one of it. *)
LEMMA LastIsIn ==
  ASSUME NEW n \in Nat, NEW S \in SUBSET (1..n), S # {}
  PROVE  Max(S) \in S
<1> DEFINE gaps == {n - x : x \in S}
<1>1. gaps \subseteq Nat /\ gaps # {}
  <2>1. \A x \in S : x \in Int /\ n - x \in Nat
    OBVIOUS
  <2> QED BY <2>1
<1>2. PICK m \in gaps : \A k \in gaps : ~(<<k, m>> \in OpToRel(<, Nat))
  <2> HIDE DEF gaps
  <2> QED BY <1>1, WFMin, NatLessThanWellFounded
<1>3. \A k \in gaps : m <= k
  <2> HIDE DEF gaps
  <2> SUFFICES ASSUME NEW k \in gaps, k < m PROVE FALSE
    BY <1>1
  <2>1. <<k, m>> \in OpToRel(<, Nat)
    BY <1>1 DEF OpToRel
  <2> QED BY <2>1, <1>2
<1>4. \E x \in S : \A y \in S : x >= y
  <2>1. PICK x \in S : m = n - x
    BY DEF gaps
  <2>2. ASSUME NEW y \in S PROVE x >= y
    <3>1. n - x <= n - y
      BY <2>1, <1>3
    <3> QED BY <3>1
  <2> QED BY <2>2
<1> QED BY <1>4 DEF Max

LEMMA SetToSeqIsOfIt ==
  ASSUME NEW S \in SUBSET Corpses
  PROVE  SetToSeq(S) \in Seq(Corpses)
<1>1. IsFiniteSet(S)
  BY LootScanAssumption, FS_Subset
<1>2. Cardinality(S) \in Nat /\ ExistsBijection(1..Cardinality(S), S)
  BY <1>1, FS_CardinalityType
<1>3. \E f \in [1..Cardinality(S) -> S] : IsInjective(f)
  BY <1>2 DEF ExistsBijection, Bijection, Injection, IsInjective
<1>4. SetToSeq(S) \in [1..Cardinality(S) -> S]
  BY <1>3 DEF SetToSeq
<1> QED BY <1>2, <1>4

LEMMA MessageIsOne ==
  /\ \A c \in Corpses, kind \in {"open", "refuse", "release"} : Message(kind, c) \in Messages
  /\ Message("quest", "none") \in Messages
<1>1. \A c, kind : /\ Message(kind, c).kind = kind /\ Message(kind, c).corpse = c
                   /\ Message(kind, c).empty \in BOOLEAN
                   /\ Message(kind, c) = [kind |-> kind, corpse |-> c, empty |-> Message(kind, c).empty]
  BY DEF Message
<1> QED BY <1>1 DEF Messages, Targets

LEMMA AnswerFacts ==
  ASSUME NEW c \in Corpses, NEW sofar \in Seq(Messages), Answer(c, sofar)
  PROVE  down' \in Seq(Messages)
  BY MessageIsOne DEF Answer

(* What a walk does next: it holds a corpse and waits for it, or leaves what is
   held alone; and it completes, or goes on. *)
LEMMA NextStep ==
  ASSUME Types, NEW queue \in Seq(Corpses), NEW lootMode \in BOOLEAN, NEW h \in Targets,
         NEW sofar \in Seq(Messages), TryStartNext(queue, lootMode, h, sofar)
  PROVE  /\ scan' \in Steps /\ down' \in Seq(Messages)
         /\ completed' = completed + IF scan'.state = "Idle" THEN 1 ELSE 0
         /\ \/ held' = h /\ holder' = IF h = held THEN holder ELSE "none"
            \/ /\ held' \in Corpses /\ holder' = "scan"
               /\ scan'.state = "WaitingForResponse" /\ scan'.cur = held'
<1> DEFINE good == {n \in DOMAIN queue : Good(queue[n])}
           n == Max(good)
<1>1. IF good = {} THEN Complete(h, sofar)
      ELSE /\ Send(queue[n], "scan", h, sofar)
           /\ scan' = Step(IF SendSucceeds(queue[n], h) THEN "WaitingForResponse" ELSE "WaitingToSend",
                           queue[n], 0, SubSeq(queue, 1, n - 1), lootMode)
           /\ completed' = completed
  BY DEF TryStartNext
<1>2. good # {} => n \in good
  <2>1. Len(queue) \in Nat /\ good \in SUBSET (1..Len(queue))
    OBVIOUS
  <2> HIDE DEF good
  <2> QED BY <2>1, LastIsIn
<1>3. good # {} => n \in 1..Len(queue)
  BY <1>2
<1> HIDE DEF good, n
<1>4. CASE good = {}
  <2>1. scan' = NoWalk /\ completed' = completed + 1 /\ Keeps(h) /\ down' = sofar
    BY <1>1, <1>4 DEF Complete
  <2>2. NoWalk \in Steps
    BY LootScanAssumption DEF NoWalk, Steps, Targets
  <2> QED BY <2>1, <2>2 DEF NoWalk, Keeps
<1>5. CASE good # {}
  <2>1. n \in 1..Len(queue)
    BY <1>3, <1>5
  <2> DEFINE c == queue[n]
             rest == SubSeq(queue, 1, n - 1)
  <2>2. c \in Corpses /\ c # "none" /\ rest \in Seq(Corpses)
    BY <2>1, SubSeqProperties, LootScanAssumption
  <2>3. /\ Send(c, "scan", h, sofar)
        /\ scan' = Step(IF SendSucceeds(c, h) THEN "WaitingForResponse" ELSE "WaitingToSend",
                        c, 0, rest, lootMode)
        /\ completed' = completed
    BY <1>1, <1>5
  <2> HIDE DEF c, rest
  <2>4. scan' \in Steps /\ scan'.state # "Idle" /\ scan'.cur = c
        /\ (SendSucceeds(c, h) => scan'.state = "WaitingForResponse")
    BY <2>2, <2>3, LootScanAssumption DEF Step, Steps, Targets
  <2>5. completed' = completed + IF scan'.state = "Idle" THEN 1 ELSE 0
    BY <2>3, <2>4 DEF Types
  <2>6. CASE CanLootNow(h)
    <3>1. held' = c /\ holder' = "scan" /\ Answer(c, sofar)
      BY <2>3, <2>6 DEF Send, Holds
    <3>2. SendSucceeds(c, h)
      BY <2>6 DEF SendSucceeds, CanLootNow
    <3> QED BY <2>2, <2>4, <2>5, <3>1, <3>2, AnswerFacts
  <2>7. CASE ~CanLootNow(h)
    BY <2>3, <2>4, <2>5, <2>7 DEF Send, Keeps
  <2> QED BY <2>6, <2>7
<1> QED BY <1>4, <1>5

(* The head of what has arrived. *)
LEMMA Arrived ==
  ASSUME Types, NEW kind, Incoming(kind)
  PROVE  /\ Tail(down) \in Seq(Messages) /\ From \in Targets
         /\ kind # "quest" => From \in Corpses
<1>1. Head(down) \in Messages /\ Tail(down) \in Seq(Messages)
  BY HeadTailProperties DEF Types, Incoming
<1> QED BY <1>1 DEF Messages, From, Incoming

-----------------------------------------------------------------------------
(* A walk that goes on, with what was held or with nothing. *)
LEMMA WalkGoesOn ==
  ASSUME Inv, NEW queue \in Seq(Corpses), NEW lootMode \in BOOLEAN, NEW h \in {held, "none"},
         NEW sofar \in Seq(Messages), TryStartNext(queue, lootMode, h, sofar),
         begun' = begun + IF scan.state = "Idle" THEN 1 ELSE 0,
         h # "none" => window' = window /\ ~(scan.state = "WaitingForResponse" /\ scan.cur = held),
         window' \in {window, "none"}, content' \in [Corpses -> BOOLEAN], seen' \in SUBSET Corpses,
         UNCHANGED <<lootable, player, item, bounds>>
  PROVE  Inv'
<1>1. Types /\ h \in Targets
  BY DEF Inv, Types, Targets
<1>2. /\ scan' \in Steps /\ down' \in Seq(Messages)
      /\ completed' = completed + IF scan'.state = "Idle" THEN 1 ELSE 0
      /\ \/ held' = h /\ holder' = IF h = held THEN holder ELSE "none"
         \/ /\ held' \in Corpses /\ holder' = "scan"
            /\ scan'.state = "WaitingForResponse" /\ scan'.cur = held'
  BY <1>1, NextStep
<1>3. Types'
  BY <1>1, <1>2 DEF Types, Targets, bounds
<1>4. NothingIsAskedFor'
  BY <1>2, LootScanAssumption DEF Inv, NothingIsAskedFor
<1>5. OneCompletionPerWalk'
  BY <1>1, <1>2 DEF Inv, OneCompletionPerWalk, Types
<1>6. NothingIsLeftHeld'
  BY <1>2 DEF Inv, NothingIsLeftHeld, NothingIsAskedFor
<1> QED BY <1>3, <1>4, <1>5, <1>6 DEF Inv

LEMMA BeginWalkInv == ASSUME Inv, NEW lootMode \in BOOLEAN, BeginWalk(lootMode) PROVE Inv'
<1>1. PICK some \in SUBSET Corpses : TryStartNext(SetToSeq(some), lootMode, held, down)
  BY DEF BeginWalk
<1>2. SetToSeq(some) \in Seq(Corpses)
  BY SetToSeqIsOfIt
<1>3. /\ scan.state = "Idle" /\ begun' = begun + 1
      /\ UNCHANGED <<world, window, item, bounds>>
  BY DEF BeginWalk
<1>4. down \in Seq(Messages) /\ content \in [Corpses -> BOOLEAN] /\ seen \in SUBSET Corpses
  BY DEF Inv, Types
<1> QED BY <1>1, <1>2, <1>3, <1>4, WalkGoesOn DEF world

(* Nothing but what is held, the window and what has arrived changes. *)
LEMMA HeldOrLetGo ==
  ASSUME Inv, NEW h \in {held, "none"}, Keeps(h), down' \in Seq(Messages), window' \in Targets,
         h # "none" /\ window # "none" => window' # "none",
         content' \in [Corpses -> BOOLEAN], UNCHANGED <<lootable, seen, player, scan, item, bounds, walks>>
  PROVE  Inv'
<1>1. held' = h /\ holder' = IF h = held THEN holder ELSE "none"
  BY DEF Keeps
<1>2. Types'
  BY <1>1 DEF Inv, Types, Targets, bounds, walks
<1>3. NothingIsAskedFor' /\ NothingIsLeftHeld'
  BY <1>1 DEF Inv, NothingIsAskedFor, NothingIsLeftHeld
<1> QED BY <1>2, <1>3 DEF Inv, OneCompletionPerWalk, walks

LEMMA ReceiveInv == ASSUME Inv, Receive PROVE Inv'
<1> USE DEF world, target
<1>1. /\ Types /\ content \in [Corpses -> BOOLEAN] /\ window \in Targets /\ seen \in SUBSET Corpses
      /\ scan.queue \in Seq(Corpses) /\ scan.lootMode \in BOOLEAN
      /\ scan.state = "Idle" <=> scan.cur = "none"
  BY DEF Inv, Types, Steps
<1>2. Keeps(held) <=> UNCHANGED <<held, holder>>
  BY DEF Keeps
<1>3. \A c : Released(c) \in {held, "none"} /\ (held = c => Released(c) = "none")
  BY DEF Released
<1>4. CASE ScanOpens
  <2>1. From \in Corpses /\ Tail(down) \in Seq(Messages) /\ Message("release", From) \in Messages
    BY <1>1, <1>4, Arrived, MessageIsOne DEF ScanOpens
  <2>2. Append(Tail(down), Message("release", From)) \in Seq(Messages)
    BY <2>1
  <2>3. content' \in [Corpses -> BOOLEAN]
    BY <1>1, <1>4 DEF ScanOpens
  <2>4. /\ scan.state = "WaitingForResponse" /\ window' = "none" /\ begun' = begun
        /\ TryStartNext(scan.queue, scan.lootMode, "none", Append(Tail(down), Message("release", From)))
        /\ UNCHANGED <<lootable, seen, player, item, bounds>>
    BY <1>4 DEF ScanOpens, IsScanOpen
  <2>5. begun' = begun + IF scan.state = "Idle" THEN 1 ELSE 0
    BY <1>1, <2>4 DEF Types
  <2>6. "none" \in {held, "none"} /\ window' \in {window, "none"} /\ seen' \in SUBSET Corpses
    BY <1>1, <2>4
  <2>7. scan.queue \in Seq(Corpses) /\ scan.lootMode \in BOOLEAN
    BY <1>1
  <2> HIDE DEF world, target
  <2> QED BY <2>2, <2>3, <2>4, <2>5, <2>6, <2>7, WalkGoesOn
<1>5. CASE OtherOpens
  <2>1. From \in Corpses /\ From # "none" /\ From \in Targets /\ Tail(down) \in Seq(Messages)
    BY <1>1, <1>5, Arrived, LootScanAssumption DEF OtherOpens
  <2> QED BY <1>1, <1>2, <1>5, <2>1, HeldOrLetGo DEF OtherOpens
<1>6. CASE OpenIsIgnored
  BY <1>1, <1>2, <1>6, Arrived, HeldOrLetGo DEF OpenIsIgnored
<1>7. CASE Refused
  BY <1>1, <1>3, <1>7, Arrived, HeldOrLetGo DEF Refused
<1>8. CASE ReleaseArrives
  <2>1. window' \in Targets /\ (held # From => window' = window)
    BY <1>1, <1>8 DEF ReleaseArrives, Targets
  <2> QED BY <1>1, <1>3, <1>8, <2>1, Arrived, HeldOrLetGo DEF ReleaseArrives
<1>9. CASE ForgetEmptyCorpsesOnQuestChange
  BY <1>1, <1>2, <1>9, Arrived, HeldOrLetGo DEF ForgetEmptyCorpsesOnQuestChange
<1> QED BY <1>4, <1>5, <1>6, <1>7, <1>8, <1>9 DEF Receive

-----------------------------------------------------------------------------
(* The ticks. *)

LEMMA OnTickInv == ASSUME Inv, NEW dt \in {0, 1}, OnTick(dt) PROVE Inv'
<1> USE DEF target
<1>1. /\ Types /\ content \in [Corpses -> BOOLEAN] /\ Corpses \in SUBSET Corpses /\ begun \in Nat
      /\ down \in Seq(Messages) /\ window \in Targets /\ held \in Targets
      /\ scan \in Steps /\ scan.queue \in Seq(Corpses) /\ scan.lootMode \in BOOLEAN
      /\ scan.state = "Idle" <=> scan.cur = "none"
      /\ scan.state # "Idle" => scan.cur \in Corpses
  BY DEF Inv, Types, Steps, Targets
<1>2. seen' = Corpses /\ UNCHANGED <<lootable, content, player, item, bounds, begun>>
  BY DEF OnTick, TickIdle, TickWaitingToSend, TickWaitingForResponse, Tick
<1>3. ASSUME UNCHANGED <<target, window, down, completed>>, scan' \in Steps,
             scan'.state = scan.state, scan'.cur = scan.cur
      PROVE  Inv'
  BY <1>1, <1>2, <1>3 DEF Inv, Types, NothingIsAskedFor, OneCompletionPerWalk, NothingIsLeftHeld, bounds
<1>4. scan.state # "Idle" => [scan EXCEPT !.age = Later(dt)] \in Steps
  <2>1. Later(dt) \in 0..StepTimeout
    BY <1>1, LootScanAssumption DEF Later, Steps
  <2> QED BY <1>1, <2>1 DEF Steps
<1>5. CASE TickIdle(dt)
  BY <1>1, <1>3, <1>5 DEF TickIdle
<1>6. CASE TickWaitingToSend(dt)
  <2>1. scan.state = "WaitingToSend" /\ window' = window
    BY <1>6 DEF TickWaitingToSend
  <2>2. CASE Complete(held, down)
    <3>1. /\ scan' = NoWalk /\ completed' = completed + 1 /\ down' = down
          /\ held' = held /\ holder' = holder
      BY <2>2 DEF Complete, Keeps
    <3>2. NoWalk \in Steps
      BY LootScanAssumption DEF NoWalk, Steps, Targets
    <3> QED BY <1>1, <1>2, <2>1, <3>1, <3>2 DEF Inv, Types, NothingIsAskedFor, OneCompletionPerWalk,
               NothingIsLeftHeld, NoWalk, bounds
  <2>3. CASE scan' = [scan EXCEPT !.age = Later(dt)] /\ UNCHANGED <<target, down, completed>>
    <3>1. scan'.state = scan.state /\ scan'.cur = scan.cur
      BY <1>1, <2>3 DEF Steps
    <3> QED BY <1>3, <1>4, <2>1, <2>3, <3>1
  <2>4. CASE TryStartNext(Append(scan.queue, scan.cur), scan.lootMode, held, down)
    <3>1. Append(scan.queue, scan.cur) \in Seq(Corpses)
      BY <1>1, <2>1
    <3>2. begun' = begun + IF scan.state = "Idle" THEN 1 ELSE 0
      BY <1>1, <1>2, <2>1
    <3> QED BY <1>1, <1>2, <2>1, <2>4, <3>1, <3>2, WalkGoesOn
  <2> QED BY <1>6, <2>2, <2>3, <2>4 DEF TickWaitingToSend
<1>7. CASE TickWaitingForResponse(dt)
  <2>1. scan.state = "WaitingForResponse"
    BY <1>7 DEF TickWaitingForResponse
  <2>2. begun' = begun + IF scan.state = "Idle" THEN 1 ELSE 0
    BY <1>1, <1>2, <2>1
  <2>3. CASE held # scan.cur
    <3>1. UNCHANGED window /\ TryStartNext(scan.queue, scan.lootMode, held, down)
      BY <1>7, <2>3 DEF TickWaitingForResponse
    <3> QED BY <1>1, <1>2, <2>2, <2>3, <3>1, WalkGoesOn
  <2>4. CASE held = scan.cur /\ Later(dt) >= StepTimeout
    <3>1. window' = "none" /\ TryStartNext(scan.queue, scan.lootMode, "none", down)
      BY <1>7, <2>4 DEF TickWaitingForResponse, Released
    <3> QED BY <1>1, <1>2, <2>2, <3>1, WalkGoesOn
  <2>5. CASE held = scan.cur /\ ~(Later(dt) >= StepTimeout)
    <3>1. scan' = [scan EXCEPT !.age = Later(dt)] /\ UNCHANGED <<target, window, down, completed>>
      BY <1>7, <2>5 DEF TickWaitingForResponse
    <3>2. scan'.state = scan.state /\ scan'.cur = scan.cur
      BY <1>1, <3>1 DEF Steps
    <3> QED BY <1>3, <1>4, <2>1, <3>1, <3>2
  <2> QED BY <2>3, <2>4, <2>5
<1> QED BY <1>5, <1>6, <1>7 DEF OnTick

LEMMA ItemTickInv == ASSUME Inv, ItemTick PROVE Inv'
<1> USE DEF target
<1>1. /\ item.state = "WaitingOpen"
      /\ UNCHANGED <<lootable, seen, player, down, scan, bounds, walks>>
  BY DEF ItemTick
<1>2. /\ Types /\ item.target \in Corpses /\ content \in [Corpses -> BOOLEAN] /\ item.ticks \in 0..(ItemTicks - 1)
  BY <1>1 DEF Inv, Types, NothingIsAskedFor, Targets
<1>3. \/ item' = NoItem
      \/ item' = [item EXCEPT !.ticks = @ + 1] /\ item.ticks + 1 < ItemTicks
  <2>1. ItemTicks \in Nat /\ item.ticks \in Nat
    BY <1>2, LootScanAssumption
  <2>2. CASE window = item.target \/ item.ticks + 1 >= ItemTicks
    BY <2>2 DEF ItemTick
  <2>3. CASE window # item.target /\ ~(item.ticks + 1 >= ItemTicks)
    <3>1. item' = [item EXCEPT !.ticks = @ + 1]
      BY <2>3 DEF ItemTick
    <3> QED BY <2>1, <2>3, <3>1
  <2> QED BY <2>2, <2>3
<1>4. /\ item' \in [state : {"Idle", "WaitingOpen"}, target : Targets, ticks : 0..(ItemTicks - 1)]
      /\ item'.state = "Idle" <=> item'.target = "none"
  BY <1>1, <1>2, <1>3, LootScanAssumption DEF NoItem, Types, Targets
<1>5. CASE window = item.target
  <2>1. content' \in [Corpses -> BOOLEAN] /\ UNCHANGED <<held, holder, window>> /\ window # "none"
    BY <1>2, <1>5, LootScanAssumption DEF ItemTick
  <2>2. Types'
    BY <1>1, <1>2, <1>4, <2>1 DEF Types, bounds, walks
  <2> QED BY <1>1, <1>4, <2>1, <2>2 DEF Inv, NothingIsAskedFor, OneCompletionPerWalk, NothingIsLeftHeld, walks
<1>6. CASE window # item.target /\ item' = NoItem /\ held = item.target
  <2>1. content' = content /\ held' = "none" /\ holder' = "none" /\ window' = "none"
    <3>1. item # NoItem /\ item # [item EXCEPT !.ticks = @ + 1]
      BY <1>1, <1>2 DEF NoItem, Types
    <3>2. Keeps(Released(item.target)) /\ window' = IF held = item.target THEN "none" ELSE window
      BY <1>1, <1>2, <1>6 DEF ItemTick, NoItem, Types
    <3> QED BY <1>2, <1>6, <3>2, LootScanAssumption DEF ItemTick, Keeps, Released
  <2>2. Types'
    BY <1>1, <1>2, <1>4, <2>1 DEF Types, Targets, bounds, walks
  <2> QED BY <1>1, <1>4, <2>1, <2>2 DEF Inv, NothingIsAskedFor, OneCompletionPerWalk, NothingIsLeftHeld, walks
<1>7. CASE window # item.target /\ ~(item' = NoItem /\ held = item.target)
  <2>1. content' = content /\ UNCHANGED <<held, holder, window>> /\ (held = item.target => item'.target = item.target)
    BY <1>2, <1>3, <1>7 DEF ItemTick, Keeps, Released, Types
  <2>2. Types'
    BY <1>1, <1>2, <1>4, <2>1 DEF Types, bounds, walks
  <2> QED BY <1>1, <1>4, <2>1, <2>2 DEF Inv, NothingIsAskedFor, OneCompletionPerWalk, NothingIsLeftHeld, walks
<1> QED BY <1>5, <1>6, <1>7

-----------------------------------------------------------------------------
(* The player, the world and LootUnitItem. *)

(* A request from the hand or LootUnitItem. *)
LEMMA SendInv ==
  ASSUME Inv, NEW c \in Corpses, NEW who \in {"hand", "item"}, Send(c, who, held, down),
         CanLootNow(held) \/ held = c, item.state = "Idle" \/ (who = "hand" /\ CanLootNow(held)),
         item' \in [state : {"Idle", "WaitingOpen"}, target : Targets, ticks : 0..(ItemTicks - 1)],
         item'.state = "Idle" <=> item'.target = "none",
         item.state # "Idle" => item' = item, who = "item" => item'.target = c,
         hands' \in 0..MaxHands, changes' = changes,
         UNCHANGED <<world, window, scan, walks>>
  PROVE  Inv'
<1>1. Types /\ c # "none" /\ c \in Targets /\ down \in Seq(Messages)
  BY LootScanAssumption DEF Inv, Types, Targets
<1>2. CASE CanLootNow(held)
  <2>1. held = "none" /\ held' = c /\ holder' = who /\ Answer(c, down)
    BY <1>2 DEF Send, Holds, CanLootNow
  <2>2. down' \in Seq(Messages)
    BY <1>1, <2>1, AnswerFacts
  <2>3. Types'
    BY <1>1, <2>1, <2>2 DEF Types, world, walks
  <2>4. NothingIsAskedFor'
    BY <1>1, <2>1 DEF NothingIsAskedFor
  <2>5. NothingIsLeftHeld'
    BY <2>1 DEF NothingIsLeftHeld
  <2>6. OneCompletionPerWalk'
    BY DEF Inv, OneCompletionPerWalk, walks
  <2> QED BY <2>3, <2>4, <2>5, <2>6 DEF Inv
<1>3. CASE ~CanLootNow(held)
  <2>1. held = c /\ item.state = "Idle"
    BY <1>3
  <2>2. UNCHANGED <<held, holder, down>>
    BY <1>3 DEF Send, Keeps
  <2>3. item.target = "none" /\ item.target # held
    BY <1>1, <2>1 DEF Inv, NothingIsAskedFor
  <2>4. Types'
    BY <1>1, <2>2 DEF Types, world, walks
  <2>5. NothingIsAskedFor' /\ NothingIsLeftHeld'
    BY <2>2, <2>3 DEF Inv, NothingIsAskedFor, NothingIsLeftHeld
  <2>6. OneCompletionPerWalk'
    BY DEF Inv, OneCompletionPerWalk, walks
  <2> QED BY <2>4, <2>5, <2>6 DEF Inv
<1> QED BY <1>2, <1>3

LEMMA LootUnitItemInv == ASSUME Inv, NEW c \in Corpses, LootUnitItem(c) PROVE Inv'
<1>1. /\ item.state = "Idle" /\ (CanLootNow(held) \/ held = c)
      /\ Send(c, "item", held, down) /\ hands < MaxHands /\ hands' = hands + 1 /\ changes' = changes
      /\ item' = [state |-> "WaitingOpen", target |-> c, ticks |-> 0]
      /\ UNCHANGED <<world, window, scan, walks>>
  BY DEF LootUnitItem, SendSucceeds
<1>2. hands' \in 0..MaxHands
  BY <1>1, LootScanAssumption DEF Inv, Types
<1>3. 0 \in 0..(ItemTicks - 1) /\ c # "none" /\ c \in Targets
  BY LootScanAssumption DEF Targets
<1>4. /\ item' \in [state : {"Idle", "WaitingOpen"}, target : Targets, ticks : 0..(ItemTicks - 1)]
      /\ item'.state = "Idle" <=> item'.target = "none"
      /\ item'.target = c
  BY <1>1, <1>3
<1> QED BY <1>1, <1>2, <1>4, SendInv

LEMMA HandInv == ASSUME Inv, NEW c \in Corpses, Hand(c) PROVE Inv'
<1>1. /\ CanLootNow(held) /\ Send(c, "hand", held, down)
      /\ hands < MaxHands /\ hands' = hands + 1 /\ changes' = changes
      /\ item' = item /\ UNCHANGED <<world, window, scan, walks>>
  BY DEF Hand
<1>2. hands' \in 0..MaxHands
  BY <1>1, LootScanAssumption DEF Inv, Types
<1>3. /\ item' \in [state : {"Idle", "WaitingOpen"}, target : Targets, ticks : 0..(ItemTicks - 1)]
      /\ item'.state = "Idle" <=> item'.target = "none"
  BY <1>1 DEF Inv, Types, NothingIsAskedFor
<1> QED BY <1>1, <1>2, <1>3, SendInv

LEMMA CloseWindowInv == ASSUME Inv, CloseWindow PROVE Inv'
<1>1. window \in Corpses /\ down \in Seq(Messages) /\ content \in [Corpses -> BOOLEAN]
  BY DEF CloseWindow, Inv, Types, Targets
<1>2. Message("release", window) \in Messages
  BY <1>1, MessageIsOne
<1>3. down' \in Seq(Messages)
  BY <1>1, <1>2 DEF CloseWindow
<1> QED BY <1>1, <1>3, HeldOrLetGo DEF CloseWindow, Targets, world

(* What leaves the loot target, the window and both requests alone. *)
LEMMA WorldInv ==
  ASSUME Inv, lootable' \subseteq Corpses, seen' \subseteq Corpses, content' \in [Corpses -> BOOLEAN],
         player' \in {"near", "far", "moving", "mounted"}, down' \in Seq(Messages),
         changes' \in 0..MaxChanges,
         UNCHANGED <<target, window, scan, item, hands, walks>>
  PROVE  Inv'
<1>1. Types'
  BY DEF Inv, Types, target, walks
<1>2. NothingIsAskedFor' /\ OneCompletionPerWalk' /\ NothingIsLeftHeld'
  BY DEF Inv, NothingIsAskedFor, OneCompletionPerWalk, NothingIsLeftHeld, target, walks
<1> QED BY <1>1, <1>2 DEF Inv

LEMMA ChangeIsBounded ==
  ASSUME Inv, Change \/ UNCHANGED bounds
  PROVE  changes' \in 0..MaxChanges /\ hands' = hands
BY LootScanAssumption DEF Change, bounds, Inv, Types

LEMMA MovesInv ==
  ASSUME Inv, NEW to \in {"near", "far", "moving", "mounted"}, Moves(to) PROVE Inv'
<1>1. changes' \in 0..MaxChanges /\ hands' = hands
  BY ChangeIsBounded DEF Moves
<1> QED BY <1>1, WorldInv DEF Moves, Inv, Types

LEMMA UnitsInv ==
  ASSUME Inv, NEW c \in Corpses, LootUnitItemNow(c) \/ UnitChanges(c) \/ QuestChange(c)
  PROVE  Inv'
<1>1. /\ lootable \subseteq Corpses /\ seen \subseteq Corpses /\ content \in [Corpses -> BOOLEAN]
      /\ player \in {"near", "far", "moving", "mounted"} /\ down \in Seq(Messages)
  BY DEF Inv, Types
<1>2. CASE LootUnitItemNow(c)
  <2>1. changes' \in 0..MaxChanges /\ hands' = hands
    BY <1>2, ChangeIsBounded DEF LootUnitItemNow
  <2>2. content' \in [Corpses -> BOOLEAN]
    BY <1>1, <1>2 DEF LootUnitItemNow
  <2> QED BY <1>1, <1>2, <2>1, <2>2, WorldInv DEF LootUnitItemNow
<1>3. CASE UnitChanges(c)
  <2>1. changes' \in 0..MaxChanges /\ hands' = hands
    <3>1. Change \/ UNCHANGED bounds
      BY <1>3 DEF UnitChanges
    <3> QED BY <3>1, ChangeIsBounded
  <2>2. /\ content' \in [Corpses -> BOOLEAN] /\ lootable' \subseteq Corpses /\ seen' \subseteq Corpses
    BY <1>1, <1>3 DEF UnitChanges, IsLootable
  <2> QED BY <1>1, <1>3, <2>1, <2>2, WorldInv DEF UnitChanges
<1>4. CASE QuestChange(c)
  <2>1. changes' \in 0..MaxChanges /\ hands' = hands
    BY <1>4, ChangeIsBounded DEF QuestChange
  <2>2. content' \in [Corpses -> BOOLEAN] /\ down' \in Seq(Messages)
    BY <1>1, <1>4, MessageIsOne DEF QuestChange
  <2> QED BY <1>1, <1>4, <2>1, <2>2, WorldInv DEF QuestChange
<1> QED BY <1>2, <1>3, <1>4

-----------------------------------------------------------------------------
LEMMA InitInv == Init => Inv
<1> SUFFICES ASSUME Init PROVE Inv
  OBVIOUS
<1>1. NoWalk \in Steps
  BY LootScanAssumption DEF NoWalk, Steps, Targets
<1>2. NoItem \in [state : {"Idle", "WaitingOpen"}, target : Targets, ticks : 0..(ItemTicks - 1)]
  BY LootScanAssumption DEF NoItem, Targets
<1>3. Types
  BY <1>1, <1>2, LootScanAssumption DEF Init, Types, Targets
<1>4. NothingIsAskedFor /\ OneCompletionPerWalk /\ NothingIsLeftHeld
  BY DEF Init, NothingIsAskedFor, OneCompletionPerWalk, NothingIsLeftHeld, NoWalk, NoItem
<1> QED BY <1>3, <1>4 DEF Inv

LEMMA StepInv == Inv /\ [Next]_vars => Inv'
<1> SUFFICES ASSUME Inv, [Next]_vars PROVE Inv'
  OBVIOUS
<1>1. CASE UNCHANGED vars
  BY <1>1, WorldInv DEF vars, world, bounds, Inv, Types
<1>2. CASE \E lootMode \in BOOLEAN : BeginWalk(lootMode)
  BY <1>2, BeginWalkInv
<1>3. CASE Receive
  BY <1>3, ReceiveInv
<1>4. CASE \E dt \in {0, 1} : OnTick(dt)
  BY <1>4, OnTickInv
<1>5. CASE ItemTick
  BY <1>5, ItemTickInv
<1>6. ASSUME NEW c \in Corpses,
             LootUnitItemNow(c) \/ LootUnitItem(c) \/ Hand(c) \/ UnitChanges(c) \/ QuestChange(c)
      PROVE  Inv'
  BY <1>6, LootUnitItemInv, HandInv, UnitsInv
<1>7. CASE CloseWindow
  BY <1>7, CloseWindowInv
<1>8. CASE \E to \in {"near", "far", "moving", "mounted"} \ {player} : Moves(to)
  BY <1>8, MovesInv
<1> QED BY <1>1, <1>2, <1>3, <1>4, <1>5, <1>6, <1>7, <1>8 DEF Next

LEMMA Invariance == Spec => []Inv
<1> QED BY InitInv, StepInv, PTL DEF Spec

-----------------------------------------------------------------------------
(* What is skipped.  A quest change is on its way. *)
QuestComing(s) == \E n \in DOMAIN s : s[n].kind = "quest"

(* Of what the server has sent, given the lootable units and what they have: an
   open names a lootable one, and what it calls empty is, but for a quest behind. *)
Honest(s, units, has) ==
  \A n \in DOMAIN s : s[n].kind = "open" =>
    /\ s[n].corpse \in units
    /\ s[n].empty => \/ ~has[s[n].corpse]
                     \/ \E later \in DOMAIN s : later > n /\ s[later].kind = "quest"

TrulyEmpty(c) == IF c \in lootable THEN ~content[c] \/ QuestComing(down) ELSE c \notin seen

SkipInv ==
  /\ empties \subseteq Corpses
  /\ \A c \in empties : TrulyEmpty(c)
  /\ Honest(down, lootable, content)

LEMMA HonestTail ==
  ASSUME NEW s \in Seq(Messages), s # <<>>, NEW units, NEW has, Honest(s, units, has)
  PROVE  /\ Honest(Tail(s), units, has)
         /\ Head(s).kind # "quest" => (QuestComing(s) => QuestComing(Tail(s)))
         /\ Head(s).kind = "open" =>
              /\ Head(s).corpse \in units
              /\ Head(s).empty => ~has[Head(s).corpse] \/ QuestComing(Tail(s))
<1>1. /\ Len(s) \in Nat /\ Len(s) # 0 /\ DOMAIN s = 1..Len(s) /\ Head(s) = s[1]
      /\ DOMAIN Tail(s) = 1..(Len(s) - 1)
      /\ \A n \in 1..(Len(s) - 1) : Tail(s)[n] = s[n + 1]
  BY HeadTailProperties, EmptySeq, LenProperties
<1>2. \A n \in DOMAIN s : n # 1 => n - 1 \in DOMAIN Tail(s) /\ Tail(s)[n - 1] = s[n]
  <2> TAKE n \in DOMAIN s
  <2> HAVE n # 1
  <2>1. n - 1 \in 1..(Len(s) - 1) /\ (n - 1) + 1 = n
    BY <1>1
  <2> QED BY <1>1, <2>1
<1>3. Honest(Tail(s), units, has)
  <2> SUFFICES ASSUME NEW n \in DOMAIN Tail(s), Tail(s)[n].kind = "open"
               PROVE  /\ Tail(s)[n].corpse \in units
                      /\ Tail(s)[n].empty => \/ ~has[Tail(s)[n].corpse]
                                             \/ \E later \in DOMAIN Tail(s) : later > n /\ Tail(s)[later].kind = "quest"
    BY DEF Honest
  <2>1. n + 1 \in DOMAIN s /\ Tail(s)[n] = s[n + 1]
    BY <1>1
  <2>2. ASSUME NEW later \in DOMAIN s, later > n + 1, s[later].kind = "quest"
        PROVE  \E m \in DOMAIN Tail(s) : m > n /\ Tail(s)[m].kind = "quest"
    <3>1. later - 1 \in DOMAIN Tail(s) /\ Tail(s)[later - 1] = s[later] /\ later - 1 > n
      BY <1>1, <1>2, <2>2
    <3> QED BY <2>2, <3>1
  <2> QED BY <2>1, <2>2 DEF Honest
<1>4. ASSUME NEW n \in DOMAIN s, n # 1, s[n].kind = "quest" PROVE QuestComing(Tail(s))
  BY <1>2, <1>4 DEF QuestComing
<1>5. Head(s).kind # "quest" => (QuestComing(s) => QuestComing(Tail(s)))
  BY <1>1, <1>4 DEF QuestComing
<1>6. 1 \in DOMAIN s /\ \A n \in DOMAIN s : n > 1 => n # 1
  BY <1>1
<1> QED BY <1>1, <1>3, <1>4, <1>5, <1>6 DEF Honest

LEMMA HonestAppend ==
  ASSUME NEW s \in Seq(Messages), NEW m \in Messages, NEW units, NEW has, Honest(s, units, has),
         m.kind = "open" => m.corpse \in units /\ (m.empty => ~has[m.corpse])
  PROVE  /\ Honest(Append(s, m), units, has)
         /\ QuestComing(s) => QuestComing(Append(s, m))
<1> DEFINE t == Append(s, m)
<1>1. /\ Len(s) \in Nat /\ DOMAIN s = 1..Len(s) /\ DOMAIN t = 1..(Len(s) + 1)
      /\ \A n \in DOMAIN s : n \in DOMAIN t /\ t[n] = s[n]
      /\ t[Len(s) + 1] = m
  BY AppendProperties, LenProperties
<1> HIDE DEF t
<1>2. ASSUME NEW n \in DOMAIN t PROVE n \in DOMAIN s \/ n = Len(s) + 1
  BY <1>1
<1>3. QuestComing(s) => QuestComing(t)
  BY <1>1 DEF QuestComing
<1>4. Honest(t, units, has)
  <2> SUFFICES ASSUME NEW n \in DOMAIN t, t[n].kind = "open"
               PROVE  /\ t[n].corpse \in units
                      /\ t[n].empty => \/ ~has[t[n].corpse]
                                       \/ \E later \in DOMAIN t : later > n /\ t[later].kind = "quest"
    BY DEF Honest
  <2>1. CASE n \in DOMAIN s
    BY <1>1, <2>1 DEF Honest
  <2>2. CASE n = Len(s) + 1
    BY <1>1, <2>2
  <2> QED BY <1>2, <2>1, <2>2
<1> QED BY <1>3, <1>4 DEF t

(* A quest change behind all of it makes anything honest that names what it may. *)
LEMMA HonestWithQuest ==
  ASSUME NEW s \in Seq(Messages), NEW m \in Messages, m.kind = "quest",
         NEW units, NEW has, NEW had, Honest(s, units, had)
  PROVE  Honest(Append(s, m), units, has) /\ QuestComing(Append(s, m))
<1> DEFINE t == Append(s, m)
<1>1. /\ Len(s) \in Nat /\ DOMAIN s = 1..Len(s) /\ DOMAIN t = 1..(Len(s) + 1)
      /\ \A n \in DOMAIN s : t[n] = s[n]
      /\ t[Len(s) + 1] = m /\ Len(s) + 1 \in DOMAIN t
  BY AppendProperties, LenProperties
<1> HIDE DEF t
<1>2. ASSUME NEW n \in DOMAIN t, t[n].kind = "open"
      PROVE  n \in DOMAIN s /\ Len(s) + 1 > n
  BY <1>1, <1>2
<1>3. Honest(t, units, has)
  BY <1>1, <1>2 DEF Honest
<1> QED BY <1>1, <1>3 DEF t, QuestComing

LEMMA HonestOfLess ==
  ASSUME NEW s \in Seq(Messages), NEW units \in SUBSET Corpses, NEW has, NEW had, Honest(s, units, had),
         \A c \in Corpses : has[c] => had[c]
  PROVE  Honest(s, units, has)
BY DEF Honest

(* The server answers honestly, and takes nothing back. *)
LEMMA NextIsHonest ==
  ASSUME Types, NEW queue \in Seq(Corpses), NEW lootMode \in BOOLEAN, NEW h \in Targets,
         NEW sofar \in Seq(Messages), Honest(sofar, lootable, content),
         \/ TryStartNext(queue, lootMode, h, sofar)
         \/ \E c \in Corpses, who \in {"hand", "item"} : Send(c, who, h, sofar)
  PROVE  /\ down' \in Seq(Messages) /\ Honest(down', lootable, content)
         /\ QuestComing(sofar) => QuestComing(down')
<1>1. down' = sofar \/ \E c \in Corpses : Answer(c, sofar)
  <2>1. ASSUME NEW c \in Corpses, NEW who, Send(c, who, h, sofar)
        PROVE  down' = sofar \/ Answer(c, sofar)
    BY <2>1 DEF Send
  <2>2. CASE TryStartNext(queue, lootMode, h, sofar)
    <3> DEFINE good == {n \in DOMAIN queue : Good(queue[n])}
               n == Max(good)
    <3>1. CASE good = {}
      BY <2>2, <3>1 DEF TryStartNext, Complete
    <3>2. CASE good # {}
      <4>1. Send(queue[n], "scan", h, sofar)
        BY <2>2, <3>2 DEF TryStartNext
      <4>2. Len(queue) \in Nat /\ good \in SUBSET (1..Len(queue))
        OBVIOUS
      <4>3. n \in good
        <5> HIDE DEF good
        <5> QED BY <3>2, <4>2, LastIsIn
      <4>4. queue[n] \in Corpses
        BY <4>3
      <4> HIDE DEF n, good
      <4> QED BY <2>1, <4>1, <4>4
    <3> QED BY <3>1, <3>2
  <2> QED BY <2>1, <2>2
<1>2. ASSUME NEW c \in Corpses, Answer(c, sofar)
      PROVE  /\ Honest(down', lootable, content)
             /\ QuestComing(sofar) => QuestComing(down')
  <2>1. /\ \A kind : Message(kind, c).kind = kind /\ Message(kind, c).corpse = c
        /\ Message("open", c).empty => ~content[c]
    BY DEF Message
  <2>2. Message("open", c) \in Messages /\ Message("refuse", c) \in Messages
    BY MessageIsOne
  <2>3. CASE IsLootable(c) /\ down' = Append(sofar, Message("open", c))
    BY <2>1, <2>2, <2>3, HonestAppend DEF IsLootable
  <2>4. CASE down' = Append(sofar, Message("refuse", c))
    BY <2>1, <2>2, <2>4, HonestAppend
  <2> QED BY <1>2, <2>3, <2>4 DEF Answer
<1> QED BY <1>1, <1>2, AnswerFacts

(* Nothing comes or goes: what is skipped was skipped, or is empty. *)
LEMMA SkipKept ==
  ASSUME Types, SkipInv, UNCHANGED <<lootable, seen>>, content' \in [Corpses -> BOOLEAN],
         \A c \in Corpses : content'[c] => content[c],
         down' \in Seq(Messages), Honest(down', lootable, content),
         empties' # {} => (QuestComing(down) => QuestComing(down')),
         \A c \in empties' : \/ c \in empties
                             \/ c \in lootable /\ (~content[c] \/ QuestComing(down'))
  PROVE  SkipInv'
<1>1. empties' \subseteq Corpses
  BY DEF SkipInv, Types
<1>2. ASSUME NEW c \in empties' PROVE TrulyEmpty(c)'
  <2>1. c \in Corpses /\ (content'[c] => content[c])
    BY <1>1
  <2>2. QuestComing(down)' <=> QuestComing(down')
    BY DEF QuestComing
  <2>3. CASE c \in empties
    <3>1. TrulyEmpty(c) /\ (QuestComing(down) => QuestComing(down'))
      BY <2>3, <1>2 DEF SkipInv
    <3> QED BY <2>1, <2>2, <3>1 DEF TrulyEmpty
  <2>4. CASE c \notin empties
    BY <2>1, <2>2, <2>4 DEF TrulyEmpty
  <2> QED BY <2>3, <2>4
<1>3. Honest(down', lootable, content')
  BY HonestOfLess DEF Types
<1> QED BY <1>1, <1>2, <1>3 DEF SkipInv, Honest

LEMMA ReceiveSkips == ASSUME Inv, SkipInv, Receive PROVE SkipInv'
<1> USE DEF world, target
<1>1. /\ Types /\ content \in [Corpses -> BOOLEAN] /\ down \in Seq(Messages)
      /\ scan.queue \in Seq(Corpses) /\ scan.lootMode \in BOOLEAN
      /\ Honest(down, lootable, content)
  BY DEF Inv, Types, Steps, SkipInv
<1>2. ASSUME NEW kind, Incoming(kind)
      PROVE  /\ down # <<>> /\ Head(down).kind = kind /\ Tail(down) \in Seq(Messages)
             /\ Honest(Tail(down), lootable, content)
             /\ kind # "quest" => (QuestComing(down) => QuestComing(Tail(down)))
             /\ kind = "open" => /\ From \in lootable
                                 /\ Head(down).empty => ~content[From] \/ QuestComing(Tail(down))
  BY <1>1, <1>2, Arrived, HonestTail DEF Incoming, From
<1>3. ASSUME NEW kind \in {"open", "refuse", "release"}, Incoming(kind), down' = Tail(down),
             UNCHANGED <<world, empties>>
      PROVE  SkipInv'
  BY <1>1, <1>2, <1>3, SkipKept
<1>4. CASE ScanOpens
  <2> DEFINE before == Tail(down)
             release == Message("release", From)
             rest == Append(before, release)
  <2>1. /\ Incoming("open") /\ UNCHANGED <<lootable, seen>>
        /\ TryStartNext(scan.queue, scan.lootMode, "none", rest)
        /\ empties' = IF scan.lootMode /\ Head(down).empty THEN empties \cup {From} ELSE empties
    BY <1>4 DEF ScanOpens
  <2>2. content' \in [Corpses -> BOOLEAN] /\ \A c \in Corpses : content'[c] => content[c]
    <3>1. CASE content' = content
      BY <1>1, <3>1
    <3>2. CASE \E left \in BOOLEAN : content' = [content EXCEPT ![From] = @ /\ left]
      BY <1>1, <3>2
    <3> QED BY <1>4, <3>1, <3>2 DEF ScanOpens
  <2>3. From \in Corpses /\ Message("release", From) \in Messages /\ Message("release", From).kind = "release"
    <3>1. From \in Corpses
      BY <1>1, <2>1, Arrived
    <3>2. Message("release", From) \in Messages
      BY <3>1, MessageIsOne
    <3> QED BY <3>1, <3>2 DEF Message
  <2>4. /\ rest \in Seq(Messages) /\ Honest(rest, lootable, content)
        /\ QuestComing(before) => QuestComing(rest)
    <3>1. before \in Seq(Messages) /\ Honest(before, lootable, content)
      BY <1>2, <2>1
    <3>2. release \in Messages /\ release.kind # "open"
      BY <2>3
    <3> HIDE DEF before, release
    <3> QED BY <3>1, <3>2, HonestAppend
  <2> HIDE DEF rest
  <2>5. /\ down' \in Seq(Messages) /\ Honest(down', lootable, content)
        /\ QuestComing(rest) => QuestComing(down')
    BY <1>1, <2>1, <2>4, NextIsHonest DEF Targets
  <2>6. \A c \in empties' : c \in empties \/ (c \in lootable /\ (~content[c] \/ QuestComing(down')))
    BY <1>2, <2>1, <2>4, <2>5
  <2>7. QuestComing(down) => QuestComing(down')
    BY <1>2, <2>1, <2>4, <2>5
  <2> QED BY <1>1, <2>1, <2>2, <2>5, <2>6, <2>7, SkipKept
<1>5. CASE OtherOpens \/ OpenIsIgnored
  BY <1>3, <1>5 DEF OtherOpens, OpenIsIgnored
<1>6. CASE Refused \/ ReleaseArrives
  BY <1>3, <1>6 DEF Refused, ReleaseArrives
<1>7. CASE ForgetEmptyCorpsesOnQuestChange
  BY <1>1, <1>2, <1>7, SkipKept DEF ForgetEmptyCorpsesOnQuestChange
<1> QED BY <1>4, <1>5, <1>6, <1>7 DEF Receive

(* A tick forgets what is not lootable, before a second change of it can go unseen. *)
LEMMA OnTickSkips == ASSUME Inv, SkipInv, NEW dt \in {0, 1}, OnTick(dt) PROVE SkipInv'
<1> USE DEF target
<1>1. /\ Types /\ down \in Seq(Messages) /\ held \in Targets /\ scan.cur \in Targets
      /\ scan.queue \in Seq(Corpses) /\ scan.lootMode \in BOOLEAN
      /\ scan.state # "Idle" => scan.cur \in Corpses
      /\ Honest(down, lootable, content)
  BY DEF Inv, Types, Steps, Targets, SkipInv
<1>2. UNCHANGED <<lootable, content>> /\ empties' = {c \in empties : c \in lootable}
  BY DEF OnTick, TickIdle, TickWaitingToSend, TickWaitingForResponse, Tick, PruneEmptyCorpses, IsLootable
<1>3. Honest(down', lootable, content) /\ (QuestComing(down) => QuestComing(down'))
  <2>1. ASSUME down' = down PROVE Honest(down', lootable, content) /\ (QuestComing(down) => QuestComing(down'))
    BY <1>1, <2>1
  <2>2. ASSUME NEW queue \in Seq(Corpses), NEW h \in Targets, TryStartNext(queue, scan.lootMode, h, down)
        PROVE  Honest(down', lootable, content) /\ (QuestComing(down) => QuestComing(down'))
    BY <1>1, <2>2, NextIsHonest
  <2>3. Released(scan.cur) \in Targets
    BY <1>1 DEF Released, Targets
  <2>4. CASE TickIdle(dt)
    BY <2>1, <2>4 DEF TickIdle
  <2>5. CASE TickWaitingToSend(dt)
    <3>1. Append(scan.queue, scan.cur) \in Seq(Corpses)
      BY <1>1, <2>5 DEF TickWaitingToSend
    <3> QED BY <1>1, <2>1, <2>2, <2>5, <3>1 DEF TickWaitingToSend, Complete
  <2>6. CASE TickWaitingForResponse(dt)
    BY <1>1, <2>1, <2>2, <2>3, <2>6 DEF TickWaitingForResponse
  <2> QED BY <2>4, <2>5, <2>6 DEF OnTick
<1>4. ASSUME NEW c \in empties' PROVE TrulyEmpty(c)'
  <2>1. c \in lootable /\ TrulyEmpty(c)
    BY <1>2 DEF SkipInv
  <2>2. QuestComing(down)' <=> QuestComing(down')
    BY DEF QuestComing
  <2> QED BY <1>2, <1>3, <2>1, <2>2 DEF TrulyEmpty
<1> QED BY <1>2, <1>3, <1>4 DEF SkipInv, Honest

(* A unit changes when all the server said of it has arrived; one that comes back
   is not skipped any more. *)
LEMMA UnitChangesSkips == ASSUME Inv, SkipInv, NEW c \in Corpses, UnitChanges(c) PROVE SkipInv'
<1>1. /\ c \in seen /\ (\A n \in DOMAIN down : down[n].corpse # c)
      /\ lootable' = IF c \in lootable THEN lootable \ {c} ELSE lootable \cup {c}
      /\ content' = [content EXCEPT ![c] = c \notin lootable]
      /\ seen' = seen \ {c} /\ UNCHANGED <<down, empties>>
  BY DEF UnitChanges, IsLootable
<1>2. lootable \subseteq Corpses /\ content \in [Corpses -> BOOLEAN]
  BY DEF Inv, Types
<1>3. \A d \in Corpses : d # c => content'[d] = content[d] /\ (d \in lootable' <=> d \in lootable)
  BY <1>1, <1>2
<1>4. ASSUME NEW d \in empties' PROVE TrulyEmpty(d)'
  <2>1. d \in empties /\ d \in Corpses /\ TrulyEmpty(d)
    BY <1>1 DEF SkipInv
  <2>2. QuestComing(down)' <=> QuestComing(down)
    BY <1>1 DEF QuestComing
  <2>3. CASE d # c
    BY <1>1, <1>3, <2>1, <2>2, <2>3 DEF TrulyEmpty
  <2>4. CASE d = c
    BY <1>1, <2>1, <2>4 DEF TrulyEmpty
  <2> QED BY <2>3, <2>4
<1>5. Honest(down, lootable', content')
  BY <1>1, <1>2, <1>3 DEF SkipInv, Honest
<1> QED BY <1>1, <1>4, <1>5 DEF SkipInv, Honest

LEMMA QuestChangeSkips == ASSUME Inv, SkipInv, NEW c \in Corpses, QuestChange(c) PROVE SkipInv'
<1>1. /\ down' = Append(down, Message("quest", "none")) /\ UNCHANGED <<lootable, seen, empties>>
      /\ down \in Seq(Messages) /\ Message("quest", "none") \in Messages
      /\ Message("quest", "none").kind = "quest"
  BY MessageIsOne DEF QuestChange, Inv, Types, Message
<1>2. Honest(down', lootable, content') /\ QuestComing(down')
  BY <1>1, HonestWithQuest DEF SkipInv
<1>3. \A d \in empties' : TrulyEmpty(d)'
  <2>1. QuestComing(down)'
    BY <1>2 DEF QuestComing
  <2> QED BY <1>1, <2>1 DEF SkipInv, TrulyEmpty
<1> QED BY <1>1, <1>2, <1>3 DEF SkipInv, Honest

(* The rest asks, takes, lets go or moves. *)
LEMMA OthersSkip ==
  ASSUME Inv, SkipInv,
         \/ \E lootMode \in BOOLEAN : BeginWalk(lootMode)
         \/ ItemTick \/ CloseWindow \/ UNCHANGED vars
         \/ \E c \in Corpses : LootUnitItemNow(c) \/ LootUnitItem(c) \/ Hand(c)
         \/ \E to \in {"near", "far", "moving", "mounted"} \ {player} : Moves(to)
  PROVE  SkipInv'
<1> USE DEF world
<1>1. /\ Types /\ content \in [Corpses -> BOOLEAN] /\ down \in Seq(Messages) /\ held \in Targets
      /\ Honest(down, lootable, content)
  BY DEF Inv, Types, SkipInv
<1>2. UNCHANGED <<lootable, seen, empties>>
  BY DEF BeginWalk, ItemTick, CloseWindow, vars, LootUnitItemNow, LootUnitItem, Hand, Moves
<1>3. ASSUME NEW c, content' = [content EXCEPT ![c] = FALSE] \/ content' = content
      PROVE  content' \in [Corpses -> BOOLEAN] /\ \A d \in Corpses : content'[d] => content[d]
  BY <1>1, <1>3
<1>4. content' \in [Corpses -> BOOLEAN] /\ \A d \in Corpses : content'[d] => content[d]
  BY <1>3 DEF BeginWalk, ItemTick, CloseWindow, vars, LootUnitItemNow, LootUnitItem, Hand, Moves
<1>5. /\ down' \in Seq(Messages) /\ Honest(down', lootable, content)
      /\ QuestComing(down) => QuestComing(down')
  <2>1. CASE down' = down
    BY <1>1, <2>1
  <2>2. ASSUME NEW lootMode \in BOOLEAN, BeginWalk(lootMode)
        PROVE  /\ down' \in Seq(Messages) /\ Honest(down', lootable, content)
               /\ QuestComing(down) => QuestComing(down')
    <3>1. PICK some \in SUBSET Corpses : TryStartNext(SetToSeq(some), lootMode, held, down)
      BY <2>2 DEF BeginWalk
    <3>2. SetToSeq(some) \in Seq(Corpses)
      BY SetToSeqIsOfIt
    <3> QED BY <1>1, <3>1, <3>2, NextIsHonest
  <2>3. ASSUME NEW c \in Corpses, LootUnitItem(c) \/ Hand(c)
        PROVE  /\ down' \in Seq(Messages) /\ Honest(down', lootable, content)
               /\ QuestComing(down) => QuestComing(down')
    <3>1. \E who \in {"hand", "item"} : Send(c, who, held, down)
      BY <2>3 DEF LootUnitItem, Hand
    <3>2. <<>> \in Seq(Corpses) /\ TRUE \in BOOLEAN
      OBVIOUS
    <3> QED BY <1>1, <3>1, <3>2, NextIsHonest
  <2>4. CASE CloseWindow
    <3>1. window \in Corpses /\ down' = Append(down, Message("release", window))
      BY <2>4 DEF CloseWindow, Inv, Types, Targets
    <3>2. Message("release", window) \in Messages /\ Message("release", window).kind = "release"
      BY <3>1, MessageIsOne DEF Message
    <3> QED BY <1>1, <3>1, <3>2, HonestAppend
  <2> QED BY <2>1, <2>2, <2>3, <2>4 DEF ItemTick, vars, LootUnitItemNow, Moves
<1> QED BY <1>1, <1>2, <1>4, <1>5, SkipKept

LEMMA SkipInvariance == Spec => []SkipInv
<1>1. Init => SkipInv
  BY DEF Init, SkipInv, Honest
<1>2. Inv /\ SkipInv /\ [Next]_vars => SkipInv'
  BY ReceiveSkips, OnTickSkips, UnitChangesSkips, QuestChangeSkips, OthersSkip DEF Next
<1> QED BY <1>1, <1>2, Invariance, PTL DEF Spec

-----------------------------------------------------------------------------
(* Every variable has its type: what is held, shown, waited for or queued is
   always a corpse, and LootUnitItem's ticks stay below their limit. *)
THEOREM TypeCorrect == Spec => []TypeOK
<1>1. ASSUME NEW q \in Seq(Corpses) PROVE ToSet(q) \subseteq Corpses
  BY DEF ToSet
<1>2. Inv /\ SkipInv => TypeOK
  BY <1>1 DEF Inv, SkipInv, Types, TypeOK, Targets, Steps, Messages
<1> QED BY <1>2, Invariance, SkipInvariance, PTL

(* However many corpses there are and whatever the server, the player and the
   world do meanwhile, LOOT_SCAN_COMPLETED fires once for each walk begun. *)
THEOREM EachWalkCompletesOnce == Spec => []OneCompletionPerWalk
<1> QED BY Invariance, PTL DEF Inv

(* What a walk or LootUnitItem made the player hold is held only while that
   request waits or a window shows it, whatever the timeouts are and however
   the two get in each other's way. *)
THEOREM WhatIsHeldIsLetGo == Spec => []NothingIsLeftHeld
<1> QED BY Invariance, PTL DEF Inv

(* A corpse that walks skip has nothing for the player: not after it respawned
   under the same GUID between two ticks or over many, and not after a quest put
   something in it, in whatever order that and the answers on the wire arrive. *)
THEOREM WhatIsSkippedIsEmpty == Spec => []SkippedIsEmpty
<1>1. SkipInv => SkippedIsEmpty
  BY DEF SkipInv, TrulyEmpty, SkippedIsEmpty, QuestComing
<1> QED BY <1>1, SkipInvariance, PTL

=============================================================================
