--------------------------- MODULE PostItemProofs ---------------------------
(***************************************************************************)
(* While the player leaves the bags alone, PostItem counts no stack that   *)
(* was not auctioned, for any bags, requests, refusals and timeouts; and   *)
(* without any trouble it auctions what it was asked for, no more, no less.*)
(***************************************************************************)
EXTENDS PostItem, FiniteSetTheorems, WellFoundedInduction, TLAPS

LEMMA FreeCellsAreCells == FreeCells \subseteq Cells /\ Cells \subseteq Nat
<1>1. NumCells \in Nat /\ General \subseteq 1..NumCells
  BY PostItemAssumption
<1>2. Cells \subseteq Nat
  BY <1>1 DEF Cells
<1>3. FreeCells \subseteq Cells
  BY <1>1 DEF FreeCells, Cells
<1> QED BY <1>2, <1>3

(* FindFreeGeneralSlot finds a free slot when there is one. *)
LEMMA FirstFreeIsFree ==
  ASSUME FreeCells # {}
  PROVE  FirstFree \in FreeCells
<1>1. FreeCells \subseteq Nat
  BY FreeCellsAreCells
<1> DEFINE R == OpToRel(<, Nat)
<1>2. \A x, y \in Nat : x < y => <<x, y>> \in R
  BY SMT DEF OpToRel
<1>3. IsWellFoundedOn(R, Nat)
  BY NatLessThanWellFounded
<1> HIDE DEF R
<1>4. PICK x \in FreeCells : \A y \in FreeCells : ~(<<y, x>> \in R)
  BY <1>1, <1>3, WFMin
<1>5. ASSUME NEW y \in FreeCells PROVE x <= y
  <2>1. ~(<<y, x>> \in R) /\ x \in Nat /\ y \in Nat
    BY <1>1, <1>4
  <2>2. ~(y < x)
    BY <1>2, <2>1, Zenon
  <2> QED BY <2>1, <2>2
<1> QED BY <1>4, <1>5 DEF FirstFree

-----------------------------------------------------------------------------

Guids == 1..lastGuid
Stacks == [guid : Nat, kind : Kinds \cup {"none"}, n : Int]
Sells == [op : {"sell"}, guid : Nat, job : Nat]
Splits == [op : {"split"}, src : Cells, dst : Cells, n : Nat]
JobTypes == [active : BOOLEAN, src : Nat, kind : Kinds \cup {"none"}, quantity : Nat,
             total : Nat, posted : Nat, phase : {"Idle", "SplitWait", "PostWait"},
             work : Nat, guid : Nat, ticks : Nat]

Types ==
  /\ lastGuid \in Nat /\ updates \in Nat /\ jobs \in Nat
  /\ lastGuid >= NumCells
  /\ job \in JobTypes
  /\ job.active => job.src \in Cells /\ job.quantity > 0
  /\ job.phase # "Idle" => job.work \in Cells
  /\ IsFiniteSet(sales)

(* A GUID is in one cell, or in one auction. *)
GuidsAreUnique ==
  /\ bags \in [Cells -> Stacks]
  /\ \A c \in Cells : bags[c] # Empty => bags[c].guid \in Guids /\ bags[c].kind \in Kinds
  /\ \A c, d \in Cells : bags[c] # Empty /\ bags[c].guid = bags[d].guid => c = d
  /\ \A s \in sales : s.stack.guid \in Guids /\ \A c \in Cells : bags[c].guid # s.stack.guid

(* The requests are the job's own: nothing else moves a stack. *)
OwnRequests == wire \in Seq(Splits \cup Sells)

(* A posted stack that has left its slot was auctioned and is not counted yet. *)
CountIsBehind ==
  /\ updates <= Cardinality(sales)
  /\ job.phase = "PostWait" =>
       /\ job.guid \in Guids
       /\ Gone => updates < Cardinality(sales)

Kept == Types /\ GuidsAreUnique /\ OwnRequests /\ CountIsBehind

Inv == meddled \in BOOLEAN /\ (~meddled => Kept)

-----------------------------------------------------------------------------

LEMMA InitInv == Init => Inv
<1> SUFFICES ASSUME Init PROVE Inv
  OBVIOUS
<1>1. Types
  <2>1. NoJob \in JobTypes
    BY DEF NoJob, JobTypes
  <2>2. IsFiniteSet(sales)
    BY FS_EmptySet DEF Init
  <2>3. lastGuid \in Nat /\ updates \in Nat /\ jobs \in Nat /\ lastGuid >= NumCells
    BY PostItemAssumption DEF Init
  <2> QED BY <2>1, <2>2, <2>3 DEF Init, Types, NoJob
<1>2. GuidsAreUnique
  <2>1. bags \in [Cells -> {Empty} \cup [guid : Cells, kind : Kinds, n : 1..MaxStack]]
    BY DEF Init
  <2>2. \A c \in Cells : bags[c] = Empty \/ bags[c].guid = c
    BY DEF Init
  <2>3. Empty \in Stacks /\ [guid : Cells, kind : Kinds, n : 1..MaxStack] \subseteq Stacks
    BY PostItemAssumption DEF Empty, Stacks, Cells
  <2>4. \A c, d \in Cells : bags[c] # Empty /\ bags[c].guid = bags[d].guid => c = d
    BY <2>2, PostItemAssumption DEF Empty, Cells
  <2> QED BY <2>1, <2>2, <2>3, <2>4, PostItemAssumption DEF Init, GuidsAreUnique, Guids, Cells
<1>3. OwnRequests /\ CountIsBehind
  BY FS_EmptySet DEF Init, NoJob, OwnRequests, CountIsBehind
<1> QED BY <1>1, <1>2, <1>3 DEF Inv, Kept, Init

(* What a frame that sends nothing new about the bags leaves in place. *)
LEMMA SendKeepsRequests ==
  ASSUME OwnRequests, jobs \in Nat, NEW g \in Nat, PostStack(g)
  PROVE  OwnRequests'
  BY DEF OwnRequests, PostStack, Sells

(* The parts of the invariant that speak of nothing a frame changes beside the
   job. *)
SameGame == UNCHANGED <<bags, lastGuid, sales, jobs>>

LEMMA FrameKeepsUnique ==
  ASSUME GuidsAreUnique, SameGame
  PROVE  GuidsAreUnique'
  BY DEF GuidsAreUnique, SameGame, Guids

(* A frame that ends or prolongs a wait. *)
LEMMA WaitKeeps ==
  ASSUME Kept, SameGame, UNCHANGED <<wire, updates>>,
         job' \in JobTypes, job'.src = job.src, job'.quantity = job.quantity,
         job'.active => job.active,
         job'.phase = job.phase, job'.work = job.work, job'.guid = job.guid
  PROVE  Kept'
<1>1. Types'
  BY DEF Kept, Types, SameGame
<1>2. (OwnRequests /\ CountIsBehind)'
  BY DEF Kept, OwnRequests, CountIsBehind, SameGame, Gone, Work, Guids
<1> QED BY <1>1, <1>2, FrameKeepsUnique DEF Kept

(* A frame that posts the stack of a cell. *)
LEMMA PostKeeps ==
  ASSUME Kept, SameGame, UNCHANGED updates, NEW c \in Cells, bags[c].n > 0,
         PostStack(bags[c].guid),
         job' \in JobTypes, job'.src = job.src, job'.quantity = job.quantity,
         job.active, job'.phase = "PostWait", job'.work = c, job'.guid = bags[c].guid
  PROVE  Kept'
<1>1. Types'
  BY DEF Kept, Types, SameGame
<1>2. bags[c] # Empty /\ bags[c].guid \in Guids
  BY DEF Kept, GuidsAreUnique, Empty
<1>3. OwnRequests'
  BY <1>2, SendKeepsRequests DEF Kept, Types, Guids
<1>4. CountIsBehind'
  BY <1>2 DEF Kept, CountIsBehind, SameGame, Gone, Work, Guids
<1> QED BY <1>1, <1>3, <1>4, FrameKeepsUnique DEF Kept

LEMMA TickKeeps ==
  ASSUME Kept, Tick
  PROVE  Kept'
<1> USE DEF game, client, SameGame
<1>0. job \in JobTypes /\ \A c \in Cells : bags[c].guid \in Nat
  BY DEF Kept, Types, GuidsAreUnique, Stacks
<1>1. ASSUME NEW ok \in BOOLEAN, Finish(ok)
      PROVE  Kept'
  BY <1>0, <1>1, WaitKeeps DEF Finish, JobTypes
<1>2. CASE TickPostSource
  <2>1. job.src \in Cells /\ bags[job.src].n > 0
    BY <1>2 DEF TickPostSource, NextStack, Frame, Kept, Types, Source
  <2>2. job' \in JobTypes /\ job'.src = job.src /\ job'.quantity = job.quantity
        /\ job'.phase = "PostWait" /\ job'.work = job.src /\ job'.guid = bags[job.src].guid
    BY <1>0, <1>2, <2>1 DEF TickPostSource, JobTypes, Source
  <2> QED BY <1>2, <2>1, <2>2, PostKeeps DEF TickPostSource, NextStack, Frame, Source
<1>4. CASE TickSplitWait
  <2>1. job.work \in Cells /\ bags[job.work].n > 0
    BY <1>4 DEF TickSplitWait, Frame, Kept, Types, Landed, Work
  <2>2. job' \in JobTypes /\ job'.src = job.src /\ job'.quantity = job.quantity
        /\ job'.phase = "PostWait" /\ job'.work = job.work /\ job'.guid = bags[job.work].guid
    BY <1>0, <1>4, <2>1 DEF TickSplitWait, JobTypes, Work
  <2> QED BY <1>4, <2>1, <2>2, PostKeeps DEF TickSplitWait, Frame, Work
<1>3. CASE TickSplit
  <2>1. FirstFree \in Cells /\ FirstFree \in Nat
    BY <1>3, FirstFreeIsFree, FreeCellsAreCells DEF TickSplit
  <2>2. job' \in JobTypes /\ job'.src = job.src /\ job'.quantity = job.quantity
        /\ job'.active = job.active /\ job'.phase = "SplitWait" /\ job'.work = FirstFree
    BY <1>0, <1>3, <2>1 DEF TickSplit, JobTypes
  <2>3. Types'
    BY <1>3, <2>1, <2>2 DEF TickSplit, Kept, Types
  <2>4. OwnRequests'
    <3>1. job.src \in Cells /\ job.quantity \in Nat
      BY <1>0, <1>3 DEF TickSplit, NextStack, Frame, Kept, Types, JobTypes
    <3> QED BY <1>3, <2>1, <3>1 DEF TickSplit, Kept, OwnRequests, Splits
  <2>5. CountIsBehind'
    BY <1>3, <2>2 DEF TickSplit, Kept, CountIsBehind
  <2> QED BY <1>3, <2>3, <2>4, <2>5, FrameKeepsUnique DEF Kept, TickSplit
<1>5. CASE TickPostWait
  <2>1. job' \in JobTypes /\ job'.src = job.src /\ job'.quantity = job.quantity
        /\ job'.active = job.active /\ job'.phase = "Idle"
    <3>1. job.posted + 1 \in Nat
      BY <1>0 DEF JobTypes
    <3>2. job' = [job EXCEPT !.posted = job.posted + 1, !.phase = "Idle", !.ticks = 0]
      BY <1>5 DEF TickPostWait
    <3> QED BY <1>0, <3>1, <3>2 DEF JobTypes
  <2>2. Types'
    BY <1>5, <2>1 DEF TickPostWait, Kept, Types
  <2>3. CountIsBehind'
    <3>1. Cardinality(sales) \in Nat
      BY FS_CardinalityType DEF Kept, Types
    <3> QED BY <1>5, <2>1, <3>1 DEF TickPostWait, Frame, Kept, Types, CountIsBehind
  <2> QED BY <1>5, <2>2, <2>3, FrameKeepsUnique DEF Kept, OwnRequests, TickPostWait
<1>6. CASE TickWait
  BY <1>0, <1>6, WaitKeeps DEF TickWait, JobTypes
<1> QED
  BY <1>1, <1>2, <1>3, <1>4, <1>5, <1>6
     DEF Tick, TickClosed, TickDone, TickStuck, TickUnsent, TickTimeout

-----------------------------------------------------------------------------

(* Without the request at its head, the wire still holds the job's own. *)
LEMMA TailKeepsRequests ==
  ASSUME OwnRequests, wire # <<>>, Answered
  PROVE  OwnRequests' /\ Request \in Splits \cup Sells
  BY DEF OwnRequests, Answered, Request

LEMMA SplitKeeps ==
  ASSUME Kept, AnswerSplit
  PROVE  Kept'
<1> DEFINE a == bags[Request.src]
           b == bags[Request.dst]
           rest == Stack(a.guid, a.kind, a.n - Request.n)
<1> USE DEF client
<1>1. OwnRequests' /\ Request.src \in Cells /\ Request.dst \in Cells /\ Request.n \in Nat
  BY TailKeepsRequests DEF AnswerSplit, Kept, Splits, Sells
<1>2. a \in Stacks /\ b \in Stacks /\ a # Empty /\ a.guid \in Guids /\ a.kind \in Kinds
  BY <1>1 DEF Kept, GuidsAreUnique, AnswerSplit, Empty
<1>3. rest \in Stacks /\ rest.guid = a.guid /\ rest.kind = a.kind /\ rest # Empty
  BY <1>1, <1>2 DEF Stacks, Stack, Empty, Guids
<1>4. UNCHANGED <<sales, job, updates, jobs>> /\ lastGuid \in Nat
  BY DEF AnswerSplit, Answered, Kept, Types
<1>5. CASE /\ b = Empty
           /\ bags' = [bags EXCEPT ![Request.src] = rest,
                                   ![Request.dst] = Stack(lastGuid + 1, a.kind, Request.n)]
           /\ lastGuid' = lastGuid + 1
  <2> DEFINE new == Stack(lastGuid + 1, a.kind, Request.n)
  <2>1. new \in Stacks /\ new.guid = lastGuid + 1 /\ new.kind \in Kinds
    BY <1>1, <1>2, <1>4 DEF Stacks, Stack
  <2>2. Request.src # Request.dst
    BY <1>2, <1>5
  <2>3. bags \in [Cells -> Stacks]
    BY DEF Kept, GuidsAreUnique
  <2>4. bags' = [bags EXCEPT ![Request.src] = rest, ![Request.dst] = new]
    BY <1>5
  <2> HIDE DEF new, rest
  <2>5. bags' \in [Cells -> Stacks]
    BY <1>1, <1>3, <2>1, <2>3, <2>4
  <2>6. bags'[Request.dst].guid = lastGuid + 1 /\ bags'[Request.dst].kind \in Kinds
    BY <1>1, <2>1, <2>2, <2>3, <2>4
  <2>7. \A c \in Cells \ {Request.dst} :
          /\ bags'[c].guid = bags[c].guid /\ bags'[c].kind = bags[c].kind
          /\ bags'[c] # Empty => bags[c] # Empty
    BY <1>1, <1>2, <1>3, <2>3, <2>4
  <2>8. \A c \in Cells : bags[c].guid \in 0..lastGuid
    BY <1>4 DEF Kept, GuidsAreUnique, Guids, Empty
  <2>9. GuidsAreUnique'
    <3>1. \A c \in Cells : bags'[c] # Empty => bags'[c].guid \in Guids' /\ bags'[c].kind \in Kinds
      BY <1>4, <1>5, <2>6, <2>7 DEF Kept, GuidsAreUnique, Guids
    <3>2. \A c, d \in Cells : bags'[c] # Empty /\ bags'[c].guid = bags'[d].guid => c = d
      BY <1>4, <2>6, <2>7, <2>8 DEF Kept, GuidsAreUnique
    <3>3. \A s \in sales' : s.stack.guid \in Guids' /\ \A c \in Cells : bags'[c].guid # s.stack.guid
      BY <1>4, <1>5, <2>6, <2>7 DEF Kept, GuidsAreUnique, Guids
    <3> QED BY <2>5, <3>1, <3>2, <3>3 DEF GuidsAreUnique
  <2>10. CountIsBehind'
    <3>1. ASSUME job.phase = "PostWait", Gone', ~Gone PROVE FALSE
      <4>1. job.work \in Cells /\ job.guid \in Guids
        BY <3>1 DEF Kept, Types, CountIsBehind
      <4>2. job.work = Request.dst
        BY <1>4, <2>7, <3>1, <4>1 DEF Gone, Work
      <4>3. job.guid = 0
        BY <1>5, <3>1, <4>2 DEF Gone, Work, Empty
      <4> QED BY <4>1, <4>3 DEF Guids
    <3> QED BY <1>4, <1>5, <3>1 DEF Kept, CountIsBehind, Guids
  <2>11. Types'
    BY <1>4, <1>5, PostItemAssumption DEF Kept, Types
  <2> QED BY <1>1, <2>9, <2>10, <2>11 DEF Kept
<1>6. CASE /\ b.kind = a.kind /\ Request.src # Request.dst
           /\ bags' = [bags EXCEPT ![Request.src] = rest, ![Request.dst].n = @ + Request.n]
           /\ UNCHANGED lastGuid
  <2> DEFINE more == [b EXCEPT !.n = @ + Request.n]
  <2>1. more \in Stacks /\ more.guid = b.guid /\ more.kind = b.kind
    BY <1>1, <1>2 DEF Stacks
  <2>2. b # Empty
    BY <1>2, <1>6, PostItemAssumption DEF Empty
  <2>3. bags \in [Cells -> Stacks]
    BY DEF Kept, GuidsAreUnique
  <2>4. bags' = [bags EXCEPT ![Request.src] = rest, ![Request.dst] = more]
    BY <1>1, <1>6, <2>3
  <2> HIDE DEF more, rest
  <2>5. bags' \in [Cells -> Stacks]
    BY <1>1, <1>3, <2>1, <2>3, <2>4
  <2>6. \A c \in Cells :
          /\ bags'[c].guid = bags[c].guid /\ bags'[c].kind = bags[c].kind
          /\ bags'[c] # Empty => bags[c] # Empty
    BY <1>1, <1>2, <1>3, <2>1, <2>2, <2>3, <2>4
  <2>7. GuidsAreUnique'
    BY <1>4, <1>6, <2>5, <2>6 DEF Kept, GuidsAreUnique, Guids
  <2>8. CountIsBehind'
    BY <1>4, <1>6, <2>6 DEF Kept, Types, CountIsBehind, Gone, Work, Guids
  <2>9. Types'
    BY <1>4, <1>6 DEF Kept, Types
  <2> QED BY <1>1, <2>7, <2>8, <2>9 DEF Kept
<1> QED BY <1>5, <1>6 DEF AnswerSplit

LEMMA SellKeeps ==
  ASSUME Kept, AnswerSell
  PROVE  Kept'
<1>1. OwnRequests'
  BY TailKeepsRequests DEF AnswerSell, Kept
<1>2. PICK c \in Taken : /\ bags[c].guid = Request.guid
                        /\ sales' = sales \cup {[stack |-> bags[c], job |-> Request.job]}
                        /\ bags' = [bags EXCEPT ![c] = Empty]
  BY DEF AnswerSell
<1>3. UNCHANGED <<lastGuid, job, updates, jobs>>
  BY DEF AnswerSell, Answered, client
<1>4. c \in Cells /\ bags[c] # Empty /\ bags[c].guid \in Guids
  BY DEF Kept, GuidsAreUnique, Taken, Holds
<1>5. /\ bags' \in [Cells -> Stacks]
      /\ bags'[c] = Empty
      /\ \A d \in Cells \ {c} : bags'[d] = bags[d] /\ bags[d].guid # bags[c].guid
  BY <1>2, <1>4 DEF Kept, GuidsAreUnique, Empty, Stacks
<1>6. GuidsAreUnique'
  BY <1>2, <1>3, <1>4, <1>5 DEF Kept, GuidsAreUnique, Guids, Empty
<1> DEFINE sold == [stack |-> bags[c], job |-> Request.job]
<1>7. sold \notin sales
  BY <1>4 DEF Kept, GuidsAreUnique
<1>8. IsFiniteSet(sales') /\ Cardinality(sales') = Cardinality(sales) + 1
  <2> HIDE DEF sold
  <2> QED BY <1>2, <1>7, FS_AddElement DEF Kept, Types, sold
<1>9. CountIsBehind'
  BY <1>3, <1>8, FS_CardinalityType DEF Kept, Types, CountIsBehind, Guids
<1>10. Types'
  BY <1>3, <1>8 DEF Kept, Types
<1> QED BY <1>1, <1>6, <1>9, <1>10 DEF Kept

LEMMA ScriptKeeps ==
  ASSUME Kept, NEW c \in Cells, NEW q \in Quantities, NEW t \in Totals, Script_PostItem(c, q, t)
  PROVE  Kept'
<1> USE DEF game
<1>1. q \in Nat \ {0} /\ t \in Nat \ {0} /\ c \in Nat
  BY PostItemAssumption, FreeCellsAreCells
<1>2. bags[c].kind \in Kinds
  BY DEF Kept, GuidsAreUnique, Script_PostItem, Holds
<1>3. job' \in JobTypes /\ job'.src = c /\ job'.quantity = q /\ job'.phase = "Idle"
  BY <1>1, <1>2 DEF Script_PostItem, JobTypes
<1>4. Types'
  BY <1>1, <1>3 DEF Kept, Types, Script_PostItem
<1>5. GuidsAreUnique'
  BY DEF Kept, GuidsAreUnique, Script_PostItem, Guids
<1>6. (OwnRequests /\ CountIsBehind)'
  BY <1>3 DEF Kept, OwnRequests, CountIsBehind, Script_PostItem
<1> QED BY <1>4, <1>5, <1>6 DEF Kept

(* A step after which the bags, the job and the counts are what they were. *)
LEMMA IdleKeeps ==
  ASSUME Kept, UNCHANGED <<game, job, jobs, updates>>, OwnRequests'
  PROVE  Kept'
<1> USE DEF game
<1>1. Types'
  BY DEF Kept, Types
<1>2. GuidsAreUnique'
  BY DEF Kept, GuidsAreUnique, Guids
<1>3. CountIsBehind'
  BY DEF Kept, CountIsBehind, Gone, Work, Guids
<1> QED BY <1>1, <1>2, <1>3 DEF Kept

LEMMA NextInv ==
  ASSUME Inv, [Next]_vars
  PROVE  Inv'
<1> USE DEF client
<1>1. CASE Tick
  <2>1. UNCHANGED meddled
    BY <1>1 DEF Tick, TickClosed, TickDone, TickStuck, TickUnsent, TickPostSource, TickSplit,
                TickSplitWait, TickPostWait, TickWait, TickTimeout, Finish
  <2> QED BY <1>1, <2>1, TickKeeps DEF Inv
<1>2. CASE AnswerSplit
  BY <1>2, SplitKeeps DEF Inv, AnswerSplit, Answered
<1>3. CASE AnswerSell
  BY <1>3, SellKeeps DEF Inv, AnswerSell, Answered
<1>4. CASE AnswerSwap
  <2>1. UNCHANGED meddled
    BY <1>4 DEF AnswerSwap, Answered
  <2>2. meddled
    <3>1. Kept => Request \in Splits \cup Sells
      BY <1>4, TailKeepsRequests DEF Kept, AnswerSwap
    <3> QED BY <1>4, <3>1 DEF Inv, AnswerSwap, Splits, Sells
  <2> QED BY <2>1, <2>2 DEF Inv
<1>5. CASE Refuse
  <2>1. Kept => OwnRequests'
    BY <1>5 DEF Refuse, Kept, OwnRequests
  <2> QED BY <1>5, <2>1, IdleKeeps DEF Inv, Refuse
<1>6. CASE \E c \in Cells, q \in Quantities, t \in Totals : Script_PostItem(c, q, t)
  <2>1. PICK c \in Cells, q \in Quantities, t \in Totals : Script_PostItem(c, q, t)
    BY <1>6
  <2>2. UNCHANGED meddled
    BY <2>1 DEF Script_PostItem
  <2> QED BY <2>1, <2>2, ScriptKeeps DEF Inv
<1>7. CASE MoveStack \/ Loot
  BY <1>7 DEF MoveStack, Loot, Inv
<1>8. CASE CloseAuctionHouse
  <2>1. Kept => OwnRequests'
    BY <1>8 DEF CloseAuctionHouse, Kept, OwnRequests
  <2> QED BY <1>8, <2>1, IdleKeeps DEF Inv, CloseAuctionHouse
<1>9. CASE OpenAuctionHouse
  <2>1. Kept => OwnRequests'
    BY <1>9 DEF OpenAuctionHouse, Kept, OwnRequests
  <2> QED BY <1>9, <2>1, IdleKeeps DEF Inv, OpenAuctionHouse
<1>10. CASE UNCHANGED vars
  <2>1. Kept => OwnRequests'
    BY <1>10 DEF vars, Kept, OwnRequests
  <2> QED BY <1>10, <2>1, IdleKeeps DEF Inv, vars
<1> QED
  BY <1>1, <1>2, <1>3, <1>4, <1>5, <1>6, <1>7, <1>8, <1>9, <1>10 DEF Next, Server, Player

THEOREM Invariance == Spec => []Inv
  BY InitInv, NextInv, PTL DEF Spec

(* As long as the player leaves the bags alone, no AUCTION_MULTISELL_UPDATE
   counts a stack that was not auctioned. *)
THEOREM CountStaysHonest == Spec => []CountIsHonest
<1>1. Inv => CountIsHonest
  BY DEF Inv, Kept, CountIsBehind, CountIsHonest
<1> QED BY <1>1, Invariance, PTL

-----------------------------------------------------------------------------
(* A job that meets no trouble: where it is, by what is on the wire. *)

(* The source holds enough for k more stacks. *)
Left(k) == k \in Nat /\ (k > 0 => Source.kind = job.kind /\ Source.n >= job.quantity * k)

ToGo == job.total - job.posted

(* What is in the work slot is the last of the source, or a stack split off it. *)
LastOrSplit ==
  \/ job.work = job.src /\ ToGo = 1
  \/ job.work # job.src /\ job.work \in General

Ready ==
  /\ job.phase = "Idle" /\ wire = <<>>
  /\ job.active => /\ Cardinality(OwnSales) = job.posted /\ Left(ToGo)
                   /\ Source.n > job.quantity => FreeCells # {}
                   /\ Cardinality(Taken) <= taken
  /\ ~job.active => Cardinality(OwnSales) = job.total

SplitSent ==
  /\ job.phase = "SplitWait"
  /\ wire = <<[op |-> "split", src |-> job.src, dst |-> job.work, n |-> job.quantity]>>
  /\ Work = Empty /\ Source.kind = job.kind /\ job.work \in General
  /\ Cardinality(OwnSales) = job.posted /\ ToGo > 0 /\ Left(ToGo)
  /\ Cardinality(Taken) <= taken

SplitLanded ==
  /\ job.phase = "SplitWait" /\ wire = <<>>
  /\ Landed /\ job.work # job.src /\ job.work \in General
  /\ Cardinality(OwnSales) = job.posted /\ Left(ToGo - 1)
  /\ Cardinality(Taken) <= taken + 1

SaleSent ==
  /\ job.phase = "PostWait"
  /\ wire = <<[op |-> "sell", guid |-> job.guid, job |-> jobs]>>
  /\ Landed /\ Work.guid = job.guid /\ LastOrSplit
  /\ Cardinality(OwnSales) = job.posted /\ Left(ToGo - 1)
  /\ Cardinality(Taken) <= taken + 1

Sold ==
  /\ job.phase = "PostWait" /\ wire = <<>>
  /\ Work = Empty /\ LastOrSplit
  /\ Cardinality(OwnSales) = job.posted + 1 /\ Left(ToGo - 1)
  /\ Cardinality(Taken) <= taken

(* What this job has auctioned is what it was asked for; no later job has sold. *)
SoldAsAsked ==
  \A s \in sales :
    /\ s.job \in 0..jobs
    /\ s.job = jobs => s.stack.kind = job.kind /\ s.stack.n = job.quantity

Clean ==
  /\ ahOpen /\ taken \in Nat
  /\ outcome # "failed" /\ (outcome = "done" => ~job.active)
  /\ job.phase # "Idle" => job.active
  /\ job.active => job.kind \in Kinds
  /\ SoldAsAsked
  /\ Ready \/ SplitSent \/ SplitLanded \/ SaleSent \/ Sold

CleanInv == trouble \in BOOLEAN /\ (~trouble => ~meddled /\ Clean)

LEMMA TakenIsFinite == IsFiniteSet(Taken) /\ Cardinality(Taken) \in Nat
<1>1. IsFiniteSet(Cells)
  BY PostItemAssumption, FS_Interval DEF Cells
<1>2. IsFiniteSet(Taken)
  BY <1>1, FS_Subset DEF Taken
<1> QED BY <1>2, FS_CardinalityType

LEMMA OneLess ==
  ASSUME NEW q \in Nat \ {0}, NEW k \in Nat \ {0}, NEW n \in Int, n >= q * k
  PROVE  n >= q /\ n - q >= q * (k - 1) /\ (n = q => k = 1)
<1>1. q * k = q * (k - 1) + q
  BY SMT
<1>2. k - 1 \in Nat /\ q * (k - 1) \in Nat
  BY SMT
<1>3. k - 1 > 0 => q * (k - 1) > 0
  BY <1>2, SMT
<1> DEFINE m == q * (k - 1)
<1>4. n >= m + q /\ m \in Nat /\ (k - 1 > 0 => m > 0)
  BY <1>1, <1>2, <1>3
<1> HIDE DEF m
<1>5. n >= q /\ n - q >= m /\ (n = q => k = 1)
  BY <1>4
<1> QED BY <1>5 DEF m

(* A frame leaves the bags and what was sold alone. *)
LEMMA FrameKeepsSales ==
  ASSUME SoldAsAsked, UNCHANGED <<bags, sales, jobs>>, job'.kind = job.kind, job'.quantity = job.quantity
  PROVE  /\ SoldAsAsked' /\ Taken' = Taken /\ FreeCells' = FreeCells
         /\ Cardinality(Taken)' = Cardinality(Taken)
         /\ Cardinality(OwnSales)' = Cardinality(OwnSales)
<1>1. Taken' = Taken /\ OwnSales' = OwnSales
  BY DEF Taken, Holds, OwnSales
<1> QED BY <1>1 DEF SoldAsAsked, FreeCells

(* Posting from cell c, which shows what was asked for. *)
LEMMA PostIsClean ==
  ASSUME Kept, Clean, UNCHANGED <<bags, sales, jobs, ahOpen, taken, outcome>>, wire = <<>>, NEW c \in Cells,
         bags[c].kind = job.kind, bags[c].n = job.quantity, Cardinality(Taken) <= taken + 1,
         Cardinality(OwnSales) = job.posted, Left(ToGo - 1),
         (c = job.src /\ ToGo = 1) \/ (c # job.src /\ c \in General),
         PostStack(bags[c].guid), ~trouble', job.active,
         job' = [job EXCEPT !.work = c, !.guid = bags[c].guid, !.phase = "PostWait", !.ticks = 0]
  PROVE  Clean'
<1>1. job \in JobTypes
  BY DEF Kept, Types
<1>2. /\ job'.phase = "PostWait" /\ job'.active /\ job'.work = c /\ job'.guid = bags[c].guid
      /\ job'.kind = job.kind /\ job'.quantity = job.quantity /\ job'.src = job.src
      /\ job'.total = job.total /\ job'.posted = job.posted
  BY <1>1 DEF JobTypes
<1>3. wire' = <<[op |-> "sell", guid |-> bags[c].guid, job |-> jobs]>>
  BY DEF PostStack
<1>4. /\ SoldAsAsked' /\ Cardinality(Taken)' = Cardinality(Taken)
      /\ Cardinality(OwnSales)' = Cardinality(OwnSales)
  BY <1>2, FrameKeepsSales DEF Clean
<1>5. ToGo' = ToGo /\ Source' = Source
  BY <1>2 DEF ToGo, Source
<1>6. Left(ToGo - 1)' /\ LastOrSplit'
  BY <1>2, <1>5 DEF Left, LastOrSplit
<1>7. SaleSent'
  BY <1>2, <1>3, <1>4, <1>6 DEF SaleSent, Landed, Work
<1> QED BY <1>2, <1>4, <1>7 DEF Clean

LEMMA TickIsClean ==
  ASSUME Kept, Clean, Tick, ~trouble'
  PROVE  Clean'
<1> USE DEF game, client
<1>1. /\ job \in JobTypes /\ bags \in [Cells -> Stacks] /\ ahOpen
      /\ job.active => job.src \in Cells /\ job.quantity > 0
      /\ job.phase # "Idle" => job.work \in Cells
      /\ taken \in Nat /\ Cardinality(Taken) \in Nat
  BY TakenIsFinite DEF Kept, Types, GuidsAreUnique, Clean
<1>2. UNCHANGED <<bags, sales, jobs, ahOpen, taken>>
  BY DEF Tick, TickClosed, TickDone, TickStuck, TickUnsent, TickPostSource, TickSplit, TickSplitWait,
         TickPostWait, TickWait, TickTimeout, Finish
<1>0. job.active => /\ job.src \in Cells /\ job.quantity \in Nat \ {0} /\ Source.n \in Int
                    /\ job.total \in Int /\ job.posted \in Int
  BY <1>1 DEF JobTypes, Stacks, Source
<1>3. CASE TickClosed \/ TickTimeout \/ TickUnsent
  BY <1>1, <1>3 DEF TickClosed, TickTimeout, TickUnsent
<1>4. ASSUME NextStack
      PROVE  /\ Ready /\ job.active /\ ToGo \in Nat \ {0} /\ Left(ToGo) /\ SourceIsGood
             /\ Source.n # job.quantity => FreeCells # {}
             /\ Source.n = job.quantity => ToGo = 1
  <2>1. Ready /\ job.active /\ ToGo > 0
    <3>1. job.phase = "Idle" /\ job.active /\ job.posted < job.total
      BY <1>4 DEF NextStack, Frame
    <3> QED BY <1>0, <3>1 DEF ToGo, Clean, Ready, SplitSent, SplitLanded, SaleSent, Sold
  <2>2. /\ Left(ToGo) /\ (Source.n > job.quantity => FreeCells # {})
    BY <2>1 DEF Ready
  <2>3. ToGo \in Nat \ {0} /\ Source.kind = job.kind /\ Source.n >= job.quantity * ToGo
    BY <2>1, <2>2 DEF Left
  <2>4. Source.n >= job.quantity /\ (Source.n = job.quantity => ToGo = 1)
    BY <1>0, <2>1, <2>3, OneLess
  <2> QED BY <1>0, <2>1, <2>2, <2>3, <2>4 DEF SourceIsGood
<1>5. CASE TickStuck
  BY <1>4, <1>5 DEF TickStuck
<1>6. CASE TickDone
  <2>1. Ready /\ job.active /\ job.posted >= job.total
    BY <1>6 DEF TickDone, Frame, Clean, Ready, SplitSent, SplitLanded, SaleSent, Sold
  <2>2. Cardinality(OwnSales) = job.total
    BY <1>0, <2>1 DEF Ready, Left, ToGo
  <2>3. /\ job'.phase = "Idle" /\ ~job'.active /\ job'.kind = job.kind /\ job'.quantity = job.quantity
        /\ job'.total = job.total /\ wire' = wire /\ outcome' = "done"
    BY <1>1, <1>6, <2>1 DEF TickDone, Finish, JobTypes, Ready
  <2>4. SoldAsAsked' /\ Cardinality(OwnSales)' = Cardinality(OwnSales)
    BY <1>2, <2>3, FrameKeepsSales DEF Clean
  <2>5. Ready'
    BY <2>1, <2>2, <2>3, <2>4 DEF Ready
  <2> QED BY <1>1, <1>2, <2>3, <2>4, <2>5 DEF Clean
<1>7. CASE TickPostSource
  <2>1. Ready /\ job.active /\ ToGo = 1 /\ Source.kind = job.kind /\ Source.n = job.quantity
    BY <1>4, <1>7 DEF TickPostSource, SourceIsGood
  <2>2. /\ wire = <<>> /\ Cardinality(Taken) <= taken + 1
        /\ Cardinality(OwnSales) = job.posted /\ Left(ToGo - 1)
    BY <1>1, <2>1 DEF Ready, Left
  <2>3. PICK c \in Cells : c = job.src
    BY <1>1, <2>1
  <2>4. /\ PostStack(bags[c].guid) /\ UNCHANGED outcome
        /\ job' = [job EXCEPT !.work = c, !.guid = bags[c].guid, !.phase = "PostWait", !.ticks = 0]
    BY <1>1, <1>7, <2>1, <2>3, SMTT(20) DEF TickPostSource, Source
  <2>5. bags[c].kind = job.kind /\ bags[c].n = job.quantity
    BY <2>1, <2>3 DEF Source
  <2>6. (c = job.src /\ ToGo = 1) \/ (c # job.src /\ c \in General)
    BY <2>1, <2>3
  <2> QED BY <1>2, <2>1, <2>2, <2>4, <2>5, <2>6, PostIsClean, Zenon
<1>8. CASE TickSplit
  <2>1. Ready /\ job.active /\ SourceIsGood /\ ToGo > 0 /\ Left(ToGo)
    BY <1>4, <1>8 DEF TickSplit
  <2>2. FirstFree \in Cells /\ bags[FirstFree] = Empty /\ FirstFree \in General
    BY <1>8, FirstFreeIsFree, FreeCellsAreCells DEF TickSplit, FreeCells, Taken, Holds
  <2>3. /\ job'.phase = "SplitWait" /\ job'.active /\ job'.work = FirstFree /\ job'.src = job.src
        /\ job'.kind = job.kind /\ job'.quantity = job.quantity
        /\ job'.total = job.total /\ job'.posted = job.posted /\ outcome' = outcome
    BY <1>1, <1>8, <2>1 DEF TickSplit, JobTypes
  <2>4. wire' = <<[op |-> "split", src |-> job.src, dst |-> FirstFree, n |-> job.quantity]>>
    BY <1>8, <2>1 DEF TickSplit, Ready
  <2>5. /\ SoldAsAsked' /\ Cardinality(Taken)' = Cardinality(Taken)
        /\ Cardinality(OwnSales)' = Cardinality(OwnSales)
    BY <1>2, <2>3, FrameKeepsSales DEF Clean
  <2>6. ToGo' = ToGo /\ Source' = Source /\ Work' = Empty
    BY <1>2, <2>2, <2>3 DEF ToGo, Source, Work
  <2>7. Left(ToGo)'
    BY <2>1, <2>3, <2>6 DEF Left
  <2>8. SplitSent'
    BY <1>2, <2>1, <2>2, <2>3, <2>4, <2>5, <2>6, <2>7 DEF SplitSent, SourceIsGood, Ready
  <2> QED BY <1>1, <1>2, <2>1, <2>3, <2>5, <2>8 DEF Clean
<1>9. CASE TickSplitWait
  <2>1. job.phase = "SplitWait" /\ job.active /\ Landed
    BY <1>9 DEF TickSplitWait, Frame
  <2>2. ~SplitSent
    BY <1>1, <2>1 DEF SplitSent, Landed, Empty
  <2>3. SplitLanded
    BY <2>1, <2>2 DEF Clean, Ready, SaleSent, Sold
  <2>4. job' = [job EXCEPT !.work = job.work, !.guid = bags[job.work].guid, !.phase = "PostWait", !.ticks = 0]
    BY <1>1, <1>9 DEF TickSplitWait, JobTypes, Work
  <2> QED BY <1>1, <1>2, <1>9, <2>1, <2>3, <2>4, PostIsClean DEF TickSplitWait, SplitLanded, Landed, Work
<1>10. CASE TickPostWait
  <2>1. job.phase = "PostWait" /\ job.active /\ Gone
    BY <1>10 DEF TickPostWait, Frame
  <2>2. Sold
    BY <2>1 DEF Clean, Ready, SplitSent, SplitLanded, SaleSent, Gone
  <2>3. /\ job'.phase = "Idle" /\ job'.active /\ job'.kind = job.kind /\ job'.quantity = job.quantity
        /\ job'.src = job.src /\ job'.total = job.total /\ job'.posted = job.posted + 1
        /\ wire' = wire /\ outcome' = outcome
    BY <1>1, <1>10, <2>1 DEF TickPostWait, JobTypes
  <2>4. /\ SoldAsAsked' /\ Cardinality(Taken)' = Cardinality(Taken) /\ FreeCells' = FreeCells
        /\ Cardinality(OwnSales)' = Cardinality(OwnSales)
    BY <1>2, <2>3, FrameKeepsSales DEF Clean
  <2>5. ToGo' = ToGo - 1 /\ Source' = Source
    BY <1>0, <1>2, <2>1, <2>3 DEF ToGo, Source
  <2>6. Left(ToGo)'
    BY <2>2, <2>3, <2>5 DEF Left, Sold
  <2>7. Source.n > job.quantity => FreeCells # {}
    <3>1. CASE job.work = job.src
      <4>1. Source.n = 0
        BY <2>2, <3>1 DEF Sold, Work, Source, Empty
      <4> QED BY <1>0, <2>1, <4>1
    <3>2. CASE job.work # job.src
      <4>1. job.work \in General /\ bags[job.work] = Empty
        BY <2>2, <3>2 DEF Sold, LastOrSplit, Work
      <4>2. job.work \in FreeCells
        BY <4>1 DEF FreeCells, Taken, Holds
      <4> QED BY <4>2
    <3> QED BY <3>1, <3>2
  <2>8. Ready'
    BY <1>2, <2>2, <2>3, <2>4, <2>5, <2>6, <2>7 DEF Ready, Sold
  <2> QED BY <1>1, <1>2, <2>1, <2>3, <2>4, <2>8 DEF Clean
<1>11. CASE TickWait
  <2>1. /\ job'.phase = job.phase /\ job'.active = job.active /\ job'.work = job.work /\ job'.src = job.src
        /\ job'.guid = job.guid /\ job'.kind = job.kind /\ job'.quantity = job.quantity
        /\ job'.total = job.total /\ job'.posted = job.posted
    BY <1>1, <1>11 DEF TickWait, JobTypes
  <2>2. /\ SoldAsAsked' /\ Cardinality(Taken)' = Cardinality(Taken)
        /\ Cardinality(OwnSales)' = Cardinality(OwnSales)
    BY <1>2, <2>1, FrameKeepsSales DEF Clean
  <2>3. wire' = wire /\ outcome' = outcome /\ job.phase # "Idle"
    BY <1>11 DEF TickWait, Waiting, Frame
  <2>4. /\ ToGo' = ToGo /\ Source' = Source /\ Work' = Work /\ Landed' = Landed
        /\ LastOrSplit' = LastOrSplit /\ Left(ToGo)' = Left(ToGo) /\ Left(ToGo - 1)' = Left(ToGo - 1)
    BY <1>2, <2>1 DEF ToGo, Source, Work, Landed, LastOrSplit, Left
  <2>5. (SplitSent \/ SplitLanded \/ SaleSent \/ Sold)'
    <3>1. SplitSent \/ SplitLanded \/ SaleSent \/ Sold
      BY <2>3 DEF Clean, Ready
    <3> QED BY <1>2, <2>1, <2>2, <2>3, <2>4, <3>1 DEF SplitSent, SplitLanded, SaleSent, Sold
  <2> QED BY <1>1, <1>2, <2>1, <2>2, <2>3, <2>5 DEF Clean
<1> QED BY <1>3, <1>5, <1>6, <1>7, <1>8, <1>9, <1>10, <1>11 DEF Tick

(* The one split on the wire is the job's: it lands in the slot that was free. *)
LEMMA SplitIsClean == ASSUME Kept, Clean, AnswerSplit PROVE Clean'
<1>1. /\ job \in JobTypes /\ bags \in [Cells -> Stacks] /\ taken \in Nat
      /\ \A c \in Cells : bags[c] # Empty => bags[c].guid \in Guids
  BY DEF Kept, Types, GuidsAreUnique, Clean
<1>2. SplitSent
  BY DEF AnswerSplit, Request, Clean, Ready, SplitLanded, SaleSent, Sold
<1>3. /\ job.active /\ job.src \in Cells /\ job.work \in Cells /\ job.kind \in Kinds /\ job.kind # "none"
      /\ bags[job.work] = Empty /\ bags[job.src].kind = job.kind /\ job.src # job.work
  BY <1>2, PostItemAssumption DEF Clean, SplitSent, Work, Source, Kept, Types, Empty
<1>4. Request.src = job.src /\ Request.dst = job.work /\ Request.n = job.quantity /\ Tail(wire) = <<>>
  BY <1>2 DEF SplitSent, Request
<1>5. /\ UNCHANGED <<ahOpen, taken, job, jobs, sales, outcome>> /\ wire' = <<>>
  BY <1>4 DEF AnswerSplit, Answered, client
<1> DEFINE rest == Stack(bags[job.src].guid, bags[job.src].kind, bags[job.src].n - job.quantity)
           new == Stack(lastGuid + 1, bags[job.src].kind, job.quantity)
<1>6. bags' = [bags EXCEPT ![job.src] = rest, ![job.work] = new]
  BY <1>3, <1>4 DEF AnswerSplit, Empty
<1>7. rest # Empty /\ new # Empty /\ new.kind = job.kind /\ new.n = job.quantity
      /\ rest.kind = job.kind /\ rest.n = Source.n - job.quantity
  <2>1. lastGuid \in Nat /\ bags[job.src] # Empty /\ bags[job.src].guid # 0
    BY <1>1, <1>3 DEF Kept, Types, Guids, Empty
  <2> QED BY <1>3, <2>1 DEF Stack, Empty, Source
<1> HIDE DEF rest, new
<1>8. /\ bags'[job.work] = new /\ bags'[job.src] = rest
      /\ \A c \in Cells \ {job.src, job.work} : bags'[c] = bags[c]
  BY <1>1, <1>3, <1>6
<1>9. Taken' = Taken \cup {job.work}
  <2>1. bags[job.src] # Empty
    BY <1>3 DEF Empty
  <2> QED BY <1>3, <1>7, <1>8, <2>1 DEF Taken, Holds
<1>10. Cardinality(Taken)' <= taken + 1
  <2>1. Cardinality(Taken \cup {job.work}) <= Cardinality(Taken) + 1
    BY TakenIsFinite, FS_AddElement
  <2>2. Cardinality(Taken \cup {job.work}) \in Nat
    BY TakenIsFinite, FS_AddElement
  <2> QED BY <1>1, <1>2, <1>9, <2>1, <2>2, TakenIsFinite DEF SplitSent
<1>11. Left(ToGo - 1)'
  <2>1. ToGo \in Nat \ {0} /\ Source.n >= job.quantity * ToGo
    BY <1>2 DEF SplitSent, Left
  <2>2. job.quantity \in Nat \ {0} /\ Source.n \in Int
    BY <1>1, <1>3 DEF JobTypes, Stacks, Source, Kept, Types
  <2>3. rest.n >= job.quantity * (ToGo - 1)
    BY <1>7, <2>1, <2>2, OneLess
  <2>4. ToGo' = ToGo /\ Source' = rest
    BY <1>5, <1>8 DEF ToGo, Source
  <2> QED BY <1>5, <1>7, <2>1, <2>3, <2>4 DEF Left
<1>12. OwnSales' = OwnSales
  BY <1>5 DEF OwnSales
<1>13. SplitLanded'
  BY <1>2, <1>3, <1>5, <1>7, <1>8, <1>10, <1>11, <1>12 DEF SplitSent, SplitLanded, Landed, Work
<1> QED BY <1>5, <1>13 DEF Clean, SoldAsAsked

(* The one sale on the wire takes the stack that shows where it was posted from. *)
LEMMA SellIsClean == ASSUME Kept, Clean, AnswerSell PROVE Clean'
<1>1. /\ job \in JobTypes /\ bags \in [Cells -> Stacks] /\ taken \in Nat /\ jobs \in Nat
      /\ \A c, d \in Cells : bags[c] # Empty /\ bags[c].guid = bags[d].guid => c = d
      /\ IsFiniteSet(sales) /\ \A s \in sales, c \in Cells : bags[c].guid # s.stack.guid
  BY DEF Kept, Types, GuidsAreUnique, Clean
<1>2. SaleSent
  BY DEF AnswerSell, Request, Clean, Ready, SplitSent, SplitLanded, Sold
<1>3. Request.guid = job.guid /\ Request.job = jobs /\ Tail(wire) = <<>>
  BY <1>2 DEF SaleSent, Request
<1>4. UNCHANGED <<ahOpen, taken, job, jobs, outcome>> /\ wire' = <<>>
  BY <1>3 DEF AnswerSell, Answered, client
<1>5. PICK c \in Taken : /\ bags[c].guid = Request.guid
                        /\ sales' = sales \cup {[stack |-> bags[c], job |-> Request.job]}
                        /\ bags' = [bags EXCEPT ![c] = Empty]
  BY DEF AnswerSell
<1>6. c \in Cells /\ bags[c] # Empty /\ job.work \in Cells
  BY <1>2 DEF Taken, Holds, SaleSent, Kept, Types
<1>7. c = job.work
  BY <1>1, <1>2, <1>3, <1>5, <1>6 DEF SaleSent, Work
<1>8. Taken' = Taken \ {c} /\ bags'[job.work] = Empty
  BY <1>1, <1>5, <1>6, <1>7 DEF Taken, Holds
<1>9. Cardinality(Taken)' <= taken
  <2>1. Cardinality(Taken \ {c}) = Cardinality(Taken) - 1
    BY TakenIsFinite, FS_RemoveElement
  <2> QED BY <1>1, <1>2, <1>8, <2>1, TakenIsFinite DEF SaleSent
<1>10. SoldAsAsked'
  <2>1. bags[c].kind = job.kind /\ bags[c].n = job.quantity
    BY <1>2, <1>7 DEF SaleSent, Landed, Work
  <2> QED BY <1>1, <1>3, <1>4, <1>5, <2>1 DEF Clean, SoldAsAsked
<1> DEFINE sale == [stack |-> bags[c], job |-> jobs]
<1>11. Cardinality(OwnSales)' = job.posted + 1
  <2>1. sale \notin sales /\ sale.job = jobs
    BY <1>1, <1>6
  <2>2. OwnSales' = OwnSales \cup {sale} /\ sale \notin OwnSales
    <3> HIDE DEF sale
    <3>1. sales' = sales \cup {sale}
      BY <1>3, <1>5 DEF sale
    <3> QED BY <1>4, <2>1, <3>1 DEF OwnSales
  <2>3. IsFiniteSet(OwnSales)
    BY <1>1, FS_Subset DEF OwnSales
  <2> HIDE DEF sale
  <2>4. Cardinality(OwnSales \cup {sale}) = Cardinality(OwnSales) + 1
    BY <2>2, <2>3, FS_AddElement
  <2> QED BY <1>2, <2>2, <2>4 DEF SaleSent
<1>12. ToGo' = ToGo /\ LastOrSplit' /\ Left(ToGo - 1)'
  <2>1. ToGo' = ToGo /\ LastOrSplit /\ LastOrSplit' /\ Left(ToGo - 1)
    BY <1>2, <1>4 DEF ToGo, LastOrSplit, SaleSent
  <2>2. CASE job.work = job.src
    <3>1. ToGo = 1
      BY <2>1, <2>2 DEF LastOrSplit
    <3> QED BY <2>1, <3>1 DEF Left
  <2>3. CASE job.work # job.src
    <3>1. job.src \in Cells
      BY <1>2 DEF SaleSent, Clean, Kept, Types
    <3>2. Source' = Source
      BY <1>1, <1>4, <1>5, <1>7, <2>3, <3>1 DEF Source
    <3> QED BY <1>4, <2>1, <3>2 DEF Left
  <2> QED BY <2>2, <2>3
<1>13. Sold'
  BY <1>2, <1>4, <1>8, <1>9, <1>11, <1>12 DEF SaleSent, Sold, Work
<1> QED BY <1>4, <1>10, <1>13 DEF Clean

(* A job begins where the last one left nothing on the wire. *)
LEMMA ScriptIsClean ==
  ASSUME Kept, Clean, NEW c \in Cells, NEW q \in Quantities, NEW t \in Totals, Script_PostItem(c, q, t)
  PROVE  Clean'
<1> USE DEF game
<1>1. Ready /\ jobs \in Nat
  BY DEF Script_PostItem, Clean, SplitSent, SplitLanded, SaleSent, Sold, Kept, Types
<1>2. /\ job'.phase = "Idle" /\ job'.active /\ job'.kind = bags[c].kind /\ job'.quantity = q
      /\ job'.src = c /\ job'.total = t /\ job'.posted = 0 /\ outcome' = "none"
      /\ UNCHANGED <<bags, sales, wire, ahOpen>> /\ jobs' = jobs + 1 /\ taken' = Cardinality(Taken)
      /\ bags[c].n >= q * t /\ (bags[c].n > q => FreeCells # {})
  BY DEF Script_PostItem
<1>3. job'.kind \in Kinds
  BY <1>2 DEF Script_PostItem, Holds, Kept, GuidsAreUnique
<1>4. SoldAsAsked' /\ OwnSales' = {}
  BY <1>1, <1>2 DEF Clean, SoldAsAsked, OwnSales
<1>5. Taken' = Taken /\ FreeCells' = FreeCells
  BY <1>2 DEF Taken, Holds, FreeCells
<1>6. ToGo' = t /\ t \in Nat /\ Source' = bags[c]
  BY <1>2, PostItemAssumption DEF ToGo, Source
<1>7. Left(ToGo)' /\ Cardinality(OwnSales)' = 0
  BY <1>2, <1>4, <1>6, FS_EmptySet DEF Left
<1>8. Ready' /\ taken' \in Nat
  BY <1>1, <1>2, <1>5, <1>6, <1>7, TakenIsFinite DEF Ready
<1> QED BY <1>2, <1>3, <1>4, <1>8 DEF Clean

LEMMA CleanInvariance == Spec => []CleanInv
<1>1. Init => CleanInv
  <2> SUFFICES ASSUME Init PROVE CleanInv
    OBVIOUS
  <2>1. Ready /\ ~job.active /\ job.phase = "Idle" /\ outcome = "none"
    <3>1. OwnSales = {}
      BY DEF Init, OwnSales
    <3> QED BY <3>1, FS_EmptySet DEF Init, Ready, NoJob
  <2>2. SoldAsAsked /\ ahOpen /\ taken \in Nat /\ ~trouble /\ trouble \in BOOLEAN /\ ~meddled
    BY DEF Init, SoldAsAsked
  <2> QED BY <2>1, <2>2 DEF CleanInv, Clean
<1>2. Inv /\ CleanInv /\ [Next]_vars => CleanInv'
  <2> SUFFICES ASSUME Inv, CleanInv, [Next]_vars PROVE CleanInv'
    OBVIOUS
  <2> USE DEF game, client
  <2>1. trouble' \in BOOLEAN /\ (trouble => trouble')
    BY DEF CleanInv, Next, vars, Tick, TickClosed, TickDone, TickStuck, TickUnsent, TickPostSource, TickSplit, TickSplitWait,
           TickPostWait, TickWait, TickTimeout, Finish, PostStack, Server, AnswerSplit, AnswerSell, AnswerSwap,
           Refuse, Answered, Player, Script_PostItem, MoveStack, Loot, CloseAuctionHouse, OpenAuctionHouse, Act
  <2> SUFFICES ASSUME ~trouble' PROVE ~meddled' /\ Clean'
    BY <2>1 DEF CleanInv
  <2>2. Kept /\ Clean /\ ~meddled
    BY <2>1 DEF Inv, CleanInv
  <2>3. ~meddled'
    <3>1. Tick \/ Server => UNCHANGED meddled
      BY DEF Tick, TickClosed, TickDone, TickStuck, TickUnsent, TickPostSource, TickSplit, TickSplitWait,
             TickPostWait, TickWait, TickTimeout, Finish, Server, AnswerSplit, AnswerSell, AnswerSwap,
             Refuse, Answered
    <3>2. Player \/ UNCHANGED vars => UNCHANGED meddled
      BY DEF vars, Player, Script_PostItem, MoveStack, Loot, CloseAuctionHouse, OpenAuctionHouse, Act
    <3> QED BY <2>2, <3>1, <3>2 DEF Next
  <2>4. CASE Tick
    BY <2>2, <2>3, <2>4, TickIsClean
  <2>5. CASE AnswerSplit \/ AnswerSell
    BY <2>2, <2>3, <2>5, SplitIsClean, SellIsClean
  <2>6. CASE AnswerSwap \/ Refuse
    <3>1. ~AnswerSwap
      BY <2>2 DEF AnswerSwap, Request, Clean, Ready, SplitSent, SplitLanded, SaleSent, Sold
    <3> QED BY <2>6, <3>1 DEF Refuse
  <2>7. CASE \E c \in Cells, q \in Quantities, t \in Totals : Script_PostItem(c, q, t)
    BY <2>2, <2>3, <2>7, ScriptIsClean
  <2>8. CASE MoveStack \/ Loot \/ CloseAuctionHouse \/ OpenAuctionHouse
    BY <2>2, <2>8 DEF MoveStack, Loot, CloseAuctionHouse, OpenAuctionHouse, Act, Clean
  <2>9. CASE UNCHANGED vars
    BY <2>2, <2>9 DEF vars, Clean, Ready, SplitSent, SplitLanded, SaleSent, Sold, SoldAsAsked, Landed, Work,
                      Source, Taken, Holds, OwnSales, Left, ToGo, LastOrSplit, FreeCells
  <2> QED BY <2>3, <2>4, <2>5, <2>6, <2>7, <2>8, <2>9 DEF Next, Server, Player
<1> QED BY <1>1, <1>2, Invariance, PTL DEF Spec

(* Whatever the bags hold, a job that meets no trouble auctions stacks of the kind and the size it
   was asked for, and as many, and does not fail; and never holds more than one slot beyond those
   taken at its start. *)
THEOREM StacksArePostedAsAsked == Spec => []PostedAsAsked
<1>1. Kept /\ Clean => PostedAsAsked
  <2> SUFFICES ASSUME Kept, Clean PROVE PostedAsAsked
    OBVIOUS
  <2>1. \A s \in OwnSales : s.stack.kind = job.kind /\ s.stack.n = job.quantity
    BY DEF Clean, SoldAsAsked, OwnSales
  <2>2. job.total \in Int /\ job.posted \in Int
    BY DEF Kept, Types, JobTypes
  <2>3. Cardinality(OwnSales) <= job.total
    BY <2>2 DEF Clean, Ready, SplitSent, SplitLanded, SaleSent, Sold, Left, ToGo
  <2>4. outcome # "failed" /\ (outcome = "done" => Cardinality(OwnSales) = job.total)
    BY DEF Clean, Ready, SplitSent, SplitLanded, SaleSent, Sold
  <2>5. job.active => Cardinality(Taken) <= taken + 1
    BY TakenIsFinite DEF Clean, Ready, SplitSent, SplitLanded, SaleSent, Sold
  <2> QED BY <2>1, <2>3, <2>4, <2>5 DEF PostedAsAsked
<1>2. Inv /\ CleanInv => PostedAsAsked
  BY <1>1 DEF Inv, CleanInv, PostedAsAsked
<1> QED BY <1>2, Invariance, CleanInvariance, PTL
=============================================================================
