------------------------------ MODULE PostItem ------------------------------
(***************************************************************************)
(* C_AuctionHouse.PostItem (auctionhouse/PostItem.cpp): one job that posts *)
(* `total` auctions of `quantity` each out of one stack, splitting a stack *)
(* off, posting it, and splitting again, one step per frame.  The job has  *)
(* no answers to wait for: it goes by what a bag slot shows.               *)
(*                                                                         *)
(* bags is what the client shows.  The connection keeps order both ways,   *)
(* so a request still on the wire stands for every request the client has  *)
(* seen no effect of, and takes effect when the client sees it.            *)
(***************************************************************************)
EXTENDS Integers, FiniteSets, Sequences

CONSTANTS
  NumCells,      \* the slots of the five bags, numbered in the order of bags
  General,       \* those in general-purpose bags
  Kinds,         \* item ids
  MaxStack,      \* the largest stack
  Quantities,    \* the `quantity` an addon passes
  Totals,        \* the `numStacks` it passes
  MaxWait,       \* kMaxWaitTicks
  MaxJobs,       \* bound: accepted jobs
  MaxMoves,      \* bound: times the player changes the bags or closes the window
  MaxWire        \* bound: requests on the wire when the player adds one

ASSUME PostItemAssumption ==
  /\ NumCells \in Nat /\ General \subseteq 1..NumCells /\ MaxStack \in Nat /\ "none" \notin Kinds
  /\ Quantities \subseteq Nat \ {0} /\ Totals \subseteq Nat \ {0}
  /\ {MaxWait, MaxJobs, MaxMoves, MaxWire} \subseteq Nat

VARIABLES
  bags,          \* cell -> the stack it shows
  lastGuid,      \* the last GUID the server gave a stack
  wire,          \* requests with no effect seen yet
  ahOpen,        \* the auctioneer GUID is set
  job,           \* g_job
  outcome,       \* how the last job ended: "none", "done", "failed"
  jobs, moves,   \* accepted jobs, bounded acts of the player
  meddled,       \* history: the player has changed the bags
  sales,         \* history: the stacks auctioned, and by which job
  updates,       \* history: AUCTION_MULTISELL_UPDATE events, of all jobs
  trouble,       \* history: something went wrong that the job may fail of
  taken          \* history: cells taken when the job was accepted

game == <<bags, lastGuid, sales>>
client == <<ahOpen, jobs, moves, meddled>>
vars == <<game, wire, client, job, outcome, updates, trouble, taken>>

Cells == 1..NumCells

Empty == [guid |-> 0, kind |-> "none", n |-> 0]
Stack(g, k, n) == [guid |-> g, kind |-> k, n |-> n]

Holds(c) == bags[c] # Empty
Taken == {c \in Cells : Holds(c)}
FreeCells == General \ Taken
FirstFree == CHOOSE c \in FreeCells : \A d \in FreeCells : c <= d

NoJob == [active |-> FALSE, src |-> 0, kind |-> "none", quantity |-> 0, total |-> 0,
          posted |-> 0, phase |-> "Idle", work |-> 0, guid |-> 0, ticks |-> 0]

-----------------------------------------------------------------------------

Init ==
  /\ bags \in {b \in [Cells -> {Empty} \cup [guid : Cells, kind : Kinds, n : 1..MaxStack]] :
                 \A c \in Cells : b[c] = Empty \/ b[c].guid = c}
  /\ lastGuid = NumCells
  /\ wire = <<>>
  /\ ahOpen = TRUE
  /\ job = NoJob
  /\ outcome = "none"
  /\ jobs = 0 /\ moves = 0 /\ meddled = FALSE
  /\ sales = {}
  /\ updates = 0
  /\ trouble = FALSE
  /\ taken = 0

(* C_AuctionHouse.PostItem; a call it rejects changes nothing. *)
Script_PostItem(c, quantity, total) ==
  /\ ahOpen
  /\ ~job.active
  /\ jobs < MaxJobs
  /\ Holds(c)
  /\ bags[c].n >= quantity * total
  /\ bags[c].n > quantity => FreeCells # {}
  /\ job' = [active |-> TRUE, src |-> c, kind |-> bags[c].kind, quantity |-> quantity,
             total |-> total, posted |-> 0, phase |-> "Idle", work |-> 0, guid |-> 0, ticks |-> 0]
  /\ outcome' = "none"
  /\ jobs' = jobs + 1
  /\ taken' = Cardinality(Taken)
  /\ UNCHANGED <<game, wire, ahOpen, moves, meddled, updates, trouble>>

-----------------------------------------------------------------------------
(* Tick, once per frame while a job is active. *)

Finish(success) ==
  /\ job' = [job EXCEPT !.active = FALSE]
  /\ outcome' = IF success THEN "done" ELSE "failed"
  /\ UNCHANGED <<game, wire, client, updates, taken>>

(* The engine's StartAuction sends the sale, or rejects it and sends nothing. *)
PostStack(guid) ==
  \/ wire' = Append(wire, [op |-> "sell", guid |-> guid, job |-> jobs]) /\ UNCHANGED trouble
  \/ trouble' = TRUE /\ UNCHANGED wire

Frame(phase) == job.active /\ ahOpen /\ job.phase = phase

(* The window was closed. *)
TickClosed ==
  /\ job.active /\ ~ahOpen
  /\ Finish(FALSE)
  /\ UNCHANGED trouble

TickDone ==
  /\ Frame("Idle")
  /\ job.posted >= job.total
  /\ Finish(TRUE)
  /\ UNCHANGED trouble

Source == bags[job.src]
SourceIsGood == Source.kind = job.kind /\ Source.n >= job.quantity

NextStack == Frame("Idle") /\ job.posted < job.total

(* The source has changed, or no slot is left to split into. *)
TickStuck ==
  /\ NextStack
  /\ SourceIsGood => Source.n # job.quantity /\ FreeCells = {}
  /\ Finish(FALSE)
  /\ UNCHANGED trouble

(* Mutant: posts the source as soon as it holds enough. *)
TickPostAnySource ==
  /\ NextStack
  /\ SourceIsGood
  /\ PostStack(Source.guid)
  /\ job' = [job EXCEPT !.work = job.src, !.guid = Source.guid, !.phase = "PostWait", !.ticks = 0]
  /\ UNCHANGED <<game, client, outcome, updates, taken>>

(* The source is down to the last stack: post it where it is. *)
TickPostSource ==
  /\ NextStack
  /\ SourceIsGood /\ Source.n = job.quantity
  /\ PostStack(Source.guid)
  /\ job' = [job EXCEPT !.work = job.src, !.guid = Source.guid, !.phase = "PostWait", !.ticks = 0]
  /\ UNCHANGED <<game, client, outcome, updates, taken>>

TickSplit ==
  /\ NextStack
  /\ SourceIsGood /\ Source.n # job.quantity
  /\ FreeCells # {}
  /\ wire' = Append(wire, [op |-> "split", src |-> job.src, dst |-> FirstFree, n |-> job.quantity])
  /\ job' = [job EXCEPT !.work = FirstFree, !.phase = "SplitWait", !.ticks = 0]
  /\ UNCHANGED <<game, client, outcome, updates, trouble, taken>>

(* MoveCount sends nothing: a bag or the player cannot be resolved. *)
TickUnsent ==
  /\ NextStack
  /\ SourceIsGood /\ Source.n # job.quantity
  /\ FreeCells # {}
  /\ Finish(FALSE)
  /\ trouble' = TRUE

Work == bags[job.work]
Landed == Work.kind = job.kind /\ Work.n = job.quantity
Gone == Work.guid # job.guid

(* The stack split off shows up: post it. *)
TickSplitWait ==
  /\ Frame("SplitWait")
  /\ Landed
  /\ PostStack(Work.guid)
  /\ job' = [job EXCEPT !.guid = Work.guid, !.phase = "PostWait", !.ticks = 0]
  /\ UNCHANGED <<game, client, outcome, updates, taken>>

(* Mutant: a stack counts as posted as soon as its sale is sent. *)
TickPostWaitNoWait ==
  /\ Frame("PostWait")
  /\ updates' = updates + 1
  /\ job' = [job EXCEPT !.posted = @ + 1, !.phase = "Idle", !.ticks = 0]
  /\ UNCHANGED <<game, wire, client, outcome, trouble, taken>>

(* The stack has left the slot it was posted from: count it. *)
TickPostWait ==
  /\ Frame("PostWait")
  /\ Gone
  /\ updates' = updates + 1
  /\ job' = [job EXCEPT !.posted = @ + 1, !.phase = "Idle", !.ticks = 0]
  /\ UNCHANGED <<game, wire, client, outcome, trouble, taken>>

Waiting ==
  \/ Frame("SplitWait") /\ ~Landed
  \/ Frame("PostWait") /\ ~Gone

(* Mutant: the wait is never given up. *)
TickWaitForever ==
  /\ Waiting
  /\ job' = [job EXCEPT !.ticks = IF @ < MaxWait THEN @ + 1 ELSE 0]
  /\ UNCHANGED <<game, wire, client, outcome, updates, trouble, taken>>

TickWait ==
  /\ Waiting
  /\ job.ticks < MaxWait
  /\ job' = [job EXCEPT !.ticks = @ + 1]
  /\ UNCHANGED <<game, wire, client, outcome, updates, trouble, taken>>

TickTimeout ==
  /\ Waiting
  /\ job.ticks >= MaxWait
  /\ Finish(FALSE)
  /\ trouble' = TRUE

Tick ==
  \/ TickClosed \/ TickDone \/ TickStuck \/ TickPostSource \/ TickSplit \/ TickUnsent
  \/ TickSplitWait \/ TickPostWait \/ TickWait \/ TickTimeout

-----------------------------------------------------------------------------
(* The server, external: what it does with the oldest request. *)

Request == Head(wire)

Answered ==
  /\ wire' = Tail(wire)
  /\ UNCHANGED <<client, job, outcome, updates, trouble, taken>>

(* A split into an empty slot makes a new stack, onto its own kind it pours. *)
AnswerSplit ==
  /\ wire # <<>> /\ Request.op = "split"
  /\ LET a == bags[Request.src]
         b == bags[Request.dst]
         rest == Stack(a.guid, a.kind, a.n - Request.n)
     IN /\ a.n > Request.n
        /\ \/ /\ b = Empty
              /\ bags' = [bags EXCEPT ![Request.src] = rest,
                                      ![Request.dst] = Stack(lastGuid + 1, a.kind, Request.n)]
              /\ lastGuid' = lastGuid + 1
           \/ /\ b.kind = a.kind /\ b.n + Request.n <= MaxStack /\ Request.src # Request.dst
              /\ bags' = [bags EXCEPT ![Request.src] = rest, ![Request.dst].n = @ + Request.n]
              /\ UNCHANGED lastGuid
  /\ UNCHANGED sales
  /\ Answered

(* A sale takes the whole stack the GUID names. *)
AnswerSell ==
  /\ wire # <<>> /\ Request.op = "sell"
  /\ \E c \in Taken :
       /\ bags[c].guid = Request.guid
       /\ sales' = sales \cup {[stack |-> bags[c], job |-> Request.job]}
       /\ bags' = [bags EXCEPT ![c] = Empty]
  /\ UNCHANGED lastGuid
  /\ Answered

(* A swap by the player: two stacks of a kind merge, others change places. *)
AnswerSwap ==
  /\ wire # <<>> /\ Request.op = "swap"
  /\ LET a == bags[Request.src]
         b == bags[Request.dst]
         sum == a.n + b.n
         poured == IF sum <= MaxStack THEN sum ELSE MaxStack
     IN /\ a # Empty
        /\ bags' = IF a.kind = b.kind /\ b.n < MaxStack
                   THEN [bags EXCEPT ![Request.dst].n = poured,
                                     ![Request.src] = IF sum <= MaxStack THEN Empty
                                                      ELSE Stack(a.guid, a.kind, sum - poured)]
                   ELSE [bags EXCEPT ![Request.src] = b, ![Request.dst] = a]
  /\ UNCHANGED <<lastGuid, sales>>
  /\ Answered

(* A request that is refused or lost shows nothing at all. *)
Refuse ==
  /\ wire # <<>>
  /\ wire' = Tail(wire)
  /\ trouble' = TRUE
  /\ UNCHANGED <<game, client, job, outcome, updates, taken>>

Server == AnswerSplit \/ AnswerSell \/ AnswerSwap \/ Refuse

-----------------------------------------------------------------------------
(* The player. *)

Act == moves < MaxMoves /\ moves' = moves + 1 /\ trouble' = TRUE

MoveStack ==
  /\ Act
  /\ meddled' = TRUE
  /\ Len(wire) <= MaxWire
  /\ \E c \in Taken, d \in Cells :
       /\ c # d
       /\ wire' = Append(wire, [op |-> "swap", src |-> c, dst |-> d])
  /\ UNCHANGED <<game, ahOpen, jobs, job, outcome, updates, taken>>

Loot ==
  /\ Act
  /\ meddled' = TRUE
  /\ \E c \in Cells \ Taken, k \in Kinds, n \in Quantities :
       bags' = [bags EXCEPT ![c] = Stack(lastGuid + 1, k, n)]
  /\ lastGuid' = lastGuid + 1
  /\ UNCHANGED <<wire, ahOpen, jobs, job, outcome, sales, updates, taken>>

CloseAuctionHouse ==
  /\ Act
  /\ ahOpen
  /\ ahOpen' = FALSE
  /\ UNCHANGED <<game, wire, jobs, meddled, job, outcome, updates, taken>>

OpenAuctionHouse ==
  /\ ~ahOpen
  /\ ahOpen' = TRUE
  /\ UNCHANGED <<game, wire, jobs, moves, meddled, job, outcome, updates, trouble, taken>>

Player ==
  \/ \E c \in Cells, q \in Quantities, t \in Totals : Script_PostItem(c, q, t)
  \/ MoveStack \/ Loot \/ CloseAuctionHouse \/ OpenAuctionHouse

Next == Tick \/ Server \/ Player

(* The world tick runs every frame. *)
Spec == Init /\ [][Next]_vars
FairSpec == Spec /\ WF_vars(Tick)

-----------------------------------------------------------------------------

(* Every variable stays in its range. *)
TypeOK ==
  /\ \A c \in Cells : bags[c] # Empty =>
       bags[c].guid \in 1..lastGuid /\ bags[c].kind \in Kinds /\ bags[c].n \in 1..MaxStack
  /\ job.active \in BOOLEAN /\ job.phase \in {"Idle", "SplitWait", "PostWait"}
  /\ job.posted \in 0..job.total /\ job.ticks \in 0..MaxWait
  /\ job.active => job.src \in Cells /\ job.kind \in Kinds
  /\ job.active /\ job.phase # "Idle" => job.work \in Cells
  /\ \A s \in sales : s.stack.kind \in Kinds /\ s.stack.n \in 1..MaxStack /\ s.job \in 1..MaxJobs
  /\ {ahOpen, meddled, trouble} \subseteq BOOLEAN /\ outcome \in {"none", "done", "failed"}
  /\ jobs \in 0..MaxJobs /\ moves \in 0..MaxMoves /\ updates \in Nat /\ taken \in Nat

(* As long as the player leaves the bags alone, no stack is counted that was
   not auctioned: refusals, sales that never leave, timeouts and the retry of
   a job whose answers come late included. *)
CountIsHonest == ~meddled => updates <= Cardinality(sales)

(* What the last accepted job has auctioned. *)
OwnSales == {s \in sales : s.job = jobs}

(* A job that meets no trouble auctions the stacks it was asked for, of that kind and size and that
   many, and is done with it: it does not fail, run out of items or of slots, auction one stack too
   many, or hold more than one slot beyond those taken at its start. *)
PostedAsAsked ==
  ~trouble =>
    /\ \A s \in OwnSales : s.stack.kind = job.kind /\ s.stack.n = job.quantity
    /\ Cardinality(OwnSales) <= job.total
    /\ outcome = "done" => Cardinality(OwnSales) = job.total
    /\ outcome # "failed"
    /\ job.active => Cardinality(Taken) <= taken + 1

(* Every job ends, whatever the server and the player do. *)
JobEnds == job.active ~> ~job.active
=============================================================================
