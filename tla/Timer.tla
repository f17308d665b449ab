------------------------------- MODULE Timer -------------------------------
(***************************************************************************)
(* C_Timer (time/Timer.cpp): one queue walked once per frame by the world  *)
(* tick, in three passes (snapshot the due ids, call each, sweep).  The    *)
(* callbacks are addon code: between two steps of a frame's walk they      *)
(* schedule and cancel timers of the very queue being walked.              *)
(*                                                                         *)
(* g_timers holds its entries in the order of their ids (ids grow and the  *)
(* sweep keeps the order), so the queue is a function from ids to entries  *)
(* and a walk of it goes by increasing id.                                 *)
(***************************************************************************)
EXTENDS Integers, FiniteSets

CONSTANTS
  Delays,        \* the `seconds` an addon passes, in clock units (may be <= 0)
  Iterations,    \* the `iterations` it passes to NewTicker
  MaxID,         \* bound: ids handed out between two reloads
  MaxTime        \* bound: the clock

ASSUME TimerAssumption ==
  /\ Delays \subseteq Int
  /\ Iterations \subseteq Int
  /\ MaxID \in Nat
  /\ MaxTime \in Nat

VARIABLES
  timers,        \* g_timers: id -> Entry
  nextID,        \* g_nextID
  nextDeadline,  \* g_nextDeadline, or Never for HUGE_VAL
  toFire,        \* ids of g_toFire not yet visited by pass 2
  registry,      \* ids with a callback in the Lua registry
  handles,       \* ids whose cancel handle the addon holds
  pc,            \* where Tick stands: "idle", "firing", "callback"
  running,       \* the id whose callback runs, 0 for none
  now            \* the monotonic clock

queue == <<timers, nextID, nextDeadline, registry, handles>>
walk == <<toFire, pc, running>>
vars == <<queue, walk, now>>

Never == -1
MinPeriod == 1   \* TIMER_MIN_PERIOD: one unit of the clock

IDs == Nat \ {0}

Entry == [deadline : Nat, period : Nat, left : Int, cancelled : BOOLEAN]

LeastOf(S) == CHOOSE x \in S : \A y \in S : x <= y

Live(i) == i \in DOMAIN timers /\ ~timers[i].cancelled

NoTimers == [i \in {} |-> 0]

-----------------------------------------------------------------------------

Init ==
  /\ timers = NoTimers
  /\ nextID = 1
  /\ nextDeadline = 0
  /\ registry = {}
  /\ handles = {}
  /\ toFire = {}
  /\ pc = "idle"
  /\ running = 0
  /\ now = 0

(* Addon code runs between frames and inside a callback. *)
AddonRuns == pc \in {"idle", "callback"}

(* Mutant: only the first timer of an empty queue sets the next deadline. *)
ScheduleBehind(seconds, period, iterations, handle) ==
  LET due == now + (IF seconds < 0 THEN 0 ELSE seconds)
      entry == [deadline |-> due, period |-> period,
                left |-> iterations, cancelled |-> FALSE]
  IN /\ AddonRuns
     /\ nextID <= MaxID
     /\ timers' = [i \in DOMAIN timers \cup {nextID} |->
                     IF i = nextID THEN entry ELSE timers[i]]
     /\ nextDeadline' = IF DOMAIN timers = {} THEN due ELSE nextDeadline
     /\ registry' = registry \cup {nextID}
     /\ handles' = IF handle THEN handles \cup {nextID} ELSE handles
     /\ nextID' = nextID + 1
     /\ UNCHANGED <<walk, now>>

Schedule(seconds, period, iterations, handle) ==
  LET due == now + (IF seconds < 0 THEN 0 ELSE seconds)
      entry == [deadline |-> due, period |-> period,
                left |-> iterations, cancelled |-> FALSE]
  IN /\ AddonRuns
     /\ nextID <= MaxID
     /\ timers' = [i \in DOMAIN timers \cup {nextID} |->
                     IF i = nextID THEN entry ELSE timers[i]]
     /\ nextDeadline' = IF DOMAIN timers = {} \/ nextDeadline = Never \/ due < nextDeadline
                        THEN due ELSE nextDeadline
     /\ registry' = registry \cup {nextID}
     /\ handles' = IF handle THEN handles \cup {nextID} ELSE handles
     /\ nextID' = nextID + 1
     /\ UNCHANGED <<walk, now>>

After(seconds) == Schedule(seconds, 0, 1, FALSE)

NewTimer(seconds) == Schedule(seconds, 0, 1, TRUE)

NewTicker(seconds, iterations) ==
  LET period == IF seconds < MinPeriod THEN MinPeriod ELSE seconds
  IN Schedule(period, period, IF iterations >= 1 THEN iterations ELSE -1, TRUE)

TimerCancel(i) ==
  /\ AddonRuns
  /\ i \in handles \cap DOMAIN timers
  /\ timers' = [timers EXCEPT ![i].cancelled = TRUE]
  /\ UNCHANGED <<nextID, nextDeadline, registry, handles, walk, now>>

-----------------------------------------------------------------------------
(* Tick. *)

Due(i) == Live(i) /\ timers[i].left # 0 /\ timers[i].deadline <= now

(* Early returns of Tick, then pass 1. *)
Snapshot ==
  /\ pc = "idle"
  /\ DOMAIN timers # {}
  /\ nextDeadline # Never /\ nextDeadline <= now
  /\ toFire' = {i \in DOMAIN timers : Due(i)}
  /\ pc' = "firing"
  /\ UNCHANGED <<queue, running, now>>

(* Pass 2 visits an id that is gone, cancelled, or has lost its callback. *)
FireSkip ==
  /\ pc = "firing"
  /\ toFire # {}
  /\ LET id == LeastOf(toFire)
     IN /\ ~Live(id) \/ id \notin registry
        /\ timers' = IF id \in DOMAIN timers
                     THEN [timers EXCEPT ![id].cancelled = TRUE] ELSE timers
        /\ toFire' = toFire \ {id}
  /\ UNCHANGED <<nextID, nextDeadline, registry, handles, pc, running, now>>

(* Mutant: pass 2 trusts the snapshot and looks only for the callback. *)
FireCallStale ==
  /\ pc = "firing"
  /\ toFire # {}
  /\ LeastOf(toFire) \in registry
  /\ running' = LeastOf(toFire)
  /\ toFire' = toFire \ {LeastOf(toFire)}
  /\ pc' = "callback"
  /\ UNCHANGED <<queue, now>>

(* Pass 2 calls back: PCall has been entered. *)
FireCall ==
  /\ pc = "firing"
  /\ toFire # {}
  /\ LET id == LeastOf(toFire)
     IN /\ Live(id)
        /\ id \in registry
        /\ running' = id
        /\ toFire' = toFire \ {id}
  /\ pc' = "callback"
  /\ UNCHANGED <<queue, now>>

Repeated(e) ==
  LET left == IF e.left > 0 THEN e.left - 1 ELSE e.left
  IN [deadline |-> e.deadline + e.period, period |-> e.period,
      left |-> left, cancelled |-> left = 0]

(* PCall has returned, with or without a Lua error: find the entry again. *)
CallbackReturns ==
  /\ pc = "callback"
  /\ timers' = IF ~Live(running) THEN timers
               ELSE IF timers[running].period > 0
                    THEN [timers EXCEPT ![running] = Repeated(@)]
                    ELSE [timers EXCEPT ![running].cancelled = TRUE]
  /\ running' = 0
  /\ pc' = "firing"
  /\ UNCHANGED <<nextID, nextDeadline, registry, handles, toFire, now>>

(* Mutant: the sweep leaves the next deadline to the next Schedule. *)
SweepForgetsTheRest ==
  /\ pc = "firing"
  /\ toFire = {}
  /\ timers' = [i \in {j \in DOMAIN timers : Live(j)} |-> timers[i]]
  /\ registry' = {j \in DOMAIN timers : Live(j)}
  /\ nextDeadline' = Never
  /\ pc' = "idle"
  /\ UNCHANGED <<nextID, handles, toFire, running, now>>

(* Pass 3. *)
Sweep ==
  /\ pc = "firing"
  /\ toFire = {}
  /\ LET kept == {i \in DOMAIN timers : Live(i)}
     IN /\ timers' = [i \in kept |-> timers[i]]
        /\ registry' = registry \ (DOMAIN timers \ kept)
        /\ nextDeadline' = IF kept = {} THEN Never
                           ELSE LeastOf({timers[i].deadline : i \in kept})
  /\ pc' = "idle"
  /\ UNCHANGED <<nextID, handles, toFire, running, now>>

(* Mutant: the queue is cleared and its callbacks stay in the registry. *)
PrepareForReloadLeaks ==
  /\ pc = "idle"
  /\ timers' = NoTimers
  /\ nextID' = 1
  /\ handles' = {}
  /\ UNCHANGED <<nextDeadline, registry, walk, now>>

(* Mutant: a reload from inside a callback clears the queue and starts the ids
   over while pass 2 still holds its snapshot. *)
PrepareForReloadMidWalk ==
  /\ timers' = NoTimers
  /\ registry' = registry \ DOMAIN timers
  /\ nextID' = 1
  /\ handles' = {}
  /\ UNCHANGED <<nextDeadline, walk, now>>

(* PrepareForReload, before the engine replaces the Lua state: the handles
   die with it. *)
PrepareForReload ==
  /\ pc = "idle"
  /\ timers' = NoTimers
  /\ registry' = registry \ DOMAIN timers
  /\ nextID' = 1
  /\ handles' = {}
  /\ UNCHANGED <<nextDeadline, walk, now>>

Advance ==
  /\ now < MaxTime
  /\ now' = now + 1
  /\ UNCHANGED <<queue, walk>>

Addon ==
  \/ \E s \in Delays : After(s) \/ NewTimer(s)
  \/ \E s \in Delays, n \in Iterations : NewTicker(s, n)
  \/ \E i \in DOMAIN timers : TimerCancel(i)

Tick == Snapshot \/ FireSkip \/ FireCall \/ CallbackReturns \/ Sweep

Next == Addon \/ Tick \/ PrepareForReload \/ Advance

Spec == Init /\ [][Next]_vars

(* Frames keep coming and a frame's walk runs to its end: callbacks return. *)
FairSpec == Spec /\ WF_vars(Tick)

-----------------------------------------------------------------------------

TypeOK ==
  /\ DOMAIN timers \subseteq IDs
  /\ \A i \in DOMAIN timers : timers[i] \in Entry
  /\ nextID \in IDs
  /\ nextDeadline \in Nat \cup {Never}
  /\ toFire \subseteq IDs
  /\ registry \subseteq IDs
  /\ handles \subseteq IDs
  /\ pc \in {"idle", "firing", "callback"}
  /\ running \in Nat
  /\ now \in Nat

(* Tick returns at once before g_nextDeadline, so between frames no live timer
   may be due before it: a timer scheduled or repeated from inside a callback
   included. *)
NextDeadlineIsLowerBound ==
  pc = "idle" =>
    \A i \in DOMAIN timers :
      Live(i) => nextDeadline # Never /\ nextDeadline <= timers[i].deadline

(* The Lua registry pins exactly the callbacks of the queue's entries: nothing
   leaks when an entry is swept or a reload clears the queue, and no entry
   outlives its callback. *)
RegistryMatchesQueue == registry = DOMAIN timers

(* The ids of a snapshot that a callback cancels, or that a callback appends
   behind, never make pass 2 call an id twice: the running timer is not in the
   snapshot's rest, and every id of the rest is older than any id to come. *)
SnapshotIsOld ==
  /\ running \notin toFire
  /\ pc = "idle" => toFire = {}
  /\ \A i \in toFire : i < nextID

(* Once its time has come a timer is called, unless it is cancelled or
   reloaded away first: no early return and no stale g_nextDeadline starves
   it. *)
DueTimersAreCalled ==
  \A i \in 1..MaxID : Due(i) ~> (running = i \/ ~Live(i))

-----------------------------------------------------------------------------
(* The promise the queue keeps.  A call counts as made when PCall is entered,
   so the running entry is seen as it will be once the callback returns. *)
Served(i) ==
  LET e == timers[i]
      c == [due |-> e.deadline, every |-> e.period, left |-> e.left]
  IN IF i # running THEN c
     ELSE [c EXCEPT !.due = @ + e.period, !.left = IF @ > 0 THEN @ - 1 ELSE @]

LastRun(i) == i = running /\ (timers[i].period = 0 \/ timers[i].left = 1)

PendingCalls == [i \in {j \in DOMAIN timers : Live(j) /\ ~LastRun(j)} |-> Served(i)]

Service == INSTANCE TimerService WITH Ids <- 1..MaxID, pending <- PendingCalls,
                                     called <- running, clock <- now

(* The queue implements the promise of TimerService. *)
KeepsPromise == Service!Spec
=============================================================================
