---------------------------- MODULE TimerService ----------------------------
(***************************************************************************)
(* What C_Timer promises an addon (time/Timer.cpp), with no queue, no      *)
(* frame and no Lua registry: a set of pending calls, each made at or      *)
(* after its due time, repeated while it has calls left, and never made    *)
(* again once it is cancelled or the interface is reloaded.                *)
(***************************************************************************)
EXTENDS Integers

CONSTANT Ids   \* the ids a timer can have

VARIABLES
  pending,   \* function from the id of each pending timer to its Call
  called,    \* the id whose callback runs, 0 for none
  clock      \* the monotonic clock

vars == <<pending, called, clock>>

(* due: earliest time of the next call; every: ticker period, 0 for a one-shot;
   left: calls still to make, -1 for a ticker without end *)
Call == [due : Int, every : Nat, left : Int]

Without(f, i) == [j \in DOMAIN f \ {i} |-> f[j]]

(* What is left of a call once it has been made. *)
LastCall(c) == c.every = 0 \/ c.left = 1
NextCall(c) == [c EXCEPT !.due = @ + c.every,
                         !.left = IF @ > 0 THEN @ - 1 ELSE @]

Init == pending = [i \in {} |-> 0] /\ called = 0 /\ clock = 0

(* A new timer takes an id no pending timer has. *)
Start(i) ==
  /\ i \notin DOMAIN pending
  /\ DOMAIN pending' = DOMAIN pending \cup {i}
  /\ pending'[i] \in Call
  /\ pending'[i].due >= clock
  /\ Without(pending', i) = pending
  /\ UNCHANGED <<called, clock>>

(* Only a pending call is made, when it is due, and not inside another. *)
Fire(i) ==
  /\ called = 0
  /\ i \in DOMAIN pending
  /\ pending[i].due <= clock
  /\ pending' = IF LastCall(pending[i])
                THEN Without(pending, i)
                ELSE [pending EXCEPT ![i] = NextCall(@)]
  /\ called' = i
  /\ UNCHANGED clock

Return ==
  /\ called # 0
  /\ called' = 0
  /\ UNCHANGED <<pending, clock>>

Cancel(i) ==
  /\ i \in DOMAIN pending
  /\ pending' = Without(pending, i)
  /\ UNCHANGED <<called, clock>>

Reset ==
  /\ called = 0
  /\ pending' = [i \in {} |-> 0]
  /\ UNCHANGED <<called, clock>>

Pass ==
  /\ clock' > clock
  /\ UNCHANGED <<pending, called>>

Next ==
  \/ \E i \in Ids :
       \/ Start(i)
       \/ Fire(i)
       \/ Cancel(i)
  \/ Return
  \/ Reset
  \/ Pass

Spec == Init /\ [][Next]_vars
=============================================================================
