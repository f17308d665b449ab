------------------------------ MODULE AnimGroup ------------------------------
(***************************************************************************)
(* Animation groups: their playback (animation/Group.cpp, Anim.cpp) and    *)
(* the alpha of the regions they animate (animation/Region.cpp).           *)
(*                                                                         *)
(* A frame's update runs every group of the frame and of its regions, and  *)
(* playing, updating and stopping a group run scripts of the group and of  *)
(* its animations, which call any group of the region tree.  `stack` holds *)
(* what is under way, innermost first, as C++'s own stack does: for each   *)
(* the point it has reached, which is a script's or is passed at once.     *)
(*                                                                         *)
(* Every order of a group holds one Alpha animation without delays, target *)
(* or smoothing, and updates come no faster than the animations' throttle. *)
(* The regions are one frame's and its own, inside nothing transparent.    *)
(***************************************************************************)
EXTENDS Integers, Sequences, FiniteSets, SequencesExt

CONSTANTS
  Regions,      \* a frame and its textures and font strings
  Frame,        \* the frame
  Groups,
  RegionOf,     \* group -> the region it animates
  LoopType,     \* group -> "NONE", "REPEAT", "BOUNCE"
  FinalAlpha,   \* the groups with setToFinalAlpha
  Change,       \* group -> what its animations add to the alpha per unit of time
  OrderCount,   \* order lists of a group
  Span,         \* what an order lasts, in units of time
  Opaque,       \* alpha 255
  Alphas,       \* the alphas SetAlpha is called with
  MaxCalls      \* bound: calls of addons

ASSUME AnimGroupAssumption ==
  /\ Frame \in Regions /\ RegionOf \in [Groups -> Regions]
  /\ IsFiniteSet(Groups) /\ FinalAlpha \subseteq Groups
  /\ LoopType \in [Groups -> {"NONE", "REPEAT", "BOUNCE"}]
  /\ Change \in [Groups -> Int]
  /\ {OrderCount, Span, Opaque} \subseteq Nat \ {0}
  /\ Alphas \subseteq 0..Opaque /\ MaxCalls \in Nat

VARIABLES
  group,     \* group -> loopState, the PAUSED, PENDING_FINISH and STOPPING flags,
             \* and currentOrder: -1, or past the lists, when it is at none
  anim,      \* group -> order -> the animation's playState, how far it is, the
             \* smoothProgress it last worked out, and whether it runs backwards
  playing,   \* region -> m_playingAnimGroups
  alpha,     \* region -> a frame's own alpha, a region's vertex alpha
  data,      \* region -> AnimData: hasAlpha, alpha
  stack,     \* what is under way, innermost first, and the updates to come
  base,      \* history: region -> its alpha but for the groups that play
  late,      \* history: the groups a region lists that had ended before it did
  calls      \* history: calls made

animVars == <<group, anim, playing, alpha, data, stack, base, late, calls>>

Stopped == [loop |-> "NONE", paused |-> FALSE, pending |-> FALSE, stopping |-> FALSE, order |-> -1]
NoData == [has |-> FALSE, alpha |-> Opaque]

Active(g) == group[g].loop # "NONE"
Listed(g) == g \in playing[RegionOf[g]]
Above(r) == {r, Frame}
Below(r) == IF r = Frame THEN Regions ELSE {r}

(* HasActiveAnim: the lists are what it looks at. *)
Animated(r) == \E g \in Groups : Listed(g) /\ RegionOf[g] \in Above(r)

Orders == 0..(OrderCount - 1)

Lesser(a, b) == IF a < b THEN a ELSE b

Clamp(a) == IF a < 0 THEN 0 ELSE IF a > Opaque THEN Opaque ELSE a

AnimInit ==
  /\ group = [g \in Groups |-> Stopped]
  /\ anim = [g \in Groups |-> [n \in Orders |->
               [play |-> "stopped", at |-> 0, shown |-> 0, back |-> FALSE]]]
  /\ playing = [r \in Regions |-> {}]
  /\ alpha \in [Regions -> Alphas]
  /\ data = [r \in Regions |-> NoData]
  /\ stack = <<>>
  /\ base = alpha
  /\ late = {}
  /\ calls = 0

-----------------------------------------------------------------------------
(* The region side. *)

(* Mutant: every Play stores, one that ends a pause too. *)
NotifyBeginAgain(g) ==
  LET r == RegionOf[g] IN
  /\ playing' = [playing EXCEPT ![r] = @ \cup {g}]
  /\ data' = [x \in Regions |-> IF x \in Below(r) THEN [has |-> TRUE, alpha |-> alpha[x]]
                                ELSE data[x]]

(* NotifyBegin and AnimActivated: the first group on the region stores its alpha
   and that of everything below. *)
NotifyBegin(g) ==
  LET r == RegionOf[g] IN
  /\ playing' = [playing EXCEPT ![r] = @ \cup {g}]
  /\ data' = IF data[r].has THEN data
             ELSE [x \in Regions |-> IF x \in Below(r) THEN [has |-> TRUE, alpha |-> alpha[x]]
                                     ELSE data[x]]

(* NotifyEnd and AnimDeactivated, from the stored alphas `d`: the last group on
   the region and those above gives it, and everything below, its alpha back. *)
NotifyEnd(g, d) ==
  LET r == RegionOf[g]
      rest == [playing EXCEPT ![r] = @ \ {g}]
      last == d[r].has /\ \A x \in Above(r) : rest[x] = {}
  IN /\ playing' = rest
     /\ IF last
        THEN /\ alpha' = [x \in Regions |-> IF x \in Below(r) THEN d[x].alpha ELSE alpha[x]]
             /\ data' = [x \in Regions |-> IF x \in Below(r) THEN NoData ELSE d[x]]
        ELSE UNCHANGED alpha /\ data' = d

(* PreOnAnimUpdate: the stored alphas are back. *)
PreOnAnimUpdate(r) ==
  [x \in Regions |-> IF x \in Below(r) /\ data[x].has THEN data[x].alpha ELSE alpha[x]]

(* Apply, of the current order's animation, which is at the given share of its
   Span, and of those before it, which have all been played. *)
Applied(g, shown, a) == Clamp(a + Change[g] * shown)
AppliedBefore(g, a) == Clamp(a + Change[g] * (group[g].order * Span))

-----------------------------------------------------------------------------
(* What is under way.  An entry of `stack` is [group, left, phase, order]: the
   group, the time its update has left, the point reached, and the order of the
   animation whose script runs. *)

(* The points that no script runs at. *)
Silent == {"begin", "pass", "advance", "next"}

Update(g, dt) == [group |-> g, left |-> dt, phase |-> "pass", order |-> 0]

Now == Head(stack)
At(phases) == stack # <<>> /\ Now.phase \in phases
Goes(phase) == stack' = <<[Now EXCEPT !.phase = phase]>> \o Tail(stack)
Enters(g, phase) == stack' = <<[Update(g, 0) EXCEPT !.phase = phase]>> \o stack
Returns == stack' = Tail(stack)

(* Anim::Play of the animation of an order, the group's being `as`: unless it
   plays already, its OnPlay runs. *)
PlayAnim(g, n, as, scripted, silent) ==
  /\ anim' = [anim EXCEPT ![g] = [as EXCEPT ![n].play = "playing"]]
  /\ Goes(IF as[n].play = "playing" THEN silent ELSE scripted)

(* ResetAnims: what an animation last showed is kept. *)
ResetAnims(g, loop) ==
  [n \in Orders |-> [anim[g][n] EXCEPT !.play = "stopped", !.at = 0, !.back = (loop = "REVERSE")]]

-----------------------------------------------------------------------------
(* Play, after the group's OnPlay. *)

(* Where a group begins that is at no order, whatever its OnPlay did to it. *)
Begun(s) ==
  IF s.order \in Orders THEN s
  ELSE IF s.order < 0 THEN [s EXCEPT !.loop = "FORWARD", !.order = 0]
  ELSE [s EXCEPT !.loop = "REVERSE", !.order = OrderCount - 1]

(* The group begins, unless its pause has ended, and its animation plays. *)
BeginPlay ==
  /\ At({"onplay"})
  /\ LET g == Now.group
         s == Begun(group[g])
     IN /\ group' = [group EXCEPT ![g] = s]
        /\ PlayAnim(g, s.order, IF group[g].order \in Orders THEN anim[g] ELSE ResetAnims(g, s.loop),
                    "animplay", "begin")
  /\ UNCHANGED <<playing, alpha, data, base, late, calls>>

(* The animation's OnPlay has run, and may have stopped the group: it is listed all
   the same, and updated. *)
EndPlay ==
  /\ At({"animplay", "begin"})
  /\ LET g == Now.group IN
     /\ NotifyBegin(g)
     /\ late' = IF Active(g) THEN late \ {g} ELSE late \cup {g}
  /\ Goes("pass")
  /\ UNCHANGED <<group, anim, alpha, base, calls>>

-----------------------------------------------------------------------------
(* An update: one pass of DoGroupUpdateWork after the other. *)

(* OnUpdate of a group that is not playing. *)
Skip ==
  /\ At({"pass"}) /\ ~Active(Now.group)
  /\ Returns
  /\ UNCHANGED <<group, anim, playing, alpha, data, base, late, calls>>

(* UpdateProgress, by the time that is used. *)
Progressed(a, used) ==
  [a EXCEPT !.at = @ + used, !.shown = IF a.back THEN Span - (a.at + used) ELSE a.at + used]

(* The stored alphas come back, the orders before the current one apply, and the
   current one's animation advances if it plays.  Unless it runs its OnUpdate
   first, it applies too.  One that has just ended has its OnFinished, one that had
   before goes on without. *)
Pass ==
  /\ At({"pass"}) /\ Active(Now.group)
  /\ LET g == Now.group
         n == group[g].order
         a == anim[g][n]
         r == RegionOf[g]
         runs == a.play = "playing" /\ a.at < Span
         used == IF runs THEN Lesser(Now.left, Span - a.at) ELSE 0
         b == IF runs THEN Progressed(a, used) ELSE a
         before == AppliedBefore(g, PreOnAnimUpdate(r)[r])
         applies == a.play # "stopped" \/ a.at = Span
     IN /\ anim' = [anim EXCEPT ![g][n] = b]
        /\ \E scripted \in {FALSE, runs} :
             /\ alpha' = [PreOnAnimUpdate(r) EXCEPT ![r] =
                            IF scripted \/ ~applies THEN before ELSE Applied(g, b.shown, before)]
             /\ stack' = <<[group |-> g, left |-> Now.left - used, order |-> n,
                            phase |-> IF scripted THEN "animupdate"
                                      ELSE IF runs /\ b.at = Span THEN "finished"
                                      ELSE IF a.play = "stopped" \/ a.at = Span THEN "advance"
                                      ELSE "next"]>> \o Tail(stack)
  /\ UNCHANGED <<group, playing, data, base, late, calls>>

(* The animation's OnUpdate has run, and it applies to whatever alpha that left.  If
   no group is listed any more, that is the region's own. *)
AfterAnimUpdate ==
  /\ At({"animupdate"})
  /\ LET g == Now.group
         r == RegionOf[g]
         a == anim[g][Now.order]
     IN /\ alpha' = [alpha EXCEPT ![r] = Applied(g, a.shown, @)]
        /\ base' = IF Animated(r) THEN base ELSE [base EXCEPT ![r] = Applied(g, a.shown, alpha[r])]
        /\ Goes(IF a.at = Span THEN "finished" ELSE "next")
  /\ UNCHANGED <<group, anim, playing, data, late, calls>>

GoesOn == At({"finished", "advance"}) /\ Active(Now.group) /\ ~group[Now.group].paused

(* An update goes on while it has time left, unless a script stopped or paused its
   group. *)
NextPass ==
  /\ At({"next", "advanceplay"}) \/ (At({"finished", "advance"}) /\ ~GoesOn)
  /\ Goes(IF Now.left > 0 /\ Active(Now.group) /\ ~group[Now.group].paused THEN "pass" ELSE "update")
  /\ UNCHANGED <<group, anim, playing, alpha, data, base, late, calls>>

Along(s) == IF s.loop = "REVERSE" THEN s.order - 1 ELSE s.order + 1

(* AdvanceLoopState, to another order, whose animation plays. *)
AdvanceOrder ==
  /\ GoesOn
  /\ LET g == Now.group
         n == Along(group[g])
     IN /\ n \in Orders
        /\ group' = [group EXCEPT ![g].order = n]
        /\ PlayAnim(g, n, anim[g], "advanceplay", "next")
  /\ UNCHANGED <<playing, alpha, data, base, late, calls>>

(* Mutant: a bounce goes past the end. *)
AfterEndPast(g, s) ==
  IF LoopType[g] = "BOUNCE"
  THEN [s EXCEPT !.loop = IF @ = "REVERSE" THEN "FORWARD" ELSE "REVERSE", !.order = Along(s)]
  ELSE [s EXCEPT !.order = IF s.loop = "REVERSE" THEN OrderCount - 1 ELSE 0]

(* Where the next loop begins: a bounce turns round, a repeat begins again. *)
AfterEnd(g, s) ==
  IF LoopType[g] = "BOUNCE"
  THEN [s EXCEPT !.loop = IF @ = "REVERSE" THEN "FORWARD" ELSE "REVERSE"]
  ELSE [s EXCEPT !.order = IF s.loop = "REVERSE" THEN OrderCount - 1 ELSE 0]

(* Mutant: a loop does not look whether it is to finish. *)
EndsHereNever(g) == LoopType[g] = "NONE"

EndsHere(g) == LoopType[g] = "NONE" \/ group[g].pending

(* Past the last order: the group is done and at no order, or it loops and OnLoop
   comes next. *)
AdvanceLoop ==
  /\ GoesOn
  /\ LET g == Now.group
         s == group[g]
         t == AfterEnd(g, s)
     IN /\ Along(s) \notin Orders
        /\ IF EndsHere(g)
           THEN Goes("done") /\ group' = [group EXCEPT ![g].order = Along(s)] /\ UNCHANGED anim
           ELSE Goes("loop") /\ group' = [group EXCEPT ![g] = t]
                             /\ anim' = [anim EXCEPT ![g] = ResetAnims(g, t.loop)]
  /\ UNCHANGED <<playing, alpha, data, base, late, calls>>

(* OnLoop has run: a group it stopped or paused is done, another's animation plays. *)
AfterOnLoop ==
  /\ At({"loop"})
  /\ LET g == Now.group IN
     IF ~Active(g) \/ group[g].paused
     THEN Goes("done") /\ UNCHANGED anim
     ELSE PlayAnim(g, group[g].order, anim[g], "advanceplay", "next")
  /\ UNCHANGED <<group, playing, alpha, data, base, late, calls>>

(* Mutant: the alpha is kept after the group's end has put the stored one back. *)
FinishedKeepsLate ==
  /\ At({"done"})
  /\ LET g == Now.group
         r == RegionOf[g]
         keeps == g \in FinalAlpha /\ data[r].has
     IN /\ NotifyEnd(g, data)
        /\ base' = IF keeps THEN [base EXCEPT ![r] = alpha[r]] ELSE base
        /\ group' = [group EXCEPT ![g] = Stopped]
        /\ late' = late \ {g}
  /\ Goes("update")
  /\ UNCHANGED <<anim, calls>>

(* OnUpdate has run and the group is done, whatever OnUpdate did to it:
   KeepAnimAlpha, NotifyEnd, and OnFinished next. *)
Finished ==
  /\ At({"done"})
  /\ LET g == Now.group
         r == RegionOf[g]
         keeps == g \in FinalAlpha /\ data[r].has
     IN /\ NotifyEnd(g, IF keeps THEN [data EXCEPT ![r].alpha = alpha[r]] ELSE data)
        /\ base' = IF keeps THEN [base EXCEPT ![r] = alpha[r]] ELSE base
        /\ group' = [group EXCEPT ![g] = Stopped]
        /\ late' = late \ {g}
  /\ Goes("update")
  /\ UNCHANGED <<anim, calls>>

(* OnUpdate, or OnFinished, has run, and the update is over. *)
Updated ==
  /\ At({"update"})
  /\ Returns
  /\ UNCHANGED <<group, anim, playing, alpha, data, base, late, calls>>

(* The animation's OnStop has run, and the group ends, whatever it did to it. *)
EndStop ==
  /\ At({"stopping"})
  /\ LET g == Now.group IN
     /\ NotifyEnd(g, data)
     /\ group' = [group EXCEPT ![g] = Stopped]
     /\ late' = late \ {g}
  /\ Returns
  /\ UNCHANGED <<anim, base, calls>>

(* UpdateGroups of the frame, then of its regions. *)
FrameUpdate(dt) ==
  /\ stack = <<>>
  /\ LET On(rs) == SetToSeq({g \in Groups : RegionOf[g] \in rs})
         all == On({Frame}) \o On(Regions \ {Frame})
     IN stack' = [n \in DOMAIN all |-> Update(all[n], dt)]
  /\ UNCHANGED <<group, anim, playing, alpha, data, base, late, calls>>

Step ==
  \/ BeginPlay \/ EndPlay \/ Skip \/ Pass \/ AfterAnimUpdate \/ NextPass
  \/ AdvanceOrder \/ AdvanceLoop \/ AfterOnLoop \/ Finished \/ Updated \/ EndStop

-----------------------------------------------------------------------------
(* Calls of addons: between updates, and from scripts. *)

Call ==
  /\ ~At(Silent)
  /\ calls < MaxCalls /\ calls' = calls + 1

(* Play of a group that does not play, or is paused: its OnPlay runs next. *)
Play(g, reverse) ==
  /\ Call
  /\ ~Active(g) \/ group[g].paused
  /\ group' = [group EXCEPT ![g] =
       IF @.paused THEN [@ EXCEPT !.paused = FALSE]
       ELSE [Stopped EXCEPT !.order = IF reverse THEN OrderCount ELSE -1]]
  /\ Enters(g, "onplay")
  /\ UNCHANGED <<anim, playing, alpha, data, base, late>>

(* Pause and Stop index the order lists unchecked: on a group that is done and has
   not ended yet, in its last OnUpdate, that is past the lists, and is left out. *)
HasOrder(g) == group[g].order \in Orders

(* The OnPause scripts run last, so that what they call comes after. *)
Pause(g) ==
  /\ Call
  /\ Active(g) /\ ~group[g].paused /\ HasOrder(g)
  /\ group' = [group EXCEPT ![g].paused = TRUE]
  /\ anim' = [anim EXCEPT ![g][group[g].order].play = IF @ = "playing" THEN "paused" ELSE @]
  /\ UNCHANGED <<playing, alpha, data, stack, base, late>>

(* The animation stops, and its OnStop comes before the group's end. *)
Stop(g) ==
  /\ Call
  /\ Active(g) /\ ~group[g].stopping /\ HasOrder(g)
  /\ group' = [group EXCEPT ![g].stopping = TRUE]
  /\ anim' = [anim EXCEPT ![g][group[g].order] = [@ EXCEPT !.play = "stopped", !.at = 0, !.back = FALSE]]
  /\ Enters(g, "stopping")
  /\ UNCHANGED <<playing, alpha, data, base, late>>

Finish(g) ==
  /\ Call
  /\ Active(g)
  /\ group' = [group EXCEPT ![g].pending = TRUE]
  /\ UNCHANGED <<anim, playing, alpha, data, stack, base, late>>

(* The engine's SetAlpha or SetVertexColor.  On an animated region it lasts until
   the next update. *)
SetAlpha(r, a) ==
  /\ Call
  /\ alpha' = [alpha EXCEPT ![r] = a]
  /\ base' = IF Animated(r) THEN base ELSE [base EXCEPT ![r] = a]
  /\ UNCHANGED <<group, anim, playing, data, stack, late>>

AddonCalls ==
  \/ \E g \in Groups : Pause(g) \/ Stop(g) \/ Finish(g) \/ \E reverse \in BOOLEAN : Play(g, reverse)
  \/ \E r \in Regions, a \in Alphas : SetAlpha(r, a)

AnimNext == Step \/ AddonCalls \/ \E dt \in 1..Span : FrameUpdate(dt)

AnimSpec == AnimInit /\ [][AnimNext]_animVars

(* Scripts return, and the frame is shown. *)
AnimFairSpec == AnimSpec /\ WF_animVars(Step \/ FrameUpdate(1))

-----------------------------------------------------------------------------
(* Properties. *)

(* The innermost of what is under way for a group is at one of these points. *)
LastIn(g, phases) ==
  \E n \in DOMAIN stack : /\ stack[n].group = g /\ stack[n].phase \in phases
                          /\ \A m \in 1..(n - 1) : stack[m].group # g

(* Every variable has its type. *)
AnimTypeOK ==
  /\ group \in [Groups -> [loop : {"NONE", "FORWARD", "REVERSE"}, paused : BOOLEAN,
                           pending : BOOLEAN, stopping : BOOLEAN, order : -1..OrderCount]]
  /\ anim \in [Groups -> [Orders -> [play : {"stopped", "playing", "paused"}, at : 0..Span,
                                     shown : 0..Span, back : BOOLEAN]]]
  /\ playing \in [Regions -> SUBSET Groups]
  /\ alpha \in [Regions -> 0..Opaque]
  /\ data \in [Regions -> [has : BOOLEAN, alpha : 0..Opaque]]
  /\ stack \in Seq([group : Groups, left : 0..Span, order : Orders,
                    phase : Silent \cup {"onplay", "animplay", "animupdate", "finished", "advanceplay",
                                         "loop", "done", "update", "stopping"}])
  /\ base \in [Regions -> 0..Opaque]
  /\ late \subseteq Groups
  /\ calls \in 0..MaxCalls

(* Updates and calls index the order lists unchecked.  A group that plays is at
   one of its orders, whatever scripts stop, pause, finish or restart inside its
   updates and those of others, but for the last OnUpdate of a group that is done. *)
OrderIsValid ==
  \A g \in Groups : Active(g) => HasOrder(g) \/ LastIn(g, {"done"})

(* The region lists a group that plays, unless Play or Stop is still at it, and a
   group that it lists plays, unless the OnPlay of its animations ended it. *)
PlayingIsListed ==
  \A g \in Groups :
    /\ Active(g) => Listed(g) \/ LastIn(g, {"onplay", "animplay", "begin", "stopping"})
    /\ Listed(g) => Active(g) \/ g \in late

(* Both. *)
PlayIsInOrder == OrderIsValid /\ PlayingIsListed

(* docs/API.md: "When the last group with an Alpha animation on the region, or on
   a frame around it, stops or finishes, the stored alpha comes back", or the
   final one, if the group keeps it.  A group that its animations' OnPlay ended
   holds the alpha until it is played and ends again; what an animation adds after
   its own OnUpdate has stopped its group, the last, is counted with the base. *)
AlphaComesBack ==
  \A r \in Regions :
    \/ \E g \in Groups : RegionOf[g] \in Above(r) /\ (Active(g) \/ g \in late)
    \/ alpha[r] = base[r]

(* "On each update the alpha goes back to the stored value, and then each Alpha
   animation adds": however often a group is updated, paused and played again, and
   alphas are set meanwhile, every pass starts from the base, and an animation
   without an OnUpdate of its own has nothing come between.  One with such a script
   adds after it to whatever it left, and the next pass starts from the base again;
   unless the script stopped the last group, when what it adds is there for good
   and is the base of the groups to come. *)
NothingBuildsUp ==
  [][Pass => LET g == Now.group
                 r == RegionOf[g]
                 b == anim'[g][group[g].order]
                 before == AppliedBefore(g, base[r])
             IN alpha'[r] = IF stack'[1].phase = "animupdate" \/ (b.play = "stopped" /\ b.at # Span)
                            THEN before ELSE Applied(g, b.shown, before)]_animVars

(* A looping group asked to finish does so at the end of a loop. *)
FinishEnds ==
  \A g \in Groups : group[g].pending ~> (~group[g].pending \/ group[g].paused)
=============================================================================
