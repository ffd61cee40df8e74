------------------------------ MODULE RcTrigger ------------------------------
(***************************************************************************
 One achievement of rcheevos (trigger.c) over the condition sets of
 RcConditions: the core group, the alternative groups, and the state that
 rc_evaluate_trigger moves once per frame of the emulator.

 definition is a sequence of groups: the first is the core (an empty one stands
 for a definition that has none), the others are the alternatives.  It is
 chosen at the start from Definitions and never changes.
 ***************************************************************************)
EXTENDS RcConditions

CONSTANTS Definitions,   \* the definitions that are checked
          MaxTally       \* bound on the count of a condition without a target

ASSUME TriggerAssumption ==
    /\ \A def \in Definitions : def \in Seq(Seq(Condition)) /\ def # <<>>
    /\ MaxTally \in Nat

UnknownMeasure == -2     \* RC_MEASURED_UNKNOWN

VARIABLES definition,    \* the groups, as parsed
          hits,          \* current_hits of every condition of every group
          paused,        \* rc_condset_t.is_paused of every group
          triggerState,         \* rc_trigger_t.state
          hasHits,       \* rc_trigger_t.has_hits
          measured,      \* rc_trigger_t.measured_value
          outcome,       \* what the last call returned
          sawFalse       \* history: a frame since the last reset of the trigger did not hold

triggerVars == <<definition, hits, paused, triggerState, hasHits, measured, outcome, sawFalse>>

Groups == DOMAIN definition

(* What the comparisons of a frame may yield. *)
Comparisons ==
    {raw \in [Groups -> UNION {[DOMAIN definition[g] -> BOOLEAN] : g \in Groups}] :
        \A g \in Groups : DOMAIN raw[g] = DOMAIN definition[g]}

NoHits(def) == [g \in DOMAIN def |-> [i \in DOMAIN def[g] |-> 0]]

IsMeasured(def) == \E g \in DOMAIN def : \E i \in DOMAIN def[g] : def[g][i].type = "Measured"

Unmeasured(def) == IF IsMeasured(def) THEN UnknownMeasure ELSE 0

(* rc_parse_trigger_internal: what activation finds. *)
TriggerInit ==
    /\ definition \in Definitions
    /\ hits = NoHits(definition)
    /\ paused = [g \in Groups |-> FALSE]
    /\ triggerState = "Waiting"
    /\ hasHits = FALSE
    /\ measured = Unmeasured(definition)
    /\ outcome = "None"
    /\ sawFalse = FALSE

(* eval_state as memset leaves it. *)
Zeroed == [hits |-> <<>>, measured |-> NoMeasure, addHits |-> 0, isTrue |-> FALSE, isPrimed |-> FALSE,
           isPaused |-> FALSE, canMeasure |-> FALSE, fromHits |-> FALSE, andNext |-> FALSE,
           orNext |-> FALSE, resetNext |-> FALSE, stop |-> FALSE, hasHits |-> FALSE,
           wasReset |-> FALSE, condReset |-> FALSE]

(* The eval_state after each group, in order. *)
Pass(raw) ==
    LET after[g \in 0..Len(definition)] ==
          IF g = 0 THEN Zeroed ELSE TestCondset(after[g - 1], definition[g], hits[g], raw[g])
    IN  after

Alts == 2..Len(definition)

(* ret, is_paused and is_primed of rc_evaluate_trigger. *)
Ready(after) == after[1].isTrue /\ (Alts = {} \/ \E g \in Alts : after[g].isTrue)
FullyPaused(after) == after[1].isPaused \/ (Alts # {} /\ \A g \in Alts : after[g].isPaused)
Primed(after) == after[1].isPrimed /\ (Alts = {} \/ \E g \in Alts : after[g].isPrimed)

(* The group whose measured value is kept: the first that has one, then any that
   is greater. *)
MeasuredFrom(after) ==
    LET best[g \in 0..Len(definition)] ==
          IF g = 0 THEN 0
          ELSE IF after[g].measured = NoMeasure THEN best[g - 1]
          ELSE IF best[g - 1] = 0 \/ after[g].measured > after[best[g - 1]].measured THEN g
          ELSE best[g - 1]
    IN  best[Len(definition)]

(* rc_condset_is_measured_from_hitcount. *)
FromHitcount(g, newHits, value) ==
    \E i \in DOMAIN definition[g] :
        definition[g][i].type = "Measured" /\ definition[g][i].target # 0 /\ newHits[g][i] = value

(* measured_value before a reset is looked at, and after. *)
Updated(after) ==
    IF FullyPaused(after) \/ MeasuredFrom(after) = 0 THEN measured
    ELSE after[MeasuredFrom(after)].measured

\* Mutant of UpdatedByReset: a reset keeps what is shown.
UpdatedAnyway(after, newHits, newPaused) == Updated(after)

UpdatedByReset(after, newHits, newPaused) ==
    LET g == MeasuredFrom(after)
        v == Updated(after)
    IN  IF g # 0 /\ after[g].fromHits THEN 0
        ELSE IF /\ FullyPaused(after) /\ v # 0
                /\ \E h \in Groups : newPaused[h] /\ FromHitcount(h, newHits, v)
        THEN 0 ELSE v

(* rc_reset_trigger. *)
ResetTrigger ==
    /\ hits' = NoHits(definition)
    /\ triggerState' = "Waiting"
    /\ measured' = IF IsMeasured(definition) THEN UnknownMeasure ELSE measured
    /\ hasHits' = FALSE
    /\ sawFalse' = FALSE

NextState(after) ==
    IF FullyPaused(after) THEN "Paused"
    ELSE IF Primed(after) /\ ~after[Len(definition)].wasReset THEN "Primed"
    ELSE "Active"

(* rc_evaluate_trigger, the branch of a ResetIf that holds. *)
EvaluateReset(after, newHits, newPaused) ==
    /\ after[Len(definition)].wasReset
    /\ measured' = UpdatedByReset(after, newHits, newPaused)
    /\ hits' = NoHits(definition)
    /\ hasHits' = FALSE
    /\ sawFalse' = TRUE
    /\ IF hasHits THEN /\ triggerState' = IF triggerState = "Primed" THEN "Active" ELSE triggerState
                       /\ outcome' = "Reset"
                  ELSE /\ triggerState' = NextState(after)
                       /\ outcome' = IF after[Len(definition)].condReset THEN "Reset" ELSE triggerState'

\* Mutant of EvaluateReady: a trigger that waits fires.
EvaluateAtOnce(after, newHits) ==
    /\ ~after[Len(definition)].wasReset
    /\ Ready(after)
    /\ triggerState' = "Triggered" /\ outcome' = "Triggered"
    /\ hits' = newHits
    /\ measured' = Updated(after)
    /\ UNCHANGED <<hasHits, sawFalse>>

(* The branch of a trigger that is ready to fire. *)
EvaluateReady(after, newHits) ==
    /\ ~after[Len(definition)].wasReset
    /\ Ready(after)
    /\ IF triggerState = "Waiting"
       THEN ResetTrigger /\ outcome' = "Waiting"
       ELSE /\ triggerState' = "Triggered"
            /\ outcome' = "Triggered"
            /\ hits' = newHits
            /\ measured' = Updated(after)
            /\ UNCHANGED <<hasHits, sawFalse>>

(* The branch of a trigger that did not fire in this frame. *)
EvaluateIdle(after, newHits) ==
    /\ ~after[Len(definition)].wasReset
    /\ ~Ready(after)
    /\ hits' = newHits
    /\ hasHits' = after[Len(definition)].hasHits
    /\ measured' = Updated(after)
    /\ triggerState' = NextState(after)
    /\ outcome' = IF after[Len(definition)].condReset THEN "Reset" ELSE triggerState'
    /\ sawFalse' = TRUE

(* One frame: rc_evaluate_trigger on an achievement that is active. *)
Frame(raw) ==
    /\ triggerState # "Triggered"
    /\ \A g \in Groups : \A i \in DOMAIN definition[g] :
          definition[g][i].target = 0 => hits[g][i] < MaxTally
    /\ \E after \in {Pass(raw)} :
          LET newHits == [g \in Groups |-> after[g].hits]
              newPaused == [g \in Groups |-> IF Array(definition[g], "pause") = {} THEN paused[g]
                                              ELSE after[g].isPaused]
          IN  /\ paused' = newPaused
              /\ \/ EvaluateReset(after, newHits, newPaused)
                 \/ EvaluateReady(after, newHits)
                 \/ EvaluateIdle(after, newHits)
    /\ UNCHANGED definition

(* rc_reset_trigger as the client calls it when it activates the achievement
   anew: a game that is reset, a mode that is changed. *)
Reactivate ==
    /\ ResetTrigger
    /\ outcome' = "None"
    /\ UNCHANGED <<definition, paused>>

TriggerNext == Reactivate \/ \E raw \in Comparisons : Frame(raw)

TriggerSpec == TriggerInit /\ [][TriggerNext]_triggerVars

(***************************************************************************
 What a definition means, whatever the order in which it is processed: every
 condition belongs to one chain, the combining conditions before an end and the
 end, and a chain is evaluated on its own.
 ***************************************************************************)
Chain(conds, j) ==
    {i \in DOMAIN conds : conds[i].type \notin Indirect /\ ChainEnd(conds, i) = j}

OneChain(conds, j, raw, h) == TestArray(Fresh(Zeroed, h), conds, Chain(conds, j), raw, FALSE)

PauseEnds(conds) == {j \in DOMAIN conds : conds[j].type = "PauseIf"}
Pausing(conds, raw, h) == {j \in PauseEnds(conds) : OneChain(conds, j, raw, h).isPaused}
IsPaused(conds, raw, h) == Pausing(conds, raw, h) # {}

IsReset(conds, raw, h) ==
    /\ ~IsPaused(conds, raw, h)
    /\ \E j \in DOMAIN conds : conds[j].type = "ResetIf" /\ OneChain(conds, j, raw, h).wasReset

IsTrue(conds, raw, h) ==
    \A j \in DOMAIN conds \ PauseEnds(conds) :
        ChainEnd(conds, j) = j => OneChain(conds, j, raw, h).isTrue

HitsOf(conds, raw, h) ==
    [i \in DOMAIN conds |->
        IF IsPaused(conds, raw, h) /\ \E j \in Pausing(conds, raw, h) :
              j < ChainEnd(conds, i) \/ ~ChainEnd(conds, i) \in PauseEnds(conds)
        THEN h[i]
        ELSE OneChain(conds, ChainEnd(conds, i), raw, h).hits[i]]

FiresOn(raw) ==
    LET true(g) == ~IsPaused(definition[g], raw[g], hits[g]) /\ IsTrue(definition[g], raw[g], hits[g])
    IN  true(1) /\ (Alts = {} \/ \E g \in Alts : true(g))

ResetsOn(raw) == \E g \in Groups : IsReset(definition[g], raw[g], hits[g])

(***************************************************************************
 Properties.
 ***************************************************************************)
(* Every chain of AddHits and SubHits ends in a condition that has a target. *)
TalliesUsed(def) ==
    \A g \in DOMAIN def : \A i \in DOMAIN def[g] :
        def[g][i].type \in {"AddHits", "SubHits"} =>
            \/ ChainEnd(def[g], i) = Len(def[g]) + 1
            \/ def[g][ChainEnd(def[g], i)].target # 0

(* In the next frame, whatever the comparisons yield, the achievement resets and
   fires as its conditions say chain by chain, and counts the hits they say: the
   order in which the classes of conditions are processed, the counters carried
   along a chain and the pauses that cut a pass short change nothing, unless a
   chain of AddHits or SubHits ends without a target (TalliesUsed). *)
MeaningAt(raw) ==
    \E after \in {Pass(raw)} :
        LET reset == after[Len(definition)].wasReset
        IN  /\ reset = ResetsOn(raw)
            /\ ~reset => /\ Ready(after) = FiresOn(raw)
                         /\ \A g \in Groups : after[g].hits = HitsOf(definition[g], raw[g], hits[g])

MeaningKept == TalliesUsed(definition) => \A raw \in Comparisons : MeaningAt(raw)

(* A condition that no AddHits is combined into has reached its target when the
   achievement fires, as the comment in rc_condset_evaluate_total_hits has it of a
   chain that ends without a target: "we can't tell if the add_hits value is from
   this frame or not, so ignore it".  The value is ignored there and not cleared:
   it is added to the next condition that has a target, and this does not hold. *)
TargetsReached ==
    triggerState = "Triggered" =>
        \A i \in DOMAIN definition[1] :
            \/ definition[1][i].type # "Standard"
            \/ \E k \in Chain(definition[1], i) : definition[1][k].type = "AddHits"
            \/ hits[1][i] >= definition[1][i].target

(* An achievement fires only after a frame, since it was last activated or reset
   as a whole, in which it did not hold: loading a game in the middle of a state
   that would earn it, or switching modes there, earns nothing. *)
NoFireAtOnce == triggerState = "Triggered" => sawFalse

(* Progress that is counted in hits is shown only while there are hits: a reset
   takes back what is shown.  A paused group keeps what it showed. *)
MeasuresOperand ==
    \E g \in Groups : \E i \in DOMAIN definition[g] :
        definition[g][i].type = "Measured" /\ definition[g][i].target = 0

MeasuredBacked ==
    measured > 0 /\ ~MeasuresOperand /\ (\A g \in Groups : ~paused[g]) =>
        \E g \in Groups : \E i \in DOMAIN hits[g] : hits[g][i] # 0

(* What the proof of NoFireAtOnce needs: only a trigger that is still waiting has
   not been seen not to hold. *)
WaitingUntilFalse == triggerState # "Waiting" => sawFalse
=============================================================================
