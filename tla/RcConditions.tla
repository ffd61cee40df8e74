---------------------------- MODULE RcConditions ----------------------------
(***************************************************************************
 The condition sets of rcheevos (pkg/worker/rcheevos/upstream/src/rcheevos,
 condset.c): how a definition is split into the groups that are processed one
 after the other, and what one pass over a group does to the hit counts and
 to the verdict.

 A condition is a record [type, target]: its flag and its required_hits.  What
 its comparison yields in a frame is the input raw[i]: operands and operators
 are the business of RcMemory.  The conditions of a definition keep the index
 they are written at; each of the code's arrays keeps that order, and is the set of
 its indices here.
 ***************************************************************************)
EXTENDS Integers, Sequences

CONSTANT MeasuredMax     \* what the left operand of a Measured that counts no hits reads when the comparison holds

ASSUME MeasuredMaxAssumption == MeasuredMax \in Nat

NoMeasure == -1            \* RC_VALUE_TYPE_NONE

Combining == {"AddHits", "SubHits", "AndNext", "OrNext", "ResetNextIf", "Remember"}
Indirect == {"AddSource", "SubSource", "AddAddress"}
Ending == {"Standard", "Trigger", "Measured", "MeasuredIf", "PauseIf", "ResetIf"}

Condition == [type: Ending \cup Combining \cup Indirect, target: Nat]

(* rc_classify_condition for a condition that does not combine. *)
ClassOf(c) ==
    CASE c.type = "PauseIf" -> "pause"
      [] c.type = "ResetIf" -> "reset"
      [] c.type \in Indirect -> "indirect"
      [] c.type \in {"Measured", "MeasuredIf"} -> "measured"
      [] OTHER -> IF c.target # 0 THEN "hittarget" ELSE "other"

(* The conditions from i on at which a chain ends, and the one at which the chain that
   passes through i does. *)
Ends(conds, i) == {j \in i..Len(conds) : conds[j].type \notin Combining \cup Indirect}

ChainEnd(conds, i) ==
    IF Ends(conds, i) = {} THEN Len(conds) + 1
    ELSE CHOOSE j \in Ends(conds, i) : \A k \in Ends(conds, i) : j <= k

\* Mutant of Class: a combining condition is its own class.
ClassAlone(conds, i) == IF conds[i].type \in Combining THEN "other" ELSE ClassOf(conds[i])

(* The class of the i-th condition: a combining one goes with the condition it
   is combined into, and with "other" when there is none. *)
Class(conds, i) ==
    IF conds[i].type \notin Combining THEN ClassOf(conds[i])
    ELSE IF Ends(conds, i) = {} THEN "other"
    ELSE ClassOf(conds[ChainEnd(conds, i)])

(* The array of one class. *)
Array(conds, class) == {i \in DOMAIN conds : Class(conds, i) = class}

(***************************************************************************
 One pass.  es is rc_eval_state_t with the hit counts of the group in es.hits.
 ***************************************************************************)
(* cond_valid after the flags of the chain. *)
Holds(es, i, raw) == (raw[i] /\ es.andNext) \/ es.orNext

(* The hit count that evaluating the condition leaves. *)
Counted(es, c, i, raw) ==
    IF es.resetNext THEN 0
    ELSE IF Holds(es, i, raw) /\ (c.target = 0 \/ es.hits[i] < c.target) THEN es.hits[i] + 1
    ELSE es.hits[i]

(* Its truth, the AddHits counter left aside. *)
Met(es, c, i, raw) ==
    /\ ~es.resetNext
    /\ IF Holds(es, i, raw) THEN c.target = 0 \/ Counted(es, c, i, raw) >= c.target
                            ELSE es.hits[i] > 0 /\ es.hits[i] = c.target

(* rc_condset_evaluate_condition_no_add_hits. *)
NoAddHits(es, c, i, raw) ==
    [es EXCEPT !.hits[i] = Counted(es, c, i, raw),
               !.hasHits = @ \/ Counted(es, c, i, raw) > 0,
               !.condReset = @ \/ (es.resetNext /\ es.hits[i] # 0),
               !.andNext = TRUE,
               !.orNext = FALSE]

(* rc_condset_evaluate_total_hits for a condition with a target. *)
Total(es, hits) == IF hits + es.addHits >= 0 THEN hits + es.addHits ELSE 0

(* rc_condset_evaluate_condition: the counter of an AddHits chain is used, and
   cleared, only by a condition that has a target. *)
UsesAddHits(es, c) == es.addHits # 0 /\ c.target # 0

Valid(es, c, i, raw) ==
    IF UsesAddHits(es, c) THEN Total(es, Counted(es, c, i, raw)) >= c.target
                          ELSE Met(es, c, i, raw)

EvaluatedCondition(es, c, i, raw) ==
    [NoAddHits(es, c, i, raw) EXCEPT
        !.addHits = IF UsesAddHits(es, c) THEN 0 ELSE @,
        !.resetNext = FALSE]

(* rc_condset_evaluate_standard, _trigger and _measured_if. *)
Standard(es, c, i, raw) ==
    [EvaluatedCondition(es, c, i, raw) EXCEPT
        !.isTrue = @ /\ Valid(es, c, i, raw),
        !.isPrimed = @ /\ (c.type = "Trigger" \/ Valid(es, c, i, raw)),
        !.canMeasure = @ /\ (c.type = "MeasuredIf" => Valid(es, c, i, raw))]

PauseIf(es, c, i, raw) ==
    LET e == EvaluatedCondition(es, c, i, raw)
    IN  IF Valid(es, c, i, raw)
        THEN [e EXCEPT !.isPaused = TRUE, !.isTrue = FALSE, !.isPrimed = FALSE, !.stop = TRUE]
        ELSE IF c.target = 0 THEN [e EXCEPT !.hits[i] = 0] ELSE e

ResetIf(es, c, i, raw) ==
    LET e == EvaluatedCondition(es, c, i, raw)
    IN  IF Valid(es, c, i, raw)
        THEN [e EXCEPT !.wasReset = TRUE, !.isTrue = FALSE, !.isPrimed = FALSE, !.stop = TRUE]
        ELSE e

(* rc_condset_evaluate_measured: with a target it measures its hits, without one
   its left operand. *)
Measured(es, c, i, raw) ==
    IF c.target = 0
    THEN [Standard(es, c, i, raw) EXCEPT !.measured = IF raw[i] THEN MeasuredMax ELSE 0,
                                         !.fromHits = FALSE]
    ELSE LET total == Total(es, Counted(es, c, i, raw))
         IN  [NoAddHits(es, c, i, raw) EXCEPT
                !.addHits = 0, !.resetNext = FALSE,
                !.isTrue = @ /\ total >= c.target,
                !.isPrimed = @ /\ total >= c.target,
                !.measured = total, !.fromHits = TRUE]

(* rc_condset_evaluate_add_hits and _sub_hits. *)
AddSubHits(es, c, i, raw) ==
    LET n == Counted(es, c, i, raw)
    IN  [NoAddHits(es, c, i, raw) EXCEPT
            !.addHits = @ + (IF c.type = "AddHits" THEN n ELSE -n),
            !.resetNext = FALSE]

(* rc_condset_evaluate_reset_next_if, _and_next and _or_next. *)
Chained(es, c, i, raw) ==
    LET e == NoAddHits(es, c, i, raw)
        met == Met(es, c, i, raw)
    IN  CASE c.type = "ResetNextIf" -> [e EXCEPT !.resetNext = met]
          [] c.type = "AndNext" -> [e EXCEPT !.andNext = met]
          [] c.type = "OrNext" -> [e EXCEPT !.orNext = met]

(* The switch of rc_test_condset_internal. *)
Evaluate(es, c, i, raw) ==
    CASE c.type \in {"Standard", "Trigger", "MeasuredIf"} -> Standard(es, c, i, raw)
      [] c.type = "PauseIf" -> PauseIf(es, c, i, raw)
      [] c.type = "ResetIf" -> ResetIf(es, c, i, raw)
      [] c.type = "Measured" -> Measured(es, c, i, raw)
      [] c.type \in {"AddHits", "SubHits"} -> AddSubHits(es, c, i, raw)
      [] c.type \in {"ResetNextIf", "AndNext", "OrNext"} -> Chained(es, c, i, raw)
      [] OTHER -> es

(* rc_test_condset_internal over an array: the state after each condition. *)
Passes(es, conds, array, raw, shortCircuit) ==
    LET run[k \in 0..Len(conds)] ==
          IF k = 0 THEN es
          ELSE IF k \notin array \/ (shortCircuit /\ run[k - 1].stop) THEN run[k - 1]
          ELSE Evaluate(run[k - 1], conds[k], k, raw)
    IN  run

TestArray(es, conds, array, raw, shortCircuit) ==
    Passes(es, conds, array, raw, shortCircuit)[Len(conds)]

(* What rc_test_condset resets before each group; the flags that it leaves
   alone (has_hits, was_reset, was_cond_reset) are those of the groups before. *)
Fresh(prev, hits) ==
    [prev EXCEPT !.hits = hits, !.measured = NoMeasure, !.addHits = 0, !.isTrue = TRUE,
                 !.isPrimed = TRUE, !.isPaused = FALSE, !.canMeasure = TRUE, !.fromHits = FALSE,
                 !.andNext = TRUE, !.orNext = FALSE, !.resetNext = FALSE, !.stop = FALSE]

Cleared(hits, array) == [i \in DOMAIN hits |-> IF i \in array THEN 0 ELSE hits[i]]

(* The measured conditions, with the zeroing before and after them. *)
ProcessMeasured(es, conds, raw) ==
    LET array == Array(conds, "measured")
        e0 == IF es.wasReset THEN [es EXCEPT !.hits = Cleared(@, array)] ELSE es
        e == TestArray(e0, conds, array, raw, FALSE)
    IN  IF e.measured # NoMeasure /\ (~e.canMeasure \/ (e.fromHits /\ e.wasReset))
        THEN [e EXCEPT !.measured = 0] ELSE e

(* rc_test_condset.  can_short_curcuit is never set: but for the pause
   conditions every array is processed to its end. *)
TestCondset(prev, conds, hits, raw) ==
    LET paused == TestArray(Fresh(prev, hits), conds, Array(conds, "pause"), raw, TRUE)
        reset == TestArray(paused, conds, Array(conds, "reset"), raw, FALSE)
        counted == IF reset.wasReset THEN reset
                   ELSE TestArray(reset, conds, Array(conds, "hittarget"), raw, FALSE)
        measured == ProcessMeasured(counted, conds, raw)
    IN  IF paused.isPaused THEN paused
        ELSE IF measured.isTrue \/ ~measured.wasReset
        THEN TestArray(measured, conds, Array(conds, "other"), raw, FALSE)
        ELSE measured
=============================================================================
