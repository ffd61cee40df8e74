---------------------------- MODULE RcFrame_proofs ----------------------------
(***************************************************************************
 What is proved of a frame of the rcheevos runtime.

 Of an achievement (RcTrigger), for every definition: it fires only after a frame in
 which it did not hold; it fires, resets and counts hits as its conditions say chain by
 chain; and progress in hits is shown only while there are hits.

 Of the leaderboards (RcLeaderboard), for any number of them and any values:
 a tracker counts the leaderboards that point to it; between frames the screen
 shows exactly the trackers that are in use, and each tells the values of those who
 share it, up to the hits of one frame.
 ***************************************************************************)
EXTENDS RcTrigger, RcLeaderboard, RcMemory_proofs

(***************************************************************************
 Achievements.
 ***************************************************************************)
(* An achievement leaves its waiting state only by a frame that did not hold:
   the one guard of rc_evaluate_trigger that keeps it from firing as soon as it
   is activated is kept by the resets, the pauses and the reactivations. *)
LEMMA WaitingUntilFalseKept == TriggerSpec => []WaitingUntilFalse
<1>1. TriggerInit => WaitingUntilFalse
  BY DEF TriggerInit, WaitingUntilFalse
<1>2. WaitingUntilFalse /\ [TriggerNext]_triggerVars => WaitingUntilFalse'
  <2> SUFFICES ASSUME WaitingUntilFalse, [TriggerNext]_triggerVars
               PROVE  WaitingUntilFalse'
    OBVIOUS
  <2> USE DEF WaitingUntilFalse
  <2>1. CASE Reactivate
    BY <2>1 DEF Reactivate, ResetTrigger
  <2>2. ASSUME NEW raw \in Comparisons, Frame(raw)
        PROVE  WaitingUntilFalse'
    <3> DEFINE after == Pass(raw)
               newHits == [g \in Groups |-> after[g].hits]
               newPaused == [g \in Groups |-> IF Array(definition[g], "pause") = {} THEN paused[g]
                                               ELSE after[g].isPaused]
    <3>1. \/ EvaluateReset(after, newHits, newPaused)
          \/ EvaluateReady(after, newHits)
          \/ EvaluateIdle(after, newHits)
      BY <2>2 DEF Frame
    <3> HIDE DEF after, newHits, newPaused
    <3>2. CASE EvaluateReset(after, newHits, newPaused)
      BY <3>2 DEF EvaluateReset
    <3>3. CASE EvaluateReady(after, newHits)
      <4>1. CASE triggerState = "Waiting"
        BY <3>3, <4>1 DEF EvaluateReady, ResetTrigger
      <4>2. CASE triggerState # "Waiting"
        BY <3>3, <4>2 DEF EvaluateReady
      <4> QED
        BY <4>1, <4>2
    <3>4. CASE EvaluateIdle(after, newHits)
      BY <3>4 DEF EvaluateIdle
    <3> QED
      BY <3>1, <3>2, <3>3, <3>4
  <2>3. CASE UNCHANGED triggerVars
    BY <2>3 DEF triggerVars
  <2> QED
    BY <2>1, <2>2, <2>3 DEF TriggerNext
<1> QED
  BY <1>1, <1>2, PTL DEF TriggerSpec

(* An achievement fires only after a frame in which it did not hold since it was
   activated. *)
THEOREM NeverFiresAtOnce == TriggerSpec => []NoFireAtOnce
<1>1. WaitingUntilFalse => NoFireAtOnce
  BY DEF WaitingUntilFalse, NoFireAtOnce
<1> QED
  BY <1>1, WaitingUntilFalseKept, PTL

-----------------------------------------------------------------------------
(* rc_eval_state_t over the conditions D of a group. *)
EvalState(D) ==
    [hits: [D -> Nat], measured: Int, addHits: Int, isTrue: BOOLEAN, isPrimed: BOOLEAN,
     isPaused: BOOLEAN, canMeasure: BOOLEAN, fromHits: BOOLEAN, andNext: BOOLEAN,
     orNext: BOOLEAN, resetNext: BOOLEAN, stop: BOOLEAN, hasHits: BOOLEAN,
     wasReset: BOOLEAN, condReset: BOOLEAN]

(* What one condition leaves to the next in a chain, and the state at the start of one. *)
SameCarry(es, fs) ==
    /\ es.addHits = fs.addHits /\ es.andNext = fs.andNext
    /\ es.orNext = fs.orNext /\ es.resetNext = fs.resetNext

Clean(es) == es.addHits = 0 /\ es.andNext /\ ~es.orNext /\ ~es.resetNext

(* A condition has nothing against the achievement: it is met, or, where it pauses or
   resets, it is not. *)
Good(es, c, i, raw) ==
    CASE c.type \notin Ending -> TRUE
      [] c.type \in {"PauseIf", "ResetIf"} -> ~Valid(es, c, i, raw)
      [] c.type = "Measured" /\ c.target # 0 -> Total(es, Counted(es, c, i, raw)) >= c.target
      [] OTHER -> Valid(es, c, i, raw)

(* The numbers and the verdicts of one condition have their types. *)
LEMMA CountedType ==
    ASSUME NEW D, NEW es \in EvalState(D), NEW i \in D, NEW c \in Condition, NEW raw
    PROVE  /\ Counted(es, c, i, raw) \in Nat
           /\ es.hits[i] \in Nat
           /\ Total(es, Counted(es, c, i, raw)) \in Nat
           /\ Met(es, c, i, raw) \in BOOLEAN
           /\ Valid(es, c, i, raw) \in BOOLEAN
           /\ Holds(es, i, raw) \in BOOLEAN
<1>1. es.hits[i] \in Nat /\ es.addHits \in Int
  BY DEF EvalState
<1>2. Counted(es, c, i, raw) \in Nat
  BY <1>1 DEF Counted
<1>3. Total(es, Counted(es, c, i, raw)) \in Nat
  BY <1>1, <1>2 DEF Total
<1>4. Met(es, c, i, raw) \in BOOLEAN /\ Holds(es, i, raw) \in BOOLEAN
  BY DEF Met, Holds
<1>5. Valid(es, c, i, raw) \in BOOLEAN
  <2>1. c.target \in Nat
    BY DEF Condition
  <2>2. (Total(es, Counted(es, c, i, raw)) >= c.target) \in BOOLEAN
    BY <1>3, <2>1
  <2>3. QED
    BY <1>4, <2>2, Zenon DEF Valid
<1>6. QED
  BY <1>1, <1>2, <1>3, <1>4, <1>5

SameVerdict(es, fs) ==
    /\ es.isTrue = fs.isTrue /\ es.isPrimed = fs.isPrimed /\ es.isPaused = fs.isPaused
    /\ es.wasReset = fs.wasReset /\ es.stop = fs.stop /\ es.canMeasure = fs.canMeasure
    /\ es.measured = fs.measured /\ es.fromHits = fs.fromHits

(* What the evaluation of a condition does to its own hits and to the state it shares. *)
LEMMA NoAddHitsIs ==
    ASSUME NEW D, NEW es \in EvalState(D), NEW i \in D, NEW c \in Condition, NEW raw,
           NEW e, e = NoAddHits(es, c, i, raw)
    PROVE  /\ e \in EvalState(D)
           /\ e.hits = [es.hits EXCEPT ![i] = Counted(es, c, i, raw)]
           /\ e.andNext /\ ~e.orNext
           /\ e.addHits = es.addHits /\ e.resetNext = es.resetNext
           /\ SameVerdict(e, es)
<1> DEFINE n == Counted(es, c, i, raw)
           h == [es.hits EXCEPT ![i] = n]
<1>1. n \in Nat
  BY CountedType
<1>2. es.hits \in [D -> Nat]
  BY DEF EvalState
<1>3. h \in [D -> Nat]
  BY <1>1, <1>2
<1>4. e = [es EXCEPT !.hits = h, !.hasHits = es.hasHits \/ n > 0,
                     !.condReset = es.condReset \/ (es.resetNext /\ es.hits[i] # 0),
                     !.andNext = TRUE, !.orNext = FALSE]
  BY DEF NoAddHits
<1> HIDE DEF n, h
<1>5. e \in EvalState(D)
  BY <1>3, <1>4 DEF EvalState
<1>6. e.hits = h /\ e.andNext /\ ~e.orNext /\ e.addHits = es.addHits /\ e.resetNext = es.resetNext
  BY <1>4 DEF EvalState
<1>7. SameVerdict(e, es)
  BY <1>4 DEF EvalState, SameVerdict
<1>8. QED
  BY <1>5, <1>6, <1>7 DEF h, n

(* The same with the counter of an AddHits chain (rc_condset_evaluate_condition). *)
LEMMA EvaluatedIs ==
    ASSUME NEW D, NEW es \in EvalState(D), NEW i \in D, NEW c \in Condition, NEW raw,
           NEW e, e = EvaluatedCondition(es, c, i, raw)
    PROVE  /\ e \in EvalState(D)
           /\ e.hits = [es.hits EXCEPT ![i] = Counted(es, c, i, raw)]
           /\ e.andNext /\ ~e.orNext /\ ~e.resetNext
           /\ e.addHits = IF UsesAddHits(es, c) THEN 0 ELSE es.addHits
           /\ SameVerdict(e, es)
<1>0. PICK f : f = NoAddHits(es, c, i, raw)
  OBVIOUS
<1>1. /\ f \in EvalState(D)
      /\ f.hits = [es.hits EXCEPT ![i] = Counted(es, c, i, raw)]
      /\ f.andNext /\ ~f.orNext
      /\ f.addHits = es.addHits /\ f.resetNext = es.resetNext
      /\ SameVerdict(f, es)
  BY <1>0, NoAddHitsIs
<1> DEFINE a == IF UsesAddHits(es, c) THEN 0 ELSE f.addHits
<1>2. e = [f EXCEPT !.addHits = a, !.resetNext = FALSE]
  BY <1>0 DEF EvaluatedCondition
<1>4. a \in Int /\ a = IF UsesAddHits(es, c) THEN 0 ELSE es.addHits
  BY <1>1 DEF EvalState
<1> HIDE DEF a
<1>5. e \in EvalState(D)
  BY <1>1, <1>2, <1>4 DEF EvalState
<1>6. e.hits = f.hits /\ e.andNext /\ ~e.orNext /\ ~e.resetNext /\ e.addHits = a
  BY <1>1, <1>2 DEF EvalState
<1>7. SameVerdict(e, f)
  BY <1>1, <1>2 DEF EvalState, SameVerdict
<1>8. SameVerdict(e, es)
  BY <1>1, <1>7 DEF SameVerdict
<1>9. QED
  BY <1>1, <1>4, <1>5, <1>6, <1>8

(* The hits that are left, and the state that goes on. *)
Kept(es, c, i, raw) ==
    IF c.type \in Indirect \cup {"Remember"} THEN es.hits[i]
    ELSE IF c.type = "PauseIf" /\ c.target = 0 /\ Good(es, c, i, raw) THEN 0
    ELSE Counted(es, c, i, raw)

AddHitsAfter(es, c, i, raw) ==
    IF c.type = "AddHits" THEN es.addHits + Counted(es, c, i, raw)
    ELSE IF c.type = "SubHits" THEN es.addHits - Counted(es, c, i, raw)
    ELSE IF c.type \in Ending /\ c.target # 0 THEN 0
    ELSE es.addHits

Carried(es, e, c, i, raw) ==
    /\ e.hits = [es.hits EXCEPT ![i] = Kept(es, c, i, raw)]
    /\ e.addHits = AddHitsAfter(es, c, i, raw)
    /\ e.andNext = IF c.type \in Indirect \cup {"Remember"} THEN es.andNext
                   ELSE (c.type = "AndNext" => Met(es, c, i, raw))
    /\ e.orNext = IF c.type \in Indirect \cup {"Remember"} THEN es.orNext
                  ELSE (c.type = "OrNext" /\ Met(es, c, i, raw))
    /\ e.resetNext = IF c.type \in Indirect \cup {"Remember", "AndNext", "OrNext"} THEN es.resetNext
                     ELSE (c.type = "ResetNextIf" /\ Met(es, c, i, raw))

Judged(es, e, c, good) ==
    /\ e.isTrue = (es.isTrue /\ good)
    /\ e.isPaused = (es.isPaused \/ (c.type = "PauseIf" /\ ~good))
    /\ e.wasReset = (es.wasReset \/ (c.type = "ResetIf" /\ ~good))
    /\ e.stop = (es.stop \/ (c.type \in {"PauseIf", "ResetIf"} /\ ~good))

Shown(es, e, c, total) ==
    /\ c.type # "Measured" => e.measured = es.measured /\ e.fromHits = es.fromHits
    /\ c.type = "Measured" /\ c.target # 0 => e.measured = total /\ e.fromHits

(* A condition that only has its say. *)
LEMMA StandardIs ==
    ASSUME NEW D, NEW es \in EvalState(D), NEW i \in D, NEW c \in Condition, NEW raw,
           NEW e, e = Standard(es, c, i, raw), NEW v, v = Valid(es, c, i, raw)
    PROVE  /\ e \in EvalState(D)
           /\ e.hits = [es.hits EXCEPT ![i] = Counted(es, c, i, raw)]
           /\ e.andNext /\ ~e.orNext /\ ~e.resetNext
           /\ e.addHits = IF UsesAddHits(es, c) THEN 0 ELSE es.addHits
           /\ e.isTrue = (es.isTrue /\ v)
           /\ e.isPaused = es.isPaused /\ e.wasReset = es.wasReset /\ e.stop = es.stop
           /\ e.measured = es.measured /\ e.fromHits = es.fromHits
<1>0. PICK f : f = EvaluatedCondition(es, c, i, raw)
  OBVIOUS
<1>1. /\ f \in EvalState(D)
      /\ f.hits = [es.hits EXCEPT ![i] = Counted(es, c, i, raw)]
      /\ f.andNext /\ ~f.orNext /\ ~f.resetNext
      /\ f.addHits = IF UsesAddHits(es, c) THEN 0 ELSE es.addHits
      /\ SameVerdict(f, es)
  BY <1>0, EvaluatedIs
<1> DEFINE t == f.isTrue /\ v
           q == f.isPrimed /\ (c.type = "Trigger" \/ v)
           n == f.canMeasure /\ (c.type = "MeasuredIf" => v)
<1>2. e = [f EXCEPT !.isTrue = t, !.isPrimed = q, !.canMeasure = n]
  BY <1>0 DEF Standard
<1>3. t \in BOOLEAN /\ q \in BOOLEAN /\ n \in BOOLEAN
  OBVIOUS
<1>4. t = (es.isTrue /\ v)
  BY <1>1 DEF SameVerdict
<1> HIDE DEF t, q, n
<1>5. e \in EvalState(D)
  BY <1>1, <1>2, <1>3 DEF EvalState
<1>6. /\ e.isTrue = t /\ e.isPaused = f.isPaused /\ e.wasReset = f.wasReset /\ e.stop = f.stop
      /\ e.hits = f.hits /\ e.andNext = f.andNext /\ e.orNext = f.orNext
      /\ e.resetNext = f.resetNext /\ e.addHits = f.addHits
      /\ e.measured = f.measured /\ e.fromHits = f.fromHits
  BY <1>1, <1>2 DEF EvalState
<1>7. QED
  BY <1>1, <1>4, <1>5, <1>6 DEF SameVerdict

Does(D, es, e, c, i, raw) ==
    /\ e \in EvalState(D)
    /\ Carried(es, e, c, i, raw)
    /\ Judged(es, e, c, Good(es, c, i, raw))
    /\ Shown(es, e, c, Total(es, Counted(es, c, i, raw)))

(* Every flag ends a chain, combines or is indirect, and only one of them. *)
LEMMA FlagsApart ==
    /\ Ending \cap Combining = {} /\ Ending \cap Indirect = {} /\ Combining \cap Indirect = {}
    /\ \A c \in Condition : c.type \in Ending \cup Combining \cup Indirect /\ c.target \in Nat
  BY DEF Ending, Combining, Indirect, Condition

(* Each flag in turn: what its evaluation does. *)
LEMMA StandardDoes ==
    ASSUME NEW D, NEW es \in EvalState(D), NEW i \in D, NEW c \in Condition, NEW raw,
           NEW e, e = Standard(es, c, i, raw),
           c.type \in {"Standard", "Trigger", "MeasuredIf"}
    PROVE  Does(D, es, e, c, i, raw)
<1>1. /\ e \in EvalState(D)
      /\ e.hits = [es.hits EXCEPT ![i] = Counted(es, c, i, raw)]
      /\ e.andNext /\ ~e.orNext /\ ~e.resetNext
      /\ e.addHits = IF UsesAddHits(es, c) THEN 0 ELSE es.addHits
      /\ e.isTrue = (es.isTrue /\ Valid(es, c, i, raw))
      /\ e.isPaused = es.isPaused /\ e.wasReset = es.wasReset /\ e.stop = es.stop
      /\ e.measured = es.measured /\ e.fromHits = es.fromHits
  BY StandardIs
<1>2. Good(es, c, i, raw) = Valid(es, c, i, raw) /\ Kept(es, c, i, raw) = Counted(es, c, i, raw)
  BY DEF Good, Kept, Ending, Indirect
<1>3. Carried(es, e, c, i, raw)
  <2>1. e.addHits = AddHitsAfter(es, c, i, raw)
    BY <1>1 DEF AddHitsAfter, UsesAddHits, Ending
  <2>2. e.andNext = TRUE /\ e.orNext = FALSE /\ e.resetNext = FALSE
    BY <1>1 DEF EvalState
  <2>3. QED
    BY <1>1, <1>2, <2>1, <2>2 DEF Carried, Indirect
<1>4. Judged(es, e, c, Good(es, c, i, raw))
  BY <1>1, <1>2 DEF Judged, EvalState
<1>5. QED
  BY <1>1, <1>3, <1>4 DEF Does, Shown

LEMMA PauseIfDoes ==
    ASSUME NEW D, NEW es \in EvalState(D), NEW i \in D, NEW c \in Condition, NEW raw,
           NEW e, e = PauseIf(es, c, i, raw), c.type = "PauseIf"
    PROVE  Does(D, es, e, c, i, raw)
<1>1. PICK f : f = EvaluatedCondition(es, c, i, raw)
  OBVIOUS
<1>2. /\ f \in EvalState(D)
      /\ f.hits = [es.hits EXCEPT ![i] = Counted(es, c, i, raw)]
      /\ f.andNext /\ ~f.orNext /\ ~f.resetNext
      /\ f.addHits = IF UsesAddHits(es, c) THEN 0 ELSE es.addHits
      /\ SameVerdict(f, es)
  BY <1>1, EvaluatedIs
<1>3. Good(es, c, i, raw) = ~Valid(es, c, i, raw)
  BY DEF Good, Ending
<1>4. /\ Kept(es, c, i, raw) = IF c.target = 0 /\ Good(es, c, i, raw) THEN 0 ELSE Counted(es, c, i, raw)
      /\ AddHitsAfter(es, c, i, raw) = f.addHits
  BY <1>2 DEF Kept, Indirect, AddHitsAfter, UsesAddHits, Ending
<1>5. f.hits \in [D -> Nat] /\ es.hits \in [D -> Nat]
  BY <1>2 DEF EvalState
<1>6. CASE Valid(es, c, i, raw)
  <2>1. e = [f EXCEPT !.isPaused = TRUE, !.isTrue = FALSE, !.isPrimed = FALSE, !.stop = TRUE]
    BY <1>1, <1>6 DEF PauseIf
  <2>2. /\ e \in EvalState(D)
        /\ e.isTrue = FALSE /\ e.isPaused = TRUE /\ e.wasReset = f.wasReset /\ e.stop = TRUE
        /\ e.hits = f.hits /\ e.andNext = f.andNext /\ e.orNext = f.orNext
        /\ e.resetNext = f.resetNext /\ e.addHits = f.addHits
        /\ e.measured = f.measured /\ e.fromHits = f.fromHits
    BY <1>2, <2>1 DEF EvalState
  <2>3. e.andNext = TRUE /\ e.orNext = FALSE /\ e.resetNext = FALSE
    BY <1>2, <2>2 DEF EvalState
  <2>4. Carried(es, e, c, i, raw)
    BY <1>2, <1>3, <1>4, <1>6, <2>2, <2>3 DEF Carried, Indirect
  <2>5. Judged(es, e, c, Good(es, c, i, raw))
    BY <1>2, <1>3, <1>6, <2>2 DEF Judged, SameVerdict, EvalState
  <2>6. QED
    BY <1>2, <2>2, <2>4, <2>5 DEF Does, Shown, SameVerdict
<1>7. CASE ~Valid(es, c, i, raw)
  <2> DEFINE h == IF c.target = 0 THEN [f.hits EXCEPT ![i] = 0] ELSE f.hits
  <2>1. h \in [D -> Nat]
    BY <1>5
  <2>2. e = [f EXCEPT !.hits = h]
    <3>1. CASE c.target = 0
      BY <1>1, <1>7, <3>1 DEF PauseIf
    <3>2. CASE c.target # 0
      <4>1. e = f
        BY <1>1, <1>7, <3>2 DEF PauseIf
      <4>2. QED
        BY <1>2, <3>2, <4>1 DEF EvalState
    <3>3. QED
      BY <3>1, <3>2
  <2>3. h = [es.hits EXCEPT ![i] = Kept(es, c, i, raw)]
    BY <1>2, <1>3, <1>4, <1>5, <1>7
  <2> HIDE DEF h
  <2>4. /\ e \in EvalState(D)
        /\ e.isTrue = f.isTrue /\ e.isPaused = f.isPaused /\ e.wasReset = f.wasReset
        /\ e.stop = f.stop
        /\ e.hits = h /\ e.andNext = f.andNext /\ e.orNext = f.orNext
        /\ e.resetNext = f.resetNext /\ e.addHits = f.addHits
        /\ e.measured = f.measured /\ e.fromHits = f.fromHits
    BY <1>2, <2>1, <2>2 DEF EvalState
  <2>5. e.andNext = TRUE /\ e.orNext = FALSE /\ e.resetNext = FALSE
    BY <1>2, <2>4 DEF EvalState
  <2>6. Carried(es, e, c, i, raw)
    BY <1>4, <2>3, <2>4, <2>5 DEF Carried, Indirect
  <2>7. Judged(es, e, c, Good(es, c, i, raw))
    BY <1>2, <1>3, <1>7, <2>4 DEF Judged, SameVerdict, EvalState
  <2>8. QED
    BY <1>2, <2>4, <2>6, <2>7 DEF Does, Shown, SameVerdict
<1>8. QED
  BY <1>6, <1>7

LEMMA ResetIfDoes ==
    ASSUME NEW D, NEW es \in EvalState(D), NEW i \in D, NEW c \in Condition, NEW raw,
           NEW e, e = ResetIf(es, c, i, raw), c.type = "ResetIf"
    PROVE  Does(D, es, e, c, i, raw)
<1>1. PICK f : f = EvaluatedCondition(es, c, i, raw)
  OBVIOUS
<1>2. /\ f \in EvalState(D)
      /\ f.hits = [es.hits EXCEPT ![i] = Counted(es, c, i, raw)]
      /\ f.andNext /\ ~f.orNext /\ ~f.resetNext
      /\ f.addHits = IF UsesAddHits(es, c) THEN 0 ELSE es.addHits
      /\ SameVerdict(f, es)
  BY <1>1, EvaluatedIs
<1>3. Good(es, c, i, raw) = ~Valid(es, c, i, raw)
  BY DEF Good, Ending
<1>4. /\ Kept(es, c, i, raw) = Counted(es, c, i, raw)
      /\ AddHitsAfter(es, c, i, raw) = f.addHits
  BY <1>2 DEF Kept, Indirect, AddHitsAfter, UsesAddHits, Ending
<1>5. CASE Valid(es, c, i, raw)
  <2>1. e = [f EXCEPT !.wasReset = TRUE, !.isTrue = FALSE, !.isPrimed = FALSE, !.stop = TRUE]
    BY <1>1, <1>5 DEF ResetIf
  <2>2. /\ e \in EvalState(D)
        /\ e.isTrue = FALSE /\ e.wasReset = TRUE /\ e.isPaused = f.isPaused /\ e.stop = TRUE
        /\ e.hits = f.hits /\ e.andNext = f.andNext /\ e.orNext = f.orNext
        /\ e.resetNext = f.resetNext /\ e.addHits = f.addHits
        /\ e.measured = f.measured /\ e.fromHits = f.fromHits
    BY <1>2, <2>1 DEF EvalState
  <2>3. e.andNext = TRUE /\ e.orNext = FALSE /\ e.resetNext = FALSE
    BY <1>2, <2>2 DEF EvalState
  <2>4. Carried(es, e, c, i, raw)
    BY <1>2, <1>4, <2>2, <2>3 DEF Carried, Indirect
  <2>5. Judged(es, e, c, Good(es, c, i, raw))
    BY <1>2, <1>3, <1>5, <2>2 DEF Judged, SameVerdict, EvalState
  <2>6. QED
    BY <1>2, <2>2, <2>4, <2>5 DEF Does, Shown, SameVerdict
<1>6. CASE ~Valid(es, c, i, raw)
  <2>1. e = f
    BY <1>1, <1>6 DEF ResetIf
  <2>2. e.andNext = TRUE /\ e.orNext = FALSE /\ e.resetNext = FALSE
    BY <1>2, <2>1 DEF EvalState
  <2>3. Carried(es, e, c, i, raw)
    BY <1>2, <1>4, <2>1, <2>2 DEF Carried, Indirect
  <2>4. Judged(es, e, c, Good(es, c, i, raw))
    BY <1>2, <1>3, <1>6, <2>1 DEF Judged, SameVerdict, EvalState
  <2>5. QED
    BY <1>2, <2>1, <2>3, <2>4 DEF Does, Shown, SameVerdict
<1>7. QED
  BY <1>5, <1>6

LEMMA MeasuredDoes ==
    ASSUME NEW D, NEW es \in EvalState(D), NEW i \in D, NEW c \in Condition, NEW raw,
           NEW e, e = Measured(es, c, i, raw), c.type = "Measured"
    PROVE  Does(D, es, e, c, i, raw)
<1>1. Kept(es, c, i, raw) = Counted(es, c, i, raw)
  BY DEF Kept, Indirect
<1>2. CASE c.target = 0
  <2>1. PICK f : f = Standard(es, c, i, raw)
    OBVIOUS
  <2>2. /\ f \in EvalState(D)
        /\ f.hits = [es.hits EXCEPT ![i] = Counted(es, c, i, raw)]
        /\ f.andNext /\ ~f.orNext /\ ~f.resetNext
        /\ f.addHits = IF UsesAddHits(es, c) THEN 0 ELSE es.addHits
        /\ f.isTrue = (es.isTrue /\ Valid(es, c, i, raw))
        /\ f.isPaused = es.isPaused /\ f.wasReset = es.wasReset /\ f.stop = es.stop
    BY <2>1, StandardIs
  <2> DEFINE n == IF raw[i] THEN MeasuredMax ELSE 0
  <2>3. e = [f EXCEPT !.measured = n, !.fromHits = FALSE]
    BY <1>2, <2>1 DEF Measured
  <2>4. n \in Int
    BY MeasuredMaxAssumption
  <2> HIDE DEF n
  <2>5. /\ e \in EvalState(D)
        /\ e.isTrue = f.isTrue /\ e.isPaused = f.isPaused /\ e.wasReset = f.wasReset
        /\ e.stop = f.stop /\ e.hits = f.hits /\ e.andNext = f.andNext
        /\ e.orNext = f.orNext /\ e.resetNext = f.resetNext /\ e.addHits = f.addHits
    BY <2>2, <2>3, <2>4 DEF EvalState
  <2>6. Good(es, c, i, raw) = Valid(es, c, i, raw)
    BY <1>2 DEF Good, Ending
  <2>7. e.addHits = AddHitsAfter(es, c, i, raw)
    BY <1>2, <2>2, <2>5 DEF AddHitsAfter, UsesAddHits, Ending
  <2>8. e.andNext = TRUE /\ e.orNext = FALSE /\ e.resetNext = FALSE
    BY <2>2, <2>5 DEF EvalState
  <2>9. Carried(es, e, c, i, raw)
    BY <1>1, <2>2, <2>5, <2>7, <2>8 DEF Carried, Indirect
  <2>10. Judged(es, e, c, Good(es, c, i, raw))
    BY <2>2, <2>5, <2>6 DEF Judged, EvalState
  <2>11. QED
    BY <1>2, <2>5, <2>9, <2>10 DEF Does, Shown
<1>3. CASE c.target # 0
  <2>1. PICK f : f = NoAddHits(es, c, i, raw)
    OBVIOUS
  <2>2. /\ f \in EvalState(D)
        /\ f.hits = [es.hits EXCEPT ![i] = Counted(es, c, i, raw)]
        /\ f.andNext /\ ~f.orNext
        /\ SameVerdict(f, es)
    BY <2>1, NoAddHitsIs
  <2>3. PICK n \in Nat : n = Total(es, Counted(es, c, i, raw))
    BY CountedType
  <2>4. PICK t \in BOOLEAN : t = (f.isTrue /\ n >= c.target)
    OBVIOUS
  <2>5. PICK p \in BOOLEAN : p = (f.isPrimed /\ n >= c.target)
    OBVIOUS
  <2>18. PICK z \in Int : z = 0
    OBVIOUS
  <2>14. PICK g : g = [f EXCEPT !.addHits = z, !.resetNext = FALSE]
    OBVIOUS
  <2>15. e = [g EXCEPT !.isTrue = t, !.isPrimed = p, !.measured = n, !.fromHits = TRUE]
    BY <1>3, <2>1, <2>3, <2>4, <2>5, <2>14, <2>18 DEF Measured
  <2>6. Good(es, c, i, raw) = (n >= c.target)
    BY <1>3, <2>3 DEF Good, Ending
  <2>7. t = (es.isTrue /\ Good(es, c, i, raw))
    BY <2>2, <2>4, <2>6 DEF SameVerdict
  <2>16. f \in EvalState(D) /\ n \in Int
    BY <2>2, <2>3
  <2>17. /\ g \in EvalState(D)
         /\ g.isPaused = f.isPaused /\ g.wasReset = f.wasReset
         /\ g.stop = f.stop /\ g.hits = f.hits /\ g.andNext = f.andNext
         /\ g.orNext = f.orNext /\ g.resetNext = FALSE /\ g.addHits = 0
    <3>1. f \in EvalState(D)
      BY <2>16
    <3>2. /\ g \in EvalState(D)
          /\ g.isPaused = f.isPaused /\ g.wasReset = f.wasReset
          /\ g.stop = f.stop /\ g.hits = f.hits /\ g.andNext = f.andNext
          /\ g.orNext = f.orNext /\ g.resetNext = FALSE /\ g.addHits = z
      BY <3>1, <2>14 DEF EvalState
    <3>3. QED
      BY <2>18, <3>2
  <2>8. /\ e \in EvalState(D)
        /\ e.isTrue = t /\ e.isPaused = f.isPaused /\ e.wasReset = f.wasReset
        /\ e.stop = f.stop /\ e.hits = f.hits /\ e.andNext = f.andNext
        /\ e.orNext = f.orNext /\ e.resetNext = FALSE /\ e.addHits = 0
        /\ e.measured = n /\ e.fromHits = TRUE
    <3>1. g \in EvalState(D)
      BY <2>17
    <3>2. /\ e \in EvalState(D)
          /\ e.isTrue = t /\ e.isPaused = g.isPaused /\ e.wasReset = g.wasReset
          /\ e.stop = g.stop /\ e.hits = g.hits /\ e.andNext = g.andNext
          /\ e.orNext = g.orNext /\ e.resetNext = g.resetNext /\ e.addHits = g.addHits
          /\ e.measured = n /\ e.fromHits = TRUE
      BY <2>15, <2>16, <3>1 DEF EvalState
    <3>3. QED
      BY <2>17, <3>2
  <2>9. e.addHits = AddHitsAfter(es, c, i, raw)
    BY <1>3, <2>8 DEF AddHitsAfter, Ending
  <2>10. e.andNext = TRUE /\ e.orNext = FALSE
    BY <2>2, <2>8 DEF EvalState
  <2>11. Carried(es, e, c, i, raw)
    BY <1>1, <2>2, <2>8, <2>9, <2>10 DEF Carried, Indirect
  <2>12. Judged(es, e, c, Good(es, c, i, raw))
    BY <2>2, <2>7, <2>8 DEF Judged, EvalState, SameVerdict
  <2>13. QED
    BY <2>3, <2>8, <2>11, <2>12 DEF Does, Shown
<1>4. QED
  BY <1>2, <1>3

LEMMA AddSubHitsDoes ==
    ASSUME NEW D, NEW es \in EvalState(D), NEW i \in D, NEW c \in Condition, NEW raw,
           NEW e, e = AddSubHits(es, c, i, raw), c.type \in {"AddHits", "SubHits"}
    PROVE  Does(D, es, e, c, i, raw)
<1>1. PICK f : f = NoAddHits(es, c, i, raw)
  OBVIOUS
<1>2. /\ f \in EvalState(D)
      /\ f.hits = [es.hits EXCEPT ![i] = Counted(es, c, i, raw)]
      /\ f.andNext /\ ~f.orNext /\ f.addHits = es.addHits
      /\ SameVerdict(f, es)
  BY <1>1, NoAddHitsIs
<1>3. PICK n \in Nat : n = Counted(es, c, i, raw)
  BY CountedType
<1> DEFINE a == f.addHits + (IF c.type = "AddHits" THEN n ELSE -n)
<1>4. e = [f EXCEPT !.addHits = a, !.resetNext = FALSE]
  BY <1>1, <1>3 DEF AddSubHits
<1>5. es.addHits \in Int
  BY DEF EvalState
<1>6. a \in Int /\ a = AddHitsAfter(es, c, i, raw)
  <2>1. f.addHits = es.addHits
    BY <1>2
  <2>2. a \in Int
    BY <1>5, <2>1
  <2>3. CASE c.type = "AddHits"
    BY <1>3, <1>5, <2>1, <2>2, <2>3 DEF AddHitsAfter
  <2>4. CASE c.type = "SubHits"
    <3>1. a = es.addHits - n
      BY <1>5, <2>1, <2>4
    <3>2. AddHitsAfter(es, c, i, raw) = es.addHits - n
      BY <1>3, <2>4 DEF AddHitsAfter
    <3>3. QED
      BY <2>2, <3>1, <3>2
  <2>5. QED
    BY <2>3, <2>4
<1> HIDE DEF a
<1>7. /\ e \in EvalState(D)
      /\ e.isTrue = f.isTrue /\ e.isPaused = f.isPaused /\ e.wasReset = f.wasReset
      /\ e.stop = f.stop /\ e.hits = f.hits /\ e.andNext = f.andNext
      /\ e.orNext = f.orNext /\ e.resetNext = FALSE /\ e.addHits = a
      /\ e.measured = f.measured /\ e.fromHits = f.fromHits
  BY <1>2, <1>4, <1>6 DEF EvalState
<1>8. Good(es, c, i, raw) = TRUE /\ Kept(es, c, i, raw) = Counted(es, c, i, raw)
  BY DEF Good, Kept, Ending, Indirect
<1>9. e.andNext = TRUE /\ e.orNext = FALSE
  BY <1>2, <1>7 DEF EvalState
<1>10. Carried(es, e, c, i, raw)
  BY <1>2, <1>6, <1>7, <1>8, <1>9 DEF Carried, Indirect
<1>11. Judged(es, e, c, Good(es, c, i, raw))
  BY <1>2, <1>7, <1>8 DEF Judged, EvalState, SameVerdict
<1>12. QED
  BY <1>2, <1>7, <1>10, <1>11 DEF Does, Shown, SameVerdict

LEMMA ChainedDoes ==
    ASSUME NEW D, NEW es \in EvalState(D), NEW i \in D, NEW c \in Condition, NEW raw,
           NEW e, e = Chained(es, c, i, raw), c.type \in {"ResetNextIf", "AndNext", "OrNext"}
    PROVE  Does(D, es, e, c, i, raw)
<1>1. PICK f : f = NoAddHits(es, c, i, raw)
  OBVIOUS
<1>2. /\ f \in EvalState(D)
      /\ f.hits = [es.hits EXCEPT ![i] = Counted(es, c, i, raw)]
      /\ f.andNext /\ ~f.orNext /\ f.addHits = es.addHits /\ f.resetNext = es.resetNext
      /\ SameVerdict(f, es)
  BY <1>1, NoAddHitsIs
<1>3. PICK met \in BOOLEAN : met = Met(es, c, i, raw)
  BY CountedType
<1>4. e = CASE c.type = "ResetNextIf" -> [f EXCEPT !.resetNext = met]
            [] c.type = "AndNext" -> [f EXCEPT !.andNext = met]
            [] c.type = "OrNext" -> [f EXCEPT !.orNext = met]
  BY <1>1, <1>3 DEF Chained
<1>5. /\ e \in EvalState(D)
      /\ e.isTrue = f.isTrue /\ e.isPaused = f.isPaused /\ e.wasReset = f.wasReset
      /\ e.stop = f.stop /\ e.hits = f.hits /\ e.addHits = f.addHits
      /\ e.measured = f.measured /\ e.fromHits = f.fromHits
      /\ e.andNext = IF c.type = "AndNext" THEN met ELSE f.andNext
      /\ e.orNext = IF c.type = "OrNext" THEN met ELSE f.orNext
      /\ e.resetNext = IF c.type = "ResetNextIf" THEN met ELSE f.resetNext
  <2>1. CASE c.type = "ResetNextIf"
    BY <1>2, <1>4, <2>1 DEF EvalState
  <2>2. CASE c.type = "AndNext"
    BY <1>2, <1>4, <2>2 DEF EvalState
  <2>3. CASE c.type = "OrNext"
    BY <1>2, <1>4, <2>3 DEF EvalState
  <2>4. QED
    BY <2>1, <2>2, <2>3
<1>6. Good(es, c, i, raw) = TRUE /\ Kept(es, c, i, raw) = Counted(es, c, i, raw)
  BY DEF Good, Kept, Ending, Indirect
<1>7. f.andNext = TRUE /\ f.orNext = FALSE
  BY <1>2 DEF EvalState
<1>8. e.addHits = AddHitsAfter(es, c, i, raw)
  BY <1>2, <1>5 DEF AddHitsAfter, Ending
<1>9. Carried(es, e, c, i, raw)
  BY <1>2, <1>3, <1>5, <1>6, <1>7, <1>8 DEF Carried, Indirect
<1>10. Judged(es, e, c, Good(es, c, i, raw))
  BY <1>2, <1>5, <1>6 DEF Judged, EvalState, SameVerdict
<1>11. QED
  BY <1>2, <1>5, <1>9, <1>10 DEF Does, Shown, SameVerdict

(* One condition of an array, whatever its flag. *)
LEMMA EvaluateDoes ==
    ASSUME NEW D, NEW es \in EvalState(D), NEW i \in D, NEW c \in Condition, NEW raw,
           NEW e, e = Evaluate(es, c, i, raw)
    PROVE  Does(D, es, e, c, i, raw)
<1>1. CASE c.type \in {"Standard", "Trigger", "MeasuredIf"}
  BY <1>1, StandardDoes DEF Evaluate
<1>2. CASE c.type = "PauseIf"
  BY <1>2, PauseIfDoes DEF Evaluate
<1>3. CASE c.type = "ResetIf"
  BY <1>3, ResetIfDoes DEF Evaluate
<1>4. CASE c.type = "Measured"
  BY <1>4, MeasuredDoes DEF Evaluate
<1>5. CASE c.type \in {"AddHits", "SubHits"}
  BY <1>5, AddSubHitsDoes DEF Evaluate
<1>6. CASE c.type \in {"ResetNextIf", "AndNext", "OrNext"}
  BY <1>6, ChainedDoes DEF Evaluate
<1>7. CASE c.type \in Indirect \cup {"Remember"}
  <2>1. e = es
    BY <1>7 DEF Evaluate, Indirect
  <2>2. Good(es, c, i, raw) = TRUE /\ Kept(es, c, i, raw) = es.hits[i]
    BY <1>7 DEF Good, Kept, Ending, Indirect
  <2>3. e.hits = [es.hits EXCEPT ![i] = Kept(es, c, i, raw)]
    BY <2>1, <2>2 DEF EvalState
  <2>4. AddHitsAfter(es, c, i, raw) = es.addHits
    BY <1>7 DEF AddHitsAfter, Indirect, Ending
  <2>5. Carried(es, e, c, i, raw)
    <3>1. c.type \in Indirect \cup {"Remember"}
      BY <1>7
    <3>2. c.type \in Indirect \cup {"Remember", "AndNext", "OrNext"}
      BY <1>7
    <3>3. e.andNext = es.andNext /\ e.orNext = es.orNext /\ e.resetNext = es.resetNext
      BY <2>1
    <3>4. e.addHits = AddHitsAfter(es, c, i, raw)
      BY <2>1, <2>4
    <3>5. QED
      BY <2>3, <3>1, <3>2, <3>3, <3>4, Zenon DEF Carried
  <2>6. Judged(es, e, c, Good(es, c, i, raw))
    BY <1>7, <2>1, <2>2 DEF Judged, Indirect, EvalState
  <2>7. QED
    BY <1>7, <2>1, <2>5, <2>6 DEF Does, Shown, Indirect
<1>8. QED
  BY <1>1, <1>2, <1>3, <1>4, <1>5, <1>6, <1>7, FlagsApart DEF Ending, Combining

(* A set of numbers has a least one. *)
LEMMA LeastOf ==
    ASSUME NEW T \in SUBSET Nat, T # {}
    PROVE  \E x \in T : \A y \in T : x <= y
<1> DEFINE R == OpToRel(<, Nat)
<1>1. IsWellFoundedOn(R, Nat)
  BY NatLessThanWellFounded
<1>2. \A x, y \in Nat : x < y => <<x, y>> \in R
  BY DEF OpToRel
<1> HIDE DEF R
<1>3. PICK x \in T : \A y \in T : ~ (<<y, x>> \in R)
  BY <1>1, WFMin
<1>4. ASSUME NEW y \in T
      PROVE  x <= y
  <2>1. x \in Nat /\ y \in Nat
    OBVIOUS
  <2>2. ~(y < x)
    BY <1>2, <1>3, <2>1
  <2>3. QED
    BY <2>1, <2>2
<1>5. QED
  BY <1>4

(* Where the chains of a group end. *)
LEMMA EndsIs ==
    ASSUME NEW conds \in Seq(Condition), NEW i \in 1..(Len(conds) + 1)
    PROVE  /\ Ends(conds, i) = {j \in i..Len(conds) : conds[j].type \in Ending}
           /\ Ends(conds, i) = {} => ChainEnd(conds, i) = Len(conds) + 1
           /\ Ends(conds, i) # {} =>
                /\ ChainEnd(conds, i) \in Ends(conds, i)
                /\ \A k \in Ends(conds, i) : ChainEnd(conds, i) <= k
<1>1. \A j \in i..Len(conds) : conds[j] \in Condition
  OBVIOUS
<1>2. Ends(conds, i) = {j \in i..Len(conds) : conds[j].type \in Ending}
  BY <1>1, FlagsApart DEF Ends
<1>3. Ends(conds, i) = {} => ChainEnd(conds, i) = Len(conds) + 1
  BY DEF ChainEnd
<1>4. ASSUME Ends(conds, i) # {}
      PROVE  /\ ChainEnd(conds, i) \in Ends(conds, i)
             /\ \A k \in Ends(conds, i) : ChainEnd(conds, i) <= k
  <2>1. Ends(conds, i) \in SUBSET Nat
    BY <1>2
  <2>2. \E x \in Ends(conds, i) : \A y \in Ends(conds, i) : x <= y
    BY <1>4, <2>1, LeastOf
  <2>3. ChainEnd(conds, i) = CHOOSE j \in Ends(conds, i) : \A k \in Ends(conds, i) : j <= k
    BY <1>4 DEF ChainEnd
  <2>4. QED
    BY <2>2, <2>3
<1>5. QED
  BY <1>2, <1>3, <1>4

(* The chain through i ends at i or after, and at no later condition that can end it. *)
LEMMA ChainEndIs ==
    ASSUME NEW conds \in Seq(Condition), NEW i \in 1..(Len(conds) + 1)
    PROVE  /\ ChainEnd(conds, i) \in i..(Len(conds) + 1)
           /\ \A k \in i..Len(conds) : conds[k].type \in Ending => ChainEnd(conds, i) <= k
           /\ ChainEnd(conds, i) # Len(conds) + 1 =>
                /\ ChainEnd(conds, i) \in 1..Len(conds)
                /\ conds[ChainEnd(conds, i)].type \in Ending
<1>1. Len(conds) \in Nat
  OBVIOUS
<1>2. CASE Ends(conds, i) = {}
  BY <1>1, <1>2, EndsIs
<1>3. CASE Ends(conds, i) # {}
  <2>1. ChainEnd(conds, i) \in {j \in i..Len(conds) : conds[j].type \in Ending}
    BY <1>3, EndsIs
  <2>2. \A k \in i..Len(conds) : conds[k].type \in Ending => ChainEnd(conds, i) <= k
    BY <1>3, EndsIs
  <2>3. QED
    BY <1>1, <2>1, <2>2
<1>4. QED
  BY <1>2, <1>3

(* A chain that no end cuts goes on to the next condition. *)
LEMMA ChainEndNext ==
    ASSUME NEW conds \in Seq(Condition), NEW i \in 1..(Len(conds) + 1),
           NEW k \in i..(Len(conds) + 1), k <= ChainEnd(conds, i)
    PROVE  ChainEnd(conds, k) = ChainEnd(conds, i)
<1> DEFINE n == Len(conds)
           a == ChainEnd(conds, i)
           b == ChainEnd(conds, k)
<1>1. n \in Nat /\ k \in 1..(n + 1)
  OBVIOUS
<1>2. /\ a \in i..(n + 1)
      /\ \A x \in i..n : conds[x].type \in Ending => a <= x
      /\ a # n + 1 => a \in 1..n /\ conds[a].type \in Ending
  BY ChainEndIs
<1>3. /\ b \in k..(n + 1)
      /\ \A x \in k..n : conds[x].type \in Ending => b <= x
      /\ b # n + 1 => b \in 1..n /\ conds[b].type \in Ending
  BY <1>1, ChainEndIs
<1>4. k <= a
  OBVIOUS
<1> HIDE DEF n, a, b
<1>5. b <= a
  <2>1. CASE a = n + 1
    BY <1>1, <1>3, <2>1
  <2>2. CASE a # n + 1
    <3>1. a \in k..n /\ conds[a].type \in Ending
      BY <1>1, <1>2, <1>4, <2>2
    <3>2. QED
      BY <1>3, <3>1
  <2>3. QED
    BY <2>1, <2>2
<1>6. a <= b
  <2>1. CASE b = n + 1
    BY <1>1, <1>2, <2>1
  <2>2. CASE b # n + 1
    <3>1. b \in i..n /\ conds[b].type \in Ending
      BY <1>1, <1>3, <2>2
    <3>2. QED
      BY <1>2, <3>1
  <2>3. QED
    BY <2>1, <2>2
<1>7. a = b
  BY <1>1, <1>2, <1>3, <1>5, <1>6
<1>8. QED
  BY <1>7 DEF a, b

(* A condition that can end a chain ends its own, and no other does. *)
LEMMA ChainEndAt ==
    ASSUME NEW conds \in Seq(Condition), NEW i \in 1..Len(conds)
    PROVE  /\ conds[i].type \in Ending <=> ChainEnd(conds, i) = i
           /\ conds[i].type \notin Ending => ChainEnd(conds, i + 1) = ChainEnd(conds, i)
           /\ ChainEnd(conds, Len(conds) + 1) = Len(conds) + 1
<1>1. Len(conds) \in Nat /\ i \in 1..(Len(conds) + 1) /\ i \in i..Len(conds)
      /\ i + 1 \in i..(Len(conds) + 1) /\ Len(conds) + 1 \in 1..(Len(conds) + 1)
  OBVIOUS
<1>2. /\ ChainEnd(conds, i) \in i..(Len(conds) + 1)
      /\ conds[i].type \in Ending => ChainEnd(conds, i) <= i
      /\ ChainEnd(conds, i) = i => conds[i].type \in Ending
  BY <1>1, ChainEndIs
<1>3. conds[i].type \in Ending <=> ChainEnd(conds, i) = i
  BY <1>1, <1>2
<1>4. ASSUME conds[i].type \notin Ending
      PROVE  ChainEnd(conds, i + 1) = ChainEnd(conds, i)
  <2>1. i + 1 <= ChainEnd(conds, i)
    BY <1>1, <1>2, <1>3, <1>4
  <2>2. QED
    BY <1>1, <2>1, ChainEndNext
<1>5. ChainEnd(conds, Len(conds) + 1) = Len(conds) + 1
  BY <1>1, ChainEndIs
<1>6. QED
  BY <1>3, <1>4, <1>5

(* Chains end in the order of their conditions. *)
LEMMA ChainEndGrows ==
    ASSUME NEW conds \in Seq(Condition), NEW i \in 1..(Len(conds) + 1),
           NEW k \in i..(Len(conds) + 1)
    PROVE  ChainEnd(conds, i) <= ChainEnd(conds, k)
<1>1. Len(conds) \in Nat /\ k \in 1..(Len(conds) + 1)
  OBVIOUS
<1>2. /\ ChainEnd(conds, i) \in i..(Len(conds) + 1)
      /\ ChainEnd(conds, k) \in k..(Len(conds) + 1)
  BY <1>1, ChainEndIs
<1>3. CASE k <= ChainEnd(conds, i)
  BY <1>1, <1>2, <1>3, ChainEndNext
<1>4. CASE ~(k <= ChainEnd(conds, i))
  BY <1>1, <1>2, <1>4
<1>5. QED
  BY <1>3, <1>4
-----------------------------------------------------------------------------
(* A pass over an array, one condition after the other. *)
RunsOver(Q, es, conds, array, raw) ==
    /\ Q[0] = es
    /\ \A k \in 0..Len(conds) : Q[k] \in EvalState(DOMAIN conds)
    /\ \A k \in 1..Len(conds) :
          Q[k] = IF k \notin array THEN Q[k - 1] ELSE Evaluate(Q[k - 1], conds[k], k, raw)

(* The recursion of Passes, step by step. *)
LEMMA PassesIs ==
    ASSUME NEW conds \in Seq(Condition), NEW es \in EvalState(DOMAIN conds), NEW array, NEW raw,
           NEW short \in BOOLEAN, NEW Q, Q = Passes(es, conds, array, raw, short)
    PROVE  /\ Q[0] = es
           /\ \A k \in 0..Len(conds) : Q[k] \in EvalState(DOMAIN conds)
           /\ \A k \in 1..Len(conds) :
                 Q[k] = IF k \notin array \/ (short /\ Q[k - 1].stop) THEN Q[k - 1]
                        ELSE Evaluate(Q[k - 1], conds[k], k, raw)
<1> DEFINE n == Len(conds)
           S == EvalState(DOMAIN conds)
           Step(k, s) == IF k \notin array \/ (short /\ s.stop) THEN s
                         ELSE Evaluate(s, conds[k], k, raw)
           step == [k \in 1..n |-> [s \in S |-> Step(k, s)]]
<1>1. n \in Nat /\ DOMAIN conds = 1..n
  OBVIOUS
<1>2. \A k \in 1..n : \A s \in S : Step(k, s) \in S
  <2> SUFFICES ASSUME NEW k \in 1..n, NEW s \in S, k \in array
               PROVE  Evaluate(s, conds[k], k, raw) \in S
    OBVIOUS
  <2>1. conds[k] \in Condition /\ k \in DOMAIN conds
    BY <1>1
  <2>2. PICK e : e = Evaluate(s, conds[k], k, raw)
    OBVIOUS
  <2>3. Does(DOMAIN conds, s, e, conds[k], k, raw)
    BY <2>1, <2>2, EvaluateDoes
  <2>4. QED
    BY <2>2, <2>3 DEF Does
<1>3. step \in [1..n -> [S -> S]]
  <2> HIDE DEF S, n, Step
  <2>1. QED
    BY <1>2
<1>4. PICK f \in [0..n -> S] : Solves(f, n, es, step)
  <2> HIDE DEF S, n, step
  <2>1. es \in S
    BY DEF S
  <2>2. QED
    BY <1>1, <1>3, <2>1, RecursionExists
<1>5. \A g : Solves(g, n, es, step) =>
         /\ g[0] = es
         /\ \A k \in 0..n : g[k] \in S
         /\ \A k \in 1..n : g[k] = Step(k, g[k - 1])
  <2> SUFFICES ASSUME NEW g, Solves(g, n, es, step)
               PROVE  /\ g[0] = es
                      /\ \A k \in 0..n : g[k] \in S
                      /\ \A k \in 1..n : g[k] = Step(k, g[k - 1])
    OBVIOUS
  <2> HIDE DEF S, n, Step
  <2>1. \A k \in 0..n : g[k] = IF k = 0 THEN es ELSE step[k][g[k - 1]]
    BY DEF Solves
  <2>2. g[0] = es /\ es \in S
    BY <1>1, <2>1 DEF S
  <2>3. ASSUME NEW k \in 1..n
        PROVE  g[k] = step[k][g[k - 1]]
    <3>1. k \in 0..n /\ k # 0
      BY <1>1
    <3>2. QED
      BY <2>1, <3>1
  <2>4. \A k \in 1..n : g[k - 1] \in S => g[k] \in S
    BY <1>2, <2>3
  <2>5. \A k \in 0..n : g[k] \in S
    BY <1>1, <2>2, <2>4, RecursionIn
  <2>6. \A k \in 1..n : g[k] = Step(k, g[k - 1])
    BY <1>1, <2>3, <2>5
  <2>7. QED
    BY <2>2, <2>5, <2>6
<1>6. DEFINE Eq(g) == g = [k \in 0..n |-> IF k = 0 THEN es ELSE Step(k, g[k - 1])]
<1>7. Eq(f)
  <2> HIDE DEF S, n, Step, step
  <2>1. f = [k \in 0..n |-> f[k]]
    OBVIOUS
  <2>2. f[0] = es /\ \A k \in 1..n : f[k] = Step(k, f[k - 1])
    BY <1>4, <1>5
  <2>3. \A k \in 0..n : f[k] = IF k = 0 THEN es ELSE Step(k, f[k - 1])
    BY <1>1, <2>2
  <2>4. QED
    BY <2>1, <2>3
<1>8. Q = CHOOSE g : Eq(g)
  BY Zenon DEF Passes
<1>9. Eq(Q)
  <2> HIDE DEF Eq
  <2>1. QED
    BY <1>7, <1>8
<1>10. /\ Q[0] = es
       /\ \A k \in 1..n : Q[k] = Step(k, Q[k - 1])
  <2> HIDE DEF S, Step, step
  <2>1. \A k \in 0..n : Q[k] = IF k = 0 THEN es ELSE Step(k, Q[k - 1])
    BY <1>9
  <2>2. \A k \in 1..n : k \in 0..n /\ k # 0
    BY <1>1
  <2>3. 0 \in 0..n
    BY <1>1
  <2>4. QED
    BY <2>1, <2>2, <2>3
<1>11. \A k \in 0..n : Q[k] \in S
  <2>1. Q[0] \in S
    BY <1>10
  <2>2. \A k \in 1..n : Q[k - 1] \in S => Q[k] \in S
    BY <1>2, <1>10
  <2> HIDE DEF S, n, Step, step, Eq
  <2>3. QED
    BY <1>1, <2>1, <2>2, RecursionIn
<1>12. QED
  BY <1>10, <1>11

(* The same state carried along, the same hits: the condition does the same. *)
LEMMA EvaluateSame ==
    ASSUME NEW D, NEW es \in EvalState(D), NEW fs \in EvalState(D), NEW i \in D,
           NEW c \in Condition, NEW raw, SameCarry(es, fs), es.hits[i] = fs.hits[i]
    PROVE  /\ Good(es, c, i, raw) = Good(fs, c, i, raw)
           /\ SameCarry(Evaluate(es, c, i, raw), Evaluate(fs, c, i, raw))
           /\ Evaluate(es, c, i, raw).hits[i] = Evaluate(fs, c, i, raw).hits[i]
<1>1. Counted(es, c, i, raw) = Counted(fs, c, i, raw) /\ Holds(es, i, raw) = Holds(fs, i, raw)
  BY DEF Counted, Holds, SameCarry
<1>2. Met(es, c, i, raw) = Met(fs, c, i, raw)
  BY <1>1 DEF Met, SameCarry
<1>3. Total(es, Counted(es, c, i, raw)) = Total(fs, Counted(fs, c, i, raw))
  BY <1>1 DEF Total, SameCarry
<1>4. Valid(es, c, i, raw) = Valid(fs, c, i, raw)
  BY <1>1, <1>2, <1>3 DEF Valid, UsesAddHits, SameCarry
<1>5. Good(es, c, i, raw) = Good(fs, c, i, raw)
  BY <1>3, <1>4 DEF Good
<1>6. Kept(es, c, i, raw) = Kept(fs, c, i, raw)
      /\ AddHitsAfter(es, c, i, raw) = AddHitsAfter(fs, c, i, raw)
  BY <1>1, <1>5 DEF Kept, AddHitsAfter, SameCarry
<1>7. PICK e : e = Evaluate(es, c, i, raw)
  OBVIOUS
<1>8. PICK f : f = Evaluate(fs, c, i, raw)
  OBVIOUS
<1>9. Does(D, es, e, c, i, raw) /\ Does(D, fs, f, c, i, raw)
  BY <1>7, <1>8, EvaluateDoes
<1>10. SameCarry(e, f)
  BY <1>2, <1>6, <1>9 DEF Does, Carried, SameCarry
<1>11. e.hits[i] = f.hits[i]
  BY <1>6, <1>9 DEF Does, Carried, EvalState
<1>12. QED
  BY <1>5, <1>7, <1>8, <1>10, <1>11

(* An array holds whole chains: what comes before an end goes with it. *)
WholeChains(conds, array) ==
    /\ array \subseteq {i \in DOMAIN conds : conds[i].type \notin Indirect}
    /\ \A i, k \in DOMAIN conds :
          ChainEnd(conds, i) = ChainEnd(conds, k) /\ i \in array /\ conds[k].type \notin Indirect
             => k \in array

(* Every chain of AddHits and SubHits ends in a condition that has a target. *)
Tallied(conds) ==
    \A i \in DOMAIN conds :
        conds[i].type \in {"AddHits", "SubHits"} =>
            \/ ChainEnd(conds, i) = Len(conds) + 1
            \/ conds[ChainEnd(conds, i)].target # 0

(* The pass is in the middle of a chain after k conditions. *)
Mid(conds, array, k) ==
    \E i \in array : i <= k /\ ChainEnd(conds, i) = ChainEnd(conds, k + 1)

(* One step of a pass. *)
LEMMA StepDoes ==
    ASSUME NEW conds \in Seq(Condition), NEW array, NEW raw, NEW es, NEW Q,
           RunsOver(Q, es, conds, array, raw), NEW k \in 1..Len(conds), k \in array
    PROVE  /\ Q[k - 1] \in EvalState(DOMAIN conds)
           /\ Q[k] = Evaluate(Q[k - 1], conds[k], k, raw)
           /\ Does(DOMAIN conds, Q[k - 1], Q[k], conds[k], k, raw)
           /\ conds[k] \in Condition /\ k \in DOMAIN conds /\ k - 1 \in 0..Len(conds)
<1>1. conds[k] \in Condition /\ k \in DOMAIN conds /\ k - 1 \in 0..Len(conds)
  OBVIOUS
<1>2. Q[k - 1] \in EvalState(DOMAIN conds) /\ Q[k] = Evaluate(Q[k - 1], conds[k], k, raw)
  BY <1>1 DEF RunsOver
<1>3. QED
  BY <1>1, <1>2, EvaluateDoes

(* Between two chains the pass carries nothing over. *)
CleanAt(Q, conds, array, k) ==
    /\ ~Mid(conds, array, k) => Clean(Q[k])
    /\ ChainEnd(conds, k + 1) # Len(conds) + 1 /\ conds[ChainEnd(conds, k + 1)].target = 0
          => Q[k].addHits = 0

LEMMA CleanBetween ==
    ASSUME NEW conds \in Seq(Condition), NEW array, WholeChains(conds, array), Tallied(conds),
           NEW raw, NEW es, Clean(es), NEW Q, RunsOver(Q, es, conds, array, raw)
    PROVE  \A k \in 0..Len(conds) : CleanAt(Q, conds, array, k)
<1> DEFINE n == Len(conds)
           P == {k \in 0..n : CleanAt(Q, conds, array, k)}
<1>0. n \in Nat /\ DOMAIN conds = 1..n
  OBVIOUS
<1>1. 0 \in P
  BY DEF RunsOver, CleanAt, Clean
<1>2. ASSUME NEW k \in 1..n, k - 1 \in P
      PROVE  k \in P
  <2>1. CleanAt(Q, conds, array, k - 1)
    BY <1>2
  <2>2. k \in 1..(n + 1) /\ (k - 1) + 1 = k /\ k + 1 \in 1..(n + 1) /\ k \in 1..n
        /\ k + 1 \in k..(n + 1) /\ k \in 0..n
    BY <1>0
  <2>3. /\ ~Mid(conds, array, k - 1) => Clean(Q[k - 1])
        /\ ChainEnd(conds, k) # n + 1 /\ conds[ChainEnd(conds, k)].target = 0
              => Q[k - 1].addHits = 0
    BY <2>1, <2>2 DEF CleanAt
  <2>4. /\ conds[k].type \in Ending <=> ChainEnd(conds, k) = k
        /\ conds[k].type \notin Ending => ChainEnd(conds, k + 1) = ChainEnd(conds, k)
    BY ChainEndAt
  <2>5. CASE k \notin array
    <3>1. Q[k] = Q[k - 1]
      BY <2>5 DEF RunsOver
    <3>2. CASE conds[k].type \in Ending
      <4>1. ~Mid(conds, array, k - 1)
        <5> SUFFICES ASSUME NEW i \in array, ChainEnd(conds, i) = ChainEnd(conds, k)
                     PROVE  FALSE
          BY <2>2 DEF Mid
        <5>1. conds[k].type \notin Indirect /\ k \in DOMAIN conds /\ i \in DOMAIN conds
          BY <1>0, <2>2, <3>2, FlagsApart DEF WholeChains
        <5>2. QED
          BY <2>5, <5>1 DEF WholeChains
      <4>2. Clean(Q[k])
        BY <2>3, <3>1, <4>1
      <4>3. QED
        BY <2>2, <4>2 DEF CleanAt, Clean
    <3>3. CASE conds[k].type \notin Ending
      <4>1. ~Mid(conds, array, k) => ~Mid(conds, array, k - 1)
        <5>1. \A i \in array : i <= k - 1 => i <= k
          BY <1>0, <2>2 DEF WholeChains
        <5>2. QED
          BY <2>2, <2>4, <3>3, <5>1 DEF Mid
      <4>2. QED
        BY <2>2, <2>3, <2>4, <3>1, <3>3, <4>1 DEF CleanAt
    <3>4. QED
      BY <3>2, <3>3
  <2>6. CASE k \in array
    <3>1. /\ Q[k - 1] \in EvalState(DOMAIN conds) /\ conds[k] \in Condition
          /\ Carried(Q[k - 1], Q[k], conds[k], k, raw)
      BY <2>6, StepDoes DEF Does
    <3>2. CASE conds[k].type \in Ending
      <4>1. ChainEnd(conds, k) = k /\ k # n + 1
        BY <1>0, <2>4, <3>2
      <4>2. Q[k].addHits = 0
        <5>1. conds[k].target = 0 => Q[k - 1].addHits = 0
          BY <2>3, <4>1
        <5>2. Q[k].addHits = IF conds[k].target # 0 THEN 0 ELSE Q[k - 1].addHits
          BY <3>1, <3>2 DEF Carried, AddHitsAfter, Ending
        <5>3. QED
          BY <5>1, <5>2
      <4>3. Q[k].andNext /\ ~Q[k].orNext /\ ~Q[k].resetNext
        BY <3>1, <3>2 DEF Carried, Ending, Indirect
      <4>4. Clean(Q[k])
        BY <4>2, <4>3 DEF Clean
      <4>5. QED
        BY <2>2, <4>2, <4>4 DEF CleanAt
    <3>3. CASE conds[k].type \notin Ending
      <4>1. Mid(conds, array, k)
        BY <2>2, <2>4, <2>6, <3>3 DEF Mid
      <4>2. ASSUME ChainEnd(conds, k + 1) # n + 1, conds[ChainEnd(conds, k + 1)].target = 0
            PROVE  Q[k].addHits = 0
        <5>1. ChainEnd(conds, k) # n + 1 /\ conds[ChainEnd(conds, k)].target = 0
          BY <2>4, <3>3, <4>2
        <5>2. Q[k - 1].addHits = 0
          BY <2>3, <5>1
        <5>3. conds[k].type \notin {"AddHits", "SubHits"}
          BY <1>0, <5>1 DEF Tallied
        <5>4. QED
          BY <3>1, <3>3, <5>2, <5>3 DEF Carried, AddHitsAfter
      <4>3. QED
        BY <2>2, <4>1, <4>2 DEF CleanAt
    <3>4. QED
      BY <3>2, <3>3
  <2>7. QED
    BY <2>5, <2>6
<1> HIDE DEF P
<1>3. \A k \in 0..n : k \in P
  BY <1>0, <1>1, <1>2, UpTo
<1>4. QED
  BY <1>3 DEF P

(* The verdict of a pass: what every condition of the array has to say. *)
GoodAt(Q, conds, raw, i) == Good(Q[i - 1], conds[i], i, raw)

VerdictAt(Q, es, conds, array, raw, k) ==
    /\ Q[k].isTrue = (es.isTrue /\ \A i \in array : i <= k => GoodAt(Q, conds, raw, i))
    /\ Q[k].isPaused =
          (es.isPaused \/ \E i \in array : i <= k /\ conds[i].type = "PauseIf"
                                           /\ ~GoodAt(Q, conds, raw, i))
    /\ Q[k].wasReset =
          (es.wasReset \/ \E i \in array : i <= k /\ conds[i].type = "ResetIf"
                                           /\ ~GoodAt(Q, conds, raw, i))
    /\ Q[k].stop =
          (es.stop \/ \E i \in array : i <= k /\ conds[i].type \in {"PauseIf", "ResetIf"}
                                       /\ ~GoodAt(Q, conds, raw, i))

LEMMA GoodBoolean ==
    ASSUME NEW D, NEW es \in EvalState(D), NEW i \in D, NEW c \in Condition, NEW raw
    PROVE  Good(es, c, i, raw) \in BOOLEAN
<1>1. Valid(es, c, i, raw) \in BOOLEAN /\ Total(es, Counted(es, c, i, raw)) \in Nat
  BY CountedType
<1>2. c.target \in Nat
  BY FlagsApart
<1>3. CASE c.type = "Measured" /\ c.target # 0
  BY <1>1, <1>2, <1>3 DEF Good, Ending
<1>4. CASE ~(c.type = "Measured" /\ c.target # 0)
  BY <1>1, <1>4 DEF Good
<1>5. QED
  BY <1>3, <1>4

LEMMA Verdict ==
    ASSUME NEW conds \in Seq(Condition), NEW array \in SUBSET (DOMAIN conds), NEW raw,
           NEW es \in EvalState(DOMAIN conds), NEW Q, RunsOver(Q, es, conds, array, raw)
    PROVE  \A k \in 0..Len(conds) : VerdictAt(Q, es, conds, array, raw, k)
<1> DEFINE n == Len(conds)
           P == {k \in 0..n : VerdictAt(Q, es, conds, array, raw, k)}
<1>0. n \in Nat /\ DOMAIN conds = 1..n /\ array \subseteq 1..n
  OBVIOUS
<1>1. 0 \in P
  <2>1. \A i \in array : ~(i <= 0)
    BY <1>0
  <2>2. Q[0] = es /\ 0 \in 0..n
    BY <1>0 DEF RunsOver
  <2>3. es.isTrue \in BOOLEAN /\ es.isPaused \in BOOLEAN /\ es.wasReset \in BOOLEAN
        /\ es.stop \in BOOLEAN
    BY DEF EvalState
  <2>4. QED
    BY <2>1, <2>2, <2>3 DEF VerdictAt
<1>2. ASSUME NEW k \in 1..n, k - 1 \in P
      PROVE  k \in P
  <2>1. VerdictAt(Q, es, conds, array, raw, k - 1) /\ k \in 0..n
    BY <1>2
  <2>2. \A i \in array : i <= k <=> (i <= k - 1 \/ i = k)
    BY <1>0
  <2>3. CASE k \notin array
    <3>1. Q[k] = Q[k - 1]
      BY <2>3 DEF RunsOver
    <3>2. \A i \in array : i <= k <=> i <= k - 1
      BY <2>2, <2>3
    <3>3. VerdictAt(Q, es, conds, array, raw, k)
      BY <2>1, <3>1, <3>2 DEF VerdictAt
    <3>4. QED
      BY <2>1, <3>3
  <2>4. CASE k \in array
    <3>1. /\ Q[k - 1] \in EvalState(DOMAIN conds) /\ conds[k] \in Condition
          /\ Judged(Q[k - 1], Q[k], conds[k], GoodAt(Q, conds, raw, k))
      BY <2>4, StepDoes DEF Does, GoodAt
    <3>2. Q[k].isTrue = (es.isTrue /\ \A i \in array : i <= k => GoodAt(Q, conds, raw, i))
      BY <2>1, <2>2, <2>4, <3>1, Zenon DEF VerdictAt, Judged
    <3>3. Q[k].isPaused =
              (es.isPaused \/ \E i \in array : i <= k /\ conds[i].type = "PauseIf"
                                               /\ ~GoodAt(Q, conds, raw, i))
      BY <2>1, <2>2, <2>4, <3>1, Zenon DEF VerdictAt, Judged
    <3>4. Q[k].wasReset =
              (es.wasReset \/ \E i \in array : i <= k /\ conds[i].type = "ResetIf"
                                               /\ ~GoodAt(Q, conds, raw, i))
      BY <2>1, <2>2, <2>4, <3>1, Zenon DEF VerdictAt, Judged
    <3>5. Q[k].stop =
              (es.stop \/ \E i \in array : i <= k /\ conds[i].type \in {"PauseIf", "ResetIf"}
                                           /\ ~GoodAt(Q, conds, raw, i))
      BY <2>1, <2>2, <2>4, <3>1, Zenon DEF VerdictAt, Judged
    <3>6. QED
      BY <2>1, <3>2, <3>3, <3>4, <3>5 DEF VerdictAt
  <2>5. QED
    BY <2>3, <2>4
<1> HIDE DEF P
<1>3. \A k \in 0..n : k \in P
  BY <1>0, <1>1, <1>2, UpTo
<1>4. QED
  BY <1>3 DEF P

(* A condition's hits change when it is evaluated and at no other time. *)
HitsAt(Q, es, conds, array, k) ==
    \A i \in DOMAIN conds :
        Q[k].hits[i] = IF i \in array /\ i <= k THEN Q[i].hits[i] ELSE es.hits[i]

LEMMA HitsOnce ==
    ASSUME NEW conds \in Seq(Condition), NEW array \in SUBSET (DOMAIN conds), NEW raw,
           NEW es \in EvalState(DOMAIN conds), NEW Q, RunsOver(Q, es, conds, array, raw)
    PROVE  \A k \in 0..Len(conds) : HitsAt(Q, es, conds, array, k)
<1> DEFINE n == Len(conds)
           P == {k \in 0..n : HitsAt(Q, es, conds, array, k)}
<1>0. n \in Nat /\ DOMAIN conds = 1..n /\ array \subseteq 1..n
  OBVIOUS
<1>1. 0 \in P
  BY <1>0 DEF RunsOver, HitsAt
<1>2. ASSUME NEW k \in 1..n, k - 1 \in P
      PROVE  k \in P
  <2>1. HitsAt(Q, es, conds, array, k - 1) /\ k \in 0..n
    BY <1>2
  <2>2. \A i \in array : i <= k <=> (i <= k - 1 \/ i = k)
    BY <1>0
  <2>3. \A i \in DOMAIN conds : i # k => Q[k].hits[i] = Q[k - 1].hits[i]
    <3>1. CASE k \notin array
      BY <3>1 DEF RunsOver
    <3>2. CASE k \in array
      <4>1. /\ Q[k - 1] \in EvalState(DOMAIN conds)
            /\ Carried(Q[k - 1], Q[k], conds[k], k, raw)
        BY <3>2, StepDoes DEF Does
      <4>2. QED
        BY <4>1 DEF Carried, EvalState
    <3>3. QED
      BY <3>1, <3>2
  <2>4. k \notin array => Q[k].hits[k] = es.hits[k]
    BY <1>0, <2>1 DEF RunsOver, HitsAt
  <2>5. ASSUME NEW i \in DOMAIN conds
        PROVE  Q[k].hits[i] = IF i \in array /\ i <= k THEN Q[i].hits[i] ELSE es.hits[i]
    <3>1. CASE i = k
      BY <1>0, <2>4, <3>1
    <3>2. CASE i # k
      BY <2>1, <2>2, <2>3, <3>2 DEF HitsAt
    <3>3. QED
      BY <3>1, <3>2
  <2>6. QED
    BY <2>1, <2>5 DEF HitsAt
<1> HIDE DEF P
<1>3. \A k \in 0..n : k \in P
  BY <1>0, <1>1, <1>2, UpTo
<1>4. QED
  BY <1>3 DEF P

(* A chain by itself is an array of whole chains. *)
LEMMA ChainIsWhole ==
    ASSUME NEW conds \in Seq(Condition), NEW j
    PROVE  WholeChains(conds, Chain(conds, j)) /\ Chain(conds, j) \in SUBSET (DOMAIN conds)
BY DEF WholeChains, Chain

InStep(Q, O, conds, j, raw) ==
    \A i \in Chain(conds, j) :
        /\ Q[Len(conds)].hits[i] = O[Len(conds)].hits[i]
        /\ GoodAt(Q, conds, raw, i) = GoodAt(O, conds, raw, i)

(* A chain in a pass over an array, and the same chain on its own. *)
LEMMA Lockstep ==
    ASSUME NEW conds \in Seq(Condition), NEW array, WholeChains(conds, array), Tallied(conds),
           NEW raw, NEW j, Chain(conds, j) \subseteq array,
           NEW es, Clean(es), NEW Q, RunsOver(Q, es, conds, array, raw),
           NEW fs, Clean(fs), NEW O, RunsOver(O, fs, conds, Chain(conds, j), raw),
           \A i \in Chain(conds, j) : es.hits[i] = fs.hits[i]
    PROVE  InStep(Q, O, conds, j, raw)
<1> DEFINE n == Len(conds)
           C == Chain(conds, j)
           At(k) == /\ \A i \in C : Q[k].hits[i] = O[k].hits[i]
                    /\ ChainEnd(conds, k + 1) = j => SameCarry(Q[k], O[k])
           P == {k \in 0..n : At(k)}
<1>0. n \in Nat /\ DOMAIN conds = 1..n /\ C \subseteq 1..n /\ array \subseteq 1..n
  BY DEF Chain, WholeChains
<1>3. \A k \in 0..n : /\ ~Mid(conds, array, k) => Clean(Q[k])
                      /\ ~Mid(conds, C, k) => Clean(O[k])
  BY CleanBetween, ChainIsWhole DEF CleanAt
<1>4. ASSUME NEW i \in C
      PROVE  /\ i \in 1..n /\ conds[i].type \notin Indirect /\ ChainEnd(conds, i) = j
  BY <1>0 DEF Chain
<1>1. 0 \in P
  <2>1. Q[0] = es /\ O[0] = fs /\ 0 \in 0..n
    BY <1>0 DEF RunsOver
  <2>2. SameCarry(es, fs)
    <3>1. /\ es \in EvalState(DOMAIN conds) /\ fs \in EvalState(DOMAIN conds)
      BY <1>0, <2>1 DEF RunsOver
    <3>2. QED
      BY <3>1 DEF Clean, SameCarry, EvalState
  <2>3. QED
    BY <2>1, <2>2
<1>2. ASSUME NEW k \in 1..n, k - 1 \in P
      PROVE  k \in P
  <2>1. k \in 0..n /\ k - 1 \in 0..n /\ (k - 1) + 1 = k /\ k \in DOMAIN conds
        /\ k \in 1..(n + 1) /\ k + 1 \in k..(n + 1)
    BY <1>0
  <2>2. /\ \A i \in C : Q[k - 1].hits[i] = O[k - 1].hits[i]
        /\ ChainEnd(conds, k) = j => SameCarry(Q[k - 1], O[k - 1])
    BY <1>2, <2>1
  <2>3. /\ conds[k].type \in Ending <=> ChainEnd(conds, k) = k
        /\ conds[k].type \notin Ending => ChainEnd(conds, k + 1) = ChainEnd(conds, k)
    BY ChainEndAt
  <2>4. \A i \in C : i # k => /\ Q[k].hits[i] = Q[k - 1].hits[i]
                              /\ O[k].hits[i] = O[k - 1].hits[i]
    <3> SUFFICES ASSUME NEW i \in C, i # k
                 PROVE  /\ Q[k].hits[i] = Q[k - 1].hits[i]
                        /\ O[k].hits[i] = O[k - 1].hits[i]
      OBVIOUS
    <3>1. Q[k].hits[i] = Q[k - 1].hits[i]
      <4>1. CASE k \notin array
        BY <4>1 DEF RunsOver
      <4>2. CASE k \in array
        <5>1. Q[k - 1] \in EvalState(DOMAIN conds) /\ Carried(Q[k - 1], Q[k], conds[k], k, raw)
          BY <4>2, StepDoes DEF Does
        <5>2. QED
          BY <1>0, <5>1 DEF Carried, EvalState
      <4>3. QED
        BY <4>1, <4>2
    <3>2. O[k].hits[i] = O[k - 1].hits[i]
      <4>1. CASE k \notin C
        BY <4>1 DEF RunsOver
      <4>2. CASE k \in C
        <5>1. O[k - 1] \in EvalState(DOMAIN conds) /\ Carried(O[k - 1], O[k], conds[k], k, raw)
          BY <4>2, StepDoes DEF Does
        <5>2. QED
          BY <1>0, <5>1 DEF Carried, EvalState
      <4>3. QED
        BY <4>1, <4>2
    <3>3. QED
      BY <3>1, <3>2
  <2>5. ASSUME k \in C
        PROVE  /\ Q[k].hits[k] = O[k].hits[k] /\ SameCarry(Q[k], O[k])
    <3>1. k \in array /\ ChainEnd(conds, k) = j
      BY <1>4, <2>5
    <3>2. /\ Q[k - 1] \in EvalState(DOMAIN conds) /\ O[k - 1] \in EvalState(DOMAIN conds)
          /\ Q[k] = Evaluate(Q[k - 1], conds[k], k, raw)
          /\ O[k] = Evaluate(O[k - 1], conds[k], k, raw)
          /\ conds[k] \in Condition /\ k \in DOMAIN conds
      <4>1. /\ Q[k - 1] \in EvalState(DOMAIN conds)
            /\ Q[k] = Evaluate(Q[k - 1], conds[k], k, raw)
            /\ conds[k] \in Condition /\ k \in DOMAIN conds
        BY <3>1, StepDoes
      <4>2. /\ O[k - 1] \in EvalState(DOMAIN conds)
            /\ O[k] = Evaluate(O[k - 1], conds[k], k, raw)
        BY <2>5, StepDoes
      <4>3. QED
        BY <4>1, <4>2
    <3>3. SameCarry(Q[k - 1], O[k - 1]) /\ Q[k - 1].hits[k] = O[k - 1].hits[k]
      BY <2>2, <2>5, <3>1
    <3>4. QED
      BY <3>2, <3>3, EvaluateSame
  <2>6. ASSUME ChainEnd(conds, k + 1) = j, k \notin C
        PROVE  SameCarry(Q[k], O[k])
    <3>1. CASE conds[k].type \in Ending
      <4>1. \A i \in 1..n : i <= k => ChainEnd(conds, i) # ChainEnd(conds, k + 1)
        <5> SUFFICES ASSUME NEW i \in 1..n, i <= k
                     PROVE  ChainEnd(conds, i) # ChainEnd(conds, k + 1)
          OBVIOUS
        <5>1. i \in 1..(n + 1) /\ k \in i..(n + 1) /\ k + 1 \in 1..(n + 1)
          BY <1>0
        <5>2. ChainEnd(conds, i) <= k
          BY <2>3, <3>1, <5>1, ChainEndGrows
        <5>3. ChainEnd(conds, k + 1) \in (k + 1)..(n + 1) /\ ChainEnd(conds, i) \in i..(n + 1)
          BY <5>1, ChainEndIs
        <5>4. QED
          BY <5>1, <5>2, <5>3
      <4>2. ~Mid(conds, array, k) /\ ~Mid(conds, C, k)
        BY <1>0, <4>1 DEF Mid
      <4>3. Clean(Q[k]) /\ Clean(O[k])
        BY <1>3, <2>1, <4>2
      <4>4. Q[k] \in EvalState(DOMAIN conds) /\ O[k] \in EvalState(DOMAIN conds)
        BY <2>1 DEF RunsOver
      <4>5. QED
        BY <4>3, <4>4 DEF Clean, SameCarry, EvalState
    <3>2. CASE conds[k].type \notin Ending
      <4>1. SameCarry(Q[k - 1], O[k - 1]) /\ ChainEnd(conds, k) = j
        BY <2>2, <2>3, <2>6, <3>2
      <4>2. O[k] = O[k - 1]
        BY <2>6 DEF RunsOver
      <4>3. conds[k].type \in Indirect
        BY <2>1, <2>6, <4>1 DEF Chain
      <4>4. k \notin array
        BY <4>3 DEF WholeChains
      <4>5. Q[k] = Q[k - 1]
        BY <4>4 DEF RunsOver
      <4>6. QED
        BY <4>1, <4>2, <4>5
    <3>3. QED
      BY <3>1, <3>2
  <2>7. At(k)
    <3>1. \A i \in C : Q[k].hits[i] = O[k].hits[i]
      BY <2>2, <2>4, <2>5
    <3>2. QED
      BY <2>5, <2>6, <3>1
  <2> HIDE DEF At
  <2>8. QED
    BY <2>1, <2>7
<1>5. \A k \in 0..n : k \in P
  <2> HIDE DEF P
  <2>1. QED
    BY <1>0, <1>1, <1>2, UpTo
<1>6. ASSUME NEW i \in C
      PROVE  GoodAt(Q, conds, raw, i) = GoodAt(O, conds, raw, i)
  <2>1. i - 1 \in 0..n /\ (i - 1) + 1 = i /\ i \in 1..n /\ i \in array
        /\ ChainEnd(conds, i) = j
    BY <1>0, <1>4
  <2>2. At(i - 1)
    BY <1>5, <2>1
  <2>3. SameCarry(Q[i - 1], O[i - 1]) /\ Q[i - 1].hits[i] = O[i - 1].hits[i]
    BY <2>1, <2>2
  <2>4. Q[i - 1] \in EvalState(DOMAIN conds) /\ O[i - 1] \in EvalState(DOMAIN conds)
    BY <2>1 DEF RunsOver
  <2>5. i \in DOMAIN conds /\ conds[i] \in Condition
    BY <1>0, <2>1
  <2>6. QED
    BY <2>3, <2>4, <2>5, EvaluateSame DEF GoodAt
<1>7. At(n)
  BY <1>0, <1>5
<1>8. QED
  BY <1>6, <1>7 DEF InStep
-----------------------------------------------------------------------------
(* A pass that nothing cuts short. *)
LEMMA LongPass ==
    ASSUME NEW conds \in Seq(Condition), NEW array, NEW raw, NEW es \in EvalState(DOMAIN conds),
           NEW Q, Q = Passes(es, conds, array, raw, FALSE)
    PROVE  RunsOver(Q, es, conds, array, raw)
<1>1. PICK short \in BOOLEAN : short = FALSE
  OBVIOUS
<1>2. Q = Passes(es, conds, array, raw, short)
  BY <1>1
<1>3. /\ Q[0] = es
      /\ \A k \in 0..Len(conds) : Q[k] \in EvalState(DOMAIN conds)
      /\ \A k \in 1..Len(conds) :
            Q[k] = IF k \notin array \/ (short /\ Q[k - 1].stop) THEN Q[k - 1]
                   ELSE Evaluate(Q[k - 1], conds[k], k, raw)
  BY ONLY <1>2, PassesIs
<1>4. QED
  BY <1>1, <1>3 DEF RunsOver

(* The pass that stops at the first condition that pauses: the pass that goes on, up to there. *)
StoppedAt(S, Q, k) ==
    /\ ~Q[k].stop => S[k] = Q[k]
    /\ Q[k].stop => \E p \in 1..k : S[k] = Q[p] /\ Q[p].stop /\ ~Q[p - 1].stop

LEMMA ShortPass ==
    ASSUME NEW conds \in Seq(Condition), NEW array \in SUBSET (DOMAIN conds), NEW raw,
           NEW es \in EvalState(DOMAIN conds), ~es.stop,
           NEW Q, Q = Passes(es, conds, array, raw, FALSE),
           NEW S, S = Passes(es, conds, array, raw, TRUE)
    PROVE  StoppedAt(S, Q, Len(conds))
<1> DEFINE n == Len(conds)
           P == {k \in 0..n : StoppedAt(S, Q, k)}
<1>0. n \in Nat /\ DOMAIN conds = 1..n /\ n \in 0..n
  OBVIOUS
<1>3. RunsOver(Q, es, conds, array, raw)
  BY LongPass
<1>4. /\ S[0] = es
      /\ \A k \in 1..n : S[k] = IF k \notin array \/ S[k - 1].stop THEN S[k - 1]
                                ELSE Evaluate(S[k - 1], conds[k], k, raw)
  <2>1. PICK short \in BOOLEAN : short = TRUE
    OBVIOUS
  <2>2. S = Passes(es, conds, array, raw, short)
    BY <2>1
  <2>3. /\ S[0] = es
        /\ \A k \in 1..n : S[k] = IF k \notin array \/ (short /\ S[k - 1].stop) THEN S[k - 1]
                                  ELSE Evaluate(S[k - 1], conds[k], k, raw)
    BY ONLY <2>2, PassesIs
  <2>4. QED
    BY <2>1, <2>3
<1>1. 0 \in P
  <2>1. S[0] = Q[0] /\ ~Q[0].stop
    BY <1>3, <1>4 DEF RunsOver
  <2>2. StoppedAt(S, Q, 0)
    BY <2>1 DEF StoppedAt
  <2>3. 0 \in 0..n
    BY <1>0
  <2>4. QED
    BY <2>2, <2>3
<1>2. ASSUME NEW k \in 1..n, k - 1 \in P
      PROVE  k \in P
  <2>1. k \in 0..n /\ k - 1 \in 0..n /\ k \in 1..k /\ 1..(k - 1) \subseteq 1..k
        /\ StoppedAt(S, Q, k - 1)
    <3>1. k \in 0..n /\ k - 1 \in 0..n /\ k \in 1..k /\ 1..(k - 1) \subseteq 1..k
      BY <1>0
    <3>2. QED
      BY <1>2, <3>1
  <2>2. S[k] = IF k \notin array \/ S[k - 1].stop THEN S[k - 1]
               ELSE Evaluate(S[k - 1], conds[k], k, raw)
    BY <1>4
  <2>3. Q[k] = IF k \notin array THEN Q[k - 1] ELSE Evaluate(Q[k - 1], conds[k], k, raw)
    BY <1>3 DEF RunsOver
  <2>4. CASE Q[k - 1].stop
    <3>1. PICK p \in 1..(k - 1) : S[k - 1] = Q[p] /\ Q[p].stop /\ ~Q[p - 1].stop
      BY <2>1, <2>4 DEF StoppedAt
    <3>2. S[k] = S[k - 1]
      BY <2>2, <3>1
    <3>3. Q[k].stop
      <4>1. VerdictAt(Q, es, conds, array, raw, k) /\ VerdictAt(Q, es, conds, array, raw, k - 1)
        BY <1>3, <2>1, Verdict
      <4>2. \A i \in array : i <= k - 1 => i <= k
        BY <1>0
      <4>3. QED
        BY <2>4, <4>1, <4>2 DEF VerdictAt
    <3>4. QED
      BY <2>1, <3>1, <3>2, <3>3 DEF StoppedAt
  <2>5. CASE ~Q[k - 1].stop
    <3>1. S[k - 1] = Q[k - 1]
      BY <2>1, <2>5 DEF StoppedAt
    <3>2. S[k] = Q[k]
      BY <2>2, <2>3, <2>5, <3>1
    <3>3. QED
      BY <2>1, <2>5, <3>2 DEF StoppedAt
  <2>6. QED
    BY <2>4, <2>5
<1> HIDE DEF P
<1>5. \A k \in 0..n : k \in P
  BY <1>0, <1>1, <1>2, UpTo
<1>6. QED
  BY <1>0, <1>5 DEF P

Classes == {"pause", "reset", "hittarget", "measured", "other"}

(* The class that a chain is processed with, by where it ends. *)
EndClass(conds, j) == IF j = Len(conds) + 1 THEN "other" ELSE ClassOf(conds[j])

(* The classes of the conditions that can end a chain. *)
LEMMA ClassOfIs ==
    ASSUME NEW c \in Condition
    PROVE  /\ c.type \in Ending => ClassOf(c) \in Classes
           /\ c.type \in Indirect => ClassOf(c) = "indirect"
           /\ ClassOf(c) = "pause" <=> c.type = "PauseIf"
           /\ ClassOf(c) = "reset" <=> c.type = "ResetIf"
<1>1. c.type \in Ending \cup Combining \cup Indirect
  BY FlagsApart
<1>2. CASE c.type = "PauseIf"
  BY <1>2 DEF ClassOf, Ending, Indirect, Classes
<1>3. CASE c.type = "ResetIf"
  BY <1>3 DEF ClassOf, Ending, Indirect, Classes
<1>4. CASE c.type \in Indirect
  BY <1>4 DEF ClassOf, Ending, Indirect, Classes
<1>5. CASE c.type \in {"Measured", "MeasuredIf"}
  BY <1>5 DEF ClassOf, Ending, Indirect, Classes
<1>6. CASE c.type \in {"Standard", "Trigger"} \cup Combining
  <2>1. ClassOf(c) = IF c.target # 0 THEN "hittarget" ELSE "other"
    BY <1>6 DEF ClassOf, Indirect, Combining
  <2>2. c.type \notin Indirect /\ c.type # "PauseIf" /\ c.type # "ResetIf"
    BY <1>6 DEF Indirect, Combining
  <2>3. QED
    BY <2>1, <2>2 DEF Classes
<1>7. QED
  BY <1>1, <1>2, <1>3, <1>4, <1>5, <1>6 DEF Ending

(* An array holds the chains that end in its class, whole. *)
LEMMA ArrayIs ==
    ASSUME NEW conds \in Seq(Condition), NEW K \in Classes
    PROVE  /\ Array(conds, K) =
                 {i \in DOMAIN conds : /\ conds[i].type \notin Indirect
                                       /\ EndClass(conds, ChainEnd(conds, i)) = K}
           /\ WholeChains(conds, Array(conds, K))
           /\ Array(conds, K) \in SUBSET (DOMAIN conds)
<1>1. ASSUME NEW i \in DOMAIN conds
      PROVE  Class(conds, i) = K <=> /\ conds[i].type \notin Indirect
                                     /\ EndClass(conds, ChainEnd(conds, i)) = K
  <2>1. /\ Len(conds) \in Nat /\ i \in 1..Len(conds) /\ i \in 1..(Len(conds) + 1)
        /\ conds[i] \in Condition
    OBVIOUS
  <2>2. CASE conds[i].type \in Indirect
    <3>1. Class(conds, i) = "indirect"
      BY <2>1, <2>2, FlagsApart, ClassOfIs DEF Class
    <3>2. QED
      BY <2>2, <3>1 DEF Classes
  <2>3. CASE conds[i].type \in Ending
    <3>1. ChainEnd(conds, i) = i /\ i # Len(conds) + 1
      BY <2>1, <2>3, ChainEndAt
    <3>2. Class(conds, i) = ClassOf(conds[i]) /\ conds[i].type \notin Indirect
      BY <2>3, FlagsApart DEF Class
    <3>3. QED
      BY <3>1, <3>2 DEF EndClass
  <2>4. CASE conds[i].type \in Combining
    <3>1. conds[i].type \notin Indirect
      BY <2>4, FlagsApart
    <3>2. CASE Ends(conds, i) = {}
      <4>1. ChainEnd(conds, i) = Len(conds) + 1
        BY <2>1, <3>2, EndsIs
      <4>2. Class(conds, i) = "other"
        BY <2>4, <3>2 DEF Class
      <4>3. QED
        BY <3>1, <4>1, <4>2 DEF EndClass
    <3>3. CASE Ends(conds, i) # {}
      <4>1. ChainEnd(conds, i) # Len(conds) + 1
        BY <2>1, <3>3, EndsIs
      <4>2. Class(conds, i) = ClassOf(conds[ChainEnd(conds, i)])
        BY <2>4, <3>3 DEF Class
      <4>3. QED
        BY <3>1, <4>1, <4>2 DEF EndClass
    <3>4. QED
      BY <3>2, <3>3
  <2>5. QED
    BY <2>1, <2>2, <2>3, <2>4, FlagsApart
<1>2. Array(conds, K) =
         {i \in DOMAIN conds : /\ conds[i].type \notin Indirect
                               /\ EndClass(conds, ChainEnd(conds, i)) = K}
  BY <1>1 DEF Array
<1>3. QED
  BY <1>2 DEF WholeChains
-----------------------------------------------------------------------------
(* The states that a group and a chain begin with. *)
LEMMA ZeroedType == Zeroed \in EvalState(1..0)
<1>1. <<>> \in [1..0 -> Nat]
  <2>1. <<>> \in Seq(Nat) /\ Len(<<>>) = 0
    OBVIOUS
  <2>2. QED
    BY <2>1
<1>2. NoMeasure \in Int
  BY DEF NoMeasure
<1>3. QED
  BY <1>1, <1>2 DEF Zeroed, EvalState

LEMMA FreshIs ==
    ASSUME NEW E, NEW prev \in EvalState(E), NEW D, NEW h \in [D -> Nat], NEW f, f = Fresh(prev, h)
    PROVE  /\ f \in EvalState(D) /\ f.hits = h /\ f.wasReset = prev.wasReset
           /\ f.isTrue /\ ~f.isPaused /\ ~f.stop /\ Clean(f)
           /\ f.measured = NoMeasure /\ ~f.fromHits
<1>1. PICK z \in Int : z = 0
  OBVIOUS
<1>2. PICK m \in Int : m = NoMeasure
  BY DEF NoMeasure
<1>3. f = [prev EXCEPT !.hits = h, !.measured = m, !.addHits = z, !.isTrue = TRUE,
                 !.isPrimed = TRUE, !.isPaused = FALSE, !.canMeasure = TRUE, !.fromHits = FALSE,
                 !.andNext = TRUE, !.orNext = FALSE, !.resetNext = FALSE, !.stop = FALSE]
  BY <1>1, <1>2 DEF Fresh
<1>4. f \in EvalState(D)
  BY <1>3 DEF EvalState
<1>5. /\ f.hits = h /\ f.wasReset = prev.wasReset
      /\ f.isTrue = TRUE /\ f.isPaused = FALSE /\ f.stop = FALSE
      /\ f.addHits = z /\ f.andNext = TRUE /\ f.orNext = FALSE /\ f.resetNext = FALSE
      /\ f.measured = m /\ f.fromHits = FALSE
  BY <1>3 DEF EvalState
<1>6. QED
  BY <1>1, <1>2, <1>4, <1>5 DEF Clean

(* A chain on its own. *)
Alone(conds, j, raw, h) == Passes(Fresh(Zeroed, h), conds, Chain(conds, j), raw, FALSE)

AloneDoes(O, conds, j, raw, h) ==
    /\ RunsOver(O, Fresh(Zeroed, h), conds, Chain(conds, j), raw)
    /\ OneChain(conds, j, raw, h) = O[Len(conds)]
    /\ Fresh(Zeroed, h) \in EvalState(DOMAIN conds) /\ Clean(Fresh(Zeroed, h))
    /\ Fresh(Zeroed, h).hits = h
    /\ \A i \in DOMAIN conds \ Chain(conds, j) : O[Len(conds)].hits[i] = h[i]
    /\ j \in DOMAIN conds /\ conds[j].type \in Ending =>
          /\ O[Len(conds)].isTrue = GoodAt(O, conds, raw, j)
          /\ O[Len(conds)].isPaused = (conds[j].type = "PauseIf" /\ ~GoodAt(O, conds, raw, j))
          /\ O[Len(conds)].wasReset = (conds[j].type = "ResetIf" /\ ~GoodAt(O, conds, raw, j))

LEMMA OneChainIs ==
    ASSUME NEW conds \in Seq(Condition), NEW raw, NEW h \in [DOMAIN conds -> Nat], NEW j,
           NEW O, O = Alone(conds, j, raw, h)
    PROVE  AloneDoes(O, conds, j, raw, h)
<1> DEFINE n == Len(conds)
           C == Chain(conds, j)
<1>0. n \in Nat /\ DOMAIN conds = 1..n /\ n \in 0..n
  OBVIOUS
<1>1. PICK f : f = Fresh(Zeroed, h)
  OBVIOUS
<1>2. /\ f \in EvalState(DOMAIN conds) /\ f.hits = h /\ Clean(f)
      /\ f.isTrue /\ ~f.isPaused /\ f.wasReset = Zeroed.wasReset
  BY <1>1, ZeroedType, FreshIs
<1>3. ~f.wasReset
  BY <1>2 DEF Zeroed
<1>4. RunsOver(O, f, conds, C, raw)
  BY <1>1, <1>2, LongPass DEF Alone
<1>5. OneChain(conds, j, raw, h) = O[n]
  BY DEF OneChain, TestArray, Alone
<1>6. C \in SUBSET (DOMAIN conds)
  BY ChainIsWhole
<1>7. \A i \in DOMAIN conds \ C : O[n].hits[i] = h[i]
  <2>1. HitsAt(O, f, conds, C, n)
    BY <1>0, <1>2, <1>4, <1>6, HitsOnce
  <2>2. QED
    BY <1>2, <2>1 DEF HitsAt
<1>8. ASSUME j \in DOMAIN conds, conds[j].type \in Ending
      PROVE  /\ O[n].isTrue = GoodAt(O, conds, raw, j)
             /\ O[n].isPaused = (conds[j].type = "PauseIf" /\ ~GoodAt(O, conds, raw, j))
             /\ O[n].wasReset = (conds[j].type = "ResetIf" /\ ~GoodAt(O, conds, raw, j))
  <2>1. VerdictAt(O, f, conds, C, raw, n)
    BY <1>0, <1>2, <1>4, <1>6, Verdict
  <2>2. j \in C
    BY <1>0, <1>8, ChainEndAt, FlagsApart DEF Chain
  <2>3. \A i \in C : i <= n
    BY <1>0, <1>6
  <2>4. ASSUME NEW i \in C, i # j
        PROVE  GoodAt(O, conds, raw, i) /\ conds[i].type # "PauseIf" /\ conds[i].type # "ResetIf"
    <3>1. ChainEnd(conds, i) = j /\ i \in 1..n
      BY <1>0, <2>4 DEF Chain
    <3>2. conds[i].type \notin Ending
      BY <2>4, <3>1, ChainEndAt
    <3>3. QED
      BY <3>2 DEF GoodAt, Good, Ending
  <2>5. GoodAt(O, conds, raw, j) \in BOOLEAN
    <3>1. j - 1 \in 0..n /\ conds[j] \in Condition
      BY <1>0, <1>8
    <3>2. O[j - 1] \in EvalState(DOMAIN conds)
      BY <1>4, <3>1 DEF RunsOver
    <3>3. QED
      BY <1>8, <3>1, <3>2, GoodBoolean DEF GoodAt
  <2>6. O[n].isTrue = GoodAt(O, conds, raw, j)
    BY <1>2, <2>1, <2>2, <2>3, <2>4, <2>5 DEF VerdictAt
  <2>7. O[n].isPaused = (conds[j].type = "PauseIf" /\ ~GoodAt(O, conds, raw, j))
    BY <1>2, <2>1, <2>2, <2>3, <2>4, <2>5 DEF VerdictAt
  <2>8. O[n].wasReset = (conds[j].type = "ResetIf" /\ ~GoodAt(O, conds, raw, j))
    BY <1>3, <2>1, <2>2, <2>3, <2>4, <2>5 DEF VerdictAt
  <2>9. QED
    BY <2>6, <2>7, <2>8
<1>9. QED
  BY <1>1, <1>2, <1>4, <1>5, <1>7, <1>8 DEF AloneDoes

Says(conds, j, raw, h) == OneChain(conds, j, raw, h).isTrue

(* One class of a group is a pass over chains that are each evaluated as on its own. *)
PassDone(Q, es, conds, K, raw, h) ==
    /\ RunsOver(Q, es, conds, Array(conds, K), raw)
    /\ \A k \in Array(conds, K) :
          /\ k \in 1..Len(conds)
          /\ conds[k].type \in Ending => GoodAt(Q, conds, raw, k) = Says(conds, k, raw, h)
          /\ conds[k].type \notin Ending => GoodAt(Q, conds, raw, k)
          /\ Q[Len(conds)].hits[k] = OneChain(conds, ChainEnd(conds, k), raw, h).hits[k]
    /\ K # "other" => Clean(Q[Len(conds)])

LEMMA ClassPass ==
    ASSUME NEW conds \in Seq(Condition), Tallied(conds), NEW raw, NEW h \in [DOMAIN conds -> Nat],
           NEW K \in Classes, NEW es \in EvalState(DOMAIN conds), Clean(es),
           \A i \in Array(conds, K) : es.hits[i] = h[i],
           NEW Q, Q = Passes(es, conds, Array(conds, K), raw, FALSE)
    PROVE  PassDone(Q, es, conds, K, raw, h)
<1> DEFINE n == Len(conds)
           A == Array(conds, K)
<1>0. n \in Nat /\ DOMAIN conds = 1..n /\ n \in 0..n /\ n + 1 \in 1..(n + 1)
  OBVIOUS
<1>1. RunsOver(Q, es, conds, A, raw)
  BY LongPass
<1>2. /\ WholeChains(conds, A) /\ A \in SUBSET (DOMAIN conds)
      /\ A = {i \in DOMAIN conds : /\ conds[i].type \notin Indirect
                                   /\ EndClass(conds, ChainEnd(conds, i)) = K}
  BY ArrayIs
<1>3. ASSUME NEW k \in A
      PROVE  /\ k \in 1..n
             /\ conds[k].type \in Ending => GoodAt(Q, conds, raw, k) = Says(conds, k, raw, h)
             /\ conds[k].type \notin Ending => GoodAt(Q, conds, raw, k)
             /\ Q[n].hits[k] = OneChain(conds, ChainEnd(conds, k), raw, h).hits[k]
  <2> DEFINE j == ChainEnd(conds, k)
  <2>1. k \in 1..n /\ k \in DOMAIN conds /\ conds[k].type \notin Indirect /\ EndClass(conds, j) = K
    BY <1>0, <1>2
  <2>2. PICK O : O = Alone(conds, j, raw, h)
    OBVIOUS
  <2>3. PICK f : f = Fresh(Zeroed, h)
    OBVIOUS
  <2>4. /\ RunsOver(O, f, conds, Chain(conds, j), raw)
        /\ OneChain(conds, j, raw, h) = O[n]
        /\ Clean(f) /\ f.hits = h
        /\ j \in DOMAIN conds /\ conds[j].type \in Ending => O[n].isTrue = GoodAt(O, conds, raw, j)
    <3>1. AloneDoes(O, conds, j, raw, h)
      BY <2>2, OneChainIs
    <3> HIDE DEF j
    <3>2. QED
      BY <2>3, <3>1 DEF AloneDoes
  <2>5. Chain(conds, j) \subseteq A /\ k \in Chain(conds, j)
    BY <1>2, <2>1 DEF Chain
  <2>6. \A i \in Chain(conds, j) : es.hits[i] = f.hits[i]
    BY <2>4, <2>5
  <2>7. Q[n].hits[k] = O[n].hits[k] /\ GoodAt(Q, conds, raw, k) = GoodAt(O, conds, raw, k)
    <3> HIDE DEF j, A
    <3>1. InStep(Q, O, conds, j, raw)
      <4>1. /\ conds \in Seq(Condition) /\ WholeChains(conds, A) /\ Tallied(conds)
            /\ Chain(conds, j) \subseteq A /\ Clean(es) /\ Clean(f)
            /\ RunsOver(Q, es, conds, A, raw) /\ RunsOver(O, f, conds, Chain(conds, j), raw)
            /\ \A i \in Chain(conds, j) : es.hits[i] = f.hits[i]
        BY <1>1, <1>2, <2>4, <2>5, <2>6
      <4>2. QED
        BY ONLY <4>1, Lockstep
    <3>2. QED
      BY <2>5, <3>1 DEF InStep
  <2>8. ASSUME conds[k].type \in Ending
        PROVE  GoodAt(Q, conds, raw, k) = Says(conds, k, raw, h)
    <3>1. j = k
      BY <2>1, <2>8, ChainEndAt
    <3>2. QED
      BY <2>1, <2>4, <2>7, <2>8, <3>1 DEF Says
  <2>9. conds[k].type \notin Ending => GoodAt(Q, conds, raw, k)
    BY DEF GoodAt, Good, Ending
  <2>10. QED
    BY <2>1, <2>4, <2>7, <2>8, <2>9
<1>4. ASSUME K # "other"
      PROVE  Clean(Q[n])
  <2>1. ~Mid(conds, A, n)
    <3>1. ChainEnd(conds, n + 1) = n + 1
      BY <1>0, ChainEndIs
    <3>2. \A i \in A : ChainEnd(conds, i) # n + 1
      BY <1>2, <1>4 DEF EndClass
    <3>3. QED
      BY <3>1, <3>2 DEF Mid
  <2>2. CleanAt(Q, conds, A, n)
    BY <1>0, <1>1, <1>2, CleanBetween
  <2>3. QED
    BY <2>1, <2>2 DEF CleanAt
<1>5. QED
  BY <1>1, <1>3, <1>4 DEF PassDone

(* What the pass of a class leaves. *)
EndsOf(conds, K) == {j \in Array(conds, K) : conds[j].type \in Ending}

ClassDone(q, es, conds, K, raw, h) ==
    /\ q \in EvalState(DOMAIN conds)
    /\ K # "other" => Clean(q)
    /\ q.isTrue = (es.isTrue /\ \A j \in EndsOf(conds, K) : Says(conds, j, raw, h))
    /\ q.wasReset = (es.wasReset \/ \E j \in EndsOf(conds, K) : /\ conds[j].type = "ResetIf"
                                                                /\ ~Says(conds, j, raw, h))
    /\ \A i \in DOMAIN conds :
          q.hits[i] = IF i \in Array(conds, K)
                      THEN OneChain(conds, ChainEnd(conds, i), raw, h).hits[i] ELSE es.hits[i]

LEMMA ClassPassDone ==
    ASSUME NEW conds \in Seq(Condition), Tallied(conds), NEW raw, NEW h \in [DOMAIN conds -> Nat],
           NEW K \in Classes, NEW es \in EvalState(DOMAIN conds), Clean(es),
           \A i \in Array(conds, K) : es.hits[i] = h[i],
           NEW q, q = TestArray(es, conds, Array(conds, K), raw, FALSE)
    PROVE  ClassDone(q, es, conds, K, raw, h)
<1> DEFINE n == Len(conds)
           A == Array(conds, K)
<1>0. n \in Nat /\ DOMAIN conds = 1..n /\ n \in 0..n
  OBVIOUS
<1>1. PICK Q : Q = Passes(es, conds, A, raw, FALSE)
  OBVIOUS
<1>2. q = Q[n]
  BY <1>1 DEF TestArray
<1>3. /\ RunsOver(Q, es, conds, A, raw)
      /\ \A k \in A :
            /\ k \in 1..n
            /\ conds[k].type \in Ending => GoodAt(Q, conds, raw, k) = Says(conds, k, raw, h)
            /\ conds[k].type \notin Ending => GoodAt(Q, conds, raw, k)
            /\ Q[n].hits[k] = OneChain(conds, ChainEnd(conds, k), raw, h).hits[k]
      /\ K # "other" => Clean(Q[n])
  <2>1. PassDone(Q, es, conds, K, raw, h)
    BY <1>1, ClassPass
  <2>2. QED
    BY <2>1 DEF PassDone
<1>4. A \in SUBSET (DOMAIN conds)
  BY ArrayIs
<1>5. VerdictAt(Q, es, conds, A, raw, n) /\ HitsAt(Q, es, conds, A, n)
  BY <1>0, <1>3, <1>4, Verdict, HitsOnce
<1>6. \A k \in A : k <= n
  BY <1>0, <1>4
<1>7. q \in EvalState(DOMAIN conds)
  BY <1>0, <1>2, <1>3 DEF RunsOver
<1>8. \A j : j \in EndsOf(conds, K) <=> j \in A /\ conds[j].type \in Ending
  BY DEF EndsOf
<1> HIDE DEF A, n
<1>9. q.isTrue = (es.isTrue /\ \A j \in EndsOf(conds, K) : Says(conds, j, raw, h))
  <2>1. q.isTrue = (es.isTrue /\ \A i \in A : GoodAt(Q, conds, raw, i))
    BY <1>2, <1>5, <1>6, Zenon DEF VerdictAt
  <2>2. (\A i \in A : GoodAt(Q, conds, raw, i)) <=> \A j \in EndsOf(conds, K) : Says(conds, j, raw, h)
    BY <1>3, <1>8
  <2>3. QED
    BY <2>1, <2>2
<1>10. q.wasReset = (es.wasReset \/ \E j \in EndsOf(conds, K) : /\ conds[j].type = "ResetIf"
                                                                /\ ~Says(conds, j, raw, h))
  <2>1. q.wasReset = (es.wasReset \/ \E i \in A : conds[i].type = "ResetIf"
                                                  /\ ~GoodAt(Q, conds, raw, i))
    BY <1>2, <1>5, <1>6, Zenon DEF VerdictAt
  <2>2. (\E i \in A : conds[i].type = "ResetIf" /\ ~GoodAt(Q, conds, raw, i))
           <=> \E j \in EndsOf(conds, K) : conds[j].type = "ResetIf" /\ ~Says(conds, j, raw, h)
    BY <1>3, <1>8 DEF Ending
  <2>3. QED
    BY <2>1, <2>2
<1>11. ASSUME NEW i \in DOMAIN conds
       PROVE  q.hits[i] = IF i \in A THEN OneChain(conds, ChainEnd(conds, i), raw, h).hits[i]
                          ELSE es.hits[i]
  BY <1>2, <1>3, <1>5 DEF HitsAt
<1>12. QED
  BY <1>2, <1>3, <1>7, <1>9, <1>10, <1>11 DEF ClassDone, A
-----------------------------------------------------------------------------
PausesMean(s, es, conds, raw, h) ==
    /\ s.isPaused = IsPaused(conds, raw, h)
    /\ s.wasReset = es.wasReset
    /\ ~IsPaused(conds, raw, h) => ClassDone(s, es, conds, "pause", raw, h)
    /\ IsPaused(conds, raw, h) => /\ ~s.isTrue
                                  /\ s \in EvalState(DOMAIN conds)
                                  /\ \A i \in DOMAIN conds : s.hits[i] = HitsOf(conds, raw, h)[i]

(* The pauses of a group, with the pass that stops at the first that holds. *)
LEMMA PausesDone ==
    ASSUME NEW conds \in Seq(Condition), Tallied(conds), NEW raw, NEW h \in [DOMAIN conds -> Nat],
           NEW es \in EvalState(DOMAIN conds), Clean(es), es.hits = h, es.isTrue, ~es.isPaused,
           ~es.stop, NEW s, s = TestArray(es, conds, Array(conds, "pause"), raw, TRUE)
    PROVE  PausesMean(s, es, conds, raw, h)
<1> DEFINE n == Len(conds)
           A == Array(conds, "pause")
<1>0. n \in Nat /\ DOMAIN conds = 1..n /\ n \in 0..n /\ "pause" \in Classes
  BY DEF Classes
<1>1. PICK Q : Q = Passes(es, conds, A, raw, FALSE)
  OBVIOUS
<1>2. PICK S : S = Passes(es, conds, A, raw, TRUE)
  OBVIOUS
<1>3. s = S[n]
  BY <1>2 DEF TestArray
<1>4. /\ A = {i \in DOMAIN conds : /\ conds[i].type \notin Indirect
                                   /\ EndClass(conds, ChainEnd(conds, i)) = "pause"}
      /\ A \in SUBSET (DOMAIN conds)
  BY <1>0, ArrayIs
<1>5. /\ RunsOver(Q, es, conds, A, raw)
      /\ \A k \in A :
            /\ k \in 1..n
            /\ conds[k].type \in Ending => GoodAt(Q, conds, raw, k) = Says(conds, k, raw, h)
            /\ conds[k].type \notin Ending => GoodAt(Q, conds, raw, k)
            /\ Q[n].hits[k] = OneChain(conds, ChainEnd(conds, k), raw, h).hits[k]
  <2>1. \A i \in A : es.hits[i] = h[i]
    OBVIOUS
  <2>2. PassDone(Q, es, conds, "pause", raw, h)
    BY <1>0, <1>1, <2>1, ClassPass
  <2>3. QED
    BY <2>2 DEF PassDone
<1>6. StoppedAt(S, Q, n)
  BY <1>1, <1>2, <1>4, ShortPass
<1>7. ASSUME NEW k \in 0..n
      PROVE  VerdictAt(Q, es, conds, A, raw, k) /\ HitsAt(Q, es, conds, A, k)
  BY <1>4, <1>5, Verdict, HitsOnce
<1>8. ASSUME NEW k \in DOMAIN conds
      PROVE  k \in A /\ conds[k].type \in Ending <=> k \in PauseEnds(conds)
  <2>1. conds[k] \in Condition /\ k \in 1..n /\ k # n + 1
    BY <1>0
  <2>2. ASSUME conds[k].type \in Ending
        PROVE  k \in A <=> k \in PauseEnds(conds)
    <3>1. ChainEnd(conds, k) = k
      BY <2>1, <2>2, ChainEndAt
    <3>2. EndClass(conds, ChainEnd(conds, k)) = ClassOf(conds[k])
      BY <2>1, <3>1 DEF EndClass
    <3>3. QED
      BY <1>4, <2>1, <2>2, <3>2, ClassOfIs, FlagsApart DEF PauseEnds
  <2>3. k \in PauseEnds(conds) => conds[k].type \in Ending
    BY DEF PauseEnds, Ending
  <2>4. QED
    BY <2>2, <2>3
<1>9. ASSUME NEW k \in DOMAIN conds
      PROVE  k \in Pausing(conds, raw, h) <=> k \in PauseEnds(conds) /\ ~GoodAt(Q, conds, raw, k)
  <2>1. ASSUME k \in PauseEnds(conds)
        PROVE  OneChain(conds, k, raw, h).isPaused <=> ~GoodAt(Q, conds, raw, k)
    <3>1. k \in A /\ conds[k].type \in Ending /\ conds[k].type = "PauseIf"
      BY <1>8, <2>1 DEF PauseEnds
    <3>2. PICK O : O = Alone(conds, k, raw, h)
      OBVIOUS
    <3>3. /\ OneChain(conds, k, raw, h) = O[n]
          /\ O[n].isTrue = GoodAt(O, conds, raw, k)
          /\ O[n].isPaused = (conds[k].type = "PauseIf" /\ ~GoodAt(O, conds, raw, k))
      <4>1. AloneDoes(O, conds, k, raw, h)
        BY <3>2, OneChainIs
      <4>2. QED
        BY <3>1, <4>1 DEF AloneDoes
    <3>4. GoodAt(Q, conds, raw, k) = O[n].isTrue
      BY <1>5, <3>1, <3>3 DEF Says
    <3>5. QED
      BY <3>1, <3>3, <3>4
  <2>2. QED
    BY <2>1 DEF Pausing, PauseEnds
<1>10. \A k \in 0..n : Q[k].stop <=> \E i \in Pausing(conds, raw, h) : i <= k
  <2> SUFFICES ASSUME NEW k \in 0..n
               PROVE  Q[k].stop <=> \E i \in Pausing(conds, raw, h) : i <= k
    OBVIOUS
  <2>1. Q[k].stop = (es.stop \/ \E i \in A : i <= k /\ conds[i].type \in {"PauseIf", "ResetIf"}
                                             /\ ~GoodAt(Q, conds, raw, i))
    BY <1>7 DEF VerdictAt
  <2>2. \A i \in A : conds[i].type \in {"PauseIf", "ResetIf"} => i \in PauseEnds(conds)
    BY <1>4, <1>8 DEF Ending
  <2>3. \A i \in PauseEnds(conds) : i \in A /\ conds[i].type \in {"PauseIf", "ResetIf"}
    BY <1>8 DEF PauseEnds
  <2>4. \A i \in Pausing(conds, raw, h) : i \in DOMAIN conds
    BY DEF Pausing, PauseEnds
  <2> HIDE DEF A
  <2>5. QED
    BY <1>4, <1>9, <2>1, <2>2, <2>3, <2>4
<1>11. CASE ~IsPaused(conds, raw, h)
  <2>1. ~Q[n].stop
    BY <1>0, <1>10, <1>11 DEF IsPaused
  <2>2. s = Q[n]
    BY <1>3, <1>6, <2>1 DEF StoppedAt
  <2>3. s = TestArray(es, conds, A, raw, FALSE)
    BY <1>1, <2>2 DEF TestArray
  <2>4. ClassDone(s, es, conds, "pause", raw, h)
    BY <1>0, <2>3, ClassPassDone
  <2>5. \A j \in EndsOf(conds, "pause") : conds[j].type = "PauseIf"
    BY <1>4, <1>8 DEF EndsOf, PauseEnds
  <2>6. s.wasReset = es.wasReset
    BY <2>4, <2>5 DEF ClassDone, EvalState
  <2>7. ~s.isPaused
    <3>1. VerdictAt(Q, es, conds, A, raw, n)
      BY <1>0, <1>7
    <3>2. \A i \in A : conds[i].type = "PauseIf" => GoodAt(Q, conds, raw, i)
      BY <1>4, <1>9, <1>11 DEF IsPaused, PauseEnds
    <3>3. QED
      BY <2>2, <3>1, <3>2 DEF VerdictAt
  <2>8. s \in EvalState(DOMAIN conds)
    BY <2>4 DEF ClassDone
  <2>9. s.isPaused = FALSE
    BY <2>7, <2>8 DEF EvalState
  <2>10. IsPaused(conds, raw, h) = FALSE
    BY <1>11 DEF IsPaused
  <2>11. QED
    BY <1>11, <2>4, <2>6, <2>9, <2>10 DEF PausesMean
<1>12. CASE IsPaused(conds, raw, h)
  <2>1. \E i \in Pausing(conds, raw, h) : i <= n
    BY <1>0, <1>12 DEF IsPaused, Pausing, PauseEnds
  <2>2. Q[n].stop
    BY <1>0, <1>10, <2>1
  <2>3. PICK p \in 1..n : S[n] = Q[p] /\ Q[p].stop /\ ~Q[p - 1].stop
    BY <1>6, <2>2 DEF StoppedAt
  <2>4. p \in 0..n /\ p - 1 \in 0..n /\ p \in DOMAIN conds
    BY <1>0
  <2>5. \A i \in Pausing(conds, raw, h) : ~(i <= p - 1)
    BY <1>10, <2>3, <2>4
  <2>6. p \in Pausing(conds, raw, h) /\ \A i \in Pausing(conds, raw, h) : p <= i /\ i \in 1..n
    <3>1. PICK i \in Pausing(conds, raw, h) : i <= p
      BY <1>10, <2>3, <2>4
    <3>2. \A k \in Pausing(conds, raw, h) : k \in 1..n
      BY <1>0 DEF Pausing, PauseEnds
    <3>3. i = p
      BY <1>0, <2>4, <2>5, <3>1, <3>2
    <3>4. QED
      BY <1>0, <2>4, <2>5, <3>1, <3>2, <3>3
  <2>7. p \in PauseEnds(conds) /\ ~GoodAt(Q, conds, raw, p) /\ p \in A /\ conds[p].type = "PauseIf"
    BY <1>8, <1>9, <2>4, <2>6 DEF PauseEnds
  <2>8. VerdictAt(Q, es, conds, A, raw, p) /\ HitsAt(Q, es, conds, A, p)
        /\ HitsAt(Q, es, conds, A, n) /\ s = Q[p]
    BY <1>0, <1>3, <1>7, <2>3, <2>4
  <2>9. s \in EvalState(DOMAIN conds)
    BY <1>5, <2>4, <2>8 DEF RunsOver
  <2>10. s.isPaused /\ ~s.isTrue
    <3>1. p <= p
      BY <2>4
    <3> HIDE DEF A
    <3>2. QED
      BY <2>7, <2>8, <3>1, Zenon DEF VerdictAt
  <2>11. s.wasReset = es.wasReset
    <3>1. \A i \in A : conds[i].type # "ResetIf"
      BY <1>4, <1>8 DEF Ending, PauseEnds
    <3>2. QED
      BY <2>8, <3>1 DEF VerdictAt, EvalState
  <2>12. ASSUME NEW i \in DOMAIN conds
         PROVE  s.hits[i] = HitsOf(conds, raw, h)[i]
    <3> DEFINE j == ChainEnd(conds, i)
               W == \E k \in Pausing(conds, raw, h) : k < j \/ j \notin PauseEnds(conds)
    <3>1. HitsOf(conds, raw, h)[i] = IF W THEN h[i] ELSE OneChain(conds, j, raw, h).hits[i]
      BY <1>12 DEF HitsOf
    <3>2. s.hits[i] = IF i \in A /\ i <= p THEN Q[n].hits[i] ELSE h[i]
      <4>1. i \in A => i <= n
        BY <1>0
      <4>2. /\ Q[p].hits[i] = IF i \in A /\ i <= p THEN Q[i].hits[i] ELSE h[i]
            /\ Q[n].hits[i] = IF i \in A /\ i <= n THEN Q[i].hits[i] ELSE h[i]
        BY <2>8 DEF HitsAt
      <4>3. QED
        BY <2>8, <4>1, <4>2
    <3>3. i \in 1..n /\ i \in 1..(n + 1) /\ conds[i] \in Condition /\ p \in 1..n /\ p \in 1..(n + 1)
          /\ j \in i..(n + 1)
      BY <1>0, ChainEndIs
    <3>4. CASE i \in A
      <4>1. j \in PauseEnds(conds)
        <5>1. EndClass(conds, j) = "pause"
          BY <1>4, <3>4
        <5>2. j # n + 1 /\ ClassOf(conds[j]) = "pause"
          BY <5>1 DEF EndClass
        <5>3. j \in DOMAIN conds /\ conds[j] \in Condition
          BY <1>0, <3>3, <5>2
        <5>4. QED
          BY <5>2, <5>3, ClassOfIs DEF PauseEnds
      <4>2. CASE i <= p
        <5>1. j <= p
          <6>1. p \in i..(n + 1) /\ ChainEnd(conds, p) = p
            BY <1>8, <2>4, <2>7, <3>3, <4>2, ChainEndAt
          <6>2. QED
            BY <3>3, <6>1, ChainEndGrows
        <5>2. ~W
          <6> SUFFICES ASSUME NEW k \in Pausing(conds, raw, h), k < j
                       PROVE  FALSE
            BY <4>1
          <6>1. p <= k /\ k \in 1..n
            BY <2>6
          <6>2. p \in Int /\ k \in Int /\ j \in Int
            BY <1>0, <3>3, <6>1
          <6>3. QED
            BY <5>1, <6>1, <6>2
        <5>3. QED
          BY <1>5, <3>1, <3>2, <3>4, <4>2, <5>2
      <4>3. CASE ~(i <= p)
        <5>1. p < j
          BY <1>0, <3>3, <4>3
        <5>2. W
          BY <2>6, <5>1
        <5>3. QED
          BY <3>1, <3>2, <4>3, <5>2
      <4>4. QED
        BY <4>2, <4>3
    <3>5. CASE i \notin A
      <4>1. CASE conds[i].type \in Indirect
        <5>1. i \notin Chain(conds, j)
          BY <4>1 DEF Chain
        <5>2. PICK O : O = Alone(conds, j, raw, h)
          OBVIOUS
        <5>3. OneChain(conds, j, raw, h).hits[i] = h[i]
          <6>1. AloneDoes(O, conds, j, raw, h)
            BY <5>2, OneChainIs
          <6> HIDE DEF j
          <6>2. QED
            BY <5>1, <6>1 DEF AloneDoes
        <5>4. QED
          BY <3>1, <3>2, <3>5, <5>3
      <4>2. CASE conds[i].type \notin Indirect
        <5>1. EndClass(conds, j) # "pause"
          BY <1>4, <3>5, <4>2
        <5>2. j \notin PauseEnds(conds)
          <6> SUFFICES ASSUME j \in PauseEnds(conds)
                       PROVE  FALSE
            OBVIOUS
          <6>1. j \in 1..n /\ conds[j] \in Condition /\ conds[j].type = "PauseIf" /\ j # n + 1
            BY <1>0 DEF PauseEnds
          <6>2. QED
            BY <5>1, <6>1, ClassOfIs DEF EndClass
        <5>3. W
          BY <2>6, <5>2
        <5>4. QED
          BY <3>1, <3>2, <3>5, <5>3
      <4>3. QED
        BY <4>1, <4>2
    <3>6. QED
      BY <3>4, <3>5
  <2>13. s.isPaused = TRUE /\ IsPaused(conds, raw, h) = TRUE
    BY <1>12, <2>9, <2>10 DEF EvalState, IsPaused
  <2>14. QED
    BY <1>12, <2>9, <2>10, <2>11, <2>12, <2>13 DEF PausesMean
<1>13. QED
  BY <1>11, <1>12

Keeps(q, es, conds) == q \in EvalState(DOMAIN conds) /\ (es.wasReset => q.wasReset)

(* Whatever the array, a pass keeps the type of the state and a reset that was seen. *)
LEMMA ProcessKeeps ==
    ASSUME NEW conds \in Seq(Condition), NEW raw, NEW array \in SUBSET (DOMAIN conds),
           NEW es \in EvalState(DOMAIN conds),
           NEW q, q = TestArray(es, conds, array, raw, FALSE)
    PROVE  Keeps(q, es, conds)
<1>0. Len(conds) \in 0..Len(conds)
  OBVIOUS
<1>1. PICK Q : Q = Passes(es, conds, array, raw, FALSE)
  OBVIOUS
<1>2. RunsOver(Q, es, conds, array, raw)
  BY <1>1, LongPass
<1>3. VerdictAt(Q, es, conds, array, raw, Len(conds))
  BY <1>0, <1>2, Verdict
<1>4. q = Q[Len(conds)]
  BY <1>1 DEF TestArray
<1>5. q \in EvalState(DOMAIN conds)
  BY <1>0, <1>2, <1>4 DEF RunsOver
<1>6. es.wasReset => q.wasReset
  BY <1>3, <1>4 DEF VerdictAt
<1>7. QED
  BY <1>5, <1>6 DEF Keeps

(* So does the pass that stops at a pause, of the type. *)
LEMMA ShortPassType ==
    ASSUME NEW conds \in Seq(Condition), NEW raw, NEW array,
           NEW es \in EvalState(DOMAIN conds),
           NEW q, q = TestArray(es, conds, array, raw, TRUE)
    PROVE  q \in EvalState(DOMAIN conds)
<1>0. Len(conds) \in 0..Len(conds)
  OBVIOUS
<1>1. PICK short \in BOOLEAN : short = TRUE
  OBVIOUS
<1>2. PICK Q : Q = Passes(es, conds, array, raw, short)
  OBVIOUS
<1>3. /\ Q[0] = es
      /\ \A k \in 0..Len(conds) : Q[k] \in EvalState(DOMAIN conds)
      /\ \A k \in 1..Len(conds) :
            Q[k] = IF k \notin array \/ (short /\ Q[k - 1].stop) THEN Q[k - 1]
                   ELSE Evaluate(Q[k - 1], conds[k], k, raw)
  BY ONLY <1>2, PassesIs
<1>4. q = Q[Len(conds)]
  BY <1>1, <1>2 DEF TestArray
<1>5. QED
  BY <1>0, <1>3, <1>4

MeasuredMeans(m, es, conds, raw) ==
    /\ m \in EvalState(DOMAIN conds)
    /\ es.wasReset => m.wasReset
    /\ \E e : /\ ~es.wasReset => e = TestArray(es, conds, Array(conds, "measured"), raw, FALSE)
              /\ m.isTrue = e.isTrue /\ m.wasReset = e.wasReset /\ m.hits = e.hits
              /\ SameCarry(m, e)

(* The measured conditions are a pass like any other, but for the hits cleared before it
   and the value withdrawn after it. *)
LEMMA ProcessMeasuredIs ==
    ASSUME NEW conds \in Seq(Condition), NEW raw, NEW es \in EvalState(DOMAIN conds),
           NEW m, m = ProcessMeasured(es, conds, raw)
    PROVE  MeasuredMeans(m, es, conds, raw)
<1> DEFINE A == Array(conds, "measured")
           D == DOMAIN conds
<1>0. A \in SUBSET D
  BY ArrayIs DEF Classes
<1>1. PICK e0 : e0 = IF es.wasReset THEN [es EXCEPT !.hits = Cleared(@, A)] ELSE es
  OBVIOUS
<1>2. e0 \in EvalState(D) /\ (es.wasReset => e0.wasReset)
  <2>1. CASE es.wasReset
    <3>1. PICK h : h = Cleared(es.hits, A)
      OBVIOUS
    <3>2. h \in [D -> Nat]
      BY <3>1 DEF Cleared, EvalState
    <3>3. e0 = [es EXCEPT !.hits = h]
      BY <1>1, <2>1, <3>1
    <3>4. e0 \in EvalState(D) /\ e0.wasReset = es.wasReset
      BY <3>2, <3>3 DEF EvalState
    <3>5. QED
      BY <3>4
  <2>2. CASE ~es.wasReset
    BY <1>1, <2>2
  <2>3. QED
    BY <2>1, <2>2
<1>3. PICK e : e = TestArray(e0, conds, A, raw, FALSE)
  OBVIOUS
<1>4. e \in EvalState(D) /\ (e0.wasReset => e.wasReset)
  <2>1. e0 \in EvalState(DOMAIN conds) /\ A \in SUBSET (DOMAIN conds) /\ conds \in Seq(Condition)
    BY <1>0, <1>2
  <2> HIDE DEF A
  <2>2. QED
    BY <1>3, <2>1, ProcessKeeps DEF Keeps
<1>5. m = IF e.measured # NoMeasure /\ (~e.canMeasure \/ (e.fromHits /\ e.wasReset))
          THEN [e EXCEPT !.measured = 0] ELSE e
  BY <1>1, <1>3 DEF ProcessMeasured
<1>6. m \in EvalState(D) /\ m.isTrue = e.isTrue /\ m.wasReset = e.wasReset /\ m.hits = e.hits
      /\ SameCarry(m, e)
  <2>1. CASE m = e
    BY <1>4, <2>1 DEF SameCarry
  <2>2. CASE m = [e EXCEPT !.measured = 0]
    <3>1. PICK z \in Int : z = 0
      OBVIOUS
    <3>2. m = [e EXCEPT !.measured = z]
      BY <2>2, <3>1
    <3>3. QED
      BY <1>4, <3>2 DEF EvalState, SameCarry
  <2>3. QED
    BY <1>5, <2>1, <2>2
<1>7. ~es.wasReset => e = TestArray(es, conds, A, raw, FALSE)
  BY <1>1, <1>3
<1>8. QED
  BY <1>2, <1>4, <1>6, <1>7 DEF MeasuredMeans

(* One group, whatever its conditions. *)
LEMMA GroupType ==
    ASSUME NEW conds \in Seq(Condition), NEW raw, NEW h \in [DOMAIN conds -> Nat],
           NEW E, NEW prev \in EvalState(E), NEW e, e = TestCondset(prev, conds, h, raw)
    PROVE  e \in EvalState(DOMAIN conds)
<1>0. \A K \in Classes : Array(conds, K) \in SUBSET (DOMAIN conds)
  BY ArrayIs
<1>1. PICK f \in EvalState(DOMAIN conds) : f = Fresh(prev, h)
  BY FreshIs
<1>2. PICK s \in EvalState(DOMAIN conds) : s = TestArray(f, conds, Array(conds, "pause"), raw, TRUE)
  BY ShortPassType
<1>3. PICK r \in EvalState(DOMAIN conds) : r = TestArray(s, conds, Array(conds, "reset"), raw, FALSE)
  BY <1>0, ProcessKeeps DEF Classes, Keeps
<1>4. PICK c \in EvalState(DOMAIN conds) :
        c = IF r.wasReset THEN r ELSE TestArray(r, conds, Array(conds, "hittarget"), raw, FALSE)
  <2>1. PICK c \in EvalState(DOMAIN conds) :
          c = TestArray(r, conds, Array(conds, "hittarget"), raw, FALSE)
    BY <1>0, ProcessKeeps DEF Classes, Keeps
  <2>2. QED
    BY <2>1
<1>5. PICK m \in EvalState(DOMAIN conds) : m = ProcessMeasured(c, conds, raw)
  BY ProcessMeasuredIs DEF MeasuredMeans
<1>6. PICK o \in EvalState(DOMAIN conds) : o = TestArray(m, conds, Array(conds, "other"), raw, FALSE)
  BY <1>0, ProcessKeeps DEF Classes, Keeps
<1>7. e = IF s.isPaused THEN s ELSE IF m.isTrue \/ ~m.wasReset THEN o ELSE m
  BY <1>1, <1>2, <1>3, <1>4, <1>5, <1>6 DEF TestCondset
<1>8. QED
  BY <1>7
-----------------------------------------------------------------------------
GroupDone(e, prev, conds, raw, h) ==
    /\ e.wasReset = (prev.wasReset \/ IsReset(conds, raw, h))
    /\ ~e.wasReset => /\ e.isTrue = (~IsPaused(conds, raw, h) /\ IsTrue(conds, raw, h))
                      /\ e.hits = HitsOf(conds, raw, h)

(* The classes share the conditions of a group among them. *)
LEMMA ClassesApart ==
    ASSUME NEW conds \in Seq(Condition), NEW i \in DOMAIN conds
    PROVE  /\ \A K, L \in Classes : i \in Array(conds, K) /\ i \in Array(conds, L) => K = L
           /\ conds[i].type \notin Indirect => \E K \in Classes : i \in Array(conds, K)
           /\ conds[i].type \in Indirect => \A K \in Classes : i \notin Array(conds, K)
           /\ conds[i].type = "ResetIf" <=> i \in EndsOf(conds, "reset")
           /\ \A K \in Classes : conds[i].type = "ResetIf" /\ i \in EndsOf(conds, K) => K = "reset"
<1>0. /\ i \in 1..Len(conds) /\ i \in 1..(Len(conds) + 1) /\ i # Len(conds) + 1
      /\ conds[i] \in Condition
  OBVIOUS
<1>1. \A K \in Classes : i \in Array(conds, K) <=>
         /\ conds[i].type \notin Indirect
         /\ EndClass(conds, ChainEnd(conds, i)) = K
  BY ArrayIs
<1>2. EndClass(conds, ChainEnd(conds, i)) \in Classes
  <2>1. CASE ChainEnd(conds, i) = Len(conds) + 1
    BY <2>1 DEF EndClass, Classes
  <2>2. CASE ChainEnd(conds, i) # Len(conds) + 1
    <3>1. /\ ChainEnd(conds, i) \in 1..Len(conds)
          /\ conds[ChainEnd(conds, i)].type \in Ending
      BY <1>0, <2>2, ChainEndIs
    <3>2. conds[ChainEnd(conds, i)] \in Condition
      BY <3>1
    <3>3. QED
      BY <2>2, <3>1, <3>2, ClassOfIs DEF EndClass
  <2>3. QED
    BY <2>1, <2>2
<1>3. conds[i].type = "ResetIf" => /\ EndClass(conds, ChainEnd(conds, i)) = "reset"
                                   /\ conds[i].type \in Ending /\ conds[i].type \notin Indirect
  <2> SUFFICES ASSUME conds[i].type = "ResetIf"
               PROVE  /\ EndClass(conds, ChainEnd(conds, i)) = "reset"
                      /\ conds[i].type \in Ending /\ conds[i].type \notin Indirect
    OBVIOUS
  <2>1. conds[i].type \in Ending /\ conds[i].type \notin Indirect
    BY DEF Ending, Indirect
  <2>2. ChainEnd(conds, i) = i
    BY <1>0, <2>1, ChainEndAt
  <2>3. ClassOf(conds[i]) = "reset"
    BY <1>0, ClassOfIs
  <2>4. QED
    BY <1>0, <2>1, <2>2, <2>3 DEF EndClass
<1>4. i \in EndsOf(conds, "reset") => conds[i].type = "ResetIf"
  <2> SUFFICES ASSUME i \in Array(conds, "reset"), conds[i].type \in Ending
               PROVE  conds[i].type = "ResetIf"
    BY DEF EndsOf
  <2>1. ChainEnd(conds, i) = i
    BY <1>0, ChainEndAt
  <2>2. EndClass(conds, i) = "reset"
    BY <1>1, <2>1 DEF Classes
  <2>3. ClassOf(conds[i]) = "reset"
    BY <1>0, <2>2 DEF EndClass
  <2>4. QED
    BY <1>0, <2>3, ClassOfIs
<1>5. "reset" \in Classes
  BY DEF Classes
<1>6. \A K \in Classes : i \in EndsOf(conds, K) => i \in Array(conds, K)
  BY DEF EndsOf
<1>7. conds[i].type = "ResetIf" => i \in EndsOf(conds, "reset")
  BY <1>1, <1>3, <1>5 DEF EndsOf
<1>8. QED
  BY <1>1, <1>2, <1>3, <1>4, <1>5, <1>6, <1>7

(* What a chain by itself says is what it does to pauses and resets. *)
LEMMA SaysIs ==
    ASSUME NEW conds \in Seq(Condition), NEW raw, NEW h \in [DOMAIN conds -> Nat],
           NEW j \in DOMAIN conds, conds[j].type \in Ending
    PROVE  /\ Says(conds, j, raw, h) \in BOOLEAN
           /\ OneChain(conds, j, raw, h).isPaused <=>
                 conds[j].type = "PauseIf" /\ ~Says(conds, j, raw, h)
           /\ OneChain(conds, j, raw, h).wasReset <=>
                 conds[j].type = "ResetIf" /\ ~Says(conds, j, raw, h)
<1>1. PICK O : O = Alone(conds, j, raw, h)
  OBVIOUS
<1>2. AloneDoes(O, conds, j, raw, h)
  BY <1>1, OneChainIs
<1>3. OneChain(conds, j, raw, h) \in EvalState(DOMAIN conds)
  <2>1. Len(conds) \in 0..Len(conds)
    OBVIOUS
  <2>2. QED
    BY <1>2, <2>1 DEF AloneDoes, RunsOver
<1>4. QED
  BY <1>2, <1>3 DEF AloneDoes, Says, EvalState

(* A group that is not paused resets when the chain of a ResetIf does. *)
LEMMA ResetMeans ==
    ASSUME NEW conds \in Seq(Condition), NEW raw, NEW h \in [DOMAIN conds -> Nat],
           ~IsPaused(conds, raw, h)
    PROVE  IsReset(conds, raw, h) <=> \E j \in EndsOf(conds, "reset") : /\ conds[j].type = "ResetIf"
                                                                        /\ ~Says(conds, j, raw, h)
<1>1. \A j \in EndsOf(conds, "reset") : j \in DOMAIN conds
  BY DEF EndsOf, Array
<1>2. \A j \in DOMAIN conds : conds[j].type = "ResetIf" =>
         /\ j \in EndsOf(conds, "reset")
         /\ OneChain(conds, j, raw, h).wasReset <=> ~Says(conds, j, raw, h)
  <2> SUFFICES ASSUME NEW j \in DOMAIN conds, conds[j].type = "ResetIf"
               PROVE  /\ j \in EndsOf(conds, "reset")
                      /\ OneChain(conds, j, raw, h).wasReset <=> ~Says(conds, j, raw, h)
    OBVIOUS
  <2>1. conds[j].type \in Ending
    BY DEF Ending
  <2>2. QED
    BY <2>1, ClassesApart, SaysIs
<1>3. QED
  BY <1>1, <1>2 DEF IsReset

(* A group that is neither paused nor reset: every chain was evaluated, each on its own. *)
LEMMA AllClasses ==
    ASSUME NEW conds \in Seq(Condition), Tallied(conds), NEW raw, NEW h \in [DOMAIN conds -> Nat],
           NEW f, f.hits = h, f.isTrue,
           NEW s, ClassDone(s, f, conds, "pause", raw, h),
           NEW r, ClassDone(r, s, conds, "reset", raw, h),
           NEW c, ClassDone(c, r, conds, "hittarget", raw, h),
           NEW e, ClassDone(e, c, conds, "measured", raw, h),
           NEW m, m.isTrue = e.isTrue, m.hits = e.hits,
           NEW o, ClassDone(o, m, conds, "other", raw, h),
           ~IsPaused(conds, raw, h)
    PROVE  /\ o.isTrue <=> IsTrue(conds, raw, h)
           /\ o.hits = HitsOf(conds, raw, h)
<1>0. \A K : K \in Classes <=> K \in {"pause", "reset", "hittarget", "measured", "other"}
  BY DEF Classes
<1>1. o.isTrue <=> \A K \in Classes : \A j \in EndsOf(conds, K) : Says(conds, j, raw, h)
  <2>1. s.isTrue <=> \A j \in EndsOf(conds, "pause") : Says(conds, j, raw, h)
    BY DEF ClassDone
  <2>2. r.isTrue <=> s.isTrue /\ \A j \in EndsOf(conds, "reset") : Says(conds, j, raw, h)
    BY DEF ClassDone
  <2>3. c.isTrue <=> r.isTrue /\ \A j \in EndsOf(conds, "hittarget") : Says(conds, j, raw, h)
    BY DEF ClassDone
  <2>4. e.isTrue <=> c.isTrue /\ \A j \in EndsOf(conds, "measured") : Says(conds, j, raw, h)
    BY DEF ClassDone
  <2>5. o.isTrue <=> m.isTrue /\ \A j \in EndsOf(conds, "other") : Says(conds, j, raw, h)
    BY DEF ClassDone
  <2>6. QED
    BY <1>0, <2>1, <2>2, <2>3, <2>4, <2>5
<1>2. \A j : (\E K \in Classes : j \in EndsOf(conds, K))
                <=> j \in DOMAIN conds /\ conds[j].type \in Ending
  <2>1. \A j : \A K \in Classes : j \in EndsOf(conds, K) => j \in DOMAIN conds /\ conds[j].type \in Ending
    BY DEF EndsOf, Array
  <2>2. ASSUME NEW j \in DOMAIN conds, conds[j].type \in Ending
        PROVE  \E K \in Classes : j \in EndsOf(conds, K)
    <3>1. conds[j].type \notin Indirect
      BY <2>2, FlagsApart
    <3>2. PICK K \in Classes : j \in Array(conds, K)
      BY <3>1, ClassesApart
    <3>3. QED
      BY <2>2, <3>2 DEF EndsOf
  <2>3. QED
    BY <2>1, <2>2
<1>3. \A j \in DOMAIN conds : conds[j].type \in Ending => Says(conds, j, raw, h) \/ j \notin PauseEnds(conds)
  <2> SUFFICES ASSUME NEW j \in PauseEnds(conds), conds[j].type \in Ending
               PROVE  Says(conds, j, raw, h)
    BY DEF PauseEnds
  <2>1. j \in DOMAIN conds /\ conds[j].type = "PauseIf"
    BY DEF PauseEnds
  <2>2. ~OneChain(conds, j, raw, h).isPaused
    BY DEF IsPaused, Pausing
  <2>3. QED
    BY <2>1, <2>2, SaysIs
<1>4. \A j \in DOMAIN conds : ChainEnd(conds, j) = j <=> conds[j].type \in Ending
  <2> SUFFICES ASSUME NEW j \in DOMAIN conds
               PROVE  ChainEnd(conds, j) = j <=> conds[j].type \in Ending
    OBVIOUS
  <2>1. j \in 1..Len(conds)
    OBVIOUS
  <2>2. QED
    BY <2>1, ChainEndAt
<1>5. o.isTrue <=> IsTrue(conds, raw, h)
  <2>1. IsTrue(conds, raw, h) <=> \A j \in DOMAIN conds \ PauseEnds(conds) :
                                     ChainEnd(conds, j) = j => Says(conds, j, raw, h)
    BY DEF IsTrue, Says
  <2>2. QED
    BY <1>1, <1>2, <1>3, <1>4, <2>1
<1>6. ASSUME NEW i \in DOMAIN conds
      PROVE  o.hits[i] = OneChain(conds, ChainEnd(conds, i), raw, h).hits[i]
  <2>1. \A K \in Classes : i \notin Array(conds, K) => conds[i].type \in Indirect \/ \E L \in Classes : L # K /\ i \in Array(conds, L)
    BY ClassesApart
  <2>0. PICK x : x = OneChain(conds, ChainEnd(conds, i), raw, h).hits[i]
    OBVIOUS
  <2>2. /\ s.hits[i] = IF i \in Array(conds, "pause") THEN x ELSE h[i]
        /\ r.hits[i] = IF i \in Array(conds, "reset") THEN x ELSE s.hits[i]
        /\ c.hits[i] = IF i \in Array(conds, "hittarget") THEN x ELSE r.hits[i]
        /\ e.hits[i] = IF i \in Array(conds, "measured") THEN x ELSE c.hits[i]
        /\ o.hits[i] = IF i \in Array(conds, "other") THEN x ELSE e.hits[i]
    BY <2>0 DEF ClassDone
  <2>3. CASE conds[i].type \in Indirect
    <3>1. x = h[i]
      <4>1. i \notin Chain(conds, ChainEnd(conds, i))
        BY <2>3 DEF Chain
      <4>2. PICK O : O = Alone(conds, ChainEnd(conds, i), raw, h)
        OBVIOUS
      <4>3. AloneDoes(O, conds, ChainEnd(conds, i), raw, h)
        BY <4>2, OneChainIs
      <4>4. QED
        BY <2>0, <4>1, <4>3 DEF AloneDoes
    <3>2. \A K \in Classes : i \notin Array(conds, K)
      BY <2>3, ClassesApart
    <3>3. QED
      BY <1>0, <2>0, <2>2, <3>1, <3>2
  <2>4. CASE conds[i].type \notin Indirect
    <3>1. PICK K \in Classes : i \in Array(conds, K)
      BY <2>4, ClassesApart
    <3>2. \A L \in Classes : L # K => i \notin Array(conds, L)
      BY <3>1, ClassesApart
    <3>3. o.hits[i] = x
      <4>1. CASE K = "pause"
        BY <1>0, <2>2, <3>1, <3>2, <4>1
      <4>2. CASE K = "reset"
        BY <1>0, <2>2, <3>1, <3>2, <4>2
      <4>3. CASE K = "hittarget"
        BY <1>0, <2>2, <3>1, <3>2, <4>3
      <4>4. CASE K = "measured"
        BY <1>0, <2>2, <3>1, <3>2, <4>4
      <4>5. CASE K = "other"
        BY <1>0, <2>2, <3>1, <3>2, <4>5
      <4>6. QED
        BY <1>0, <4>1, <4>2, <4>3, <4>4, <4>5
    <3>4. QED
      BY <2>0, <3>3
  <2>5. QED
    BY <2>3, <2>4
<1>7. o.hits = HitsOf(conds, raw, h)
  <2>1. o.hits \in [DOMAIN conds -> Nat]
    BY DEF ClassDone, EvalState
  <2>2. o.hits = [i \in DOMAIN conds |-> o.hits[i]]
    BY <2>1
  <2>3. HitsOf(conds, raw, h) =
           [i \in DOMAIN conds |-> OneChain(conds, ChainEnd(conds, i), raw, h).hits[i]]
    BY DEF HitsOf
  <2>4. QED
    BY <1>6, <2>2, <2>3
<1>8. QED
  BY <1>5, <1>7

(* The pass of a class leaves the hits of the others, and only that of the resets resets. *)
LEMMA ClassLeaves ==
    ASSUME NEW conds \in Seq(Condition), NEW raw, NEW h, NEW K \in Classes, NEW es, NEW q,
           ClassDone(q, es, conds, K, raw, h)
    PROVE  /\ K # "reset" => (q.wasReset <=> es.wasReset)
           /\ \A L \in Classes : L # K => \A i \in Array(conds, L) : q.hits[i] = es.hits[i]
<1>1. \A j \in EndsOf(conds, K) : conds[j].type = "ResetIf" => K = "reset"
  BY ClassesApart DEF EndsOf, Array
<1>2. \A L \in Classes : L # K => \A i \in Array(conds, L) : i \in DOMAIN conds /\ i \notin Array(conds, K)
  <2> SUFFICES ASSUME NEW L \in Classes, L # K, NEW i \in Array(conds, L)
               PROVE  i \in DOMAIN conds /\ i \notin Array(conds, K)
    OBVIOUS
  <2>1. i \in DOMAIN conds
    BY DEF Array
  <2>2. QED
    BY <2>1, ClassesApart
<1>3. QED
  BY <1>1, <1>2 DEF ClassDone

(* One group: what it says of the achievement and what it counts is what its chains say
   and count one by one (rc_test_condset). *)
LEMMA GroupMeans ==
    ASSUME NEW conds \in Seq(Condition), Tallied(conds), NEW raw, NEW h \in [DOMAIN conds -> Nat],
           NEW E, NEW prev \in EvalState(E), NEW e, e = TestCondset(prev, conds, h, raw)
    PROVE  GroupDone(e, prev, conds, raw, h)
<1>0. /\ "pause" \in Classes /\ "reset" \in Classes /\ "hittarget" \in Classes
      /\ "measured" \in Classes /\ "other" \in Classes
      /\ \A K \in Classes : Array(conds, K) \in SUBSET (DOMAIN conds)
  BY ArrayIs DEF Classes
<1>1. PICK f : f = Fresh(prev, h)
  OBVIOUS
<1>2. /\ f \in EvalState(DOMAIN conds) /\ f.hits = h /\ f.wasReset = prev.wasReset
      /\ f.isTrue /\ ~f.isPaused /\ ~f.stop /\ Clean(f)
  BY <1>1, FreshIs
<1>3. PICK s : s = TestArray(f, conds, Array(conds, "pause"), raw, TRUE)
  OBVIOUS
<1>4. /\ s.isPaused = IsPaused(conds, raw, h)
      /\ s.wasReset = f.wasReset
      /\ ~IsPaused(conds, raw, h) => ClassDone(s, f, conds, "pause", raw, h)
      /\ IsPaused(conds, raw, h) => /\ ~s.isTrue
                                    /\ s \in EvalState(DOMAIN conds)
                                    /\ \A i \in DOMAIN conds : s.hits[i] = HitsOf(conds, raw, h)[i]
  <2>1. PausesMean(s, f, conds, raw, h)
    BY <1>2, <1>3, PausesDone
  <2>2. QED
    BY <2>1 DEF PausesMean
<1>5. PICK r : r = TestArray(s, conds, Array(conds, "reset"), raw, FALSE)
  OBVIOUS
<1>6. PICK c : c = IF r.wasReset THEN r ELSE TestArray(r, conds, Array(conds, "hittarget"), raw, FALSE)
  OBVIOUS
<1>7. PICK m : m = ProcessMeasured(c, conds, raw)
  OBVIOUS
<1>8. PICK o : o = TestArray(m, conds, Array(conds, "other"), raw, FALSE)
  OBVIOUS
<1>9. e = IF s.isPaused THEN s ELSE IF m.isTrue \/ ~m.wasReset THEN o ELSE m
  BY <1>1, <1>3, <1>5, <1>6, <1>7, <1>8 DEF TestCondset
<1>10. e \in EvalState(DOMAIN conds)
  BY GroupType
<1>11. prev.wasReset \in BOOLEAN /\ IsReset(conds, raw, h) \in BOOLEAN /\ IsPaused(conds, raw, h) \in BOOLEAN
       /\ IsTrue(conds, raw, h) \in BOOLEAN /\ e.wasReset \in BOOLEAN /\ e.isTrue \in BOOLEAN
  BY <1>10 DEF EvalState, IsReset, IsPaused, IsTrue
<1>12. CASE IsPaused(conds, raw, h)
  <2>1. e = s
    BY <1>4, <1>9, <1>12
  <2>2. e.wasReset <=> prev.wasReset
    BY <1>2, <1>4, <2>1
  <2>3. ~IsReset(conds, raw, h)
    BY <1>12 DEF IsReset
  <2>4. e.hits = HitsOf(conds, raw, h)
    <3>1. e.hits = [i \in DOMAIN conds |-> e.hits[i]]
      BY <1>10 DEF EvalState
    <3>2. HitsOf(conds, raw, h) = [i \in DOMAIN conds |-> HitsOf(conds, raw, h)[i]]
      BY DEF HitsOf
    <3>3. \A i \in DOMAIN conds : e.hits[i] = HitsOf(conds, raw, h)[i]
      BY <1>4, <1>12, <2>1
    <3>4. QED
      BY <3>1, <3>2, <3>3
  <2>5. ~e.isTrue
    BY <1>4, <1>12, <2>1
  <2>6. QED
    BY <1>11, <1>12, <2>2, <2>3, <2>4, <2>5 DEF GroupDone
<1>13. CASE ~IsPaused(conds, raw, h)
  <2>1. ClassDone(s, f, conds, "pause", raw, h) /\ ~s.isPaused
    BY <1>4, <1>13
  <2>2. s \in EvalState(DOMAIN conds) /\ Clean(s)
    BY <2>1 DEF ClassDone
  <2>3. /\ \A i \in Array(conds, "reset") : s.hits[i] = h[i]
        /\ \A i \in Array(conds, "hittarget") : s.hits[i] = h[i]
        /\ \A i \in Array(conds, "measured") : s.hits[i] = h[i]
        /\ \A i \in Array(conds, "other") : s.hits[i] = h[i]
    BY <1>0, <1>2, <2>1, ClassLeaves
  <2>4. ClassDone(r, s, conds, "reset", raw, h)
    BY <1>0, <1>5, <2>2, <2>3, ClassPassDone
  <2>5. r \in EvalState(DOMAIN conds) /\ Clean(r)
    BY <2>4 DEF ClassDone
  <2>6. r.wasReset <=> (prev.wasReset \/ IsReset(conds, raw, h))
    <3>1. r.wasReset <=> (s.wasReset \/ \E j \in EndsOf(conds, "reset") :
                                           conds[j].type = "ResetIf" /\ ~Says(conds, j, raw, h))
      BY <2>4 DEF ClassDone
    <3>2. QED
      BY <1>2, <1>4, <1>13, <3>1, ResetMeans
  <2>7. CASE r.wasReset
    <3>1. c = r
      BY <1>6, <2>7
    <3>2. m \in EvalState(DOMAIN conds) /\ m.wasReset
      <4>1. MeasuredMeans(m, c, conds, raw)
        BY <1>7, <2>5, <3>1, ProcessMeasuredIs
      <4>2. QED
        BY <2>7, <3>1, <4>1 DEF MeasuredMeans
    <3>3. o.wasReset
      <4>1. Array(conds, "other") \in SUBSET (DOMAIN conds)
        BY <1>0
      <4>2. m \in EvalState(DOMAIN conds)
        BY <3>2
      <4>3. Keeps(o, m, conds)
        BY <1>8, <4>1, <4>2, ProcessKeeps
      <4>4. QED
        BY <3>2, <4>3 DEF Keeps
    <3>4. e.wasReset
      BY <1>9, <2>1, <3>2, <3>3
    <3>5. QED
      BY <1>11, <2>6, <2>7, <3>4 DEF GroupDone
  <2>8. CASE ~r.wasReset
    <3>1. /\ \A i \in Array(conds, "hittarget") : r.hits[i] = h[i]
          /\ \A i \in Array(conds, "measured") : r.hits[i] = h[i]
          /\ \A i \in Array(conds, "other") : r.hits[i] = h[i]
      BY <1>0, <2>3, <2>4, ClassLeaves
    <3>2. c = TestArray(r, conds, Array(conds, "hittarget"), raw, FALSE)
      BY <1>6, <2>8
    <3>3. ClassDone(c, r, conds, "hittarget", raw, h)
      BY <1>0, <2>5, <3>1, <3>2, ClassPassDone
    <3>4. c \in EvalState(DOMAIN conds) /\ Clean(c)
      BY <3>3 DEF ClassDone
    <3>5. /\ ~c.wasReset
          /\ \A i \in Array(conds, "measured") : c.hits[i] = h[i]
          /\ \A i \in Array(conds, "other") : c.hits[i] = h[i]
      BY <1>0, <2>8, <3>1, <3>3, ClassLeaves
    <3>6. /\ m \in EvalState(DOMAIN conds)
          /\ \E a : /\ ~c.wasReset => a = TestArray(c, conds, Array(conds, "measured"), raw, FALSE)
                    /\ m.isTrue = a.isTrue /\ m.wasReset = a.wasReset /\ m.hits = a.hits
                    /\ SameCarry(m, a)
      <4>1. MeasuredMeans(m, c, conds, raw)
        BY <1>7, <3>4, ProcessMeasuredIs
      <4>2. QED
        BY <4>1 DEF MeasuredMeans
    <3>7. PICK a : /\ a = TestArray(c, conds, Array(conds, "measured"), raw, FALSE)
                   /\ m.isTrue = a.isTrue /\ m.wasReset = a.wasReset /\ m.hits = a.hits
                   /\ SameCarry(m, a)
      BY <3>5, <3>6
    <3>8. ClassDone(a, c, conds, "measured", raw, h)
      BY <1>0, <3>4, <3>5, <3>7, ClassPassDone
    <3>9. ~a.wasReset /\ \A i \in Array(conds, "other") : a.hits[i] = h[i]
      BY <1>0, <3>5, <3>8, ClassLeaves
    <3>10. Clean(m) /\ ~m.wasReset /\ \A i \in Array(conds, "other") : m.hits[i] = h[i]
      <4>1. Clean(a)
        BY <3>8 DEF ClassDone
      <4>2. Clean(m)
        BY <3>7, <4>1 DEF Clean, SameCarry
      <4>3. QED
        BY <3>7, <3>9, <4>2
    <3>11. ClassDone(o, m, conds, "other", raw, h)
      BY <1>0, <1>8, <3>6, <3>10, ClassPassDone
    <3>12. ~o.wasReset /\ e = o
      BY <1>0, <1>9, <2>1, <3>10, <3>11, ClassLeaves
    <3>13. /\ o.isTrue <=> IsTrue(conds, raw, h)
           /\ o.hits = HitsOf(conds, raw, h)
      <4>1. /\ conds \in Seq(Condition) /\ Tallied(conds) /\ h \in [DOMAIN conds -> Nat]
            /\ f.hits = h /\ f.isTrue /\ ~IsPaused(conds, raw, h)
            /\ ClassDone(s, f, conds, "pause", raw, h) /\ ClassDone(r, s, conds, "reset", raw, h)
            /\ ClassDone(c, r, conds, "hittarget", raw, h)
            /\ ClassDone(a, c, conds, "measured", raw, h)
            /\ m.isTrue = a.isTrue /\ m.hits = a.hits /\ ClassDone(o, m, conds, "other", raw, h)
        BY <1>2, <1>13, <2>1, <2>4, <3>3, <3>7, <3>8, <3>11
      <4>2. QED
        BY ONLY <4>1, AllClasses
    <3>14. QED
      BY <1>11, <1>13, <2>6, <2>8, <3>12, <3>13 DEF GroupDone
  <2>9. QED
    BY <2>7, <2>8
<1>14. QED
  BY <1>12, <1>13

(* The hit counts are those of the definition. *)
HitsTyped ==
    /\ definition \in Definitions
    /\ \A g \in Groups : hits[g] \in [DOMAIN definition[g] -> Nat]

(* The groups of a definition. *)
LEMMA DefinitionIs ==
    ASSUME HitsTyped
    PROVE  /\ definition \in Seq(Seq(Condition)) /\ Len(definition) \in Nat
           /\ Groups = 1..Len(definition) /\ 1 \in Groups
           /\ \A g \in Groups : definition[g] \in Seq(Condition)
<1>1. definition \in Seq(Seq(Condition)) /\ definition # <<>>
  BY TriggerAssumption DEF HitsTyped
<1>2. Len(definition) \in Nat /\ DOMAIN definition = 1..Len(definition) /\ Len(definition) # 0
  BY <1>1
<1>3. QED
  BY <1>1, <1>2 DEF Groups

(* A frame evaluates the groups one after the other, each with what the one before left. *)
PassDoes(after, raw) ==
    /\ after[0] = Zeroed
    /\ \A g \in Groups : /\ after[g] = TestCondset(after[g - 1], definition[g], hits[g], raw[g])
                         /\ after[g] \in EvalState(DOMAIN definition[g])
                         /\ \E E : after[g - 1] \in EvalState(E)

LEMMA PassIs ==
    ASSUME HitsTyped, NEW raw, NEW after, after = Pass(raw)
    PROVE  PassDoes(after, raw)
<1> DEFINE n == Len(definition)
           S == UNION {EvalState(1..m) : m \in Nat}
           Test(g, s) == TestCondset(s, definition[g], hits[g], raw[g])
           step == [g \in 1..n |-> [s \in S |-> Test(g, s)]]
<1>0. /\ n \in Nat /\ Groups = 1..n
      /\ \A g \in 1..n : definition[g] \in Seq(Condition) /\ hits[g] \in [DOMAIN definition[g] -> Nat]
  BY DefinitionIs DEF HitsTyped
<1>1. \A g \in 1..n : \A s \in S : Test(g, s) \in EvalState(DOMAIN definition[g])
  <2> SUFFICES ASSUME NEW g \in 1..n, NEW s \in S
               PROVE  Test(g, s) \in EvalState(DOMAIN definition[g])
    OBVIOUS
  <2>1. PICK m \in Nat : s \in EvalState(1..m)
    OBVIOUS
  <2>2. PICK conds, h, w : conds = definition[g] /\ h = hits[g] /\ w = raw[g]
    OBVIOUS
  <2>3. conds \in Seq(Condition) /\ h \in [DOMAIN conds -> Nat]
    BY <1>0, <2>2
  <2>4. PICK e : e = TestCondset(s, conds, h, w)
    OBVIOUS
  <2>5. e \in EvalState(DOMAIN conds)
    BY <2>1, <2>3, <2>4, GroupType
  <2>6. QED
    BY <2>2, <2>4, <2>5
<1>2. \A g \in 1..n : EvalState(DOMAIN definition[g]) \subseteq S
  <2> SUFFICES ASSUME NEW g \in 1..n PROVE EvalState(DOMAIN definition[g]) \subseteq S
    OBVIOUS
  <2>1. DOMAIN definition[g] = 1..Len(definition[g]) /\ Len(definition[g]) \in Nat
    BY <1>0
  <2>2. QED
    BY <2>1
<1>3. Zeroed \in S
  <2>1. 0 \in Nat /\ Zeroed \in EvalState(1..0)
    BY ZeroedType
  <2> HIDE DEF Test, step
  <2>2. QED
    BY <2>1
<1>4. step \in [1..n -> [S -> S]]
  <2> HIDE DEF S, n, Test
  <2>1. \A g \in 1..n : \A s \in S : Test(g, s) \in S
    BY <1>1, <1>2
  <2>2. QED
    BY <2>1
<1>5. PICK f \in [0..n -> S] : Solves(f, n, Zeroed, step)
  <2> HIDE DEF S, n, step
  <2>1. QED
    BY <1>0, <1>3, <1>4, RecursionExists
<1>6. DEFINE Eq(x) == x = [g \in 0..n |-> IF g = 0 THEN Zeroed ELSE Test(g, x[g - 1])]
<1>7. Eq(f)
  <2> HIDE DEF S, n, Test
  <2>1. f = [g \in 0..n |-> IF g = 0 THEN Zeroed ELSE step[g][f[g - 1]]]
    BY <1>5 DEF Solves
  <2>2. ASSUME NEW g \in 0..n, g # 0
        PROVE  step[g][f[g - 1]] = Test(g, f[g - 1])
    <3>1. g \in 1..n /\ g - 1 \in 0..n
      BY <1>0, <2>2
    <3>2. f[g - 1] \in S
      BY <3>1
    <3>3. QED
      BY <3>1, <3>2
  <2> HIDE DEF step
  <2>3. QED
    BY <2>1, <2>2
<1>8. after = CHOOSE x : Eq(x)
  BY Zenon DEF Pass
<1>9. Eq(after)
  <2> HIDE DEF Eq
  <2>1. QED
    BY <1>7, <1>8
<1>10. /\ after[0] = Zeroed
       /\ \A g \in 1..n : after[g] = Test(g, after[g - 1])
  <2> HIDE DEF S, Test, step
  <2>1. \A g \in 0..n : after[g] = IF g = 0 THEN Zeroed ELSE Test(g, after[g - 1])
    BY <1>9
  <2>2. \A g \in 1..n : g \in 0..n /\ g # 0
    BY <1>0
  <2>3. 0 \in 0..n
    BY <1>0
  <2>4. QED
    BY <2>1, <2>2, <2>3
<1>11. \A g \in 0..n : after[g] \in S
  <2>1. after[0] \in S
    BY <1>3, <1>10
  <2>2. \A g \in 1..n : after[g - 1] \in S => after[g] \in S
    <3> HIDE DEF S, n, Test
    <3>1. QED
      BY <1>1, <1>2, <1>10
  <2> HIDE DEF S, n, Test, step, Eq
  <2>3. QED
    BY <1>0, <2>1, <2>2, RecursionIn
<1>12. ASSUME NEW g \in 1..n
       PROVE  /\ after[g] = TestCondset(after[g - 1], definition[g], hits[g], raw[g])
              /\ after[g] \in EvalState(DOMAIN definition[g])
              /\ \E E : after[g - 1] \in EvalState(E)
  <2>1. g - 1 \in 0..n
    BY <1>0
  <2>2. after[g - 1] \in S
    BY <1>11, <2>1
  <2>3. after[g] = Test(g, after[g - 1]) /\ after[g] \in EvalState(DOMAIN definition[g])
    <3> HIDE DEF S, Test, n
    <3>1. QED
      BY <1>1, <1>10, <2>2
  <2>4. \E E : after[g - 1] \in EvalState(E)
    BY <2>2
  <2>5. QED
    BY <2>3, <2>4
<1>13. QED
  BY <1>0, <1>10, <1>12 DEF PassDoes

(* The meaning of a frame, from what each group says. *)
LEMMA FrameMeans ==
    ASSUME HitsTyped, TalliesUsed(definition), NEW raw
    PROVE  MeaningAt(raw)
<1> DEFINE n == Len(definition)
           Resets(g) == IsReset(definition[g], raw[g], hits[g])
<1>0. n \in Nat /\ n # 0 /\ Groups = 1..n /\ 1 \in 1..n /\ Alts \subseteq 1..n /\ n \in 1..n
  BY DefinitionIs DEF Alts
<1>1. PICK after : after = Pass(raw)
  OBVIOUS
<1>2. PassDoes(after, raw)
  BY <1>1, PassIs
<1>3. ASSUME NEW g \in 1..n
      PROVE  GroupDone(after[g], after[g - 1], definition[g], raw[g], hits[g])
  <2>1. /\ after[g] = TestCondset(after[g - 1], definition[g], hits[g], raw[g])
        /\ \E E : after[g - 1] \in EvalState(E)
    BY <1>0, <1>2 DEF PassDoes
  <2>2. PICK conds, h, w : conds = definition[g] /\ h = hits[g] /\ w = raw[g]
    OBVIOUS
  <2>3. conds \in Seq(Condition) /\ h \in [DOMAIN conds -> Nat]
    BY <1>0, <2>2, DefinitionIs DEF HitsTyped
  <2>4. Tallied(conds)
    <3>1. g \in DOMAIN definition
      BY <1>0 DEF Groups
    <3>2. QED
      BY <2>2, <3>1 DEF TalliesUsed, Tallied
  <2>5. PICK e, prev : e = after[g] /\ prev = after[g - 1]
    OBVIOUS
  <2>6. e = TestCondset(prev, conds, h, w)
    BY <2>1, <2>2, <2>5
  <2>7. PICK E : prev \in EvalState(E)
    BY <2>1, <2>5
  <2>8. GroupDone(e, prev, conds, w, h)
    BY <2>3, <2>4, <2>6, <2>7, GroupMeans
  <2>9. QED
    BY <2>2, <2>5, <2>8
<1>4. \A g \in 0..n : after[g].wasReset <=> \E k \in 1..n : k <= g /\ Resets(k)
  <2> DEFINE P == {g \in 0..n : after[g].wasReset <=> \E k \in 1..n : k <= g /\ Resets(k)}
  <2> HIDE DEF Resets
  <2>1. 0 \in P
    <3>1. ~after[0].wasReset
      BY <1>2 DEF PassDoes, Zeroed
    <3>2. QED
      BY <1>0, <3>1
  <2>2. ASSUME NEW g \in 1..n, g - 1 \in P
        PROVE  g \in P
    <3>1. after[g].wasReset <=> after[g - 1].wasReset \/ Resets(g)
      BY <1>3 DEF GroupDone, Resets
    <3>2. \A k \in 1..n : k <= g <=> (k <= g - 1 \/ k = g)
      BY <1>0
    <3>3. after[g].wasReset <=> \E k \in 1..n : k <= g /\ Resets(k)
      BY <2>2, <3>1, <3>2
    <3>4. QED
      BY <1>0, <3>3
  <2>3. \A g \in 0..n : g \in P
    <3> HIDE DEF P, n
    <3>1. QED
      BY <1>0, <2>1, <2>2, UpTo
  <2>4. QED
    BY <2>3
<1>5. after[n].wasReset <=> ResetsOn(raw)
  <2>1. n \in 0..n /\ \A k \in 1..n : k <= n
    BY <1>0
  <2> HIDE DEF n
  <2>2. QED
    BY <1>0, <1>4, <2>1 DEF ResetsOn
<1>6. ASSUME ~after[n].wasReset, NEW g \in 1..n
      PROVE  /\ after[g].isTrue <=> /\ ~IsPaused(definition[g], raw[g], hits[g])
                                    /\ IsTrue(definition[g], raw[g], hits[g])
             /\ after[g].hits = HitsOf(definition[g], raw[g], hits[g])
  <2>1. ~after[g].wasReset
    <3>1. g \in 0..n /\ n \in 0..n /\ \A k \in 1..n : k <= g => k <= n
      BY <1>0
    <3>2. QED
      BY <1>4, <1>6, <3>1
  <2>2. QED
    BY <1>3, <2>1 DEF GroupDone
<1>7. ASSUME ~after[n].wasReset
      PROVE  Ready(after) <=> FiresOn(raw)
  <2>1. Alts \subseteq 1..n /\ 1 \in 1..n
    BY <1>0
  <2> HIDE DEF n
  <2>2. QED
    BY <1>6, <1>7, <2>1 DEF Ready, FiresOn
<1>8. after[n].wasReset \in BOOLEAN /\ ResetsOn(raw) \in BOOLEAN /\ Ready(after) \in BOOLEAN
      /\ FiresOn(raw) \in BOOLEAN
  <2>1. \A g \in 1..n : after[g].wasReset \in BOOLEAN
    BY <1>0, <1>2 DEF PassDoes, EvalState
  <2>2. QED
    BY <1>0, <2>1 DEF ResetsOn, Ready, FiresOn
<1>9. \A g \in Groups : ~after[n].wasReset => after[g].hits = HitsOf(definition[g], raw[g], hits[g])
  BY <1>0, <1>6
<1>10. after \in {Pass(raw)}
  BY <1>1
<1>11. QED
  BY <1>5, <1>7, <1>8, <1>9, <1>10 DEF MeaningAt
-----------------------------------------------------------------------------
(* Hit counts stay those of the definition, whatever resets and frames do. *)
LEMMA HitsTypedKept == TriggerSpec => []HitsTyped
<1>1. TriggerInit => HitsTyped
  BY DEF TriggerInit, HitsTyped, NoHits, Groups
<1>2. HitsTyped /\ [TriggerNext]_triggerVars => HitsTyped'
  <2> SUFFICES ASSUME HitsTyped, [TriggerNext]_triggerVars
               PROVE  HitsTyped'
    OBVIOUS
  <2>1. ASSUME UNCHANGED definition, hits' = NoHits(definition)
        PROVE  HitsTyped'
    BY <2>1 DEF HitsTyped, NoHits, Groups
  <2>2. CASE Reactivate
    BY <2>1, <2>2 DEF Reactivate, ResetTrigger
  <2>3. ASSUME NEW raw \in Comparisons, Frame(raw)
        PROVE  HitsTyped'
    <3>1. PICK after : after = Pass(raw)
      OBVIOUS
    <3> DEFINE newHits == [g \in Groups |-> after[g].hits]
               newPaused == [g \in Groups |-> IF Array(definition[g], "pause") = {} THEN paused[g]
                                               ELSE after[g].isPaused]
    <3>2. \/ EvaluateReset(after, newHits, newPaused)
          \/ EvaluateReady(after, newHits)
          \/ EvaluateIdle(after, newHits)
      BY <2>3, <3>1 DEF Frame
    <3>3. UNCHANGED definition
      BY <2>3 DEF Frame
    <3>4. \A g \in Groups : newHits[g] \in [DOMAIN definition[g] -> Nat]
      BY <3>1, PassIs DEF PassDoes, EvalState
    <3> HIDE DEF newHits, newPaused
    <3>5. hits' = NoHits(definition) \/ hits' = newHits
      BY <3>2 DEF EvaluateReset, EvaluateReady, EvaluateIdle, ResetTrigger
    <3>6. CASE hits' = newHits
      BY <3>3, <3>4, <3>6 DEF HitsTyped, Groups
    <3>7. QED
      BY <2>1, <3>3, <3>5, <3>6
  <2>4. CASE UNCHANGED triggerVars
    BY <2>4 DEF triggerVars, HitsTyped, Groups
  <2>5. QED
    BY <2>2, <2>3, <2>4 DEF TriggerNext
<1>3. QED
  BY <1>1, <1>2, PTL DEF TriggerSpec

(* An achievement resets, fires and counts as its conditions say chain by chain, for every
   definition in which each chain of AddHits or SubHits ends in a condition with a target
   (rc_test_condset): the classes the conditions are sorted into and the order in which they
   are processed, what is carried along a chain, the pass that a pause cuts short and the
   flags that one group hands to the next change nothing.  Behind a chain without a target,
   which TalliesUsed excludes, the code and the meaning part (condset.c:489). *)
THEOREM MeaningKeptHolds == TriggerSpec => []MeaningKept
<1>1. HitsTyped => MeaningKept
  BY FrameMeans DEF MeaningKept
<1>2. QED
  BY <1>1, HitsTypedKept, PTL

-----------------------------------------------------------------------------
(* What an achievement measures.  Every measured condition counts hits. *)
Measures(conds, array) == \E i \in array : conds[i].type = "Measured"
CountsHits(conds) == \A i \in DOMAIN conds : conds[i].type = "Measured" => conds[i].target # 0

(* What is measured, and what is carried along a chain towards it, comes from hits of the
   conditions W, which were evaluated. *)
Backed(es, W) == es.addHits > 0 \/ es.measured > 0 => \E i \in W : es.hits[i] > 0

(* A condition that counts n hits, and what is then measured. *)
LEMMA EvaluateBacked ==
    ASSUME NEW D, NEW es \in EvalState(D), NEW i \in D, NEW c \in Condition, NEW raw,
           c.type = "Measured" => c.target # 0,
           NEW e, Does(D, es, e, c, i, raw),
           NEW W \in SUBSET D, i \notin W, Backed(es, W)
    PROVE  Backed(e, W \cup {i})
<1> DEFINE n == Counted(es, c, i, raw)
<1>1. n \in Nat /\ Total(es, n) \in Nat /\ es.addHits \in Int /\ es.measured \in Int
  BY CountedType DEF EvalState
<1>2. \A k \in W : e.hits[k] = es.hits[k]
  BY DEF Does, Carried, EvalState
<1>3. e.hits[i] = Kept(es, c, i, raw)
  BY DEF Does, Carried, EvalState
<1>4. c.type = "AddHits" => e.hits[i] = n
  BY <1>3 DEF Kept, Indirect
<1>5. c.type = "Measured" => e.hits[i] = n
  BY <1>3 DEF Kept, Indirect
<1>6. e.addHits = AddHitsAfter(es, c, i, raw)
  BY DEF Does, Carried
<1>7. e.addHits > 0 => es.addHits > 0 \/ (c.type = "AddHits" /\ n > 0)
  <2> HIDE DEF n
  <2>1. e.addHits = IF c.type = "AddHits" THEN es.addHits + n
                    ELSE IF c.type = "SubHits" THEN es.addHits - n
                    ELSE IF c.type \in Ending /\ c.target # 0 THEN 0
                    ELSE es.addHits
    BY <1>6 DEF AddHitsAfter, n
  <2>2. QED
    BY <1>1, <2>1
<1>8. e.measured > 0 => es.measured > 0 \/ es.addHits > 0 \/ (c.type = "Measured" /\ n > 0)
  <2>1. c.type # "Measured" => e.measured = es.measured
    BY DEF Does, Shown
  <2>2. c.type = "Measured" => e.measured = Total(es, n)
    BY DEF Does, Shown
  <2>3. Total(es, n) > 0 => n > 0 \/ es.addHits > 0
    BY <1>1 DEF Total
  <2>4. QED
    BY <2>1, <2>2, <2>3
<1> HIDE DEF n
<1>9. QED
  BY <1>1, <1>2, <1>4, <1>5, <1>7, <1>8 DEF Backed

(* What a pass over an array leaves of what is measured, from where it began. *)
PassShows(q, es, conds, array, short) ==
    /\ q \in EvalState(DOMAIN conds)
    /\ es.wasReset => q.wasReset
    /\ ~Measures(conds, array) => q.measured = es.measured /\ q.fromHits = es.fromHits
    /\ (es.measured # NoMeasure => es.fromHits) => (q.measured # NoMeasure => q.fromHits)
    /\ ~short /\ Measures(conds, array) => q.measured \in Nat
    /\ (\A i \in array : conds[i].type # "PauseIf") => q.isPaused = es.isPaused
    /\ \A W \in SUBSET (DOMAIN conds \ array) : Backed(es, W) => Backed(q, W \cup array)

LEMMA PassShowsStep ==
    ASSUME NEW conds \in Seq(Condition), CountsHits(conds), NEW raw, NEW short \in BOOLEAN,
           NEW es \in EvalState(DOMAIN conds), NEW A \in SUBSET (DOMAIN conds),
           NEW p, PassShows(p, es, conds, A, short),
           NEW k \in DOMAIN conds, k \notin A, NEW q, q = Evaluate(p, conds[k], k, raw),
           NEW B, B = A \cup {k}
    PROVE  PassShows(q, es, conds, B, short)
<1> DEFINE c == conds[k]
           D == DOMAIN conds
<1>1. c \in Condition /\ p \in EvalState(D) /\ (c.type = "Measured" => c.target # 0)
  BY DEF PassShows, CountsHits
<1>2. Does(D, p, q, c, k, raw)
  BY <1>1, EvaluateDoes
<1>3. q \in EvalState(D)
  BY <1>2 DEF Does
<1>4. c.type = "Measured" => q.measured \in Nat /\ q.fromHits
  BY <1>1, <1>2, CountedType DEF Does, Shown
<1>5. c.type # "Measured" => q.measured = p.measured /\ q.fromHits = p.fromHits
  BY <1>2 DEF Does, Shown
<1>6. Measures(conds, B) <=> Measures(conds, A) \/ c.type = "Measured"
  BY DEF Measures
<1>7. es.wasReset => q.wasReset
  BY <1>2 DEF Does, Judged, PassShows
<1>8. (\A i \in B : conds[i].type # "PauseIf") => q.isPaused = es.isPaused
  <2>1. c.type # "PauseIf" => q.isPaused = p.isPaused
    <3>1. q.isPaused = (p.isPaused \/ (c.type = "PauseIf" /\ ~Good(p, c, k, raw)))
      BY <1>2 DEF Does, Judged
    <3>2. QED
      BY <1>1, <3>1 DEF EvalState
  <2>2. QED
    BY <2>1 DEF PassShows
<1>9. ASSUME NEW W \in SUBSET (D \ B), Backed(es, W)
      PROVE  Backed(q, W \cup B)
  <2>1. W \in SUBSET (D \ A) /\ W \cup A \in SUBSET D /\ k \notin W \cup A
    OBVIOUS
  <2>2. Backed(p, W \cup A)
    BY <1>9, <2>1 DEF PassShows
  <2>3. Backed(q, (W \cup A) \cup {k})
    BY <1>1, <1>2, <2>1, <2>2, EvaluateBacked
  <2>4. (W \cup A) \cup {k} = W \cup B
    OBVIOUS
  <2>5. QED
    BY <2>3, <2>4
<1>10. ~Measures(conds, B) => q.measured = es.measured /\ q.fromHits = es.fromHits
  BY <1>5, <1>6 DEF PassShows
<1>11. (es.measured # NoMeasure => es.fromHits) => (q.measured # NoMeasure => q.fromHits)
  BY <1>4, <1>5 DEF PassShows
<1>12. ~short /\ Measures(conds, B) => q.measured \in Nat
  BY <1>4, <1>5, <1>6 DEF PassShows
<1>13. QED
  BY <1>3, <1>7, <1>8, <1>9, <1>10, <1>11, <1>12 DEF PassShows

LEMMA PassShowsStay ==
    ASSUME NEW conds, NEW es, NEW short \in BOOLEAN, NEW A, NEW B, A \subseteq B,
           B = A \/ short, NEW p, PassShows(p, es, conds, A, short)
    PROVE  PassShows(p, es, conds, B, short)
<1>1. Measures(conds, A) => Measures(conds, B)
  BY DEF Measures
<1>2. ASSUME NEW W \in SUBSET (DOMAIN conds \ B), Backed(es, W)
      PROVE  Backed(p, W \cup B)
  <2>1. W \in SUBSET (DOMAIN conds \ A)
    OBVIOUS
  <2>2. Backed(p, W \cup A)
    BY <1>2, <2>1 DEF PassShows
  <2>3. QED
    BY <2>2 DEF Backed
<1>3. QED
  BY <1>1, <1>2 DEF PassShows

LEMMA PassShowsAll ==
    ASSUME NEW conds \in Seq(Condition), CountsHits(conds), NEW raw, NEW short \in BOOLEAN,
           NEW es \in EvalState(DOMAIN conds), NEW array \in SUBSET (DOMAIN conds),
           NEW q, q = TestArray(es, conds, array, raw, short)
    PROVE  PassShows(q, es, conds, array, short)
<1> DEFINE n == Len(conds)
           A(k) == {i \in array : i <= k}
<1>1. PICK Q : Q = Passes(es, conds, array, raw, short)
  OBVIOUS
<1>2. /\ Q[0] = es
      /\ \A k \in 1..n : Q[k] = IF k \notin array \/ (short /\ Q[k - 1].stop) THEN Q[k - 1]
                                ELSE Evaluate(Q[k - 1], conds[k], k, raw)
  BY <1>1, PassesIs
<1>3. n \in Nat /\ DOMAIN conds = 1..n /\ n \in 0..n
  OBVIOUS
<1> DEFINE P == {k \in 0..n : PassShows(Q[k], es, conds, A(k), short)}
<1>4. 0 \in P
  <2>1. A(0) = {}
    BY <1>3
  <2>2. PassShows(es, es, conds, {}, short)
    <3>1. ~Measures(conds, {})
      BY DEF Measures
    <3>2. \A W \in SUBSET DOMAIN conds : W \cup {} = W
      OBVIOUS
    <3>3. QED
      BY <3>1, <3>2 DEF PassShows
  <2> HIDE DEF A
  <2>3. PassShows(Q[0], es, conds, A(0), short)
    BY <1>2, <2>1, <2>2
  <2>4. QED
    BY <1>3, <2>3
<1>5. ASSUME NEW k \in 1..n, k - 1 \in P
      PROVE  k \in P
  <2>1. PassShows(Q[k - 1], es, conds, A(k - 1), short) /\ k \in 0..n /\ k \in DOMAIN conds
    BY <1>3, <1>5
  <2>2. /\ A(k - 1) \in SUBSET (DOMAIN conds) /\ k \notin A(k - 1)
        /\ A(k) = A(k - 1) \cup (IF k \in array THEN {k} ELSE {})
    BY <1>3
  <2> HIDE DEF A
  <2>3. CASE k \notin array \/ (short /\ Q[k - 1].stop)
    <3>1. Q[k] = Q[k - 1] /\ A(k - 1) \subseteq A(k) /\ (A(k) = A(k - 1) \/ short)
      BY <1>2, <2>2, <2>3
    <3>2. PassShows(Q[k - 1], es, conds, A(k), short)
      BY <2>1, <3>1, PassShowsStay
    <3>3. QED
      BY <2>1, <3>1, <3>2
  <2>4. CASE ~(k \notin array \/ (short /\ Q[k - 1].stop))
    <3>1. Q[k] = Evaluate(Q[k - 1], conds[k], k, raw) /\ A(k) = A(k - 1) \cup {k}
      BY <1>2, <2>2, <2>4
    <3>2. PassShows(Q[k], es, conds, A(k), short)
      BY <2>1, <2>2, <3>1, PassShowsStep
    <3>3. QED
      BY <2>1, <3>2
  <2>5. QED
    BY <2>3, <2>4
<1>6. n \in P
  <2> HIDE DEF P
  <2>1. QED
    BY <1>3, <1>4, <1>5, UpTo
<1>7. A(n) = array /\ q = Q[n]
  BY <1>1, <1>3 DEF TestArray
<1>8. QED
  BY <1>6, <1>7

(* The classes are apart, and the measured and the pausing conditions are in theirs. *)
LEMMA ArraysShare ==
    ASSUME NEW conds \in Seq(Condition)
    PROVE  /\ \A K \in Classes : Array(conds, K) \in SUBSET (DOMAIN conds)
           /\ \A K, L \in Classes : K # L => Array(conds, K) \cap Array(conds, L) = {}
           /\ \A K \in Classes \ {"measured"} : ~Measures(conds, Array(conds, K))
           /\ Measures(conds, Array(conds, "measured")) <=> Measures(conds, DOMAIN conds)
           /\ Array(conds, "pause") = {} => \A i \in DOMAIN conds : conds[i].type # "PauseIf"
<1>1. \A i \in DOMAIN conds : conds[i].type = "Measured" => Class(conds, i) = "measured"
  BY DEF Class, ClassOf, Combining, Indirect
<1>2. \A i \in DOMAIN conds : conds[i].type = "PauseIf" => Class(conds, i) = "pause"
  BY DEF Class, ClassOf, Combining, Indirect
<1>3. QED
  BY <1>1, <1>2 DEF Array, Measures

(* The state of a group before its measured conditions, and from them on. *)
Before(q, prev, conds, W) ==
    /\ q \in EvalState(DOMAIN conds)
    /\ prev.wasReset => q.wasReset
    /\ q.measured = NoMeasure
    /\ Array(conds, "pause") = {} => ~q.isPaused
    /\ Backed(q, W)

From(q, prev, conds, W) ==
    /\ q \in EvalState(DOMAIN conds)
    /\ prev.wasReset => q.wasReset
    /\ q.measured # NoMeasure => q.fromHits
    /\ q.measured = NoMeasure <=> ~Measures(conds, DOMAIN conds)
    /\ Array(conds, "pause") = {} => ~q.isPaused
    /\ ~q.wasReset => Backed(q, W)

LEMMA BeforePass ==
    ASSUME NEW conds \in Seq(Condition), CountsHits(conds), NEW raw, NEW short \in BOOLEAN,
           NEW prev, NEW W \in SUBSET (DOMAIN conds), NEW es, Before(es, prev, conds, W),
           NEW K \in Classes \ {"measured"}, W \cap Array(conds, K) = {},
           NEW q, q = TestArray(es, conds, Array(conds, K), raw, short)
    PROVE  Before(q, prev, conds, W \cup Array(conds, K))
<1> DEFINE A == Array(conds, K)
<1>1. A \in SUBSET (DOMAIN conds) /\ ~Measures(conds, A) /\ W \in SUBSET (DOMAIN conds \ A)
      /\ es \in EvalState(DOMAIN conds)
      /\ (Array(conds, "pause") = {} => \A i \in A : conds[i].type # "PauseIf")
  BY ArraysShare DEF Before
<1> HIDE DEF A
<1>2. PassShows(q, es, conds, A, short)
  BY <1>1, PassShowsAll DEF A
<1>3. Before(q, prev, conds, W \cup A)
  BY <1>1, <1>2 DEF Before, PassShows
<1>4. QED
  BY <1>3 DEF A

LEMMA FromPass ==
    ASSUME NEW conds \in Seq(Condition), CountsHits(conds), NEW raw,
           NEW prev, NEW W \in SUBSET (DOMAIN conds), NEW es, From(es, prev, conds, W),
           W \cap Array(conds, "other") = {},
           NEW q, q = TestArray(es, conds, Array(conds, "other"), raw, FALSE)
    PROVE  From(q, prev, conds, W \cup Array(conds, "other"))
<1> DEFINE A == Array(conds, "other")
<1>1. A \in SUBSET (DOMAIN conds) /\ ~Measures(conds, A) /\ W \in SUBSET (DOMAIN conds \ A)
      /\ es \in EvalState(DOMAIN conds)
      /\ (Array(conds, "pause") = {} => \A i \in A : conds[i].type # "PauseIf")
  BY ArraysShare DEF From, Classes
<1> HIDE DEF A
<1>2. PassShows(q, es, conds, A, FALSE)
  BY <1>1, PassShowsAll DEF A
<1>3. From(q, prev, conds, W \cup A)
  BY <1>1, <1>2 DEF From, PassShows
<1>4. QED
  BY <1>3 DEF A

(* The measured conditions, with the hits cleared before them and the value withdrawn after. *)
LEMMA MeasuredPass ==
    ASSUME NEW conds \in Seq(Condition), CountsHits(conds), NEW raw,
           NEW prev, NEW W \in SUBSET (DOMAIN conds), NEW es, Before(es, prev, conds, W),
           W \cap Array(conds, "measured") = {},
           NEW m, m = ProcessMeasured(es, conds, raw)
    PROVE  From(m, prev, conds, W \cup Array(conds, "measured"))
<1> DEFINE A == Array(conds, "measured")
           D == DOMAIN conds
<1>1. PICK e0 : e0 = IF es.wasReset THEN [es EXCEPT !.hits = Cleared(@, A)] ELSE es
  OBVIOUS
<1>2. PICK e : e = TestArray(e0, conds, A, raw, FALSE)
  OBVIOUS
<1>3. m = IF e.measured # NoMeasure /\ (~e.canMeasure \/ (e.fromHits /\ e.wasReset))
          THEN [e EXCEPT !.measured = 0] ELSE e
  BY <1>1, <1>2 DEF ProcessMeasured
<1>4. A \in SUBSET D /\ W \in SUBSET (D \ A) /\ (Measures(conds, A) <=> Measures(conds, D))
      /\ es \in EvalState(D)
      /\ (Array(conds, "pause") = {} => \A i \in A : conds[i].type # "PauseIf")
  BY ArraysShare DEF Before, Classes
<1> HIDE DEF A
<1>5. /\ e0 \in EvalState(D) /\ e0.measured = es.measured /\ e0.wasReset = es.wasReset
      /\ e0.isPaused = es.isPaused /\ (~es.wasReset => e0 = es)
  <2>1. CASE es.wasReset
    <3>1. Cleared(es.hits, A) \in [D -> Nat]
      BY <1>4 DEF Cleared, EvalState
    <3>2. QED
      BY <1>1, <1>4, <2>1, <3>1 DEF EvalState
  <2>2. CASE ~es.wasReset
    BY <1>1, <1>4, <2>2
  <2>3. QED
    BY <2>1, <2>2
<1>6. PassShows(e, e0, conds, A, FALSE)
  BY <1>2, <1>4, <1>5, PassShowsAll
<1>7. /\ e \in EvalState(D) /\ (prev.wasReset => e.wasReset)
      /\ (e.measured # NoMeasure => e.fromHits)
      /\ (e.measured = NoMeasure <=> ~Measures(conds, D))
      /\ (Array(conds, "pause") = {} => ~e.isPaused)
  BY <1>4, <1>5, <1>6 DEF Before, PassShows, NoMeasure
<1>8. ~e.wasReset => Backed(e, W \cup A)
  BY <1>4, <1>5, <1>6 DEF Before, PassShows
<1>9. CASE m = e
  BY <1>7, <1>8, <1>9 DEF From, A
<1>10. CASE e.measured # NoMeasure /\ m = [e EXCEPT !.measured = 0]
  <2>1. PICK z \in Int : z = 0
    OBVIOUS
  <2>2. m \in EvalState(D) /\ m.measured = z /\ m.wasReset = e.wasReset /\ m.isPaused = e.isPaused
        /\ m.fromHits = e.fromHits /\ m.addHits = e.addHits /\ m.hits = e.hits
    BY <1>7, <1>10, <2>1 DEF EvalState
  <2>3. ~m.wasReset => Backed(m, W \cup A)
    BY <1>8, <2>1, <2>2 DEF Backed
  <2>4. QED
    BY <1>7, <1>10, <2>1, <2>2, <2>3 DEF From, NoMeasure, A
<1>11. QED
  BY <1>3, <1>9, <1>10

(* What a group leaves of what it measures, whatever its conditions. *)
GroupShows(e, prev, conds) ==
    /\ prev.wasReset => e.wasReset
    /\ e.measured # NoMeasure => e.fromHits
    /\ e.measured # NoMeasure => Measures(conds, DOMAIN conds)
    /\ Measures(conds, DOMAIN conds) /\ e.measured = NoMeasure => e.isPaused
    /\ e.isPaused => Array(conds, "pause") # {}
    /\ ~e.wasReset /\ e.measured > 0 => \E i \in DOMAIN conds : e.hits[i] > 0

LEMMA GroupMeasures ==
    ASSUME NEW conds \in Seq(Condition), CountsHits(conds), NEW raw, NEW h \in [DOMAIN conds -> Nat],
           NEW E, NEW prev \in EvalState(E), NEW e, e = TestCondset(prev, conds, h, raw)
    PROVE  GroupShows(e, prev, conds)
<1> DEFINE D == DOMAIN conds
           P == Array(conds, "pause")
           R == Array(conds, "reset")
           H == Array(conds, "hittarget")
           M == Array(conds, "measured")
           O == Array(conds, "other")
<1>1. PICK f : f = Fresh(prev, h)
  OBVIOUS
<1>2. PICK s : s = TestArray(f, conds, P, raw, TRUE)
  OBVIOUS
<1>3. PICK r : r = TestArray(s, conds, R, raw, FALSE)
  OBVIOUS
<1>4. PICK c : c = IF r.wasReset THEN r ELSE TestArray(r, conds, H, raw, FALSE)
  OBVIOUS
<1>5. PICK m : m = ProcessMeasured(c, conds, raw)
  OBVIOUS
<1>6. e = IF s.isPaused THEN s
          ELSE IF m.isTrue \/ ~m.wasReset THEN TestArray(m, conds, O, raw, FALSE) ELSE m
  BY <1>1, <1>2, <1>3, <1>4, <1>5 DEF TestCondset
<1>7. /\ P \in SUBSET D /\ R \in SUBSET D /\ H \in SUBSET D /\ M \in SUBSET D /\ O \in SUBSET D
      /\ P \cap R = {} /\ (P \cup R) \cap H = {} /\ (P \cup R \cup H) \cap M = {}
      /\ (P \cup R \cup H \cup M) \cap O = {}
  BY ArraysShare DEF Classes
<1>8. {"pause", "reset", "hittarget"} \subseteq Classes \ {"measured"}
  BY DEF Classes
<1>9. Before(f, prev, conds, {})
  <2>1. /\ f \in EvalState(D) /\ f.wasReset = prev.wasReset /\ ~f.isPaused
        /\ f.measured = NoMeasure /\ Clean(f)
    BY <1>1, FreshIs
  <2>2. QED
    BY <2>1 DEF Before, Backed, Clean, NoMeasure
<1>10. Before(s, prev, conds, P)
  <2>1. Before(s, prev, conds, {} \cup P)
    BY <1>2, <1>8, <1>9, BeforePass
  <2>2. QED
    BY <2>1
<1>11. Before(r, prev, conds, P \cup R)
  BY <1>3, <1>7, <1>8, <1>10, BeforePass
<1>12. Before(c, prev, conds, P \cup R \cup H)
  <2>1. CASE r.wasReset
    BY <1>4, <1>11, <2>1 DEF Before, Backed
  <2>2. CASE ~r.wasReset
    <3>1. P \cup R \in SUBSET D /\ c = TestArray(r, conds, H, raw, FALSE)
      BY <1>4, <1>7, <2>2
    <3>2. QED
      BY <1>7, <1>8, <1>11, <3>1, BeforePass
  <2>3. QED
    BY <2>1, <2>2
<1>13. From(m, prev, conds, P \cup R \cup H \cup M)
  <2>1. P \cup R \cup H \in SUBSET D
    BY <1>7
  <2>2. QED
    BY <1>5, <1>7, <1>12, <2>1, MeasuredPass
<1>14. CASE s.isPaused
  <2>1. e = s
    BY <1>6, <1>14
  <2>2. QED
    BY <1>10, <1>14, <2>1 DEF Before, GroupShows, NoMeasure
<1>15. ASSUME NEW W, W \in SUBSET D, From(e, prev, conds, W)
       PROVE  GroupShows(e, prev, conds)
  BY <1>15 DEF From, GroupShows, Backed
<1>16. CASE ~s.isPaused /\ (m.isTrue \/ ~m.wasReset)
  <2>1. P \cup R \cup H \cup M \in SUBSET D /\ e = TestArray(m, conds, O, raw, FALSE)
    BY <1>6, <1>7, <1>16
  <2>2. From(e, prev, conds, (P \cup R \cup H \cup M) \cup O)
    BY <1>7, <1>13, <2>1, FromPass
  <2>3. (P \cup R \cup H \cup M) \cup O \in SUBSET D
    BY <1>7
  <2>4. QED
    BY <1>15, <2>2, <2>3
<1>17. CASE ~s.isPaused /\ ~(m.isTrue \/ ~m.wasReset)
  <2>1. P \cup R \cup H \cup M \in SUBSET D /\ e = m
    BY <1>6, <1>7, <1>17
  <2>2. QED
    BY <1>13, <1>15, <2>1
<1>18. QED
  BY <1>14, <1>16, <1>17

(* The group whose value is kept, in the loop of rc_evaluate_trigger. *)
LEMMA MeasuredFromIs ==
    ASSUME HitsTyped, NEW raw, NEW after, PassDoes(after, raw)
    PROVE  /\ MeasuredFrom(after) \in Groups \cup {0}
           /\ MeasuredFrom(after) # 0 => after[MeasuredFrom(after)].measured # NoMeasure
           /\ MeasuredFrom(after) = 0 => \A g \in Groups : after[g].measured = NoMeasure
<1> DEFINE n == Len(definition)
           S == 0..n
           Better(g, b) == IF after[g].measured = NoMeasure THEN b
                           ELSE IF b = 0 \/ after[g].measured > after[b].measured THEN g ELSE b
           step == [g \in 1..n |-> [b \in S |-> Better(g, b)]]
<1>0. n \in Nat /\ Groups = 1..n /\ 0 \in S
  BY DefinitionIs
<1>1. \A g \in 1..n : \A b \in S : Better(g, b) \in S
  BY <1>0
<1>2. step \in [1..n -> [S -> S]]
  <2> HIDE DEF S, n, Better
  <2>1. QED
    BY <1>1
<1>3. PICK f \in [0..n -> S] : Solves(f, n, 0, step)
  <2> HIDE DEF S, step
  <2>1. QED
    BY <1>0, <1>2, RecursionExists
<1> DEFINE Eq(x) == x = [g \in 0..n |-> IF g = 0 THEN 0 ELSE Better(g, x[g - 1])]
<1>4. Eq(f)
  <2> HIDE DEF Better
  <2>1. f = [g \in 0..n |-> IF g = 0 THEN 0 ELSE step[g][f[g - 1]]]
    BY <1>3 DEF Solves
  <2>2. ASSUME NEW g \in 0..n, g # 0
        PROVE  step[g][f[g - 1]] = Better(g, f[g - 1])
    <3>1. g \in 1..n /\ g - 1 \in 0..n
      BY <1>0, <2>2
    <3>2. f[g - 1] \in S
      BY <3>1
    <3>3. QED
      BY <3>1, <3>2
  <2> HIDE DEF step
  <2>3. QED
    BY <2>1, <2>2
<1>5. PICK x : x = CHOOSE y : Eq(y)
  OBVIOUS
<1>6. Eq(x)
  <2> HIDE DEF Eq
  <2>1. QED
    BY <1>4, <1>5
<1>7. MeasuredFrom(after) = x[n]
  BY <1>5, Zenon DEF MeasuredFrom
<1>8. x[0] = 0 /\ \A g \in 1..n : x[g] = Better(g, x[g - 1])
  BY <1>0, <1>6
<1> DEFINE P == {k \in 0..n : /\ x[k] \in 0..n
                              /\ x[k] # 0 => after[x[k]].measured # NoMeasure
                              /\ x[k] = 0 => \A g \in 1..k : after[g].measured = NoMeasure}
<1>9. 0 \in P
  BY <1>0, <1>8
<1>10. ASSUME NEW k \in 1..n, k - 1 \in P
       PROVE  k \in P
  <2>1. x[k] = Better(k, x[k - 1]) /\ k \in 0..n /\ k # 0
    BY <1>0, <1>8
  <2>2. 1..k = 1..(k - 1) \cup {k}
    BY <1>0
  <2>3. CASE after[k].measured = NoMeasure
    BY <1>10, <2>1, <2>2, <2>3
  <2>4. CASE after[k].measured # NoMeasure
    <3>1. x[k] = k \/ (x[k] = x[k - 1] /\ x[k - 1] # 0)
      BY <2>1, <2>4
    <3>2. QED
      BY <1>10, <2>1, <2>4, <3>1
  <2>5. QED
    BY <2>3, <2>4
<1>11. n \in P
  <2> HIDE DEF P
  <2>1. n \in 0..n
    BY <1>0
  <2>2. QED
    BY <1>0, <1>9, <1>10, <2>1, UpTo
<1>12. QED
  BY <1>0, <1>7, <1>11

(* A reset that a group saw is known to the groups after it. *)
LEMMA ResetGoesOn ==
    ASSUME HitsTyped, NEW after, \A g \in Groups : after[g - 1].wasReset => after[g].wasReset,
           ~after[Len(definition)].wasReset
    PROVE  \A g \in Groups : ~after[g].wasReset
<1> DEFINE n == Len(definition)
           P == {k \in 0..n : ~after[n - k].wasReset}
<1>0. n \in Nat /\ Groups = 1..n
  BY DefinitionIs
<1>1. 0 \in P
  <2>1. n - 0 = n /\ 0 \in 0..n
    BY <1>0
  <2>2. QED
    BY <2>1
<1>2. ASSUME NEW k \in 1..n, k - 1 \in P
      PROVE  k \in P
  <2>1. n - (k - 1) \in Groups /\ (n - (k - 1)) - 1 = n - k /\ k \in 0..n
    BY <1>0
  <2>2. QED
    BY <1>2, <2>1
<1>3. \A k \in 0..n : k \in P
  <2> HIDE DEF P
  <2>1. QED
    BY <1>0, <1>1, <1>2, UpTo
<1>4. ASSUME NEW g \in Groups
      PROVE  ~after[g].wasReset
  <2>1. n - g \in 0..n /\ n - (n - g) = g
    BY <1>0
  <2>2. QED
    BY <1>3, <2>1
<1>5. QED
  BY <1>4

(* What is shown before a reset is looked at, when every measured condition counts hits:
   if no group is paused it was measured in this frame, and from hits. *)
PausedAfter(after) ==
    [g \in Groups |-> IF Array(definition[g], "pause") = {} THEN paused[g] ELSE after[g].isPaused]

UpdatedShows(after) ==
    /\ Updated(after) > 0 => IsMeasured(definition)
    /\ Updated(after) > 0 /\ (\A g \in Groups : ~PausedAfter(after)[g]) =>
          /\ MeasuredFrom(after) \in Groups
          /\ after[MeasuredFrom(after)].fromHits
          /\ ~after[Len(definition)].wasReset =>
                \E g \in Groups : \E i \in DOMAIN definition[g] : after[g].hits[i] > 0

LEMMA UpdatedIs ==
    ASSUME HitsTyped, ~MeasuresOperand, measured > 0 => IsMeasured(definition),
           NEW raw, NEW after, after = Pass(raw)
    PROVE  UpdatedShows(after)
<1> DEFINE n == Len(definition)
           b == MeasuredFrom(after)
<1>0. n \in Nat /\ Groups = 1..n /\ n # 0 /\ 1 \in Groups
  BY DefinitionIs
<1>1. PassDoes(after, raw)
  BY PassIs
<1>2. ASSUME NEW g \in Groups
      PROVE  GroupShows(after[g], after[g - 1], definition[g])
  <2>1. PICK E : after[g - 1] \in EvalState(E)
    BY <1>1 DEF PassDoes
  <2>2. PICK conds, h, w, prev, e :
           conds = definition[g] /\ h = hits[g] /\ w = raw[g] /\ prev = after[g - 1] /\ e = after[g]
    OBVIOUS
  <2>3. conds \in Seq(Condition) /\ h \in [DOMAIN conds -> Nat] /\ CountsHits(conds)
    BY <2>2, DefinitionIs DEF HitsTyped, MeasuresOperand, CountsHits
  <2>4. e = TestCondset(prev, conds, h, w) /\ prev \in EvalState(E)
    BY <1>1, <2>1, <2>2 DEF PassDoes
  <2>5. GroupShows(e, prev, conds)
    BY <2>3, <2>4, GroupMeasures
  <2>6. QED
    BY <2>2, <2>5
<1>3. b \in Groups \cup {0} /\ (b # 0 => after[b].measured # NoMeasure)
      /\ (b = 0 => \A g \in Groups : after[g].measured = NoMeasure)
  BY <1>1, MeasuredFromIs
<1> HIDE DEF n, b
<1>4. \A g \in Groups : after[g].isPaused => PausedAfter(after)[g]
  BY <1>2 DEF GroupShows, PausedAfter
<1>5. FullyPaused(after) => \E g \in Groups : after[g].isPaused
  <2>1. Alts \subseteq Groups
    BY <1>0 DEF Alts, n
  <2>2. QED
    BY <1>0, <2>1 DEF FullyPaused
<1>6. IsMeasured(definition) /\ b = 0 => \E g \in Groups : after[g].isPaused
  <2> SUFFICES ASSUME IsMeasured(definition), b = 0 PROVE \E g \in Groups : after[g].isPaused
    OBVIOUS
  <2>1. PICK g \in Groups : Measures(definition[g], DOMAIN definition[g])
    BY DEF IsMeasured, Measures, Groups
  <2>2. QED
    BY <1>2, <1>3, <2>1 DEF GroupShows
<1>7. Updated(after) = IF FullyPaused(after) \/ b = 0 THEN measured ELSE after[b].measured
  BY DEF Updated, b
<1>8. b # 0 => b \in Groups /\ after[b].fromHits /\ IsMeasured(definition)
  <2> SUFFICES ASSUME b # 0 PROVE b \in Groups /\ after[b].fromHits /\ IsMeasured(definition)
    OBVIOUS
  <2>1. b \in Groups /\ after[b].fromHits /\ Measures(definition[b], DOMAIN definition[b])
    BY <1>2, <1>3 DEF GroupShows
  <2>2. QED
    BY <2>1 DEF IsMeasured, Measures, Groups
<1>9. Updated(after) > 0 => IsMeasured(definition)
  BY <1>7, <1>8
<1>10. ASSUME Updated(after) > 0, \A g \in Groups : ~PausedAfter(after)[g]
       PROVE  /\ b \in Groups /\ after[b].fromHits
              /\ ~after[Len(definition)].wasReset =>
                    \E g \in Groups : \E i \in DOMAIN definition[g] : after[g].hits[i] > 0
  <2>1. ~FullyPaused(after)
    BY <1>4, <1>5, <1>10
  <2>2. b # 0
    BY <1>4, <1>6, <1>9, <1>10
  <2>3. b \in Groups /\ after[b].fromHits /\ after[b].measured > 0
    BY <1>7, <1>8, <1>10, <2>1, <2>2
  <2>4. ASSUME ~after[Len(definition)].wasReset
        PROVE  \E i \in DOMAIN definition[b] : after[b].hits[i] > 0
    <3>1. \A g \in Groups : after[g - 1].wasReset => after[g].wasReset
      BY <1>2 DEF GroupShows
    <3>2. \A g \in Groups : ~after[g].wasReset
      BY <2>4, <3>1, ResetGoesOn
    <3>3. QED
      BY <1>2, <2>3, <3>2 DEF GroupShows
  <2>5. QED
    BY <2>3, <2>4
<1>11. QED
  BY <1>9, <1>10 DEF UpdatedShows, b

(* What is shown is backed by hits, and only an achievement that measures shows anything. *)
MeasuredInv == MeasuredBacked /\ (measured > 0 => IsMeasured(definition))

LEMMA MeasuredInvFrame ==
    ASSUME HitsTyped, MeasuredInv, NEW raw \in Comparisons, Frame(raw)
    PROVE  MeasuredInv'
<1>1. PICK after : after = Pass(raw)
  OBVIOUS
<1> DEFINE newHits == [g \in Groups |-> after[g].hits]
<1>2. /\ paused' = PausedAfter(after)
      /\ \/ EvaluateReset(after, newHits, PausedAfter(after))
         \/ EvaluateReady(after, newHits)
         \/ EvaluateIdle(after, newHits)
      /\ definition' = definition
  BY <1>1 DEF Frame, PausedAfter
<1>3. Groups' = Groups /\ MeasuresOperand' = MeasuresOperand
      /\ IsMeasured(definition)' = IsMeasured(definition)
  BY <1>2 DEF Groups, MeasuresOperand, IsMeasured
<1>4. MeasuresOperand => IsMeasured(definition)
  BY DEF MeasuresOperand, IsMeasured, Groups
<1>5. CASE MeasuresOperand
  BY <1>3, <1>4, <1>5 DEF MeasuredInv, MeasuredBacked
<1>6. CASE ~MeasuresOperand
  <2>1. UpdatedShows(after)
    BY <1>1, <1>6, UpdatedIs DEF MeasuredInv
  <2>2. PassDoes(after, raw)
    BY <1>1, PassIs
  <2>3. CASE EvaluateReset(after, newHits, PausedAfter(after))
    <3>1. measured' = 0 \/ (measured' = Updated(after)
                             /\ ~(MeasuredFrom(after) # 0 /\ after[MeasuredFrom(after)].fromHits))
      BY <2>3 DEF EvaluateReset, UpdatedByReset
    <3>2. 0 \notin Groups
      BY DefinitionIs
    <3>3. measured' > 0 => \E g \in Groups : paused'[g]
      BY <1>2, <2>1, <3>1, <3>2 DEF UpdatedShows
    <3>4. measured' > 0 => IsMeasured(definition)
      BY <2>1, <3>1 DEF UpdatedShows
    <3>5. QED
      BY <1>3, <3>3, <3>4 DEF MeasuredInv, MeasuredBacked
  <2>4. CASE ResetTrigger
    <3>1. ~(measured' > 0)
      BY <2>4 DEF ResetTrigger, MeasuredInv, UnknownMeasure
    <3>2. QED
      BY <3>1 DEF MeasuredInv, MeasuredBacked
  <2>5. CASE hits' = newHits /\ measured' = Updated(after) /\ ~after[Len(definition)].wasReset
    <3>1. measured' > 0 => IsMeasured(definition)
      BY <2>1, <2>5 DEF UpdatedShows
    <3>2. ASSUME measured' > 0, \A g \in Groups : ~paused'[g]
          PROVE  \E g \in Groups : \E i \in DOMAIN hits'[g] : hits'[g][i] # 0
      <4>1. PICK g \in Groups : \E i \in DOMAIN definition[g] : after[g].hits[i] > 0
        BY <1>2, <2>1, <2>5, <3>2 DEF UpdatedShows
      <4>2. PICK i \in DOMAIN definition[g] : after[g].hits[i] > 0
        BY <4>1
      <4>3. after[g].hits \in [DOMAIN definition[g] -> Nat]
        BY <2>2 DEF PassDoes, EvalState
      <4>4. i \in DOMAIN after[g].hits /\ after[g].hits[i] # 0
        BY <4>2, <4>3
      <4>5. QED
        BY <2>5, <4>4
    <3>3. QED
      BY <1>3, <3>1, <3>2 DEF MeasuredInv, MeasuredBacked
  <2>6. QED
    BY <1>2, <2>3, <2>4, <2>5 DEF EvaluateReady, EvaluateIdle
<1>7. QED
  BY <1>5, <1>6

(* Progress that is counted in hits is shown only while there are hits
   (rc_evaluate_trigger, rc_reset_trigger), for every definition: what an AddHits chain
   carries to the measured condition is in hits of this very frame, and a reset that leaves
   none withdraws the value, of whichever group it came from. *)
THEOREM MeasuredBackedHolds == TriggerSpec => []MeasuredBacked
<1>1. TriggerInit => MeasuredInv
  BY DEF TriggerInit, MeasuredInv, MeasuredBacked, Unmeasured, UnknownMeasure
<1>2. HitsTyped /\ MeasuredInv /\ [TriggerNext]_triggerVars => MeasuredInv'
  <2> SUFFICES ASSUME HitsTyped, MeasuredInv, [TriggerNext]_triggerVars
               PROVE  MeasuredInv'
    OBVIOUS
  <2>1. CASE Reactivate
    <3>1. ~(measured' > 0)
      BY <2>1 DEF Reactivate, ResetTrigger, MeasuredInv, UnknownMeasure
    <3>2. QED
      BY <3>1 DEF MeasuredInv, MeasuredBacked
  <2>2. CASE \E raw \in Comparisons : Frame(raw)
    BY <2>2, MeasuredInvFrame
  <2>3. CASE UNCHANGED triggerVars
    BY <2>3 DEF triggerVars, MeasuredInv, MeasuredBacked, MeasuresOperand, IsMeasured, Groups
  <2>4. QED
    BY <2>1, <2>2, <2>3 DEF TriggerNext
<1>3. MeasuredInv => MeasuredBacked
  BY DEF MeasuredInv
<1>4. QED
  BY <1>1, <1>2, <1>3, HitsTypedKept, PTL DEF TriggerSpec

-----------------------------------------------------------------------------
(***************************************************************************
 Leaderboards.
 ***************************************************************************)
Users(tr, t) == {b \in Boards : tr[b] = t}
Count(tr, t) == Cardinality(Users(tr, t))

(* The leaderboards that point to a tracker, when one more does or one less. *)
LEMMA BoardsFinite == IsFiniteSet(Boards) /\ Cardinality(Boards) = N
  BY NAssumption, FS_Interval DEF Boards

LEMMA CountType ==
  ASSUME NEW tr, NEW t
  PROVE  /\ IsFiniteSet(Users(tr, t)) /\ Count(tr, t) \in 0..N
         /\ Count(tr, t) = 0 <=> Users(tr, t) = {}
<1>1. Users(tr, t) \in SUBSET Boards
  BY DEF Users
<1>2. IsFiniteSet(Users(tr, t)) /\ Count(tr, t) \leq N
  BY <1>1, BoardsFinite, FS_Subset DEF Count
<1>3. Count(tr, t) \in Nat
  BY <1>2, FS_CardinalityType DEF Count
<1>4. Count(tr, t) = 0 <=> Users(tr, t) = {}
  BY <1>2, FS_EmptySet DEF Count
<1> QED
  BY <1>2, <1>3, <1>4, NAssumption

LEMMA CountUp ==
  ASSUME NEW tr, tr \in [Boards -> Nat], NEW b \in Boards, NEW t \in Nat \ {0}, tr[b] = 0
  PROVE  LET new == [tr EXCEPT ![b] = t] IN
         /\ Count(new, t) = Count(tr, t) + 1
         /\ \A u \in Nat \ {0, t} : Count(new, u) = Count(tr, u)
<1> DEFINE new == [tr EXCEPT ![b] = t]
<1>1. Users(new, t) = Users(tr, t) \cup {b} /\ b \notin Users(tr, t)
  BY DEF Users
<1>2. Count(new, t) = Count(tr, t) + 1
  <2>1. IsFiniteSet(Users(tr, t))
    BY CountType
  <2>2. Cardinality(Users(tr, t) \cup {b}) = Cardinality(Users(tr, t)) + 1
    BY <1>1, <2>1, FS_AddElement
  <2> QED
    BY <1>1, <2>2 DEF Count
<1>3. ASSUME NEW u \in Nat \ {0, t}
      PROVE  Count(new, u) = Count(tr, u)
  <2>1. Users(new, u) = Users(tr, u)
    BY DEF Users
  <2> QED
    BY <2>1 DEF Count
<1> QED
  BY <1>2, <1>3

LEMMA CountDown ==
  ASSUME NEW tr, tr \in [Boards -> Nat], NEW b \in Boards, tr[b] # 0
  PROVE  LET new == [tr EXCEPT ![b] = 0] IN
         /\ Count(new, tr[b]) = Count(tr, tr[b]) - 1
         /\ \A u \in Nat \ {0, tr[b]} : Count(new, u) = Count(tr, u)
<1> DEFINE new == [tr EXCEPT ![b] = 0]
<1>1. Users(new, tr[b]) = Users(tr, tr[b]) \ {b} /\ b \in Users(tr, tr[b])
  BY DEF Users
<1>2. Count(new, tr[b]) = Count(tr, tr[b]) - 1
  <2>1. IsFiniteSet(Users(tr, tr[b]))
    BY CountType
  <2>2. Cardinality(Users(tr, tr[b]) \ {b}) = Cardinality(Users(tr, tr[b])) - 1
    BY <1>1, <2>1, FS_RemoveElement
  <2> QED
    BY <1>1, <2>2 DEF Count
<1>3. ASSUME NEW u \in Nat \ {0, tr[b]}
      PROVE  Count(new, u) = Count(tr, u)
  <2>1. Users(new, u) = Users(tr, u)
    BY DEF Users
  <2> QED
    BY <2>1 DEF Count
<1> QED
  BY <1>2, <1>3

(* An unload: the leaderboards of S leave their trackers. *)
Without(tr, S) == [b \in Boards |-> IF b \in S THEN 0 ELSE tr[b]]
Gone(tr, S, t) == {b \in S : tr[b] = t}

LEMMA CountWithout ==
  ASSUME NEW tr, NEW S \in SUBSET Boards, NEW t \in Nat \ {0}
  PROVE  Count(Without(tr, S), t) = Count(tr, t) - Cardinality(Gone(tr, S, t))
<1> DEFINE new == Without(tr, S)
           gone == Gone(tr, S, t)
<1>1. Users(tr, t) = Users(new, t) \cup gone /\ Users(new, t) \cap gone = {}
  BY DEF Users, Without, Gone
<1>2. gone \in SUBSET Boards
  BY DEF Gone
<1>3. IsFiniteSet(gone) /\ Cardinality(gone) \in Nat
  BY <1>2, BoardsFinite, FS_Subset, FS_CardinalityType
<1>4. Cardinality(Users(tr, t)) = Cardinality(Users(new, t)) + Cardinality(gone) - Cardinality({})
  BY <1>1, <1>3, CountType, FS_Union
<1> QED
  BY <1>3, <1>4, CountType, FS_EmptySet DEF Count

-----------------------------------------------------------------------------
(* The inductive invariant. *)

(* What the screen shows of a tracker, given its pending events: a tracker that is
   to be shown is not yet there; one that is to be hidden is, unless it was to be
   shown in the same frame. *)
Consistent(r, visible) ==
    /\ visible <=> "Show" \notin r.pending /\ ("Hide" \in r.pending \/ r.refs > 0)
    /\ "Hide" \in r.pending => r.refs = 0
    /\ "Show" \in r.pending => "Hide" \in r.pending \/ r.refs > 0

TrackersInv ==
    \A t \in DOMAIN trackers :
        /\ trackers[t].refs = Count(tracker, t)
        /\ Consistent(trackers[t], t \in shown)
        /\ trackers[t].pending # {} => pending /\ next # 0
        /\ t \leq Len(display) \/ "Show" \in trackers[t].pending

AttemptsInv ==
    \A b \in Boards :
        /\ state[b] = "Disabled" <=> public[b] = "Disabled"
        /\ state[b] = "Started" <=> public[b] = "Tracking"
        /\ loaded /\ state[b] = "Started" => tracker[b] # 0
        /\ tracker[b] # 0 => state[b] = "Disabled" \/ (loaded /\ state[b] = "Started")

NewsInv ==
    \A b \in Boards :
        /\ next = 0 => news[b] = None
        /\ loaded /\ news[b] = None => (b \in told <=> tracker[b] # 0)
        /\ loaded /\ news[b] = "Started" => tracker[b] # 0
        /\ loaded /\ news[b] \in {"Failed", "Submitted"} => tracker[b] = 0

IInv ==
    /\ TypeOK
    /\ TrackersInv
    /\ AttemptsInv
    /\ NewsInv
    /\ ~loaded => next = 0

-----------------------------------------------------------------------------
(* What the operators on trackers yield. *)
LEMMA Minimum ==
  ASSUME NEW S \in SUBSET Nat, S # {}
  PROVE  First(S) \in S
<1>1. PICK t \in S : \A u \in S : ~ (<<u, t>> \in OpToRel(<, Nat))
  BY WFMin, NatLessThanWellFounded, Zenon
<1>2. \A u \in S : ~(u < t)
  BY <1>1, Zenon DEF OpToRel
<1>3. \A u \in S : t <= u
  BY <1>2
<1> QED
  BY <1>3 DEF First

LEMMA ChosenCases ==
  ASSUME TypeOK, NEW d, NEW v
  PROVE  \/ Chosen(d, v) \in Shareable(d, v)
         \/ Chosen(d, v) \in Available \ Shareable(d, v)
         \/ Chosen(d, v) = Len(trackers) + 1
<1>1. Shareable(d, v) \in SUBSET Nat /\ Available \in SUBSET Nat
  BY DEF TypeOK, Shareable, Available
<1>2. CASE Shareable(d, v) # {}
  BY <1>1, <1>2, Minimum DEF Chosen
<1>3. CASE Shareable(d, v) = {} /\ Available # {}
  BY <1>1, <1>3, Minimum DEF Chosen
<1>4. CASE Shareable(d, v) = {} /\ Available = {}
  BY <1>4 DEF Chosen
<1> QED
  BY <1>2, <1>3, <1>4

LEMMA EvaluatedType ==
  ASSUME TypeOK, NEW d \in Values, NEW last \in Nat
  PROVE  Evaluated(d, last) \in Nat
<1>1. /\ frame[d] \in Nat \cup {Paused, Reset}
      /\ d \in HitValues => frame[d] # Paused
      /\ d \notin HitValues => frame[d] # Reset
  BY DEF TypeOK
<1> QED
  BY <1>1 DEF Evaluated

LEMMA EvaluationType ==
  ASSUME TypeOK, NEW b \in Boards, NEW value0 \in Nat, NEW progress0 \in Nat,
         EvaluateRunning(b, value0, progress0) \/ EvaluateFinal(b, value0, progress0)
  PROVE  /\ current' \in [Boards -> Nat] /\ captured' \in [Boards -> Nat]
         /\ progressed' \in [Boards -> Nat] /\ current'[b] \in Nat
<1>1. value[b] \in Values /\ (progress[b] # None => progress[b] \in Values)
  BY DEF TypeOK
<1>2. Evaluated(value[b], value0) \in Nat
  BY <1>1, EvaluatedType
<1>3. progress[b] # None => Evaluated(progress[b], progress0) \in Nat
  BY <1>1, EvaluatedType
<1> HIDE DEF None
<1>4. CASE EvaluateRunning(b, value0, progress0)
  BY <1>2, <1>3, <1>4 DEF TypeOK, EvaluateRunning
<1>5. CASE EvaluateFinal(b, value0, progress0)
  BY <1>2, <1>5 DEF TypeOK, EvaluateFinal
<1> QED
  BY <1>4, <1>5

(* The trackers when one of them changes, or a new one comes. *)
LEMMA OneTracker ==
  ASSUME TypeOK, TrackersInv, NEW t \in 1..(Len(trackers) + 1), NEW r \in Tracker,
         trackers' = IF t \in DOMAIN trackers THEN [trackers EXCEPT ![t] = r] ELSE Append(trackers, r),
         shown' = shown, display' = display, next' # 0, pending => pending',
         r.refs = Count(tracker', t),
         \A u \in DOMAIN trackers \ {t} : Count(tracker', u) = Count(tracker, u),
         Consistent(r, t \in shown), r.pending # {} => pending',
         t \leq Len(display) \/ "Show" \in r.pending
  PROVE  /\ TrackersInv' /\ trackers' \in Seq(Tracker)
         /\ Len(trackers') \in Nat /\ Len(trackers') \geq Len(trackers) /\ t \leq Len(trackers')
<1>1. trackers \in Seq(Tracker) /\ Len(trackers) \in Nat
  BY DEF TypeOK
<1>2. CASE t \in DOMAIN trackers
  <2>1. /\ trackers' \in Seq(Tracker) /\ Len(trackers') = Len(trackers)
        /\ DOMAIN trackers' = DOMAIN trackers
        /\ trackers'[t] = r /\ \A u \in DOMAIN trackers \ {t} : trackers'[u] = trackers[u]
    BY <1>1, <1>2
  <2> QED
    BY <1>1, <1>2, <2>1 DEF TrackersInv
<1>3. CASE t \notin DOMAIN trackers
  <2>1. t = Len(trackers) + 1
    BY <1>1, <1>3
  <2>2. /\ trackers' \in Seq(Tracker) /\ Len(trackers') = Len(trackers) + 1
        /\ DOMAIN trackers' = DOMAIN trackers \cup {t}
        /\ trackers'[t] = r /\ \A u \in DOMAIN trackers : trackers'[u] = trackers[u]
    BY <1>1, <1>3, <2>1
  <2> QED
    BY <1>1, <1>3, <2>1, <2>2 DEF TrackersInv
<1> QED
  BY <1>2, <1>3

-----------------------------------------------------------------------------
(* The steps.  A leaderboard is evaluated only while the game is loaded. *)
LEMMA Turning ==
  ASSUME IInv, NEW b \in Boards, Turn(b)
  PROVE  /\ loaded /\ loaded' = loaded /\ next' \in 1..(N + 1) /\ next' # 0
         /\ Len(trackers) \in Nat /\ value[b] \in Values /\ tracker \in [Boards -> Nat]
<1>1. loaded /\ loaded' = loaded /\ next' = next + 1 /\ next \in 1..N
  BY NAssumption DEF IInv, TypeOK, Turn, Boards
<1>2. Len(trackers) \in Nat /\ value[b] \in Values /\ tracker \in [Boards -> Nat]
  BY DEF IInv, TypeOK
<1> QED
  BY <1>1, <1>2, NAssumption

(* The tracker that an attempt takes, and its record then: its users and its record
   agree again. *)
Slot(b, v) == Chosen(value[b], v)
Entry(b, v) ==
    IF Slot(b, v) \in Shareable(value[b], v) THEN Attached(trackers[Slot(b, v)], v) ELSE New(value[b], v)
Pointing(b, v) == [tracker EXCEPT ![b] = Slot(b, v)]
SameCounts(tr, t) == \A u \in DOMAIN trackers \ {t} : Count(tr, u) = Count(tracker, u)

LEMMA Taken ==
  ASSUME TypeOK, TrackersInv, NEW b \in Boards, tracker[b] = 0, NEW v \in Nat
  PROVE  LET t == Slot(b, v)
             r == Entry(b, v)
             tr == Pointing(b, v)
         IN
         /\ t \in 1..(Len(trackers) + 1)
         /\ r \in Tracker /\ r.refs = Count(tr, t) /\ r.refs = Count(tracker, t) + 1
         /\ SameCounts(tr, t)
         /\ Consistent(r, t \in shown)
         /\ t \in Shareable(value[b], v) => r.refs > 1
         /\ r.pending # {} => pending \/ (t \in Shareable(value[b], v) => trackers[t].raw # v)
         /\ t \leq Len(display) \/ "Show" \in r.pending
         /\ Allocated(value[b], v) =
              IF t \in DOMAIN trackers THEN [trackers EXCEPT ![t] = r] ELSE Append(trackers, r)
<1> DEFINE d == value[b]
           t == Slot(b, v)
           r == Entry(b, v)
           tr == Pointing(b, v)
<1>1. /\ trackers \in Seq(Tracker) /\ Len(trackers) \in Nat /\ DOMAIN trackers = 1..Len(trackers)
      /\ d \in Values /\ tracker \in [Boards -> 0..Len(trackers)] /\ tracker \in [Boards -> Nat]
      /\ shown \subseteq 1..Len(trackers)
  BY DEF TypeOK
<1>2. /\ \/ t \in Shareable(d, v)
         \/ t \in Available \ Shareable(d, v)
         \/ t = Len(trackers) + 1
      /\ Shareable(d, v) \subseteq DOMAIN trackers /\ Available \subseteq DOMAIN trackers
  BY ChosenCases DEF Shareable, Available, Slot
<1>3. t \in 1..(Len(trackers) + 1)
  BY <1>1, <1>2
<1>4. tr = [tracker EXCEPT ![b] = t]
  BY DEF Pointing
<1> HIDE DEF t, tr
<1>5. /\ Count(tr, t) = Count(tracker, t) + 1
      /\ SameCounts(tr, t)
  <2>1. t \in Nat \ {0} /\ DOMAIN trackers \ {t} \subseteq Nat \ {0, t}
    BY <1>1, <1>3
  <2>2. /\ Count([tracker EXCEPT ![b] = t], t) = Count(tracker, t) + 1
        /\ \A u \in Nat \ {0, t} : Count([tracker EXCEPT ![b] = t], u) = Count(tracker, u)
    <3>1. tracker \in [Boards -> Nat] /\ t \in Nat \ {0} /\ tracker[b] = 0
      BY <1>1, <2>1
    <3> QED
      BY <3>1, CountUp
  <2> QED
    BY <1>4, <2>1, <2>2 DEF SameCounts
<1>6. Count(tr, t) \in 0..N /\ N \in Nat
  BY CountType, NAssumption
<1>7. CASE t \in Shareable(d, v)
  <2>1. /\ trackers[t] \in Tracker /\ trackers[t].refs = Count(tracker, t) /\ trackers[t].refs > 0
        /\ Consistent(trackers[t], t \in shown) /\ (trackers[t].pending # {} => pending)
        /\ t \leq Len(display) \/ "Show" \in trackers[t].pending
    BY <1>1, <1>2, <1>7 DEF Shareable, TrackersInv
  <2>2. r = [refs |-> trackers[t].refs + 1, value |-> trackers[t].value, raw |-> v,
             pending |-> (IF trackers[t].raw = v THEN trackers[t].pending
                          ELSE trackers[t].pending \cup {"Update"}) \ {"Hide"}]
    BY <1>7, <2>1 DEF Attached, Shows, Tracker, Entry, t
  <2> HIDE DEF r
  <2>3. r \in Tracker /\ r.refs = Count(tr, t) /\ r.refs > 1
    BY <1>5, <1>6, <2>1, <2>2 DEF Tracker
  <2>4. Consistent(r, t \in shown)
    BY <2>1, <2>2 DEF Consistent, Tracker
  <2>5. /\ r.pending # {} => pending \/ trackers[t].raw # v
        /\ t \leq Len(display) \/ "Show" \in r.pending
    BY <2>1, <2>2
  <2>6. Allocated(d, v) = [trackers EXCEPT ![t] = r] /\ t \in DOMAIN trackers
    BY <1>2, <1>7 DEF Allocated, Slot, Entry, r, t
  <2> QED
    BY <1>3, <1>5, <1>7, <2>3, <2>4, <2>5, <2>6 DEF r, t, tr
<1>8. CASE t \in Available \ Shareable(d, v)
  <2>1. trackers[t].refs = 0 /\ trackers[t].pending = {} /\ Count(tracker, t) = 0 /\ t \notin shown
    BY <1>1, <1>2, <1>8 DEF Available, TrackersInv, Consistent
  <2>2. /\ r \in Tracker /\ r.refs = Count(tr, t) /\ Consistent(r, t \in shown)
        /\ "Show" \in r.pending
    BY <1>1, <1>5, <1>6, <1>8, <2>1 DEF New, Tracker, Consistent, Entry, t
  <2>3. Allocated(d, v) = [trackers EXCEPT ![t] = r] /\ t \in DOMAIN trackers
    BY <1>2, <1>8 DEF Allocated, Slot, Entry, r, t
  <2>4. r.refs = Count(tracker, t) + 1
    BY <1>5, <2>2
  <2>5. t \notin Shareable(d, v)
    BY <1>8
  <2> HIDE DEF r
  <2> QED
    BY <1>3, <1>5, <2>2, <2>3, <2>4, <2>5 DEF r, t, tr
<1>9. CASE t = Len(trackers) + 1
  <2>1. Users(tracker, t) = {} /\ t \notin shown /\ t \notin DOMAIN trackers
    BY <1>1, <1>9 DEF Users
  <2>2. Count(tracker, t) = 0
    BY <2>1, CountType
  <2>3. t \notin Shareable(d, v) /\ t \notin Available
    BY <1>2, <2>1
  <2>4. /\ r \in Tracker /\ r.refs = Count(tr, t) /\ Consistent(r, t \in shown)
        /\ "Show" \in r.pending
    BY <1>1, <1>5, <1>6, <2>1, <2>2, <2>3 DEF New, Tracker, Consistent, Entry, t
  <2> QED
    BY <1>1, <1>3, <1>5, <2>1, <2>3, <2>4 DEF Allocated, Slot, Entry, r, t, tr
<1> QED
  BY <1>2, <1>7, <1>8, <1>9 DEF r, t, tr

LEMMA AppendThenChange ==
  ASSUME NEW S, NEW s \in Seq(S), NEW x \in S, NEW y \in S
  PROVE  [Append(s, x) EXCEPT ![Len(s) + 1] = y] = Append(s, y)
<1> DEFINE n == Len(s) + 1
           a == Append(s, x)
           c == Append(s, y)
<1>1. /\ a \in Seq(S) /\ Len(a) = n /\ DOMAIN a = 1..n /\ \A i \in 1..Len(s) : a[i] = s[i]
      /\ c \in Seq(S) /\ Len(c) = n /\ DOMAIN c = 1..n /\ \A i \in 1..Len(s) : c[i] = s[i]
      /\ c[n] = y /\ Len(s) \in Nat
  OBVIOUS
<1> HIDE DEF a, c
<1>2. c = [i \in 1..n |-> c[i]]
  <2>1. c = [i \in DOMAIN c |-> c[i]]
    BY <1>1
  <2> QED
    BY <1>1, <2>1
<1>3. [a EXCEPT ![n] = y] = [i \in 1..n |-> IF i = n THEN y ELSE a[i]]
  BY <1>1
<1>4. \A i \in 1..n : (IF i = n THEN y ELSE a[i]) = c[i]
  BY <1>1
<1>5. [a EXCEPT ![n] = y] = c
  BY <1>2, <1>3, <1>4
<1> QED
  BY <1>5 DEF a, c

(* An attempt that gives its tracker back. *)
LEMMA GivenBack ==
  ASSUME NEW r \in Tracker, r.refs > 0, NEW t, NEW S, Consistent(r, t \in S)
  PROVE  /\ Released(r) \in Tracker /\ Released(r).refs = r.refs - 1
         /\ Consistent(Released(r), t \in S)
         /\ Released(r).pending = IF r.refs = 1 THEN r.pending \cup {"Hide"} ELSE r.pending
<1>1. Released(r) = [refs |-> r.refs - 1, value |-> r.value, raw |-> r.raw,
                     pending |-> IF r.refs = 1 THEN r.pending \cup {"Hide"} ELSE r.pending]
  <2> DEFINE x == r.refs - 1
             q == IF r.refs = 1 THEN r.pending \cup {"Hide"} ELSE r.pending
             one == [r EXCEPT !.refs = x]
  <2> HIDE DEF x, q
  <2>1. one = [refs |-> x, value |-> r.value, raw |-> r.raw, pending |-> r.pending]
    BY DEF Tracker
  <2>2. [r EXCEPT !.refs = x, !.pending = q] = [one EXCEPT !.pending = q]
    BY DEF Tracker
  <2> HIDE DEF one
  <2>3. [one EXCEPT !.pending = q] = [refs |-> x, value |-> r.value, raw |-> r.raw, pending |-> q]
    BY <2>1
  <2> QED
    BY <2>2, <2>3 DEF Released, x, q
<1>2. Released(r) \in Tracker
  BY <1>1, NAssumption DEF Tracker
<1>3. Consistent(Released(r), t \in S)
  BY <1>1 DEF Consistent, Tracker
<1> QED
  BY <1>1, <1>2, <1>3

-----------------------------------------------------------------------------
(* The turns that leave the trackers alone. *)
LEMMA SameTrackers ==
  ASSUME TrackersInv, next' # 0, UNCHANGED <<tracker, trackers, pending, shown, display>>
  PROVE  TrackersInv'
BY DEF TrackersInv

LEMMA SkipStep ==
  ASSUME IInv, NEW b \in Boards, Skip(b)
  PROVE  IInv'
<1>1. loaded /\ loaded' = loaded /\ next' \in 1..(N + 1) /\ next' # 0
  BY Turning DEF Skip
<1>2. UNCHANGED <<definitions, boards, trackers, pending, frame, screen>>
  BY DEF Skip, Turn
<1>3. TypeOK'
  BY <1>1, <1>2, NAssumption DEF IInv, TypeOK, definitions, boards, screen
<1>4. TrackersInv'
  BY <1>1, <1>2, SameTrackers DEF IInv, boards, screen
<1>5. AttemptsInv' /\ NewsInv'
  BY <1>1, <1>2 DEF IInv, AttemptsInv, NewsInv, boards, screen
<1> QED
  BY <1>1, <1>3, <1>4, <1>5 DEF IInv

LEMMA WaitStep ==
  ASSUME IInv, NEW b \in Boards, NEW start \in BOOLEAN, Wait(b, start)
  PROVE  IInv'
<1>1. loaded /\ loaded' = loaded /\ next' \in 1..(N + 1) /\ next' # 0
  BY Turning DEF Wait
<1>2. /\ UNCHANGED <<definitions, frame, screen, captured, progressed, tracker, trackers, pending, public, news>>
      /\ current' = [current EXCEPT ![b] = 0]
      /\ state' = state \/ state' = [state EXCEPT ![b] = "Active"]
      /\ state[b] \in {"Waiting", "Canceled", "Triggered"}
  BY DEF Wait, Turn, NoValue
<1>3. TypeOK'
  <2>1. /\ next' \in 0..(N + 1) /\ current' \in [Boards -> Nat]
        /\ state' \in [Boards -> {"Waiting", "Active", "Started", "Canceled", "Triggered", "Disabled"}]
    BY <1>1, <1>2, NAssumption DEF IInv, TypeOK
  <2> QED
    BY <1>1, <1>2, <2>1 DEF IInv, TypeOK, definitions, screen
<1>4. TrackersInv'
  BY <1>1, <1>2, SameTrackers DEF IInv, screen
<1>5. AttemptsInv'
  BY <1>1, <1>2 DEF IInv, TypeOK, AttemptsInv
<1>6. NewsInv'
  BY <1>1, <1>2 DEF IInv, NewsInv, screen
<1> QED
  BY <1>1, <1>3, <1>4, <1>5, <1>6 DEF IInv

LEMMA IdleStep ==
  ASSUME IInv, NEW b \in Boards, Idle(b)
  PROVE  IInv'
<1>1. loaded /\ loaded' = loaded /\ next' \in 1..(N + 1) /\ next' # 0
  BY Turning DEF Idle
<1>2. /\ UNCHANGED <<definitions, frame, screen, captured, progressed, tracker, trackers, pending, state, public, news>>
      /\ current' = [current EXCEPT ![b] = 0]
  BY DEF Idle, Turn, NoValue
<1>3. TypeOK'
  BY <1>1, <1>2, NAssumption DEF IInv, TypeOK, definitions, screen
<1>4. TrackersInv'
  BY <1>1, <1>2, SameTrackers DEF IInv, screen
<1>5. AttemptsInv' /\ NewsInv'
  BY <1>1, <1>2 DEF IInv, AttemptsInv, NewsInv, screen
<1> QED
  BY <1>1, <1>3, <1>4, <1>5 DEF IInv

-----------------------------------------------------------------------------
(* The turns that take, show or give back a tracker. *)

(* Of the type, what these turns change. *)
LEMMA TypeStep ==
  ASSUME TypeOK, UNCHANGED <<definitions, frame, screen, loaded>>, next' \in 0..(N + 1),
         state' \in [Boards -> {"Waiting", "Active", "Started", "Canceled", "Triggered", "Disabled"}],
         public' \in [Boards -> {"Active", "Tracking", "Disabled"}],
         news' \in [Boards -> {None, "Started", "Failed", "Submitted"}],
         current' \in [Boards -> Nat], captured' \in [Boards -> Nat], progressed' \in [Boards -> Nat],
         tracker' \in [Boards -> 0..Len(trackers')], trackers' \in Seq(Tracker), pending' \in BOOLEAN,
         Len(trackers') \in Nat, Len(trackers') \geq Len(trackers)
  PROVE  TypeOK'
<1>1. Len(trackers) \in Nat
  BY DEF TypeOK
<1>2. display' \in Seq(Nat) /\ Len(display') \leq Len(trackers')
  BY <1>1 DEF TypeOK, screen
<1>3. shown' \subseteq 1..Len(trackers')
  BY <1>1 DEF TypeOK, screen
<1>4. /\ value' \in [Boards -> Values] /\ progress' \in [Boards -> Values \cup {None}]
      /\ frame' \in [Values -> Nat \cup {Paused, Reset}]
      /\ \A d \in Values : frame'[d] # IF d \in HitValues THEN Paused ELSE Reset
      /\ told' \subseteq Boards /\ loaded' \in BOOLEAN
  BY DEF TypeOK, definitions, screen
<1> QED
  BY <1>2, <1>3, <1>4 DEF TypeOK

(* An attempt that starts or ends: the leaderboard's state, what the game shows of
   it and the event agree with its tracker again. *)
LEMMA Moving ==
  ASSUME IInv, NEW b \in Boards, loaded, loaded' = loaded, next' # 0, told' = told,
         state[b] \in {"Active", "Started"},
         \A c \in Boards \ {b} : tracker'[c] = tracker[c],
         \/ Moves(b, "Started", "Tracking", "Started") /\ tracker'[b] # 0
         \/ Moves(b, "Canceled", "Active", "Failed") /\ tracker'[b] = 0
         \/ Moves(b, "Triggered", "Active", "Submitted") /\ tracker'[b] = 0
  PROVE  /\ state' \in [Boards -> {"Waiting", "Active", "Started", "Canceled", "Triggered", "Disabled"}]
         /\ public' \in [Boards -> {"Active", "Tracking", "Disabled"}]
         /\ news' \in [Boards -> {None, "Started", "Failed", "Submitted"}]
         /\ AttemptsInv' /\ NewsInv'
<1>1. PICK to \in {"Started", "Canceled", "Triggered"}, visible \in {"Active", "Tracking"},
           event \in {"Started", "Failed", "Submitted"} :
        /\ Moves(b, to, visible, event)
        /\ to = "Started" <=> visible = "Tracking"
        /\ tracker'[b] # 0 <=> to = "Started"
        /\ event = "Started" <=> to = "Started"
  OBVIOUS
<1>2. /\ state' = [state EXCEPT ![b] = to] /\ public' = [public EXCEPT ![b] = visible]
      /\ news' = [news EXCEPT ![b] = event]
  BY <1>1 DEF Moves
<1>3. /\ state \in [Boards -> {"Waiting", "Active", "Started", "Canceled", "Triggered", "Disabled"}]
      /\ public \in [Boards -> {"Active", "Tracking", "Disabled"}]
      /\ news \in [Boards -> {None, "Started", "Failed", "Submitted"}]
  BY DEF IInv, TypeOK
<1>4. AttemptsInv'
  <2>1. ASSUME NEW c \in Boards
        PROVE  /\ state'[c] = "Disabled" <=> public'[c] = "Disabled"
               /\ state'[c] = "Started" <=> public'[c] = "Tracking"
               /\ loaded' /\ state'[c] = "Started" => tracker'[c] # 0
               /\ tracker'[c] # 0 => state'[c] = "Disabled" \/ (loaded' /\ state'[c] = "Started")
    <3>1. CASE c = b
      BY <1>1, <1>2, <1>3, <3>1
    <3>2. CASE c # b
      BY <1>2, <1>3, <3>2 DEF IInv, AttemptsInv
    <3> QED
      BY <3>1, <3>2
  <2> QED
    BY <2>1 DEF AttemptsInv
<1>5. NewsInv'
  <2>1. ASSUME NEW c \in Boards
        PROVE  /\ next' = 0 => news'[c] = None
               /\ loaded' /\ news'[c] = None => (c \in told' <=> tracker'[c] # 0)
               /\ loaded' /\ news'[c] = "Started" => tracker'[c] # 0
               /\ loaded' /\ news'[c] \in {"Failed", "Submitted"} => tracker'[c] = 0
    <3>1. CASE c = b
      BY <1>1, <1>2, <1>3, <3>1 DEF None
    <3>2. CASE c # b
      BY <1>2, <1>3, <3>2 DEF IInv, NewsInv
    <3> QED
      BY <3>1, <3>2
  <2> QED
    BY <2>1 DEF NewsInv
<1> QED
  BY <1>2, <1>3, <1>4, <1>5

LEMMA StartStep ==
  ASSUME IInv, NEW b \in Boards, Start(b)
  PROVE  IInv'
<1> DEFINE v == current'[b]
           t == Slot(b, v)
           r == Entry(b, v)
<1>1. /\ loaded /\ loaded' = loaded /\ next' \in 1..(N + 1) /\ next' # 0
      /\ Len(trackers) \in Nat /\ value[b] \in Values /\ tracker \in [Boards -> Nat]
  BY Turning DEF Start
<1>2. state[b] = "Active" /\ tracker[b] = 0
  BY <1>1 DEF Start, IInv, AttemptsInv, TypeOK
<1>3. /\ current' \in [Boards -> Nat] /\ captured' \in [Boards -> Nat]
      /\ progressed' \in [Boards -> Nat] /\ v \in Nat
  BY EvaluationType DEF Start, IInv
<1>4. /\ tracker' = [tracker EXCEPT ![b] = t]
      /\ trackers' = Allocated(value[b], v)
      /\ pending' = (pending \/ (t \in Shareable(value[b], v) => trackers[t].raw # v))
      /\ UNCHANGED <<definitions, frame, screen, loaded>>
      /\ Moves(b, "Started", "Tracking", "Started")
  BY DEF Start, Turn, Slot
<1>5. /\ t \in 1..(Len(trackers) + 1)
      /\ r \in Tracker /\ r.refs = Count(tracker', t)
      /\ \A u \in DOMAIN trackers \ {t} : Count(tracker', u) = Count(tracker, u)
      /\ Consistent(r, t \in shown)
      /\ r.pending # {} => pending \/ (t \in Shareable(value[b], v) => trackers[t].raw # v)
      /\ t \leq Len(display) \/ "Show" \in r.pending
      /\ Allocated(value[b], v) =
           IF t \in DOMAIN trackers THEN [trackers EXCEPT ![t] = r] ELSE Append(trackers, r)
  <2>1. TypeOK /\ TrackersInv
    BY DEF IInv
  <2>2. v \in Nat
    BY <1>3
  <2> HIDE DEF v
  <2> DEFINE tr == Pointing(b, v)
  <2>3. /\ t \in 1..(Len(trackers) + 1)
        /\ r \in Tracker /\ r.refs = Count(tr, t)
        /\ SameCounts(tr, t)
        /\ Consistent(r, t \in shown)
        /\ r.pending # {} => pending \/ (t \in Shareable(value[b], v) => trackers[t].raw # v)
        /\ t \leq Len(display) \/ "Show" \in r.pending
        /\ Allocated(value[b], v) =
             IF t \in DOMAIN trackers THEN [trackers EXCEPT ![t] = r] ELSE Append(trackers, r)
    BY <1>2, <2>1, <2>2, Taken
  <2>4. tracker' = tr
    BY <1>4 DEF Pointing
  <2> HIDE DEF t, r, tr
  <2> QED
    BY <2>3, <2>4 DEF SameCounts
<1>6. r.pending # {} => pending'
  BY <1>4, <1>5
<1>7. /\ TrackersInv' /\ trackers' \in Seq(Tracker)
      /\ Len(trackers') \in Nat /\ Len(trackers') \geq Len(trackers) /\ t \leq Len(trackers')
  <2> HIDE DEF t, v, r
  <2>1. shown' = shown /\ display' = display /\ (pending => pending')
    BY <1>4 DEF screen
  <2>2. trackers' = IF t \in DOMAIN trackers THEN [trackers EXCEPT ![t] = r] ELSE Append(trackers, r)
    BY <1>4, <1>5
  <2> QED
    BY <1>1, <1>5, <1>6, <2>1, <2>2, OneTracker DEF IInv
<1> HIDE DEF t, v, r
<1>8. tracker' \in [Boards -> 0..Len(trackers')] /\ tracker' = [tracker EXCEPT ![b] = t]
  BY <1>1, <1>4, <1>5, <1>7 DEF IInv, TypeOK, t
<1>9. /\ state' \in [Boards -> {"Waiting", "Active", "Started", "Canceled", "Triggered", "Disabled"}]
      /\ public' \in [Boards -> {"Active", "Tracking", "Disabled"}]
      /\ news' \in [Boards -> {None, "Started", "Failed", "Submitted"}]
      /\ AttemptsInv' /\ NewsInv'
  <2>1. tracker'[b] # 0 /\ \A c \in Boards \ {b} : tracker'[c] = tracker[c]
    BY <1>1, <1>5, <1>8
  <2>2. told' = told
    BY <1>4 DEF screen
  <2> QED
    BY <1>1, <1>2, <1>4, <2>1, <2>2, Moving
<1>10. TypeOK'
  <2>1. /\ pending' \in BOOLEAN /\ next' \in 0..(N + 1) /\ TypeOK
        /\ UNCHANGED <<definitions, frame, screen, loaded>>
    BY <1>1, <1>4, NAssumption DEF IInv
  <2> QED
    BY <1>3, <1>7, <1>8, <1>9, <2>1, TypeStep
<1> QED
  BY <1>1, <1>7, <1>9, <1>10 DEF IInv

LEMMA TrackStep ==
  ASSUME IInv, NEW b \in Boards, Track(b)
  PROVE  IInv'
<1> DEFINE v == current'[b]
           t == tracker[b]
           r == Shows(trackers[t], v)
<1>1. /\ loaded /\ loaded' = loaded /\ next' \in 1..(N + 1) /\ next' # 0
      /\ Len(trackers) \in Nat /\ tracker \in [Boards -> Nat]
  BY Turning DEF Track
<1>2. /\ t \in DOMAIN trackers /\ t \in 1..(Len(trackers) + 1) /\ trackers[t] \in Tracker
      /\ trackers[t].refs = Count(tracker, t) /\ Consistent(trackers[t], t \in shown)
      /\ trackers[t].pending # {} => pending
      /\ t \leq Len(display) \/ "Show" \in trackers[t].pending
  BY <1>1 DEF Track, IInv, AttemptsInv, TypeOK, TrackersInv
<1>3. /\ current' \in [Boards -> Nat] /\ captured' \in [Boards -> Nat]
      /\ progressed' \in [Boards -> Nat] /\ v \in Nat
  <2>1. captured[b] \in Nat /\ progressed[b] \in Nat
    BY DEF IInv, TypeOK
  <2> QED
    BY <2>1, EvaluationType DEF Track, IInv
<1>4. /\ trackers' = [trackers EXCEPT ![t] = r]
      /\ pending' = (pending \/ trackers[t].raw # v)
      /\ UNCHANGED <<definitions, frame, screen, loaded, state, public, tracker, news>>
  BY DEF Track, Turn
<1> HIDE DEF t, v
<1>5. /\ r \in Tracker /\ r.refs = trackers[t].refs /\ Consistent(r, t \in shown)
      /\ r.pending # {} => pending'
      /\ t \leq Len(display) \/ "Show" \in r.pending
  BY <1>2, <1>3, <1>4 DEF Shows, Tracker, Consistent
<1> HIDE DEF r
<1>6. /\ TrackersInv' /\ trackers' \in Seq(Tracker)
      /\ Len(trackers') \in Nat /\ Len(trackers') \geq Len(trackers)
  <2>1. shown' = shown /\ display' = display /\ (pending => pending') /\ tracker' = tracker
    BY <1>4 DEF screen
  <2>2. trackers' = IF t \in DOMAIN trackers THEN [trackers EXCEPT ![t] = r] ELSE Append(trackers, r)
    BY <1>2, <1>4
  <2>3. r.refs = Count(tracker', t) /\ \A u \in DOMAIN trackers \ {t} : Count(tracker', u) = Count(tracker, u)
    BY <1>2, <1>5, <2>1
  <2> QED
    BY <1>1, <1>2, <1>5, <2>1, <2>2, <2>3, OneTracker DEF IInv
<1>7. TypeOK'
  <2>1. /\ pending' \in BOOLEAN /\ tracker' \in [Boards -> 0..Len(trackers')]
        /\ state' \in [Boards -> {"Waiting", "Active", "Started", "Canceled", "Triggered", "Disabled"}]
        /\ public' \in [Boards -> {"Active", "Tracking", "Disabled"}]
        /\ news' \in [Boards -> {None, "Started", "Failed", "Submitted"}]
    BY <1>1, <1>4, <1>6 DEF IInv, TypeOK
  <2> QED
    BY <1>1, <1>3, <1>4, <1>6, <2>1, TypeStep DEF IInv
<1>8. AttemptsInv' /\ NewsInv'
  BY <1>1, <1>4 DEF IInv, AttemptsInv, NewsInv, screen
<1> QED
  BY <1>1, <1>6, <1>7, <1>8 DEF IInv

LEMMA SubmitAtOnceStep ==
  ASSUME IInv, NEW b \in Boards, SubmitAtOnce(b)
  PROVE  IInv'
<1> DEFINE v == current'[b]
           t == Slot(b, v)
           r == Entry(b, v)
           taken == Allocated(value[b], v)
<1>1. /\ loaded /\ loaded' = loaded /\ next' \in 1..(N + 1) /\ next' # 0
      /\ Len(trackers) \in Nat /\ value[b] \in Values /\ tracker \in [Boards -> Nat]
      /\ trackers \in Seq(Tracker)
  BY Turning DEF SubmitAtOnce, IInv, TypeOK
<1>2. state[b] = "Active" /\ tracker[b] = 0
  BY <1>1 DEF SubmitAtOnce, IInv, AttemptsInv, TypeOK
<1>3. /\ current' \in [Boards -> Nat] /\ captured' \in [Boards -> Nat]
      /\ progressed' \in [Boards -> Nat] /\ v \in Nat
  BY EvaluationType DEF SubmitAtOnce, IInv
<1>4. /\ trackers' = [taken EXCEPT ![t] = Released(taken[t])]
      /\ pending' = (pending \/ (t \in Shareable(value[b], v) => trackers[t].raw # v))
      /\ UNCHANGED <<definitions, frame, screen, loaded, tracker>>
      /\ Moves(b, "Triggered", "Active", "Submitted")
  BY DEF SubmitAtOnce, Turn, Slot
<1>5. /\ t \in 1..(Len(trackers) + 1)
      /\ r \in Tracker /\ r.refs = Count(tracker, t) + 1
      /\ Consistent(r, t \in shown)
      /\ t \in Shareable(value[b], v) => r.refs > 1
      /\ r.pending # {} => pending \/ (t \in Shareable(value[b], v) => trackers[t].raw # v)
      /\ t \leq Len(display) \/ "Show" \in r.pending
      /\ taken = IF t \in DOMAIN trackers THEN [trackers EXCEPT ![t] = r] ELSE Append(trackers, r)
  <2>1. TypeOK /\ TrackersInv
    BY DEF IInv
  <2>2. v \in Nat
    BY <1>3
  <2> HIDE DEF v
  <2> QED
    BY <1>2, <2>1, <2>2, Taken
<1> HIDE DEF t, v, r
<1>6. /\ Count(tracker, t) \in Nat /\ r.refs > 0
  BY <1>5, CountType, NAssumption
<1>7. taken[t] = r /\ trackers' =
        IF t \in DOMAIN trackers THEN [trackers EXCEPT ![t] = Released(r)] ELSE Append(trackers, Released(r))
  <2> HIDE DEF taken
  <2>1. CASE t \in DOMAIN trackers
    <3>1. taken = [trackers EXCEPT ![t] = r]
      BY <1>5, <2>1
    <3> QED
      BY <1>1, <1>4, <2>1, <3>1
  <2>2. CASE t \notin DOMAIN trackers
    <3>1. taken = Append(trackers, r) /\ t = Len(trackers) + 1
      BY <1>1, <1>5, <2>2
    <3>2. taken[t] = r
      BY <1>1, <3>1
    <3>3. trackers' = [taken EXCEPT ![t] = Released(r)]
      BY <1>4, <3>2
    <3>4. [Append(trackers, r) EXCEPT ![Len(trackers) + 1] = Released(r)] = Append(trackers, Released(r))
      <4>1. Released(r) \in Tracker /\ r \in Tracker
        BY <1>5, <1>6, GivenBack
      <4> QED
        BY <1>1, <4>1, AppendThenChange
    <3> QED
      BY <2>2, <3>1, <3>2, <3>3, <3>4
  <2> QED
    BY <2>1, <2>2
<1> DEFINE q == Released(r)
<1>8. /\ q \in Tracker /\ q.refs = Count(tracker, t) /\ Consistent(q, t \in shown)
      /\ q.pending = IF r.refs = 1 THEN r.pending \cup {"Hide"} ELSE r.pending
  <2>1. /\ Released(r) \in Tracker /\ Released(r).refs = r.refs - 1
        /\ Consistent(Released(r), t \in shown)
        /\ Released(r).pending = IF r.refs = 1 THEN r.pending \cup {"Hide"} ELSE r.pending
    BY <1>5, <1>6, GivenBack
  <2>2. r.refs - 1 = Count(tracker, t)
    BY <1>5, <1>6
  <2> QED
    BY <2>1, <2>2
<1> HIDE DEF q
<1>9. (q.pending # {} => pending') /\ (t \leq Len(display) \/ "Show" \in q.pending)
  <2> DEFINE counts == t \in Shareable(value[b], v) => trackers[t].raw # v
  <2>1. r.refs = 1 => counts
    BY <1>5
  <2>2. r.pending # {} => pending \/ counts
    BY <1>5
  <2>3. pending \/ counts => pending'
    BY <1>4, Zenon
  <2> HIDE DEF counts
  <2>4. q.pending # {} => r.refs = 1 \/ r.pending # {}
    BY <1>8
  <2>5. "Show" \in r.pending => "Show" \in q.pending
    BY <1>8
  <2> QED
    BY <1>5, <2>1, <2>2, <2>3, <2>4, <2>5, Zenon
<1>10. /\ TrackersInv' /\ trackers' \in Seq(Tracker)
       /\ Len(trackers') \in Nat /\ Len(trackers') \geq Len(trackers) /\ t \leq Len(trackers')
  <2>1. shown' = shown /\ display' = display /\ (pending => pending') /\ tracker' = tracker
    BY <1>4 DEF screen
  <2>2. trackers' = IF t \in DOMAIN trackers THEN [trackers EXCEPT ![t] = q] ELSE Append(trackers, q)
    BY <1>7 DEF q
  <2>3. q.refs = Count(tracker', t) /\ \A u \in DOMAIN trackers \ {t} : Count(tracker', u) = Count(tracker, u)
    BY <1>8, <2>1
  <2> QED
    BY <1>1, <1>5, <1>8, <1>9, <2>1, <2>2, <2>3, OneTracker DEF IInv
<1>11. /\ state' \in [Boards -> {"Waiting", "Active", "Started", "Canceled", "Triggered", "Disabled"}]
       /\ public' \in [Boards -> {"Active", "Tracking", "Disabled"}]
       /\ news' \in [Boards -> {None, "Started", "Failed", "Submitted"}]
       /\ AttemptsInv' /\ NewsInv'
  <2>1. tracker'[b] = 0 /\ \A c \in Boards \ {b} : tracker'[c] = tracker[c]
    BY <1>2, <1>4
  <2>2. told' = told
    BY <1>4 DEF screen
  <2> QED
    BY <1>1, <1>2, <1>4, <2>1, <2>2, Moving
<1>12. TypeOK'
  <2>1. /\ pending' \in BOOLEAN /\ next' \in 0..(N + 1) /\ TypeOK
        /\ UNCHANGED <<definitions, frame, screen, loaded>>
    BY <1>1, <1>4, NAssumption DEF IInv
  <2>2. tracker' \in [Boards -> 0..Len(trackers')]
    BY <1>1, <1>4, <1>10 DEF IInv, TypeOK
  <2> QED
    BY <1>3, <1>10, <1>11, <2>1, <2>2, TypeStep
<1> QED
  BY <1>1, <1>10, <1>11, <1>12 DEF IInv

(* An attempt that ends in a later frame than it started. *)
LEMMA Ended ==
  ASSUME IInv, NEW b \in Boards, state[b] = "Started", Turn(b), NEW r \in Tracker,
         Moves(b, "Canceled", "Active", "Failed") \/ Moves(b, "Triggered", "Active", "Submitted"),
         tracker' = [tracker EXCEPT ![b] = 0],
         trackers' = [trackers EXCEPT ![tracker[b]] = Released(r)],
         r.refs = trackers[tracker[b]].refs, Consistent(r, tracker[b] \in shown),
         tracker[b] \leq Len(display) \/ "Show" \in r.pending,
         r.pending # {} \/ r.refs = 1 => pending',
         pending => pending', pending' \in BOOLEAN,
         current' \in [Boards -> Nat], captured' \in [Boards -> Nat], progressed' \in [Boards -> Nat]
  PROVE  IInv'
<1> DEFINE t == tracker[b]
           q == Released(r)
<1>1. /\ loaded /\ loaded' = loaded /\ next' \in 1..(N + 1) /\ next' # 0
      /\ Len(trackers) \in Nat /\ tracker \in [Boards -> Nat]
      /\ UNCHANGED <<definitions, frame, screen, loaded>>
  BY Turning DEF Turn
<1>2. /\ t # 0 /\ t \in DOMAIN trackers /\ t \in 1..(Len(trackers) + 1)
      /\ r.refs = Count(tracker, t)
  BY <1>1 DEF IInv, AttemptsInv, TypeOK, TrackersInv
<1>3. /\ Count(tracker', t) = Count(tracker, t) - 1
      /\ \A u \in DOMAIN trackers \ {t} : Count(tracker', u) = Count(tracker, u)
  <2>1. DOMAIN trackers \ {t} \subseteq Nat \ {0, t}
    BY <1>1 DEF IInv, TypeOK
  <2>2. /\ Count([tracker EXCEPT ![b] = 0], t) = Count(tracker, t) - 1
        /\ \A u \in Nat \ {0, t} : Count([tracker EXCEPT ![b] = 0], u) = Count(tracker, u)
    BY <1>1, <1>2, CountDown
  <2> QED
    BY <2>1, <2>2
<1>4. Count(tracker, t) \in Nat /\ r.refs > 0
  <2>1. Count(tracker, t) \in 0..N /\ (Count(tracker, t) = 0 <=> Users(tracker, t) = {})
    BY CountType
  <2>2. b \in Users(tracker, t)
    BY DEF Users
  <2> QED
    BY <1>2, <2>1, <2>2, NAssumption
<1>5. /\ q \in Tracker /\ q.refs = Count(tracker', t) /\ Consistent(q, t \in shown)
      /\ q.pending # {} => pending'
      /\ t \leq Len(display) \/ "Show" \in q.pending
  BY <1>2, <1>3, <1>4, GivenBack
<1>6. trackers' = [trackers EXCEPT ![t] = q] /\ tracker' = [tracker EXCEPT ![b] = 0]
  OBVIOUS
<1> HIDE DEF t, q
<1>7. /\ TrackersInv' /\ trackers' \in Seq(Tracker)
      /\ Len(trackers') \in Nat /\ Len(trackers') \geq Len(trackers)
  <2>1. shown' = shown /\ display' = display
    BY <1>1 DEF screen
  <2>2. trackers' = IF t \in DOMAIN trackers THEN [trackers EXCEPT ![t] = q] ELSE Append(trackers, q)
    BY <1>2, <1>6
  <2> QED
    BY <1>1, <1>2, <1>3, <1>5, <2>1, <2>2, OneTracker DEF IInv
<1>8. /\ state' \in [Boards -> {"Waiting", "Active", "Started", "Canceled", "Triggered", "Disabled"}]
      /\ public' \in [Boards -> {"Active", "Tracking", "Disabled"}]
      /\ news' \in [Boards -> {None, "Started", "Failed", "Submitted"}]
      /\ AttemptsInv' /\ NewsInv'
  <2>1. tracker'[b] = 0 /\ \A c \in Boards \ {b} : tracker'[c] = tracker[c]
    BY <1>1, <1>6
  <2>2. told' = told
    BY <1>1 DEF screen
  <2> QED
    BY <1>1, <2>1, <2>2, Moving
<1>9. TypeOK'
  <2>1. /\ next' \in 0..(N + 1) /\ TypeOK
    BY <1>1, NAssumption DEF IInv
  <2>2. tracker' \in [Boards -> 0..Len(trackers')]
    BY <1>1, <1>6, <1>7 DEF IInv, TypeOK
  <2> QED
    BY <1>1, <1>7, <1>8, <2>1, <2>2, TypeStep
<1> QED
  BY <1>1, <1>7, <1>8, <1>9 DEF IInv

LEMMA CancelStep ==
  ASSUME IInv, NEW b \in Boards, Cancel(b)
  PROVE  IInv'
<1> DEFINE t == tracker[b]
           r == trackers[t]
<1>1. /\ Turn(b) /\ state[b] = "Started" /\ Moves(b, "Canceled", "Active", "Failed")
      /\ tracker' = [tracker EXCEPT ![b] = 0] /\ trackers' = [trackers EXCEPT ![t] = Released(r)]
      /\ pending' = (pending \/ r.refs = 1)
      /\ current' = [current EXCEPT ![b] = 0] /\ UNCHANGED <<captured, progressed>>
  BY DEF Cancel
<1>2. r \in Tracker /\ Consistent(r, t \in shown) /\ (r.pending # {} => pending)
      /\ (t \leq Len(display) \/ "Show" \in r.pending)
  BY <1>1, Turning DEF IInv, AttemptsInv, TypeOK, TrackersInv
<1>3. /\ current' \in [Boards -> Nat] /\ captured' \in [Boards -> Nat] /\ progressed' \in [Boards -> Nat]
      /\ pending' \in BOOLEAN /\ (pending => pending') /\ (r.pending # {} \/ r.refs = 1 => pending')
  BY <1>1, <1>2 DEF IInv, TypeOK
<1> QED
  BY <1>1, <1>2, <1>3, Ended

LEMMA SubmitStep ==
  ASSUME IInv, NEW b \in Boards, Submit(b)
  PROVE  IInv'
<1> DEFINE v == current'[b]
           t == tracker[b]
           r == Shows(trackers[t], v)
<1>1. /\ Turn(b) /\ state[b] = "Started" /\ Moves(b, "Triggered", "Active", "Submitted")
      /\ tracker' = [tracker EXCEPT ![b] = 0] /\ trackers' = [trackers EXCEPT ![t] = Released(r)]
      /\ pending' = (pending \/ trackers[t].refs = 1 \/ trackers[t].raw # v)
  BY DEF Submit
<1>2. /\ trackers[t] \in Tracker /\ Consistent(trackers[t], t \in shown)
      /\ trackers[t].pending # {} => pending
      /\ t \leq Len(display) \/ "Show" \in trackers[t].pending
  BY <1>1, Turning DEF IInv, AttemptsInv, TypeOK, TrackersInv
<1>3. /\ current' \in [Boards -> Nat] /\ captured' \in [Boards -> Nat]
      /\ progressed' \in [Boards -> Nat] /\ v \in Nat
  <2>1. captured[b] \in Nat /\ progressed[b] \in Nat
    BY DEF IInv, TypeOK
  <2> QED
    BY <2>1, EvaluationType DEF Submit, IInv
<1> HIDE DEF v
<1>4. /\ r \in Tracker /\ r.refs = trackers[t].refs /\ Consistent(r, t \in shown)
      /\ t \leq Len(display) \/ "Show" \in r.pending
      /\ r.pending # {} \/ r.refs = 1 => pending'
      /\ pending' \in BOOLEAN /\ (pending => pending')
  BY <1>1, <1>2, <1>3 DEF Shows, Tracker, Consistent
<1> HIDE DEF r
<1> QED
  BY <1>1, <1>3, <1>4, Ended

-----------------------------------------------------------------------------
(* The frame and the unload. *)
LEMMA ReadsType ==
  ASSUME NEW read \in Inputs
  PROVE  /\ read \in [Values -> Nat \cup {Paused, Reset}]
         /\ \A d \in Values : read[d] # IF d \in HitValues THEN Paused ELSE Reset
         /\ \A d \in Values \cap HitValues : read[d] \in 0..Burst \cup {Reset}
<1>1. /\ read \in [Values -> Readings \cup {Paused, Reset} \cup 0..Burst]
      /\ \A d \in Values : read[d] \in InputsOf(d)
  BY DEF Inputs
<1>2. /\ HitValues \subseteq Values /\ Readings \subseteq Nat /\ 0..Burst \subseteq Nat /\ 0 \in 0..Burst
      /\ Paused \notin Nat /\ Reset \notin Nat /\ Paused # Reset
  BY ValuesAssumption DEF Paused, Reset
<1>3. \A d \in Values : read[d] \in Nat \cup {Paused, Reset}
  BY <1>1, <1>2, Zenon
<1>4. \A d \in Values \cap HitValues : read[d] \in 0..Burst \cup {Reset}
  BY <1>1, <1>2 DEF InputsOf
<1>5. \A d \in Values \ HitValues : read[d] \in {0} \cup Readings \cup {Paused}
  BY <1>1 DEF InputsOf
<1> QED
  BY <1>1, <1>2, <1>3, <1>4, <1>5

LEMMA BeginFrameStep ==
  ASSUME IInv, NEW read \in Inputs, NEW failing \in SUBSET (Fragile \cap Boards), BeginFrame(read, failing)
  PROVE  IInv'
<1>1. /\ loaded /\ loaded' = loaded /\ next = 0 /\ next' = 1 /\ frame' = read /\ pending' = FALSE
      /\ state' = [b \in Boards |-> IF b \in failing THEN "Disabled" ELSE state[b]]
      /\ public' = [b \in Boards |-> IF b \in failing THEN "Disabled" ELSE public[b]]
      /\ UNCHANGED <<definitions, current, captured, progressed, tracker, news, trackers, screen>>
  BY DEF BeginFrame
<1>2. /\ frame' \in [Values -> Nat \cup {Paused, Reset}]
      /\ \A d \in Values : frame'[d] # IF d \in HitValues THEN Paused ELSE Reset
  BY <1>1, ReadsType
<1>3. TypeOK'
  <2>1. /\ state' \in [Boards -> {"Waiting", "Active", "Started", "Canceled", "Triggered", "Disabled"}]
        /\ public' \in [Boards -> {"Active", "Tracking", "Disabled"}]
    BY <1>1 DEF IInv, TypeOK
  <2>2. next' \in 0..(N + 1)
    BY <1>1, NAssumption
  <2> QED
    BY <1>1, <1>2, <2>1, <2>2 DEF IInv, TypeOK, definitions, screen
<1>4. TrackersInv'
  BY <1>1 DEF IInv, TrackersInv, screen
<1>5. AttemptsInv' /\ NewsInv'
  BY <1>1 DEF IInv, AttemptsInv, NewsInv, screen
<1> QED
  BY <1>1, <1>3, <1>4, <1>5 DEF IInv

(* What the events leave of a tracker. *)
LEMMA Quieted ==
  ASSUME NEW ts \in Seq(Tracker), NEW t \in DOMAIN ts
  PROVE  /\ Quiet(ts) \in Seq(Tracker) /\ Len(Quiet(ts)) = Len(ts) /\ DOMAIN Quiet(ts) = DOMAIN ts
         /\ Quiet(ts)[t].refs = ts[t].refs /\ Quiet(ts)[t].pending = {}
<1> DEFINE quiet(u) == [ts[u] EXCEPT !.pending = {}]
<1>1. Len(ts) \in Nat /\ DOMAIN ts = 1..Len(ts)
  OBVIOUS
<1>2. \A u \in DOMAIN ts : quiet(u) \in Tracker /\ quiet(u).refs = ts[u].refs /\ quiet(u).pending = {}
  <2>1. ASSUME NEW x \in Tracker
        PROVE  /\ [x EXCEPT !.pending = {}] \in Tracker
               /\ [x EXCEPT !.pending = {}].refs = x.refs /\ [x EXCEPT !.pending = {}].pending = {}
    BY <2>1 DEF Tracker
  <2>2. \A u \in DOMAIN ts : ts[u] \in Tracker
    OBVIOUS
  <2> QED
    BY <2>1, <2>2
<1>3. Quiet(ts) = [u \in 1..Len(ts) |-> quiet(u)]
  BY <1>1 DEF Quiet
<1> HIDE DEF quiet
<1> QED
  BY <1>1, <1>2, <1>3

LEMMA RaiseEventsStep ==
  ASSUME IInv, RaiseEvents
  PROVE  IInv'
<1>1. /\ next = N + 1 /\ next' = 0 /\ loaded /\ loaded' = loaded /\ pending' = FALSE
      /\ IF pending
         THEN /\ trackers' = Quiet(trackers) /\ shown' = ShownAfter(trackers)
              /\ display' = DisplayAfter(trackers)
         ELSE UNCHANGED <<trackers, shown, display>>
      /\ told' = {b \in Boards : news[b] = "Started" \/ (news[b] = None /\ b \in told)}
      /\ news' = [b \in Boards |-> None]
      /\ UNCHANGED <<definitions, state, public, current, captured, progressed, tracker, frame>>
  BY NAssumption DEF RaiseEvents, IInv
<1>2. trackers \in Seq(Tracker) /\ DOMAIN trackers = 1..Len(trackers) /\ Len(trackers) \in Nat
  BY DEF IInv, TypeOK
<1>3. ASSUME NEW t \in DOMAIN trackers
      PROVE  /\ trackers[t] \in Tracker
             /\ trackers[t].refs = Count(tracker, t) /\ Consistent(trackers[t], t \in shown)
             /\ trackers[t].pending # {} => pending
             /\ t \leq Len(display) \/ "Show" \in trackers[t].pending
  BY <1>2, <1>3 DEF IInv, TrackersInv
<1>4. /\ trackers' \in Seq(Tracker) /\ Len(trackers') = Len(trackers) /\ DOMAIN trackers' = DOMAIN trackers
      /\ \A t \in DOMAIN trackers : trackers'[t].refs = trackers[t].refs /\ trackers'[t].pending = {}
  <2>1. CASE pending
    <3>1. CASE DOMAIN trackers = {}
      BY <1>1, <1>2, <2>1, <3>1 DEF Quiet
    <3>2. CASE DOMAIN trackers # {}
      <4>1. trackers' = Quiet(trackers)
        BY <1>1, <2>1
      <4> QED
        BY <1>2, <3>2, <4>1, Quieted
    <3> QED
      BY <3>1, <3>2
  <2>2. CASE ~pending
    BY <1>1, <1>2, <1>3, <2>2
  <2> QED
    BY <2>1, <2>2
<1>5. \A t \in DOMAIN trackers : t \in shown' <=> trackers[t].refs > 0
  <2>1. CASE pending
    <3>1. shown' = ShownAfter(trackers)
      BY <1>1, <2>1
    <3> QED
      BY <1>3, <3>1 DEF ShownAfter, Consistent, Tracker
  <2>2. CASE ~pending
    BY <1>1, <1>3, <2>2 DEF Consistent
  <2> QED
    BY <2>1, <2>2
<1>6. display' \in Seq(Nat) /\ Len(display') \leq Len(trackers) /\ \A t \in DOMAIN trackers : t \leq Len(display')
  <2>1. CASE pending
    <3>1. display' = [t \in 1..Len(trackers) |->
             IF trackers[t].pending \cap {"Show", "Update"} # {} THEN trackers[t].raw ELSE display[t]]
      BY <1>1, <1>2, <2>1 DEF DisplayAfter
    <3>2. ASSUME NEW t \in 1..Len(trackers)
          PROVE  (IF trackers[t].pending \cap {"Show", "Update"} # {} THEN trackers[t].raw ELSE display[t]) \in Nat
      <4>1. trackers[t].raw \in Nat
        BY <1>2, <1>3 DEF Tracker
      <4>2. CASE "Show" \in trackers[t].pending
        BY <4>1, <4>2
      <4>3. CASE "Show" \notin trackers[t].pending
        <5>1. display \in Seq(Nat) /\ t \in 1..Len(display)
          <6>1. display \in Seq(Nat) /\ Len(display) \in Nat
            BY DEF IInv, TypeOK
          <6>2. t \in DOMAIN trackers /\ t \leq Len(display)
            BY <1>2, <1>3, <4>3
          <6> QED
            BY <3>2, <6>1, <6>2
        <5>2. display[t] \in Nat
          BY <5>1
        <5> QED
          BY <4>1, <5>2
      <4> QED
        BY <4>2, <4>3
    <3> DEFINE text(t) == IF trackers[t].pending \cap {"Show", "Update"} # {} THEN trackers[t].raw ELSE display[t]
    <3>3. display' = [t \in 1..Len(trackers) |-> text(t)] /\ \A t \in 1..Len(trackers) : text(t) \in Nat
      BY <3>1, <3>2
    <3> HIDE DEF text
    <3> QED
      BY <1>2, <3>3
  <2>2. CASE ~pending
    BY <1>1, <1>2, <1>3, <2>2 DEF IInv, TypeOK
  <2> QED
    BY <2>1, <2>2
<1>7. TypeOK'
  <2>1. shown' \subseteq 1..Len(trackers)
    <3>1. CASE pending
      BY <1>1, <1>2, <3>1 DEF ShownAfter
    <3>2. CASE ~pending
      BY <1>1, <3>2 DEF IInv, TypeOK
    <3> QED
      BY <3>1, <3>2
  <2>2. /\ next' \in 0..(N + 1) /\ told' \subseteq Boards
        /\ news' \in [Boards -> {None, "Started", "Failed", "Submitted"}]
    BY <1>1, NAssumption
  <2> QED
    BY <1>1, <1>2, <1>4, <1>6, <2>1, <2>2 DEF IInv, TypeOK, definitions
<1>8. TrackersInv'
  <2>1. ASSUME NEW t \in DOMAIN trackers'
        PROVE  /\ trackers'[t].refs = Count(tracker', t)
               /\ Consistent(trackers'[t], t \in shown')
               /\ trackers'[t].pending = {}
               /\ t \leq Len(display')
    BY <1>1, <1>3, <1>4, <1>5, <1>6 DEF Consistent
  <2> QED
    BY <2>1 DEF TrackersInv
<1>9. AttemptsInv'
  BY <1>1 DEF IInv, AttemptsInv
<1>10. NewsInv'
  <2>1. ASSUME NEW b \in Boards
        PROVE  b \in told' <=> tracker[b] # 0
    <3>1. /\ news[b] \in {None, "Started", "Failed", "Submitted"}
          /\ news[b] = None => (b \in told <=> tracker[b] # 0)
          /\ news[b] = "Started" => tracker[b] # 0
          /\ news[b] \in {"Failed", "Submitted"} => tracker[b] = 0
      BY <1>1 DEF IInv, TypeOK, NewsInv
    <3>2. b \in told' <=> news[b] = "Started" \/ (news[b] = None /\ b \in told)
      BY <1>1
    <3> QED
      BY <3>1, <3>2 DEF None
  <2> QED
    BY <1>1, <2>1 DEF NewsInv, None
<1> QED
  BY <1>1, <1>7, <1>8, <1>9, <1>10 DEF IInv

LEMMA UnloadStep ==
  ASSUME IInv, Unload
  PROVE  IInv'
<1> DEFINE left(t) == trackers[t].refs - Cardinality(Gone(tracker, Tracking, t))
           changed(t) == [trackers[t] EXCEPT !.refs = left(t),
                            !.pending = IF left(t) = 0 /\ trackers[t].refs > 0 THEN @ \cup {"Hide"} ELSE @]
           marked == [t \in DOMAIN trackers |-> changed(t)]
<1>1. /\ loaded /\ next = 0 /\ loaded' = FALSE
      /\ tracker' = Without(tracker, Tracking)
      /\ trackers' = Quiet(marked) /\ shown' = ShownAfter(marked)
      /\ UNCHANGED <<definitions, state, public, current, captured, progressed, news, pending, frame,
                     next, display, told>>
  BY DEF Unload, Without, Gone
<1>2. trackers \in Seq(Tracker) /\ DOMAIN trackers = 1..Len(trackers) /\ Len(trackers) \in Nat
  BY DEF IInv, TypeOK
<1>3. ASSUME NEW t \in DOMAIN trackers
      PROVE  /\ trackers[t] \in Tracker
             /\ trackers[t].refs = Count(tracker, t)
             /\ t \in shown <=> trackers[t].refs > 0
             /\ trackers[t].pending = {} /\ t \leq Len(display)
             /\ trackers[t].refs \in Nat
             /\ left(t) = Count(tracker', t) /\ left(t) \in 0..N /\ left(t) \leq trackers[t].refs
  <2>1. /\ trackers[t] \in Tracker /\ trackers[t].pending = {}
        /\ trackers[t].refs = Count(tracker, t) /\ Consistent(trackers[t], t \in shown)
        /\ t \leq Len(display) \/ "Show" \in trackers[t].pending
    <3>1. next = 0
      BY <1>1
    <3>2. /\ trackers[t].refs = Count(tracker, t) /\ Consistent(trackers[t], t \in shown)
          /\ trackers[t].pending # {} => next # 0
          /\ t \leq Len(display) \/ "Show" \in trackers[t].pending
      BY <1>3 DEF IInv, TrackersInv
    <3>3. trackers[t] \in Tracker
      BY <1>2, <1>3
    <3> QED
      BY <3>1, <3>2, <3>3
  <2>2. t \in shown <=> trackers[t].refs > 0
    BY <2>1 DEF Consistent
  <2>3. t \in Nat \ {0} /\ Tracking \in SUBSET Boards
    BY <1>2 DEF Tracking
  <2>4. Count(tracker', t) = Count(tracker, t) - Cardinality(Gone(tracker, Tracking, t))
    BY <1>1, <2>3, CountWithout
  <2>5. Count(tracker', t) \in 0..N
    BY CountType
  <2>6. Cardinality(Gone(tracker, Tracking, t)) \in Nat
    <3>1. Gone(tracker, Tracking, t) \in SUBSET Boards
      BY DEF Tracking, Gone
    <3> QED
      BY <3>1, BoardsFinite, FS_Subset, FS_CardinalityType
  <2>7. Count(tracker, t) \in Nat
    BY CountType, NAssumption
  <2> QED
    BY <2>1, <2>2, <2>4, <2>5, <2>6, <2>7
<1>4. ASSUME NEW t \in DOMAIN trackers
      PROVE  /\ changed(t) \in Tracker /\ changed(t).refs = left(t)
             /\ changed(t).pending = IF left(t) = 0 /\ trackers[t].refs > 0 THEN {"Hide"} ELSE {}
  <2> DEFINE x == left(t)
             q == IF left(t) = 0 /\ trackers[t].refs > 0 THEN trackers[t].pending \cup {"Hide"} ELSE trackers[t].pending
  <2>1. x \in 0..N /\ trackers[t] \in Tracker
    BY <1>3
  <2>2. q \in SUBSET {"Show", "Update", "Hide"} /\ q = IF left(t) = 0 /\ trackers[t].refs > 0 THEN {"Hide"} ELSE {}
    BY <1>3
  <2>3. changed(t) = [trackers[t] EXCEPT !.refs = x, !.pending = q]
    OBVIOUS
  <2> HIDE DEF x, q, changed
  <2>4. /\ changed(t) \in Tracker /\ changed(t).refs = x /\ changed(t).pending = q
    BY <2>1, <2>2, <2>3 DEF Tracker
  <2> QED
    BY <2>2, <2>4 DEF x
<1> HIDE DEF changed, left
<1>5. marked \in Seq(Tracker) /\ Len(marked) = Len(trackers) /\ DOMAIN marked = DOMAIN trackers
  BY <1>2, <1>4
<1>6. /\ trackers' \in Seq(Tracker) /\ Len(trackers') = Len(trackers) /\ DOMAIN trackers' = DOMAIN trackers
      /\ \A t \in DOMAIN trackers : trackers'[t].refs = left(t) /\ trackers'[t].pending = {}
  <2>1. \A t \in DOMAIN trackers : marked[t].refs = left(t)
    BY <1>4
  <2> HIDE DEF marked
  <2>2. CASE DOMAIN trackers = {}
    BY <1>1, <1>2, <1>5, <2>2 DEF Quiet
  <2>3. CASE DOMAIN trackers # {}
    BY <1>1, <1>2, <1>5, <2>1, <2>3, Quieted
  <2> QED
    BY <2>2, <2>3
<1>7. \A t \in DOMAIN trackers : t \in shown' <=> left(t) > 0
  <2>1. ASSUME NEW t \in DOMAIN trackers
        PROVE  t \in shown' <=> left(t) > 0
    <3>1. t \in shown' <=> "Hide" \notin changed(t).pending /\ (t \in shown \/ "Show" \in changed(t).pending)
      BY <1>1 DEF ShownAfter
    <3>2. /\ left(t) \in Nat /\ trackers[t].refs \in Nat /\ left(t) \leq trackers[t].refs
          /\ t \in shown <=> trackers[t].refs > 0
      BY <1>3, NAssumption
    <3>3. CASE left(t) = 0 /\ trackers[t].refs > 0
      <4>1. changed(t).pending = {"Hide"}
        BY <1>4, <3>3
      <4> QED
        BY <3>1, <3>3, <4>1
    <3>4. CASE ~(left(t) = 0 /\ trackers[t].refs > 0)
      <4>1. changed(t).pending = {}
        BY <1>4, <3>4
      <4> QED
        BY <3>1, <3>2, <3>4, <4>1
    <3> QED
      BY <3>3, <3>4
  <2> QED
    BY <2>1
<1>8. TypeOK'
  <2>1. shown' \subseteq 1..Len(trackers')
    <3>1. shown' \subseteq DOMAIN marked
      <4> HIDE DEF marked
      <4> QED
        BY <1>1 DEF ShownAfter
    <3> QED
      BY <1>2, <1>5, <1>6, <3>1
  <2>2. tracker' \in [Boards -> 0..Len(trackers')]
    <3>1. /\ tracker \in [Boards -> 0..Len(trackers)]
          /\ tracker' = Without(tracker, Tracking)
          /\ Len(trackers') = Len(trackers) /\ Len(trackers) \in Nat
      BY <1>1, <1>2, <1>6 DEF IInv, TypeOK
    <3> HIDE DEF marked
    <3> QED
      BY <3>1 DEF Without
  <2> HIDE DEF marked
  <2> QED
    BY <1>1, <1>6, <2>1, <2>2 DEF IInv, TypeOK, definitions
<1>9. TrackersInv'
  <2>1. ASSUME NEW t \in DOMAIN trackers'
        PROVE  /\ trackers'[t].refs = Count(tracker', t)
               /\ Consistent(trackers'[t], t \in shown')
               /\ trackers'[t].pending = {}
               /\ t \leq Len(display')
    <3> HIDE DEF marked
    <3> QED
      BY <1>1, <1>3, <1>6, <1>7 DEF Consistent
  <2> QED
    BY <2>1 DEF TrackersInv
<1>10. AttemptsInv' /\ NewsInv'
  <2> HIDE DEF marked
  <2> QED
    BY <1>1 DEF IInv, AttemptsInv, NewsInv, Tracking, Without
<1> QED
  BY <1>1, <1>8, <1>9, <1>10 DEF IInv

-----------------------------------------------------------------------------
(* The theorems. *)
LEMMA InitInv == Init => IInv
<1> SUFFICES ASSUME Init PROVE IInv
  OBVIOUS
<1>1. PICK g \in Games :
        /\ value = g.value /\ progress = g.progress
        /\ state = [b \in Boards |-> IF b \in g.broken THEN "Disabled" ELSE "Waiting"]
        /\ public = [b \in Boards |-> IF b \in g.broken THEN "Disabled" ELSE "Active"]
  BY DEF Init
<1>2. value \in [Boards -> Values] /\ progress \in [Boards -> Values \cup {None}]
  BY <1>1, GamesAssumption
<1>3. TypeOK
  <2>1. /\ state \in [Boards -> {"Waiting", "Active", "Started", "Canceled", "Triggered", "Disabled"}]
        /\ public \in [Boards -> {"Active", "Tracking", "Disabled"}]
    BY <1>1
  <2>2. /\ current \in [Boards -> Nat] /\ captured \in [Boards -> Nat] /\ progressed \in [Boards -> Nat]
        /\ tracker \in [Boards -> 0..Len(trackers)]
        /\ news \in [Boards -> {None, "Started", "Failed", "Submitted"}]
    BY DEF Init
  <2>3. trackers \in Seq(Tracker) /\ display \in Seq(Nat) /\ Len(display) \leq Len(trackers)
    BY DEF Init
  <2>4. /\ frame \in [Values -> Nat \cup {Paused, Reset}]
        /\ \A d \in Values : frame[d] # IF d \in HitValues THEN Paused ELSE Reset
    BY DEF Init, Paused, Reset
  <2>5. /\ pending \in BOOLEAN /\ loaded \in BOOLEAN
        /\ shown \subseteq 1..Len(trackers) /\ told \subseteq Boards
    BY Zenon DEF Init
  <2>6. next \in 0..(N + 1)
    BY NAssumption DEF Init
  <2> QED
    BY <1>2, <2>1, <2>2, <2>3, <2>4, <2>5, <2>6 DEF TypeOK
<1>4. TrackersInv /\ AttemptsInv /\ NewsInv /\ (~loaded => next = 0)
  <2>1. DOMAIN trackers = {}
    BY DEF Init
  <2>2. \A b \in Boards : tracker[b] = 0 /\ news[b] = None /\ b \notin told
    BY DEF Init
  <2>3. \A b \in Boards : /\ state[b] = "Disabled" <=> public[b] = "Disabled"
                          /\ state[b] # "Started" /\ public[b] # "Tracking"
    BY <1>1
  <2>4. loaded
    BY DEF Init
  <2> QED
    BY <2>1, <2>2, <2>3, <2>4 DEF TrackersInv, AttemptsInv, NewsInv, None
<1> QED
  BY <1>3, <1>4 DEF IInv

LEMMA StutterStep == IInv /\ UNCHANGED vars => IInv'
BY DEF IInv, TypeOK, TrackersInv, AttemptsInv, NewsInv, vars, definitions, boards, screen

LEMMA NextInv == IInv /\ [Next]_vars => IInv'
<1> SUFFICES ASSUME IInv, [Next]_vars PROVE IInv'
  OBVIOUS
<1>1. CASE \E read \in Inputs, failing \in SUBSET (Fragile \cap Boards) : BeginFrame(read, failing)
  BY <1>1, BeginFrameStep
<1>2. ASSUME NEW b \in Boards, Process(b)
      PROVE  IInv'
  BY <1>2, SkipStep, WaitStep, IdleStep, StartStep, SubmitAtOnceStep, TrackStep, CancelStep, SubmitStep
     DEF Process
<1>3. CASE RaiseEvents
  BY <1>3, RaiseEventsStep
<1>4. CASE Unload
  BY <1>4, UnloadStep
<1>5. CASE UNCHANGED vars
  BY <1>5, StutterStep
<1> QED
  BY <1>1, <1>2, <1>3, <1>4, <1>5 DEF Next

THEOREM Inductive == Spec => []IInv
BY InitInv, NextInv, PTL DEF Spec

(* Every variable keeps its type: a leaderboard points to a tracker that exists, no
   tracker counts more leaderboards than there are, and none less than zero
   (rc_client_release_leaderboard_tracker). *)
THEOREM TypeCorrect == Spec => []TypeOK
<1>1. IInv => TypeOK
  BY DEF IInv
<1> QED
  BY <1>1, Inductive, PTL

(* A tracker counts the leaderboards that point to it
   (rc_client_allocate_leaderboard_tracker and rc_client_release_leaderboard_tracker),
   for any number of leaderboards and any sharing of values. *)
THEOREM ReferencesCountedHolds == Spec => []ReferencesCounted
<1>1. IInv => ReferencesCounted
  BY DEF IInv, TrackersInv, ReferencesCounted, Count, Users
<1> QED
  BY <1>1, Inductive, PTL

(* Between frames the screen shows the trackers in use and no other, and the player
   knows exactly the attempts that have one (rc_client_raise_pending_events): no
   event is lost between the flags of a frame and the calls after it. *)
THEOREM ScreenCurrentHolds == Spec => []ScreenCurrent
<1>1. IInv => ScreenCurrent
  <2> SUFFICES ASSUME IInv, next = 0 PROVE ScreenCurrent
    BY DEF ScreenCurrent
  <2>1. shown = {t \in DOMAIN trackers : trackers[t].refs > 0}
    <3>1. shown \subseteq DOMAIN trackers
      BY DEF IInv, TypeOK
    <3>2. \A t \in DOMAIN trackers : t \in shown <=> trackers[t].refs > 0
      BY DEF IInv, TrackersInv, Consistent
    <3> QED
      BY <3>1, <3>2
  <2>2. loaded => told = {b \in Boards : tracker[b] # 0}
    <3>1. told \subseteq Boards /\ \A b \in Boards : news[b] = None
      BY DEF IInv, TypeOK, NewsInv
    <3>2. loaded => \A b \in Boards : b \in told <=> tracker[b] # 0
      BY <3>1 DEF IInv, NewsInv
    <3> QED
      BY <3>1, <3>2
  <2>3. \A b \in Boards : ~loaded /\ tracker[b] # 0 => public[b] = "Disabled"
    BY DEF IInv, AttemptsInv
  <2> QED
    BY <2>1, <2>2, <2>3 DEF ScreenCurrent
<1> QED
  BY <1>1, Inductive, PTL

-----------------------------------------------------------------------------
(* What a tracker tells.  A leaderboard that shares a tracker is taken at the value
   that it has at the end of the frame, Final.  Of the leaderboards M that share one,
   F are these values, n is the leaderboard that comes next, raw stands in the tracker
   and will be at ahead if no leaderboard changes it.  The values never fall from one
   leaderboard to the next: who starts shares only with values that are equal to his
   and gets the hits of this frame only once. *)
Plain(d) == \A c \in Boards : value[c] = d => progress[c] = None
Turned == IF next = 0 THEN N + 1 ELSE next
Final == [b \in Boards |-> IF b < Turned THEN current[b] ELSE Evaluated(value[b], current[b])]
Sharers(t) == {b \in Boards : state[b] = "Started" /\ tracker[b] = t}

Close(M, F) == \A b, c \in M : b < c => F[b] <= F[c] /\ F[c] <= F[b] + Burst
Stale(M, F, n, ahead) == \A c \in M : n <= c /\ F[c] <= ahead /\ ahead <= F[c] + Burst
Current(M, F, n, raw) ==
    \A c \in M : IF c < n THEN F[c] <= raw /\ raw <= F[c] + Burst
                 ELSE raw <= F[c] /\ F[c] <= raw + Burst
Together(M, F, n, raw, ahead) == Close(M, F) /\ (Stale(M, F, n, ahead) \/ Current(M, F, n, raw))

(* A leaderboard that leaves, or has its turn without a tracker. *)
LEMMA Leaving ==
  ASSUME NEW M \in SUBSET Boards, NEW L, NEW F, NEW G, NEW b \in Boards, NEW raw, NEW ahead,
         Together(M, F, b, raw, ahead), L \subseteq M, b \notin L, \A c \in L : G[c] = F[c]
  PROVE  Together(L, G, b + 1, raw, ahead)
<1>1. Close(L, G)
  BY DEF Together, Close
<1>2. L \subseteq Boards /\ \A c \in L : /\ b <= c => b + 1 <= c
                                         /\ c < b + 1 <=> c < b
  BY NAssumption DEF Boards
<1>3. CASE Stale(M, F, b, ahead)
  BY <1>1, <1>2, <1>3 DEF Together, Stale
<1>4. CASE Current(M, F, b, raw)
  <2>1. Current(L, G, b + 1, raw)
    <3> SUFFICES ASSUME NEW c \in L
                 PROVE  IF c < b + 1 THEN G[c] <= raw /\ raw <= G[c] + Burst
                        ELSE raw <= G[c] /\ G[c] <= raw + Burst
      BY DEF Current
    <3>1. (c < b + 1 <=> c < b) /\ G[c] = F[c] /\ c \in M
      BY <1>2
    <3> QED
      BY <1>4, <3>1 DEF Current
  <2> QED
    BY <1>1, <2>1 DEF Together
<1> QED
  BY <1>3, <1>4 DEF Together

(* A leaderboard of the tracker puts its value there, and may leave. *)
LEMMA Following ==
  ASSUME NEW M \in SUBSET Boards, NEW F, \A c \in M : F[c] \in Int, NEW b \in M, NEW raw, NEW ahead,
         Together(M, F, b, raw, ahead),
         NEW L, L \subseteq M, NEW G, \A c \in L : G[c] = F[c], NEW any
  PROVE  Together(L, G, b + 1, F[b], any)
<1>1. Current(L, G, b + 1, F[b])
  <2> SUFFICES ASSUME NEW c \in L
               PROVE  IF c < b + 1 THEN G[c] <= F[b] /\ F[b] <= G[c] + Burst
                      ELSE F[b] <= G[c] /\ G[c] <= F[b] + Burst
    BY DEF Current
  <2>1. b \in Int /\ c \in Int /\ F[b] \in Int /\ F[c] \in Int /\ G[c] = F[c] /\ Burst \in Nat
    BY NAssumption, ValuesAssumption DEF Boards
  <2>2. /\ b < c => F[b] <= F[c] /\ F[c] <= F[b] + Burst
        /\ c < b => F[c] <= F[b] /\ F[b] <= F[c] + Burst
    BY DEF Together, Close
  <2>3. CASE c = b
    BY <2>1, <2>3
  <2>4. CASE c < b
    BY <2>1, <2>2, <2>4
  <2>5. CASE b < c
    BY <2>1, <2>2, <2>5
  <2> QED
    BY <2>1, <2>3, <2>4, <2>5
<1>2. Close(L, G)
  BY DEF Together, Close
<1> QED
  BY <1>1, <1>2 DEF Together

(* A leaderboard that starts, with the value v that the tracker has already. *)
LEMMA Joining ==
  ASSUME NEW M \in SUBSET Boards, NEW F, \A c \in M : F[c] \in Int, NEW b \in Boards, b \notin M,
         NEW v \in Int, NEW ahead \in Int, NEW any, NEW G,
         ahead <= v + Burst, \A c \in M : b < c => v <= F[c],
         \A c \in M : G[c] = F[c], G[b] = v,
         Together(M, F, b, v, ahead)
  PROVE  Together(M \cup {b}, G, b + 1, v, any)
<1>1. Burst \in Nat /\ \A c \in M \cup {b} : c \in Int /\ G[c] \in Int
  BY NAssumption, ValuesAssumption DEF Boards
<1>2. ASSUME NEW c \in M
      PROVE  IF c < b THEN F[c] <= v /\ v <= F[c] + Burst ELSE v <= F[c] /\ F[c] <= v + Burst
  <2>0. c # b /\ c \in Int /\ b \in Int /\ F[c] \in Int
    BY <1>1
  <2>1. CASE Stale(M, F, b, ahead)
    <3>1. b <= c /\ F[c] <= ahead
      BY <2>1 DEF Stale
    <3>2. b < c
      BY <2>0, <3>1
    <3>3. v <= F[c]
      BY <3>2
    <3> QED
      BY <1>1, <2>0, <3>1, <3>2, <3>3
  <2>2. CASE Current(M, F, b, v)
    BY <2>2 DEF Current
  <2> QED
    BY <2>1, <2>2 DEF Together
<1>3. Current(M \cup {b}, G, b + 1, v)
  <2> SUFFICES ASSUME NEW c \in M \cup {b}
               PROVE  IF c < b + 1 THEN G[c] <= v /\ v <= G[c] + Burst
                      ELSE v <= G[c] /\ G[c] <= v + Burst
    BY DEF Current
  <2>1. CASE c = b
    BY <1>1, <2>1
  <2>2. CASE c # b
    <3>1. c \in M /\ G[c] = F[c] /\ (c < b + 1 <=> c < b)
      BY <1>1, <2>2
    <3> QED
      BY <1>2, <3>1
  <2> QED
    BY <2>1, <2>2
<1>4. Close(M \cup {b}, G)
  <2> SUFFICES ASSUME NEW c \in M \cup {b}, NEW e \in M \cup {b}, c < e
               PROVE  G[c] <= G[e] /\ G[e] <= G[c] + Burst
    BY DEF Close
  <2>1. CASE c \in M /\ e \in M
    BY <2>1 DEF Together, Close
  <2>2. CASE c = b /\ e \in M
    <3>1. ~(e < b) /\ G[e] = F[e] /\ G[c] = v
      BY <1>1, <2>2
    <3> QED
      BY <1>2, <2>2, <3>1
  <2>3. CASE c \in M /\ e = b
    <3>1. c < b /\ G[c] = F[c] /\ G[e] = v
      BY <2>3
    <3> QED
      BY <1>2, <2>3, <3>1
  <2>4. CASE c = b /\ e = b
    BY <1>1, <2>4
  <2> QED
    BY <2>1, <2>2, <2>3, <2>4
<1> QED
  BY <1>3, <1>4 DEF Together

(* A frame begins: every value will gain the same hits, or lose them all. *)
LEMMA Beginning ==
  ASSUME NEW M \in SUBSET Boards, NEW F, \A c \in M : F[c] \in Int, NEW raw \in Int, NEW any,
         Together(M, F, N + 1, raw, any),
         NEW L, L \subseteq M, NEW G, NEW ahead, NEW gained \in Int,
         \/ ahead = raw + gained /\ \A c \in L : G[c] = F[c] + gained
         \/ ahead = 0 /\ \A c \in L : G[c] = 0
  PROVE  Together(L, G, 1, raw, ahead)
<1>1. Burst \in Nat /\ \A c \in M : c \in 1..N /\ c \in Int /\ F[c] \in Int
  BY NAssumption, ValuesAssumption DEF Boards
<1>2. \A c \in M : F[c] <= raw /\ raw <= F[c] + Burst
  BY <1>1, NAssumption DEF Together, Stale, Current
<1>3. \A b, c \in M : b < c => F[b] <= F[c] /\ F[c] <= F[b] + Burst
  BY DEF Together, Close
<1>4. CASE ahead = raw + gained /\ \A c \in L : G[c] = F[c] + gained
  <2>1. Close(L, G)
    BY <1>1, <1>3, <1>4 DEF Close
  <2>2. Stale(L, G, 1, ahead)
    BY <1>1, <1>2, <1>4 DEF Stale
  <2> QED
    BY <2>1, <2>2 DEF Together
<1>5. CASE ahead = 0 /\ \A c \in L : G[c] = 0
  BY <1>1, <1>5 DEF Together, Close, Stale
<1> QED
  BY <1>4, <1>5

(* The invariant: what a tracker tells of the attempts that share it, and what its
   text will be after the events. *)
HitTells(t) ==
    LET r == trackers[t] IN
    r.value \in HitValues /\ Plain(r.value) =>
        Together(Sharers(t), Final, Turned, r.raw, Evaluated(r.value, r.raw))

ReadTells(t) ==
    LET r == trackers[t] IN
    r.value \notin HitValues /\ Plain(r.value) /\ frame[r.value] # Paused =>
        \A c \in Sharers(t) : c < Turned => current[c] = frame[r.value] /\ r.raw = frame[r.value]

TextTells(t) ==
    trackers[t].pending \cap {"Show", "Update"} = {} => display[t] = trackers[t].raw

SharesInv ==
    \A b \in Boards : state[b] = "Started" =>
        /\ trackers[tracker[b]].value = value[b]
        /\ progress[b] = None => captured[b] = current[b]

FrameInv == \A d \in HitValues : frame[d] \in 0..Burst \cup {Reset}

TellsInv ==
    loaded =>
        /\ \A t \in DOMAIN trackers : HitTells(t) /\ ReadTells(t) /\ TextTells(t)
        /\ SharesInv /\ FrameInv

(* What an evaluation yields. *)
LEMMA HitsEvaluated ==
  ASSUME IInv, FrameInv, NEW d \in HitValues, NEW v \in Nat
  PROVE  /\ Evaluated(d, v) \in Nat /\ Evaluated(d, 0) \in Nat
         /\ Evaluated(d, 0) <= Evaluated(d, v) /\ Evaluated(d, v) <= v + Burst
<1>1. frame[d] \in Nat \cup {Reset} /\ frame[d] <= Burst /\ Burst \in Nat
  BY ValuesAssumption DEF FrameInv, Reset
<1> QED
  BY <1>1 DEF Evaluated, Reset

LEMMA ReadEvaluated ==
  ASSUME NEW d, d \notin HitValues, frame[d] # Paused, NEW last
  PROVE  Evaluated(d, last) = frame[d]
BY DEF Evaluated

(* The value that a leaderboard evaluates at its turn. *)
LEMMA TurnFinal ==
  ASSUME IInv, NEW b \in Boards, Turn(b), \A c \in Boards \ {b} : current'[c] = current[c]
  PROVE  /\ Turned = b /\ Turned' = b + 1
         /\ \A c \in Boards \ {b} : Final'[c] = Final[c] /\ (c < b + 1 <=> c < b)
         /\ Final'[b] = current'[b] /\ Final[b] = Evaluated(value[b], current[b])
<1>1. /\ next = b /\ next' = b + 1 /\ UNCHANGED <<value, frame>>
      /\ b \in Int /\ b >= 1 /\ \A c \in Boards : c \in Int
  BY NAssumption DEF Turn, definitions, Boards
<1>2. Turned = b /\ Turned' = b + 1
  BY <1>1 DEF Turned
<1>3. \A c \in Boards \ {b} : c < b + 1 <=> c < b
  BY <1>1
<1>4. /\ Final = [c \in Boards |-> IF c < b THEN current[c] ELSE Evaluated(value[c], current[c])]
      /\ Final' = [c \in Boards |-> IF c < b + 1 THEN current'[c] ELSE Evaluated(value[c], current[c])']
  BY <1>2 DEF Final
<1>5. \A c \in Boards \ {b} : Evaluated(value[c], current[c])' = Evaluated(value[c], current[c])
  BY <1>1 DEF Evaluated
<1>6. ASSUME NEW c \in Boards \ {b}
      PROVE  Final'[c] = Final[c]
  BY <1>3, <1>4, <1>5
<1>7. Final'[b] = current'[b] /\ Final[b] = Evaluated(value[b], current[b])
  BY <1>1, <1>4
<1> QED
  BY <1>2, <1>3, <1>6, <1>7

LEMMA FinalType ==
  ASSUME IInv, FrameInv, NEW c \in Boards, value[c] \in HitValues
  PROVE  Final[c] \in Int /\ current[c] \in Nat
<1>1. current[c] \in Nat
  BY DEF IInv, TypeOK
<1>2. Evaluated(value[c], current[c]) \in Nat
  BY <1>1, HitsEvaluated
<1> QED
  BY <1>1, <1>2 DEF Final

(* A tracker that the turn leaves as it was, for those who stay. *)
LEMMA Unaffected ==
  ASSUME IInv, NEW b \in Boards, Turn(b), \A c \in Boards \ {b} : current'[c] = current[c],
         NEW t, HitTells(t), ReadTells(t),
         trackers'[t].raw = trackers[t].raw, trackers'[t].value = trackers[t].value,
         Sharers(t)' \subseteq Sharers(t) \ {b}
  PROVE  HitTells(t)' /\ ReadTells(t)'
<1> DEFINE d == trackers[t].value
           raw == trackers[t].raw
<1>1. UNCHANGED <<value, progress, frame>> /\ Sharers(t) \in SUBSET Boards
  BY DEF Turn, definitions, Sharers
<1>2. /\ Turned = b /\ Turned' = b + 1
      /\ \A c \in Boards \ {b} : Final'[c] = Final[c] /\ (c < b + 1 <=> c < b)
  BY TurnFinal
<1>3. Plain(d)' <=> Plain(d)
  BY <1>1 DEF Plain
<1>4. Evaluated(d, raw)' = Evaluated(d, raw)
  BY <1>1 DEF Evaluated
<1>5. HitTells(t)'
  <2> SUFFICES ASSUME d \in HitValues, Plain(d)
               PROVE  Together(Sharers(t)', Final', b + 1, raw, Evaluated(d, raw))
    BY <1>2, <1>3, <1>4 DEF HitTells
  <2>1. Together(Sharers(t), Final, b, raw, Evaluated(d, raw))
    BY <1>2 DEF HitTells
  <2>2. \A c \in Sharers(t)' : Final'[c] = Final[c]
    BY <1>1, <1>2
  <2> QED
    BY <1>1, <2>1, <2>2, Leaving
<1>6. ReadTells(t)'
  BY <1>1, <1>2, <1>3 DEF ReadTells
<1> QED
  BY <1>5, <1>6

(* The others, when one tracker changes or a new one comes. *)
Replaced(t, r) ==
    trackers' = IF t \in DOMAIN trackers THEN [trackers EXCEPT ![t] = r] ELSE Append(trackers, r)

LEMMA Others ==
  ASSUME IInv, TellsInv, NEW b \in Boards, Turn(b), \A c \in Boards \ {b} : current'[c] = current[c],
         \A c \in Boards \ {b} : state'[c] = state[c] /\ tracker'[c] = tracker[c],
         NEW t \in 1..(Len(trackers) + 1), NEW r, Replaced(t, r),
         state[b] = "Started" => tracker[b] = t,
         state'[b] = "Started" => tracker'[b] = t
  PROVE  /\ t \in DOMAIN trackers' /\ trackers'[t] = r
         /\ \A u \in DOMAIN trackers' \ {t} :
               /\ u \in DOMAIN trackers /\ trackers'[u] = trackers[u]
               /\ HitTells(u)' /\ ReadTells(u)' /\ TextTells(u)'
         /\ Sharers(t)' \ {b} = Sharers(t) \ {b}
         /\ t \notin DOMAIN trackers => Sharers(t) = {}
<1>1. trackers \in Seq(Tracker) /\ Len(trackers) \in Nat /\ tracker \in [Boards -> 0..Len(trackers)]
  BY DEF IInv, TypeOK
<1>2. /\ t \in DOMAIN trackers' /\ trackers'[t] = r
      /\ \A u \in DOMAIN trackers' \ {t} : u \in DOMAIN trackers /\ trackers'[u] = trackers[u]
  <2>1. CASE t \in DOMAIN trackers
    BY <1>1, <2>1 DEF Replaced
  <2>2. CASE t \notin DOMAIN trackers
    <3>1. t = Len(trackers) + 1
      BY <1>1, <2>2
    <3>2. trackers' = Append(trackers, r)
      BY <2>2 DEF Replaced
    <3> QED
      BY <1>1, <3>1, <3>2
  <2> QED
    BY <2>1, <2>2
<1>3. ASSUME NEW u \in DOMAIN trackers' \ {t}
      PROVE  HitTells(u)' /\ ReadTells(u)' /\ TextTells(u)'
  <2>1. Sharers(u)' \subseteq Sharers(u) \ {b}
    BY DEF Sharers
  <2>2. HitTells(u) /\ ReadTells(u) /\ TextTells(u)
    BY <1>2, Turning DEF TellsInv
  <2>3. HitTells(u)' /\ ReadTells(u)'
    BY <1>2, <2>1, <2>2, Unaffected
  <2>4. display' = display
    BY DEF Turn, screen
  <2> QED
    BY <1>2, <2>2, <2>3, <2>4 DEF TextTells
<1>4. Sharers(t)' \ {b} = Sharers(t) \ {b}
  BY DEF Sharers
<1>5. t \notin DOMAIN trackers => Sharers(t) = {}
  BY <1>1 DEF Sharers
<1> QED
  BY <1>2, <1>3, <1>4, <1>5

(* The turns of leaderboards without an attempt. *)
LEMMA SilentTells ==
  ASSUME IInv, TellsInv, NEW b \in Boards, Turn(b), state[b] # "Started", state'[b] # "Started",
         \A c \in Boards \ {b} : current'[c] = current[c] /\ state'[c] = state[c],
         UNCHANGED <<captured, tracker, trackers>>
  PROVE  TellsInv'
<1>1. loaded /\ UNCHANGED <<value, progress, frame, display>>
  BY Turning DEF Turn, definitions, screen
<1>2. ASSUME NEW t \in DOMAIN trackers
      PROVE  HitTells(t)' /\ ReadTells(t)' /\ TextTells(t)'
  <2>1. HitTells(t) /\ ReadTells(t) /\ TextTells(t)
    BY <1>1 DEF TellsInv
  <2>2. Sharers(t)' \subseteq Sharers(t) \ {b}
    BY DEF Sharers
  <2>3. HitTells(t)' /\ ReadTells(t)'
    BY <2>1, <2>2, Unaffected
  <2> QED
    BY <1>1, <2>1, <2>3 DEF TextTells
<1>3. SharesInv'
  BY <1>1 DEF TellsInv, SharesInv
<1>4. FrameInv'
  BY <1>1 DEF TellsInv, FrameInv
<1> QED
  BY <1>2, <1>3, <1>4 DEF TellsInv

(* An attempt that starts: what its tracker held of the attempts that share it fits
   the value v that it starts with. *)
LEMMA Fitting ==
  ASSUME IInv, TellsInv, loaded, NEW b \in Boards, tracker[b] = 0, next = b, NEW v \in Nat
  PROVE  LET d == value[b]
             t == Slot(b, v)
             r == Entry(b, v)
         IN
         /\ t \in 1..(Len(trackers) + 1)
         /\ r \in Tracker /\ r.value = d /\ r.raw = v
         /\ r.pending \cap {"Show", "Update"} = {} => t \in DOMAIN trackers /\ display[t] = v
         /\ Allocated(d, v) =
              IF t \in DOMAIN trackers THEN [trackers EXCEPT ![t] = r] ELSE Append(trackers, r)
         /\ d \in HitValues /\ Plain(d) => Together(Sharers(t), Final, b, v, Evaluated(d, v))
         /\ d \notin HitValues /\ Plain(d) /\ frame[d] # Paused =>
              \A c \in Sharers(t) : c < b => current[c] = frame[d]
         /\ Sharers(t) # {} => t \in DOMAIN trackers /\ trackers[t].value = d
<1> DEFINE d == value[b]
           t == Slot(b, v)
           r == Entry(b, v)
<1>1. /\ t \in 1..(Len(trackers) + 1) /\ r \in Tracker
      /\ Allocated(d, v) =
           IF t \in DOMAIN trackers THEN [trackers EXCEPT ![t] = r] ELSE Append(trackers, r)
  BY Taken DEF IInv
<1>2. /\ trackers \in Seq(Tracker) /\ Len(trackers) \in Nat /\ DOMAIN trackers = 1..Len(trackers)
      /\ tracker \in [Boards -> 0..Len(trackers)]
  BY DEF IInv, TypeOK
<1>3. Turned = b
  BY NAssumption DEF Turned, Boards
<1>4. CASE t \in Shareable(d, v)
  <2>1. /\ t \in DOMAIN trackers /\ trackers[t].value = d /\ trackers[t] \in Tracker
        /\ d \in HitValues => trackers[t].raw = v
    BY <1>2, <1>4 DEF Shareable
  <2>2. r = [refs |-> trackers[t].refs + 1, value |-> d, raw |-> v,
             pending |-> (IF trackers[t].raw = v THEN trackers[t].pending
                          ELSE trackers[t].pending \cup {"Update"}) \ {"Hide"}]
    BY <1>4, <2>1 DEF Attached, Shows, Tracker, Entry
  <2>3. HitTells(t) /\ ReadTells(t) /\ TextTells(t)
    BY <2>1 DEF TellsInv
  <2> HIDE DEF r, t
  <2>4. r.pending \cap {"Show", "Update"} = {} =>
            trackers[t].raw = v /\ trackers[t].pending \cap {"Show", "Update"} = {}
    <3>1. CASE trackers[t].raw = v
      BY <2>2, <3>1
    <3>2. CASE trackers[t].raw # v
      <4>1. "Update" \in r.pending
        BY <2>2, <3>2
      <4> QED
        BY <4>1
    <3> QED
      BY <3>1, <3>2
  <2>5. r.pending \cap {"Show", "Update"} = {} => display[t] = v
    BY <2>3, <2>4 DEF TextTells
  <2>6. d \in HitValues /\ Plain(d) => Together(Sharers(t), Final, b, v, Evaluated(d, v))
    BY <1>3, <2>1, <2>3 DEF HitTells
  <2>7. d \notin HitValues /\ Plain(d) /\ frame[d] # Paused =>
           \A c \in Sharers(t) : c < b => current[c] = frame[d]
    BY <1>3, <2>1, <2>3 DEF ReadTells
  <2>8. r.value = d /\ r.raw = v
    BY <2>2
  <2> QED
    BY <1>1, <2>1, <2>5, <2>6, <2>7, <2>8 DEF r, t
<1>5. CASE t \notin Shareable(d, v)
  <2>1. r = New(d, v)
    BY <1>5 DEF Entry
  <2>2. r.value = d /\ r.raw = v /\ "Show" \in r.pending
    BY <2>1 DEF New
  <2>3. Users(tracker, t) = {}
    <3>1. t \in Available \/ t = Len(trackers) + 1
      BY <1>5, ChosenCases DEF Slot, IInv
    <3>2. CASE t \in Available
      <4>1. t \in DOMAIN trackers /\ trackers[t].refs = 0
        BY <3>2 DEF Available
      <4>2. Count(tracker, t) = 0
        BY <4>1 DEF IInv, TrackersInv
      <4> QED
        BY <4>2, CountType
    <3>3. CASE t = Len(trackers) + 1
      BY <1>2, <3>3 DEF Users
    <3> QED
      BY <3>1, <3>2, <3>3
  <2>4. Sharers(t) = {}
    BY <2>3 DEF Sharers, Users
  <2>5. Together({}, Final, b, v, Evaluated(d, v))
    BY DEF Together, Close, Stale
  <2> QED
    BY <1>1, <2>2, <2>4, <2>5
<1> QED
  BY <1>4, <1>5

LEMMA StartTells ==
  ASSUME IInv, TellsInv, NEW b \in Boards, Start(b)
  PROVE  TellsInv'
<1>0. PICK v, d, t, r : v = current'[b] /\ d = value[b] /\ t = Slot(b, v) /\ r = Entry(b, v)
  OBVIOUS
<1>1. /\ loaded /\ Turn(b) /\ next = b /\ state[b] = "Active" /\ tracker[b] = 0 /\ d \in Values
      /\ UNCHANGED <<value, progress, frame, display>>
      /\ FrameInv /\ SharesInv
  <2>1. loaded /\ tracker \in [Boards -> Nat] /\ d \in Values
    BY <1>0, Turning DEF Start
  <2>2. tracker[b] = 0
    BY <2>1 DEF Start, IInv, AttemptsInv
  <2> QED
    BY <2>1, <2>2 DEF Start, Turn, definitions, screen, TellsInv
<1>2. current' \in [Boards -> Nat] /\ v \in Nat /\ captured' \in [Boards -> Nat]
  BY <1>0, EvaluationType DEF Start, IInv
<1>3. /\ \A c \in Boards \ {b} : current'[c] = current[c] /\ captured'[c] = captured[c]
      /\ progress[b] = None => v = Evaluated(d, 0) /\ captured'[b] = v
  BY <1>0, <1>2 DEF Start, EvaluateRunning, IInv, TypeOK
<1>4. /\ tracker' = [tracker EXCEPT ![b] = t] /\ trackers' = Allocated(d, v)
      /\ state' = [state EXCEPT ![b] = "Started"]
  BY <1>0 DEF Start, Slot, Moves
<1>5. \A c \in Boards \ {b} : state'[c] = state[c] /\ tracker'[c] = tracker[c]
  BY <1>4
<1>6. state'[b] = "Started" /\ tracker'[b] = t
  BY <1>4 DEF IInv, TypeOK
<1>7. /\ t \in 1..(Len(trackers) + 1)
      /\ r \in Tracker /\ r.value = d /\ r.raw = v
      /\ r.pending \cap {"Show", "Update"} = {} => t \in DOMAIN trackers /\ display[t] = v
      /\ Allocated(d, v) =
           IF t \in DOMAIN trackers THEN [trackers EXCEPT ![t] = r] ELSE Append(trackers, r)
      /\ d \in HitValues /\ Plain(d) => Together(Sharers(t), Final, b, v, Evaluated(d, v))
      /\ d \notin HitValues /\ Plain(d) /\ frame[d] # Paused =>
           \A c \in Sharers(t) : c < b => current[c] = frame[d]
      /\ Sharers(t) # {} => t \in DOMAIN trackers /\ trackers[t].value = d
  <2>1. tracker[b] = 0 /\ next = b /\ v \in Nat /\ loaded
    BY <1>0, <1>1, <1>2
  <2>2. /\ Slot(b, v) \in 1..(Len(trackers) + 1)
        /\ Entry(b, v) \in Tracker /\ Entry(b, v).value = value[b] /\ Entry(b, v).raw = v
        /\ Entry(b, v).pending \cap {"Show", "Update"} = {} =>
              Slot(b, v) \in DOMAIN trackers /\ display[Slot(b, v)] = v
        /\ Allocated(value[b], v) =
             IF Slot(b, v) \in DOMAIN trackers THEN [trackers EXCEPT ![Slot(b, v)] = Entry(b, v)]
             ELSE Append(trackers, Entry(b, v))
        /\ value[b] \in HitValues /\ Plain(value[b]) =>
              Together(Sharers(Slot(b, v)), Final, b, v, Evaluated(value[b], v))
        /\ value[b] \notin HitValues /\ Plain(value[b]) /\ frame[value[b]] # Paused =>
              \A c \in Sharers(Slot(b, v)) : c < b => current[c] = frame[value[b]]
        /\ Sharers(Slot(b, v)) # {} =>
              Slot(b, v) \in DOMAIN trackers /\ trackers[Slot(b, v)].value = value[b]
    BY <2>1, Fitting
  <2> QED
    BY <1>0, <2>2
<1>8. /\ t \in DOMAIN trackers' /\ trackers'[t] = r
      /\ \A u \in DOMAIN trackers' \ {t} :
            /\ u \in DOMAIN trackers /\ trackers'[u] = trackers[u]
            /\ HitTells(u)' /\ ReadTells(u)' /\ TextTells(u)'
      /\ Sharers(t)' \ {b} = Sharers(t) \ {b}
      /\ t \notin DOMAIN trackers => Sharers(t) = {}
  <2>1. Replaced(t, r)
    BY <1>4, <1>7 DEF Replaced
  <2>2. \A c \in Boards \ {b} : current'[c] = current[c]
    BY <1>3
  <2>3. (state[b] = "Started" => tracker[b] = t) /\ (state'[b] = "Started" => tracker'[b] = t)
    BY <1>1, <1>6
  <2>4. Turn(b) /\ t \in 1..(Len(trackers) + 1)
    BY <1>1, <1>7
  <2> QED
    BY <1>5, <2>1, <2>2, <2>3, <2>4, Others
<1>9. Sharers(t)' = Sharers(t) \cup {b} /\ b \notin Sharers(t) /\ Sharers(t) \in SUBSET Boards
  <2>1. b \in Sharers(t)' /\ b \notin Sharers(t)
    BY <1>1, <1>6 DEF Sharers
  <2> QED
    BY <1>8, <2>1 DEF Sharers
<1>10. /\ Turned = b /\ Turned' = b + 1 /\ Final'[b] = v
       /\ \A c \in Boards \ {b} : Final'[c] = Final[c] /\ (c < b + 1 <=> c < b)
  BY <1>1, <1>3, TurnFinal, <1>0
<1>11. Plain(d)' <=> Plain(d)
  BY <1>1 DEF Plain
<1>12. \A c \in Sharers(t) : value[c] = d
  BY <1>0, <1>1, <1>7 DEF Sharers, SharesInv
<1>13. HitTells(t)'
  <2> SUFFICES ASSUME d \in HitValues, Plain(d)
               PROVE  Together(Sharers(t) \cup {b}, Final', b + 1, v, Evaluated(d, v)')
    BY <1>7, <1>8, <1>9, <1>10, <1>11 DEF HitTells
  <2>1. v = Evaluated(d, 0) /\ Evaluated(d, v) \in Int /\ Evaluated(d, v) <= v + Burst
    BY <1>0, <1>1, <1>2, <1>3, HitsEvaluated DEF Plain
  <2>2. ASSUME NEW c \in Sharers(t)
        PROVE  Final[c] \in Int /\ (b < c => v <= Final[c]) /\ Final'[c] = Final[c]
    <3>1. c \in Boards /\ value[c] = d /\ c \in Int /\ b \in Int /\ c # b
      BY <1>9, <1>12, NAssumption DEF Boards
    <3>2. Final[c] \in Int /\ current[c] \in Nat
      BY <1>1, <3>1, FinalType
    <3>3. b < c => Final[c] = Evaluated(d, current[c])
      BY <1>10, <3>1 DEF Final
    <3>4. Evaluated(d, 0) <= Evaluated(d, current[c])
      BY <1>1, <3>2, HitsEvaluated
    <3> QED
      BY <1>10, <2>1, <3>1, <3>2, <3>3, <3>4
  <2>3. Together(Sharers(t), Final, b, v, Evaluated(d, v))
    BY <1>7
  <2>4. v \in Int
    BY <1>2
  <2> QED
    BY <1>9, <1>10, <2>1, <2>2, <2>3, <2>4, Joining
<1>14. ReadTells(t)'
  <2> SUFFICES ASSUME d \notin HitValues, Plain(d), frame[d] # Paused
               PROVE  /\ v = frame[d]
                      /\ \A c \in Sharers(t) \cup {b} : c < b + 1 => current'[c] = frame[d]
    BY <1>1, <1>7, <1>8, <1>9, <1>10, <1>11 DEF ReadTells
  <2>1. v = frame[d]
    BY <1>0, <1>3, ReadEvaluated DEF Plain
  <2>2. ASSUME NEW c \in Sharers(t), c < b + 1
        PROVE  current'[c] = frame[d]
    <3>1. c \in Boards \ {b}
      BY <1>9
    <3> QED
      BY <1>3, <1>7, <1>10, <2>2, <3>1
  <2> QED
    BY <1>0, <2>1, <2>2
<1>15. TextTells(t)'
  BY <1>1, <1>7, <1>8 DEF TextTells
<1>16. SharesInv'
  <2> SUFFICES ASSUME NEW c \in Boards, state'[c] = "Started"
               PROVE  /\ trackers'[tracker'[c]].value = value[c]
                      /\ progress[c] = None => captured'[c] = current'[c]
    BY <1>1 DEF SharesInv
  <2>1. CASE c = b
    BY <1>0, <1>3, <1>6, <1>7, <1>8, <2>1
  <2>2. CASE c # b
    <3>1. /\ state[c] = "Started" /\ tracker'[c] = tracker[c]
          /\ trackers[tracker[c]].value = value[c]
          /\ progress[c] = None => captured[c] = current[c]
      BY <1>1, <1>5, <2>2 DEF SharesInv
    <3>2. tracker[c] \in DOMAIN trackers
      BY <1>1, <3>1 DEF IInv, AttemptsInv, TypeOK
    <3>3. trackers'[tracker[c]].value = value[c]
      <4>1. CASE tracker[c] = t
        <5>1. c \in Sharers(t)
          BY <3>1, <4>1 DEF Sharers
        <5> QED
          BY <1>7, <1>8, <1>12, <4>1, <5>1
      <4>2. CASE tracker[c] # t
        <5>1. tracker[c] \in DOMAIN trackers'
          <6>1. CASE t \in DOMAIN trackers
            BY <1>4, <1>7, <3>2, <6>1
          <6>2. CASE t \notin DOMAIN trackers
            <7>1. trackers' = Append(trackers, r) /\ trackers \in Seq(Tracker)
              BY <1>4, <1>7, <6>2 DEF IInv, TypeOK
            <7> QED
              BY <3>2, <7>1
          <6> QED
            BY <6>1, <6>2
        <5> QED
          BY <1>8, <3>1, <4>2, <5>1
      <4> QED
        BY <4>1, <4>2
    <3> QED
      BY <1>3, <2>2, <3>1, <3>3
  <2> QED
    BY <2>1, <2>2
<1>17. FrameInv'
  BY <1>1 DEF FrameInv
<1> QED
  BY <1>8, <1>13, <1>14, <1>15, <1>16, <1>17 DEF TellsInv

(* Start and submit in one frame: the others keep the tracker with the value that it
   had, as for an attempt that goes on. *)
LEMMA SubmitAtOnceTells ==
  ASSUME IInv, TellsInv, NEW b \in Boards, SubmitAtOnce(b)
  PROVE  TellsInv'
<1>0. PICK v, d, t, r : v = current'[b] /\ d = value[b] /\ t = Slot(b, v) /\ r = Entry(b, v)
  OBVIOUS
<1>1. /\ loaded /\ Turn(b) /\ next = b /\ state[b] = "Active" /\ tracker[b] = 0 /\ d \in Values
      /\ UNCHANGED <<value, progress, frame, display, tracker>>
      /\ FrameInv /\ SharesInv
  <2>1. loaded /\ tracker \in [Boards -> Nat] /\ d \in Values
    BY <1>0, Turning DEF SubmitAtOnce
  <2>2. tracker[b] = 0
    BY <2>1 DEF SubmitAtOnce, IInv, AttemptsInv
  <2> QED
    BY <2>1, <2>2 DEF SubmitAtOnce, Turn, definitions, screen, TellsInv
<1>2. current' \in [Boards -> Nat] /\ v \in Nat /\ captured' \in [Boards -> Nat]
  BY <1>0, EvaluationType DEF SubmitAtOnce, IInv
<1>3. /\ \A c \in Boards \ {b} : current'[c] = current[c] /\ captured'[c] = captured[c]
      /\ v = Evaluated(d, 0)
  BY <1>0, <1>2 DEF SubmitAtOnce, EvaluateFinal, IInv, TypeOK
<1>4. /\ state' = [state EXCEPT ![b] = "Triggered"]
      /\ trackers' = [Allocated(d, v) EXCEPT ![t] = Released(Allocated(d, v)[t])]
  BY <1>0 DEF SubmitAtOnce, Slot, Moves
<1>5. \A c \in Boards \ {b} : state'[c] = state[c] /\ tracker'[c] = tracker[c]
  BY <1>1, <1>4
<1>6. state'[b] # "Started"
  BY <1>4 DEF IInv, TypeOK
<1>7. /\ t \in 1..(Len(trackers) + 1)
      /\ r \in Tracker /\ r.value = d /\ r.raw = v
      /\ r.pending \cap {"Show", "Update"} = {} => t \in DOMAIN trackers /\ display[t] = v
      /\ Allocated(d, v) =
           IF t \in DOMAIN trackers THEN [trackers EXCEPT ![t] = r] ELSE Append(trackers, r)
      /\ d \in HitValues /\ Plain(d) => Together(Sharers(t), Final, b, v, Evaluated(d, v))
      /\ d \notin HitValues /\ Plain(d) /\ frame[d] # Paused =>
           \A c \in Sharers(t) : c < b => current[c] = frame[d]
      /\ Sharers(t) # {} => t \in DOMAIN trackers /\ trackers[t].value = d
  <2>1. tracker[b] = 0 /\ next = b /\ v \in Nat /\ loaded
    BY <1>0, <1>1, <1>2
  <2>2. /\ Slot(b, v) \in 1..(Len(trackers) + 1)
        /\ Entry(b, v) \in Tracker /\ Entry(b, v).value = value[b] /\ Entry(b, v).raw = v
        /\ Entry(b, v).pending \cap {"Show", "Update"} = {} =>
              Slot(b, v) \in DOMAIN trackers /\ display[Slot(b, v)] = v
        /\ Allocated(value[b], v) =
             IF Slot(b, v) \in DOMAIN trackers THEN [trackers EXCEPT ![Slot(b, v)] = Entry(b, v)]
             ELSE Append(trackers, Entry(b, v))
        /\ value[b] \in HitValues /\ Plain(value[b]) =>
              Together(Sharers(Slot(b, v)), Final, b, v, Evaluated(value[b], v))
        /\ value[b] \notin HitValues /\ Plain(value[b]) /\ frame[value[b]] # Paused =>
              \A c \in Sharers(Slot(b, v)) : c < b => current[c] = frame[value[b]]
        /\ Sharers(Slot(b, v)) # {} =>
              Slot(b, v) \in DOMAIN trackers /\ trackers[Slot(b, v)].value = value[b]
    BY <2>1, Fitting
  <2> QED
    BY <1>0, <2>2
<1>8. PICK q : /\ q = Released(r) /\ q.raw = v /\ q.value = d
               /\ q.pending \cap {"Show", "Update"} = r.pending \cap {"Show", "Update"}
  <2>1. /\ Released(r).raw = r.raw /\ Released(r).value = r.value
        /\ Released(r).pending = IF r.refs = 1 THEN r.pending \cup {"Hide"} ELSE r.pending
    BY <1>7 DEF Released, Tracker
  <2>2. (r.pending \cup {"Hide"}) \cap {"Show", "Update"} = r.pending \cap {"Show", "Update"}
    OBVIOUS
  <2> QED
    BY <1>7, <2>1, <2>2
<1>9. Replaced(t, q)
  <2>0. trackers \in Seq(Tracker) /\ Len(trackers) \in Nat /\ q \in Tracker
    <3>1. Released(r) \in Tracker
      <4>1. r.refs = Count(tracker, t) + 1 /\ r.refs > 0 /\ Consistent(r, t \in shown)
        <5>1. /\ Entry(b, v).refs = Count(tracker, Slot(b, v)) + 1
              /\ Consistent(Entry(b, v), Slot(b, v) \in shown)
          BY <1>0, <1>1, <1>2, Taken DEF IInv
        <5>2. Count(tracker, t) \in Nat
          BY CountType, NAssumption
        <5> QED
          BY <1>0, <5>1, <5>2
      <4> QED
        BY <1>7, <4>1, GivenBack
    <3> QED
      BY <1>8, <3>1 DEF IInv, TypeOK
  <2>1. CASE t \in DOMAIN trackers
    <3>1. Allocated(d, v) = [trackers EXCEPT ![t] = r] /\ Allocated(d, v)[t] = r
      BY <1>7, <2>0, <2>1
    <3>2. trackers' = [[trackers EXCEPT ![t] = r] EXCEPT ![t] = q]
      BY <1>4, <1>8, <3>1
    <3>3. [[trackers EXCEPT ![t] = r] EXCEPT ![t] = q] = [trackers EXCEPT ![t] = q]
      OBVIOUS
    <3> QED
      BY <2>1, <3>2, <3>3 DEF Replaced
  <2>2. CASE t \notin DOMAIN trackers
    <3>1. Allocated(d, v) = Append(trackers, r) /\ t = Len(trackers) + 1
      BY <1>7, <2>0, <2>2
    <3>2. Append(trackers, r)[t] = r
      BY <2>0, <3>1
    <3>3. trackers' = [Append(trackers, r) EXCEPT ![Len(trackers) + 1] = q]
      BY <1>4, <1>8, <3>1, <3>2
    <3>4. [Append(trackers, r) EXCEPT ![Len(trackers) + 1] = q] = Append(trackers, q)
      BY <1>7, <2>0, AppendThenChange
    <3> QED
      BY <2>2, <3>3, <3>4 DEF Replaced
  <2> QED
    BY <2>1, <2>2 DEF Replaced
<1>10. /\ t \in DOMAIN trackers' /\ trackers'[t] = q
       /\ \A u \in DOMAIN trackers' \ {t} :
             /\ u \in DOMAIN trackers /\ trackers'[u] = trackers[u]
             /\ HitTells(u)' /\ ReadTells(u)' /\ TextTells(u)'
       /\ Sharers(t)' \ {b} = Sharers(t) \ {b}
       /\ t \notin DOMAIN trackers => Sharers(t) = {}
  <2>1. \A c \in Boards \ {b} : current'[c] = current[c]
    BY <1>3
  <2>2. (state[b] = "Started" => tracker[b] = t) /\ (state'[b] = "Started" => tracker'[b] = t)
    BY <1>1, <1>6
  <2>3. Turn(b) /\ t \in 1..(Len(trackers) + 1)
    BY <1>1, <1>7
  <2> QED
    BY <1>5, <1>9, <2>1, <2>2, <2>3, Others
<1>11. Sharers(t)' = Sharers(t) /\ b \notin Sharers(t) /\ Sharers(t) \in SUBSET Boards
  <2>1. b \notin Sharers(t)' /\ b \notin Sharers(t)
    BY <1>1, <1>6 DEF Sharers
  <2> QED
    BY <1>10, <2>1 DEF Sharers
<1>12. /\ Turned' = b + 1
       /\ \A c \in Boards \ {b} : Final'[c] = Final[c] /\ (c < b + 1 <=> c < b)
  BY <1>1, <1>3, TurnFinal
<1>13. (Plain(d)' <=> Plain(d)) /\ Evaluated(d, v)' = Evaluated(d, v)
  BY <1>1 DEF Plain, Evaluated
<1>14. HitTells(t)'
  <2> SUFFICES ASSUME d \in HitValues, Plain(d)
               PROVE  Together(Sharers(t), Final', b + 1, v, Evaluated(d, v))
    BY <1>8, <1>10, <1>11, <1>12, <1>13 DEF HitTells
  <2>1. Together(Sharers(t), Final, b, v, Evaluated(d, v))
    BY <1>7
  <2>2. \A c \in Sharers(t) : Final'[c] = Final[c]
    BY <1>11, <1>12
  <2> QED
    BY <1>11, <2>1, <2>2, Leaving
<1>15. ReadTells(t)'
  <2> SUFFICES ASSUME d \notin HitValues, Plain(d), frame[d] # Paused,
                      NEW c \in Sharers(t), c < b + 1
               PROVE  current'[c] = frame[d] /\ v = frame[d]
    BY <1>1, <1>8, <1>10, <1>11, <1>12, <1>13 DEF ReadTells
  <2>1. v = frame[d]
    BY <1>3, ReadEvaluated
  <2>2. c \in Boards \ {b}
    BY <1>11
  <2> QED
    BY <1>3, <1>7, <1>12, <2>1, <2>2
<1>16. TextTells(t)'
  BY <1>1, <1>7, <1>8, <1>10 DEF TextTells
<1>17. SharesInv'
  <2> SUFFICES ASSUME NEW c \in Boards, state'[c] = "Started"
               PROVE  /\ trackers'[tracker[c]].value = value[c]
                      /\ progress[c] = None => captured'[c] = current'[c]
    BY <1>1 DEF SharesInv
  <2>1. c # b
    BY <1>6
  <2>2. /\ state[c] = "Started" /\ trackers[tracker[c]].value = value[c]
        /\ progress[c] = None => captured[c] = current[c]
    BY <1>1, <1>5, <2>1 DEF SharesInv
  <2>3. tracker[c] \in DOMAIN trackers
    BY <1>1, <2>2 DEF IInv, AttemptsInv, TypeOK
  <2>4. trackers'[tracker[c]].value = value[c]
    <3>1. CASE tracker[c] = t
      <4>1. c \in Sharers(t)
        BY <2>2, <3>1 DEF Sharers
      <4>2. trackers[t].value = d
        BY <1>7, <4>1
      <4> QED
        BY <1>8, <1>10, <2>2, <3>1, <4>2
    <3>2. CASE tracker[c] # t
      <4>1. trackers \in Seq(Tracker)
        BY DEF IInv, TypeOK
      <4>2. trackers'[tracker[c]] = trackers[tracker[c]]
        BY <1>9, <2>3, <3>2, <4>1 DEF Replaced
      <4> QED
        BY <2>2, <4>2
    <3> QED
      BY <3>1, <3>2
  <2> QED
    BY <1>3, <2>1, <2>2, <2>4
<1>18. FrameInv'
  BY <1>1 DEF FrameInv
<1> QED
  BY <1>1, <1>10, <1>14, <1>15, <1>16, <1>17, <1>18 DEF TellsInv

(* An attempt that shows its value v, and goes on or ends. *)
LEMMA ShowingTells ==
  ASSUME IInv, TellsInv, NEW b \in Boards, Turn(b), state[b] = "Started",
         NEW v \in Nat, current' = [current EXCEPT ![b] = v],
         progress[b] = None => v = Evaluated(value[b], captured[b]) /\ captured'[b] = v,
         \A c \in Boards \ {b} : captured'[c] = captured[c],
         \A c \in Boards \ {b} : state'[c] = state[c] /\ tracker'[c] = tracker[c],
         state'[b] = "Started" => tracker'[b] = tracker[b],
         NEW q, q.value = trackers[tracker[b]].value, q.raw = v,
         q.pending \cap {"Show", "Update"} = Shows(trackers[tracker[b]], v).pending \cap {"Show", "Update"},
         trackers' = [trackers EXCEPT ![tracker[b]] = q]
  PROVE  TellsInv'
<1>0. PICK t, d : t = tracker[b] /\ d = value[b]
  OBVIOUS
<1>1. /\ loaded /\ UNCHANGED <<value, progress, frame, display>> /\ FrameInv /\ SharesInv
      /\ trackers \in Seq(Tracker) /\ Len(trackers) \in Nat
      /\ current \in [Boards -> Nat]
  <2>1. loaded
    BY Turning
  <2> QED
    BY <2>1 DEF Turn, definitions, screen, TellsInv, IInv, TypeOK
<1>2. /\ t \in DOMAIN trackers /\ t \in 1..(Len(trackers) + 1) /\ trackers[t] \in Tracker
      /\ trackers[t].value = d /\ (progress[b] = None => captured[b] = current[b])
      /\ HitTells(t) /\ ReadTells(t) /\ TextTells(t)
  <2>1. t \in DOMAIN trackers /\ t \in 1..(Len(trackers) + 1)
    BY <1>0, <1>1 DEF IInv, AttemptsInv, TypeOK
  <2> QED
    BY <1>0, <1>1, <2>1 DEF SharesInv, TellsInv
<1>3. \A c \in Boards \ {b} : current'[c] = current[c]
  BY <1>1
<1>4. current'[b] = v
  BY <1>1
<1>5. /\ t \in DOMAIN trackers' /\ trackers'[t] = q
      /\ \A u \in DOMAIN trackers' \ {t} :
            /\ u \in DOMAIN trackers /\ trackers'[u] = trackers[u]
            /\ HitTells(u)' /\ ReadTells(u)' /\ TextTells(u)'
      /\ Sharers(t)' \ {b} = Sharers(t) \ {b}
      /\ t \notin DOMAIN trackers => Sharers(t) = {}
  <2>1. Replaced(t, q)
    BY <1>0, <1>2 DEF Replaced
  <2>2. (state[b] = "Started" => tracker[b] = t) /\ (state'[b] = "Started" => tracker'[b] = t)
    BY <1>0
  <2>3. t \in 1..(Len(trackers) + 1)
    BY <1>2
  <2>4. \A c \in Boards \ {b} : state'[c] = state[c] /\ tracker'[c] = tracker[c]
    OBVIOUS
  <2> QED
    BY <1>3, <2>1, <2>2, <2>3, <2>4, Others
<1>6. b \in Sharers(t) /\ Sharers(t)' \subseteq Sharers(t) /\ Sharers(t) \in SUBSET Boards
  <2>1. b \in Sharers(t)
    BY <1>0 DEF Sharers
  <2> QED
    BY <1>5, <2>1 DEF Sharers
<1>7. /\ Turned = b /\ Turned' = b + 1 /\ Final'[b] = v /\ Final[b] = Evaluated(d, current[b])
      /\ \A c \in Boards \ {b} : Final'[c] = Final[c] /\ (c < b + 1 <=> c < b)
  BY <1>0, <1>3, <1>4, TurnFinal
<1>8. Plain(d)' <=> Plain(d)
  BY <1>1 DEF Plain
<1>9. HitTells(t)'
  <2> SUFFICES ASSUME d \in HitValues, Plain(d)
               PROVE  Together(Sharers(t)', Final', b + 1, v, Evaluated(d, v)')
    BY <1>0, <1>2, <1>5, <1>7, <1>8 DEF HitTells
  <2>1. v = Final[b]
    BY <1>0, <1>2, <1>7 DEF Plain
  <2>2. Together(Sharers(t), Final, b, trackers[t].raw, Evaluated(d, trackers[t].raw))
    BY <1>2, <1>7 DEF HitTells
  <2>3. \A c \in Sharers(t) : Final[c] \in Int
    <3> SUFFICES ASSUME NEW c \in Sharers(t)
                 PROVE  Final[c] \in Int
      OBVIOUS
    <3>1. c \in Boards /\ value[c] = d
      BY <1>1, <1>2 DEF Sharers, SharesInv
    <3> QED
      BY <1>1, <3>1, FinalType
  <2>4. \A c \in Sharers(t)' : Final'[c] = Final[c]
    BY <1>6, <1>7, <2>1
  <2>5. Together(Sharers(t)', Final', b + 1, Final[b], Evaluated(d, v)')
    BY <1>6, <2>2, <2>3, <2>4, Following
  <2> QED
    BY <2>1, <2>5
<1>10. ReadTells(t)'
  <2> SUFFICES ASSUME d \notin HitValues, Plain(d), frame[d] # Paused,
                      NEW c \in Sharers(t)', c < b + 1
               PROVE  current'[c] = frame[d] /\ v = frame[d]
    BY <1>0, <1>1, <1>2, <1>5, <1>7, <1>8 DEF ReadTells
  <2>1. v = frame[d]
    BY <1>0, ReadEvaluated DEF Plain
  <2>2. CASE c = b
    BY <1>4, <2>1, <2>2
  <2>3. CASE c # b
    <3>1. c \in Sharers(t) /\ c \in Boards \ {b} /\ c < b
      BY <1>6, <1>7, <2>3
    <3>2. current[c] = frame[d]
      BY <1>2, <1>7, <3>1 DEF ReadTells
    <3> QED
      BY <1>3, <2>1, <3>1, <3>2
  <2> QED
    BY <2>2, <2>3
<1>11. TextTells(t)'
  <2> SUFFICES ASSUME q.pending \cap {"Show", "Update"} = {}
               PROVE  display[t] = v
    BY <1>1, <1>5 DEF TextTells
  <2>1. Shows(trackers[t], v).pending =
            IF trackers[t].raw = v THEN trackers[t].pending ELSE trackers[t].pending \cup {"Update"}
    BY <1>2 DEF Shows, Tracker
  <2>2. Shows(trackers[t], v).pending \cap {"Show", "Update"} = {}
    BY <1>0
  <2>3. trackers[t].raw = v
    <3> SUFFICES ASSUME trackers[t].raw # v
                 PROVE  FALSE
      OBVIOUS
    <3>1. "Update" \in Shows(trackers[t], v).pending
      BY <2>1
    <3> QED
      BY <2>2, <3>1
  <2>4. trackers[t].pending \cap {"Show", "Update"} = {}
    BY <2>1, <2>2, <2>3
  <2> QED
    BY <1>2, <2>3, <2>4 DEF TextTells
<1>12. SharesInv'
  <2> SUFFICES ASSUME NEW c \in Boards, state'[c] = "Started"
               PROVE  /\ trackers'[tracker'[c]].value = value[c]
                      /\ progress[c] = None => captured'[c] = current'[c]
    BY <1>1 DEF SharesInv
  <2>1. CASE c = b
    <3>1. tracker'[c] = t
      BY <1>0, <2>1
    <3> QED
      BY <1>0, <1>2, <1>4, <1>5, <2>1, <3>1
  <2>2. CASE c # b
    <3>1. /\ state[c] = "Started" /\ tracker'[c] = tracker[c]
          /\ trackers[tracker[c]].value = value[c]
          /\ progress[c] = None => captured[c] = current[c]
      BY <1>1, <2>2 DEF SharesInv
    <3>2. trackers'[tracker[c]].value = trackers[tracker[c]].value
      <4>1. tracker[c] \in DOMAIN trackers
        BY <1>1, <3>1 DEF IInv, AttemptsInv, TypeOK
      <4> QED
        BY <1>0, <1>1, <1>2, <4>1
    <3> QED
      BY <1>3, <2>2, <3>1, <3>2
  <2> QED
    BY <2>1, <2>2
<1>13. FrameInv'
  BY <1>1 DEF FrameInv
<1> QED
  BY <1>1, <1>5, <1>9, <1>10, <1>11, <1>12, <1>13 DEF TellsInv

LEMMA TrackTells ==
  ASSUME IInv, TellsInv, NEW b \in Boards, Track(b)
  PROVE  TellsInv'
<1>0. PICK v, q : v = current'[b] /\ q = Shows(trackers[tracker[b]], v)
  OBVIOUS
<1>1. /\ Turn(b) /\ state[b] = "Started" /\ UNCHANGED <<state, tracker>>
      /\ EvaluateRunning(b, captured[b], progressed[b])
      /\ trackers' = [trackers EXCEPT ![tracker[b]] = q]
  BY <1>0 DEF Track
<1>2. /\ captured[b] \in Nat /\ progressed[b] \in Nat
      /\ current \in [Boards -> Nat] /\ captured \in [Boards -> Nat]
  BY DEF IInv, TypeOK
<1>3. captured' \in [Boards -> Nat] /\ current' \in [Boards -> Nat] /\ v \in Nat
  BY <1>0, <1>1, <1>2, EvaluationType DEF IInv
<1>4. /\ current' = [current EXCEPT ![b] = v]
      /\ \A c \in Boards \ {b} : captured'[c] = captured[c]
      /\ progress[b] = None => v = Evaluated(value[b], captured[b]) /\ captured'[b] = v
  BY <1>0, <1>1, <1>2, <1>3 DEF EvaluateRunning
<1>5. trackers[tracker[b]] \in Tracker
  BY <1>1, Turning DEF IInv, AttemptsInv, TypeOK
<1>6. q.value = trackers[tracker[b]].value /\ q.raw = v
  BY <1>0, <1>5 DEF Shows, Tracker
<1>7. \A c \in Boards \ {b} : state'[c] = state[c] /\ tracker'[c] = tracker[c]
  BY <1>1
<1> QED
  BY <1>0, <1>1, <1>3, <1>4, <1>6, <1>7, ShowingTells

LEMMA SubmitTells ==
  ASSUME IInv, TellsInv, NEW b \in Boards, Submit(b)
  PROVE  TellsInv'
<1>0. PICK v, s, q : /\ v = current'[b] /\ s = Shows(trackers[tracker[b]], v) /\ q = Released(s)
  OBVIOUS
<1>1. /\ Turn(b) /\ state[b] = "Started"
      /\ EvaluateFinal(b, captured[b], progressed[b])
      /\ trackers' = [trackers EXCEPT ![tracker[b]] = q]
      /\ tracker' = [tracker EXCEPT ![b] = 0] /\ state' = [state EXCEPT ![b] = "Triggered"]
  BY <1>0 DEF Submit, Moves
<1>2. /\ captured[b] \in Nat /\ progressed[b] \in Nat
      /\ current \in [Boards -> Nat] /\ captured \in [Boards -> Nat]
  BY DEF IInv, TypeOK
<1>3. captured' \in [Boards -> Nat] /\ current' \in [Boards -> Nat] /\ v \in Nat
  BY <1>0, <1>1, <1>2, EvaluationType DEF IInv
<1>4. /\ current' = [current EXCEPT ![b] = v]
      /\ \A c \in Boards \ {b} : captured'[c] = captured[c]
      /\ progress[b] = None => v = Evaluated(value[b], captured[b]) /\ captured'[b] = v
  BY <1>0, <1>1, <1>2, <1>3 DEF EvaluateFinal
<1>5. trackers[tracker[b]] \in Tracker
  BY <1>1, Turning DEF IInv, AttemptsInv, TypeOK
<1>6. s.value = trackers[tracker[b]].value /\ s.raw = v /\ s \in Tracker
  BY <1>0, <1>3, <1>5 DEF Shows, Tracker
<1>7. /\ q.value = s.value /\ q.raw = s.raw
      /\ q.pending = IF s.refs = 1 THEN s.pending \cup {"Hide"} ELSE s.pending
  BY <1>0, <1>6 DEF Released, Tracker
<1>8. q.pending \cap {"Show", "Update"} = s.pending \cap {"Show", "Update"}
  BY <1>7
<1>9. /\ \A c \in Boards \ {b} : state'[c] = state[c] /\ tracker'[c] = tracker[c]
      /\ state'[b] # "Started"
  BY <1>1 DEF IInv, TypeOK
<1>10. /\ q.value = trackers[tracker[b]].value /\ q.raw = v
       /\ q.pending \cap {"Show", "Update"} =
             Shows(trackers[tracker[b]], v).pending \cap {"Show", "Update"}
  BY <1>0, <1>6, <1>7, <1>8
<1> QED
  BY <1>1, <1>3, <1>4, <1>9, <1>10, ShowingTells

LEMMA CancelTells ==
  ASSUME IInv, TellsInv, NEW b \in Boards, Cancel(b)
  PROVE  TellsInv'
<1>0. PICK t, q : t = tracker[b] /\ q = Released(trackers[t])
  OBVIOUS
<1>1. /\ loaded /\ Turn(b) /\ state[b] = "Started"
      /\ UNCHANGED <<value, progress, frame, display, captured>>
      /\ trackers' = [trackers EXCEPT ![t] = q]
      /\ tracker' = [tracker EXCEPT ![b] = 0] /\ state' = [state EXCEPT ![b] = "Canceled"]
      /\ current' = [current EXCEPT ![b] = 0]
      /\ FrameInv /\ SharesInv
  <2>1. loaded
    BY Turning DEF Cancel
  <2> QED
    BY <1>0, <2>1 DEF Cancel, Moves, Turn, definitions, screen, TellsInv
<1>2. /\ \A c \in Boards \ {b} : /\ state'[c] = state[c] /\ tracker'[c] = tracker[c]
                                 /\ current'[c] = current[c]
      /\ state'[b] # "Started"
  BY <1>1 DEF IInv, TypeOK
<1>3. /\ t \in DOMAIN trackers /\ trackers[t] \in Tracker /\ trackers \in Seq(Tracker)
  BY <1>0, <1>1 DEF IInv, AttemptsInv, TypeOK
<1>4. /\ q.raw = trackers[t].raw /\ q.value = trackers[t].value
      /\ q.pending = IF trackers[t].refs = 1 THEN trackers[t].pending \cup {"Hide"} ELSE trackers[t].pending
  BY <1>0, <1>3 DEF Released, Tracker
<1>5. DOMAIN trackers' = DOMAIN trackers
  BY <1>1
<1>6. ASSUME NEW u \in DOMAIN trackers
      PROVE  /\ trackers'[u].raw = trackers[u].raw /\ trackers'[u].value = trackers[u].value
             /\ HitTells(u)' /\ ReadTells(u)' /\ TextTells(u)'
  <2>1. /\ trackers'[u].raw = trackers[u].raw /\ trackers'[u].value = trackers[u].value
        /\ trackers'[u].pending \cap {"Show", "Update"} = trackers[u].pending \cap {"Show", "Update"}
    <3>1. CASE u = t
      <4>1. trackers'[u] = q
        BY <1>1, <1>3, <3>1
      <4>2. q.pending \cap {"Show", "Update"} = trackers[t].pending \cap {"Show", "Update"}
        BY <1>4
      <4> QED
        BY <1>4, <3>1, <4>1, <4>2
    <3>2. CASE u # t
      BY <1>1, <3>2
    <3> QED
      BY <3>1, <3>2
  <2>2. HitTells(u) /\ ReadTells(u) /\ TextTells(u)
    BY <1>1 DEF TellsInv
  <2>3. Sharers(u)' \subseteq Sharers(u) \ {b}
    BY <1>2 DEF Sharers
  <2>4. HitTells(u)' /\ ReadTells(u)'
    BY <1>1, <1>2, <2>1, <2>2, <2>3, Unaffected
  <2> QED
    BY <1>1, <2>1, <2>2, <2>4 DEF TextTells
<1>7. SharesInv'
  <2> SUFFICES ASSUME NEW c \in Boards, state'[c] = "Started"
               PROVE  /\ trackers'[tracker'[c]].value = value[c]
                      /\ progress[c] = None => captured[c] = current'[c]
    BY <1>1 DEF SharesInv
  <2>1. c # b /\ state[c] = "Started" /\ tracker'[c] = tracker[c] /\ current'[c] = current[c]
    BY <1>2
  <2>2. trackers[tracker[c]].value = value[c] /\ (progress[c] = None => captured[c] = current[c])
    BY <1>1, <2>1 DEF SharesInv
  <2>3. tracker[c] \in DOMAIN trackers
    BY <1>1, <2>1 DEF IInv, AttemptsInv, TypeOK
  <2> QED
    BY <1>6, <2>1, <2>2, <2>3
<1>8. FrameInv'
  BY <1>1 DEF FrameInv
<1> QED
  BY <1>5, <1>6, <1>7, <1>8 DEF TellsInv

(* The frame, the events and the unload. *)
LEMMA BeginFrameTells ==
  ASSUME IInv, TellsInv, NEW read \in Inputs, NEW failing \in SUBSET (Fragile \cap Boards),
         BeginFrame(read, failing)
  PROVE  TellsInv'
<1>1. /\ loaded /\ next = 0 /\ next' = 1 /\ frame' = read
      /\ state' = [b \in Boards |-> IF b \in failing THEN "Disabled" ELSE state[b]]
      /\ UNCHANGED <<value, progress, current, captured, tracker, trackers, display>>
      /\ FrameInv /\ SharesInv
  BY DEF BeginFrame, definitions, screen, TellsInv
<1>2. FrameInv'
  BY <1>1, ReadsType, ValuesAssumption DEF FrameInv
<1>3. SharesInv'
  BY <1>1 DEF SharesInv
<1>4. Turned = N + 1 /\ Turned' = 1
  BY <1>1 DEF Turned
<1>5. ASSUME NEW t \in DOMAIN trackers
      PROVE  HitTells(t)' /\ ReadTells(t)' /\ TextTells(t)'
  <2>0. PICK d, raw : d = trackers[t].value /\ raw = trackers[t].raw
    OBVIOUS
  <2>1. HitTells(t) /\ ReadTells(t) /\ TextTells(t)
    BY <1>1 DEF TellsInv
  <2>2. Sharers(t)' \subseteq Sharers(t) /\ Sharers(t) \in SUBSET Boards
    BY <1>1 DEF Sharers
  <2>3. raw \in Nat
    <3>1. trackers[t] \in Tracker
      BY DEF IInv, TypeOK
    <3> QED
      BY <2>0, <3>1 DEF Tracker
  <2>4. Plain(d)' <=> Plain(d)
    BY <1>1 DEF Plain
  <2>5. HitTells(t)'
    <3> SUFFICES ASSUME d \in HitValues, Plain(d)
                 PROVE  Together(Sharers(t)', Final', 1, raw, Evaluated(d, raw)')
      BY <1>1, <1>4, <2>0, <2>4 DEF HitTells
    <3>1. Together(Sharers(t), Final, N + 1, raw, Evaluated(d, raw))
      BY <1>4, <2>0, <2>1 DEF HitTells
    <3>2. \A c \in Sharers(t) : c \in Boards /\ value[c] = d
      BY <1>1, <2>0 DEF Sharers, SharesInv
    <3>3. \A c \in Sharers(t) : Final[c] = current[c] /\ Final[c] \in Int
      <4> SUFFICES ASSUME NEW c \in Sharers(t)
                   PROVE  Final[c] = current[c] /\ Final[c] \in Int
        OBVIOUS
      <4>1. c \in Boards /\ c < N + 1
        BY <3>2, NAssumption DEF Boards
      <4>2. current[c] \in Nat
        BY <4>1 DEF IInv, TypeOK
      <4> QED
        BY <1>4, <4>1, <4>2 DEF Final
    <3>4. \A c \in Sharers(t)' : Final'[c] = Evaluated(d, current[c])'
      <4> SUFFICES ASSUME NEW c \in Sharers(t)'
                   PROVE  Final'[c] = Evaluated(d, current[c])'
        OBVIOUS
      <4>1. c \in Boards /\ ~(c < 1) /\ value'[c] = d
        BY <1>1, <2>2, <3>2, NAssumption DEF Boards
      <4>2. Final'[c] = IF c < 1 THEN current'[c] ELSE Evaluated(value[c], current[c])'
        BY <1>4, <4>1 DEF Final
      <4> QED
        BY <4>1, <4>2 DEF Evaluated
    <3>5. raw \in Int
      BY <2>3
    <3>6. CASE read[d] = Reset
      <4>1. Evaluated(d, raw)' = 0
        BY <1>1, <3>6 DEF Evaluated
      <4>2. \A c \in Sharers(t)' : Final'[c] = 0
        BY <1>1, <3>4, <3>6 DEF Evaluated
      <4>3. Together(Sharers(t)', Final', 1, raw, 0)
        BY <2>2, <3>1, <3>3, <3>5, <4>2, Beginning
      <4> QED
        BY <4>1, <4>3
    <3>7. CASE read[d] # Reset
      <4>1. read[d] \in Int
        BY <1>1, <1>2, <3>7 DEF FrameInv
      <4>2. Evaluated(d, raw)' = raw + read[d]
        BY <1>1, <3>7 DEF Evaluated
      <4>3. \A c \in Sharers(t)' : Final'[c] = Final[c] + read[d]
        BY <1>1, <2>2, <3>3, <3>4, <3>7 DEF Evaluated
      <4>4. Together(Sharers(t)', Final', 1, raw, raw + read[d])
        BY <2>2, <3>1, <3>3, <3>5, <4>1, <4>3, Beginning
      <4> QED
        BY <4>2, <4>4
    <3> QED
      BY <3>6, <3>7
  <2>6. ReadTells(t)'
    <3>1. \A c \in Sharers(t)' : ~(c < 1)
      BY <2>2, NAssumption DEF Boards
    <3> QED
      BY <1>4, <3>1 DEF ReadTells
  <2> QED
    BY <1>1, <2>1, <2>5, <2>6 DEF TextTells
<1> QED
  BY <1>1, <1>2, <1>3, <1>5 DEF TellsInv

LEMMA RaiseEventsTells ==
  ASSUME IInv, TellsInv, RaiseEvents
  PROVE  TellsInv'
<1>1. /\ next = N + 1 /\ next' = 0 /\ loaded
      /\ IF pending THEN trackers' = Quiet(trackers) /\ display' = DisplayAfter(trackers)
         ELSE UNCHANGED <<trackers, display>>
      /\ UNCHANGED <<value, progress, state, current, captured, tracker, frame>>
      /\ FrameInv /\ SharesInv
  <2>1. loaded
    BY NAssumption DEF RaiseEvents, IInv
  <2> QED
    BY <2>1 DEF RaiseEvents, definitions, TellsInv
<1>2. trackers \in Seq(Tracker)
  BY DEF IInv, TypeOK
<1>3. /\ DOMAIN trackers' = DOMAIN trackers
      /\ \A t \in DOMAIN trackers : /\ trackers'[t].raw = trackers[t].raw
                                    /\ trackers'[t].value = trackers[t].value
                                    /\ display'[t] = trackers[t].raw
  <2>1. CASE pending
    <3>1. \A t \in DOMAIN trackers : trackers[t] \in Tracker /\ TextTells(t)
      BY <1>1, <1>2 DEF TellsInv
    <3>2. DOMAIN trackers' = DOMAIN trackers
      BY <1>1, <2>1 DEF Quiet
    <3>3. \A t \in DOMAIN trackers : trackers'[t] = [trackers[t] EXCEPT !.pending = {}]
      BY <1>1, <2>1 DEF Quiet
    <3>4. \A t \in DOMAIN trackers :
             trackers'[t].raw = trackers[t].raw /\ trackers'[t].value = trackers[t].value
      BY <3>1, <3>3 DEF Tracker
    <3>5. \A t \in DOMAIN trackers : display'[t] = trackers[t].raw
      BY <1>1, <2>1, <3>1 DEF DisplayAfter, TextTells
    <3> QED
      BY <3>2, <3>4, <3>5
  <2>2. CASE ~pending
    <3>1. \A t \in DOMAIN trackers : trackers[t].pending = {} /\ TextTells(t)
      BY <1>1, <2>2 DEF IInv, TrackersInv, TellsInv
    <3> QED
      BY <1>1, <2>2, <3>1 DEF TextTells
  <2> QED
    BY <2>1, <2>2
<1>4. Turned = N + 1 /\ Turned' = N + 1
  BY <1>1, NAssumption DEF Turned
<1>5. Final' = Final
  BY <1>1, <1>4 DEF Final, Evaluated
<1>6. ASSUME NEW t \in DOMAIN trackers
      PROVE  HitTells(t)' /\ ReadTells(t)' /\ TextTells(t)'
  <2>0. PICK d, raw : d = trackers[t].value /\ raw = trackers[t].raw
    OBVIOUS
  <2>1. HitTells(t) /\ ReadTells(t)
    BY <1>1 DEF TellsInv
  <2>2. Sharers(t)' = Sharers(t)
    BY <1>1 DEF Sharers
  <2>3. (Plain(d)' <=> Plain(d)) /\ Evaluated(d, raw)' = Evaluated(d, raw)
    BY <1>1 DEF Plain, Evaluated
  <2>4. trackers'[t].value = d /\ trackers'[t].raw = raw
    BY <1>3, <2>0
  <2>5. HitTells(t)'
    BY <1>4, <1>5, <2>0, <2>1, <2>2, <2>3, <2>4 DEF HitTells
  <2>6. ReadTells(t)'
    BY <1>1, <1>4, <2>0, <2>1, <2>2, <2>3, <2>4 DEF ReadTells
  <2> QED
    BY <1>3, <2>5, <2>6 DEF TextTells
<1>7. SharesInv'
  <2> SUFFICES ASSUME NEW b \in Boards, state[b] = "Started"
               PROVE  /\ trackers'[tracker[b]].value = value[b]
                      /\ progress[b] = None => captured[b] = current[b]
    BY <1>1 DEF SharesInv
  <2>1. tracker[b] \in DOMAIN trackers
    BY <1>1 DEF IInv, AttemptsInv, TypeOK
  <2> QED
    BY <1>1, <1>3, <2>1 DEF SharesInv
<1>8. FrameInv'
  BY <1>1 DEF FrameInv
<1> QED
  BY <1>3, <1>6, <1>7, <1>8 DEF TellsInv

LEMMA InitTells == Init => TellsInv
<1> SUFFICES ASSUME Init PROVE TellsInv
  OBVIOUS
<1>1. DOMAIN trackers = {} /\ frame = [d \in Values |-> 0] /\ \A b \in Boards : state[b] # "Started"
  BY DEF Init
<1>2. SharesInv
  BY <1>1 DEF SharesInv
<1>3. FrameInv
  BY <1>1, ValuesAssumption DEF FrameInv
<1> QED
  BY <1>1, <1>2, <1>3 DEF TellsInv

LEMMA NextTells == IInv /\ TellsInv /\ [Next]_vars => TellsInv'
<1> SUFFICES ASSUME IInv, TellsInv, [Next]_vars PROVE TellsInv'
  OBVIOUS
<1>1. CASE \E read \in Inputs, failing \in SUBSET (Fragile \cap Boards) : BeginFrame(read, failing)
  BY <1>1, BeginFrameTells
<1>2. ASSUME NEW b \in Boards, Process(b)
      PROVE  TellsInv'
  <2>1. CASE Skip(b)
    <3>1. /\ Turn(b) /\ UNCHANGED <<state, current, captured, tracker, trackers>>
          /\ state[b] # "Started"
      BY <2>1 DEF Skip, boards, IInv, AttemptsInv
    <3> QED
      BY <3>1, SilentTells
  <2>2. CASE Idle(b)
    <3>1. /\ Turn(b) /\ UNCHANGED <<state, captured, tracker, trackers>>
          /\ current' = [current EXCEPT ![b] = 0] /\ state[b] # "Started"
      BY <2>2 DEF Idle, NoValue
    <3>2. \A c \in Boards \ {b} : current'[c] = current[c] /\ state'[c] = state[c]
      BY <3>1 DEF IInv, TypeOK
    <3> QED
      BY <3>1, <3>2, SilentTells
  <2>3. ASSUME NEW start \in BOOLEAN, Wait(b, start)
        PROVE  TellsInv'
    <3>1. /\ Turn(b) /\ UNCHANGED <<captured, tracker, trackers>>
          /\ current' = [current EXCEPT ![b] = 0]
          /\ state[b] # "Started"
          /\ \/ state' = state
             \/ state' = [state EXCEPT ![b] = "Active"]
      BY <2>3 DEF Wait, NoValue
    <3>2. /\ \A c \in Boards \ {b} : current'[c] = current[c] /\ state'[c] = state[c]
          /\ state[b] # "Started" /\ state'[b] # "Started"
      BY <2>3, <3>1 DEF IInv, TypeOK, Wait
    <3> QED
      BY <3>1, <3>2, SilentTells
  <2> QED
    BY <1>2, <2>1, <2>2, <2>3, StartTells, SubmitAtOnceTells, TrackTells, CancelTells, SubmitTells
       DEF Process
<1>3. CASE RaiseEvents
  BY <1>3, RaiseEventsTells
<1>4. CASE Unload
  <2>1. ~loaded'
    BY <1>4, Zenon DEF Unload
  <2> QED
    BY <2>1 DEF TellsInv
<1>5. CASE UNCHANGED vars
  <2>1. UNCHANGED <<value, progress, state, current, captured, tracker, trackers, frame, next, display,
                    loaded>>
    BY <1>5 DEF vars, definitions, boards, screen
  <2>2. Final' = Final /\ Turned' = Turned
    BY <2>1 DEF Final, Turned, Evaluated
  <2>3. SharesInv' <=> SharesInv
    BY <2>1 DEF SharesInv
  <2>4. FrameInv' <=> FrameInv
    BY <2>1 DEF FrameInv
  <2>5. ASSUME NEW t, HitTells(t), ReadTells(t), TextTells(t)
        PROVE  HitTells(t)' /\ ReadTells(t)' /\ TextTells(t)'
    BY <2>1, <2>2, <2>5 DEF HitTells, ReadTells, TextTells, Sharers, Plain, Evaluated
  <2> QED
    BY <2>1, <2>3, <2>4, <2>5 DEF TellsInv
<1> QED
  BY <1>1, <1>2, <1>3, <1>4, <1>5 DEF Next

(* A tracker tells the value of every attempt that shows it, up to the hits of one
   frame (rc_client_allocate_leaderboard_tracker, rc_client_update_leaderboard_tracker):
   for any number of leaderboards that share it, whichever of them start, end or are
   disabled in whatever order, and for any number of frames. *)
THEOREM TrackerTellsHolds == Spec => []TrackerTells
<1>1. IInv /\ TellsInv => TrackerTells
  <2> SUFFICES ASSUME IInv, TellsInv, next = 0, loaded, NEW b \in Tracking,
                      ~ \E c \in Boards : value[c] = value[b] /\ progress[c] # None,
                      frame[value[b]] # Paused
               PROVE  Distance(display[tracker[b]], current[b]) <=
                         IF value[b] \in HitValues THEN Burst ELSE 0
    BY DEF TrackerTells
  <2>0. PICK t, d, raw : t = tracker[b] /\ d = value[b] /\ raw = trackers[t].raw
    OBVIOUS
  <2>1. b \in Boards /\ state[b] = "Started" /\ b \in Sharers(t)
    BY <2>0 DEF Tracking, Sharers, IInv, AttemptsInv
  <2>2. t \in DOMAIN trackers /\ trackers[t] \in Tracker /\ current[b] \in Nat /\ raw \in Nat
    <3>1. t \in DOMAIN trackers /\ trackers[t] \in Tracker /\ current[b] \in Nat
      BY <2>0, <2>1 DEF IInv, AttemptsInv, TypeOK
    <3> QED
      BY <2>0, <3>1 DEF Tracker
  <2>3. /\ trackers[t].value = d /\ HitTells(t) /\ ReadTells(t) /\ TextTells(t)
    BY <2>0, <2>1, <2>2 DEF TellsInv, SharesInv
  <2>4. Plain(d)
    BY <2>0 DEF Plain
  <2>5. display[t] = raw
    <3>1. trackers[t].pending = {}
      BY <2>2 DEF IInv, TrackersInv
    <3> QED
      BY <2>0, <2>3, <3>1 DEF TextTells
  <2>6. Turned = N + 1 /\ b < N + 1 /\ ~(N + 1 <= b)
    BY <2>1, NAssumption DEF Turned, Boards
  <2>7. CASE d \in HitValues
    <3>1. Final[b] = current[b]
      BY <2>1, <2>6 DEF Final
    <3>2. current[b] <= raw /\ raw <= current[b] + Burst
      BY <2>0, <2>1, <2>3, <2>4, <2>6, <2>7, <3>1 DEF HitTells, Together, Stale, Current
    <3>3. Distance(raw, current[b]) <= Burst
      BY <2>2, <3>2, ValuesAssumption DEF Distance
    <3> QED
      BY <2>0, <2>5, <2>7, <3>3
  <2>8. CASE d \notin HitValues
    <3>1. current[b] = raw
      BY <2>0, <2>1, <2>3, <2>4, <2>6, <2>8 DEF ReadTells
    <3>2. Distance(raw, current[b]) <= 0
      BY <2>2, <3>1 DEF Distance
    <3> QED
      BY <2>0, <2>5, <2>8, <3>2
  <2> QED
    BY <2>7, <2>8
<1>2. Spec => [](IInv /\ TellsInv)
  BY InitInv, NextInv, InitTells, NextTells, PTL DEF Spec
<1> QED
  BY <1>1, <1>2, PTL
=============================================================================
