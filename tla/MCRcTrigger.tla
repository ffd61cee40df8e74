---------------------------- MODULE MCRcTrigger ----------------------------
(* Instances of RcTrigger: every group of up to three conditions of a choice of
   flags as an achievement of its own, and achievements of several groups. *)
EXTENDS RcTrigger

C(type, target) == [type |-> type, target |-> target]

Choice == {C("Standard", 0), C("Standard", 2), C("PauseIf", 0), C("PauseIf", 2), C("ResetIf", 0),
           C("Trigger", 0), C("Measured", 2), C("AddHits", 0), C("SubHits", 0), C("ResetNextIf", 0),
           C("AndNext", 0), C("OrNext", 0), C("MeasuredIf", 0)}

(* The parser refuses a second Measured with another target; one is enough. *)
OneMeasured(conds) ==
    \A i, j \in DOMAIN conds : i # j => "Measured" \notin {conds[i].type} \cap {conds[j].type}

Frequent == {c \in Choice : c.type \notin {"SubHits", "OrNext"}}

Single == {<<s>> : s \in {<<a, b, c>> : a \in Frequent, b \in Frequent, c \in Frequent}
                           \cup {<<a, b>> : a \in Choice, b \in Choice}}

Cores == {<<>>, <<C("Standard", 2)>>, <<C("PauseIf", 0), C("Standard", 0)>>, <<C("ResetIf", 0)>>}
Alternatives == {<<C("PauseIf", 0), C("Measured", 2)>>, <<C("Standard", 0)>>,
                 <<C("ResetIf", 0), C("Standard", 2)>>}
Several == {<<a, b>> : a \in Cores, b \in Alternatives}
             \cup {<<a, b, c>> : a \in {<<>>, <<C("ResetIf", 0)>>}, b \in Alternatives, c \in Alternatives}

MCDefinitions == {d \in Single : OneMeasured(d[1]) /\ TalliesUsed(d)} \cup Several

(* For the counter that is carried over. *)
MCTallies == {<<<<C("Standard", 2), C("AddHits", 0), end>>>> : end \in {C("PauseIf", 0), C("ResetIf", 0)}}
=============================================================================
