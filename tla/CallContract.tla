---------------------------- MODULE CallContract ----------------------------
(***************************************************************************)
(* What a blocking call of a connection promises its caller: it comes to   *)
(* one end, it succeeds only with an answer its peer gave, and it may fail *)
(* at any time.  The peer may answer a call that has failed.               *)
(***************************************************************************)
CONSTANT Calls

VARIABLES
    state,      \* where each call is
    answered    \* the calls the peer answered

vars == <<state, answered>>

States == {"new", "pending", "succeeded", "failed"}

Init ==
    /\ state = [c \in Calls |-> "new"]
    /\ answered = {}

Begin(c) ==
    /\ state[c] = "new"
    /\ state' = [state EXCEPT ![c] = "pending"]
    /\ UNCHANGED answered

Answer(c) ==
    /\ state[c] # "new"
    /\ answered' = answered \cup {c}
    /\ UNCHANGED state

Succeed(c) ==
    /\ state[c] = "pending"
    /\ c \in answered
    /\ state' = [state EXCEPT ![c] = "succeeded"]
    /\ UNCHANGED answered

Fail(c) ==
    /\ state[c] = "pending"
    /\ state' = [state EXCEPT ![c] = "failed"]
    /\ UNCHANGED answered

Next == \E c \in Calls : Begin(c) \/ Answer(c) \/ Succeed(c) \/ Fail(c)

Spec == Init /\ [][Next]_vars
=============================================================================
