------------------------------ MODULE Rpc_proofs ------------------------------
(***************************************************************************)
(* Proofs about the blocking calls of a connection: their types, that they *)
(* keep CallContract, and that no task is finished twice but by an answer  *)
(* that comes after Cleanup.                                               *)
(***************************************************************************)
EXTENDS Rpc, TLAPS

\* A caller's steps.
CallerStep(c) == Begin(c) \/ Caller(c)

\* Every variable keeps its type, for any set of calls.
THEOREM TypeCorrect == Spec => []TypeOK
<1>1. Init => TypeOK
  BY RpcAssumption DEF Init, TypeOK, CallStates
<1>2. TypeOK /\ [Next]_vars => TypeOK'
  <2>1. SUFFICES ASSUME TypeOK, [Next]_vars
                 PROVE  TypeOK'
    OBVIOUS
  <2>2. CASE UNCHANGED vars
    BY <2>1, <2>2 DEF TypeOK, vars, callVars, peerVars
  <2>3. ASSUME NEW c \in Calls, CallerStep(c)
        PROVE  TypeOK'
    <3>1. Outcome(c) \in {"none", "response", "error", "empty"}
      BY DEF Outcome
    <3>2. QED
      BY <2>1, <2>3, <3>1
      DEF TypeOK, CallerStep, Begin, Caller, Write, HandOver, SendOnClosed, Done, Expire,
          ReturnExpired, Return, Goto, CallStates, callVars, peerVars
  <2>4. ASSUME NEW c \in Calls, Answer(c)
        PROVE  TypeOK'
    BY <2>1, <2>4 DEF TypeOK, Answer, callVars
  <2>5. CASE Writer
    BY <2>1, <2>5
    DEF TypeOK, Writer, WriterSend, WriterFail, WriterEnd, CloseSocket, callVars, peerVars
  <2>6. CASE Reader
    <3>1. CASE ReaderWork
      BY <2>1, <3>1
      DEF TypeOK, ReaderWork, ReaderRead, ReaderPop, ReaderRespond, ReaderClose, Pop,
          callVars, peerVars
    <3>2. CASE ReaderFail \/ ReaderLeave
      BY <2>1, <3>2 DEF TypeOK, ReaderFail, ReaderLeave, CloseSocket, callVars, peerVars
    <3>3. QED
      BY <2>6, <3>1, <3>2 DEF Reader
  <2>7. CASE Owner
    BY <2>1, <2>7
    DEF TypeOK, Owner, Selected, Served, Cleanup, Cancel, callVars, peerVars
  <2>8. QED
    BY <2>1, <2>2, <2>3, <2>4, <2>5, <2>6, <2>7 DEF Next, CallerStep
<1>3. QED
  BY <1>1, <1>2, PTL DEF Spec
-----------------------------------------------------------------------------
(***************************************************************************)
(* The contract.                                                           *)
(***************************************************************************)

\* A packet reaches the writer, and then the peer, only after its call began.
PacketsInOrder ==
    \A c \in Calls :
        /\ pc[c] \in {"idle", "put", "write"} => peer[c] = "unaware" /\ writer # c
        /\ writer = c => peer[c] = "unaware"

\* What the reader goroutine holds, and what it stored, the peer has said.
AnswersAreReal ==
    /\ \A c \in inbox : peer[c] = "answered"
    /\ reader \in {"pop", "respond", "close"} => msg \in Calls /\ peer[msg] = "answered"
    /\ reader = "close" => msg \in response
    /\ \A c \in Calls : c \in response => peer[c] = "answered"

\* A call is released with an error or a response, and returned one of them.
ReleasedWithReason ==
    \A c \in Calls :
        /\ closes[c] > 0 => err[c] # "none" \/ c \in response
        /\ pc[c] = "expired" => err[c] # "none"
        /\ pc[c] = "returned" => result[c] \in {"response", "error"}

CallInv == TypeOK /\ PacketsInOrder /\ AnswersAreReal /\ ReleasedWithReason

\* The invariant holds of the initial states and every step keeps it.
LEMMA CallInvInductive == (Init => CallInv) /\ (CallInv /\ TypeOK' /\ [Next]_vars => CallInv')
<1>1. Init => CallInv
  BY RpcAssumption
  DEF Init, CallInv, TypeOK, CallStates, PacketsInOrder, AnswersAreReal, ReleasedWithReason
<1>2. ASSUME CallInv, TypeOK', [Next]_vars
      PROVE  CallInv'
  <2>1. CASE UNCHANGED vars
    BY <1>2, <2>1
    DEF CallInv, PacketsInOrder, AnswersAreReal, ReleasedWithReason, vars, callVars, peerVars
  <2>2. ASSUME NEW c \in Calls, CallerStep(c)
        PROVE  CallInv'
    <3>1. PacketsInOrder'
      BY <1>2, <2>2
      DEF CallInv, TypeOK, PacketsInOrder, CallerStep, Begin, Caller, Write, HandOver,
          SendOnClosed, Done, Expire, ReturnExpired, Return, Goto, callVars, peerVars
    <3>2. AnswersAreReal'
      BY <1>2, <2>2
      DEF CallInv, TypeOK, AnswersAreReal, CallerStep, Begin, Caller, Write, HandOver,
          SendOnClosed, Done, Expire, ReturnExpired, Return, Goto, callVars, peerVars
    <3>3. ReleasedWithReason'
      BY <1>2, <2>2
      DEF CallInv, TypeOK, ReleasedWithReason, CallerStep, Begin, Caller, Write, HandOver,
          SendOnClosed, Done, Expire, ReturnExpired, Return, Outcome, Goto, callVars
    <3>4. QED
      BY <1>2, <3>1, <3>2, <3>3 DEF CallInv
  <2>3. ASSUME NEW c \in Calls, Answer(c)
        PROVE  CallInv'
    BY <1>2, <2>3
    DEF CallInv, TypeOK, PacketsInOrder, AnswersAreReal, ReleasedWithReason, Answer,
        callVars
  <2>4. CASE Writer
    <3>1. PacketsInOrder'
      BY <1>2, <2>4, RpcAssumption
      DEF CallInv, TypeOK, PacketsInOrder, Writer, WriterSend, WriterFail, WriterEnd,
          callVars, peerVars
    <3>2. AnswersAreReal'
      <4>1. CASE WriterSend
        <5>1. writer \in Calls /\ peer[writer] = "unaware"
          BY <1>2, <4>1 DEF CallInv, PacketsInOrder, WriterSend
        <5>2. \A c \in Calls : peer[c] = "answered" => peer'[c] = "answered"
          BY <1>2, <4>1, <5>1 DEF CallInv, TypeOK, WriterSend
        <5>3. QED
          BY <1>2, <4>1, <5>2 DEF CallInv, TypeOK, AnswersAreReal, WriterSend, callVars
      <4>2. CASE WriterFail \/ WriterEnd
        BY <1>2, <4>2
        DEF CallInv, AnswersAreReal, WriterFail, WriterEnd, callVars, peerVars
      <4>3. QED
        BY <2>4, <4>1, <4>2 DEF Writer
    <3>3. ReleasedWithReason'
      BY <1>2, <2>4
      DEF CallInv, ReleasedWithReason, Writer, WriterSend, WriterFail, WriterEnd, callVars
    <3>4. QED
      BY <1>2, <3>1, <3>2, <3>3 DEF CallInv
  <2>5. CASE Reader
    <3>1. PacketsInOrder'
      BY <1>2, <2>5
      DEF CallInv, TypeOK, PacketsInOrder, Reader, ReaderWork, ReaderRead, ReaderPop,
          ReaderRespond, ReaderClose, ReaderFail, ReaderLeave, callVars, peerVars
    <3>2. AnswersAreReal'
      BY <1>2, <2>5
      DEF CallInv, TypeOK, AnswersAreReal, Reader, ReaderWork, ReaderRead, ReaderPop,
          ReaderRespond, ReaderClose, ReaderFail, ReaderLeave, callVars, peerVars
    <3>3. ReleasedWithReason'
      BY <1>2, <2>5
      DEF CallInv, TypeOK, AnswersAreReal, ReleasedWithReason, Reader, ReaderWork, ReaderRead,
          ReaderPop, ReaderRespond, ReaderClose, ReaderFail, ReaderLeave, callVars, peerVars
    <3>4. QED
      BY <1>2, <3>1, <3>2, <3>3 DEF CallInv
  <2>6. CASE Owner
    BY <1>2, <2>6
    DEF CallInv, TypeOK, PacketsInOrder, AnswersAreReal, ReleasedWithReason, Owner, Selected,
        Served, Cleanup, Cancel, callVars, peerVars
  <2>7. QED
    BY <1>2, <2>1, <2>2, <2>3, <2>4, <2>5, <2>6 DEF Next, CallerStep
<1>3. QED
  BY <1>1, <1>2

\* Every behaviour of the RPC is a behaviour of CallContract: a call that
\* returns a response got it from the peer, and none returns empty-handed.
THEOREM ContractKept == Spec => KeepsContract
<1> DEFINE state == [c \in Calls |-> IF pc[c] = "idle" THEN "new"
                                     ELSE IF pc[c] # "returned" THEN "pending"
                                     ELSE IF result[c] = "error" THEN "failed" ELSE "succeeded"]
           answered == {c \in Calls : peer[c] = "answered"}
<1>1. Init => Contract!Init
  BY DEF Init, Contract!Init
<1>2. CallInv /\ CallInv' /\ [Next]_vars => [Contract!Next]_(Contract!vars)
  <2>1. SUFFICES ASSUME CallInv, CallInv', [Next]_vars
                 PROVE  [Contract!Next]_(Contract!vars)
    OBVIOUS
  <2>2. CASE UNCHANGED <<pc, result, peer>>
    BY <2>2 DEF Contract!vars
  <2>3. ASSUME NEW c \in Calls, Begin(c)
        PROVE  [Contract!Next]_(Contract!vars)
    BY <2>1, <2>3 DEF Begin, Goto, CallInv, TypeOK, peerVars, Contract!Next, Contract!Begin
  <2>4. ASSUME NEW c \in Calls, Write(c) \/ HandOver(c) \/ Expire(c)
        PROVE  UNCHANGED Contract!vars
    BY <2>1, <2>4
    DEF Write, HandOver, Expire, Goto, CallInv, TypeOK, peerVars, Contract!vars
  <2>5. ASSUME NEW c \in Calls, Done(c) \/ ReturnExpired(c)
        PROVE  Contract!Succeed(c) \/ Contract!Fail(c)
    <3>1. /\ pc[c] \in {"wait", "expired"}
          /\ pc' = [pc EXCEPT ![c] = "returned"]
          /\ result' = [result EXCEPT ![c] = Outcome(c)]
          /\ UNCHANGED peer
      BY <2>5 DEF Done, ReturnExpired, Return, Goto, peerVars
    <3>2. state[c] = "pending"
      BY <3>1
    <3>3. CASE err[c] # "none"
      <4>1. state' = [state EXCEPT ![c] = "failed"] /\ answered' = answered
        BY <2>1, <3>1, <3>3 DEF CallInv, TypeOK, Outcome
      <4>2. QED
        BY <3>2, <4>1 DEF Contract!Fail
    <3>4. CASE err[c] = "none"
      <4>1. c \in response /\ peer[c] = "answered"
        BY <2>1, <2>5, <3>4
        DEF CallInv, ReleasedWithReason, AnswersAreReal, Done, ReturnExpired, Return, Goto
      <4>2. state' = [state EXCEPT ![c] = "succeeded"] /\ answered' = answered
        BY <2>1, <3>1, <3>4, <4>1 DEF CallInv, TypeOK, Outcome
      <4>3. QED
        BY <3>2, <4>1, <4>2 DEF Contract!Succeed
    <3>5. QED
      BY <3>3, <3>4
  <2>6. ASSUME NEW c \in Calls, Answer(c)
        PROVE  Contract!Answer(c)
    <3>1. pc[c] # "idle"
      BY <2>1, <2>6 DEF Answer, CallInv, PacketsInOrder
    <3>2. QED
      BY <2>1, <2>6, <3>1 DEF Answer, CallInv, TypeOK, callVars, Contract!Answer
  <2>7. ASSUME WriterSend
        PROVE  UNCHANGED Contract!vars
    <3>1. peer[writer] # "answered"
      BY <2>1, <2>7 DEF WriterSend, CallInv, PacketsInOrder
    <3>2. QED
      BY <2>1, <2>7, <3>1 DEF WriterSend, CallInv, TypeOK, callVars, Contract!vars
  <2>8. ASSUME \/ \E c \in Calls : SendOnClosed(c)
               \/ WriterFail \/ WriterEnd \/ Reader \/ Owner \/ UNCHANGED vars
        PROVE  UNCHANGED <<pc, result, peer>>
    BY <2>8
    DEF SendOnClosed, WriterFail, WriterEnd, Reader, ReaderWork, ReaderRead, ReaderPop,
        ReaderRespond, ReaderClose, ReaderFail, ReaderLeave, Owner, Selected, Served, Cleanup,
        vars, callVars, peerVars
  <2>9. QED
    BY <2>1, <2>2, <2>3, <2>4, <2>5, <2>6, <2>7, <2>8 DEF Next, Caller, Writer, Contract!Next
<1>3. QED
  BY <1>1, <1>2, CallInvInductive, TypeCorrect, PTL DEF Spec, KeepsContract, Contract!Spec
-----------------------------------------------------------------------------
(***************************************************************************)
(* The end of a task.                                                      *)
(***************************************************************************)

\* Until Cleanup the table holds no finished task, and the task the reader took
\* out of it is not finished yet.
TableIsOpen ==
    owner # "gone" =>
        /\ \A c \in table : closes[c] = 0
        /\ reader \in {"respond", "close"} => msg \notin table /\ closes[msg] = 0

\* A call that has not begun has no task.
NoTaskBefore == \A c \in Calls : pc[c] = "idle" => c \notin table /\ closes[c] = 0

\* The process does not survive the second end of a task.
TwiceIsFatal == DoneOnce \/ (process = "dead" /\ owner = "gone" /\ reader = "read")

OnceInv == TableIsOpen /\ NoTaskBefore /\ TwiceIsFatal

\* No task is finished twice unless its answer comes after Cleanup, for any set
\* of calls, whether writes fail or not and whoever owns the connection.
THEOREM TwiceOnlyAfterCleanupHolds == Spec => []TwiceOnlyAfterCleanup
<1>1. Init => OnceInv
  BY DEF Init, OnceInv, TableIsOpen, NoTaskBefore, TwiceIsFatal, DoneOnce
<1>2. CallInv /\ OnceInv /\ [Next]_vars => OnceInv'
  <2>1. SUFFICES ASSUME CallInv, OnceInv, [Next]_vars
                 PROVE  OnceInv'
    OBVIOUS
  <2>2. CASE UNCHANGED vars
    BY <2>1, <2>2
    DEF OnceInv, TableIsOpen, NoTaskBefore, TwiceIsFatal, DoneOnce, vars, callVars, peerVars
  <2>3. ASSUME NEW c \in Calls, CallerStep(c)
        PROVE  OnceInv'
    <3>1. reader \in {"respond", "close"} => msg \in Calls /\ pc[msg] # "idle"
      BY <2>1 DEF CallInv, TypeOK, PacketsInOrder, AnswersAreReal
    <3>2. TableIsOpen'
      BY <2>1, <2>3, <3>1
      DEF OnceInv, CallInv, TypeOK, TableIsOpen, NoTaskBefore, CallerStep, Begin, Caller, Write,
          HandOver, SendOnClosed, Done, Expire, ReturnExpired, Return, Goto, callVars, peerVars
    <3>3. NoTaskBefore'
      BY <2>1, <2>3
      DEF OnceInv, CallInv, TypeOK, NoTaskBefore, CallerStep, Begin, Caller, Write,
          HandOver, SendOnClosed, Done, Expire, ReturnExpired, Return, Goto, callVars, peerVars
    <3>4. TwiceIsFatal'
      BY <2>1, <2>3
      DEF OnceInv, TwiceIsFatal, DoneOnce, CallerStep, Begin, Caller, Write,
          HandOver, SendOnClosed, Done, Expire, ReturnExpired, Return, Goto, callVars, peerVars
    <3>5. QED
      BY <3>2, <3>3, <3>4 DEF OnceInv
  <2>4. ASSUME NEW c \in Calls, Answer(c)
        PROVE  OnceInv'
    BY <2>1, <2>4 DEF OnceInv, TableIsOpen, NoTaskBefore, TwiceIsFatal, DoneOnce, Answer, callVars
  <2>5. CASE Writer
    BY <2>1, <2>5
    DEF OnceInv, TableIsOpen, NoTaskBefore, TwiceIsFatal, DoneOnce, Writer, WriterSend,
        WriterFail, WriterEnd, callVars, peerVars
  <2>6. CASE Reader
    <3>1. CASE ReaderPop
      BY <2>1, <3>1
      DEF OnceInv, CallInv, TypeOK, TableIsOpen, NoTaskBefore, TwiceIsFatal, DoneOnce,
          ReaderPop, Pop
    <3>2. CASE ReaderClose
      <4>1. /\ msg \in Calls /\ pc[msg] # "idle" /\ closes[msg] \in Nat
            /\ reader = "close" /\ reader' = "read"
            /\ closes' = [closes EXCEPT ![msg] = closes[msg] + 1]
            /\ UNCHANGED <<table, pc, owner>>
            /\ process' = IF closes[msg] = 0 THEN "running" ELSE "dead"
            /\ process = "running"
        BY <2>1, <3>2 DEF CallInv, TypeOK, PacketsInOrder, AnswersAreReal, ReaderClose
      <4>2. \A c \in Calls : closes[c] \in Nat /\ closes[c] <= 1
        BY <2>1, <4>1 DEF OnceInv, TwiceIsFatal, DoneOnce, CallInv, TypeOK
      <4>3. CASE owner = "gone"
        <5>1. TwiceIsFatal'
          <6>1. CASE closes[msg] = 0
            BY <2>1, <4>1, <4>2, <6>1 DEF TwiceIsFatal, DoneOnce, CallInv, TypeOK
          <6>2. CASE closes[msg] # 0
            BY <4>1, <4>3, <6>2 DEF TwiceIsFatal
          <6>3. QED
            BY <6>1, <6>2
        <5>2. QED
          BY <2>1, <4>1, <4>3, <5>1 DEF OnceInv, TableIsOpen, NoTaskBefore, CallInv, TypeOK
      <4>4. CASE owner # "gone"
        <5>1. msg \notin table /\ closes[msg] = 0
          BY <2>1, <4>1, <4>4 DEF OnceInv, TableIsOpen
        <5>2. QED
          BY <2>1, <4>1, <4>2, <4>4, <5>1
          DEF OnceInv, TableIsOpen, NoTaskBefore, TwiceIsFatal, DoneOnce, CallInv, TypeOK
      <4>5. QED
        BY <4>3, <4>4
    <3>3. CASE ReaderRespond \/ ReaderFail \/ ReaderLeave \/ \E c \in Calls : ReaderRead(c)
      BY <2>1, <3>3
      DEF OnceInv, TableIsOpen, NoTaskBefore, TwiceIsFatal, DoneOnce, ReaderRespond, ReaderFail,
          ReaderLeave, ReaderRead, callVars, peerVars
    <3>4. QED
      BY <2>6, <3>1, <3>2, <3>3 DEF Reader, ReaderWork
  <2>7. CASE Owner
    <3>1. CASE Cleanup
      <4>1. \A c \in Calls : closes[c] \in Nat /\ closes[c] <= 1
        BY <2>1, <3>1 DEF OnceInv, TwiceIsFatal, DoneOnce, Cleanup, CallInv, TypeOK
      <4>2. \A c \in Calls : closes'[c] = IF c \in table THEN closes[c] + 1 ELSE closes[c]
        BY <3>1 DEF Cleanup, Cancel
      <4>3. \A c \in table : closes[c] = 0
        BY <2>1, <3>1 DEF OnceInv, TableIsOpen, Cleanup
      <4>4. DoneOnce'
        BY <4>1, <4>2, <4>3 DEF DoneOnce
      <4>5. QED
        BY <2>1, <3>1, <4>2, <4>4
        DEF OnceInv, TableIsOpen, NoTaskBefore, TwiceIsFatal, Cleanup
    <3>2. CASE Selected \/ Served
      BY <2>1, <3>2
      DEF OnceInv, TableIsOpen, NoTaskBefore, TwiceIsFatal, DoneOnce, Selected, Served,
          callVars, peerVars
    <3>3. QED
      BY <2>7, <3>1, <3>2 DEF Owner
  <2>8. QED
    BY <2>1, <2>2, <2>3, <2>4, <2>5, <2>6, <2>7 DEF Next, CallerStep
<1>3. OnceInv => TwiceOnlyAfterCleanup
  BY DEF OnceInv, TwiceIsFatal, TwiceOnlyAfterCleanup
<1>4. CallInv /\ TypeOK' /\ [Next]_vars => CallInv'
  BY CallInvInductive
<1>5. QED
  BY <1>1, <1>2, <1>3, <1>4, CallInvInductive, TypeCorrect, PTL DEF Spec
=============================================================================
