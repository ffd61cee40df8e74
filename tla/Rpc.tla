--------------------------------- MODULE Rpc ---------------------------------
(***************************************************************************)
(* The blocking calls of one websocket connection (com/net.go over         *)
(* network/websocket).                                                     *)
(*                                                                         *)
(* A caller registers its task in the table of the RPC, hands its packet   *)
(* to the writer goroutine over an unbuffered channel, and waits for the   *)
(* task's done channel or its timeout.  The reader goroutine takes the     *)
(* task of each answer out of the table and closes done.  The goroutine    *)
(* that owns the connection (a handler of the hub) waits for the end of    *)
(* the connection and then cancels the tasks left in the table.            *)
(*                                                                         *)
(* Closing a closed channel, and sending on one, ends the process.         *)
(***************************************************************************)
EXTENDS Naturals

CONSTANTS
    Calls,        \* the blocking calls made over the connection
    Own,          \* the call the owner itself makes first, or NoCall
    NoCall,
    WriteFails    \* whether a write may fail before the reader saw the end

ASSUME RpcAssumption ==
    /\ {NoCall, "idle", "ended"} \cap Calls = {}
    /\ Own \in Calls \cup {NoCall}
    /\ WriteFails \in BOOLEAN

VARIABLES
    pc,           \* where each caller is
    table,        \* RPC.calls
    closes,       \* how often request.done of each call was closed
    err,          \* request.err
    response,     \* the calls whose request.response is set
    result,       \* what Call returned
    peer,         \* what the peer knows of each call
    inbox,        \* the answers on their way to the reader
    socket,       \* open, or closed: not alive, Connection.done closed
    writer,       \* the writer goroutine: idle, ended, or the call it writes
    reader,       \* where the reader goroutine is
    msg,          \* the answer the reader goroutine handles
    owner,        \* where the owner goroutine is
    process       \* running, or dead of a panic

callVars == <<pc, table, closes, err, response, result>>
peerVars == <<peer, inbox>>
vars == <<callVars, peerVars, socket, writer, reader, msg, owner, process>>

CallStates == {"idle", "put", "write", "wait", "expired", "returned"}

Init ==
    /\ pc = [c \in Calls |-> "idle"]
    /\ table = {}
    /\ closes = [c \in Calls |-> 0]
    /\ err = [c \in Calls |-> "none"]
    /\ response = {}
    /\ result = [c \in Calls |-> "none"]
    /\ peer = [c \in Calls |-> "unaware"]
    /\ inbox = {}
    /\ socket = "open"
    /\ writer = "idle"
    /\ reader = "read"
    /\ msg = NoCall
    /\ owner = IF Own = NoCall THEN "serve" ELSE "select"
    /\ process = "running"
-----------------------------------------------------------------------------
(***************************************************************************)
(* The caller: RPC.Call.                                                   *)
(***************************************************************************)

Goto(c, from, to) ==
    /\ process = "running"
    /\ pc[c] = from
    /\ pc' = [pc EXCEPT ![c] = to]

\* t.calls.Put(id, task)
Begin(c) ==
    /\ Goto(c, "idle", "put")
    /\ table' = table \cup {c}
    /\ UNCHANGED <<closes, err, response, result, peerVars, socket, writer,
                   reader, msg, owner, process>>

\* Connection.Write looks at alive: a dead connection drops the packet.
Write(c) ==
    /\ Goto(c, "put", IF socket = "open" THEN "write" ELSE "wait")
    /\ UNCHANGED <<table, closes, err, response, result, peerVars, socket,
                   writer, reader, msg, owner, process>>

\* close(c.send): the reader's first step out of its loop.
SendClosed == reader \in {"leave", "ended"}

\* c.send <- data meets the writer goroutine ...
HandOver(c) ==
    /\ writer = "idle"
    /\ ~SendClosed
    /\ Goto(c, "write", "wait")
    /\ writer' = c
    /\ UNCHANGED <<table, closes, err, response, result, peerVars, socket,
                   reader, msg, owner, process>>

\* ... or a closed channel.
SendOnClosed(c) ==
    /\ process = "running"
    /\ pc[c] = "write"
    /\ SendClosed
    /\ process' = "dead"
    /\ UNCHANGED <<callVars, peerVars, socket, writer, reader, msg, owner>>

\* Mutant of Outcome: any response is a success, and else the error it is.
OutcomeUnchecked(c) == IF c \in response THEN "response" ELSE err[c]

\* return task.response, task.err
Outcome(c) ==
    IF err[c] # "none" THEN "error" ELSE IF c \in response THEN "response" ELSE "empty"

Return(c, from) ==
    /\ Goto(c, from, "returned")
    /\ result' = [result EXCEPT ![c] = Outcome(c)]
    /\ UNCHANGED <<table, closes, err, response, peerVars, socket, writer,
                   reader, msg, owner, process>>

\* case <-task.done
Done(c) == closes[c] > 0 /\ Return(c, "wait")

\* Mutant of Expire: no timeout.
NeverExpire(c) == FALSE

\* case <-time.After(t.callTimeout()); the task stays in the table.
Expire(c) ==
    /\ Goto(c, "wait", "expired")
    /\ err' = [err EXCEPT ![c] = "timeout"]
    /\ UNCHANGED <<table, closes, response, result, peerVars, socket, writer,
                   reader, msg, owner, process>>

ReturnExpired(c) == Return(c, "expired")
-----------------------------------------------------------------------------
(***************************************************************************)
(* The peer, on the far side of the socket.                                *)
(***************************************************************************)

\* The peer answers a packet it got, in any order and as late as it likes.
Answer(c) ==
    /\ process = "running"
    /\ peer[c] = "asked"
    /\ peer' = [peer EXCEPT ![c] = "answered"]
    /\ inbox' = inbox \cup {c}
    /\ UNCHANGED <<callVars, socket, writer, reader, msg, owner, process>>
-----------------------------------------------------------------------------
(***************************************************************************)
(* The goroutines of the connection.                                       *)
(***************************************************************************)

\* Connection.close, once.
CloseSocket == socket' = "closed"

WriterSend ==
    /\ process = "running"
    /\ writer \in Calls
    /\ socket = "open"
    /\ peer' = [peer EXCEPT ![writer] = "asked"]
    /\ writer' = "idle"
    /\ UNCHANGED <<callVars, inbox, socket, reader, msg, owner, process>>

\* A packet, or a ping, that cannot be written ends the writer.
WriterFail ==
    /\ process = "running"
    /\ writer # "ended"
    /\ WriteFails \/ socket = "closed"
    /\ writer' = "ended"
    /\ CloseSocket
    /\ UNCHANGED <<callVars, peerVars, reader, msg, owner, process>>

\* The closed send channel ends the writer.
WriterEnd ==
    /\ process = "running"
    /\ writer = "idle"
    /\ SendClosed
    /\ writer' = "ended"
    /\ CloseSocket
    /\ UNCHANGED <<callVars, peerVars, reader, msg, owner, process>>

\* ReadMessage; what was buffered is read even from a closed socket.
ReaderRead(c) ==
    /\ process = "running"
    /\ reader = "read"
    /\ c \in inbox
    /\ inbox' = inbox \ {c}
    /\ msg' = c
    /\ reader' = "pop"
    /\ UNCHANGED <<callVars, peer, socket, writer, owner, process>>

\* Mutant of Pop: the task stays in the table.
Get == table' = table

Pop == table' = table \ {msg}

\* t.calls.Pop(id); an answer nobody asked for goes to the packet handler.
ReaderPop ==
    /\ process = "running"
    /\ reader = "pop"
    /\ reader' = IF msg \in table THEN "respond" ELSE "read"
    /\ Pop
    /\ UNCHANGED <<pc, closes, err, response, result, peerVars, socket, writer,
                   msg, owner, process>>

\* blocked.response = res.GetPayload()
ReaderRespond ==
    /\ process = "running"
    /\ reader = "respond"
    /\ reader' = "close"
    /\ response' = response \cup {msg}
    /\ UNCHANGED <<pc, table, closes, err, result, peerVars, socket, writer,
                   msg, owner, process>>

\* close(blocked.done)
ReaderClose ==
    /\ process = "running"
    /\ reader = "close"
    /\ reader' = "read"
    /\ closes' = [closes EXCEPT ![msg] = @ + 1]
    /\ process' = IF closes[msg] = 0 THEN "running" ELSE "dead"
    /\ UNCHANGED <<pc, table, err, response, result, peerVars, socket, writer,
                   msg, owner>>

\* ReadMessage fails: the peer closed, was silent too long, or the socket is
\* closed.  The reader closes the send channel (SendClosed) ...
ReaderFail ==
    /\ process = "running"
    /\ reader = "read"
    /\ reader' = "leave"
    /\ UNCHANGED <<callVars, peerVars, socket, writer, msg, owner, process>>

\* ... and then the socket.
ReaderLeave ==
    /\ process = "running"
    /\ reader = "leave"
    /\ reader' = "ended"
    /\ CloseSocket
    /\ UNCHANGED <<callVars, peerVars, writer, msg, owner, process>>
-----------------------------------------------------------------------------
(***************************************************************************)
(* The owner: a connection handler of the hub.                             *)
(***************************************************************************)

\* handleUserConnection: the owner's call ended; with no worker for the user
\* it leaves without waiting for the connection to end.
Selected ==
    /\ process = "running"
    /\ owner = "select"
    /\ pc[Own] = "returned"
    /\ owner' \in {"serve", "cleanup"}
    /\ UNCHANGED <<callVars, peerVars, socket, writer, reader, msg, process>>

\* <-done
Served ==
    /\ process = "running"
    /\ owner = "serve"
    /\ socket = "closed"
    /\ owner' = "cleanup"
    /\ UNCHANGED <<callVars, peerVars, socket, writer, reader, msg, process>>

\* Mutant of Cancel: the tasks are released without an error.
CancelSilently ==
    /\ err' = err
    /\ closes' = [c \in Calls |-> IF c \in table THEN closes[c] + 1 ELSE closes[c]]

\* The body of Cleanup's loop, for the tasks in the table.
Cancel ==
    /\ err' = [c \in Calls |-> IF c \in table /\ err[c] = "none" THEN "canceled" ELSE err[c]]
    /\ closes' = [c \in Calls |-> IF c \in table THEN closes[c] + 1 ELSE closes[c]]

\* SocketClient.Disconnect: RPC.Cleanup, under the table's read lock.
Cleanup ==
    /\ process = "running"
    /\ owner = "cleanup"
    /\ owner' = "gone"
    /\ Cancel
    /\ UNCHANGED <<pc, table, response, result, peerVars, socket, writer,
                   reader, msg, process>>
-----------------------------------------------------------------------------
Caller(c) ==
    Write(c) \/ HandOver(c) \/ SendOnClosed(c) \/ Done(c) \/ Expire(c) \/ ReturnExpired(c)

Writer == WriterSend \/ WriterFail \/ WriterEnd
ReaderWork == (\E c \in Calls : ReaderRead(c)) \/ ReaderPop \/ ReaderRespond \/ ReaderClose
Reader == ReaderWork \/ ReaderFail \/ ReaderLeave
Owner == Selected \/ Served \/ Cleanup

Next ==
    \/ \E c \in Calls : Begin(c) \/ Caller(c) \/ Answer(c)
    \/ Writer
    \/ Reader
    \/ Owner

Spec == Init /\ [][Next]_vars

\* The timer of a call fires, runnable goroutines run, and reading a closed
\* socket fails; the peer, and the network, owe nothing.
FairSpec ==
    /\ Spec
    /\ \A c \in Calls : WF_vars(Caller(c))
    /\ WF_vars(Writer)
    /\ WF_vars(ReaderWork \/ ReaderLeave \/ (socket = "closed" /\ ReaderFail))
    /\ WF_vars(Owner)
-----------------------------------------------------------------------------
TypeOK ==
    /\ pc \in [Calls -> CallStates]
    /\ table \subseteq Calls
    /\ closes \in [Calls -> Nat]
    /\ err \in [Calls -> {"none", "canceled", "timeout"}]
    /\ response \subseteq Calls
    /\ result \in [Calls -> {"none", "response", "error", "empty"}]
    /\ peer \in [Calls -> {"unaware", "asked", "answered"}]
    /\ inbox \subseteq Calls
    /\ socket \in {"open", "closed"}
    /\ writer \in Calls \cup {"idle", "ended"}
    /\ reader \in {"read", "pop", "respond", "close", "leave", "ended"}
    /\ msg \in Calls \cup {NoCall}
    /\ reader \in {"pop", "respond", "close"} => msg \in Calls
    /\ owner \in {"select", "serve", "cleanup", "gone"}
    /\ process \in {"running", "dead"}

\* A task is finished once, by its answer or by Cleanup, which "drain[s] ...
\* what's left in the task queue"; a second close ends the process.
DoneOnce == \A c \in Calls : closes[c] <= 1

\* A task is finished twice in one way only: its answer arrives after Cleanup,
\* at a reader that outlived the owner (handleMessage against Cleanup).
TwiceOnlyAfterCleanup == DoneOnce \/ (owner = "gone" /\ reader = "read")

\* The calls keep the contract: in particular none returns without both an
\* error and a response, and none succeeds without an answer of the peer
\* (Call against handleMessage, Cleanup and its own timeout).
Contract == INSTANCE CallContract WITH
    state <- [c \in Calls |-> IF pc[c] = "idle" THEN "new"
                              ELSE IF pc[c] # "returned" THEN "pending"
                              ELSE IF result[c] = "error" THEN "failed" ELSE "succeeded"],
    answered <- {c \in Calls : peer[c] = "answered"}
KeepsContract == Contract!Spec

\* No caller waits for ever, whatever becomes of the connection, short of the
\* end of the process (Call, blocked in Write or in its select).
CallsReturn == \A c \in Calls : pc[c] # "idle" ~> pc[c] = "returned" \/ process = "dead"
=============================================================================
