---------------------------- MODULE Session_proofs ----------------------------
(***************************************************************************)
(* Theorems of Session, for every set of users, games, rooms and bounds.   *)
(***************************************************************************)
EXTENDS Session, TLAPS, WellFoundedInduction

\* What Head, Tail and Append do to a channel's type.
LEMMA ChannelFacts ==
    ASSUME NEW M, NEW q \in Seq(M)
    PROVE  /\ \A m \in M : Append(q, m) \in Seq(M)
           /\ \A p \in Seq(M) : q \o p \in Seq(M)
           /\ q # <<>> => Head(q) \in M /\ Tail(q) \in Seq(M)
           /\ \A m \in M : <<m>> \in Seq(M)
           /\ <<>> \in Seq(M)
  OBVIOUS

LEMMA TwoPackets ==
    ASSUME NEW M, NEW m \in M, NEW n \in M
    PROVE  <<m, n>> \in Seq(M)
  OBVIOUS

\* The packets the two sides write are packets of the protocol.
LEMMA PacketTypes ==
           /\ \A u \in Users, c \in Nat : [type |-> "init", user |-> u, call |-> c] \in WorkerMsg
           /\ \A u \in Users, c \in Nat, g, r \in RoomIds :
                [type |-> "start", user |-> u, call |-> c, game |-> g, rid |-> r] \in WorkerMsg
           /\ \A r \in RoomIds : [type |-> "quit", rid |-> r] \in WorkerMsg
           /\ \A u \in Users : [type |-> "terminate", user |-> u] \in WorkerMsg
           /\ \A id \in RoomIds : Register(id) \in CoordMsg /\ Close(id) \in CoordMsg
           /\ \A u \in Users, c \in Nat, ok \in BOOLEAN :
                Reply(u, c, ok) \in CoordMsg
  BY DEF WorkerMsg, InitMsg, StartMsg, QuitMsg, TerminateMsg,
         CoordMsg, RoomMsg, ReplyMsg, Register, Close, Reply

\* The fields of a packet that was read.
LEMMA PacketFields ==
    /\ \A m \in WorkerMsg :
        /\ m.type = "init" => m.user \in Users /\ m.call \in Nat
        /\ m.type = "start" => m.user \in Users /\ m.call \in Nat
                               /\ m.game \in RoomIds /\ m.rid \in RoomIds
        /\ m.type = "quit" => m.rid \in RoomIds
        /\ m.type = "terminate" => m.user \in Users
    /\ \A m \in CoordMsg :
        /\ m.type \in {"register", "close"} => m.room \in RoomIds
        /\ m.type = "reply" => m.user \in Users /\ m.call \in Nat /\ m.ok \in BOOLEAN
  BY DEF WorkerMsg, InitMsg, StartMsg, QuitMsg, TerminateMsg, CoordMsg, RoomMsg, ReplyMsg

\* A user's packet keeps the types: the four fields it changes.
LEMMA CallTypes ==
    ASSUME TypeOK, NEW u \in Users, NEW from \in UserStates, NEW wait \in UserStates,
           NEW msg \in WorkerMsg, Call(u, from, wait, msg)
    PROVE  /\ pc' \in [Users -> UserStates]
           /\ calls' \in [Users -> Nat]
           /\ toWorker' \in Seq(WorkerMsg)
  BY ChannelFacts DEF TypeOK, Call, Goto

\* The steps of a user's requests keep the types.
LEMMA UserTypes ==
    ASSUME TypeOK, NEW u \in Users, UserRequest(u) \/ UserStep(u) \/ Timeout(u)
    PROVE  TypeOK'
<1> USE DEF TypeOK, coordVars, userVars, workerVars, Goto, Request, UserStates, Drop
<1>1. calls[u] + 1 \in Nat /\ rq[u].game \in RoomIds /\ rq[u].rid \in RoomIds
  BY DEF Requests
<1>0. Drop(u) => rq' \in [Users -> Requests]
  BY DEF NoRequest, Requests, RoomIds
<1>2. CASE WebrtcInit(u)
  BY <1>2 DEF WebrtcInit
<1>3. CASE SendInit(u)
  <2>1. [type |-> "init", user |-> u, call |-> calls[u] + 1] \in WorkerMsg
    BY <1>1, PacketTypes
  <2>2. QED
    BY <1>3, <2>1, CallTypes DEF SendInit
<1>4. ASSUME NEW game \in Games, NEW rid \in RoomIds, StartGame(u, game, rid)
      PROVE  TypeOK'
  <2>1. [game |-> game, rid |-> rid] \in Requests
    BY DEF Requests, RoomIds
  <2>2. QED
    BY <1>4, <2>1 DEF StartGame
<1>5. CASE EndGrace(u)
  BY <1>5 DEF EndGrace
<1>6. CASE Gate(u)
  BY <1>6 DEF Gate
<1>7. CASE Busy(u)
  BY <1>0, <1>7 DEF Busy
<1>8. \A rid \in RoomIds : StartRequest(u, rid) \in WorkerMsg
  BY <1>1, PacketTypes DEF StartRequest
<1>9. CASE Adopt(u)
  BY <1>0, <1>8, <1>9, CallTypes DEF Adopt
<1>10. CASE Match(u)
  BY <1>0, <1>1, <1>8, <1>10, CallTypes DEF Match
<1>11. CASE Reserve(u)
  BY <1>0, <1>1, <1>8, <1>11, CallTypes DEF Reserve, TryReserve
<1>12. CASE NotifyStarted(u)
  BY <1>12 DEF NotifyStarted
<1>13. ASSUME NEW rid \in RoomIds, QuitGame(u, rid)
       PROVE  TypeOK'
  BY <1>13 DEF QuitGame
<1>14. CASE SendQuit(u)
  <2>1. [type |-> "quit", rid |-> roomId] \in WorkerMsg
    BY PacketTypes
  <2>2. QED
    BY <1>14, <2>1, CallTypes DEF SendQuit
<1>15. CASE Disconnect(u)
  <2>1. [type |-> "terminate", user |-> u] \in WorkerMsg
    BY PacketTypes
  <2>2. toWorker' \in Seq(WorkerMsg)
    BY <1>15, <2>1, ChannelFacts DEF Disconnect
  <2>3. QED
    BY <1>15, <2>2 DEF Disconnect
<1>18. CASE EndTerminate(u)
  BY <1>18 DEF EndTerminate
<1>16. CASE Timeout(u)
  <2>1. pc' = [pc EXCEPT ![u] = "idle"]
    BY <1>16 DEF Timeout
  <2>2. timeouts' \in Nat
    BY <1>16 DEF Timeout
  <2>3. QED
    BY <1>16, <2>1, <2>2 DEF Timeout
<1>17. QED
  BY <1>2, <1>3, <1>4, <1>5, <1>6, <1>7, <1>9, <1>10, <1>11, <1>12, <1>13, <1>14,
     <1>15, <1>16, <1>18 DEF UserRequest, UserStep

\* Reading a packet of the worker keeps the types.
LEMMA CoordinatorTypes ==
    ASSUME TypeOK, CoordinatorStep
    PROVE  TypeOK'
<1> USE DEF TypeOK, coordVars, userVars, workerVars, Receive
<1>1. toCoord # <<>> => Head(toCoord) \in CoordMsg /\ Tail(toCoord) \in Seq(CoordMsg)
  BY ChannelFacts
<1>2. CASE RegisterRoom
  BY <1>1, <1>2, PacketFields DEF RegisterRoom
<1>3. CASE CloseRoom
  BY <1>1, <1>3 DEF CloseRoom, RoomIds
<1>4. CASE ReceiveReply
  <2> DEFINE m == Head(toCoord)
  <2>1. m.user \in Users /\ m.ok \in BOOLEAN
    BY <1>1, <1>4, PacketFields DEF ReceiveReply
  <2>2. CASE Waiting(m.user, m.call) /\ InitReply(m.user)
    BY <1>1, <1>4, <2>1, <2>2 DEF ReceiveReply, InitReply, UserStates
  <2>3. CASE Waiting(m.user, m.call) /\ StartReply(m.user, m.ok)
    BY <1>1, <1>4, <2>1, <2>3 DEF ReceiveReply, StartReply, UserStates
  <2>4. CASE UNCHANGED pc
    BY <1>1, <1>4, <2>4 DEF ReceiveReply
  <2>5. QED
    BY <1>4, <2>2, <2>3, <2>4 DEF ReceiveReply
<1>5. QED
  BY <1>2, <1>3, <1>4 DEF CoordinatorStep

\* What the worker writes is a packet, and closing a room keeps the types.
LEMMA CloseTypes ==
    ASSUME TypeOK, NEW r \in Rooms \cup {Nil}
    PROVE  /\ CloseMsgs(r) \in Seq(CoordMsg)
           /\ CloseObject(r) => /\ closed' \subseteq Rooms
                               /\ playing' \in Rooms \cup {Nil}
<1>1. CloseMsgs(r) \in Seq(CoordMsg)
  <2>1. CASE Closing(r)
    <3>1. Close(name[r]) \in CoordMsg
      BY <2>1, PacketTypes DEF TypeOK, Closing
    <3>2. QED
      BY <2>1, <3>1, ChannelFacts DEF CloseMsgs
  <2>2. CASE ~Closing(r)
    BY <2>2, ChannelFacts DEF CloseMsgs
  <2>3. QED
    BY <2>1, <2>2
<1>2. CloseObject(r) => closed' \subseteq Rooms /\ playing' \in Rooms \cup {Nil}
  BY DEF CloseObject, Closing, TypeOK
<1>3. QED
  BY <1>1, <1>2

LEMMA SendTypes ==
    ASSUME TypeOK, NEW msgs \in Seq(CoordMsg), Send(msgs)
    PROVE  toCoord' \in Seq(CoordMsg)
  BY ChannelFacts DEF TypeOK, Send

\* The worker's handlers keep the types.
LEMMA WorkerTypes ==
    ASSUME TypeOK, WorkerStep
    PROVE  TypeOK'
<1> DEFINE m == Head(toWorker)
<1>1. toWorker # <<>> => m \in WorkerMsg /\ Tail(toWorker) \in Seq(WorkerMsg)
  BY ChannelFacts DEF TypeOK
<1>2. ASSUME NEW ok \in BOOLEAN, NEW u \in Users, NEW c \in Nat
      PROVE  <<Reply(u, c, ok)>> \in Seq(CoordMsg)
  BY PacketTypes, ChannelFacts
<1>3. CASE WorkerInit
  <2>1. m.user \in Users /\ m.call \in Nat /\ NoRoom \in RoomIds
    BY <1>1, <1>3, PacketFields DEF WorkerInit, Take, RoomIds
  <2>2. toCoord' \in Seq(CoordMsg)
    BY <1>2, <1>3, <2>1, SendTypes DEF WorkerInit, Refuse
  <2>3. QED
    BY <1>1, <1>3, <2>1, <2>2 DEF WorkerInit, Take, TypeOK, coordVars, userVars
<1>4. CASE WorkerStartUnknown
  <2>1. m.user \in Users /\ m.call \in Nat /\ NoRoom \in RoomIds
    BY <1>1, <1>4, PacketFields DEF WorkerStartUnknown, Take, RoomIds
  <2>2. toCoord' \in Seq(CoordMsg)
    BY <1>2, <1>4, <2>1, SendTypes DEF WorkerStartUnknown, Refuse
  <2>3. QED
    BY <1>1, <1>4, <2>2 DEF WorkerStartUnknown, Take, TypeOK, coordVars, userVars, workerVars
<1>13. CASE WorkerStartNotFound
  <2>1. m.user \in Users /\ m.call \in Nat /\ NoRoom \in RoomIds
    BY <1>1, <1>13, PacketFields DEF WorkerStartNotFound, Take, RoomIds
  <2>2. toCoord' \in Seq(CoordMsg)
    BY <1>2, <1>13, <2>1, SendTypes DEF WorkerStartNotFound, Refuse
  <2>3. QED
    BY <1>1, <1>13, <2>2 DEF WorkerStartNotFound, Take, TypeOK, coordVars, userVars, workerVars
<1>5. CASE WorkerStartJoin
  <2>1. m.user \in Users /\ m.call \in Nat
    BY <1>1, <1>5, PacketFields DEF WorkerStartJoin, Take
  <2>2. job' \in Jobs
    BY <1>5, <2>1 DEF WorkerStartJoin, FoundRoom, TypeOK, Jobs
  <2>3. QED
    BY <1>1, <1>5, <2>2 DEF WorkerStartJoin, Take, TypeOK, coordVars, userVars
<1>6. CASE WorkerStartRefused
  <2>1. m.user \in Users /\ m.call \in Nat /\ NoRoom \in RoomIds
    BY <1>1, <1>6, PacketFields DEF WorkerStartNotFound, WorkerStartRefused, Take, RoomIds
  <2>2. toCoord' \in Seq(CoordMsg)
    BY <1>2, <1>6, <2>1, SendTypes DEF WorkerStartNotFound, WorkerStartRefused, Refuse
  <2>3. QED
    BY <1>1, <1>6, <2>2 DEF WorkerStartNotFound, WorkerStartRefused, Take, TypeOK, coordVars,
       userVars, workerVars
<1>7. CASE WorkerStartNew
  <2>1. m.user \in Users /\ m.call \in Nat /\ NewRoomId(m) \in RoomIds
    BY <1>1, <1>7, PacketFields DEF WorkerStartNew, Take, NewRoomId
  <2>2. PICK r \in Unused :
          /\ name' = [name EXCEPT ![r] = NewRoomId(m)]
          /\ router' = r
          /\ closed' = closed \ {r}
          /\ job' = [user |-> m.user, call |-> m.call, room |-> r]
          /\ IF NewRoomId(m) \in Archived
             THEN /\ hydration' = [hydration EXCEPT ![r] = "resolving"]
                  /\ UNCHANGED playing
             ELSE Boot(r) /\ UNCHANGED hydration
    BY <1>7 DEF WorkerStartNew
  <2>3. r \in Rooms
    BY DEF Unused
  <2>4. job' \in Jobs
    BY <2>1, <2>2, <2>3 DEF Jobs
  <2>5. /\ hydration' \in [Rooms -> {"none", "resolving", "checked"}]
        /\ playing' \in Rooms \cup {Nil}
    BY <2>2, <2>3 DEF Boot, TypeOK
  <2>6. QED
    BY <1>1, <1>7, <2>1, <2>2, <2>3, <2>4, <2>5
    DEF WorkerStartNew, Take, TypeOK, coordVars, userVars
<1>8. CASE WorkerStartFailed
  <2>1. m.user \in Users /\ m.call \in Nat /\ NewRoomId(m) \in RoomIds /\ NoRoom \in RoomIds
    BY <1>1, <1>8, PacketFields DEF WorkerStartFailed, Take, NewRoomId, RoomIds
  <2>2. <<Close(NewRoomId(m)), Reply(m.user, m.call, FALSE)>> \in Seq(CoordMsg)
    <3>1. Close(NewRoomId(m)) \in CoordMsg /\ Reply(m.user, m.call, FALSE) \in CoordMsg
      BY <2>1, PacketTypes
    <3>2. QED
      BY <3>1, TwoPackets
  <2>3. toCoord' \in Seq(CoordMsg)
    BY <1>8, <2>2, SendTypes DEF WorkerStartFailed
  <2>4. QED
    BY <1>1, <1>8, <2>3 DEF WorkerStartFailed, Take, TypeOK, coordVars, userVars
<1>9. CASE CommonStart
  <2>1. job.user \in Users /\ job.call \in Nat /\ name[job.room] \in RoomIds
    BY <1>9 DEF CommonStart, TypeOK, Jobs
  <2>2. <<Register(name[job.room]), Reply(job.user, job.call, TRUE)>>
            \in Seq(CoordMsg)
    <3>1. /\ Register(name[job.room]) \in CoordMsg
          /\ Reply(job.user, job.call, TRUE) \in CoordMsg
      BY <2>1, PacketTypes
    <3>2. QED
      BY <3>1, TwoPackets
  <2>3. toCoord' \in Seq(CoordMsg)
    BY <1>9, <2>2, SendTypes DEF CommonStart
  <2>4. QED
    BY <1>9, <2>3 DEF CommonStart, TypeOK, Jobs, coordVars, userVars
<1>10. CASE WorkerQuit
  <2>1. CASE router # Nil /\ m.rid = name[router]
    <3>1. /\ toCoord' \in Seq(CoordMsg)
          /\ closed' \subseteq Rooms
          /\ playing' \in Rooms \cup {Nil}
      BY <1>10, <2>1, CloseTypes, SendTypes DEF WorkerQuit, TypeOK
    <3>2. QED
      BY <1>1, <1>10, <2>1, <3>1 DEF WorkerQuit, Take, TypeOK, coordVars, userVars
  <2>2. CASE ~(router # Nil /\ m.rid = name[router])
    BY <1>1, <1>10, <2>2 DEF WorkerQuit, Take, TypeOK, coordVars, userVars
  <2>3. QED
    BY <2>1, <2>2
<1>11. CASE WorkerTerminate
  <2>1. CASE sessions = {m.user}
    <3>1. /\ toCoord' \in Seq(CoordMsg)
          /\ closed' \subseteq Rooms
          /\ playing' \in Rooms \cup {Nil}
      BY <1>11, <2>1, CloseTypes, SendTypes DEF WorkerTerminate, TypeOK
    <3>2. QED
      BY <1>1, <1>11, <2>1, <3>1 DEF WorkerTerminate, Take, TypeOK, coordVars, userVars
  <2>2. CASE sessions # {m.user}
    BY <1>1, <1>11, <2>2 DEF WorkerTerminate, Take, TypeOK, coordVars, userVars
  <2>3. QED
    BY <2>1, <2>2
<1>12. QED
  BY <1>3, <1>4, <1>5, <1>6, <1>7, <1>8, <1>9, <1>10, <1>11, <1>13 DEF WorkerStep

\* The hydration goroutines keep the types.
LEMMA HydrationTypes ==
    ASSUME TypeOK, NEW r \in Rooms, HydrationStep(r)
    PROVE  TypeOK'
<1>1. CASE HydrateFail(r)
  <2>1. /\ toCoord' \in Seq(CoordMsg)
        /\ closed' \subseteq Rooms
        /\ playing' \in Rooms \cup {Nil}
    BY <1>1, CloseTypes, SendTypes DEF HydrateFail
  <2>2. QED
    BY <1>1, <2>1 DEF HydrateFail, TypeOK, coordVars, userVars
<1>2. CASE HydrateCheck(r)
  BY <1>2 DEF HydrateCheck, TypeOK, coordVars, userVars
<1>3. CASE HydrateBoot(r)
  BY <1>3 DEF HydrateBoot, Boot, TypeOK, coordVars, userVars
<1>4. QED
  BY <1>1, <1>2, <1>3 DEF HydrationStep

\* Every variable keeps its type, whatever the users, games, rooms and bounds:
\* the packets both sides write are the packets the other side can read.
THEOREM TypeCorrect == Spec => []TypeOK
<1>1. Init => TypeOK
  BY SessionAssumption, ChannelFacts
  DEF Init, TypeOK, RoomIds, NoRequest, Requests, UserStates, Jobs
<1>2. TypeOK /\ [Next]_vars => TypeOK'
  <2>1. SUFFICES ASSUME TypeOK, [Next]_vars
                 PROVE  TypeOK'
    OBVIOUS
  <2>2. CASE UNCHANGED vars
    BY <2>1, <2>2 DEF TypeOK, vars, coordVars, userVars, workerVars
  <2>3. CASE Next
    BY <2>1, <2>3, UserTypes, CoordinatorTypes, WorkerTypes, HydrationTypes DEF Next
  <2>4. QED
    BY <2>1, <2>2, <2>3
<1>3. QED
  BY <1>1, <1>2, PTL DEF Spec
-----------------------------------------------------------------------------
\* A room object is open only while the router holds it.
LEMMA OneOpenRoomStep ==
    ASSUME TypeOK, OneOpenRoom, Next
    PROVE  OneOpenRoom'
<1>1. CASE UNCHANGED <<name, closed, router>>
  BY <1>1 DEF OneOpenRoom
<1>2. CASE WorkerStartNew
  <2>1. PICK r \in Unused :
          /\ name' = [name EXCEPT ![r] = NewRoomId(Head(toWorker))]
          /\ router' = r
          /\ closed' = closed \ {r}
    BY <1>2 DEF WorkerStartNew
  <2>2. \A s \in Rooms : name[s] # NoRoom => s \in closed
    BY <1>2, SessionAssumption DEF WorkerStartNew, OneOpenRoom
  <2>3. QED
    BY <2>1, <2>2 DEF OneOpenRoom, TypeOK, Unused
<1>3. CASE WorkerQuit
  BY <1>3 DEF WorkerQuit, CloseObject, Closing, OneOpenRoom, TypeOK
<1>4. CASE WorkerTerminate
  BY <1>4 DEF WorkerTerminate, CloseObject, Closing, OneOpenRoom, TypeOK
<1>5. ASSUME NEW r \in Rooms, HydrateFail(r)
      PROVE  OneOpenRoom'
  BY <1>5 DEF HydrateFail, CloseObject, Closing, OneOpenRoom, TypeOK
<1>6. CASE \E u \in Users : UserRequest(u) \/ UserStep(u) \/ Timeout(u)
  BY <1>1, <1>6 DEF UserRequest, UserStep, Timeout, WebrtcInit, SendInit, StartGame,
     EndGrace, Gate, Busy, Adopt, Match, Reserve, NotifyStarted, QuitGame, SendQuit,
     Disconnect, EndTerminate, workerVars
<1>7. CASE CoordinatorStep
  BY <1>1, <1>7 DEF CoordinatorStep, RegisterRoom, CloseRoom, ReceiveReply, workerVars
<1>8. CASE WorkerStep
  BY <1>1, <1>2, <1>3, <1>4, <1>8 DEF WorkerStep, WorkerInit, WorkerStartUnknown,
     WorkerStartJoin, WorkerStartNotFound, WorkerStartRefused, WorkerStartFailed, CommonStart,
     workerVars
<1>9. ASSUME NEW r \in Rooms, HydrationStep(r)
      PROVE  OneOpenRoom'
  BY <1>1, <1>5, <1>9 DEF HydrationStep, HydrateCheck, HydrateBoot
<1>10. QED
  BY <1>6, <1>7, <1>8, <1>9 DEF Next

\* The worker never has two open rooms, and an open room is the router's, even
\* when archives fail to unpack after their room was abandoned.
THEOREM OneOpenRoomHolds == Spec => []OneOpenRoom
<1>1. Init => OneOpenRoom
  BY DEF Init, OneOpenRoom
<1>2. TypeOK /\ OneOpenRoom /\ [Next]_vars => OneOpenRoom'
  BY OneOpenRoomStep DEF vars, workerVars, OneOpenRoom
<1>3. QED
  BY <1>1, <1>2, TypeCorrect, PTL DEF Spec
-----------------------------------------------------------------------------
(***************************************************************************)
(* What the packets and the worker's room are named.                       *)
(***************************************************************************)

\* The worker answers StartGame for the room its router holds, which has a name
\* and is open, unless its archive did not unpack ...
RoomInv ==
    /\ job # NoJob => router # Nil /\ job.room = router
    /\ router # Nil => name[router] # NoRoom
    /\ router # Nil /\ failed # "standing" => router \notin closed

\* ... as have the games that are asked for, and the rooms that are told of.
AskedInv ==
    /\ \A u \in Users : pc[u] \in {"grace", "gate", "busy", "adopt", "match", "reserve"}
                            => rq[u].game # NoRoom
    /\ \A i \in 1..Len(toWorker) : toWorker[i].type = "start" => toWorker[i].game # NoRoom

ToldInv == \A i \in 1..Len(toCoord) : toCoord[i].type # "reply" => toCoord[i].room # NoRoom

\* The elements of a channel that was written or read.
LEMMA Written ==
    ASSUME NEW M, NEW q \in Seq(M), NEW m \in M
    PROVE  /\ Len(Append(q, m)) = Len(q) + 1
           /\ \A i \in 1..Len(q) : Append(q, m)[i] = q[i]
           /\ Append(q, m)[Len(q) + 1] = m
           /\ \A i \in 1..Len(Append(q, m)) : i \in 1..Len(q) \/ i = Len(q) + 1
  OBVIOUS

LEMMA TakenOff ==
    ASSUME NEW M, NEW q \in Seq(M), q # <<>>
    PROVE  /\ Len(q) \in Nat /\ Len(q) > 0
           /\ Len(Tail(q)) = Len(q) - 1 /\ Head(q) = q[1]
           /\ \A i \in 1..Len(Tail(q)) : Tail(q)[i] = q[i + 1] /\ i + 1 \in 1..Len(q)
  OBVIOUS

\* One packet, or two, are written as one Append after the other.
LEMMA WrittenAs ==
    ASSUME NEW M, NEW q \in Seq(M)
    PROVE  /\ q \o <<>> = q
           /\ \A m \in M : q \o <<m>> = Append(q, m)
  OBVIOUS

LEMMA TwoWritten ==
    ASSUME NEW M, NEW q \in Seq(M), NEW m \in M, NEW n \in M
    PROVE  q \o <<m, n>> = Append(Append(q, m), n)
  OBVIOUS

LEMMA RoomStep ==
    ASSUME TypeOK, RoomInv, AskedInv, Next
    PROVE  RoomInv'
<1>1. CASE UNCHANGED <<job, router, closed, name, failed>>
  BY <1>1 DEF RoomInv
<1>2. CASE WorkerStartJoin
  <2>1. /\ job'.room = router /\ router' = router /\ closed' = closed /\ name' = name
        /\ router # Nil /\ failed' = failed
    BY <1>2 DEF WorkerStartJoin, FoundRoom
  <2>2. QED
    BY <2>1 DEF RoomInv
<1>3. CASE WorkerStartNew
  <2> DEFINE m == Head(toWorker)
  <2>1. PICK r \in Unused :
          /\ name' = [name EXCEPT ![r] = NewRoomId(m)]
          /\ router' = r
          /\ closed' = closed \ {r}
          /\ job' = [user |-> m.user, call |-> m.call, room |-> r]
    BY <1>3 DEF WorkerStartNew
  <2>2. toWorker # <<>> /\ m = toWorker[1] /\ m.type = "start" /\ 1 \in 1..Len(toWorker)
    BY <1>3, TakenOff DEF WorkerStartNew, Take, TypeOK
  <2>3. NewRoomId(m) # NoRoom
    BY <2>2 DEF AskedInv, NewRoomId
  <2>4. r \in Rooms /\ r # Nil
    BY SessionAssumption DEF Unused
  <2>5. name'[r] = NewRoomId(m)
    BY <2>1, <2>4 DEF TypeOK
  <2>6. QED
    BY <2>1, <2>3, <2>4, <2>5 DEF RoomInv
<1>4. CASE CommonStart
  <2>1. job' = NoJob /\ UNCHANGED <<router, closed, name, failed>>
    BY <1>4 DEF CommonStart
  <2>2. QED
    BY <2>1 DEF RoomInv
<1>5. CASE WorkerQuit \/ WorkerTerminate
  <2>1. job = NoJob /\ job' = job /\ name' = name /\ failed' = failed
    BY <1>5 DEF WorkerQuit, WorkerTerminate, Take
  <2>2. (router' = router /\ closed' = closed) \/ router' = Nil
    BY <1>5 DEF WorkerQuit, WorkerTerminate
  <2>3. QED
    BY <2>1, <2>2 DEF RoomInv
<1>6. ASSUME NEW r \in Rooms, HydrationStep(r)
      PROVE  RoomInv'
  <2>1. UNCHANGED <<job, router, name>>
    BY <1>6 DEF HydrationStep, HydrateFail, HydrateCheck, HydrateBoot
  <2>2. UNCHANGED <<closed, failed>> \/ failed' = "standing"
    BY <1>6 DEF HydrationStep, HydrateFail, HydrateCheck, HydrateBoot, CloseObject
  <2>3. QED
    BY <2>1, <2>2 DEF RoomInv
<1>7. CASE \E u \in Users : UserRequest(u) \/ UserStep(u) \/ Timeout(u)
  BY <1>1, <1>7 DEF UserRequest, UserStep, Timeout, WebrtcInit, SendInit, StartGame,
     EndGrace, Gate, Busy, Adopt, Match, Reserve, NotifyStarted, QuitGame, SendQuit,
     Disconnect, EndTerminate, workerVars
<1>8. CASE CoordinatorStep
  BY <1>1, <1>8 DEF CoordinatorStep, RegisterRoom, CloseRoom, ReceiveReply, workerVars
<1>9. CASE WorkerStep
  BY <1>1, <1>2, <1>3, <1>4, <1>5, <1>9 DEF WorkerStep, WorkerInit, WorkerStartUnknown,
     WorkerStartNotFound, WorkerStartRefused, WorkerStartFailed, workerVars
<1>10. QED
  BY <1>6, <1>7, <1>8, <1>9 DEF Next

\* The coordinator's packets for the worker: one is written at the end, or the
\* first is read.
WritesStart(u) ==
    \E rid \in RoomIds : toWorker' = Append(toWorker, StartRequest(u, rid))
WritesOther ==
    \E m \in WorkerMsg : m.type # "start" /\ toWorker' = Append(toWorker, m)
Reads == toWorker # <<>> /\ toWorker' = Tail(toWorker)

LEMMA WorkerReads == WorkerStep => Reads \/ UNCHANGED toWorker
  BY DEF WorkerStep, WorkerInit, WorkerStartUnknown, WorkerStartJoin, WorkerStartNotFound,
     WorkerStartRefused,
         WorkerStartNew, WorkerStartFailed, CommonStart, WorkerQuit, WorkerTerminate, Take,
         Reads

LEMMA AskedStep ==
    ASSUME TypeOK, AskedInv, Next
    PROVE  AskedInv'
<1> DEFINE named == {"grace", "gate", "busy", "adopt", "match", "reserve"}
           PcOk == \A u \in Users : pc[u] \in named => rq[u].game # NoRoom
           StartsOk == \A i \in 1..Len(toWorker) :
                            toWorker[i].type = "start" => toWorker[i].game # NoRoom
<1>1. TypeOK' /\ PcOk /\ StartsOk
  BY UserTypes, CoordinatorTypes, WorkerTypes, HydrationTypes DEF Next, AskedInv
<1>2. ASSUME NEW m \in WorkerMsg, m.type = "start" => m.game # NoRoom,
             toWorker' = Append(toWorker, m)
      PROVE  StartsOk'
  BY <1>1, <1>2, Written DEF TypeOK
<1>3. ASSUME Reads
      PROVE  StartsOk'
  BY <1>1, <1>3, TakenOff DEF TypeOK, Reads
<1>4. ASSUME NEW u \in Users, UserRequest(u) \/ UserStep(u) \/ Timeout(u)
      PROVE  PcOk' /\ StartsOk'
  <2>1. ASSUME NEW game \in Games, NEW rid \in RoomIds, StartGame(u, game, rid)
        PROVE  PcOk' /\ StartsOk'
    <3>1. /\ pc' = [pc EXCEPT ![u] = pc'[u]] /\ rq' = [rq EXCEPT ![u] = [game |-> game, rid |-> rid]]
          /\ UNCHANGED toWorker
      BY <2>1 DEF StartGame, Request, Goto, TypeOK
    <3>2. game # NoRoom
      BY SessionAssumption
    <3>3. PcOk'
      BY <1>1, <3>1, <3>2 DEF TypeOK
    <3>4. QED
      BY <1>1, <3>1, <3>3
  <2>2. CASE WebrtcInit(u) \/ EndGrace(u) \/ Gate(u) \/ Busy(u) \/ NotifyStarted(u)
              \/ (\E rid \in RoomIds : QuitGame(u, rid)) \/ Timeout(u) \/ EndTerminate(u)
    <3>1. toWorker' = toWorker
      BY <2>2 DEF WebrtcInit, EndGrace, Gate, Busy, NotifyStarted, QuitGame, Timeout, EndTerminate
    <3>2. /\ \A w \in Users \ {u} : pc'[w] = pc[w] /\ rq'[w] = rq[w]
          /\ pc'[u] \in named => pc[u] \in named /\ rq'[u] = rq[u]
      BY <2>2 DEF WebrtcInit, EndGrace, Gate, Busy, NotifyStarted, QuitGame, Timeout, EndTerminate,
         Request, Goto, Drop, TypeOK
    <3>3. QED
      BY <1>1, <3>1, <3>2
  <2>3. CASE SendInit(u) \/ SendQuit(u) \/ Disconnect(u)
    <3>1. rq' = rq /\ \A w \in Users : pc'[w] \in named => pc[w] \in named
      BY <2>3 DEF SendInit, SendQuit, Disconnect, EndTerminate, Call, Goto, TypeOK
    <3>2. WritesOther
      <4>1. calls[u] + 1 \in Nat /\ roomId \in RoomIds
        BY DEF TypeOK
      <4>2. [type |-> "init", user |-> u, call |-> calls[u] + 1] \in WorkerMsg
        BY <4>1, PacketTypes
      <4>3. [type |-> "quit", rid |-> roomId] \in WorkerMsg
        BY <4>1, PacketTypes
      <4>4. [type |-> "terminate", user |-> u] \in WorkerMsg
        BY PacketTypes
      <4>5. QED
        BY <2>3, <4>2, <4>3, <4>4 DEF SendInit, SendQuit, Disconnect, EndTerminate, Call,
           WritesOther
    <3>3. QED
      BY <1>1, <1>2, <3>1, <3>2 DEF WritesOther
  <2>4. CASE Adopt(u) \/ Match(u) \/ Reserve(u)
    <3>1. /\ pc[u] \in named /\ pc'[u] \notin named
          /\ \A w \in Users \ {u} : pc'[w] = pc[w] /\ rq'[w] = rq[w]
      BY <2>4 DEF Adopt, Match, Reserve, Call, Goto, Drop, TypeOK
    <3>2. WritesStart(u) \/ toWorker' = toWorker
      BY <2>4 DEF Adopt, Match, Reserve, Call, WritesStart, TypeOK, Requests
    <3>3. \A rid \in RoomIds : /\ StartRequest(u, rid) \in WorkerMsg
                               /\ StartRequest(u, rid).game # NoRoom
      <4>1. calls[u] + 1 \in Nat /\ rq[u].game \in RoomIds /\ rq[u].game # NoRoom
        BY <1>1, <3>1 DEF TypeOK, Requests
      <4>2. QED
        BY <4>1, PacketTypes DEF StartRequest
    <3>4. QED
      BY <1>1, <1>2, <3>1, <3>2, <3>3 DEF WritesStart
  <2>5. QED
    BY <1>4, <2>1, <2>2, <2>3, <2>4 DEF UserRequest, UserStep
<1>5. CASE CoordinatorStep
  <2>1. rq' = rq /\ toWorker' = toWorker /\ \A w \in Users : pc'[w] \in named => pc[w] \in named
    BY <1>5 DEF CoordinatorStep, RegisterRoom, CloseRoom, ReceiveReply, InitReply, StartReply,
       userVars, TypeOK
  <2>2. QED
    BY <1>1, <2>1 DEF AskedInv
<1>6. CASE WorkerStep
  <2>1. rq' = rq /\ pc' = pc
    BY <1>6 DEF WorkerStep, WorkerInit, WorkerStartUnknown, WorkerStartJoin,
       WorkerStartNotFound, WorkerStartRefused, WorkerStartNew, WorkerStartFailed, CommonStart,
       WorkerQuit,
       WorkerTerminate, userVars
  <2>2. QED
    BY <1>1, <1>3, <1>6, <2>1, WorkerReads DEF AskedInv
<1>7. ASSUME NEW r \in Rooms, HydrationStep(r)
      PROVE  AskedInv'
  BY <1>7 DEF HydrationStep, HydrateFail, HydrateCheck, HydrateBoot, userVars, AskedInv
<1>8. QED
  BY <1>4, <1>5, <1>6, <1>7 DEF Next, AskedInv

\* What a step of the worker tells the coordinator.
Tells(m) == toCoord' = Append(toCoord, m)
TellsTwo(m, n) == toCoord' = Append(Append(toCoord, m), n)

\* The packets it tells: the answer to a request, ...
LEMMA Answering ==
    ASSUME TypeOK, WorkerInit \/ WorkerStartUnknown \/ WorkerStartNotFound \/ WorkerStartRefused
    PROVE  /\ Reads /\ Head(toWorker).user \in Users
           /\ \E c \in Nat, ok \in BOOLEAN : Tells(Reply(Head(toWorker).user, c, ok))
<1> DEFINE m == Head(toWorker)
<1>1. Reads /\ m \in WorkerMsg /\ m.type \in {"init", "start"}
  BY ChannelFacts DEF WorkerInit, WorkerStartUnknown, WorkerStartNotFound, WorkerStartRefused,
     Take, Reads, TypeOK
<1>2. m.user \in Users /\ m.call \in Nat
  BY <1>1, PacketFields
<1>3. \E ok \in BOOLEAN : Send(<<Reply(m.user, m.call, ok)>>)
  BY DEF WorkerInit, WorkerStartUnknown, WorkerStartNotFound, WorkerStartRefused, Refuse
<1>4. \A ok \in BOOLEAN : Send(<<Reply(m.user, m.call, ok)>>) => Tells(Reply(m.user, m.call, ok))
  BY <1>2, PacketTypes, WrittenAs DEF Send, Tells, TypeOK
<1>5. QED
  BY <1>1, <1>2, <1>3, <1>4

\* ... the end of a room that could not be made, ...
LEMMA Failing ==
    ASSUME TypeOK, AskedInv, WorkerStartFailed
    PROVE  /\ Reads /\ Head(toWorker).user \in Users
           /\ \E id \in RoomIds \ {NoRoom}, c \in Nat :
                TellsTwo(Close(id), Reply(Head(toWorker).user, c, FALSE))
<1> DEFINE m == Head(toWorker)
           id == NewRoomId(m)
<1>1. Reads /\ m \in WorkerMsg /\ m.type = "start" /\ m = toWorker[1] /\ 1 \in 1..Len(toWorker)
  BY ChannelFacts, TakenOff DEF WorkerStartFailed, Take, Reads, TypeOK
<1>2. m.user \in Users /\ m.call \in Nat /\ id \in RoomIds
  BY <1>1, PacketFields DEF NewRoomId
<1>3. id # NoRoom
  BY <1>1 DEF AskedInv, NewRoomId
<1>4. Close(id) \in CoordMsg /\ Reply(m.user, m.call, FALSE) \in CoordMsg
  BY <1>2, PacketTypes
<1>5. TellsTwo(Close(id), Reply(m.user, m.call, FALSE))
  <2>1. toCoord' = toCoord \o <<Close(id), Reply(m.user, m.call, FALSE)>>
    BY DEF WorkerStartFailed, Send
  <2>2. toCoord \in Seq(CoordMsg)
    BY DEF TypeOK
  <2>3. QED
    <3> DEFINE a == Close(id) b == Reply(m.user, m.call, FALSE)
    <3>1. a \in CoordMsg /\ b \in CoordMsg /\ toCoord' = toCoord \o <<a, b>>
      BY <1>4, <2>1
    <3> HIDE DEF a, b
    <3>2. toCoord' = Append(Append(toCoord, a), b)
      BY <2>2, <3>1, TwoWritten
    <3>3. QED
      BY <3>2 DEF TellsTwo, a, b
<1>6. QED
  BY <1>1, <1>2, <1>3, <1>5

\* ... a room that is there, ...
LEMMA Registering ==
    ASSUME TypeOK, RoomInv, CommonStart
    PROVE  /\ router # Nil /\ job.user \in Users /\ name[router] \in RoomIds \ {NoRoom}
           /\ \E c \in Nat : TellsTwo(Register(name[router]), Reply(job.user, c, TRUE))
<1>1. job \in Jobs /\ job # NoJob /\ router # Nil /\ job.room = router
  BY DEF CommonStart, RoomInv, TypeOK
<1>2. job.user \in Users /\ job.call \in Nat /\ name[router] \in RoomIds \ {NoRoom}
  BY <1>1 DEF Jobs, RoomInv, TypeOK
<1>3. Register(name[router]) \in CoordMsg /\ Reply(job.user, job.call, TRUE) \in CoordMsg
  BY <1>2, PacketTypes
<1>4. TellsTwo(Register(name[router]), Reply(job.user, job.call, TRUE))
  <2>1. toCoord' = toCoord \o <<Register(name[router]), Reply(job.user, job.call, TRUE)>>
    BY <1>1 DEF CommonStart, Send
  <2>2. toCoord \in Seq(CoordMsg)
    BY DEF TypeOK
  <2>3. QED
    <3> DEFINE a == Register(name[router]) b == Reply(job.user, job.call, TRUE)
    <3>1. a \in CoordMsg /\ b \in CoordMsg /\ toCoord' = toCoord \o <<a, b>>
      BY <1>3, <2>1
    <3> HIDE DEF a, b
    <3>2. toCoord' = Append(Append(toCoord, a), b)
      BY <2>2, <3>1, TwoWritten
    <3>3. QED
      BY <3>2 DEF TellsTwo, a, b
<1>5. QED
  BY <1>1, <1>2, <1>4

\* ... and the end of the room that was, which nobody is in any more.
Dropped == /\ router # Nil /\ router' = Nil /\ sessions' = {}
           /\ name[router] \in RoomIds \ {NoRoom} /\ Tells(Close(name[router]))

LEMMA Dropping ==
    ASSUME TypeOK, RoomInv, WorkerQuit \/ WorkerTerminate
    PROVE  /\ Reads
           /\ \/ Dropped
              \/ UNCHANGED <<router, toCoord>> /\ sessions' \subseteq sessions
              \/ failed = "standing" /\ UNCHANGED toCoord
<1>1. Reads
  BY DEF WorkerQuit, WorkerTerminate, Take, Reads
<1>2. CASE UNCHANGED <<router, toCoord>> /\ sessions' \subseteq sessions
  BY <1>1, <1>2
<1>3. CASE Send(CloseMsgs(router)) /\ router' = Nil /\ sessions' = {}
  <2>1. CASE router = Nil
    <3>1. toCoord' = toCoord
      BY <1>3, <2>1, WrittenAs DEF Send, CloseMsgs, Closing, TypeOK
    <3>2. QED
      BY <1>1, <1>3, <2>1, <3>1
  <2>4. CASE router # Nil /\ router \in closed
    <3>1. toCoord' = toCoord /\ failed = "standing"
      BY <1>3, <2>4, WrittenAs DEF Send, CloseMsgs, Closing, RoomInv, TypeOK
    <3>2. QED
      BY <1>1, <3>1
  <2>2. CASE router # Nil /\ router \notin closed
    <3>1. Closing(router) /\ name[router] \in RoomIds \ {NoRoom}
      BY <2>2 DEF Closing, RoomInv, TypeOK
    <3>2. Close(name[router]) \in CoordMsg
      BY <3>1, PacketTypes
    <3>3. Tells(Close(name[router]))
      BY <1>3, <3>1, <3>2, WrittenAs DEF Send, CloseMsgs, Tells, TypeOK
    <3>4. QED
      BY <1>1, <1>3, <2>2, <3>1, <3>3 DEF Dropped
  <2>3. QED
    BY <2>1, <2>2, <2>4
<1>4. QED
  BY <1>2, <1>3 DEF WorkerQuit, WorkerTerminate

\* A hydration that fails tells of the end of its room, if it is still open.
LEMMA HydrationTells ==
    ASSUME TypeOK, NEW r \in Rooms, HydrationStep(r)
    PROVE  /\ UNCHANGED <<toWorker, roomId, slot, sessions, router, name, job, pc, calls, timeouts>>
           /\ \/ UNCHANGED <<toCoord, failed>>
              \/ /\ failed' = "standing" /\ name[r] \in RoomIds \ {NoRoom}
                 /\ Tells(Close(name[r]))
<1>1. UNCHANGED <<toWorker, roomId, slot, sessions, router, name, job, pc, calls, timeouts>>
  BY DEF HydrationStep, HydrateFail, HydrateCheck, HydrateBoot, coordVars, userVars
<1>2. toCoord \in Seq(CoordMsg) /\ name[r] \in RoomIds
  BY DEF TypeOK
<1>3. CASE HydrateCheck(r) \/ HydrateBoot(r)
  BY <1>1, <1>3 DEF HydrateCheck, HydrateBoot
<1>4. CASE HydrateFail(r) /\ Closing(r)
  <2>1. name[r] \in RoomIds \ {NoRoom} /\ failed' = "standing" /\ Send(<<Close(name[r])>>)
    BY <1>2, <1>4, SessionAssumption DEF HydrateFail, CloseMsgs
  <2>2. Close(name[r]) \in CoordMsg
    BY <2>1, PacketTypes
  <2>3. Tells(Close(name[r]))
    BY <1>2, <2>1, <2>2, WrittenAs DEF Send, Tells
  <2>4. QED
    BY <1>1, <2>1, <2>3
<1>5. CASE HydrateFail(r) /\ ~Closing(r)
  BY <1>1, <1>2, <1>5, WrittenAs DEF HydrateFail, Send, CloseMsgs
<1>6. QED
  BY <1>3, <1>4, <1>5 DEF HydrationStep

LEMMA ToldStep ==
    ASSUME TypeOK, RoomInv, AskedInv, ToldInv, Next
    PROVE  ToldInv'
<1> DEFINE News(m) == m.type # "reply" => m.room # NoRoom
<1>1. ASSUME NEW m \in CoordMsg, News(m), Tells(m)
      PROVE  ToldInv'
  <2>1. toCoord \in Seq(CoordMsg)
    BY DEF TypeOK
  <2>2. \A i \in 1..Len(toCoord') : i \in 1..Len(toCoord) \/ i = Len(toCoord) + 1
    BY <1>1, <2>1, Written DEF Tells
  <2>3. (\A i \in 1..Len(toCoord) : toCoord'[i] = toCoord[i]) /\ toCoord'[Len(toCoord) + 1] = m
    BY <1>1, <2>1, Written DEF Tells
  <2>4. QED
    BY <1>1, <2>2, <2>3 DEF ToldInv
<1>2. ASSUME NEW m \in CoordMsg, NEW n \in CoordMsg, News(m), News(n), TellsTwo(m, n)
      PROVE  ToldInv'
  <2>1. /\ Append(toCoord, m) \in Seq(CoordMsg)
        /\ \A i \in 1..Len(Append(toCoord, m)) : News(Append(toCoord, m)[i])
    BY <1>2, Written DEF TypeOK, ToldInv
  <2>2. QED
    BY <1>2, <2>1, Written DEF ToldInv, TellsTwo
<1>3. CASE UNCHANGED toCoord
  BY <1>3 DEF ToldInv
<1>4. CASE CoordinatorStep
  <2>1. toCoord # <<>> /\ toCoord' = Tail(toCoord)
    BY <1>4 DEF CoordinatorStep, RegisterRoom, CloseRoom, ReceiveReply, Receive
  <2>2. QED
    BY <2>1, TakenOff DEF TypeOK, ToldInv
<1>5. /\ \A u \in Users, c \in Nat, ok \in BOOLEAN :
                Reply(u, c, ok) \in CoordMsg /\ News(Reply(u, c, ok))
      /\ \A id \in RoomIds \ {NoRoom} :
                /\ Register(id) \in CoordMsg /\ News(Register(id))
                /\ Close(id) \in CoordMsg /\ News(Close(id))
  BY PacketTypes DEF Reply, Register, Close
<1> HIDE DEF News
<1>6. CASE WorkerInit \/ WorkerStartUnknown \/ WorkerStartNotFound \/ WorkerStartRefused
  BY <1>1, <1>5, <1>6, Answering
<1>7. CASE WorkerStartFailed
  BY <1>2, <1>5, <1>7, Failing
<1>8. CASE CommonStart
  BY <1>2, <1>5, <1>8, Registering
<1>9. CASE WorkerQuit \/ WorkerTerminate
  BY <1>1, <1>3, <1>5, <1>9, Dropping DEF Dropped
<1>10. CASE WorkerStartJoin \/ WorkerStartNew
  BY <1>3, <1>10 DEF WorkerStartJoin, WorkerStartNew
<1>11. ASSUME NEW r \in Rooms, HydrationStep(r)
       PROVE  ToldInv'
  BY <1>1, <1>3, <1>5, <1>11, HydrationTells
<1>12. CASE \E u \in Users : UserRequest(u) \/ UserStep(u) \/ Timeout(u)
  BY <1>3, <1>12 DEF UserRequest, UserStep, Timeout, WebrtcInit, SendInit, StartGame,
     EndGrace, Gate, Busy, Adopt, Match, Reserve, NotifyStarted, QuitGame, SendQuit,
     Disconnect, EndTerminate
<1>13. QED
  BY <1>4, <1>6, <1>7, <1>8, <1>9, <1>10, <1>11, <1>12 DEF Next, WorkerStep
-----------------------------------------------------------------------------
(***************************************************************************)
(* A user's requests are answered one by one.                              *)
(***************************************************************************)

\* A packet of a user's request, or of its answer.
IsOf(m, u) == m.type \in {"init", "start", "reply"} /\ m.user = u

None(q, u) == \A i \in 1..Len(q) : ~IsOf(q[i], u)
One(q, u, type) ==
    \E i \in 1..Len(q) : /\ IsOf(q[i], u) /\ q[i].type = type
                         /\ \A j \in 1..Len(q) : IsOf(q[j], u) => j = i

LEMMA WriteOf ==
    ASSUME NEW M, NEW q \in Seq(M), NEW m \in M, NEW u
    PROVE  /\ None(q, u) /\ ~IsOf(m, u) => None(Append(q, m), u)
           /\ \A t : One(q, u, t) /\ ~IsOf(m, u) => One(Append(q, m), u, t)
           /\ None(q, u) /\ IsOf(m, u) => One(Append(q, m), u, m.type)
<1> DEFINE p == Append(q, m)
<1>1. /\ Len(p) = Len(q) + 1 /\ Len(q) \in Nat /\ p[Len(q) + 1] = m
      /\ \A i \in 1..Len(q) : p[i] = q[i] /\ i \in 1..Len(p)
      /\ \A i \in 1..Len(p) : i \in 1..Len(q) \/ i = Len(q) + 1
      /\ Len(q) + 1 \in 1..Len(p)
  BY Written
<1> HIDE DEF p
<1>2. None(q, u) /\ ~IsOf(m, u) => None(p, u)
  BY <1>1 DEF None
<1>3. ASSUME NEW t, One(q, u, t), ~IsOf(m, u)
      PROVE  One(p, u, t)
  <2>1. PICK i \in 1..Len(q) : /\ IsOf(q[i], u) /\ q[i].type = t
                               /\ \A j \in 1..Len(q) : IsOf(q[j], u) => j = i
    BY <1>3 DEF One
  <2>2. IsOf(p[i], u) /\ p[i].type = t /\ i \in 1..Len(p)
    BY <1>1, <2>1
  <2>3. \A j \in 1..Len(p) : IsOf(p[j], u) => j = i
    BY <1>1, <1>3, <2>1
  <2>4. QED
    BY <2>2, <2>3 DEF One
<1>4. None(q, u) /\ IsOf(m, u) => One(p, u, m.type)
  BY <1>1 DEF None, One
<1>5. QED
  BY <1>2, <1>3, <1>4 DEF p

LEMMA ReadOf ==
    ASSUME NEW M, NEW q \in Seq(M), q # <<>>, NEW u
    PROVE  /\ None(q, u) => None(Tail(q), u) /\ ~IsOf(Head(q), u)
           /\ \A t : One(q, u, t) /\ ~IsOf(Head(q), u) => One(Tail(q), u, t)
           /\ \A t : One(q, u, t) /\ IsOf(Head(q), u) => None(Tail(q), u) /\ Head(q).type = t
<1> DEFINE p == Tail(q)
<1>1. /\ Len(p) = Len(q) - 1 /\ Len(q) \in Nat /\ Head(q) = q[1] /\ 1 \in 1..Len(q)
      /\ \A i \in 1..Len(p) : p[i] = q[i + 1] /\ i + 1 \in 1..Len(q)
      /\ \A i \in 1..Len(q) : i # 1 => i - 1 \in 1..Len(p) /\ p[i - 1] = q[i]
  BY TakenOff
<1> HIDE DEF p
<1>2. None(q, u) => None(p, u) /\ ~IsOf(Head(q), u)
  BY <1>1 DEF None
<1>3. ASSUME NEW t, One(q, u, t)
      PROVE  /\ ~IsOf(Head(q), u) => One(p, u, t)
             /\ IsOf(Head(q), u) => None(p, u) /\ Head(q).type = t
  <2>1. PICK i \in 1..Len(q) : /\ IsOf(q[i], u) /\ q[i].type = t
                               /\ \A j \in 1..Len(q) : IsOf(q[j], u) => j = i
    BY <1>3 DEF One
  <2>2. CASE IsOf(Head(q), u)
    <3>1. i = 1
      BY <1>1, <2>1, <2>2
    <3>2. \A j \in 1..Len(p) : ~IsOf(p[j], u)
      <4>1. TAKE j \in 1..Len(p)
      <4>2. p[j] = q[j + 1] /\ j + 1 \in 1..Len(q) /\ j + 1 # i
        BY <1>1, <3>1
      <4>3. QED
        BY <2>1, <4>2
    <3>3. QED
      BY <1>1, <2>1, <2>2, <3>1, <3>2 DEF None
  <2>3. CASE ~IsOf(Head(q), u)
    <3>1. i # 1
      BY <1>1, <2>1, <2>3
    <3>2. i - 1 \in 1..Len(p) /\ IsOf(p[i - 1], u) /\ p[i - 1].type = t
      BY <1>1, <2>1, <3>1
    <3>3. \A j \in 1..Len(p) : IsOf(p[j], u) => j = i - 1
      <4>1. TAKE j \in 1..Len(p)
      <4>2. p[j] = q[j + 1] /\ j + 1 \in 1..Len(q)
        BY <1>1
      <4>3. IsOf(p[j], u) => j + 1 = i
        BY <2>1, <4>2
      <4>4. QED
        BY <4>3
    <3>4. QED
      BY <2>3, <3>2, <3>3 DEF One
  <2>4. QED
    BY <2>2, <2>3
<1>4. QED
  BY <1>2, <1>3 DEF p

\* Where a user's request is: nowhere, on its way to the worker, in the worker's
\* hands, or answered.
Idle(u) == None(toWorker, u) /\ None(toCoord, u) /\ job.user # u
Asked(u) ==
    /\ \/ pc[u] = "initWait" /\ One(toWorker, u, "init")
       \/ pc[u] = "wait" /\ One(toWorker, u, "start")
    /\ None(toCoord, u) /\ job.user # u
InHand(u) == pc[u] = "wait" /\ None(toWorker, u) /\ None(toCoord, u) /\ job.user = u
Answered(u) ==
    /\ pc[u] \in {"initWait", "wait"}
    /\ None(toWorker, u) /\ One(toCoord, u, "reply") /\ job.user # u

OneCall(u) == Idle(u) \/ Asked(u) \/ InHand(u) \/ Answered(u)
CallInv == Punctual => \A u \in Users : OneCall(u)

\* A step that is not about the user.
Elsewhere(u) ==
    /\ pc'[u] = pc[u] /\ (job'.user = u <=> job.user = u)
    /\ \/ UNCHANGED toWorker
       \/ \E m \in WorkerMsg : toWorker' = Append(toWorker, m) /\ ~IsOf(m, u)
       \/ Reads /\ ~IsOf(Head(toWorker), u)
    /\ \/ UNCHANGED toCoord
       \/ \E m \in CoordMsg : Tells(m) /\ ~IsOf(m, u)
       \/ \E m, n \in CoordMsg : TellsTwo(m, n) /\ ~IsOf(m, u) /\ ~IsOf(n, u)
       \/ toCoord # <<>> /\ toCoord' = Tail(toCoord) /\ ~IsOf(Head(toCoord), u)

LEMMA ElsewhereKeeps ==
    ASSUME TypeOK, NEW u \in Users, OneCall(u), Elsewhere(u)
    PROVE  OneCall(u)'
<1>1. toWorker \in Seq(WorkerMsg) /\ toCoord \in Seq(CoordMsg)
  BY DEF TypeOK
<1>2. /\ None(toWorker, u) => None(toWorker', u)
      /\ \A t : One(toWorker, u, t) => One(toWorker', u, t)
  <2>1. CASE UNCHANGED toWorker
    BY <2>1
  <2>2. ASSUME NEW m \in WorkerMsg, toWorker' = Append(toWorker, m), ~IsOf(m, u)
        PROVE  /\ None(toWorker, u) => None(toWorker', u)
               /\ \A t : One(toWorker, u, t) => One(toWorker', u, t)
    BY <1>1, <2>2, WriteOf
  <2>3. CASE Reads /\ ~IsOf(Head(toWorker), u)
    BY <1>1, <2>3, ReadOf DEF Reads
  <2>4. QED
    BY <2>1, <2>2, <2>3 DEF Elsewhere
<1>3. /\ None(toCoord, u) => None(toCoord', u)
      /\ \A t : One(toCoord, u, t) => One(toCoord', u, t)
  <2>1. ASSUME NEW m \in CoordMsg, NEW n \in CoordMsg, ~IsOf(m, u), ~IsOf(n, u)
        PROVE  /\ None(toCoord, u) => None(Append(Append(toCoord, m), n), u)
               /\ \A t : One(toCoord, u, t) => One(Append(Append(toCoord, m), n), u, t)
    <3>1. /\ None(toCoord, u) => None(Append(toCoord, m), u)
          /\ \A t : One(toCoord, u, t) => One(Append(toCoord, m), u, t)
          /\ Append(toCoord, m) \in Seq(CoordMsg)
      BY <1>1, <2>1, WriteOf
    <3>2. QED
      BY <2>1, <3>1, WriteOf
  <2>2. CASE UNCHANGED toCoord
    BY <2>2
  <2>3. ASSUME NEW m \in CoordMsg, Tells(m), ~IsOf(m, u)
        PROVE  /\ None(toCoord, u) => None(toCoord', u)
               /\ \A t : One(toCoord, u, t) => One(toCoord', u, t)
    BY <1>1, <2>3, WriteOf DEF Tells
  <2>4. ASSUME NEW m \in CoordMsg, NEW n \in CoordMsg, TellsTwo(m, n), ~IsOf(m, u), ~IsOf(n, u)
        PROVE  /\ None(toCoord, u) => None(toCoord', u)
               /\ \A t : One(toCoord, u, t) => One(toCoord', u, t)
    BY <2>1, <2>4 DEF TellsTwo
  <2>5. CASE toCoord # <<>> /\ toCoord' = Tail(toCoord) /\ ~IsOf(Head(toCoord), u)
    BY <1>1, <2>5, ReadOf
  <2>6. QED
    BY <2>2, <2>3, <2>4, <2>5 DEF Elsewhere
<1>4. QED
  BY <1>2, <1>3 DEF OneCall, Idle, Asked, InHand, Answered, Elsewhere

\* A user that does not wait for the worker has nothing with it.
LEMMA NotWaiting ==
    ASSUME NEW u \in Users, OneCall(u), pc[u] \notin {"initWait", "wait"}
    PROVE  Idle(u)
  BY DEF OneCall, Asked, InHand, Answered

\* What the packets are of.
LEMMA PacketsOf ==
    ASSUME NEW u \in Users
    PROVE  /\ \A w, c, g, r :
                /\ ~IsOf([type |-> "quit", rid |-> r], u)
                /\ ~IsOf([type |-> "terminate", user |-> w], u)
                /\ IsOf([type |-> "init", user |-> w, call |-> c], u) <=> w = u
                /\ IsOf([type |-> "start", user |-> w, call |-> c, game |-> g, rid |-> r], u)
                        <=> w = u
           /\ \A id : ~IsOf(Register(id), u) /\ ~IsOf(Close(id), u)
           /\ \A w, c, ok : /\ IsOf(Reply(w, c, ok), u) <=> w = u
                            /\ Reply(w, c, ok).type = "reply"
  BY DEF IsOf, Register, Close, Reply

\* A user's own steps.
LEMMA UserCalls ==
    ASSUME TypeOK, NEW u \in Users, OneCall(u), UserRequest(u) \/ UserStep(u)
    PROVE  OneCall(u)'
<1>1. UNCHANGED <<toCoord, job>> /\ toWorker \in Seq(WorkerMsg)
  BY DEF UserRequest, UserStep, WebrtcInit, SendInit, StartGame,
     EndGrace, Gate, Busy, Adopt, Match, Reserve, NotifyStarted, QuitGame, SendQuit,
     Disconnect, EndTerminate, workerVars, TypeOK
<1>2. calls[u] + 1 \in Nat /\ roomId \in RoomIds /\ rq[u] \in Requests
  BY DEF TypeOK
<1>3. CASE Disconnect(u)
  <2>1. [type |-> "terminate", user |-> u] \in WorkerMsg
    BY PacketTypes
  <2>2. Elsewhere(u)
    BY <1>1, <1>3, <2>1, PacketsOf DEF Disconnect, EndTerminate, Elsewhere
  <2>3. QED
    BY <2>2, ElsewhereKeeps
<1>12. CASE EndTerminate(u)
  BY <1>1, <1>12, ElsewhereKeeps DEF EndTerminate, Elsewhere
<1>4. CASE UNCHANGED toWorker /\ ~Disconnect(u) /\ ~EndTerminate(u)
  <2>1. pc[u] \notin {"initWait", "wait"}
    BY <1>4 DEF UserRequest, UserStep, WebrtcInit, SendInit, StartGame,
       EndGrace, Gate, Busy, Adopt, Match, Reserve, NotifyStarted, QuitGame, SendQuit,
       Request, Call, Goto
  <2>2. QED
    BY <1>1, <1>4, <2>1, NotWaiting DEF Idle, OneCall
<1>5. CASE SendInit(u)
  <2> DEFINE m == [type |-> "init", user |-> u, call |-> calls[u] + 1]
  <2>1. pc[u] = "init" /\ pc'[u] = "initWait" /\ toWorker' = Append(toWorker, m)
    BY <1>5 DEF SendInit, Call, Goto, TypeOK
  <2>2. m \in WorkerMsg /\ IsOf(m, u) /\ m.type = "init"
    BY <1>2, PacketTypes, PacketsOf
  <2> HIDE DEF m
  <2>3. Idle(u)
    BY <2>1, NotWaiting
  <2>4. One(toWorker', u, "init")
    BY <1>1, <2>1, <2>2, <2>3, WriteOf DEF Idle
  <2>5. QED
    BY <1>1, <2>1, <2>3, <2>4 DEF OneCall, Asked, Idle, None
<1>6. ASSUME WritesStart(u), Adopt(u) \/ Match(u) \/ Reserve(u)
      PROVE  OneCall(u)'
  <2>1. PICK rid \in RoomIds : toWorker' = Append(toWorker, StartRequest(u, rid))
    BY <1>6 DEF WritesStart
  <2>2. pc[u] \in {"adopt", "match", "reserve"}
    BY <1>6 DEF Adopt, Match, Reserve, Call, Goto
  <2>3. pc'[u] = "wait"
    <3>1. toWorker' # toWorker
      BY <1>1, <2>1
    <3>2. QED
      BY <1>6, <3>1 DEF Adopt, Match, Reserve, Call, Goto, TypeOK
  <2> DEFINE m == StartRequest(u, rid)
  <2>4. m \in WorkerMsg
    BY <1>2, PacketTypes DEF StartRequest, Requests
  <2>5. IsOf(m, u) /\ m.type = "start"
    BY DEF StartRequest, IsOf
  <2> HIDE DEF m
  <2>6. Idle(u)
    BY <2>2, NotWaiting
  <2>7. One(toWorker', u, "start")
    BY <1>1, <2>1, <2>4, <2>5, <2>6, WriteOf DEF Idle, m
  <2>8. QED
    BY <1>1, <2>3, <2>6, <2>7 DEF OneCall, Asked, Idle, None
<1>7. CASE SendQuit(u)
  <2> DEFINE m == [type |-> "quit", rid |-> roomId]
  <2>1. pc[u] = "quit" /\ toWorker' = Append(toWorker, m)
    BY <1>7 DEF SendQuit, Call, Goto
  <2>2. m \in WorkerMsg /\ ~IsOf(m, u)
    BY <1>2, PacketTypes, PacketsOf
  <2> HIDE DEF m
  <2>3. Idle(u)
    BY <2>1, NotWaiting
  <2>4. None(toWorker', u)
    BY <1>1, <2>1, <2>2, <2>3, WriteOf DEF Idle
  <2>5. QED
    BY <1>1, <2>3, <2>4 DEF OneCall, Idle, None
<1>8. (Adopt(u) \/ Match(u) \/ Reserve(u)) => WritesStart(u) \/ toWorker' = toWorker
  BY <1>2 DEF Adopt, Match, Reserve, Call, WritesStart, TypeOK, Requests
<1>9. (WebrtcInit(u) \/ EndGrace(u) \/ Gate(u) \/ Busy(u) \/ NotifyStarted(u)
         \/ (\E rid \in RoomIds : QuitGame(u, rid))
         \/ (\E game \in Games, rid \in RoomIds : StartGame(u, game, rid))
         \/ EndTerminate(u)) => UNCHANGED toWorker
  BY DEF EndTerminate, WebrtcInit, EndGrace, Gate, Busy, NotifyStarted, QuitGame, StartGame
<1>10. QED
  BY <1>3, <1>4, <1>5, <1>6, <1>7, <1>8, <1>9, <1>12 DEF UserRequest, UserStep

\* The steps of the other users.
LEMMA OthersCalls ==
    ASSUME TypeOK, NEW u \in Users, NEW w \in Users \ {u}, UserRequest(u) \/ UserStep(u)
    PROVE  Elsewhere(w)
<1>1. UNCHANGED <<toCoord, job>> /\ pc'[w] = pc[w]
  BY DEF UserRequest, UserStep, WebrtcInit, SendInit, StartGame,
     EndGrace, Gate, Busy, Adopt, Match, Reserve, NotifyStarted, QuitGame, SendQuit,
     Disconnect, EndTerminate, workerVars, Request, Call, Goto, TypeOK
<1>2. calls[u] + 1 \in Nat /\ roomId \in RoomIds /\ rq[u] \in Requests
  BY DEF TypeOK
<1>3. CASE SendInit(u)
  <2>1. [type |-> "init", user |-> u, call |-> calls[u] + 1] \in WorkerMsg
    BY <1>2, PacketTypes
  <2>2. ~IsOf([type |-> "init", user |-> u, call |-> calls[u] + 1], w)
    BY DEF IsOf
  <2>3. QED
    BY <1>1, <1>3, <2>1, <2>2 DEF SendInit, Call, Elsewhere
<1>4. CASE SendQuit(u)
  <2>1. [type |-> "quit", rid |-> roomId] \in WorkerMsg /\ ~IsOf([type |-> "quit", rid |-> roomId], w)
    BY <1>2, PacketTypes, PacketsOf
  <2>2. QED
    BY <1>1, <1>4, <2>1 DEF SendQuit, Call, Elsewhere
<1>5. CASE Disconnect(u)
  <2>1. [type |-> "terminate", user |-> u] \in WorkerMsg /\ ~IsOf([type |-> "terminate", user |-> u], w)
    BY PacketTypes, PacketsOf
  <2>2. QED
    BY <1>1, <1>5, <2>1 DEF Disconnect, EndTerminate, Elsewhere
<1>6. CASE Adopt(u) \/ Match(u) \/ Reserve(u)
  <2>1. ASSUME NEW rid \in RoomIds
        PROVE  StartRequest(u, rid) \in WorkerMsg /\ ~IsOf(StartRequest(u, rid), w)
    <3>1. StartRequest(u, rid) \in WorkerMsg
      BY <1>2, PacketTypes DEF StartRequest, Requests
    <3>2. QED
      BY <3>1 DEF StartRequest, IsOf
  <2>2. WritesStart(u) \/ toWorker' = toWorker
    BY <1>2, <1>6 DEF Adopt, Match, Reserve, Call, WritesStart, TypeOK, Requests
  <2>3. QED
    BY <1>1, <2>1, <2>2 DEF WritesStart, Elsewhere
<1>7. CASE UNCHANGED toWorker
  BY <1>1, <1>7 DEF Elsewhere
<1>8. (WebrtcInit(u) \/ EndGrace(u) \/ Gate(u) \/ Busy(u) \/ NotifyStarted(u)
         \/ (\E rid \in RoomIds : QuitGame(u, rid))
         \/ (\E game \in Games, rid \in RoomIds : StartGame(u, game, rid))
         \/ EndTerminate(u)) => UNCHANGED toWorker
  BY DEF EndTerminate, WebrtcInit, EndGrace, Gate, Busy, NotifyStarted, QuitGame, StartGame
<1>9. QED
  BY <1>3, <1>4, <1>5, <1>6, <1>7, <1>8 DEF UserRequest, UserStep

\* The answer reaches its user.
LEMMA CoordinatorCalls ==
    ASSUME TypeOK, NEW u \in Users, OneCall(u), CoordinatorStep
    PROVE  OneCall(u)'
<1> DEFINE m == Head(toCoord)
<1>1. /\ toCoord \in Seq(CoordMsg) /\ toCoord # <<>> /\ toCoord' = Tail(toCoord)
      /\ UNCHANGED <<toWorker, job>>
  BY DEF CoordinatorStep, RegisterRoom, CloseRoom, ReceiveReply, Receive, workerVars, TypeOK
<1>2. CASE IsOf(m, u)
  <2>1. Answered(u)
    BY <1>1, <1>2, ReadOf DEF OneCall, Idle, Asked, InHand
  <2>2. None(toCoord', u)
    BY <1>1, <1>2, <2>1, ReadOf DEF Answered
  <2>3. QED
    BY <1>1, <2>1, <2>2 DEF Answered, OneCall, Idle, None
<1>3. CASE ~IsOf(m, u)
  <2>1. pc'[u] = pc[u]
    <3>1. CASE RegisterRoom \/ CloseRoom
      BY <3>1 DEF RegisterRoom, CloseRoom, userVars
    <3>2. CASE ReceiveReply
      <4>1. m.user # u
        BY <1>3, <3>2 DEF ReceiveReply, Receive, IsOf
      <4>2. QED
        BY <3>2, <4>1 DEF ReceiveReply, InitReply, StartReply, TypeOK
    <3>3. QED
      BY <3>1, <3>2 DEF CoordinatorStep
  <2>2. Elsewhere(u)
    BY <1>1, <1>3, <2>1 DEF Elsewhere
  <2>3. QED
    BY <2>2, ElsewhereKeeps
<1>4. QED
  BY <1>2, <1>3

\* The worker takes a request, and answers it.
LEMMA WorkerCalls ==
    ASSUME TypeOK, RoomInv, AskedInv, NEW u \in Users, OneCall(u), WorkerStep
    PROVE  OneCall(u)'
<1> DEFINE m == Head(toWorker)
<1>1. /\ toWorker \in Seq(WorkerMsg) /\ toCoord \in Seq(CoordMsg) /\ pc' = pc
      /\ Nil # u /\ NoJob.user = Nil
  BY SessionAssumption DEF WorkerStep, WorkerInit, WorkerStartUnknown, WorkerStartJoin,
     WorkerStartNotFound, WorkerStartRefused, WorkerStartNew, WorkerStartFailed, CommonStart,
     WorkerQuit,
     WorkerTerminate, userVars, TypeOK, NoJob
<1>2. ASSUME NEW id \in RoomIds, NEW w \in Users, NEW c \in Nat, NEW ok \in BOOLEAN
      PROVE  /\ Reply(w, c, ok) \in CoordMsg /\ Register(id) \in CoordMsg /\ Close(id) \in CoordMsg
             /\ ~IsOf(Register(id), u) /\ ~IsOf(Close(id), u)
             /\ IsOf(Reply(w, c, ok), u) <=> w = u
             /\ Reply(w, c, ok).type = "reply"
  BY PacketTypes, PacketsOf
<1>3. ASSUME NEW w \in Users, Reads, m.user = w, m.type \in {"init", "start"}, job' = job,
             job = NoJob,
             \/ \E c \in Nat, ok \in BOOLEAN : Tells(Reply(w, c, ok))
             \/ \E id \in RoomIds, c \in Nat : TellsTwo(Close(id), Reply(w, c, FALSE))
      PROVE  OneCall(u)'
  <2>1. CASE w # u
    <3>1. ~IsOf(m, u)
      BY <1>3, <2>1 DEF IsOf
    <3>2. ASSUME NEW c \in Nat, NEW ok \in BOOLEAN
          PROVE  Reply(w, c, ok) \in CoordMsg /\ ~IsOf(Reply(w, c, ok), u)
      BY <2>1, PacketTypes, PacketsOf
    <3>3. ASSUME NEW id \in RoomIds
          PROVE  Close(id) \in CoordMsg /\ ~IsOf(Close(id), u)
      BY PacketTypes, PacketsOf
    <3>4. \/ \E n \in CoordMsg : Tells(n) /\ ~IsOf(n, u)
          \/ \E n, o \in CoordMsg : TellsTwo(n, o) /\ ~IsOf(n, u) /\ ~IsOf(o, u)
      BY <1>3, <3>2, <3>3
    <3>5. Elsewhere(u)
      BY <1>1, <1>3, <3>1, <3>4 DEF Elsewhere
    <3>6. QED
      BY <3>5, ElsewhereKeeps
  <2>2. CASE w = u
    <3>1. IsOf(m, u)
      BY <1>3, <2>2 DEF IsOf
    <3>2. Asked(u)
      BY <1>1, <1>3, <3>1, ReadOf DEF OneCall, Idle, InHand, Answered, Reads
    <3>3. None(toWorker', u)
      BY <1>1, <1>3, <3>1, <3>2, ReadOf DEF Asked, Reads
    <3>4. One(toCoord', u, "reply")
      <4>1. None(toCoord, u)
        BY <3>2 DEF Asked
      <4>2. ASSUME NEW c \in Nat, NEW ok \in BOOLEAN, Tells(Reply(w, c, ok))
            PROVE  One(toCoord', u, "reply")
        <5>1. Reply(w, c, ok) \in CoordMsg /\ IsOf(Reply(w, c, ok), u)
                 /\ Reply(w, c, ok).type = "reply"
          BY <2>2, PacketTypes, PacketsOf
        <5>2. QED
          BY <1>1, <4>1, <4>2, <5>1, WriteOf DEF Tells
      <4>3. ASSUME NEW id \in RoomIds, NEW c \in Nat, TellsTwo(Close(id), Reply(w, c, FALSE))
            PROVE  One(toCoord', u, "reply")
        <5>1. /\ Reply(w, c, FALSE) \in CoordMsg /\ IsOf(Reply(w, c, FALSE), u)
              /\ Reply(w, c, FALSE).type = "reply" /\ Close(id) \in CoordMsg /\ ~IsOf(Close(id), u)
          BY <2>2, PacketTypes, PacketsOf
        <5>2. Append(toCoord, Close(id)) \in Seq(CoordMsg) /\ None(Append(toCoord, Close(id)), u)
          BY <1>1, <4>1, <5>1, WriteOf
        <5>3. QED
          BY <4>3, <5>1, <5>2, WriteOf DEF TellsTwo
      <4>4. QED
        BY <1>3, <4>2, <4>3
    <3>5. QED
      BY <1>1, <1>3, <3>2, <3>3, <3>4 DEF Asked, OneCall, Answered, None, One
  <2>3. QED
    BY <2>1, <2>2
<1>4. CASE WorkerInit \/ WorkerStartUnknown \/ WorkerStartNotFound \/ WorkerStartRefused
  <2>1. m.type \in {"init", "start"} /\ job = NoJob /\ job' = job
    BY <1>4 DEF WorkerInit, WorkerStartUnknown, WorkerStartNotFound, WorkerStartRefused, Take,
       workerVars
  <2>2. QED
    BY <1>3, <1>4, <2>1, Answering
<1>5. CASE WorkerStartFailed
  <2>1. m.type = "start" /\ job = NoJob /\ job' = job
    BY <1>5 DEF WorkerStartFailed, Take
  <2>2. QED
    BY <1>3, <1>5, <2>1, Failing
<1>6. CASE WorkerStartJoin \/ WorkerStartNew
  <2>1. Reads /\ m.type = "start" /\ job = NoJob /\ job'.user = m.user /\ toCoord' = toCoord
    BY <1>6 DEF WorkerStartJoin, WorkerStartNew, Take, Reads
  <2>2. CASE m.user # u
    <3>1. Elsewhere(u)
      BY <1>1, <2>1, <2>2 DEF Elsewhere, IsOf
    <3>2. QED
      BY <3>1, ElsewhereKeeps
  <2>3. CASE m.user = u
    <3>1. IsOf(m, u)
      BY <2>1, <2>3 DEF IsOf
    <3>2. Asked(u)
      BY <1>1, <2>1, <3>1, ReadOf DEF OneCall, Idle, InHand, Answered, Reads
    <3>3. None(toWorker', u) /\ pc[u] = "wait"
      BY <1>1, <2>1, <3>1, <3>2, ReadOf DEF Asked, Reads
    <3>4. QED
      BY <1>1, <2>1, <2>3, <3>2, <3>3 DEF Asked, OneCall, InHand, None
  <2>4. QED
    BY <2>2, <2>3
<1>7. CASE CommonStart
  <2>1. UNCHANGED toWorker /\ job' = NoJob
    BY <1>7 DEF CommonStart
  <2>2. PICK c \in Nat : TellsTwo(Register(name[router]), Reply(job.user, c, TRUE))
    BY <1>7, Registering
  <2>3. job.user \in Users /\ name[router] \in RoomIds
    BY <1>7, Registering
  <2> DEFINE a == Register(name[router])
             b == Reply(job.user, c, TRUE)
  <2>4. a \in CoordMsg /\ b \in CoordMsg /\ ~IsOf(a, u) /\ (IsOf(b, u) <=> job.user = u)
          /\ b.type = "reply"
    BY <1>2, <2>3
  <2>5. toCoord' = Append(Append(toCoord, a), b)
    BY <2>2 DEF TellsTwo
  <2> HIDE DEF a, b
  <2>6. CASE job.user # u
    <3>1. Elsewhere(u)
      BY <1>1, <2>1, <2>4, <2>5, <2>6 DEF Elsewhere, TellsTwo
    <3>2. QED
      BY <3>1, ElsewhereKeeps
  <2>7. CASE job.user = u
    <3>1. InHand(u)
      BY <2>7 DEF OneCall, Idle, Asked, Answered
    <3>2. Append(toCoord, a) \in Seq(CoordMsg) /\ None(Append(toCoord, a), u)
      BY <1>1, <2>4, <3>1, WriteOf DEF InHand
    <3>3. One(toCoord', u, "reply")
      BY <2>4, <2>5, <2>7, <3>2, WriteOf
    <3>4. QED
      BY <1>1, <2>1, <3>1, <3>3 DEF InHand, OneCall, Answered, None, One
  <2>8. QED
    BY <2>6, <2>7
<1>8. CASE WorkerQuit \/ WorkerTerminate
  <2>1. Reads /\ m.type \in {"quit", "terminate"} /\ job' = job
    BY <1>8 DEF WorkerQuit, WorkerTerminate, Take, Reads
  <2>2. UNCHANGED toCoord \/ \E id \in RoomIds : Tells(Close(id))
    BY <1>8, Dropping DEF Dropped
  <2>3. Elsewhere(u)
    BY <1>1, <2>1, <2>2, PacketTypes, PacketsOf DEF Elsewhere, IsOf
  <2>4. QED
    BY <2>3, ElsewhereKeeps
<1>9. QED
  BY <1>4, <1>5, <1>6, <1>7, <1>8 DEF WorkerStep

\* A timeout is not taken back.
LEMMA PunctualStep ==
    ASSUME TypeOK, Next, Punctual'
    PROVE  Punctual /\ \A u \in Users : ~Timeout(u)
<1>1. ASSUME NEW u \in Users, Timeout(u)
      PROVE  FALSE
  BY <1>1 DEF Timeout, Punctual, TypeOK
<1>2. Punctual
  BY <1>1 DEF Next, UserRequest, UserStep, WebrtcInit, SendInit, StartGame,
     EndGrace, Gate, Busy, Adopt, Match, Reserve, NotifyStarted, QuitGame, SendQuit,
     Disconnect, EndTerminate, CoordinatorStep, RegisterRoom, CloseRoom, ReceiveReply,
     WorkerStep, WorkerInit, WorkerStartUnknown, WorkerStartJoin,
     WorkerStartNotFound, WorkerStartRefused, WorkerStartNew, WorkerStartFailed, CommonStart,
     WorkerQuit,
     WorkerTerminate, HydrationStep, HydrateFail, HydrateCheck, HydrateBoot,
     userVars, Punctual
<1>3. QED
  BY <1>1, <1>2

LEMMA CallStep ==
    ASSUME TypeOK, RoomInv, AskedInv, CallInv, Next
    PROVE  CallInv'
<1>1. SUFFICES ASSUME Punctual', NEW u \in Users
               PROVE  OneCall(u)'
  BY DEF CallInv
<1>2. Punctual /\ \A w \in Users : ~Timeout(w)
  BY <1>1, PunctualStep
<1>4. OneCall(u)
  BY <1>2 DEF CallInv
<1>5. ASSUME NEW w \in Users, UserRequest(w) \/ UserStep(w)
      PROVE  OneCall(u)'
  BY <1>4, <1>5, UserCalls, OthersCalls, ElsewhereKeeps
<1>6. CASE CoordinatorStep
  BY <1>4, <1>6, CoordinatorCalls
<1>7. CASE WorkerStep
  BY <1>4, <1>7, WorkerCalls
<1>8. ASSUME NEW r \in Rooms, HydrationStep(r)
      PROVE  OneCall(u)'
  <2>1. Elsewhere(u)
    BY <1>8, HydrationTells, PacketTypes, PacketsOf DEF Elsewhere
  <2>2. QED
    BY <1>4, <2>1, ElsewhereKeeps
<1>9. QED
  BY <1>2, <1>5, <1>6, <1>7, <1>8 DEF Next
-----------------------------------------------------------------------------
(***************************************************************************)
(* The room the coordinator sees, now and as it reads the packets that are *)
(* on their way.                                                           *)
(***************************************************************************)

\* The worker's room id once a packet is read.
Applied(id, m) ==
    IF m.type = "register" THEN m.room
    ELSE IF m.type = "close" /\ m.room = id THEN NoRoom
    ELSE id

\* The room ids of the coordinator from now on, packet by packet.
View(v, id, q) ==
    /\ v \in [0..Len(q) -> RoomIds]
    /\ v[0] = id
    /\ \A i \in 1..Len(q) : v[i] = Applied(v[i - 1], q[i])

LEMMA AppliedType ==
    ASSUME NEW id \in RoomIds, NEW m \in CoordMsg
    PROVE  Applied(id, m) \in RoomIds
  BY PacketFields DEF Applied, RoomIds

LEMMA ViewWrite ==
    ASSUME NEW q \in Seq(CoordMsg), NEW id, NEW v, View(v, id, q), NEW m \in CoordMsg
    PROVE  \E w : /\ View(w, id, Append(q, m))
                  /\ \A i \in 0..Len(q) : w[i] = v[i]
                  /\ w[Len(q) + 1] = Applied(v[Len(q)], m)
<1> DEFINE p == Append(q, m)
           n == Len(q)
           a == Applied(v[n], m)
           w == [i \in 0..(n + 1) |-> IF i = n + 1 THEN a ELSE v[i]]
<1>1. /\ p \in Seq(CoordMsg) /\ Len(p) = n + 1 /\ n \in Nat /\ p[n + 1] = m
      /\ \A i \in 1..n : p[i] = q[i]
  BY Written, ChannelFacts
<1>2. v \in [0..n -> RoomIds] /\ v[0] = id /\ \A i \in 1..n : v[i] = Applied(v[i - 1], q[i])
  BY DEF View
<1>3. a \in RoomIds
  BY <1>1, <1>2, AppliedType
<1> HIDE DEF p, a, n
<1>4. w \in [0..(n + 1) -> RoomIds]
  BY <1>1, <1>2, <1>3
<1>5. w[n + 1] = a /\ \A i \in 0..n : w[i] = v[i]
  BY <1>1
<1> HIDE DEF w
<1>6. \A i \in 1..(n + 1) : w[i] = Applied(w[i - 1], p[i])
  <2>1. TAKE i \in 1..(n + 1)
  <2>2. CASE i = n + 1
    <3>1. i - 1 = n /\ w[i - 1] = v[n] /\ w[i] = a /\ p[i] = m
      BY <1>1, <1>5, <2>2
    <3>2. QED
      BY <3>1 DEF a
  <2>3. CASE i # n + 1
    <3>1. i \in 1..n /\ i - 1 \in 0..n /\ i \in 0..n
      BY <1>1, <2>3
    <3>2. QED
      BY <1>1, <1>2, <1>5, <3>1
  <2>4. QED
    BY <2>2, <2>3
<1>7. View(w, id, p)
  BY <1>1, <1>2, <1>4, <1>5, <1>6 DEF View
<1>8. QED
  BY <1>5, <1>7 DEF p, a, n

LEMMA ViewRead ==
    ASSUME NEW q \in Seq(CoordMsg), q # <<>>, NEW id, NEW v, View(v, id, q)
    PROVE  \E w : /\ View(w, v[1], Tail(q))
                  /\ \A i \in 0..Len(Tail(q)) : w[i] = v[i + 1]
<1> DEFINE p == Tail(q)
           n == Len(q)
           w == [i \in 0..(n - 1) |-> v[i + 1]]
<1>1. /\ Len(p) = n - 1 /\ n \in Nat /\ n > 0
      /\ \A i \in 1..(n - 1) : p[i] = q[i + 1]
  BY TakenOff
<1>2. v \in [0..n -> RoomIds] /\ \A i \in 1..n : v[i] = Applied(v[i - 1], q[i])
  BY DEF View
<1> HIDE DEF p, n
<1>3. w \in [0..(n - 1) -> RoomIds]
  BY <1>1, <1>2
<1>4. \A i \in 0..(n - 1) : w[i] = v[i + 1]
  OBVIOUS
<1> HIDE DEF w
<1>5. \A i \in 1..(n - 1) : w[i] = Applied(w[i - 1], p[i])
  <2>1. TAKE i \in 1..(n - 1)
  <2>2. i + 1 \in 1..n /\ i \in 0..(n - 1) /\ i - 1 \in 0..(n - 1) /\ (i + 1) - 1 = i /\ (i - 1) + 1 = i
    BY <1>1
  <2>3. w[i] = v[i + 1] /\ w[i - 1] = v[i] /\ p[i] = q[i + 1]
    BY <1>1, <1>4, <2>2
  <2>4. v[i + 1] = Applied(v[i], q[i + 1])
    BY <1>2, <2>2
  <2>5. QED
    BY <2>3, <2>4
<1>6. w[0] = v[1]
  BY <1>1, <1>4
<1>7. View(w, v[1], p)
  BY <1>1, <1>3, <1>5, <1>6 DEF View
<1>8. QED
  BY <1>1, <1>4, <1>7 DEF p
-----------------------------------------------------------------------------
(***************************************************************************)
(* The slot, and the requests that start a game.                           *)
(***************************************************************************)

Viewed(v) == View(v, roomId, toCoord)
Last(v) == v[Len(toCoord)]

\* In the end the coordinator sees the router's room, but for one that the worker
\* has yet to register, and one whose archive did not unpack.
Settles(v) == failed # "standing" /\ job = NoJob => Last(v) = RoutedId

\* A StartGame that the worker will not answer at once.
Starts(m) == m.type = "start" /\ m.user \in sessions
NoStarts == \A i \in 1..Len(toWorker) : ~Starts(toWorker[i])

\* From the i-th packet on there is no room, and none is about to be made.
Vacant(v, i) ==
    /\ router = Nil /\ NoStarts
    /\ \A k \in i..Len(toCoord) : v[k] = NoRoom

\* A StartGame joins the room that is there, or is the only one.
FitInv ==
    \A i \in 1..Len(toWorker) :
        Starts(toWorker[i]) =>
            \/ router # Nil /\ toWorker[i].rid = name[router]
            \/ router = Nil /\ \A j \in 1..Len(toWorker) : Starts(toWorker[j]) => j = i

\* A user who is about to join, and whom the worker knows, joins a room.
JoinInv == \A u \in sessions : pc[u] \in {"adopt", "match"} => roomId # NoRoom

\* A free slot means that there is no room ...
FreeInv(v) == slot = 0 => Vacant(v, 0)

\* ... and so does the end of a room, which frees the slot.
EndInv(v) ==
    \A i \in 1..Len(toCoord) : v[i - 1] # NoRoom /\ v[i] = NoRoom => Vacant(v, i)

\* What is seen after the answer to the WebrtcInit of a user who is still in is
\* the router's room, if it is one.
SeenInv(v) ==
    \A u \in sessions, i \in 0..Len(toCoord) :
        v[i] # NoRoom =>
            \/ \A k \in i..Len(toCoord) : v[k] = RoutedId
            \/ \E j \in (i + 1)..Len(toCoord) : IsOf(toCoord[j], u)

Slotted(v) == FitInv /\ JoinInv /\ FreeInv(v) /\ EndInv(v) /\ SeenInv(v)

ViewInv == \E v : Viewed(v) /\ Settles(v) /\ (Undisturbed => Slotted(v))

\* Every StartGame of a step was there before it, d places further on.
Fewer(d) ==
    \A i \in 1..Len(toWorker') :
        Starts(toWorker[i])' => /\ i + d \in 1..Len(toWorker)
                                /\ toWorker[i + d] = toWorker'[i]
                                /\ Starts(toWorker[i + d])

LEMMA FewerKeeps ==
    ASSUME TypeOK, NEW d \in {0, 1}, Fewer(d), FitInv,
           router' = router, router # Nil => name'[router] = name[router]
    PROVE  FitInv' /\ (NoStarts => NoStarts')
<1>1. ASSUME NEW i \in 1..Len(toWorker'), Starts(toWorker[i])'
      PROVE  \/ router' # Nil /\ toWorker'[i].rid = name'[router']
             \/ router' = Nil /\ \A j \in 1..Len(toWorker') : Starts(toWorker[j])' => j = i
  <2>1. /\ i + d \in 1..Len(toWorker) /\ toWorker[i + d] = toWorker'[i]
        /\ Starts(toWorker[i + d])
    BY <1>1 DEF Fewer
  <2>2. CASE router # Nil
    BY <2>1, <2>2 DEF FitInv
  <2>3. CASE router = Nil
    <3>1. ASSUME NEW j \in 1..Len(toWorker'), Starts(toWorker[j])'
          PROVE  j = i
      <4>1. j + d \in 1..Len(toWorker) /\ Starts(toWorker[j + d])
        BY <3>1 DEF Fewer
      <4>2. j + d = i + d
        BY <2>1, <2>3, <4>1 DEF FitInv
      <4>3. QED
        BY <4>2
    <3>2. QED
      BY <2>3, <3>1
  <2>4. QED
    BY <2>2, <2>3
<1>2. NoStarts => NoStarts'
  BY DEF NoStarts, Fewer
<1>3. QED
  BY <1>1, <1>2 DEF FitInv

\* A step that may only tell of the router's room.
Extends(v, w, n) ==
    /\ Len(toCoord') = Len(toCoord) + n
    /\ \A i \in 1..Len(toCoord) : toCoord'[i] = toCoord[i]
    /\ \A i \in 0..Len(toCoord) : w[i] = v[i]
    /\ \A i \in (Len(toCoord) + 1)..(Len(toCoord) + n) : w[i] = RoutedId
    /\ n > 0 => Last(v) = RoutedId \/ (router # Nil /\ RoutedId # NoRoom)

LEMMA Extending ==
    ASSUME TypeOK, NEW v, NEW w, Slotted(v), NEW n \in 0..2, Extends(v, w, n),
           NEW d \in {0, 1}, Fewer(d),
           UNCHANGED <<roomId, slot, router>>, router # Nil => name'[router] = name[router],
           \A u \in sessions' : u \in sessions \/ (n = 1 /\ IsOf(toCoord'[Len(toCoord) + 1], u)),
           JoinInv'
    PROVE  Slotted(w)'
<1> DEFINE L == Len(toCoord)
<1>1. /\ L \in Nat /\ Len(toCoord') = L + n
      /\ \A i \in 1..L : toCoord'[i] = toCoord[i]
      /\ \A i \in 0..L : w[i] = v[i]
      /\ \A i \in (L + 1)..(L + n) : w[i] = RoutedId
      /\ n > 0 => v[L] = RoutedId \/ (router # Nil /\ RoutedId # NoRoom)
  BY DEF Extends, TypeOK, Last
<1>2. RoutedId' = RoutedId
  BY DEF RoutedId
<1>3. FitInv' /\ (NoStarts => NoStarts')
  BY FewerKeeps DEF Slotted
<1> HIDE DEF L
<1>4. ASSUME NEW i \in 0..L, Vacant(v, i)
      PROVE  Vacant(w, i)'
  <2>1. router' = Nil /\ NoStarts' /\ \A k \in i..L : v[k] = NoRoom
    BY <1>3, <1>4 DEF Vacant, L
  <2>2. ASSUME NEW k \in i..(L + n)
        PROVE  w[k] = NoRoom
    <3>1. CASE k \in 0..L
      BY <1>1, <2>1, <2>2, <3>1
    <3>2. CASE k \in (L + 1)..(L + n)
      <4>1. n > 0 /\ w[k] = RoutedId
        BY <1>1, <3>2
      <4>2. v[L] = RoutedId /\ v[L] = NoRoom
        BY <1>1, <1>4, <2>1, <4>1 DEF Vacant
      <4>3. QED
        BY <4>1, <4>2
    <3>3. QED
      BY <1>1, <2>2, <3>1, <3>2
  <2>3. QED
    BY <1>1, <2>1, <2>2 DEF Vacant
<1>5. FreeInv(w)'
  BY <1>1, <1>4 DEF Slotted, FreeInv
<1>6. EndInv(w)'
  <2>1. SUFFICES ASSUME NEW i \in 1..(L + n), w[i - 1] # NoRoom, w[i] = NoRoom
                 PROVE  Vacant(w, i)'
    BY <1>1 DEF EndInv
  <2>2. CASE i \in 1..L
    <3>1. i - 1 \in 0..L /\ i \in 0..L
      BY <1>1, <2>2
    <3>2. v[i - 1] # NoRoom /\ v[i] = NoRoom
      BY <1>1, <2>1, <3>1
    <3>3. Vacant(v, i)
      BY <2>2, <3>2 DEF Slotted, EndInv, L
    <3>4. QED
      BY <1>4, <3>1, <3>3
  <2>3. CASE i = L + 1
    <3>1. w[i] = RoutedId /\ w[i - 1] = v[L] /\ n > 0
      BY <1>1, <2>1, <2>3
    <3>2. QED
      BY <1>1, <2>1, <3>1
  <2>4. CASE i \in (L + 2)..(L + n)
    <3>1. i - 1 \in (L + 1)..(L + n) /\ i \in (L + 1)..(L + n)
      BY <1>1, <2>4
    <3>2. QED
      BY <1>1, <2>1, <3>1
  <2>5. QED
    BY <1>1, <2>1, <2>2, <2>3, <2>4
<1>7. SeenInv(w)'
  <2>1. SUFFICES ASSUME NEW u \in sessions', NEW i \in 0..(L + n), w[i] # NoRoom
                 PROVE  \/ \A k \in i..(L + n) : w[k] = RoutedId
                        \/ \E j \in (i + 1)..(L + n) : IsOf(toCoord'[j], u)
    BY <1>1, <1>2 DEF SeenInv, IsOf
  <2>2. CASE i \in (L + 1)..(L + n)
    BY <1>1, <2>2
  <2>3. CASE i \in 0..L /\ u \notin sessions
    BY <1>1, <2>3 DEF L
  <2>4. CASE i \in 0..L /\ u \in sessions
    <3>1. v[i] # NoRoom
      BY <1>1, <2>1, <2>4
    <3>2. CASE \A k \in i..L : v[k] = RoutedId
      BY <1>1, <2>4, <3>2
    <3>3. CASE \E j \in (i + 1)..L : IsOf(toCoord[j], u)
      BY <1>1, <2>4, <3>3
    <3>4. QED
      BY <2>4, <3>1, <3>2, <3>3 DEF Slotted, SeenInv, L
  <2>5. QED
    BY <1>1, <2>1, <2>2, <2>3, <2>4
<1>8. QED
  BY <1>3, <1>5, <1>6, <1>7 DEF Slotted

\* A user's steps: the requests that start a game are the ones that matter.
LEMMA UserView ==
    ASSUME TypeOK, CallInv, NEW v, Viewed(v), Punctual, Slotted(v), NEW u \in Users,
           UserRequest(u) \/ UserStep(u)
    PROVE  Slotted(v)'
<1> DEFINE L == Len(toWorker)
<1>1. /\ UNCHANGED <<toCoord, roomId, router, name, sessions, job>>
      /\ L \in Nat /\ toWorker \in Seq(WorkerMsg) /\ calls[u] + 1 \in Nat /\ rq[u] \in Requests
  BY DEF UserRequest, UserStep, WebrtcInit, SendInit, StartGame, EndGrace, Gate, Busy, Adopt,
     Match, Reserve, NotifyStarted, QuitGame, SendQuit, Disconnect, EndTerminate, coordVars,
     workerVars, TypeOK
<1>2. JoinInv'
  <2>1. \A w \in Users : pc'[w] \in {"adopt", "match"} => pc[w] = pc'[w] \/ roomId # NoRoom
    BY DEF UserRequest, UserStep, WebrtcInit, SendInit, StartGame, EndGrace, Gate, Busy, Adopt,
       Match, Reserve, NotifyStarted, QuitGame, SendQuit, Disconnect, EndTerminate, Call, Goto,
       Request, TypeOK
  <2>2. QED
    BY <1>1, <2>1 DEF Slotted, JoinInv, TypeOK
<1>3. ASSUME Fewer(0), slot' = slot
      PROVE  Slotted(v)'
  <2>1. Extends(v, v, 0)
    BY <1>1 DEF Extends, TypeOK
  <2>2. QED
    BY <1>1, <1>2, <1>3, <2>1, Extending
<1>4. CASE UNCHANGED <<toWorker, slot>>
  <2>1. Fewer(0)
    BY <1>1, <1>4 DEF Fewer, Starts
  <2>2. QED
    BY <1>3, <1>4, <2>1
<1>5. ASSUME NEW m \in WorkerMsg, toWorker' = Append(toWorker, m), slot' = slot, ~Starts(m)
      PROVE  Slotted(v)'
  <2>1. Fewer(0)
    <3>1. SUFFICES ASSUME NEW i \in 1..Len(toWorker'), Starts(toWorker[i])'
                   PROVE  /\ i + 0 \in 1..L /\ toWorker[i + 0] = toWorker'[i]
                          /\ Starts(toWorker[i + 0])
      BY DEF Fewer
    <3>2. i + 0 = i
      OBVIOUS
    <3>3. Starts(toWorker'[i])
      BY <1>1, <3>1 DEF Starts
    <3>4. i \in 1..L \/ (i = L + 1 /\ toWorker'[i] = m)
      BY <1>1, <1>5, Written
    <3>5. i \in 1..L /\ toWorker'[i] = toWorker[i]
      BY <1>1, <1>5, <3>3, <3>4, Written
    <3>6. QED
      BY <1>1, <3>2, <3>3, <3>5
  <2>2. QED
    BY <1>3, <1>5, <2>1
<1>6. CASE SendInit(u)
  <2>1. [type |-> "init", user |-> u, call |-> calls[u] + 1] \in WorkerMsg
    BY <1>1, PacketTypes
  <2>2. ~Starts([type |-> "init", user |-> u, call |-> calls[u] + 1])
    BY DEF Starts
  <2>3. QED
    BY <1>5, <1>6, <2>1, <2>2 DEF SendInit, Call, coordVars
<1>7. CASE SendQuit(u)
  <2>1. [type |-> "quit", rid |-> roomId] \in WorkerMsg
    BY PacketTypes DEF TypeOK
  <2>2. ~Starts([type |-> "quit", rid |-> roomId])
    BY DEF Starts
  <2>3. QED
    BY <1>5, <1>7, <2>1, <2>2 DEF SendQuit, Call, coordVars
<1>8. CASE Disconnect(u)
  <2>1. [type |-> "terminate", user |-> u] \in WorkerMsg
    BY PacketTypes
  <2>2. ~Starts([type |-> "terminate", user |-> u])
    BY DEF Starts
  <2>3. QED
    BY <1>5, <1>8, <2>1, <2>2 DEF Disconnect, EndTerminate, coordVars
<1>9. ASSUME NEW rid \in RoomIds
      PROVE  /\ StartRequest(u, rid) \in WorkerMsg
             /\ StartRequest(u, rid).user = u /\ StartRequest(u, rid).rid = rid
  BY <1>1, PacketTypes DEF StartRequest, Requests
<1>10. ASSUME NEW rid \in RoomIds, toWorker' = Append(toWorker, StartRequest(u, rid))
       PROVE  /\ Len(toWorker') = L + 1
              /\ \A i \in 1..L : toWorker'[i] = toWorker[i]
              /\ toWorker'[L + 1] = StartRequest(u, rid)
              /\ \A i \in 1..Len(toWorker') : i \in 1..L \/ i = L + 1
  BY <1>1, <1>9, <1>10, Written
<1>11. ASSUME NEW rid \in RoomIds, toWorker' = Append(toWorker, StartRequest(u, rid)),
              slot' = slot, rid = roomId, pc[u] \in {"adopt", "match"}
       PROVE  Slotted(v)'
  <2>1. CASE u \notin sessions
    <3>1. StartRequest(u, rid) \in WorkerMsg /\ ~Starts(StartRequest(u, rid))
      BY <1>9, <2>1 DEF Starts
    <3>2. QED
      BY <1>5, <1>11, <3>1
  <2>2. CASE u \in sessions
    <3>1. roomId # NoRoom
      BY <1>11, <2>2 DEF Slotted, JoinInv
    <3>2. Idle(u)
      BY <1>11, NotWaiting DEF CallInv
    <3>3. v[0] = roomId /\ Len(toCoord) \in Nat
      BY DEF Viewed, View, TypeOK
    <3>4. RoutedId = roomId
      BY <2>2, <3>1, <3>2, <3>3 DEF Slotted, SeenInv, Idle, None
    <3>5. router # Nil /\ name[router] = roomId
      BY <3>1, <3>4 DEF RoutedId
    <3>6. FitInv'
      BY <1>1, <1>9, <1>10, <1>11, <3>5 DEF FitInv, Starts, Slotted
    <3>7. FreeInv(v)' /\ EndInv(v)' /\ SeenInv(v)'
      BY <1>1, <1>11, <3>5 DEF Slotted, FreeInv, EndInv, SeenInv, Vacant, RoutedId
    <3>8. QED
      BY <1>2, <3>6, <3>7 DEF Slotted
  <2>3. QED
    BY <2>1, <2>2
<1>12. CASE Adopt(u) \/ Match(u)
  <2>1. pc[u] \in {"adopt", "match"} /\ slot' = slot
    BY <1>12 DEF Adopt, Match, Call, Goto, coordVars
  <2>2. toWorker' = toWorker \/ toWorker' = Append(toWorker, StartRequest(u, roomId))
    BY <1>12 DEF Adopt, Match, Call
  <2>3. roomId \in RoomIds
    BY DEF TypeOK
  <2>4. QED
    BY <1>4, <1>11, <2>1, <2>2, <2>3
<1>13. CASE Reserve(u)
  <2>1. CASE TryReserve
    <3> DEFINE rid == rq[u].rid
    <3>1. rid \in RoomIds
      BY <1>1 DEF Requests
    <3>2. slot = 0 /\ slot' = 1 /\ toWorker' = Append(toWorker, StartRequest(u, rid))
      BY <1>13, <2>1 DEF Reserve, TryReserve, Call
    <3> HIDE DEF rid
    <3>3. Vacant(v, 0)
      BY <3>2 DEF Slotted, FreeInv
    <3>4. \A i \in 1..Len(toWorker') : Starts(toWorker[i])' => i = L + 1
      BY <1>1, <1>10, <3>1, <3>2, <3>3 DEF Vacant, NoStarts, Starts
    <3>5. FitInv'
      BY <1>1, <3>3, <3>4 DEF FitInv, Vacant
    <3>6. FreeInv(v)'
      BY <3>2 DEF FreeInv
    <3>7. \A i \in 1..Len(toCoord) : v[i - 1] = NoRoom
      BY <3>3 DEF Vacant, TypeOK
    <3>8. EndInv(v)'
      BY <1>1, <3>7 DEF EndInv
    <3>9. SeenInv(v)'
      BY <1>1 DEF Slotted, SeenInv, RoutedId
    <3>10. QED
      BY <1>2, <3>5, <3>6, <3>8, <3>9 DEF Slotted
  <2>2. CASE ~TryReserve
    BY <1>4, <1>13, <2>2 DEF Reserve, coordVars
  <2>3. QED
    BY <2>1, <2>2
<1>14. (WebrtcInit(u) \/ EndGrace(u) \/ Gate(u) \/ Busy(u) \/ NotifyStarted(u)
         \/ (\E rid \in RoomIds : QuitGame(u, rid))
         \/ (\E game \in Games, rid \in RoomIds : StartGame(u, game, rid)) \/ EndTerminate(u))
             => UNCHANGED <<toWorker, slot>>
  BY DEF EndTerminate, WebrtcInit, EndGrace, Gate, Busy, NotifyStarted, QuitGame, StartGame,
     coordVars
<1>15. QED
  BY <1>4, <1>6, <1>7, <1>8, <1>12, <1>13, <1>14 DEF UserRequest, UserStep

\* The coordinator reads a packet: it sees what it was going to see.
LEMMA CoordinatorView ==
    ASSUME TypeOK, ToldInv, CallInv, NEW v, Viewed(v), Settles(v), CoordinatorStep
    PROVE  \E w : Viewed(w)' /\ Settles(w)' /\ (Undisturbed /\ Slotted(v) => Slotted(w)')
<1> DEFINE L == Len(toCoord)
           m == Head(toCoord)
<1>1. /\ toCoord \in Seq(CoordMsg) /\ toCoord # <<>> /\ toCoord' = Tail(toCoord)
      /\ UNCHANGED <<toWorker, sessions, router, name, job, failed>>
  BY DEF CoordinatorStep, RegisterRoom, CloseRoom, ReceiveReply, Receive, workerVars, TypeOK
<1>2. /\ L \in Nat /\ L > 0 /\ Len(toCoord') = L - 1 /\ m = toCoord[1] /\ 1 \in 1..L
      /\ \A i \in 1..(L - 1) : toCoord'[i] = toCoord[i + 1]
  BY <1>1, TakenOff
<1>3. v[0] = roomId /\ v[1] = Applied(roomId, m)
  BY <1>2 DEF Viewed, View
<1>4. /\ roomId' = v[1]
      /\ slot' = slot \/ (v[0] # NoRoom /\ v[1] = NoRoom)
  <2>1. CASE RegisterRoom
    BY <1>3, <2>1 DEF RegisterRoom, Receive, Applied
  <2>2. CASE CloseRoom
    <3>1. m.room # NoRoom /\ m.type = "close"
      BY <1>2, <2>2 DEF ToldInv, CloseRoom, Receive
    <3>2. QED
      BY <1>3, <2>2, <3>1 DEF CloseRoom, Applied, coordVars
  <2>3. CASE ReceiveReply
    BY <1>3, <2>3 DEF ReceiveReply, Receive, Applied, coordVars
  <2>4. QED
    BY <2>1, <2>2, <2>3 DEF CoordinatorStep
<1>5. PICK w : View(w, v[1], toCoord') /\ \A i \in 0..(L - 1) : w[i] = v[i + 1]
  BY <1>1, <1>2, ViewRead DEF Viewed
<1> HIDE DEF L, m
<1>6. Viewed(w)'
  BY <1>4, <1>5 DEF Viewed
<1>7. RoutedId' = RoutedId
  BY <1>1 DEF RoutedId
<1>8. Settles(w)'
  <2>1. w[L - 1] = v[L]
    BY <1>2, <1>5
  <2>2. QED
    BY <1>1, <1>2, <1>7, <2>1 DEF Settles, Last, L
<1>9. ASSUME Undisturbed, Slotted(v)
      PROVE  Slotted(w)'
  <2>1. FitInv'
    BY <1>1, <1>9 DEF Slotted, FitInv, Starts
  <2>2. ASSUME NEW i \in 0..L, Vacant(v, i + 1)
        PROVE  Vacant(w, i)'
    <3>1. \A k \in i..(L - 1) : w[k] = NoRoom
      BY <1>2, <1>5, <2>2 DEF Vacant, L
    <3>2. QED
      BY <1>1, <1>2, <2>2, <3>1 DEF Vacant, NoStarts, Starts
  <2>3. FreeInv(w)'
    <3>1. SUFFICES ASSUME slot' = 0
                   PROVE  Vacant(w, 0)'
      BY DEF FreeInv
    <3>2. CASE slot = 0
      <4>1. Vacant(v, 0 + 1)
        BY <1>9, <3>2 DEF Slotted, FreeInv, Vacant
      <4>2. QED
        BY <1>2, <2>2, <4>1
    <3>3. CASE v[0] # NoRoom /\ v[1] = NoRoom
      <4>1. Vacant(v, 0 + 1)
        BY <1>2, <1>9, <3>3 DEF Slotted, EndInv, L
      <4>2. QED
        BY <1>2, <2>2, <4>1
    <3>4. QED
      BY <1>4, <3>1, <3>2, <3>3
  <2>4. EndInv(w)'
    <3>1. SUFFICES ASSUME NEW i \in 1..(L - 1), w[i - 1] # NoRoom, w[i] = NoRoom
                   PROVE  Vacant(w, i)'
      BY <1>2 DEF EndInv
    <3>2. w[i - 1] = v[i] /\ w[i] = v[i + 1] /\ i + 1 \in 1..L /\ i \in 0..L /\ (i + 1) - 1 = i
      BY <1>2, <1>5
    <3>3. Vacant(v, i + 1)
      BY <1>9, <3>1, <3>2 DEF Slotted, EndInv, L
    <3>4. QED
      BY <2>2, <3>2, <3>3
  <2>5. SeenInv(w)'
    <3> DEFINE l == Len(toCoord)
    <3>0. l' = L - 1 /\ sessions' = sessions
      BY <1>1, <1>2
    <3> HIDE DEF l
    <3>1. SUFFICES ASSUME NEW u \in sessions, NEW i \in 0..(L - 1), w[i] # NoRoom
                   PROVE  \/ \A k \in i..(L - 1) : w[k] = RoutedId
                          \/ \E j \in (i + 1)..(L - 1) : IsOf(toCoord'[j], u)
      BY <1>7, <3>0, Zenon DEF SeenInv, l, IsOf
    <3>2. v[i + 1] # NoRoom /\ i + 1 \in 0..L
      BY <1>2, <1>5, <3>1
    <3>3. CASE \A k \in (i + 1)..L : v[k] = RoutedId
      BY <1>2, <1>5, <3>3
    <3>4. CASE \E j \in ((i + 1) + 1)..L : IsOf(toCoord[j], u)
      <4>1. PICK j \in ((i + 1) + 1)..L : IsOf(toCoord[j], u)
        BY <3>4
      <4>2. j - 1 \in (i + 1)..(L - 1) /\ toCoord'[j - 1] = toCoord[j]
        BY <1>2
      <4>3. QED
        BY <4>1, <4>2
    <3>5. QED
      BY <1>9, <3>2, <3>3, <3>4 DEF Slotted, SeenInv, L
  <2>6. JoinInv'
    <3>1. SUFFICES ASSUME NEW u \in sessions, pc'[u] \in {"adopt", "match"}
                   PROVE  roomId' # NoRoom
      BY <1>1 DEF JoinInv
    <3>2. u \in Users /\ pc[u] = pc'[u]
      BY <3>1 DEF CoordinatorStep, RegisterRoom, CloseRoom, ReceiveReply, InitReply, StartReply,
         userVars, TypeOK
    <3>3. v[0] # NoRoom
      BY <1>3, <1>9, <3>1, <3>2 DEF Slotted, JoinInv
    <3>4. Idle(u)
      BY <1>9, <3>1, <3>2, NotWaiting DEF CallInv, Undisturbed
    <3>5. \A k \in 0..L : v[k] = RoutedId
      BY <1>2, <1>9, <3>1, <3>3, <3>4 DEF Slotted, SeenInv, Idle, None, L
    <3>6. v[1] = v[0]
      BY <1>2, <3>5
    <3>7. QED
      BY <1>4, <3>3, <3>6
  <2>7. QED
    BY <2>1, <2>3, <2>4, <2>5, <2>6 DEF Slotted
<1>10. QED
  BY <1>6, <1>8, <1>9

\* A packet that is read is no longer there, and a user who is let in has not
\* yet asked for a game.
LEMMA ReadsFewer ==
    ASSUME TypeOK, Reads, \A u \in sessions' \ sessions : None(Tail(toWorker), u)
    PROVE  Fewer(1)
<1>1. SUFFICES ASSUME NEW i \in 1..Len(toWorker'), toWorker'[i].type = "start",
                      toWorker'[i].user \in sessions'
               PROVE  /\ i + 1 \in 1..Len(toWorker) /\ toWorker[i + 1] = toWorker'[i]
                      /\ Starts(toWorker[i + 1])
  BY DEF Fewer, Starts
<1>2. toWorker \in Seq(WorkerMsg) /\ toWorker # <<>> /\ toWorker' = Tail(toWorker)
  BY DEF Reads, TypeOK
<1>3. i + 1 \in 1..Len(toWorker) /\ toWorker[i + 1] = toWorker'[i]
  BY <1>1, <1>2, TakenOff
<1>4. toWorker'[i].user \in sessions
  BY <1>1, <1>2 DEF None, IsOf
<1>5. QED
  BY <1>1, <1>3, <1>4 DEF Starts

\* The worker tells of one thing, or of two.
LEMMA TellsView ==
    ASSUME TypeOK, NEW v, Viewed(v), roomId' = roomId, NEW m \in CoordMsg, Tells(m)
    PROVE  \E w : /\ Viewed(w)' /\ Len(toCoord') = Len(toCoord) + 1
                  /\ toCoord'[Len(toCoord) + 1] = m
                  /\ \A i \in 1..Len(toCoord) : toCoord'[i] = toCoord[i]
                  /\ \A i \in 0..Len(toCoord) : w[i] = v[i]
                  /\ w[Len(toCoord) + 1] = Applied(Last(v), m)
<1>1. toCoord \in Seq(CoordMsg) /\ toCoord' = Append(toCoord, m)
  BY DEF TypeOK, Tells
<1>2. /\ Len(toCoord') = Len(toCoord) + 1 /\ toCoord'[Len(toCoord) + 1] = m
      /\ \A i \in 1..Len(toCoord) : toCoord'[i] = toCoord[i]
  BY <1>1, Written
<1>3. PICK w : /\ View(w, roomId, toCoord')
               /\ \A i \in 0..Len(toCoord) : w[i] = v[i]
               /\ w[Len(toCoord) + 1] = Applied(v[Len(toCoord)], m)
  BY <1>1, ViewWrite DEF Viewed
<1>4. Viewed(w)'
  BY <1>3 DEF Viewed
<1>5. QED
  BY <1>2, <1>3, <1>4 DEF Last

LEMMA TellsTwoView ==
    ASSUME TypeOK, NEW v, Viewed(v), roomId' = roomId,
           NEW m \in CoordMsg, NEW n \in CoordMsg, TellsTwo(m, n)
    PROVE  \E w : /\ Viewed(w)' /\ Len(toCoord') = Len(toCoord) + 2
                  /\ \A i \in 1..Len(toCoord) : toCoord'[i] = toCoord[i]
                  /\ \A i \in 0..Len(toCoord) : w[i] = v[i]
                  /\ w[Len(toCoord) + 1] = Applied(Last(v), m)
                  /\ w[Len(toCoord) + 2] = Applied(w[Len(toCoord) + 1], n)
<1> DEFINE L == Len(toCoord)
           p == Append(toCoord, m)
<1>1. /\ toCoord \in Seq(CoordMsg) /\ L \in Nat /\ p \in Seq(CoordMsg) /\ Len(p) = L + 1
      /\ \A i \in 1..L : p[i] = toCoord[i]
  BY Written, ChannelFacts DEF TypeOK
<1>2. PICK x : /\ View(x, roomId, p)
               /\ \A i \in 0..L : x[i] = v[i]
               /\ x[L + 1] = Applied(v[L], m)
  BY <1>1, ViewWrite DEF Viewed
<1> HIDE DEF p
<1>3. toCoord' = Append(p, n)
  BY DEF TellsTwo, p
<1>4. /\ Len(toCoord') = Len(p) + 1
      /\ \A i \in 1..Len(p) : toCoord'[i] = p[i]
  BY <1>1, <1>3, Written
<1>5. PICK w : /\ View(w, roomId, toCoord')
               /\ \A i \in 0..Len(p) : w[i] = x[i]
               /\ w[Len(p) + 1] = Applied(x[Len(p)], n)
  BY <1>1, <1>2, <1>3, ViewWrite
<1>6. Viewed(w)'
  BY <1>5 DEF Viewed
<1> HIDE DEF L
<1>7. Len(toCoord') = L + 2 /\ \A i \in 1..L : toCoord'[i] = toCoord[i]
  BY <1>1, <1>4
<1>8. \A i \in 0..L : w[i] = v[i]
  BY <1>1, <1>2, <1>5
<1>9. w[L + 1] = Applied(v[L], m) /\ w[L + 2] = Applied(w[L + 1], n)
  <2>1. w[L + 1] = x[L + 1] /\ x[Len(p)] = x[L + 1] /\ Len(p) + 1 = L + 2
    BY <1>1, <1>5
  <2>2. QED
    BY <1>2, <1>5, <2>1
<1>10. QED
  BY <1>6, <1>7, <1>8, <1>9 DEF L, Last

\* Replies change nothing of what the coordinator sees.
LEMMA AppliedReply ==
    ASSUME NEW id, NEW u, NEW c, NEW ok
    PROVE  Applied(id, Reply(u, c, ok)) = id
  BY DEF Applied, Reply

\* The worker answers without another room.
LEMMA AnswerView ==
    ASSUME TypeOK, CallInv, NEW v, Viewed(v), Settles(v),
           WorkerInit \/ WorkerStartUnknown \/ WorkerStartNotFound \/ WorkerStartRefused
    PROVE  \E w : Viewed(w)' /\ Settles(w)' /\ (Undisturbed /\ Slotted(v) => Slotted(w)')
<1> DEFINE L == Len(toCoord)
           u == Head(toWorker).user
<1>1. /\ Reads /\ u \in Users /\ job = NoJob
      /\ UNCHANGED <<roomId, slot, router, name, job, pc, failed>>
      /\ sessions' \subseteq sessions \cup {u}
      /\ u \notin sessions /\ u \in sessions' => Head(toWorker).type = "init"
  BY Answering DEF WorkerInit, WorkerStartUnknown, WorkerStartNotFound, WorkerStartRefused, Take,
     coordVars,
     userVars, workerVars
<1>2. PICK c \in Nat, ok \in BOOLEAN : Tells(Reply(u, c, ok))
  BY Answering
<1>3. PICK w : /\ Viewed(w)' /\ Len(toCoord') = L + 1
               /\ toCoord'[L + 1] = Reply(u, c, ok)
               /\ \A i \in 1..L : toCoord'[i] = toCoord[i]
               /\ \A i \in 0..L : w[i] = v[i]
               /\ w[L + 1] = Applied(Last(v), Reply(u, c, ok))
  <2>1. Reply(u, c, ok) \in CoordMsg
    BY <1>1, <1>2, PacketTypes
  <2>2. QED
    BY <1>1, <1>2, <2>1, TellsView
<1>4. failed # "standing" => w[L + 1] = RoutedId /\ Last(v) = RoutedId
  BY <1>1, <1>3, AppliedReply DEF Settles
<1>5. RoutedId' = RoutedId
  BY <1>1 DEF RoutedId
<1>6. Settles(w)'
  BY <1>1, <1>3, <1>4, <1>5 DEF Settles, Last
<1>7. ASSUME Undisturbed, Slotted(v)
      PROVE  Slotted(w)'
  <2>1. u \in sessions' \ sessions =>
            pc[u] = "initWait" /\ None(Tail(toWorker), u)
    <3>1. SUFFICES ASSUME u \in sessions' \ sessions
                   PROVE  pc[u] = "initWait" /\ None(Tail(toWorker), u)
      OBVIOUS
    <3>2. Head(toWorker).type = "init" /\ IsOf(Head(toWorker), u) /\ toWorker # <<>>
             /\ toWorker \in Seq(WorkerMsg)
      BY <1>1, <3>1 DEF IsOf, Reads, TypeOK
    <3>3. OneCall(u)
      BY <1>1, <1>7 DEF CallInv, Undisturbed
    <3>4. Asked(u)
      BY <3>2, <3>3, ReadOf DEF OneCall, Idle, InHand, Answered
    <3>5. QED
      BY <3>2, <3>4, ReadOf DEF Asked
  <2>2. Fewer(1)
    BY <1>1, <2>1, ReadsFewer
  <2>3. JoinInv'
    BY <1>1, <1>7, <2>1 DEF Slotted, JoinInv
  <2>4. Extends(v, w, 1)
    BY <1>3, <1>4, <1>7 DEF Extends, Undisturbed, TypeOK
  <2>5. IsOf(toCoord'[L + 1], u)
    BY <1>3, PacketsOf, <1>1
  <2>6. QED
    BY <1>1, <1>7, <2>2, <2>3, <2>4, <2>5, Extending
<1>8. QED
  BY <1>3, <1>6, <1>7

\* A room that could not be made is told to be gone: it was never seen.
LEMMA FailView ==
    ASSUME TypeOK, AskedInv, NEW v, Viewed(v), Settles(v), WorkerStartFailed
    PROVE  \E w : Viewed(w)' /\ Settles(w)' /\ (Undisturbed /\ Slotted(v) => Slotted(w)')
<1> DEFINE L == Len(toCoord)
           u == Head(toWorker).user
<1>1. /\ Reads /\ u \in Users /\ job = NoJob /\ router = Nil
      /\ UNCHANGED <<roomId, slot, router, name, job, pc, sessions, failed>>
  BY Failing DEF WorkerStartFailed, Take, coordVars, userVars
<1>2. PICK id \in RoomIds \ {NoRoom}, c \in Nat : TellsTwo(Close(id), Reply(u, c, FALSE))
  BY Failing
<1>3. (failed # "standing" => Last(v) = NoRoom) /\ RoutedId = NoRoom /\ RoutedId' = NoRoom
  BY <1>1 DEF Settles, RoutedId
<1>4. PICK w : /\ Viewed(w)' /\ Len(toCoord') = L + 2
               /\ \A i \in 1..L : toCoord'[i] = toCoord[i]
               /\ \A i \in 0..L : w[i] = v[i]
               /\ w[L + 1] = Applied(Last(v), Close(id))
               /\ w[L + 2] = Applied(w[L + 1], Reply(u, c, FALSE))
  <2> DEFINE a == Close(id)
             b == Reply(u, c, FALSE)
  <2>1. a \in CoordMsg /\ b \in CoordMsg /\ TellsTwo(a, b) /\ roomId' = roomId
    BY <1>1, <1>2, PacketTypes
  <2> HIDE DEF a, b
  <2>2. \E w : /\ Viewed(w)' /\ Len(toCoord') = L + 2
               /\ \A i \in 1..L : toCoord'[i] = toCoord[i]
               /\ \A i \in 0..L : w[i] = v[i]
               /\ w[L + 1] = Applied(Last(v), a)
               /\ w[L + 2] = Applied(w[L + 1], b)
    BY <2>1, TellsTwoView
  <2>3. QED
    BY <2>2 DEF a, b
<1>5. failed # "standing" => w[L + 1] = NoRoom /\ w[L + 2] = NoRoom
  <2>1. failed # "standing" => w[L + 1] = NoRoom
    BY <1>3, <1>4 DEF Applied, Close
  <2>2. w[L + 2] = w[L + 1]
    <3>1. w[L + 2] = Applied(w[L + 1], Reply(u, c, FALSE))
      BY <1>4
    <3>2. QED
      BY <3>1 DEF Applied, Reply
  <2>3. QED
    BY <2>1, <2>2
<1>6. Settles(w)'
  BY <1>1, <1>3, <1>4, <1>5 DEF Settles, Last
<1>7. ASSUME Undisturbed, Slotted(v)
      PROVE  Slotted(w)'
  <2>1. Fewer(1)
    BY <1>1, ReadsFewer
  <2>2. JoinInv'
    BY <1>1, <1>7 DEF Slotted, JoinInv
  <2>3. \A i \in (L + 1)..(L + 2) : i = L + 1 \/ i = L + 2
    BY DEF TypeOK
  <2>4. Extends(v, w, 2)
    BY <1>3, <1>4, <1>5, <1>7, <2>3 DEF Extends, Undisturbed
  <2>5. QED
    BY <1>1, <1>7, <2>1, <2>2, <2>4, Extending
<1>8. QED
  BY <1>4, <1>6, <1>7

\* The router's room is registered.
LEMMA RegisterView ==
    ASSUME TypeOK, RoomInv, NEW v, Viewed(v), CommonStart
    PROVE  \E w : Viewed(w)' /\ Settles(w)' /\ (Undisturbed /\ Slotted(v) => Slotted(w)')
<1> DEFINE L == Len(toCoord)
           id == name[router]
           u == job.user
<1>1. /\ u \in Users /\ router # Nil /\ id \in RoomIds \ {NoRoom}
      /\ UNCHANGED <<roomId, slot, router, name, pc, sessions, toWorker>>
  BY Registering DEF CommonStart, coordVars, userVars
<1>2. PICK c \in Nat : TellsTwo(Register(id), Reply(u, c, TRUE))
  BY Registering
<1>3. RoutedId = id /\ RoutedId' = id
  BY <1>1 DEF RoutedId
<1>4. PICK w : /\ Viewed(w)' /\ Len(toCoord') = L + 2
               /\ \A i \in 1..L : toCoord'[i] = toCoord[i]
               /\ \A i \in 0..L : w[i] = v[i]
               /\ w[L + 1] = Applied(Last(v), Register(id))
               /\ w[L + 2] = Applied(w[L + 1], Reply(u, c, TRUE))
  <2> DEFINE a == Register(id)
             b == Reply(u, c, TRUE)
  <2>1. a \in CoordMsg /\ b \in CoordMsg /\ TellsTwo(a, b) /\ roomId' = roomId
    BY <1>1, <1>2, PacketTypes
  <2> HIDE DEF a, b
  <2>2. \E w : /\ Viewed(w)' /\ Len(toCoord') = L + 2
               /\ \A i \in 1..L : toCoord'[i] = toCoord[i]
               /\ \A i \in 0..L : w[i] = v[i]
               /\ w[L + 1] = Applied(Last(v), a)
               /\ w[L + 2] = Applied(w[L + 1], b)
    BY <2>1, TellsTwoView
  <2>3. QED
    BY <2>2 DEF a, b
<1>5. w[L + 1] = id /\ w[L + 2] = id
  <2>1. w[L + 1] = id
    BY <1>4 DEF Applied, Register
  <2>2. w[L + 2] = w[L + 1]
    <3>1. w[L + 2] = Applied(w[L + 1], Reply(u, c, TRUE))
      BY <1>4
    <3>2. QED
      BY <3>1 DEF Applied, Reply
  <2>3. QED
    BY <2>1, <2>2
<1>6. Settles(w)'
  BY <1>3, <1>4, <1>5 DEF Settles, Last
<1>7. ASSUME Slotted(v)
      PROVE  Slotted(w)'
  <2>1. Fewer(0)
    BY <1>1 DEF Fewer, Starts, TypeOK
  <2>2. JoinInv'
    BY <1>1, <1>7 DEF Slotted, JoinInv
  <2>3. \A i \in (L + 1)..(L + 2) : i = L + 1 \/ i = L + 2
    BY DEF TypeOK
  <2>4. Extends(v, w, 2)
    BY <1>1, <1>3, <1>4, <1>5, <2>3 DEF Extends
  <2>5. QED
    BY <1>1, <1>7, <2>1, <2>2, <2>4, Extending
<1>8. QED
  BY <1>4, <1>6, <1>7

\* A step of the worker that tells nothing and keeps the router's room.
LEMMA SilentView ==
    ASSUME TypeOK, NEW v, Viewed(v), Settles(v), NEW d \in {0, 1}, Fewer(d),
           UNCHANGED <<toCoord, roomId, slot, router, pc, failed>>, sessions' \subseteq sessions,
           router # Nil => name'[router] = name[router],
           job' = job \/ job' # NoJob
    PROVE  Viewed(v)' /\ Settles(v)' /\ (Undisturbed /\ Slotted(v) => Slotted(v)')
<1>1. RoutedId' = RoutedId /\ Viewed(v)'
  BY DEF RoutedId, Viewed
<1>2. Settles(v)'
  BY <1>1 DEF Settles, Last
<1>3. ASSUME Slotted(v)
      PROVE  Slotted(v)'
  <2>1. Extends(v, v, 0)
    BY DEF Extends, TypeOK
  <2>2. JoinInv'
    BY <1>3 DEF Slotted, JoinInv
  <2>3. QED
    BY <1>3, <2>1, <2>2, Extending
<1>4. QED
  BY <1>1, <1>2, <1>3

\* A room is made: its StartGame was the only one.
LEMMA NewView ==
    ASSUME TypeOK, NEW v, Viewed(v), Settles(v), WorkerStartNew
    PROVE  Viewed(v)' /\ Settles(v)' /\ (Undisturbed /\ Slotted(v) => Slotted(v)')
<1>1. /\ Reads /\ Starts(Head(toWorker)) /\ job = NoJob /\ router = Nil
      /\ UNCHANGED <<toCoord, roomId, slot, pc, sessions>>
  BY DEF WorkerStartNew, Take, Reads, Starts, coordVars, userVars
<1>2. router' # Nil /\ job' # NoJob
  BY SessionAssumption DEF WorkerStartNew, Unused, NoJob
<1>4. Viewed(v)' /\ Settles(v)'
  BY <1>1, <1>2 DEF Viewed, Settles
<1>5. ASSUME Undisturbed, Slotted(v)
      PROVE  Slotted(v)'
  <2>1. Starts(toWorker[1]) /\ 1 \in 1..Len(toWorker) /\ toWorker \in Seq(WorkerMsg) /\ toWorker # <<>>
    BY <1>1, TakenOff DEF Reads, TypeOK
  <2>2. \A j \in 1..Len(toWorker) : Starts(toWorker[j]) => j = 1
    BY <1>1, <1>5, <2>1 DEF Slotted, FitInv
  <2>3. NoStarts'
    <3>1. SUFFICES ASSUME NEW i \in 1..Len(toWorker'), Starts(toWorker[i])'
                   PROVE  FALSE
      BY DEF NoStarts
    <3>2. toWorker'[i] = toWorker[i + 1] /\ i + 1 \in 1..Len(toWorker) /\ i + 1 # 1
      BY <1>1, <2>1, <3>1, TakenOff DEF Reads
    <3>3. Starts(toWorker[i + 1])
      BY <1>1, <3>1, <3>2 DEF Starts
    <3>4. QED
      BY <2>2, <3>2, <3>3
  <2>4. FitInv'
    BY <2>3 DEF FitInv, NoStarts
  <2>5. \A i : ~Vacant(v, i)
    BY <2>1 DEF Vacant, NoStarts
  <2>6. FreeInv(v)' /\ EndInv(v)'
    BY <1>1, <1>5, <2>5 DEF Slotted, FreeInv, EndInv
  <2>7. SeenInv(v)'
    <3>0. Last(v) = NoRoom /\ RoutedId = NoRoom
      BY <1>1, <1>5 DEF Settles, RoutedId, Undisturbed
    <3>1. \A u \in sessions, i \in 0..Len(toCoord) :
              v[i] # NoRoom => \E j \in (i + 1)..Len(toCoord) : IsOf(toCoord[j], u)
      <4>1. \A i \in 0..Len(toCoord) : i \in i..Len(toCoord)
        BY DEF TypeOK
      <4>2. QED
        BY <1>5, <3>0, <4>1 DEF Slotted, SeenInv, Last
    <3>2. QED
      BY <1>1, <3>1 DEF SeenInv
  <2>8. JoinInv'
    BY <1>1, <1>5 DEF Slotted, JoinInv
  <2>9. QED
    BY <2>4, <2>6, <2>7, <2>8 DEF Slotted
<1>6. QED
  BY <1>4, <1>5

\* The router's room is dropped, and everybody leaves.
LEMMA DropView ==
    ASSUME TypeOK, NEW v, Viewed(v), Settles(v), Dropped, job = NoJob,
           UNCHANGED <<roomId, slot, job, failed>>
    PROVE  \E w : Viewed(w)' /\ Settles(w)' /\ (Undisturbed /\ Slotted(v) => Slotted(w)')
<1> DEFINE L == Len(toCoord)
           id == name[router]
<1>1. /\ router # Nil /\ router' = Nil /\ sessions' = {} /\ id \in RoomIds \ {NoRoom}
      /\ Tells(Close(id)) /\ L \in Nat
  BY DEF Dropped, TypeOK
<1>2. failed # "standing" => Last(v) = id
  BY <1>1 DEF Settles, RoutedId
<1>3. PICK w : /\ Viewed(w)' /\ Len(toCoord') = L + 1
               /\ toCoord'[L + 1] = Close(id)
               /\ \A i \in 1..L : toCoord'[i] = toCoord[i]
               /\ \A i \in 0..L : w[i] = v[i]
               /\ w[L + 1] = Applied(Last(v), Close(id))
  <2>1. Close(id) \in CoordMsg
    BY <1>1, PacketTypes
  <2>2. QED
    BY <1>1, <2>1, TellsView
<1>4. failed # "standing" => w[L + 1] = NoRoom
  BY <1>2, <1>3 DEF Applied, Close
<1>5. Settles(w)'
  BY <1>1, <1>3, <1>4 DEF Settles, Last, RoutedId
<1>6. ASSUME Undisturbed, Slotted(v)
      PROVE  Slotted(w)'
  <2>1. NoStarts' /\ FitInv' /\ JoinInv' /\ SeenInv(w)'
    BY <1>1 DEF NoStarts, FitInv, JoinInv, SeenInv, Starts
  <2>2. \A i : ~Vacant(v, i)
    BY <1>1 DEF Vacant
  <2>3. FreeInv(w)'
    BY <1>6, <2>2 DEF Slotted, FreeInv
  <2>4. EndInv(w)'
    <3>1. SUFFICES ASSUME NEW i \in 1..(L + 1), w[i - 1] # NoRoom, w[i] = NoRoom
                   PROVE  Vacant(w, i)'
      BY <1>3 DEF EndInv
    <3>2. CASE i \in 1..L
      <4>1. i - 1 \in 0..L /\ i \in 0..L
        BY <1>1, <3>2
      <4>2. v[i - 1] # NoRoom /\ v[i] = NoRoom
        BY <1>3, <3>1, <4>1
      <4>3. QED
        BY <1>6, <2>2, <3>2, <4>2 DEF Slotted, EndInv
    <3>3. CASE i = L + 1
      <4>1. \A k \in i..(L + 1) : k = L + 1
        BY <1>1, <3>3
      <4>2. QED
        BY <1>1, <1>3, <1>4, <1>6, <2>1, <4>1 DEF Vacant, Undisturbed
    <3>4. QED
      BY <1>1, <3>1, <3>2, <3>3
  <2>5. QED
    BY <2>1, <2>3, <2>4 DEF Slotted
<1>7. QED
  BY <1>3, <1>5, <1>6

\* A step of the worker that reads a packet, or works without one.
LEMMA WorkerView ==
    ASSUME TypeOK, RoomInv, AskedInv, CallInv, NEW v, Viewed(v), Settles(v), WorkerStep
    PROVE  \E w : Viewed(w)' /\ Settles(w)' /\ (Undisturbed /\ Slotted(v) => Slotted(w)')
<1>1. CASE WorkerInit \/ WorkerStartUnknown \/ WorkerStartNotFound \/ WorkerStartRefused
  BY <1>1, AnswerView
<1>2. CASE WorkerStartFailed
  BY <1>2, FailView
<1>3. CASE CommonStart
  BY <1>3, RegisterView
<1>4. CASE WorkerStartNew
  BY <1>4, NewView
<1>5. ASSUME Reads, UNCHANGED <<toCoord, roomId, slot, router, pc, name, failed>>,
             sessions' \subseteq sessions, job' = job \/ job' # NoJob
      PROVE  \E w : Viewed(w)' /\ Settles(w)' /\ (Undisturbed /\ Slotted(v) => Slotted(w)')
  <2>1. Fewer(1)
    BY <1>5, ReadsFewer
  <2>2. QED
    BY <1>5, <2>1, SilentView
<1>6. CASE WorkerStartJoin
  <2>1. job' # NoJob
    BY <1>6, SessionAssumption DEF WorkerStartJoin, FoundRoom, NoJob
  <2>2. QED
    BY <1>5, <1>6, <2>1 DEF WorkerStartJoin, Take, Reads, coordVars, userVars
<1>7. CASE WorkerQuit \/ WorkerTerminate
  <2>1. job = NoJob /\ UNCHANGED <<roomId, slot, name, job, pc, failed>>
    BY <1>7 DEF WorkerQuit, WorkerTerminate, Take, coordVars, userVars
  <2>2. CASE Dropped
    BY <2>1, <2>2, DropView
  <2>3. CASE UNCHANGED <<router, toCoord>> /\ sessions' \subseteq sessions
    BY <1>5, <1>7, <2>1, <2>3, Dropping
  <2>4. CASE failed = "standing" /\ UNCHANGED toCoord
    BY <2>1, <2>4 DEF Viewed, Settles, Undisturbed
  <2>5. QED
    BY <1>7, <2>2, <2>3, <2>4, Dropping
<1>8. QED
  BY <1>1, <1>2, <1>3, <1>4, <1>6, <1>7 DEF WorkerStep

\* Neither a timeout nor a failed hydration is forgotten.
LEMMA UndisturbedStep ==
    ASSUME TypeOK, Next, Undisturbed'
    PROVE  Undisturbed
<1>1. failed' = "never" => failed = "never"
  BY DEF TypeOK, Next, UserRequest, UserStep, WebrtcInit, SendInit, StartGame, EndGrace, Gate,
     Busy, Adopt, Match, Reserve, NotifyStarted, QuitGame, SendQuit, Disconnect, EndTerminate,
     Timeout, CoordinatorStep, RegisterRoom, CloseRoom, ReceiveReply, WorkerStep, WorkerInit,
     WorkerStartUnknown, WorkerStartNotFound, WorkerStartJoin, WorkerStartRefused,
     WorkerStartNew, WorkerStartFailed, CommonStart, WorkerQuit, WorkerTerminate, HydrationStep,
     HydrateFail, HydrateCheck, HydrateBoot, workerVars
<1>2. QED
  BY <1>1, PunctualStep DEF Undisturbed

LEMMA ViewStep ==
    ASSUME TypeOK, RoomInv, AskedInv, ToldInv, CallInv, ViewInv, Next
    PROVE  ViewInv'
<1>1. PICK v : Viewed(v) /\ Settles(v) /\ (Undisturbed => Slotted(v))
  BY DEF ViewInv
<1>2. Undisturbed' => Undisturbed
  BY UndisturbedStep
<1>3. CASE CoordinatorStep
  BY <1>1, <1>2, <1>3, CoordinatorView DEF ViewInv
<1>4. CASE WorkerStep
  BY <1>1, <1>2, <1>4, WorkerView DEF ViewInv
<1>5. ASSUME UNCHANGED <<toCoord, roomId, router, name, job, failed>>, Undisturbed' => Slotted(v)'
      PROVE  ViewInv'
  <2>1. Viewed(v)' /\ Settles(v)'
    BY <1>1, <1>5 DEF Viewed, Settles, Last, RoutedId
  <2>2. QED
    BY <1>5, <2>1 DEF ViewInv
<1>6. ASSUME NEW u \in Users, UserRequest(u) \/ UserStep(u)
      PROVE  ViewInv'
  <2>1. UNCHANGED <<toCoord, roomId, router, name, job, failed>>
    BY <1>6 DEF UserRequest, UserStep, WebrtcInit, SendInit, StartGame, EndGrace, Gate, Busy,
       Adopt, Match, Reserve, NotifyStarted, QuitGame, SendQuit, Disconnect, EndTerminate,
       coordVars, workerVars
  <2>2. Undisturbed' => Slotted(v)'
    BY <1>1, <1>2, <1>6, UserView DEF Undisturbed
  <2>3. QED
    BY <1>5, <2>1, <2>2
<1>7. ASSUME NEW u \in Users, Timeout(u)
      PROVE  ViewInv'
  BY <1>5, <1>7, PunctualStep DEF Timeout, Undisturbed, coordVars, workerVars
<1>8. ASSUME NEW r \in Rooms, HydrationStep(r)
      PROVE  ViewInv'
  <2>1. UNCHANGED <<toWorker, roomId, slot, sessions, router, name, job, pc>>
    BY <1>8, HydrationTells
  <2>2. CASE UNCHANGED <<toCoord, failed>>
    <3>1. Slotted(v) => Slotted(v)'
      BY <2>1, <2>2 DEF Slotted, FitInv, JoinInv, FreeInv, EndInv, SeenInv, Vacant, NoStarts,
         Starts,
         RoutedId
    <3>2. QED
      BY <1>1, <1>2, <1>5, <2>1, <2>2, <3>1
  <2>3. CASE failed' = "standing" /\ name[r] \in RoomIds /\ Tells(Close(name[r]))
    <3>1. Close(name[r]) \in CoordMsg
      BY <2>3, PacketTypes
    <3>2. PICK w : Viewed(w)'
      BY <1>1, <2>1, <2>3, <3>1, TellsView
    <3>3. QED
      BY <2>3, <3>2 DEF ViewInv, Settles, Undisturbed
  <2>4. QED
    BY <1>8, <2>2, <2>3, HydrationTells
<1>9. QED
  BY <1>3, <1>4, <1>6, <1>7, <1>8 DEF Next

\* The least element of a set of numbers, for proofs by a least counterexample.
LEMMA LeastNatural ==
    ASSUME NEW T, T \subseteq Nat, T # {}
    PROVE  \E x \in T : \A y \in T : x <= y
<1> DEFINE R == OpToRel(<, Nat)
<1>1. IsWellFoundedOn(R, Nat)
  BY NatLessThanWellFounded
<1>2. \A x, y \in Nat : x < y => <<x, y>> \in R
  BY DEF OpToRel
<1> HIDE DEF R
<1>3. PICK x \in T : \A y \in T : ~ (<<y, x>> \in R)
  BY <1>1, WFMin
<1>4. ASSUME NEW y \in T
      PROVE  x <= y
  <2>1. x \in Nat /\ y \in Nat
    OBVIOUS
  <2>2. ~(y < x)
    BY <1>2, <1>3, <2>1
  <2>3. QED
    BY <2>1, <2>2
<1>5. QED
  BY <1>4

\* What no packet changes stays what it is.
LEMMA Steady ==
    ASSUME NEW n \in Nat, NEW v, \A i \in 1..n : v[i] = v[i - 1]
    PROVE  v[n] = v[0]
<1> DEFINE T == {i \in 0..n : v[i] # v[0]}
<1>1. SUFFICES ASSUME T # {}
               PROVE  FALSE
  OBVIOUS
<1>2. PICK x \in T : \A y \in T : x <= y
  <2>1. T \subseteq Nat
    OBVIOUS
  <2>2. QED
    BY <1>1, <2>1, LeastNatural
<1>3. x # 0 /\ x \in 0..n /\ v[x] # v[0]
  OBVIOUS
<1>4. x \in 1..n /\ x - 1 \in 0..n /\ ~(x <= x - 1)
  BY <1>3
<1>5. x - 1 \in T
  BY <1>3, <1>4
<1>6. QED
  BY <1>2, <1>4, <1>5

\* All that is needed of the two channels and the room.
IInv == TypeOK /\ RoomInv /\ AskedInv /\ ToldInv /\ CallInv /\ ViewInv

LEMMA ViewInit == Init => IInv
<1> SUFFICES ASSUME Init
             PROVE  IInv
  OBVIOUS
<1>1. TypeOK
  BY SessionAssumption, ChannelFacts
  DEF Init, TypeOK, RoomIds, NoRequest, Requests, UserStates, Jobs
<1>2. RoomInv /\ AskedInv /\ ToldInv
  BY DEF Init, RoomInv, AskedInv, ToldInv
<1>3. CallInv
  <2>1. SUFFICES ASSUME NEW u \in Users
                 PROVE  Idle(u)
    BY DEF CallInv, OneCall
  <2>2. u # Nil /\ job.user = Nil
    BY SessionAssumption DEF Init, NoJob
  <2>3. toWorker = <<>> /\ toCoord = <<>> /\ pc[u] = "idle"
    BY DEF Init
  <2>4. QED
    BY <2>2, <2>3 DEF Idle, None
<1>4. ViewInv
  <2> DEFINE v == [i \in 0..0 |-> NoRoom]
  <2>1. Viewed(v)
    BY DEF Init, Viewed, View, RoomIds
  <2>2. Settles(v)
    BY DEF Init, Settles, Last, RoutedId
  <2>3. Slotted(v)
    BY DEF Init, Slotted, FitInv, JoinInv, FreeInv, EndInv, SeenInv, Vacant, NoStarts
  <2>4. QED
    BY <2>1, <2>2, <2>3 DEF ViewInv
<1>5. QED
  BY <1>1, <1>2, <1>3, <1>4 DEF IInv

LEMMA Inductive == IInv /\ [Next]_vars => IInv'
<1>1. ASSUME IInv, Next
      PROVE  IInv'
  <2>1. TypeOK'
    BY <1>1, UserTypes, CoordinatorTypes, WorkerTypes, HydrationTypes DEF IInv, Next
  <2>2. QED
    BY <1>1, <2>1, RoomStep, AskedStep, ToldStep, CallStep, ViewStep DEF IInv
<1>2. ASSUME IInv, UNCHANGED vars
      PROVE  IInv'
  <2>1. UNCHANGED <<roomId, slot, pc, rq, timeouts, toWorker, toCoord, sessions, router, name,
                    closed, job, failed>>
    BY <1>2 DEF vars, coordVars, userVars, workerVars
  <2>2. TypeOK'
    BY <1>2 DEF IInv, TypeOK, vars, coordVars, userVars, workerVars
  <2>3. RoomInv' /\ AskedInv' /\ ToldInv'
    BY <1>2, <2>1 DEF IInv, RoomInv, AskedInv, ToldInv
  <2>4. CallInv'
    BY <1>2, <2>1 DEF IInv, CallInv, Punctual, OneCall, Idle, Asked, InHand, Answered
  <2>5. ViewInv'
    BY <1>2, <2>1 DEF IInv, ViewInv, Undisturbed, Punctual, Viewed, Settles, Last, RoutedId,
       Slotted, FitInv,
       JoinInv, FreeInv, EndInv, SeenInv, Vacant, NoStarts, Starts
  <2>6. QED
    BY <2>2, <2>3, <2>4, <2>5 DEF IInv
<1>3. QED
  BY <1>1, <1>2

\* Once the coordinator has read all news of rooms, its RoomId is the room of the
\* worker's router, for any users, calls and timeouts, and any archives that do not
\* unpack: one closes a room that the router keeps, and the two are apart until the
\* worker makes its next room, which brings them together again.
THEOREM ViewAgreesHolds == Spec => []ViewAgrees
<1>1. IInv => ViewAgrees
  <2>1. SUFFICES ASSUME IInv, NoNews, failed # "standing"
                 PROVE  roomId = RoutedId
    BY DEF ViewAgrees
  <2>2. PICK v : Viewed(v) /\ Settles(v)
    BY <2>1 DEF IInv, ViewInv
  <2>3. Last(v) = RoutedId
    BY <2>1, <2>2 DEF Settles, NoNews
  <2>4. \A i \in 1..Len(toCoord) : toCoord[i].type = "reply"
    BY <2>1 DEF NoNews, InFlight, IInv, TypeOK, CoordMsg, RoomMsg, ReplyMsg
  <2>5. \A i \in 1..Len(toCoord) : v[i] = v[i - 1]
    BY <2>2, <2>4 DEF Viewed, View, Applied
  <2>6. Len(toCoord) \in Nat
    BY <2>1 DEF IInv, TypeOK
  <2>7. v[Len(toCoord)] = v[0]
    BY <2>5, <2>6, Steady
  <2>8. QED
    BY <2>2, <2>3, <2>7 DEF Last, Viewed, View
<1>2. QED
  BY <1>1, ViewInit, Inductive, PTL DEF Spec

\* A room the coordinator knows of holds the worker's slot, until an RPC times
\* out or an archive does not unpack: no user is let through as if the worker
\* were free.
THEOREM SlotHeldHolds == Spec => []SlotHeld
<1>1. IInv => SlotHeld
  <2>1. SUFFICES ASSUME IInv, Undisturbed, roomId # NoRoom
                 PROVE  slot = 1
    BY DEF SlotHeld
  <2>2. PICK v : Viewed(v) /\ FreeInv(v)
    BY <2>1 DEF IInv, ViewInv, Slotted
  <2>3. v[0] = roomId /\ 0 \in 0..Len(toCoord)
    BY <2>1, <2>2 DEF Viewed, View, IInv, TypeOK
  <2>4. slot # 0
    BY <2>1, <2>2, <2>3 DEF FreeInv, Vacant
  <2>5. QED
    BY <2>1, <2>4 DEF IInv, TypeOK
<1>2. QED
  BY <1>1, ViewInit, Inductive, PTL DEF Spec

\* A StartGame of a user whom the worker knows joins the room that is there, or
\* makes the only one, until an RPC times out or an archive does not unpack: the
\* refusal of a concurrent room creation is never taken.
THEOREM NoConcurrentCreationHolds == Spec => []NoConcurrentCreation
<1>1. IInv => NoConcurrentCreation
  <2>1. SUFFICES ASSUME IInv, Undisturbed, toWorker # <<>>, Head(toWorker).type = "start",
                        Head(toWorker).user \in sessions, router # Nil,
                        ~FoundRoom(Head(toWorker))
                 PROVE  FALSE
    BY DEF NoConcurrentCreation
  <2>2. FitInv
    BY <2>1 DEF IInv, ViewInv, Slotted
  <2>3. 1 \in 1..Len(toWorker) /\ toWorker[1] = Head(toWorker)
    BY <2>1 DEF IInv, TypeOK
  <2>4. Starts(toWorker[1])
    BY <2>1, <2>3 DEF Starts
  <2>5. QED
    BY <2>1, <2>2, <2>3, <2>4 DEF FitInv, FoundRoom
<1>2. QED
  BY <1>1, ViewInit, Inductive, PTL DEF Spec
-----------------------------------------------------------------------------
(***************************************************************************)
(* What the emulator runs.                                                 *)
(***************************************************************************)

\* A room that is unpacked, one that runs though the router has left it or it is
\* closed, and a closed one that the router keeps, are rooms of archived games.
StrayInv ==
    /\ \A r \in Rooms : hydration[r] # "none" => name[r] \in Archived
    /\ playing # Nil /\ (playing # router \/ playing \in closed) => name[playing] \in Archived
    /\ router # Nil /\ router \in closed => name[router] \in Archived

LEMMA StrayWorker ==
    ASSUME TypeOK, StrayInv, WorkerStep
    PROVE  StrayInv'
<1>1. CASE WorkerInit \/ WorkerStartUnknown \/ WorkerStartNotFound \/ WorkerStartJoin
           \/ WorkerStartRefused \/ CommonStart
  BY <1>1 DEF StrayInv, WorkerInit, WorkerStartUnknown, WorkerStartJoin, WorkerStartNotFound,
     WorkerStartRefused,
     CommonStart, workerVars
<1>2. CASE WorkerStartFailed
  BY <1>2 DEF StrayInv, WorkerStartFailed
<1>3. CASE WorkerQuit
  <2>1. UNCHANGED <<hydration, name>>
    BY <1>3 DEF WorkerQuit
  <2>2. CASE UNCHANGED <<router, closed, playing>>
    BY <2>1, <2>2 DEF StrayInv
  <2>3. CASE CloseObject(router) /\ router' = Nil
    BY <2>1, <2>3 DEF StrayInv, CloseObject, Closing
  <2>4. QED
    BY <1>3, <2>2, <2>3 DEF WorkerQuit
<1>4. CASE WorkerTerminate
  <2>1. UNCHANGED <<hydration, name>>
    BY <1>4 DEF WorkerTerminate
  <2>2. CASE UNCHANGED <<router, closed, playing>>
    BY <2>1, <2>2 DEF StrayInv
  <2>3. CASE CloseObject(router) /\ router' = Nil
    BY <2>1, <2>3 DEF StrayInv, CloseObject, Closing
  <2>4. QED
    BY <1>4, <2>2, <2>3 DEF WorkerTerminate
<1>5. CASE WorkerStartNew
  <2>1. PICK r \in Unused :
          /\ router = Nil /\ router' = r /\ closed' = closed \ {r}
          /\ name' = [name EXCEPT ![r] = NewRoomId(Head(toWorker))]
          /\ IF NewRoomId(Head(toWorker)) \in Archived
             THEN hydration' = [hydration EXCEPT ![r] = "resolving"] /\ UNCHANGED playing
             ELSE Boot(r) /\ UNCHANGED hydration
    BY <1>5 DEF WorkerStartNew
  <2>2. /\ r \in Rooms /\ r # Nil /\ r # playing /\ hydration[r] = "none"
        /\ Nil \notin Rooms
    BY <2>1, SessionAssumption DEF Unused
  <2>3. /\ name \in [Rooms -> RoomIds] /\ hydration \in [Rooms -> {"none", "resolving", "checked"}]
        /\ playing \in Rooms \cup {Nil}
    BY DEF TypeOK
  <2>4. name'[r] = NewRoomId(Head(toWorker)) /\ \A s \in Rooms : s # r => name'[s] = name[s]
    BY <2>1, <2>2, <2>3
  <2>5. \A s \in Rooms : hydration'[s] # "none" => name'[s] \in Archived
    <3>1. \A s \in Rooms : s # r => hydration'[s] = hydration[s]
      BY <2>1, <2>2, <2>3
    <3>2. hydration'[r] # "none" => NewRoomId(Head(toWorker)) \in Archived
      BY <2>1, <2>2
    <3>3. QED
      BY <2>4, <3>1, <3>2 DEF StrayInv
  <2>6. playing' \in {playing, r}
    BY <2>1 DEF Boot
  <2>7. playing' # Nil /\ (playing' # router' \/ playing' \in closed') => name'[playing'] \in Archived
    <3>1. CASE playing' = r
      BY <2>1, <3>1
    <3>2. CASE playing' = playing /\ playing # Nil
      <4>1. playing # router /\ name'[playing] = name[playing]
        BY <2>1, <2>2, <2>3, <2>4, <3>2
      <4>2. QED
        BY <3>2, <4>1 DEF StrayInv
    <3>3. QED
      BY <2>6, <3>1, <3>2
  <2>8. router' \notin closed'
    BY <2>1
  <2>9. QED
    BY <2>5, <2>7, <2>8 DEF StrayInv
<1>6. QED
  BY <1>1, <1>2, <1>3, <1>4, <1>5 DEF WorkerStep

LEMMA StrayHydration ==
    ASSUME TypeOK, StrayInv, NEW r \in Rooms, HydrationStep(r)
    PROVE  StrayInv'
<1>1. /\ hydration[r] # "none" /\ name[r] \in Archived /\ name' = name /\ router' = router
      /\ \A s \in Rooms : hydration'[s] # "none" => hydration[s] # "none"
  <2>1. hydration[r] # "none" /\ name' = name /\ router' = router
    BY DEF HydrationStep, HydrateFail, HydrateCheck, HydrateBoot
  <2>2. \E p \in {"none", "checked"} : hydration' = [hydration EXCEPT ![r] = p]
    BY DEF HydrationStep, HydrateFail, HydrateCheck, HydrateBoot
  <2>3. QED
    BY <2>1, <2>2 DEF StrayInv, TypeOK
<1>2. CASE HydrateFail(r)
  <2>1. CloseObject(r)
    BY <1>2 DEF HydrateFail
  <2>2. QED
    BY <1>1, <2>1 DEF StrayInv, CloseObject, Closing
<1>3. CASE HydrateCheck(r)
  BY <1>1, <1>3 DEF StrayInv, HydrateCheck
<1>4. CASE HydrateBoot(r)
  <2>1. closed' = closed /\ playing' \in {playing, r}
    BY <1>4 DEF HydrateBoot, Boot
  <2>2. QED
    BY <1>1, <2>1 DEF StrayInv
<1>5. QED
  BY <1>2, <1>3, <1>4 DEF HydrationStep

\* A game that runs outside of the router's room was hydrated, whatever fails and
\* times out: one that needs no unpacking runs, and stops, with its room.
THEOREM StrayWasHydratedHolds == Spec => []StrayWasHydrated
<1>1. Init => StrayInv
  BY DEF Init, StrayInv
<1>2. TypeOK /\ StrayInv /\ [Next]_vars => StrayInv'
  <2> SUFFICES ASSUME TypeOK, StrayInv, [Next]_vars
               PROVE  StrayInv'
    OBVIOUS
  <2>1. CASE UNCHANGED workerVars
    BY <2>1 DEF StrayInv, workerVars
  <2>2. CASE WorkerStep
    BY <2>2, StrayWorker
  <2>3. ASSUME NEW r \in Rooms, HydrationStep(r)
        PROVE  StrayInv'
    BY <2>3, StrayHydration
  <2>4. CASE CoordinatorStep
    BY <2>1, <2>4 DEF CoordinatorStep, RegisterRoom, CloseRoom, ReceiveReply
  <2>5. ASSUME NEW u \in Users, UserRequest(u) \/ UserStep(u) \/ Timeout(u)
        PROVE  StrayInv'
    BY <2>1, <2>5 DEF UserRequest, UserStep, WebrtcInit, SendInit, StartGame, EndGrace, Gate, Busy,
       Adopt, Match, Reserve, NotifyStarted, QuitGame, SendQuit, Disconnect, EndTerminate, Timeout
  <2>6. CASE UNCHANGED vars
    BY <2>1, <2>6 DEF vars
  <2>7. QED
    BY <2>2, <2>3, <2>4, <2>5, <2>6 DEF Next
<1>3. StrayInv => StrayWasHydrated
  BY DEF StrayInv, StrayWasHydrated
<1>4. QED
  BY <1>1, <1>2, <1>3, TypeCorrect, PTL DEF Spec
-----------------------------------------------------------------------------
(***************************************************************************)
(* A user who waits is being answered.                                     *)
(***************************************************************************)
\* A channel carries a packet until it is read.
LEMMA CarriesOn ==
    ASSUME NEW M, NEW q \in Seq(M), NEW s \in Seq(M), NEW t, NEW u, NEW c
    PROVE  /\ Carries(q, t, u, c) => Carries(q \o s, t, u, c)
           /\ Carries(s, t, u, c) => Carries(q \o s, t, u, c)
<1>1. /\ \A i \in 1..Len(q) : i \in 1..Len(q \o s) /\ (q \o s)[i] = q[i]
      /\ \A i \in 1..Len(s) : Len(q) + i \in 1..Len(q \o s) /\ (q \o s)[Len(q) + i] = s[i]
  OBVIOUS
<1>2. DOMAIN q = 1..Len(q) /\ DOMAIN s = 1..Len(s) /\ DOMAIN (q \o s) = 1..Len(q \o s)
  OBVIOUS
<1>3. QED
  BY <1>1, <1>2 DEF Carries

LEMMA CarriesUntilRead ==
    ASSUME NEW M, NEW q \in Seq(M), q # <<>>, NEW t, NEW u, NEW c, Carries(q, t, u, c)
    PROVE  \/ Head(q).type = t /\ Head(q).user = u /\ Head(q).call = c
           \/ Carries(Tail(q), t, u, c)
<1>1. PICK i \in 1..Len(q) : q[i].type = t /\ q[i].user = u /\ q[i].call = c
  BY DEF Carries
<1>2. CASE i = 1
  BY <1>1, <1>2, TakenOff
<1>3. CASE i # 1
  <2>1. i - 1 \in 1..Len(Tail(q)) /\ Tail(q)[i - 1] = q[i]
    BY <1>3
  <2>2. DOMAIN Tail(q) = 1..Len(Tail(q))
    OBVIOUS
  <2>3. QED
    BY <1>1, <2>1, <2>2 DEF Carries
<1>4. QED
  BY <1>2, <1>3

\* What is sent last is carried.
LEMMA CarriesReply ==
    ASSUME TypeOK, NEW u \in Users, NEW c \in Nat, NEW ok \in BOOLEAN, NEW m \in CoordMsg,
           Send(<<Reply(u, c, ok)>>) \/ Send(<<m, Reply(u, c, ok)>>)
    PROVE  Carries(toCoord', "reply", u, c)
<1> DEFINE r == Reply(u, c, ok)
<1>1. r \in CoordMsg /\ r.type = "reply" /\ r.user = u /\ r.call = c
  BY PacketTypes DEF Reply
<1>2. toCoord \in Seq(CoordMsg)
  BY DEF TypeOK
<1> HIDE DEF r
<1>3. Carries(<<r>>, "reply", u, c) /\ <<r>> \in Seq(CoordMsg)
  BY <1>1 DEF Carries
<1>4. Carries(<<m, r>>, "reply", u, c) /\ <<m, r>> \in Seq(CoordMsg)
  <2>1. 2 \in DOMAIN <<m, r>> /\ <<m, r>>[2] = r
    OBVIOUS
  <2>2. QED
    BY <1>1, <2>1 DEF Carries
<1>5. toCoord' = toCoord \o <<r>> \/ toCoord' = toCoord \o <<m, r>>
  BY DEF Send, r
<1>6. QED
  BY <1>2, <1>3, <1>4, <1>5, CarriesOn

\* A packet that is sent to the worker.
LEMMA CarriesCall ==
    ASSUME TypeOK, NEW m \in WorkerMsg, toWorker' = Append(toWorker, m), NEW t, NEW u, NEW c
    PROVE  /\ Carries(toWorker, t, u, c) => Carries(toWorker', t, u, c)
           /\ m.type = t /\ m.user = u /\ m.call = c => Carries(toWorker', t, u, c)
<1>1. toWorker \in Seq(WorkerMsg) /\ <<m>> \in Seq(WorkerMsg)
  BY DEF TypeOK
<1>2. toWorker' = toWorker \o <<m>>
  BY <1>1
<1>3. m.type = t /\ m.user = u /\ m.call = c => Carries(<<m>>, t, u, c)
  BY DEF Carries
<1>4. QED
  BY <1>1, <1>2, <1>3, CarriesOn

\* What one user waits for.
Underway(u) ==
    /\ pc[u] = "initWait" => \/ Carries(toWorker, "init", u, calls[u])
                           \/ Carries(toCoord, "reply", u, calls[u])
    /\ pc[u] = "wait" => \/ Carries(toWorker, "start", u, calls[u])
                       \/ (job.user = u /\ job.call = calls[u])
                       \/ Carries(toCoord, "reply", u, calls[u])

\* The step of another user, or one that leaves the channels alone.
LEMMA UnderwayKept ==
    ASSUME NEW u \in Users, Underway(u),
           pc'[u] = pc[u] \/ pc'[u] \notin {"initWait", "wait"}, calls'[u] = calls[u],
           \A t : Carries(toWorker, t, u, calls[u]) => Carries(toWorker', t, u, calls[u]),
           Carries(toCoord, "reply", u, calls[u]) => Carries(toCoord', "reply", u, calls[u]),
           job' = job
    PROVE  Underway(u)'
  BY DEF Underway

LEMMA UnderwayUser ==
    ASSUME TypeOK, NEW u \in Users, NEW w \in Users, Underway(u),
           UserRequest(w) \/ UserStep(w) \/ Timeout(w)
    PROVE  Underway(u)'
<1>1. UNCHANGED <<toCoord, job>>
  BY DEF UserRequest, UserStep, WebrtcInit, SendInit, StartGame, EndGrace, Gate, Busy, Adopt,
     Match, Reserve, NotifyStarted, QuitGame, SendQuit, Disconnect, EndTerminate, Timeout,
     workerVars
<1>2. CASE UNCHANGED <<toWorker, calls>>
  <2>1. pc'[u] = pc[u] \/ pc'[u] \notin {"initWait", "wait"}
    BY <1>2 DEF UserRequest, UserStep, WebrtcInit, SendInit, StartGame, EndGrace, Gate, Busy,
       Adopt, Match, Reserve, NotifyStarted, QuitGame, SendQuit, Disconnect, EndTerminate,
       Timeout, Request,
       Call, Goto, TypeOK
  <2>2. QED
    BY <1>1, <1>2, <2>1, UnderwayKept
<1>3. CASE Disconnect(w)
  <2>1. [type |-> "terminate", user |-> w] \in WorkerMsg
    BY PacketTypes
  <2>2. \A t : Carries(toWorker, t, u, calls[u]) => Carries(toWorker', t, u, calls[u])
    BY <1>3, <2>1, CarriesCall DEF Disconnect
  <2>3. UNCHANGED <<pc, calls>>
    BY <1>3 DEF Disconnect
  <2>4. QED
    BY <1>1, <2>2, <2>3, UnderwayKept
<1>4. ASSUME NEW from, NEW wait, NEW m \in WorkerMsg, Call(w, from, wait, m),
             /\ wait = "initWait" => m.type = "init"
             /\ wait = "wait" => m.type = "start"
             /\ wait \in {"initWait", "wait"} => m.user = w /\ m.call = calls[w] + 1
      PROVE  Underway(u)'
  <2>1. /\ toWorker' = Append(toWorker, m) /\ pc' = [pc EXCEPT ![w] = wait]
        /\ calls' = [calls EXCEPT ![w] = @ + 1]
    BY <1>4 DEF Call, Goto
  <2>2. CASE u # w
    <3>1. pc'[u] = pc[u] /\ calls'[u] = calls[u]
      BY <2>1, <2>2 DEF TypeOK
    <3>2. \A t : Carries(toWorker, t, u, calls[u]) => Carries(toWorker', t, u, calls[u])
      BY <1>4, <2>1, CarriesCall
    <3>3. QED
      BY <1>1, <3>1, <3>2, UnderwayKept
  <2>3. CASE u = w
    <3>1. pc'[u] = wait /\ calls'[u] = calls[u] + 1
      BY <2>1, <2>3 DEF TypeOK
    <3>2. wait \in {"initWait", "wait"} => Carries(toWorker', m.type, u, calls'[u])
      BY <1>4, <2>1, <2>3, <3>1, CarriesCall
    <3>3. QED
      BY <1>4, <3>1, <3>2 DEF Underway
  <2>4. QED
    BY <2>2, <2>3
<1>5. calls[w] + 1 \in Nat /\ roomId \in RoomIds /\ rq[w] \in Requests
  BY DEF TypeOK
<1>6. CASE SendInit(w)
  <2> DEFINE m == [type |-> "init", user |-> w, call |-> calls[w] + 1]
  <2>1. Call(w, "init", "initWait", m)
    BY <1>6 DEF SendInit
  <2>2. m \in WorkerMsg /\ m.type = "init" /\ m.user = w /\ m.call = calls[w] + 1
    BY <1>5, PacketTypes
  <2> HIDE DEF m
  <2>3. QED
    BY <1>4, <2>1, <2>2
<1>7. ASSUME NEW from, NEW rid \in RoomIds, Call(w, from, "wait", StartRequest(w, rid))
      PROVE  Underway(u)'
  <2> DEFINE m == StartRequest(w, rid)
  <2>1. m \in WorkerMsg
    BY <1>5, PacketTypes DEF StartRequest, Requests
  <2>2. m.type = "start" /\ m.user = w /\ m.call = calls[w] + 1
    BY DEF StartRequest
  <2> HIDE DEF m
  <2>3. Call(w, from, "wait", m)
    BY <1>7 DEF m
  <2>4. QED
    BY <1>4, <2>1, <2>2, <2>3
<1>8. rq[w].rid \in RoomIds
  BY <1>5 DEF Requests
<1>9. CASE Adopt(w) \/ Match(w) \/ Reserve(w)
  BY <1>2, <1>5, <1>7, <1>8, <1>9 DEF Adopt, Match, Reserve
<1>10. CASE SendQuit(w)
  <2> DEFINE m == [type |-> "quit", rid |-> roomId]
  <2>1. Call(w, "quit", "idle", m)
    BY <1>10 DEF SendQuit
  <2>2. m \in WorkerMsg
    BY <1>5, PacketTypes
  <2> HIDE DEF m
  <2>3. QED
    BY <1>4, <2>1, <2>2
<1>11. QED
  BY <1>2, <1>3, <1>6, <1>9, <1>10 DEF UserRequest, UserStep, WebrtcInit, StartGame, EndGrace,
     Gate, Busy, NotifyStarted, QuitGame, Timeout, EndTerminate

\* An answer that reaches the call it is of ends the wait; any other changes nothing.
LEMMA UnderwayCoordinator ==
    ASSUME TypeOK, NEW u \in Users, Underway(u), CoordinatorStep
    PROVE  Underway(u)'
<1>1. toCoord # <<>> /\ toCoord' = Tail(toCoord) /\ UNCHANGED <<toWorker, job, calls>>
  BY DEF CoordinatorStep, RegisterRoom, CloseRoom, ReceiveReply, Receive, userVars, workerVars
<1>2. toCoord \in Seq(CoordMsg)
  BY DEF TypeOK
<1> DEFINE m == Head(toCoord)
           Mine == m.type = "reply" /\ m.user = u /\ m.call = calls[u]
<1>3. Carries(toCoord, "reply", u, calls[u]) => Mine \/ Carries(toCoord', "reply", u, calls[u])
  BY <1>1, <1>2, CarriesUntilRead
<1>4. pc'[u] = pc[u] \/ pc'[u] \notin {"initWait", "wait"}
  BY DEF CoordinatorStep, RegisterRoom, CloseRoom, ReceiveReply, InitReply, StartReply, userVars,
     TypeOK
<1>5. CASE ~Mine
  BY <1>1, <1>3, <1>4, <1>5, UnderwayKept
<1>6. CASE Mine /\ pc[u] \in {"initWait", "wait"}
  <2>1. Waiting(m.user, m.call) /\ m.type = "reply"
    BY <1>6 DEF Waiting
  <2>2. ReceiveReply
    BY <2>1 DEF CoordinatorStep, RegisterRoom, CloseRoom, Receive
  <2>3. InitReply(u) \/ StartReply(u, m.ok)
    BY <1>6, <2>1, <2>2 DEF ReceiveReply
  <2>4. pc'[u] \notin {"initWait", "wait"}
    BY <2>3 DEF InitReply, StartReply, TypeOK
  <2>5. QED
    BY <2>4 DEF Underway
<1>7. CASE pc[u] \notin {"initWait", "wait"}
  <2>1. pc'[u] \notin {"initWait", "wait"}
    BY <1>4, <1>7
  <2>2. QED
    BY <2>1 DEF Underway
<1>8. QED
  BY <1>5, <1>6, <1>7

\* The worker hands a request on, from its channel to its job to its answer.
LEMMA UnderwayWorker ==
    ASSUME TypeOK, NEW u \in Users, Underway(u), WorkerStep
    PROVE  Underway(u)'
<1>1. UNCHANGED <<pc, calls>>
  BY DEF WorkerStep, WorkerInit, WorkerStartUnknown, WorkerStartJoin, WorkerStartNotFound,
     WorkerStartRefused,
     WorkerStartNew, WorkerStartFailed, CommonStart, WorkerQuit, WorkerTerminate, userVars
<1>2. toWorker \in Seq(WorkerMsg) /\ toCoord \in Seq(CoordMsg) /\ calls[u] \in Nat
  BY DEF TypeOK
<1>3. \A s \in Seq(CoordMsg) : Send(s) =>
        (Carries(toCoord, "reply", u, calls[u]) => Carries(toCoord', "reply", u, calls[u]))
  BY <1>2, CarriesOn DEF Send
<1>4. ASSUME NEW m \in CoordMsg, NEW n \in CoordMsg, Send(<<n>>) \/ Send(<<m, n>>),
              Carries(toCoord, "reply", u, calls[u])
       PROVE  Carries(toCoord', "reply", u, calls[u])
  <2>1. <<n>> \in Seq(CoordMsg) /\ <<m, n>> \in Seq(CoordMsg)
    OBVIOUS
  <2>2. QED
    BY <1>3, <1>4, <2>1
<1> DEFINE h == Head(toWorker)
           Mine(t) == h.type = t /\ h.user = u /\ h.call = calls[u]
<1>5. Reads => \A t : Carries(toWorker, t, u, calls[u]) =>
                        Mine(t) \/ Carries(toWorker', t, u, calls[u])
  BY <1>2, CarriesUntilRead DEF Reads
<1>6. Reads => h \in WorkerMsg
  BY <1>2, ChannelFacts DEF Reads
<1>7. ASSUME Reads, job = NoJob, job' = job, h.type \in {"init", "start"},
             NEW m \in CoordMsg, NEW ok \in BOOLEAN,
             Send(<<Reply(h.user, h.call, ok)>>) \/ Send(<<m, Reply(h.user, h.call, ok)>>)
      PROVE  Underway(u)'
  <2>1. h.user \in Users /\ h.call \in Nat
    BY <1>6, <1>7, PacketFields
  <2>2. Carries(toCoord', "reply", h.user, h.call)
    BY <1>7, <2>1, CarriesReply
  <2>3. Carries(toCoord, "reply", u, calls[u]) => Carries(toCoord', "reply", u, calls[u])
    <3> DEFINE n == Reply(h.user, h.call, ok)
    <3>1. n \in CoordMsg
      BY <2>1, PacketTypes
    <3> HIDE DEF n
    <3>2. Send(<<n>>) \/ Send(<<m, n>>)
      BY <1>7 DEF n
    <3>3. QED
      BY <1>7, <1>4, <3>1, <3>2
  <2>4. CASE Mine("init") \/ Mine("start")
    BY <1>1, <2>2, <2>4 DEF Underway
  <2>5. CASE ~Mine("init") /\ ~Mine("start")
    BY <1>1, <1>5, <1>7, <2>3, <2>5 DEF Underway
  <2>6. QED
    BY <2>4, <2>5
<1>8. CASE WorkerInit \/ WorkerStartUnknown \/ WorkerStartNotFound \/ WorkerStartRefused
           \/ WorkerStartFailed
  <2>1. Reads /\ job = NoJob /\ job' = job /\ h.type \in {"init", "start"}
    BY <1>8 DEF WorkerInit, WorkerStartUnknown, WorkerStartNotFound, WorkerStartRefused,
       WorkerStartFailed, Take,
       Reads, workerVars
  <2>2. Close(NoRoom) \in CoordMsg
    BY PacketTypes DEF RoomIds
  <2>3. CASE WorkerStartFailed
    <3>1. Send(<<Close(NewRoomId(h)), Reply(h.user, h.call, FALSE)>>)
      BY <2>3 DEF WorkerStartFailed
    <3>2. NewRoomId(h) \in RoomIds
      BY <1>6, <2>1, <2>3, PacketFields DEF NewRoomId, WorkerStartFailed, Take
    <3>3. Close(NewRoomId(h)) \in CoordMsg
      BY <3>2, PacketTypes
    <3>4. QED
      BY <1>7, <2>1, <3>1, <3>3
  <2>4. CASE WorkerInit \/ WorkerStartUnknown \/ WorkerStartNotFound \/ WorkerStartRefused
    <3>1. PICK ok \in BOOLEAN : Send(<<Reply(h.user, h.call, ok)>>)
      BY <2>4 DEF WorkerInit, WorkerStartUnknown, WorkerStartNotFound, WorkerStartRefused, Refuse
    <3>2. QED
      BY <1>7, <2>1, <2>2, <3>1
  <2>5. QED
    BY <1>8, <2>3, <2>4
<1>9. CASE WorkerStartJoin \/ WorkerStartNew
  <2>1. /\ Reads /\ h.type = "start" /\ job = NoJob /\ toCoord' = toCoord
        /\ job'.user = h.user /\ job'.call = h.call
    BY <1>9 DEF WorkerStartJoin, WorkerStartNew, Take, Reads
  <2>2. job.user # u
    BY <2>1, SessionAssumption DEF NoJob
  <2>3. ~Mine("init")
    BY <2>1
  <2>4. QED
    BY <1>1, <1>5, <2>1, <2>2, <2>3 DEF Underway
<1>10. CASE CommonStart
  <2>1. /\ job \in Jobs /\ job # NoJob /\ toWorker' = toWorker
        /\ Send(<<Register(name[job.room]), Reply(job.user, job.call, TRUE)>>)
    BY <1>10 DEF CommonStart, TypeOK
  <2>2. job.user \in Users /\ job.call \in Nat /\ name[job.room] \in RoomIds
    BY <2>1 DEF Jobs, TypeOK
  <2>3. Register(name[job.room]) \in CoordMsg /\ Reply(job.user, job.call, TRUE) \in CoordMsg
    BY <2>2, PacketTypes
  <2>4. Carries(toCoord', "reply", job.user, job.call)
    BY <2>1, <2>2, <2>3, CarriesReply
  <2>5. Carries(toCoord, "reply", u, calls[u]) => Carries(toCoord', "reply", u, calls[u])
    <3> DEFINE m == Register(name[job.room])
               n == Reply(job.user, job.call, TRUE)
    <3>1. m \in CoordMsg /\ n \in CoordMsg /\ Send(<<m, n>>)
      BY <2>1, <2>3
    <3> HIDE DEF m, n
    <3>2. QED
      BY <1>4, <3>1
  <2>6. QED
    BY <1>1, <2>1, <2>4, <2>5 DEF Underway
<1>11. CASE WorkerQuit \/ WorkerTerminate
  <2>1. Reads /\ h.type \in {"quit", "terminate"} /\ job' = job
    BY <1>11 DEF WorkerQuit, WorkerTerminate, Take, Reads
  <2>2. toCoord' = toCoord \/ Send(CloseMsgs(router))
    BY <1>11 DEF WorkerQuit, WorkerTerminate
  <2>3. CloseMsgs(router) \in Seq(CoordMsg)
    <3>1. router # Nil => name[router] \in RoomIds
      BY DEF TypeOK
    <3>2. router # Nil => Close(name[router]) \in CoordMsg
      BY <3>1, PacketTypes
    <3>3. QED
      BY <3>2 DEF CloseMsgs, Closing
  <2>4. Carries(toCoord, "reply", u, calls[u]) => Carries(toCoord', "reply", u, calls[u])
    BY <1>3, <2>2, <2>3
  <2>5. \A t : t \in {"init", "start"} =>
            (Carries(toWorker, t, u, calls[u]) => Carries(toWorker', t, u, calls[u]))
    BY <1>5, <2>1
  <2>6. QED
    BY <1>1, <2>1, <2>4, <2>5 DEF Underway
<1>12. QED
  BY <1>8, <1>9, <1>10, <1>11 DEF WorkerStep

LEMMA UnderwayHydration ==
    ASSUME TypeOK, NEW u \in Users, Underway(u), NEW r \in Rooms, HydrationStep(r)
    PROVE  Underway(u)'
<1>1. UNCHANGED <<pc, calls, toWorker, job>>
  BY DEF HydrationStep, HydrateFail, HydrateCheck, HydrateBoot, userVars
<1>2. toCoord' = toCoord \/ Send(CloseMsgs(r))
  BY DEF HydrationStep, HydrateFail, HydrateCheck, HydrateBoot
<1>3. toCoord \in Seq(CoordMsg) /\ CloseMsgs(r) \in Seq(CoordMsg)
  <2>1. Close(name[r]) \in CoordMsg
    BY PacketTypes DEF TypeOK
  <2>2. QED
    BY <2>1 DEF CloseMsgs, TypeOK
<1>4. Carries(toCoord, "reply", u, calls[u]) => Carries(toCoord', "reply", u, calls[u])
  BY <1>2, <1>3, CarriesOn DEF Send
<1>5. QED
  BY <1>1, <1>4, UnderwayKept

\* Whoever waits in RPC.Call is being answered: the request that is waited for, by its
\* number and kind, is on its way, in hand or answered, also after timeouts, failed
\* launches and failed hydrations, and for users who left.
THEOREM AnswerUnderwayHolds == Spec => []AnswerUnderway
<1>1. AnswerUnderway <=> \A u \in Users : Underway(u)
  BY DEF AnswerUnderway, Underway
<1>2. Init => AnswerUnderway
  BY DEF Init, AnswerUnderway
<1>3. TypeOK /\ AnswerUnderway /\ [Next]_vars => AnswerUnderway'
  <2> SUFFICES ASSUME TypeOK, AnswerUnderway, [Next]_vars, NEW u \in Users
               PROVE  Underway(u)'
    BY DEF AnswerUnderway, Underway
  <2>1. Underway(u)
    BY <1>1
  <2>2. CASE UNCHANGED vars
    BY <2>1, <2>2 DEF Underway, Carries, vars, coordVars, userVars, workerVars
  <2>3. CASE Next
    BY <2>1, <2>3, UnderwayUser, UnderwayCoordinator, UnderwayWorker, UnderwayHydration DEF Next
  <2>4. QED
    BY <2>2, <2>3
<1>4. QED
  BY <1>2, <1>3, TypeCorrect, PTL DEF Spec
=============================================================================
