------------------------------- MODULE Session -------------------------------
(***************************************************************************)
(* The life of a game room between the coordinator and one worker.         *)
(*                                                                         *)
(* The coordinator keeps, for each worker, the room it believes the worker *)
(* runs (roomId) and the worker's single game slot (slot).  Each user's    *)
(* requests run one after the other on the reader goroutine of that user's *)
(* websocket; the worker's packets run on the reader goroutine of the      *)
(* worker's websocket.  The two write the same fields without a lock.      *)
(*                                                                         *)
(* The worker handles the coordinator's packets one after the other, and   *)
(* starts a goroutine of its own for every archived game it has to unpack  *)
(* (hydrate) before it can boot it.  The emulator is a process-wide        *)
(* singleton: booting it and closing it are shared by all room objects.    *)
(*                                                                         *)
(* Modelled: the native-process backends (xemu, flycast).  A room id is    *)
(* the name of its game (coordinatorhandlers.go: uid = gameName).          *)
(***************************************************************************)
EXTENDS Naturals, Sequences

CONSTANTS
    Users,        \* the users linked to this worker
    Games,        \* the games of the worker's library
    Archived,     \* the games that must be hydrated before they can start
    Unreadable,   \* the archived games whose hydration may fail
    Rooms,        \* the room objects the worker's heap can hold at once
    NoRoom,       \* the empty room id
    Nil,          \* the nil room pointer
    MaxCalls,     \* bound: the requests each user sends to the worker
    MaxTimeouts   \* bound: the RPCs that may time out

ASSUME SessionAssumption ==
    /\ Archived \subseteq Games
    /\ Unreadable \subseteq Archived
    /\ NoRoom \notin Games
    /\ Nil \notin Rooms \cup Users
    /\ MaxCalls \in Nat
    /\ MaxTimeouts \in Nat

VARIABLES
    roomId,       \* coordinator: Worker.RoomId
    slot,         \* coordinator: Worker.slotted, 0 is free
    connected,    \* coordinator: the users whose websocket is up
    pc,           \* coordinator: where each user's reader goroutine is
    rq,           \* coordinator: the request that goroutine works on
    calls,        \* coordinator: the number of the user's latest request
    timeouts,     \* the RPCs that timed out so far
    leaving,      \* coordinator: the users whose session is being terminated
    toWorker,     \* the websocket, coordinator to worker
    toCoord,      \* the websocket, worker to coordinator
    sessions,     \* worker: Router.users
    router,       \* worker: Router.room
    name,         \* worker: Room.id of each room object
    closed,       \* worker: the room objects with Room.closed set
    job,          \* worker: the StartGame request past its room creation
    hydration,    \* worker: where each room's hydration goroutine is
    playing,      \* worker: the room whose game the emulator runs
    failed        \* history: an archive of the router's room did not unpack

coordVars  == <<roomId, slot>>
userVars   == <<connected, pc, rq, calls, timeouts, leaving>>
workerVars == <<sessions, router, name, closed, job, hydration, playing, failed>>
vars == <<coordVars, userVars, toWorker, toCoord, workerVars>>

RoomIds == Games \cup {NoRoom}
NoRequest == [game |-> NoRoom, rid |-> NoRoom]
NoJob == [user |-> Nil, call |-> 0, room |-> Nil]

Requests == [game: RoomIds, rid: RoomIds]
Jobs == [user: Users, call: Nat, room: Rooms] \cup {NoJob}

InitMsg      == [type: {"init"}, user: Users, call: Nat]
StartMsg     == [type: {"start"}, user: Users, call: Nat, game: RoomIds, rid: RoomIds]
QuitMsg      == [type: {"quit"}, rid: RoomIds]
TerminateMsg == [type: {"terminate"}, user: Users]
WorkerMsg == InitMsg \cup StartMsg \cup QuitMsg \cup TerminateMsg

RoomMsg  == [type: {"register", "close"}, room: RoomIds]
ReplyMsg == [type: {"reply"}, user: Users, call: Nat, ok: BOOLEAN]
CoordMsg == RoomMsg \cup ReplyMsg

Register(id) == [type |-> "register", room |-> id]
Close(id)    == [type |-> "close", room |-> id]
Reply(u, c, ok) == [type |-> "reply", user |-> u, call |-> c, ok |-> ok]

UserStates == {"idle", "init", "initWait", "grace", "gate", "busy", "adopt",
               "match", "reserve", "wait", "notify", "quit"}

Init ==
    /\ roomId = NoRoom
    /\ slot = 0
    /\ connected = Users
    /\ pc = [u \in Users |-> "idle"]
    /\ rq = [u \in Users |-> NoRequest]
    /\ calls = [u \in Users |-> 0]
    /\ timeouts = 0
    /\ leaving = {}
    /\ toWorker = <<>>
    /\ toCoord = <<>>
    /\ sessions = {}
    /\ router = Nil
    /\ name = [r \in Rooms |-> NoRoom]
    /\ closed = {}
    /\ job = NoJob
    /\ hydration = [r \in Rooms |-> "none"]
    /\ playing = Nil
    /\ failed = "never"
-----------------------------------------------------------------------------
(***************************************************************************)
(* The coordinator: a user's requests.                                     *)
(***************************************************************************)

Goto(u, from, to) ==
    /\ pc[u] = from
    /\ pc' = [pc EXCEPT ![u] = to]

\* A request is read while the user's websocket is up.
Request(u, to) ==
    /\ u \in connected
    /\ Goto(u, "idle", to)

\* A packet for the worker; the reader goroutine then waits for the reply of a
\* blocking call (RPC.Call), or is done with a notification.
Call(u, from, wait, msg) ==
    /\ Goto(u, from, wait)
    /\ calls' = [calls EXCEPT ![u] = @ + 1]
    /\ toWorker' = Append(toWorker, msg)

\* HandleWebrtcInit begins: the user asks for a WebRTC offer.
WebrtcInit(u) ==
    /\ calls[u] < MaxCalls
    /\ Request(u, "init")
    /\ UNCHANGED <<coordVars, connected, rq, calls, timeouts, leaving,
                   toWorker, toCoord, workerVars>>

\* u.w.WebrtcInit: the RPC leaves for the worker.
SendInit(u) ==
    /\ Call(u, "init", "initWait", [type |-> "init", user |-> u, call |-> calls[u] + 1])
    /\ UNCHANGED <<coordVars, connected, rq, timeouts, leaving,
                   toCoord, workerVars>>

\* HandleStartGame begins; a new game waits for the slot of the previous one.
StartGame(u, game, rid) ==
    /\ calls[u] < MaxCalls
    /\ Request(u, IF rid = NoRoom /\ slot # 0 THEN "grace" ELSE "gate")
    /\ rq' = [rq EXCEPT ![u] = [game |-> game, rid |-> rid]]
    /\ UNCHANGED <<coordVars, connected, calls, timeouts, leaving,
                   toWorker, toCoord, workerVars>>

\* The grace period ends: the slot was seen free, or three seconds went by.
EndGrace(u) ==
    /\ Goto(u, "grace", "gate")
    /\ UNCHANGED <<coordVars, connected, rq, calls, timeouts, leaving,
                   toWorker, toCoord, workerVars>>

\* busy := !u.w.HasSlot()
Gate(u) ==
    /\ Goto(u, "gate", IF slot = 0 THEN "reserve" ELSE "busy")
    /\ UNCHANGED <<coordVars, connected, rq, calls, timeouts, leaving,
                   toWorker, toCoord, workerVars>>

\* The request, a local of its handler, is not read once the packet for the worker
\* is written or the user is told that there is no slot.
Drop(u) == rq' = [rq EXCEPT ![u] = NoRequest]

\* The worker is busy: refuse while it has no room, else join it.
Busy(u) ==
    /\ \/ roomId = NoRoom /\ Goto(u, "busy", "idle") /\ Drop(u)
       \/ /\ roomId # NoRoom
          /\ Goto(u, "busy", IF rq[u].rid = NoRoom THEN "adopt" ELSE "match")
          /\ UNCHANGED rq
    /\ UNCHANGED <<coordVars, connected, calls, timeouts, leaving,
                   toWorker, toCoord, workerVars>>

StartRequest(u, rid) ==
    [type |-> "start", user |-> u, call |-> calls[u] + 1, game |-> rq[u].game, rid |-> rid]

\* rq.RoomId = u.w.RoomId, read again after the check.
Adopt(u) ==
    /\ Call(u, "adopt", "wait", StartRequest(u, roomId))
    /\ Drop(u)
    /\ UNCHANGED <<coordVars, connected, timeouts, leaving,
                   toCoord, workerVars>>

\* rq.RoomId is compared with u.w.RoomId, read again after the check.
Match(u) ==
    /\ \/ /\ rq[u].rid = roomId
          /\ Call(u, "match", "wait", StartRequest(u, rq[u].rid))
       \/ /\ rq[u].rid # roomId
          /\ Goto(u, "match", "idle")
          /\ UNCHANGED <<calls, toWorker>>
    /\ Drop(u)
    /\ UNCHANGED <<coordVars, connected, timeouts, leaving,
                   toCoord, workerVars>>

\* Mutants of TryReserve: an increment for the compare-and-swap; no write at all.
TryReserveAdds == slot' = slot + 1
TryReserveReads == slot = 0 /\ UNCHANGED slot

\* A compare-and-swap of the slot from 0 to 1.
TryReserve == slot = 0 /\ slot' = 1

\* The slot is reserved for the new room, unless another user was faster.
Reserve(u) ==
    /\ \/ /\ TryReserve
          /\ Call(u, "reserve", "wait", StartRequest(u, rq[u].rid))
       \/ /\ slot # 0
          /\ Goto(u, "reserve", "idle")
          /\ UNCHANGED <<slot, calls, toWorker>>
    /\ Drop(u)
    /\ UNCHANGED <<roomId, connected, timeouts, leaving,
                   toCoord, workerVars>>

\* u.StartGame: the user is told the room id, read again from the worker.
NotifyStarted(u) ==
    /\ Goto(u, "notify", "idle")
    /\ UNCHANGED <<coordVars, connected, rq, calls, timeouts, leaving,
                   toWorker, toCoord, workerVars>>

\* HandleQuitGame: the user names the room it leaves ...
QuitGame(u, rid) ==
    /\ calls[u] < MaxCalls
    /\ rid = roomId
    /\ Request(u, "quit")
    /\ UNCHANGED <<coordVars, connected, rq, calls, timeouts, leaving,
                   toWorker, toCoord, workerVars>>

\* ... and the notification carries u.w.RoomId, read again.
SendQuit(u) ==
    /\ Call(u, "quit", "idle", [type |-> "quit", rid |-> roomId])
    /\ UNCHANGED <<coordVars, connected, rq, timeouts, leaving,
                   toCoord, workerVars>>

\* The websocket of the user ends, whatever its reader goroutine is doing;
\* User.Disconnect then asks the worker to drop the user's session, in a blocking
\* call of the goroutine that served the connection.
Disconnect(u) ==
    /\ u \in connected
    /\ connected' = connected \ {u}
    /\ leaving' = leaving \cup {u}
    /\ toWorker' = Append(toWorker, [type |-> "terminate", user |-> u])
    /\ UNCHANGED <<coordVars, pc, rq, calls, timeouts, toCoord, workerVars>>

\* That call ends with its timeout alone: the worker drops the session and
\* answers nothing, so this one is not counted among the timeouts that may happen.
EndTerminate(u) ==
    /\ u \in leaving
    /\ leaving' = leaving \ {u}
    /\ UNCHANGED <<coordVars, connected, pc, rq, calls, timeouts,
                   toWorker, toCoord, workerVars>>

\* RPC.Call gives up after its timeout; a late reply finds nobody waiting.
Timeout(u) ==
    /\ timeouts < MaxTimeouts
    /\ timeouts' = timeouts + 1
    /\ \/ Goto(u, "initWait", "idle")
       \/ Goto(u, "wait", "idle")
    /\ UNCHANGED <<coordVars, connected, rq, calls, leaving,
                   toWorker, toCoord, workerVars>>
-----------------------------------------------------------------------------
(***************************************************************************)
(* The coordinator: the worker's packets, in the order they were written.  *)
(***************************************************************************)

Receive(type) ==
    /\ toCoord # <<>>
    /\ Head(toCoord).type = type
    /\ toCoord' = Tail(toCoord)

\* Worker.HandleRegisterRoom
RegisterRoom ==
    /\ Receive("register")
    /\ roomId' = Head(toCoord).room
    /\ UNCHANGED <<slot, userVars, toWorker, workerVars>>

\* Worker.HandleCloseRoom
CloseRoom ==
    /\ Receive("close")
    /\ IF Head(toCoord).room = roomId
       THEN roomId' = NoRoom /\ slot' = 0
       ELSE UNCHANGED coordVars
    /\ UNCHANGED <<userVars, toWorker, workerVars>>

\* A reply reaches the call it answers if that call is still waiting.
Waiting(u, c) == pc[u] \in {"initWait", "wait"} /\ calls[u] = c

InitReply(u) ==
    /\ pc[u] = "initWait"
    /\ pc' = [pc EXCEPT ![u] = "idle"]

\* A reply without a room leaves HandleStartGame at once.
StartReply(u, ok) ==
    /\ pc[u] = "wait"
    /\ pc' = [pc EXCEPT ![u] = IF ok THEN "notify" ELSE "idle"]

ReceiveReply ==
    /\ Receive("reply")
    /\ LET m == Head(toCoord)
       IN  IF Waiting(m.user, m.call)
           THEN InitReply(m.user) \/ StartReply(m.user, m.ok)
           ELSE UNCHANGED pc
    /\ UNCHANGED <<coordVars, connected, rq, calls, timeouts, leaving, toWorker,
                   workerVars>>
-----------------------------------------------------------------------------
(***************************************************************************)
(* The worker: the coordinator's packets, one after the other.             *)
(***************************************************************************)

\* The worker reads its next packet once it is done with the previous one.
Take(type) ==
    /\ job = NoJob
    /\ toWorker # <<>>
    /\ Head(toWorker).type = type
    /\ toWorker' = Tail(toWorker)

Send(msgs) == toCoord' = toCoord \o msgs

\* Room.Close: once per room, it stops the shared emulator and tells the
\* coordinator (HandleClose).  The nil room is closed too, to no effect.
Closing(r) == r # Nil /\ r \notin closed

\* Mutants of closing a room: nobody is told; the room is not marked closed;
\* the emulator is left running.
CloseSilently(r) == <<>>
CloseForgets(r) == closed' = closed /\ playing' = IF Closing(r) THEN Nil ELSE playing
CloseKeepsPlaying(r) == closed' = closed \cup ({r} \ {Nil}) /\ playing' = playing

CloseMsgs(r) == IF Closing(r) THEN <<Close(name[r])>> ELSE <<>>
CloseObject(r) ==
    /\ closed' = IF Closing(r) THEN closed \cup {r} ELSE closed
    /\ playing' = IF Closing(r) THEN Nil ELSE playing

\* Mutant of Refuse: the handler returns without a packet.
RefuseSilently(m) == Send(<<>>)

\* EmptyPacket: the reply without a payload.
Refuse(m) == Send(<<Reply(m.user, m.call, FALSE)>>)

\* HandleWebrtcInit: a new peer, or a failure to make one.
WorkerInit ==
    /\ Take("init")
    /\ LET m == Head(toWorker)
       IN  \/ /\ sessions' = sessions \cup {m.user}
              /\ Send(<<Reply(m.user, m.call, TRUE)>>)
           \/ /\ UNCHANGED sessions
              /\ Refuse(m)
    /\ UNCHANGED <<coordVars, userVars, router, name, closed, job, hydration, playing,
                   failed>>

RoutedId == IF router = Nil THEN NoRoom ELSE name[router]
NewRoomId(m) == IF m.rid = NoRoom THEN m.game ELSE m.rid
FoundRoom(m) == router # Nil /\ name[router] = m.rid

\* Room objects nothing refers to any more.
Unused == {r \in Rooms : r \notin {router, playing, job.room} /\ hydration[r] = "none"}

\* HandleGameStart without a session: EmptyPacket.
WorkerStartUnknown ==
    /\ Take("start")
    /\ Head(toWorker).user \notin sessions
    /\ Refuse(Head(toWorker))
    /\ UNCHANGED <<coordVars, userVars, workerVars>>

\* HandleGameStart for a game the worker's library has not, or no longer: EmptyPacket,
\* before any room is looked at, made or closed.
WorkerStartNotFound ==
    /\ Take("start")
    /\ Head(toWorker).user \in sessions
    /\ Refuse(Head(toWorker))
    /\ UNCHANGED <<coordVars, userVars, workerVars>>

\* HandleGameStart for the room that runs: a join.
WorkerStartJoin ==
    /\ Take("start")
    /\ LET m == Head(toWorker)
       IN  /\ m.user \in sessions
           /\ FoundRoom(m)
           /\ job' = [user |-> m.user, call |-> m.call, room |-> router]
    /\ UNCHANGED <<coordVars, userVars, toCoord, sessions, router, name, closed,
                   hydration, playing, failed>>

\* HandleGameStart while another room runs: "concurrent room creation".
WorkerStartRefused ==
    /\ Take("start")
    /\ LET m == Head(toWorker)
       IN  /\ m.user \in sessions
           /\ router # Nil
           /\ ~FoundRoom(m)
           /\ Refuse(m)
    /\ UNCHANGED <<coordVars, userVars, workerVars>>

\* SetDvd and StartApp: the emulator mounts the game unless it already runs.
Boot(r) == playing' = IF playing = Nil THEN r ELSE playing

\* HandleGameStart for a new room: SetRoom, then the backend.
WorkerStartNew ==
    /\ Take("start")
    /\ router = Nil
    /\ LET m == Head(toWorker) IN
        /\ m.user \in sessions
        /\ \E r \in Unused :
            /\ name' = [name EXCEPT ![r] = NewRoomId(m)]
            /\ router' = r
            /\ closed' = closed \ {r}
            /\ job' = [user |-> m.user, call |-> m.call, room |-> r]
            /\ IF NewRoomId(m) \in Archived
               THEN /\ hydration' = [hydration EXCEPT ![r] = "resolving"]
                    /\ UNCHANGED playing
               ELSE Boot(r) /\ UNCHANGED hydration
    /\ failed' = IF failed = "standing" THEN "past" ELSE failed
    /\ UNCHANGED <<coordVars, userVars, toCoord, sessions>>

\* HandleGameStart for a new room whose backend is not there, or whose media
\* pipe fails: the room is closed, and with it the backend it was given, and
\* dropped.  The request gets EmptyPacket.
WorkerStartFailed ==
    /\ Take("start")
    /\ router = Nil
    /\ LET m == Head(toWorker) IN
        /\ m.user \in sessions
        /\ Send(<<Close(NewRoomId(m)), Reply(m.user, m.call, FALSE)>>)
    /\ playing' \in {playing, Nil}
    /\ UNCHANGED <<coordVars, userVars, sessions, router, name, closed, job, hydration,
                   failed>>

\* commonStart: RegisterRoom and the reply, for new rooms and joins alike.
CommonStart ==
    /\ job # NoJob
    /\ Send(<<Register(name[job.room]), Reply(job.user, job.call, TRUE)>>)
    /\ job' = NoJob
    /\ UNCHANGED <<coordVars, userVars, toWorker, sessions, router, name, closed,
                   hydration, playing, failed>>

\* HandleQuitGame: Router.Reset when the named room runs.
WorkerQuit ==
    /\ Take("quit")
    /\ IF router # Nil /\ Head(toWorker).rid = name[router]
       THEN /\ Send(CloseMsgs(router))
            /\ CloseObject(router)
            /\ router' = Nil
            /\ sessions' = {}
       ELSE UNCHANGED <<toCoord, closed, playing, router, sessions>>
    /\ UNCHANGED <<coordVars, userVars, name, job, hydration, failed>>

\* HandleTerminateSession: Router.Remove; the last user closes the room.
WorkerTerminate ==
    /\ Take("terminate")
    /\ LET u == Head(toWorker).user IN
        /\ sessions' = sessions \ {u}
        /\ IF sessions = {u}
           THEN Send(CloseMsgs(router)) /\ CloseObject(router) /\ router' = Nil
           ELSE UNCHANGED <<toCoord, closed, playing, router>>
    /\ UNCHANGED <<coordVars, userVars, name, job, hydration, failed>>
-----------------------------------------------------------------------------
(***************************************************************************)
(* The worker: the hydration goroutine of an archived game's room.         *)
(***************************************************************************)

\* Resolve failed: the room is closed; the router keeps it.  (failed remembers that
\* such a room was open, and stands until the worker makes another room.)
HydrateFail(r) ==
    /\ hydration[r] = "resolving"
    /\ name[r] \in Unreadable
    /\ hydration' = [hydration EXCEPT ![r] = "none"]
    /\ Send(CloseMsgs(r))
    /\ CloseObject(r)
    /\ failed' = IF Closing(r) THEN "standing" ELSE failed
    /\ UNCHANGED <<coordVars, userVars, toWorker, sessions, router, name, job>>

\* Resolve succeeded: the launch is abandoned if the room is not active.
HydrateCheck(r) ==
    /\ hydration[r] = "resolving"
    /\ hydration' = [hydration EXCEPT ![r] = IF router = r THEN "checked" ELSE "none"]
    /\ UNCHANGED <<coordVars, userVars, toWorker, toCoord, sessions, router, name,
                   closed, job, playing, failed>>

\* SetDvd and StartApp, after the check.
HydrateBoot(r) ==
    /\ hydration[r] = "checked"
    /\ hydration' = [hydration EXCEPT ![r] = "none"]
    /\ Boot(r)
    /\ UNCHANGED <<coordVars, userVars, toWorker, toCoord, sessions, router, name,
                   closed, job, failed>>
-----------------------------------------------------------------------------
\* What a user's reader goroutine does by itself.
UserStep(u) ==
    SendInit(u) \/ EndGrace(u) \/ Gate(u) \/ Busy(u) \/ Adopt(u) \/ Match(u)
        \/ Reserve(u) \/ NotifyStarted(u) \/ SendQuit(u)

\* What the user does, and the end of the call its leaving began.
UserRequest(u) ==
    \/ WebrtcInit(u)
    \/ \E game \in Games, rid \in RoomIds : StartGame(u, game, rid)
    \/ \E rid \in RoomIds : QuitGame(u, rid)
    \/ Disconnect(u)
    \/ EndTerminate(u)

CoordinatorStep == RegisterRoom \/ CloseRoom \/ ReceiveReply

WorkerStep ==
    WorkerInit \/ WorkerStartUnknown \/ WorkerStartNotFound \/ WorkerStartJoin
        \/ WorkerStartRefused \/ WorkerStartNew \/ WorkerStartFailed \/ CommonStart
        \/ WorkerQuit \/ WorkerTerminate

HydrationStep(r) == HydrateFail(r) \/ HydrateCheck(r) \/ HydrateBoot(r)

Next ==
    \/ \E u \in Users : UserRequest(u) \/ UserStep(u) \/ Timeout(u)
    \/ CoordinatorStep
    \/ WorkerStep
    \/ \E r \in Rooms : HydrationStep(r)

Spec == Init /\ [][Next]_vars

\* Goroutines that can run do run; users, and timeouts, owe nothing.
FairSpec ==
    /\ Spec
    /\ \A u \in Users : WF_vars(UserStep(u))
    /\ WF_vars(CoordinatorStep)
    /\ WF_vars(WorkerStep)
    /\ \A r \in Rooms : WF_vars(HydrationStep(r))
-----------------------------------------------------------------------------
TypeOK ==
    /\ roomId \in RoomIds
    /\ slot \in {0, 1}
    /\ connected \subseteq Users
    /\ pc \in [Users -> UserStates]
    /\ rq \in [Users -> Requests]
    /\ calls \in [Users -> Nat]
    /\ timeouts \in Nat
    /\ leaving \subseteq Users
    /\ toWorker \in Seq(WorkerMsg)
    /\ toCoord \in Seq(CoordMsg)
    /\ sessions \subseteq Users
    /\ router \in Rooms \cup {Nil}
    /\ name \in [Rooms -> RoomIds]
    /\ closed \subseteq Rooms
    /\ job \in Jobs
    /\ hydration \in [Rooms -> {"none", "resolving", "checked"}]
    /\ playing \in Rooms \cup {Nil}
    /\ failed \in {"never", "standing", "past"}
-----------------------------------------------------------------------------
(***************************************************************************)
(* What the coordinator knows of the worker.                               *)
(***************************************************************************)

InFlight(type) == \E i \in DOMAIN toCoord : toCoord[i].type = type
NoNews == ~InFlight("register") /\ ~InFlight("close") /\ job = NoJob

\* Once no RegisterRoom or CloseRoom is on its way, the coordinator's RoomId
\* is the room the worker's router holds: joins, failed launches, quits and
\* abandoned users never leave the two apart (HandleRegisterRoom and
\* HandleCloseRoom against HandleGameStart, Router.Reset, Router.Remove).  An
\* archive that does not unpack does: its room is closed but stays in the router,
\* and the two are apart until the worker makes its next room, which repairs the
\* view whatever was joined or left in between.
ViewAgrees == NoNews /\ failed # "standing" => roomId = RoutedId

\* No RPC has timed out yet: a user then has one request with the worker at
\* most.
Punctual == timeouts = 0

\* No RPC has timed out and no room was closed by an archive that did not unpack.
Undisturbed == Punctual /\ failed = "never"

\* As long as no RPC timed out and every archive unpacked, a room the coordinator
\* knows of holds the slot: no user is let through the "worker is free" branch of
\* HandleStartGame while a room is registered.  A late WebrtcInit breaks it: its
\* user's next StartGame can join a room that is closed before it, and make that
\* room again without the slot.  A failed hydration breaks it: a join of the closed
\* room that is still in the router registers it after its CloseRoom freed the slot.
SlotHeld == Undisturbed /\ roomId # NoRoom => slot = 1

\* "deny any new StartGame to avoid racing concurrent room creation on the
\* worker" (HandleStartGame): as long as no RPC timed out and every archive
\* unpacked, no StartGame reaches the worker for a new room while another room is
\* there, so its refusal is never taken.  After a failed hydration it is: the slot
\* is free and the router still holds the room.
NoConcurrentCreation ==
    Undisturbed =>
    ~ /\ job = NoJob
      /\ toWorker # <<>>
      /\ Head(toWorker).type = "start"
      /\ Head(toWorker).user \in sessions
      /\ router # Nil
      /\ ~FoundRoom(Head(toWorker))

\* Nothing is on its way and nobody is inside a request.
Quiet ==
    /\ toWorker = <<>> /\ toCoord = <<>> /\ job = NoJob
    /\ \A u \in Users : pc[u] = "idle"

\* HasSlot "returns true in case if there are no players in the room": a
\* quiet worker without a room has its slot free.
SlotFreed == Quiet /\ router = Nil => slot = 0

\* CloseRoom "will remove that room from its list": once the room object of
\* the router is closed and its packets are read, the coordinator forgot it.
ClosedForgotten == Quiet /\ router \in closed => roomId # name[router]
-----------------------------------------------------------------------------
(***************************************************************************)
(* The worker's rooms, sessions and emulator.                              *)
(***************************************************************************)

\* At most one room object is open, and it is the router's: every way out of
\* the router (Reset, Remove, a failed start) closes the room it drops.
OneOpenRoom == \A r \in Rooms : name[r] # NoRoom /\ r \notin closed => r = router

\* The emulator singleton runs the game of the active room: "we must NOT call
\* SetDvd ... it would clobber whatever game is actually active".
EmulatorRunsRoom == playing # Nil => playing = router

\* A game that runs outside of the router's room was hydrated: a game that needs
\* no unpacking runs, and stops, with its room.
StrayWasHydrated == playing # Nil /\ playing # router => name[playing] \in Archived

\* TerminateSession "handles cases when a user has been disconnected": the
\* worker keeps no session of a user who left, or is about to drop it.
NoGhost ==
    \A u \in sessions \ connected :
        \E i \in DOMAIN toWorker : toWorker[i].type = "terminate" /\ toWorker[i].user = u

\* A packet of the user's request c, or its answer.
Carries(q, type, u, c) ==
    \E i \in DOMAIN q : q[i].type = type /\ q[i].user = u /\ q[i].call = c

\* A reader goroutine that waits in RPC.Call is never forgotten: its request, of the
\* number and the kind it waits for, is on its way to the worker or in its hands, or
\* the answer is on its way back; whatever timed out, was refused, failed or left.
AnswerUnderway ==
    \A u \in Users :
        /\ pc[u] = "initWait" => \/ Carries(toWorker, "init", u, calls[u])
                               \/ Carries(toCoord, "reply", u, calls[u])
        /\ pc[u] = "wait" => \/ Carries(toWorker, "start", u, calls[u])
                           \/ (job.user = u /\ job.call = calls[u])
                           \/ Carries(toCoord, "reply", u, calls[u])

\* Every request of a user comes to its end without the RPC timeout: the
\* worker answers each WebrtcInit and StartGame, whatever else goes on.  (The call
\* of a user who left, TerminateSession, is the one that never is: leaving.)
RequestsEnd == \A u \in Users : pc[u] # "idle" ~> pc[u] = "idle"
=============================================================================
