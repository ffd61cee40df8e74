--------------------------------- MODULE Hub ---------------------------------
(***************************************************************************)
(* The coordinator's hub: which worker each user is linked to while        *)
(* workers and users come and go.                                          *)
(*                                                                         *)
(* Every connection has a handler goroutine, which puts it into the hub's  *)
(* tables and takes it out, and a reader goroutine, which runs the         *)
(* requests of a user.  The link of a user, User.w, is written by its own  *)
(* handler, by its own reader, and by the handler of the linked worker,    *)
(* without a lock.  A request through a nil link ends the process.         *)
(*                                                                         *)
(* A worker that reconnects has a new id and is another member of Workers. *)
(* The user's client sends requests once it got InitSession.               *)
(***************************************************************************)
EXTENDS Naturals

CONSTANTS
    Workers,
    Users,
    Games,        \* the games, whose names are the rooms' ids
    NoRoom,
    Nil,
    MaxRequests   \* bound: the requests of each user

ASSUME HubAssumption ==
    /\ Nil \notin Workers
    /\ NoRoom \notin Games
    /\ MaxRequests \in Nat

VARIABLES
    wstate,     \* where the handler of each worker is
    roomId,     \* Worker.RoomId
    slot,       \* Worker.slotted
    starting,   \* the game each worker was asked to start last, if any
    sessions,   \* the users each worker keeps a session for
    ustate,     \* where the handler of each user is
    found,      \* the worker the user's handler found
    link,       \* User.w
    users,      \* Hub.users
    rq,         \* where the reader of each user is
    requests,   \* the number of requests of each user
    process,    \* the coordinator: running, or dead of a panic
    cut         \* history: the users cut off by a failed write during a request

workerVars == <<wstate, roomId, slot, starting, sessions>>
userVars == <<ustate, found, users>>
requestVars == <<rq, requests>>
vars == <<workerVars, userVars, link, requestVars, process, cut>>

RoomIds == Games \cup {NoRoom}

WorkerStates == {"away", "up", "lost", "detached", "freed", "gone"}
Searches == {"byId", "byRoom", "previous", "free", "active", "joinActive", "any"}
UserStates == {"away", "found", "add", "served", "leaving", "gone"} \cup Searches
RequestStates == {"idle", "init", "start", "useInit", "gate", "reserve", "send",
                  "notify", "quit"}

Init ==
    /\ wstate = [w \in Workers |-> "away"]
    /\ roomId = [w \in Workers |-> NoRoom]
    /\ slot = [w \in Workers |-> 0]
    /\ starting = [w \in Workers |-> NoRoom]
    /\ sessions = [w \in Workers |-> {}]
    /\ ustate = [u \in Users |-> "away"]
    /\ found = [u \in Users |-> Nil]
    /\ link = [u \in Users |-> Nil]
    /\ users = {}
    /\ rq = [u \in Users |-> "idle"]
    /\ requests = [u \in Users |-> 0]
    /\ process = "running"
    /\ cut = {}

Running == process = "running"
-----------------------------------------------------------------------------
(***************************************************************************)
(* Workers: handleWorkerConnection and the packets of a worker.            *)
(***************************************************************************)

\* Hub.workers: a worker is listed until the end of RemoveDisconnect.
Listed == {w \in Workers : wstate[w] \in {"up", "lost", "detached", "freed"}}
Available == {w \in Listed : slot[w] = 0}
Active == {w \in Listed : roomId[w] # NoRoom}

Handler(w, from, to) ==
    /\ Running
    /\ wstate[w] = from
    /\ wstate' = [wstate EXCEPT ![w] = to]

\* h.workers.Add(worker)
WorkerAdd(w) ==
    /\ Handler(w, "away", "up")
    /\ UNCHANGED <<roomId, slot, starting, sessions, userVars, link, requestVars, process, cut>>

\* The worker crashes, or its connection ends: done is closed.
WorkerLost(w) ==
    /\ Handler(w, "up", "lost")
    /\ sessions' = [sessions EXCEPT ![w] = {}]
    /\ UNCHANGED <<roomId, slot, starting, userVars, link, requestVars, process, cut>>

\* Mutant of Linked: all users are detached.
AllUsers(w) == users

Linked(w) == {u \in users : link[u] = w}

\* DetachWorkerUsers: under the read lock of Hub.users.
DetachWorkerUsers(w) ==
    /\ Handler(w, "lost", "detached")
    /\ link' = [u \in Users |-> IF u \in Linked(w) THEN Nil ELSE link[u]]
    /\ UNCHANGED <<roomId, slot, starting, sessions, userVars, requestVars, process, cut>>

\* RemoveDisconnect: first Worker.Disconnect ...
WorkerDisconnect(w) ==
    /\ Handler(w, "detached", "freed")
    /\ roomId' = [roomId EXCEPT ![w] = NoRoom]
    /\ slot' = [slot EXCEPT ![w] = 0]
    /\ UNCHANGED <<starting, sessions, userVars, link, requestVars, process, cut>>

\* ... and then the removal from Hub.workers.
WorkerRemove(w) ==
    /\ Handler(w, "freed", "gone")
    /\ UNCHANGED <<roomId, slot, starting, sessions, userVars, link, requestVars, process, cut>>

\* HandleRegisterRoom, for the game the worker was asked to start.
RegisterRoom(w) ==
    /\ Running
    /\ wstate[w] = "up"
    /\ starting[w] # NoRoom
    /\ roomId' = [roomId EXCEPT ![w] = starting[w]]
    /\ starting' = [starting EXCEPT ![w] = NoRoom]
    /\ UNCHANGED <<wstate, slot, sessions, userVars, link, requestVars, process, cut>>

\* The worker refuses or fails the start: no packet of it frees the slot.
StartRefused(w) ==
    /\ Running
    /\ starting[w] # NoRoom
    /\ starting' = [starting EXCEPT ![w] = NoRoom]
    /\ UNCHANGED <<wstate, roomId, slot, sessions, userVars, link, requestVars, process, cut>>

\* HandleCloseRoom, for the room of the worker, whose sessions are dropped when
\* a user quit the game, and kept when a start failed late.
CloseRoom(w) ==
    /\ Running
    /\ wstate[w] = "up"
    /\ roomId[w] # NoRoom
    /\ starting[w] = NoRoom
    /\ roomId' = [roomId EXCEPT ![w] = NoRoom]
    /\ slot' = [slot EXCEPT ![w] = 0]
    /\ sessions' \in {sessions, [sessions EXCEPT ![w] = {}]}
    /\ UNCHANGED <<wstate, starting, userVars, link, requestVars, process, cut>>
-----------------------------------------------------------------------------
(***************************************************************************)
(* Users: handleUserConnection.                                            *)
(***************************************************************************)

Goto(u, from, to) ==
    /\ Running
    /\ ustate[u] = from
    /\ ustate' = [ustate EXCEPT ![u] = to]

\* The connection is up, and its query names a worker, a room or none.
UserConnect(u) ==
    /\ \E lookup \in {"byId", "byRoom", "free"} : Goto(u, "away", lookup)
    /\ UNCHANGED <<workerVars, found, link, users, requestVars, process, cut>>

\* findWorkerFor asks one lookup after the other, each under the read lock of
\* Hub.workers, and ends with the first worker found.
Lookup(u, at, candidates, otherwise) ==
    \/ \E w \in candidates :
        /\ Goto(u, at, "found")
        /\ found' = [found EXCEPT ![u] = w]
        /\ UNCHANGED <<workerVars, users, link, requestVars, process, cut>>
    \/ /\ candidates = {}
       /\ Goto(u, at, otherwise)
       /\ UNCHANGED <<workerVars, found, users, link, requestVars, process, cut>>

\* findWorkerById: a free worker on the machine of the one named.
FindById(u) ==
    \E machine \in SUBSET Available : Lookup(u, "byId", machine, "leaving")

\* findWorkerByRoom, for the room named in the query.
FindByRoom(u) ==
    \E room \in Games : Lookup(u, "byRoom", {w \in Listed : roomId[w] = room}, "previous")

\* findWorkerByPreviousRoom: a free worker that had the session of a deep link.
FindByPreviousRoom(u) ==
    \E had \in SUBSET Available : Lookup(u, "previous", had, "joinActive")

\* A visit without a room: find1stFreeWorker, then find1stActiveWorker.
FindFree(u) == Lookup(u, "free", Available, "active")
FindActive(u) == Lookup(u, "active", Active, "leaving")

\* A room that is not there: find1stActiveWorker, then any free worker.
FindJoinActive(u) == Lookup(u, "joinActive", Active, "any")
FindAny(u) == Lookup(u, "any", Available, "leaving")

\* findFastestWorker may find none: CheckLatency failed.
LatencyFail(u) ==
    /\ Goto(u, "any", "leaving")
    /\ UNCHANGED <<workerVars, found, link, users, requestVars, process, cut>>

\* user.w = worker
Link(u) ==
    /\ Goto(u, "found", "add")
    /\ link' = [link EXCEPT ![u] = found[u]]
    /\ found' = [found EXCEPT ![u] = Nil]
    /\ UNCHANGED <<workerVars, users, requestVars, process, cut>>

\* h.users.Add(user), and InitSession.
UserAdd(u) ==
    /\ Goto(u, "add", "served")
    /\ users' = users \cup {u}
    /\ UNCHANGED <<workerVars, found, link, requestVars, process, cut>>

\* The user's connection ends: its reader sees that between two requests; its
\* writer ends it when a write fails, also while the reader is at work.
UserLost(u) ==
    /\ Goto(u, "served", "leaving")
    /\ cut' = IF rq[u] = "idle" THEN cut ELSE cut \cup {u}
    /\ UNCHANGED <<workerVars, found, link, users, requestVars, process>>

\* Mutant of UserRemove: the session is left to the worker.
UserForget(u) ==
    /\ Goto(u, "leaving", "gone")
    /\ users' = users \ {u}
    /\ UNCHANGED <<workerVars, found, link, requestVars, process, cut>>

\* RemoveDisconnect: TerminateSession over the link, then the removal.
UserRemove(u) ==
    /\ Goto(u, "leaving", "gone")
    /\ sessions' = IF link[u] = Nil THEN sessions
                   ELSE [sessions EXCEPT ![link[u]] = @ \ {u}]
    /\ users' = users \ {u}
    /\ UNCHANGED <<wstate, roomId, slot, starting, found, link, requestVars, process, cut>>
-----------------------------------------------------------------------------
(***************************************************************************)
(* Users: the requests.                                                    *)
(***************************************************************************)

At(u, from) == Running /\ rq[u] = from

\* A request is read while the user is served.
Request(u, kind) ==
    /\ At(u, "idle")
    /\ ustate[u] = "served"
    /\ requests[u] < MaxRequests
    /\ requests' = [requests EXCEPT ![u] = @ + 1]
    /\ rq' = [rq EXCEPT ![u] = kind]
    /\ UNCHANGED <<workerVars, userVars, link, process, cut>>

\* The request goes on: the state after ensureWorker.
Ensured(u) == IF rq[u] = "init" THEN "useInit" ELSE "gate"

\* ensureWorker: the link of a detached user is bound to a free worker.
EnsureWorker(u) ==
    /\ Running
    /\ rq[u] \in {"init", "start"}
    /\ \/ /\ link[u] # Nil
          /\ rq' = [rq EXCEPT ![u] = Ensured(u)]
          /\ UNCHANGED link
       \/ /\ link[u] = Nil
          /\ \E w \in Available :
              /\ link' = [link EXCEPT ![u] = w]
              /\ rq' = [rq EXCEPT ![u] = Ensured(u)]
       \/ /\ link[u] = Nil
          /\ Available = {}
          /\ rq' = [rq EXCEPT ![u] = "idle"]
          /\ UNCHANGED link
    /\ UNCHANGED <<workerVars, userVars, requests, process, cut>>

\* The link is read again, at every use of it.
Use(u, at, to) ==
    /\ At(u, at)
    /\ link[u] # Nil
    /\ rq' = [rq EXCEPT ![u] = to]
    /\ UNCHANGED <<userVars, link, requests, process, cut>>

\* u.w.WebrtcInit: the worker makes a session for the user, if it is there.
WebrtcInit(u) ==
    /\ Use(u, "useInit", "idle")
    /\ sessions' = IF wstate[link[u]] # "up" THEN sessions
                   ELSE [sessions EXCEPT ![link[u]] = @ \cup {u}]
    /\ UNCHANGED <<wstate, roomId, slot, starting>>

\* HandleStartGame: the worker is busy without a room, busy with one, or free.
Gate(u) ==
    /\ Use(u, "gate", IF slot[link[u]] = 0 THEN "reserve"
                      ELSE IF roomId[link[u]] = NoRoom THEN "idle" ELSE "send")
    /\ UNCHANGED workerVars

\* u.w.TryReserve
TryReserve(u) ==
    /\ Use(u, "reserve", IF slot[link[u]] = 0 THEN "send" ELSE "idle")
    /\ slot' = [slot EXCEPT ![link[u]] = 1]
    /\ UNCHANGED <<wstate, roomId, starting, sessions>>

\* u.w.StartGame: for the room that runs, or for a game of the user's choice.
StartGame(u, game) ==
    /\ \E to \in {"idle", "notify"} : Use(u, "send", to)
    /\ starting' = IF wstate[link[u]] # "up" THEN starting
                   ELSE [starting EXCEPT ![link[u]] =
                            IF roomId[link[u]] = NoRoom THEN game ELSE roomId[link[u]]]
    /\ UNCHANGED <<wstate, roomId, slot, sessions>>

\* u.StartGame, after the answer, tells the user u.w.RoomId.
NotifyStarted(u) ==
    /\ Use(u, "notify", "idle")
    /\ UNCHANGED workerVars

\* HandleQuitGame and the others that use the link without ensureWorker: save,
\* load, reset, player change, WebRTC answer and candidates.
UseLink(u) ==
    /\ Use(u, "quit", "idle")
    /\ UNCHANGED workerVars

\* Any of them through a nil link.
NilLink(u) ==
    /\ Running
    /\ rq[u] \in {"useInit", "gate", "reserve", "send", "notify", "quit"}
    /\ link[u] = Nil
    /\ process' = "dead"
    /\ UNCHANGED <<workerVars, userVars, link, requestVars, cut>>
-----------------------------------------------------------------------------
WorkerStep(w) ==
    WorkerAdd(w) \/ WorkerLost(w) \/ DetachWorkerUsers(w) \/ WorkerDisconnect(w)
        \/ WorkerRemove(w) \/ RegisterRoom(w) \/ StartRefused(w) \/ CloseRoom(w)

Search(u) ==
    FindById(u) \/ FindByRoom(u) \/ FindByPreviousRoom(u) \/ FindFree(u) \/ FindActive(u)
        \/ FindJoinActive(u) \/ FindAny(u) \/ LatencyFail(u)

UserStep(u) ==
    \/ UserConnect(u)
    \/ Search(u) \/ Link(u) \/ UserAdd(u) \/ UserLost(u) \/ UserRemove(u)

RequestStep(u) ==
    \/ \E kind \in {"init", "start", "quit"} : Request(u, kind)
    \/ EnsureWorker(u) \/ WebrtcInit(u) \/ Gate(u) \/ TryReserve(u)
    \/ \E game \in Games : StartGame(u, game)
    \/ NotifyStarted(u) \/ UseLink(u) \/ NilLink(u)

Next ==
    \/ \E w \in Workers : WorkerStep(w)
    \/ \E u \in Users : UserStep(u) \/ RequestStep(u)

Spec == Init /\ [][Next]_vars
-----------------------------------------------------------------------------
TypeOK ==
    /\ wstate \in [Workers -> WorkerStates]
    /\ roomId \in [Workers -> RoomIds]
    /\ slot \in [Workers -> {0, 1}]
    /\ starting \in [Workers -> RoomIds]
    /\ sessions \in [Workers -> SUBSET Users]
    /\ ustate \in [Users -> UserStates]
    /\ found \in [Users -> Workers \cup {Nil}]
    /\ link \in [Users -> Workers \cup {Nil}]
    /\ users \subseteq Users
    /\ rq \in [Users -> RequestStates]
    /\ requests \in [Users -> Nat]
    /\ process \in {"running", "dead"}
    /\ cut \subseteq Users

\* A live worker keeps sessions only of users who are linked to it, but for
\* those of users whose handler is done: neither a rebind after another
\* worker's end nor that worker's DetachWorkerUsers orphans a session.
SessionsLinked ==
    \A w \in Workers : wstate[w] = "up" =>
        \A u \in sessions[w] : link[u] = w \/ ustate[u] = "gone"

\* Such a user also has a handler that will terminate the session, whoever
\* rebinds or detaches whom.  The one exception is a user whose connection a
\* failed write ended during a request: the rest of that request may make a
\* session after the handler's TerminateSession.
SessionsCovered ==
    \A w \in Workers : wstate[w] = "up" =>
        \A u \in sessions[w] :
            \/ link[u] = w /\ ustate[u] \in {"served", "leaving"}
            \/ u \in cut /\ ustate[u] = "gone"

\* "This avoids routing plain visits onto a stale active room when a crashed
\* worker briefly lingers in coordinator state": a visit without a room is
\* not given a worker the hub has already detached.
NoLingeringWorker ==
    [][\A u \in Users : ustate[u] \in {"free", "active"} /\ ustate'[u] = "found" =>
            wstate[found'[u]] \in {"up", "lost"}]_vars

\* "a hard crash [of a worker] keeps coordinator alive"
CoordinatorSurvives == process = "running"
=============================================================================
