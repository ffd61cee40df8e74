------------------------------ MODULE Hub_proofs ------------------------------
(***************************************************************************)
(* Theorems of Hub, for every set of workers, users and games.             *)
(***************************************************************************)
EXTENDS Hub, TLAPS

-----------------------------------------------------------------------------
(***************************************************************************)
(* Type correctness.                                                       *)
(***************************************************************************)

\* The steps of a worker's handler and packets keep the types.
LEMMA WorkerTypes ==
    ASSUME TypeOK, NEW w \in Workers, WorkerStep(w)
    PROVE  TypeOK'
<1> USE DEF TypeOK, Handler, WorkerStates, RoomIds, userVars, requestVars
<1>1. CASE WorkerAdd(w)
  BY <1>1 DEF WorkerAdd
<1>2. CASE WorkerLost(w)
  BY <1>2 DEF WorkerLost
<1>3. CASE DetachWorkerUsers(w)
  BY <1>3 DEF DetachWorkerUsers
<1>4. CASE WorkerDisconnect(w)
  BY <1>4 DEF WorkerDisconnect
<1>5. CASE WorkerRemove(w)
  BY <1>5 DEF WorkerRemove
<1>6. CASE RegisterRoom(w)
  BY <1>6 DEF RegisterRoom
<1>7. CASE StartRefused(w)
  BY <1>7 DEF StartRefused
<1>8. CASE CloseRoom(w)
  BY <1>8 DEF CloseRoom
<1>9. QED
  BY <1>1, <1>2, <1>3, <1>4, <1>5, <1>6, <1>7, <1>8 DEF WorkerStep

\* A lookup moves the user's handler alone, to a worker it may be given.
LEMMA LookupTypes ==
    ASSUME TypeOK, NEW u \in Users, NEW at, NEW candidates \in SUBSET Workers,
           NEW otherwise \in UserStates, Lookup(u, at, candidates, otherwise)
    PROVE  TypeOK'
<1> USE DEF TypeOK, Goto, UserStates, workerVars, requestVars
<1>1. ASSUME NEW w \in candidates,
             Goto(u, at, "found") /\ found' = [found EXCEPT ![u] = w]
                /\ UNCHANGED <<workerVars, users, link, requestVars, process, cut>>
      PROVE  TypeOK'
  BY <1>1
<1>2. ASSUME Goto(u, at, otherwise),
             UNCHANGED <<workerVars, found, users, link, requestVars, process, cut>>
      PROVE  TypeOK'
  BY <1>2
<1>3. QED
  BY <1>1, <1>2 DEF Lookup

\* The search for a worker keeps the types.
LEMMA SearchTypes ==
    ASSUME TypeOK, NEW u \in Users, Search(u)
    PROVE  TypeOK'
<1>1. Listed \in SUBSET Workers /\ Available \in SUBSET Workers /\ Active \in SUBSET Workers
  BY DEF Listed, Available, Active
<1>2. {"previous", "active", "joinActive", "any", "leaving"} \subseteq UserStates
  BY DEF UserStates, Searches
<1>3. CASE FindById(u)
  BY <1>1, <1>2, <1>3, LookupTypes DEF FindById
<1>4. CASE FindByRoom(u)
  BY <1>1, <1>2, <1>4, LookupTypes DEF FindByRoom
<1>5. CASE FindByPreviousRoom(u)
  BY <1>1, <1>2, <1>5, LookupTypes DEF FindByPreviousRoom
<1>6. CASE FindFree(u) \/ FindActive(u) \/ FindJoinActive(u) \/ FindAny(u)
  BY <1>1, <1>2, <1>6, LookupTypes DEF FindFree, FindActive, FindJoinActive, FindAny
<1>7. CASE LatencyFail(u)
  BY <1>7 DEF LatencyFail, TypeOK, Goto, UserStates, workerVars, requestVars
<1>8. QED
  BY <1>3, <1>4, <1>5, <1>6, <1>7 DEF Search

\* The steps of a user's handler keep the types.
LEMMA UserTypes ==
    ASSUME TypeOK, NEW u \in Users, UserStep(u)
    PROVE  TypeOK'
<1> USE DEF TypeOK, Goto, UserStates, Searches, workerVars, requestVars
<1>1. CASE UserConnect(u)
  BY <1>1 DEF UserConnect
<1>2. CASE Search(u)
  BY <1>2, SearchTypes
<1>3. CASE Link(u)
  BY <1>3 DEF Link
<1>4. CASE UserAdd(u)
  BY <1>4 DEF UserAdd
<1>5. CASE UserLost(u)
  BY <1>5 DEF UserLost
<1>6. CASE UserRemove(u)
  <2>1. sessions' \in [Workers -> SUBSET Users]
    BY <1>6 DEF UserRemove
  <2>2. QED
    BY <1>6, <2>1 DEF UserRemove
<1>7. QED
  BY <1>1, <1>2, <1>3, <1>4, <1>5, <1>6 DEF UserStep

\* A use of a user's link finds a worker there.
LEMMA UseTypes ==
    ASSUME TypeOK, NEW u \in Users, NEW at, NEW to \in RequestStates, Use(u, at, to)
    PROVE  /\ link[u] \in Workers
           /\ rq' = [rq EXCEPT ![u] = to]
           /\ rq' \in [Users -> RequestStates]
           /\ UNCHANGED <<ustate, found, users, link, requests, process, cut>>
  BY DEF TypeOK, Use, userVars

\* The steps of a user's reader keep the types.
LEMMA RequestTypes ==
    ASSUME TypeOK, NEW u \in Users, RequestStep(u)
    PROVE  TypeOK'
<1> USE DEF TypeOK
<1>1. {"idle", "init", "start", "quit", "useInit", "gate", "reserve", "send", "notify"}
        \subseteq RequestStates
  BY DEF RequestStates
<1>2. ASSUME NEW kind \in {"init", "start", "quit"}, Request(u, kind)
      PROVE  TypeOK'
  BY <1>1, <1>2 DEF Request, workerVars, userVars
<1>3. CASE EnsureWorker(u)
  <2>1. Available \subseteq Workers
    BY DEF Available, Listed
  <2>2. Ensured(u) \in RequestStates
    BY <1>1 DEF Ensured
  <2>3. rq' \in [Users -> RequestStates] /\ link' \in [Users -> Workers \cup {Nil}]
    BY <1>1, <1>3, <2>1, <2>2 DEF EnsureWorker
  <2>4. QED
    BY <1>3, <2>3 DEF EnsureWorker, workerVars, userVars
<1>4. CASE WebrtcInit(u)
  <2>1. link[u] \in Workers /\ rq' \in [Users -> RequestStates]
        /\ UNCHANGED <<ustate, found, users, link, requests, process, cut>>
    BY <1>1, <1>4, UseTypes DEF WebrtcInit
  <2>2. sessions' \in [Workers -> SUBSET Users]
    BY <1>4, <2>1 DEF WebrtcInit
  <2>3. QED
    BY <1>4, <2>1, <2>2 DEF WebrtcInit
<1>5. CASE Gate(u)
  BY <1>1, <1>5, UseTypes DEF Gate, workerVars
<1>6. CASE TryReserve(u)
  <2>1. link[u] \in Workers /\ rq' \in [Users -> RequestStates]
        /\ UNCHANGED <<ustate, found, users, link, requests, process, cut>>
    BY <1>1, <1>6, UseTypes DEF TryReserve
  <2>2. QED
    BY <1>6, <2>1 DEF TryReserve
<1>7. ASSUME NEW game \in Games, StartGame(u, game)
      PROVE  TypeOK'
  <2>1. link[u] \in Workers /\ rq' \in [Users -> RequestStates]
        /\ UNCHANGED <<ustate, found, users, link, requests, process, cut>>
    BY <1>1, <1>7, UseTypes DEF StartGame
  <2>2. roomId[link[u]] \in RoomIds /\ game \in RoomIds
    BY <2>1 DEF RoomIds
  <2>3. starting' \in [Workers -> RoomIds]
    BY <1>7, <2>1, <2>2 DEF StartGame
  <2>4. QED
    BY <1>7, <2>1, <2>3 DEF StartGame
<1>8. CASE NotifyStarted(u) \/ UseLink(u)
  BY <1>1, <1>8, UseTypes DEF NotifyStarted, UseLink, workerVars
<1>9. CASE NilLink(u)
  BY <1>9 DEF NilLink, workerVars, userVars, requestVars
<1>10. QED
  BY <1>2, <1>3, <1>4, <1>5, <1>6, <1>7, <1>8, <1>9 DEF RequestStep

\* Every variable of the hub keeps its type: above all, the slot of a worker is
\* 0 or 1 however many users start games on it (worker.go, TryReserve).
THEOREM TypeCorrect == Spec => []TypeOK
<1>1. Init => TypeOK
  BY HubAssumption DEF Init, TypeOK, WorkerStates, UserStates, RequestStates, RoomIds
<1>2. TypeOK /\ [Next]_vars => TypeOK'
  <2> SUFFICES ASSUME TypeOK, [Next]_vars
               PROVE  TypeOK'
    OBVIOUS
  <2>1. ASSUME NEW w \in Workers, WorkerStep(w)
        PROVE  TypeOK'
    BY <2>1, WorkerTypes
  <2>2. ASSUME NEW u \in Users, UserStep(u) \/ RequestStep(u)
        PROVE  TypeOK'
    BY <2>2, UserTypes, RequestTypes
  <2>3. CASE UNCHANGED vars
    BY <2>3 DEF TypeOK, vars, workerVars, userVars, requestVars
  <2>4. QED
    BY <2>1, <2>2, <2>3 DEF Next
<1>3. QED
  BY <1>1, <1>2, PTL DEF Spec
-----------------------------------------------------------------------------
(***************************************************************************)
(* Who keeps a session for whom.                                           *)
(***************************************************************************)

\* Only live workers have sessions.
OnlyLive == \A w \in Workers : sessions[w] # {} => wstate[w] = "up"

\* A user who has not been served yet asked nothing, and has no session.
Newcomers ==
    \A u \in Users : ustate[u] \notin {"served", "leaving", "gone"} =>
        rq[u] = "idle" /\ \A w \in Workers : u \notin sessions[w]

\* SessionsLinked, for the dead workers as well.
Linkage == \A w \in Workers : \A u \in sessions[w] : link[u] = w \/ ustate[u] = "gone"

\* What holds of every user who was not cut off: a request at work keeps the
\* user served, and sessions are covered.
ReaderOrder ==
    \A u \in Users \ cut :
        /\ rq[u] # "idle" => ustate[u] = "served"
        /\ \A w \in Workers : u \in sessions[w] =>
                link[u] = w /\ ustate[u] \in {"served", "leaving"}

IInv == OnlyLive /\ Newcomers /\ Linkage /\ ReaderOrder

\* A step that changes no session and no user's place in its handler: links
\* may change only where no session depends on them.
LEMMA LinksMayChange ==
    ASSUME TypeOK, IInv, UNCHANGED <<sessions, ustate, cut>>,
           \A w \in Workers : sessions[w] # {} => wstate'[w] = "up",
           \A u \in Users : rq'[u] # "idle" => rq[u] # "idle",
           \A w \in Workers : \A u \in sessions[w] :
                link'[u] = link[u] \/ (ustate[u] = "gone" /\ u \in cut)
    PROVE  IInv'
<1>1. OnlyLive'
  BY DEF OnlyLive
<1>2. Newcomers'
  BY DEF IInv, Newcomers
<1>3. Linkage'
  BY DEF IInv, Linkage
<1>4. ASSUME NEW u \in Users \ cut
      PROVE  /\ rq'[u] # "idle" => ustate[u] = "served"
             /\ \A w \in Workers : u \in sessions[w] =>
                    link'[u] = w /\ ustate[u] \in {"served", "leaving"}
  BY <1>4 DEF IInv, ReaderOrder
<1>5. ReaderOrder'
  BY <1>4 DEF ReaderOrder
<1>6. QED
  BY <1>1, <1>2, <1>3, <1>5 DEF IInv

LEMMA WorkerStepKeeps ==
    ASSUME TypeOK, IInv, NEW w \in Workers, WorkerStep(w)
    PROVE  IInv'
<1> USE DEF TypeOK, IInv, OnlyLive, Newcomers, Linkage, ReaderOrder, Handler,
            userVars, requestVars
<1>1. CASE WorkerAdd(w)
  BY <1>1 DEF WorkerAdd
<1>2. CASE WorkerLost(w)
  BY <1>2 DEF WorkerLost
<1>3. CASE DetachWorkerUsers(w)
  <2>1. sessions[w] = {}
    BY <1>3 DEF DetachWorkerUsers
  <2>2. \A v \in Workers : \A u \in sessions[v] :
            link'[u] = link[u] \/ (ustate[u] = "gone" /\ u \in cut)
    <3>1. ASSUME NEW v \in Workers, NEW u \in sessions[v], link'[u] # link[u]
          PROVE  ustate[u] = "gone" /\ u \in cut
      <4>1. link[u] = w /\ v # w
        BY <1>3, <2>1, <3>1 DEF DetachWorkerUsers, Linked
      <4>2. QED
        BY <4>1, HubAssumption
    <3>2. QED
      BY <3>1
  <2>3. /\ UNCHANGED <<sessions, ustate, rq, cut>>
        /\ \A v \in Workers : sessions[v] # {} => wstate'[v] = "up"
    BY <1>3, <2>1 DEF DetachWorkerUsers
  <2>4. QED
    BY <2>2, <2>3, LinksMayChange
<1>4. CASE WorkerDisconnect(w) \/ WorkerRemove(w)
  BY <1>4 DEF WorkerDisconnect, WorkerRemove
<1>5. CASE RegisterRoom(w) \/ StartRefused(w)
  BY <1>5 DEF RegisterRoom, StartRefused
<1>6. CASE CloseRoom(w)
  BY <1>6 DEF CloseRoom
<1>7. QED
  BY <1>1, <1>2, <1>3, <1>4, <1>5, <1>6 DEF WorkerStep

\* The search of a user's handler: the user stays a newcomer, or leaves.
LEMMA SearchKeeps ==
    ASSUME TypeOK, IInv, NEW u \in Users, Search(u)
    PROVE  IInv'
<1>1. /\ ustate[u] \in Searches
      /\ \E to \in UserStates : ustate' = [ustate EXCEPT ![u] = to]
      /\ UNCHANGED <<wstate, sessions, link, rq, cut>>
  <2> USE DEF Searches, UserStates, Goto, Lookup, workerVars, requestVars
  <2>1. CASE FindById(u)
    BY <2>1 DEF FindById
  <2>2. CASE FindByRoom(u)
    BY <2>2 DEF FindByRoom
  <2>3. CASE FindByPreviousRoom(u)
    BY <2>3 DEF FindByPreviousRoom
  <2>4. CASE FindFree(u) \/ FindActive(u)
    BY <2>4 DEF FindFree, FindActive
  <2>5. CASE FindJoinActive(u)
    BY <2>5 DEF FindJoinActive
  <2>6. CASE FindAny(u) \/ LatencyFail(u)
    BY <2>6 DEF FindAny, LatencyFail
  <2>7. QED
    BY <2>1, <2>2, <2>3, <2>4, <2>5, <2>6 DEF Search
<1>2. rq[u] = "idle" /\ \A w \in Workers : u \notin sessions[w]
  BY <1>1 DEF IInv, Newcomers, Searches
<1>3. QED
  BY <1>1, <1>2 DEF TypeOK, IInv, OnlyLive, Newcomers, Linkage, ReaderOrder

LEMMA UserStepKeeps ==
    ASSUME TypeOK, IInv, NEW u \in Users, UserStep(u)
    PROVE  IInv'
<1> USE DEF TypeOK, IInv, OnlyLive, Newcomers, Linkage, ReaderOrder, Goto,
            workerVars, requestVars
<1>1. CASE UserConnect(u)
  BY <1>1 DEF UserConnect
<1>2. CASE Search(u)
  BY <1>2, SearchKeeps
<1>3. CASE Link(u)
  BY <1>3 DEF Link
<1>4. CASE UserAdd(u)
  BY <1>4 DEF UserAdd
<1>5. CASE UserLost(u)
  BY <1>5 DEF UserLost
<1>6. CASE UserRemove(u)
  <2>1. \A w \in Workers : sessions'[w] \subseteq sessions[w]
    BY <1>6 DEF UserRemove
  <2>2. u \notin cut => \A w \in Workers : u \notin sessions'[w]
    <3>1. ASSUME u \notin cut, NEW w \in Workers, u \in sessions[w]
          PROVE  u \notin sessions'[w]
      <4>1. link[u] = w /\ link[u] # Nil
        BY <3>1, HubAssumption
      <4>2. QED
        BY <1>6, <4>1 DEF UserRemove
    <3>2. QED
      BY <2>1, <3>1
  <2>3. /\ ustate' = [ustate EXCEPT ![u] = "gone"] /\ ustate[u] = "leaving"
        /\ UNCHANGED <<wstate, link, rq, cut>>
    BY <1>6 DEF UserRemove
  <2>4. OnlyLive' /\ Newcomers' /\ Linkage'
    BY <2>1, <2>3
  <2>5. ReaderOrder'
    BY <2>1, <2>2, <2>3
  <2>6. QED
    BY <2>4, <2>5
<1>7. QED
  BY <1>1, <1>2, <1>3, <1>4, <1>5, <1>6 DEF UserStep

\* A request at work belongs to a user who was served, and a request that uses
\* its link changes the reader's place alone.
LEMMA WorkingIsServed ==
    ASSUME TypeOK, IInv, NEW u \in Users, rq[u] # "idle"
    PROVE  /\ ustate[u] \in {"served", "leaving", "gone"}
           /\ u \notin cut => ustate[u] = "served"
  BY DEF IInv, Newcomers, ReaderOrder

LEMMA PlaceChanges ==
    ASSUME TypeOK, IInv, NEW u \in Users, NEW to \in RequestStates, rq[u] # "idle",
           rq' = [rq EXCEPT ![u] = to], UNCHANGED <<wstate, sessions, ustate, link, cut>>
    PROVE  IInv'
  BY WorkingIsServed DEF TypeOK, IInv, OnlyLive, Newcomers, Linkage, ReaderOrder

LEMMA RequestStepKeeps ==
    ASSUME TypeOK, IInv, NEW u \in Users, RequestStep(u)
    PROVE  IInv'
<1>1. {"idle", "init", "start", "quit", "useInit", "gate", "reserve", "send", "notify"}
        \subseteq RequestStates
  BY DEF RequestStates
<1>2. ASSUME NEW kind \in {"init", "start", "quit"}, Request(u, kind)
      PROVE  IInv'
  BY <1>2 DEF Request, At, TypeOK, IInv, OnlyLive, Newcomers, Linkage, ReaderOrder,
              workerVars, userVars
<1>3. CASE EnsureWorker(u)
  <2>1. /\ rq[u] # "idle"
        /\ rq' \in [Users -> RequestStates]
        /\ \A v \in Users \ {u} : rq'[v] = rq[v]
        /\ UNCHANGED <<wstate, sessions, ustate, cut>>
    BY <1>1, <1>3 DEF EnsureWorker, Ensured, TypeOK, workerVars, userVars
  <2>2. ASSUME NEW w \in Workers, NEW v \in sessions[w], link'[v] # link[v]
        PROVE  ustate[v] = "gone" /\ v \in cut
    <3>1. v = u /\ link[u] = Nil
      BY <1>3, <2>2 DEF EnsureWorker, TypeOK
    <3>2. link[v] # w
      BY <3>1, HubAssumption
    <3>3. v \in Users /\ link[v] # w /\ (link[v] = w \/ ustate[v] = "gone")
      BY <3>2 DEF IInv, Linkage, TypeOK
    <3>4. QED
      BY <3>3 DEF IInv, ReaderOrder
  <2>3. \A w \in Workers : sessions[w] # {} => wstate'[w] = "up"
    BY <2>1 DEF IInv, OnlyLive
  <2>4. \A v \in Users : rq'[v] # "idle" => rq[v] # "idle"
    BY <2>1
  <2>5. QED
    BY <2>1, <2>2, <2>3, <2>4, LinksMayChange
<1>4. CASE WebrtcInit(u)
  <2>1. /\ rq[u] # "idle" /\ link[u] \in Workers
        /\ rq' = [rq EXCEPT ![u] = "idle"]
        /\ UNCHANGED <<wstate, ustate, link, cut>>
    BY <1>1, <1>4, UseTypes DEF WebrtcInit, Use, At
  <2>2. \A w \in Workers : \A v \in sessions'[w] :
            v \in sessions[w] \/ (v = u /\ w = link[u] /\ wstate[w] = "up")
    BY <1>4, <2>1 DEF WebrtcInit, TypeOK
  <2>3. sessions' \in [Workers -> SUBSET Users]
    BY <1>4, RequestTypes DEF RequestStep, TypeOK
  <2>4. OnlyLive'
    BY <2>1, <2>2 DEF IInv, OnlyLive
  <2>5. Newcomers' /\ Linkage' /\ ReaderOrder'
    BY <2>1, <2>2, <2>3, WorkingIsServed DEF TypeOK, IInv, Newcomers, Linkage, ReaderOrder
  <2>6. QED
    BY <2>4, <2>5 DEF IInv
<1>5. CASE Gate(u)
  BY <1>1, <1>5, PlaceChanges DEF Gate, Use, At, workerVars, userVars
<1>6. CASE TryReserve(u)
  BY <1>1, <1>6, PlaceChanges DEF TryReserve, Use, At, userVars
<1>7. ASSUME NEW game \in Games, StartGame(u, game)
      PROVE  IInv'
  BY <1>1, <1>7, PlaceChanges DEF StartGame, Use, At, userVars
<1>8. CASE NotifyStarted(u) \/ UseLink(u)
  BY <1>1, <1>8, PlaceChanges DEF NotifyStarted, UseLink, Use, At, workerVars, userVars
<1>9. CASE NilLink(u)
  BY <1>9 DEF NilLink, workerVars, userVars, requestVars, TypeOK, IInv, OnlyLive,
              Newcomers, Linkage, ReaderOrder
<1>10. QED
  BY <1>2, <1>3, <1>4, <1>5, <1>6, <1>7, <1>8, <1>9 DEF RequestStep

\* The inductive invariant holds at the start and after every step.
LEMMA IInvHolds == Spec => []IInv
<1>1. Init => IInv
  BY DEF Init, IInv, OnlyLive, Newcomers, Linkage, ReaderOrder
<1>2. TypeOK /\ IInv /\ [Next]_vars => IInv'
  <2> SUFFICES ASSUME TypeOK, IInv, [Next]_vars
               PROVE  IInv'
    OBVIOUS
  <2>1. ASSUME NEW w \in Workers, WorkerStep(w)
        PROVE  IInv'
    BY <2>1, WorkerStepKeeps
  <2>2. ASSUME NEW u \in Users, UserStep(u) \/ RequestStep(u)
        PROVE  IInv'
    BY <2>2, UserStepKeeps, RequestStepKeeps
  <2>3. CASE UNCHANGED vars
    BY <2>3 DEF vars, workerVars, userVars, requestVars, IInv, OnlyLive, Newcomers,
                Linkage, ReaderOrder
  <2>4. QED
    BY <2>1, <2>2, <2>3 DEF Next
<1>3. QED
  BY <1>1, <1>2, TypeCorrect, PTL DEF Spec

\* A live worker keeps no session of a user who is linked elsewhere, whatever
\* the order in which workers and users come, go and rebind (hub.go,
\* DetachWorkerUsers; userhandlers.go, ensureWorker).
THEOREM SessionsLinkedHolds == Spec => []SessionsLinked
<1>1. IInv => SessionsLinked
  BY DEF IInv, Linkage, SessionsLinked
<1>2. QED
  BY <1>1, IInvHolds, PTL

\* Every session of a live worker has a handler that will terminate it, but for
\* a user whose connection a failed write ended during a request and whose
\* handler is done (user.go, Disconnect; websocket.go, writer).
THEOREM SessionsCoveredHolds == Spec => []SessionsCovered
<1>1. TypeOK /\ IInv => SessionsCovered
  BY DEF TypeOK, IInv, ReaderOrder, Linkage, Newcomers, SessionsCovered, UserStates, Searches
<1>2. QED
  BY <1>1, TypeCorrect, IInvHolds, PTL
=============================================================================
