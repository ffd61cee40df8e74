------------------------------ MODULE Files_proofs ------------------------------
(***************************************************************************)
(* Theorems of the files that the workers share with other programs and     *)
(* find again after a crash: the game library (Library), for every set of   *)
(* games and every bound, and the saved states (SaveState), for every set   *)
(* of states, of options and every bound.                                   *)
(***************************************************************************)
EXTENDS Library, SaveState, TLAPS

-----------------------------------------------------------------------------
(***************************************************************************)
(* The game library.                                                       *)
(***************************************************************************)

(***************************************************************************)
(* Type correctness.                                                       *)
(***************************************************************************)

\* The steps of a scan keep the types.
LEMMA ScanTypes ==
    ASSUME TypeOK, NEW s \in Scanners, Scan(s)
    PROVE  TypeOK'
<1> USE DEF TypeOK, Goto, Places, Walking, diskVars, watchVars, throttle, walk, list,
            enricherVars
<1>1. CASE Delay(s)
  BY <1>1 DEF Delay
<1>2. CASE Begin(s)
  BY <1>2 DEF Begin
<1>3. CASE List(s)
  BY <1>3 DEF List
<1>4. CASE WalkFail(s)
  BY <1>4 DEF WalkFail
<1>5. CASE Publish(s)
  <2>1. games' \in SUBSET Games /\ rich' \in SUBSET Games
    BY <1>5 DEF Publish
  <2>2. /\ pc' \in [Scanners -> Places]
        /\ UNCHANGED <<diskVars, watchVars, throttle, walk, enricherVars, connected>>
    BY <1>5 DEF Publish
  <2>3. QED
    BY <2>1, <2>2
<1>6. CASE Finish(s)
  <2>1. delayed' = FALSE /\ spawned' \in Nat
    BY <1>6 DEF Finish
  <2>2. QED
    BY <1>6, <2>1 DEF Finish
<1>7. ASSUME NEW g \in Games, Visit(s, g)
      PROVE  TypeOK'
  <2>1. known' \in SUBSET Games /\ queue' \in Seq(Games)
    BY <1>7 DEF Visit, Enqueue
  <2>2. todo' \in [Scanners -> SUBSET Games] /\ seen' \in [Scanners -> SUBSET Games]
    BY <1>7 DEF Visit
  <2>3. hydrated' \in [Scanners -> SUBSET Games]
    BY <1>7 DEF Visit
  <2>4. QED
    BY <1>7, <2>1, <2>2, <2>3 DEF Visit
<1>8. QED
  BY <1>1, <1>2, <1>3, <1>4, <1>5, <1>6, <1>7 DEF Scan

\* So does every step.
LEMMA StepTypes ==
    ASSUME TypeOK, Next
    PROVE  TypeOK'
<1> USE LibraryAssumption
<1> USE DEF TypeOK, Goto, Places, Walking, Scanners, diskVars, watchVars, throttle, walk,
            list, enricherVars
<1>1. ASSUME NEW g \in Games, Create(g) \/ Remove(g)
      PROVE  TypeOK'
  BY <1>1 DEF Create, Remove, Change, Notify
<1>2. CASE Unnoticed
  <2>1. disk' \in SUBSET Games /\ changes' \in 0..MaxChanges
    BY <1>2 DEF Unnoticed, Early, MoveOut, Change
  <2>2. UNCHANGED <<watching, throttle, pc, walk, list, enricherVars, connected>>
    BY <1>2 DEF Unnoticed, Early, MoveOut, Change
  <2>3. QED
    BY <1>2, <2>1, <2>2 DEF Unnoticed
<1>3. CASE Connect
  BY <1>3 DEF Connect
<1>4. CASE Listen
  BY <1>4 DEF Listen
<1>5. CASE Event
  BY <1>5 DEF Event
<1>6. CASE Again
  <2>1. CASE Respawn
    BY <2>1 DEF Respawn
  <2>2. CASE RespawnDelayed
    BY <2>2 DEF RespawnDelayed
  <2>3. QED
    BY <1>6, <2>1, <2>2 DEF Again
<1>7. CASE Pop
  <2>1. lookup' \in Games /\ queue' \in Seq(Games)
    BY <1>7 DEF Pop
  <2>2. QED
    BY <1>7, <2>1 DEF Pop
<1>8. CASE ProcessOne
  <2>1. row' \in [Games -> {"none", "unmatched", "matched"}]
    BY <1>8 DEF ProcessOne
  <2>2. batch' \in 0..(BatchSize - 1)
    BY <1>8 DEF ProcessOne
  <2>3. pc' \in [Scanners -> Places]
    BY <1>8 DEF ProcessOne
  <2>4. unshown' \in BOOLEAN
    BY <1>8 DEF ProcessOne
  <2>5. QED
    BY <1>8, <2>1, <2>2, <2>3, <2>4 DEF ProcessOne
<1>9. ASSUME NEW s \in Scanners, Scan(s)
      PROVE  TypeOK'
  BY <1>9, ScanTypes
<1>10. QED
  BY <1>1, <1>2, <1>3, <1>4, <1>5, <1>6, <1>7, <1>8, <1>9 DEF Next, Enrich

\* Every variable keeps its type.
THEOREM TypeCorrect == Spec => []TypeOK
<1>1. Init => TypeOK
  <2>1. 0 \in 0..MaxChanges /\ 0 \in 0..(BatchSize - 1) /\ <<>> \in Seq(Games)
    BY LibraryAssumption
  <2>2. SUFFICES ASSUME Init
                 PROVE  TypeOK
    OBVIOUS
  <2>3. pc \in [Scanners -> Places]
    BY <2>2 DEF Init, Places, Walking
  <2>4. disk \in SUBSET Games /\ changes \in 0..MaxChanges /\ watching \in BOOLEAN
          /\ events \in Nat /\ overlooked \in BOOLEAN /\ isScanning \in BOOLEAN
          /\ delayed \in BOOLEAN /\ spawned \in Nat
    BY <2>1, <2>2 DEF Init
  <2>5. todo \in [Scanners -> SUBSET Games] /\ seen \in [Scanners -> SUBSET Games]
          /\ hydrated \in [Scanners -> SUBSET Games]
    BY <2>2 DEF Init
  <2>6. QED
    BY <2>1, <2>2, <2>3, <2>4, <2>5 DEF Init, TypeOK
<1>2. TypeOK /\ [Next]_vars => TypeOK'
  <2>1. ASSUME TypeOK, UNCHANGED vars
        PROVE  TypeOK'
    BY <2>1 DEF TypeOK, vars, diskVars, watchVars, throttle, walk, list, enricherVars
  <2>2. QED
    BY <2>1, StepTypes
<1>3. QED
  BY <1>1, <1>2, PTL DEF Spec

-----------------------------------------------------------------------------
(***************************************************************************)
(* The library catches up with the directory.                              *)
(***************************************************************************)

\* isScanning is a lock: one scan at a time is past it, and the others leave their
\* mark under it.
Exclusive ==
    /\ \A s, t \in Scanners : pc[s] \in Walking /\ pc[t] \in Walking => s = t
    /\ \A s \in Scanners : pc[s] \in Walking => isScanning
    /\ delayed => isScanning

\* The enricher's goroutine looks up a game or scans, and not both.
LooksUp == lookup # Nil => pc["enricher"] = "idle"

\* A scan will read the directory once more, or a change went unnoticed.
Pending ==
    \/ overlooked \/ delayed
    \/ events > 0 \/ spawned > 0
    \/ \E s \in Scanners : pc[s] \in {"call", "list"}

\* What a walk visited and has left to visit is the directory.
WalksAll == \E s \in Scanners : pc[s] = "walk" /\ seen[s] \cup todo[s] = disk

\* No walk is under way, and the library is the directory.
Published == games = disk /\ \A s \in Scanners : pc[s] # "walk"

\* The directory as it is now has been read, by the walk under way or by the last
\* one, or will be.
Covered == Pending \/ disk = {} \/ Stuck \/ WalksAll \/ Published

FreshInv == Exclusive /\ LooksUp /\ Covered

LEMMA FreshInit ==
    ASSUME Init
    PROVE  FreshInv
BY DEF Init, FreshInv, Exclusive, LooksUp, Covered, Pending, Scanners, Walking

\* The lock, and the enricher's goroutine.
LEMMA ExclusiveStep ==
    ASSUME TypeOK, Exclusive, LooksUp, Next
    PROVE  Exclusive' /\ LooksUp'
<1> USE DEF TypeOK, Exclusive, LooksUp, Goto, Walking, Scanners, diskVars, watchVars, throttle,
            walk, list, enricherVars
<1>1. ASSUME NEW g \in Games, Create(g) \/ Remove(g)
      PROVE  Exclusive' /\ LooksUp'
  BY <1>1 DEF Create, Remove, Change
<1>2. CASE Unnoticed
  BY <1>2 DEF Unnoticed, Early, MoveOut, Change
<1>3. CASE Connect
  BY <1>3 DEF Connect
<1>4. CASE Listen
  BY <1>4 DEF Listen
<1>5. CASE Event
  BY <1>5 DEF Event
<1>6. CASE Again
  BY <1>6 DEF Again, Respawn, RespawnDelayed
<1>7. CASE Pop
  BY <1>7 DEF Pop
<1>8. CASE ProcessOne
  BY <1>8 DEF ProcessOne
<1>9. ASSUME NEW s \in Scanners, Scan(s)
      PROVE  Exclusive' /\ LooksUp'
  <2>1. CASE Delay(s)
    BY <2>1 DEF Delay
  <2>2. CASE Begin(s)
    BY <2>2 DEF Begin
  <2>3. CASE List(s)
    BY <2>3 DEF List
  <2>4. CASE WalkFail(s)
    BY <2>4 DEF WalkFail
  <2>5. CASE Publish(s)
    BY <2>5 DEF Publish
  <2>6. CASE Finish(s)
    BY <2>6 DEF Finish
  <2>7. ASSUME NEW g \in Games, Visit(s, g)
        PROVE  Exclusive' /\ LooksUp'
    <3>1. pc' = pc
      BY <2>7 DEF Visit
    <3>2. QED
      BY <2>7, <3>1 DEF Visit
  <2>8. QED
    BY <1>9, <2>1, <2>2, <2>3, <2>4, <2>5, <2>6, <2>7 DEF Scan
<1>10. QED
  BY <1>1, <1>2, <1>3, <1>4, <1>5, <1>6, <1>7, <1>8, <1>9 DEF Next, Enrich

\* The steps of a scan keep the directory covered.
LEMMA ScanCovers ==
    ASSUME TypeOK, FreshInv, NEW s \in Scanners, Scan(s)
    PROVE  Covered'
<1> USE DEF TypeOK, FreshInv, Exclusive, Goto, Walking, diskVars, watchVars, throttle,
            walk, list, enricherVars
<1>1. CASE Delay(s)
  <2>1. Pending'
    BY <1>1 DEF Delay, Pending
  <2>2. QED
    BY <2>1 DEF Covered
<1>2. CASE Begin(s)
  <2>1. pc'[s] = "list"
    BY <1>2 DEF Begin
  <2>2. QED
    BY <2>1 DEF Covered, Pending
<1>3. CASE List(s)
  <2>1. pc'[s] = "walk" /\ seen'[s] \cup todo'[s] = disk'
    BY <1>3 DEF List
  <2>2. QED
    BY <2>1 DEF Covered, WalksAll
<1>4. CASE WalkFail(s)
  <2>1. Stuck'
    BY <1>4 DEF WalkFail, Stuck
  <2>2. QED
    BY <2>1 DEF Covered
<1>5. CASE Publish(s)
  <2>1. CASE Pending
    BY <1>5, <2>1 DEF Publish, Pending, Covered
  <2>2. CASE disk = {}
    BY <1>5, <2>2 DEF Publish, Covered
  <2>3. CASE WalksAll /\ disk # {}
    <3>1. seen[s] = disk
      BY <1>5, <2>3 DEF Publish, WalksAll
    <3>2. games' = disk'
      BY <1>5, <2>3, <3>1 DEF Publish
    <3>3. \A t \in Scanners : pc'[t] # "walk"
      BY <1>5 DEF Publish
    <3>4. QED
      BY <3>2, <3>3 DEF Covered, Published
  <2>4. ~Stuck /\ ~Published
    BY <1>5 DEF Publish, Stuck, Published
  <2>5. QED
    BY <2>1, <2>2, <2>3, <2>4 DEF Covered
<1>6. CASE Finish(s)
  <2>1. CASE Pending
    BY <1>6, <2>1 DEF Finish, Pending, Covered
  <2>2. CASE disk = {}
    BY <1>6, <2>2 DEF Finish, Covered
  <2>3. CASE Published
    BY <1>6, <2>3 DEF Finish, Published, Covered
  <2>4. ~Stuck /\ ~WalksAll
    BY <1>6 DEF Finish, Stuck, WalksAll
  <2>5. QED
    BY <2>1, <2>2, <2>3, <2>4 DEF Covered
<1>7. ASSUME NEW g \in Games, Visit(s, g)
      PROVE  Covered'
  <2>1. pc' = pc /\ pc[s] = "walk"
    BY <1>7 DEF Visit
  <2>2. CASE Pending
    BY <1>7, <2>1, <2>2 DEF Visit, Pending, Covered
  <2>3. CASE disk = {}
    BY <1>7, <2>3 DEF Visit, Covered
  <2>4. CASE WalksAll
    <3>1. seen[s] \cup todo[s] = disk
      BY <2>1, <2>4 DEF WalksAll
    <3>2. seen'[s] \cup todo'[s] = disk'
      BY <1>7, <3>1 DEF Visit
    <3>3. QED
      BY <2>1, <3>2 DEF Covered, WalksAll
  <2>5. ~Stuck /\ ~Published
    BY <2>1 DEF Stuck, Published
  <2>6. QED
    BY <2>2, <2>3, <2>4, <2>5 DEF Covered
<1>8. QED
  BY <1>1, <1>2, <1>3, <1>4, <1>5, <1>6, <1>7 DEF Scan

\* So does every step: an event, or the mark of an unnoticed change, covers what
\* changed.
LEMMA StepCovers ==
    ASSUME TypeOK, FreshInv, Next
    PROVE  Covered'
<1> USE DEF TypeOK, FreshInv, Goto, diskVars, watchVars, throttle, walk, list, enricherVars
<1>1. ASSUME NEW g \in Games, Create(g) \/ Remove(g)
      PROVE  Covered'
  <2>1. events' > 0
    BY <1>1 DEF Create, Remove, Notify
  <2>2. QED
    BY <2>1 DEF Covered, Pending
<1>2. CASE Unnoticed
  BY <1>2 DEF Unnoticed, Covered, Pending
<1>3. CASE Connect
  <2>1. UNCHANGED <<disk, events, overlooked, isScanning, delayed, spawned, pc, todo, seen, games>>
    BY <1>3 DEF Connect
  <2>2. QED
    BY <2>1 DEF Covered, Pending, Stuck, WalksAll, Published
<1>4. CASE Listen
  <2>1. UNCHANGED <<disk, events, overlooked, isScanning, delayed, spawned, pc, todo, seen, games>>
    BY <1>4 DEF Listen
  <2>2. QED
    BY <2>1 DEF Covered, Pending, Stuck, WalksAll, Published
<1>5. CASE Event
  <2>1. "watcher" \in Scanners /\ pc'["watcher"] = "call"
    BY <1>5 DEF Event, Scanners
  <2>2. QED
    BY <2>1 DEF Covered, Pending
<1>6. CASE Respawn
  <2>1. "again" \in Scanners /\ pc'["again"] = "call"
    BY <1>6 DEF Respawn, Scanners
  <2>2. QED
    BY <2>1 DEF Covered, Pending
<1>7. CASE RespawnDelayed
  BY <1>7 DEF RespawnDelayed, Covered, Pending
<1>8. CASE Pop
  <2>1. UNCHANGED <<disk, events, overlooked, isScanning, delayed, spawned, pc, todo, seen, games>>
    BY <1>8 DEF Pop
  <2>2. QED
    BY <2>1 DEF Covered, Pending, Stuck, WalksAll, Published
<1>9. CASE ProcessOne
  <2>1. UNCHANGED <<disk, events, overlooked, isScanning, delayed, spawned, todo, seen, games>>
    BY <1>9 DEF ProcessOne
  <2>2. pc["enricher"] = "idle" /\ pc'["enricher"] \in {"idle", "call"}
    BY <1>9 DEF ProcessOne, LooksUp, Scanners
  <2>3. \A s \in Scanners : pc'[s] = pc[s] \/ (pc[s] = "idle" /\ pc'[s] = "call")
    BY <1>9, <2>2 DEF ProcessOne
  <2>4. QED
    BY <2>1, <2>3 DEF Covered, Pending, Stuck, WalksAll, Published, Walking
<1>10. ASSUME NEW s \in Scanners, Scan(s)
       PROVE  Covered'
  BY <1>10, ScanCovers
<1>11. QED
  BY <1>1, <1>2, <1>3, <1>4, <1>5, <1>6, <1>7, <1>8, <1>9, <1>10 DEF Next, Again, Enrich

\* When everything settled the library is the directory, however many goroutines
\* scanned, and in whatever order (library.go, Scan and watch).
THEOREM FreshHolds == Spec => []Fresh
<1>1. Init => FreshInv
  BY FreshInit
<1>2. TypeOK /\ FreshInv /\ [Next]_vars => FreshInv'
  <2>1. ASSUME FreshInv, UNCHANGED vars
        PROVE  FreshInv'
    <3>1. UNCHANGED <<disk, events, overlooked, isScanning, delayed, spawned, pc, todo, seen,
                      games, lookup>>
      BY <2>1 DEF vars, diskVars, watchVars, throttle, walk, list, enricherVars
    <3>2. Exclusive' /\ LooksUp'
      BY <2>1, <3>1 DEF FreshInv, Exclusive, LooksUp
    <3>3. Covered'
      BY <2>1, <3>1 DEF FreshInv, Covered, Pending, Stuck, WalksAll, Published
    <3>4. QED
      BY <3>2, <3>3 DEF FreshInv
  <2>2. QED
    BY <2>1, ExclusiveStep, StepCovers DEF FreshInv
<1>3. TypeOK /\ FreshInv => Fresh
  <2>1. SUFFICES ASSUME TypeOK, FreshInv, Settled, ~overlooked, disk # {}
                 PROVE  games = disk
    BY DEF Fresh
  <2>2. QED
    BY <2>1 DEF TypeOK, FreshInv, Exclusive, Covered, Pending, Stuck, WalksAll, Published,
                Settled
<1>4. QED
  BY <1>1, <1>2, <1>3, TypeCorrect, PTL DEF Spec

-----------------------------------------------------------------------------
(***************************************************************************)
(* The library shows what the enricher has found.                          *)
(***************************************************************************)

\* A scan is due that will read the rows again, or a batch is not complete.
Due == batch # 0 \/ unshown \/ Pending

\* The walk under way goes by the rows as they are now, of which none was written
\* since it visited the game.
WalksRich ==
    \E s \in Scanners :
        /\ pc[s] = "walk"
        /\ seen[s] \cup todo[s] = disk
        /\ \A g \in seen[s] : row[g] = "matched" => g \in hydrated[s]

\* No walk is under way, and the library shows what is in the cache.
Shown ==
    /\ \A g \in games : row[g] = "matched" => g \in rich
    /\ \A s \in Scanners : pc[s] # "walk"

\* Each match is shown by the library, or by the walk under way, or will be.
ShownInv == Due \/ disk = {} \/ Stuck \/ WalksRich \/ Shown

\* The steps of a scan.
LEMMA ScanShows ==
    ASSUME TypeOK, Exclusive, ShownInv, NEW s \in Scanners, Scan(s)
    PROVE  ShownInv'
<1> USE DEF TypeOK, Exclusive, Goto, Walking, diskVars, watchVars, throttle, walk, list,
            enricherVars
<1>1. CASE Delay(s)
  <2>1. Pending'
    BY <1>1 DEF Delay, Pending
  <2>2. QED
    BY <2>1 DEF ShownInv, Due
<1>2. CASE Begin(s)
  <2>1. pc'[s] = "list"
    BY <1>2 DEF Begin
  <2>2. QED
    BY <2>1 DEF ShownInv, Due, Pending
<1>3. CASE List(s)
  <2>1. pc'[s] = "walk" /\ seen'[s] \cup todo'[s] = disk' /\ seen'[s] = {}
    BY <1>3 DEF List
  <2>2. QED
    BY <2>1 DEF ShownInv, WalksRich
<1>4. CASE WalkFail(s)
  <2>1. Stuck'
    BY <1>4 DEF WalkFail, Stuck
  <2>2. QED
    BY <2>1 DEF ShownInv
<1>5. CASE Publish(s)
  <2>1. CASE Due
    BY <1>5, <2>1 DEF Publish, Due, Pending, ShownInv
  <2>2. CASE disk = {}
    BY <1>5, <2>2 DEF Publish, ShownInv
  <2>3. CASE WalksRich /\ disk # {}
    <3>1. seen[s] = disk /\ \A g \in seen[s] : row[g] = "matched" => g \in hydrated[s]
      BY <1>5, <2>3 DEF Publish, WalksRich
    <3>2. games' = seen[s] /\ rich' = hydrated[s] /\ row' = row
      BY <1>5, <2>3, <3>1 DEF Publish
    <3>3. \A t \in Scanners : pc'[t] # "walk"
      BY <1>5 DEF Publish
    <3>4. QED
      BY <3>1, <3>2, <3>3 DEF ShownInv, Shown
  <2>4. ~Stuck /\ ~Shown
    BY <1>5 DEF Publish, Stuck, Shown
  <2>5. QED
    BY <2>1, <2>2, <2>3, <2>4 DEF ShownInv
<1>6. CASE Finish(s)
  <2>1. CASE Due
    BY <1>6, <2>1 DEF Finish, Due, Pending, ShownInv
  <2>2. CASE disk = {}
    BY <1>6, <2>2 DEF Finish, ShownInv
  <2>3. CASE Shown
    BY <1>6, <2>3 DEF Finish, Shown, ShownInv
  <2>4. ~Stuck /\ ~WalksRich
    BY <1>6 DEF Finish, Stuck, WalksRich
  <2>5. QED
    BY <2>1, <2>2, <2>3, <2>4 DEF ShownInv
<1>7. ASSUME NEW g \in Games, Visit(s, g)
      PROVE  ShownInv'
  <2>1. pc' = pc /\ pc[s] = "walk" /\ row' = row
    BY <1>7 DEF Visit
  <2>2. CASE Due
    BY <1>7, <2>1, <2>2 DEF Visit, Due, Pending, ShownInv
  <2>3. CASE disk = {}
    BY <1>7, <2>3 DEF Visit, ShownInv
  <2>4. CASE WalksRich
    <3>1. /\ seen[s] \cup todo[s] = disk
          /\ \A h \in seen[s] : row[h] = "matched" => h \in hydrated[s]
      BY <2>1, <2>4 DEF WalksRich
    <3>2. /\ seen'[s] = seen[s] \cup {g} /\ todo'[s] = todo[s] \ {g} /\ g \in todo[s] /\ disk' = disk
          /\ hydrated'[s] = IF row[g] = "matched" THEN hydrated[s] \cup {g} ELSE hydrated[s]
      BY <1>7 DEF Visit
    <3>3. /\ seen'[s] \cup todo'[s] = disk'
          /\ \A h \in seen'[s] : row'[h] = "matched" => h \in hydrated'[s]
      BY <2>1, <3>1, <3>2
    <3>4. QED
      BY <2>1, <3>3 DEF ShownInv, WalksRich
  <2>5. ~Stuck /\ ~Shown
    BY <2>1 DEF Stuck, Shown
  <2>6. QED
    BY <2>2, <2>3, <2>4, <2>5 DEF ShownInv
<1>8. QED
  BY <1>1, <1>2, <1>3, <1>4, <1>5, <1>6, <1>7 DEF Scan

\* So does every step: a lookup writes a row only to have the library scanned when
\* its batch is complete, or noted as unshown.
LEMMA StepShows ==
    ASSUME TypeOK, Exclusive, LooksUp, ShownInv, Next
    PROVE  ShownInv'
<1> USE DEF TypeOK, Goto, diskVars, watchVars, throttle, walk, list, enricherVars
<1>1. ASSUME NEW g \in Games, Create(g) \/ Remove(g)
      PROVE  ShownInv'
  <2>1. events' > 0
    BY <1>1 DEF Create, Remove, Notify
  <2>2. QED
    BY <2>1 DEF ShownInv, Due, Pending
<1>2. CASE Unnoticed
  BY <1>2 DEF Unnoticed, ShownInv, Due, Pending
<1>3. ASSUME UNCHANGED <<disk, events, overlooked, isScanning, delayed, spawned, pc, todo, seen,
                         hydrated, games, rich, row, batch, unshown>>
      PROVE  ShownInv'
  BY <1>3 DEF ShownInv, Due, Pending, Stuck, WalksRich, Shown
<1>4. CASE Connect
  BY <1>3, <1>4 DEF Connect
<1>5. CASE Listen
  BY <1>3, <1>5 DEF Listen
<1>6. CASE Event
  <2>1. "watcher" \in Scanners /\ pc'["watcher"] = "call"
    BY <1>6 DEF Event, Scanners
  <2>2. QED
    BY <2>1 DEF ShownInv, Due, Pending
<1>7. CASE Respawn
  <2>1. "again" \in Scanners /\ pc'["again"] = "call"
    BY <1>7 DEF Respawn, Scanners
  <2>2. QED
    BY <2>1 DEF ShownInv, Due, Pending
<1>8. CASE RespawnDelayed
  BY <1>8 DEF RespawnDelayed, ShownInv, Due, Pending
<1>9. CASE Pop
  BY <1>3, <1>9 DEF Pop
<1>10. CASE ProcessOne
  <2>1. batch' # 0 \/ unshown' \/ pc'["enricher"] = "call"
    <3>1. "enricher" \in Scanners
      BY DEF Scanners
    <3>2. QED
      BY <1>10, <3>1 DEF ProcessOne
  <2>2. "enricher" \in Scanners
    BY DEF Scanners
  <2>3. QED
    BY <2>1, <2>2 DEF ShownInv, Due, Pending
<1>11. ASSUME NEW s \in Scanners, Scan(s)
       PROVE  ShownInv'
  BY <1>11, ScanShows
<1>12. QED
  BY <1>1, <1>2, <1>4, <1>5, <1>6, <1>7, <1>8, <1>9, <1>10, <1>11 DEF Next, Again, Enrich

\* When everything settled and the last batch of lookups is complete, the library
\* shows every match of the cache, however the scans were delayed and overtaken
\* (OnBatchComplete of worker.go, Scan of library.go).
THEOREM EnrichedShownHolds == Spec => []EnrichedShown
<1>1. Init => FreshInv /\ ShownInv
  <2>1. Init => ShownInv
    BY DEF Init, ShownInv, Due, Pending, Scanners
  <2>2. QED
    BY <2>1, FreshInit
<1>2. TypeOK /\ FreshInv /\ ShownInv /\ [Next]_vars => FreshInv' /\ ShownInv'
  <2>1. ASSUME FreshInv, ShownInv, UNCHANGED vars
        PROVE  FreshInv' /\ ShownInv'
    <3>1. UNCHANGED <<disk, events, overlooked, isScanning, delayed, spawned, pc, todo, seen,
                      hydrated, games, rich, row, batch, unshown, lookup>>
      BY <2>1 DEF vars, diskVars, watchVars, throttle, walk, list, enricherVars
    <3>2. Exclusive' /\ LooksUp' /\ Covered'
      BY <2>1, <3>1 DEF FreshInv, Exclusive, LooksUp, Covered, Pending, Stuck, WalksAll, Published
    <3>3. ShownInv'
      BY <2>1, <3>1 DEF ShownInv, Due, Pending, Stuck, WalksRich, Shown
    <3>4. QED
      BY <3>2, <3>3 DEF FreshInv
  <2>2. QED
    BY <2>1, ExclusiveStep, StepCovers, StepShows DEF FreshInv
<1>3. TypeOK /\ FreshInv /\ ShownInv => EnrichedShown
  <2>1. SUFFICES ASSUME TypeOK, FreshInv, ShownInv, Settled, ~overlooked, ~unshown, disk # {}, batch = 0
                 PROVE  \A g \in games : row[g] = "matched" => g \in rich
    BY DEF EnrichedShown
  <2>2. QED
    BY <2>1 DEF TypeOK, FreshInv, Exclusive, ShownInv, Due, Pending, Stuck, WalksRich, Shown,
                Settled
<1>4. QED
  BY <1>1, <1>2, <1>3, TypeCorrect, PTL DEF Spec

-----------------------------------------------------------------------------
(***************************************************************************)
(* A game is queued for a lookup once.                                     *)
(***************************************************************************)

\* What is queued or was taken out is known, and what is looked up was taken out.
QueueInv ==
    /\ \A i \in 1..Len(queue) : queue[i] \in known
    /\ taken \subseteq known
    /\ lookup # Nil => lookup \in taken
    /\ QueuedOnce

LEMMA QueueStep ==
    ASSUME TypeOK, QueueInv, Next
    PROVE  QueueInv'
<1> USE DEF TypeOK, QueueInv, QueuedOnce
<1>1. CASE UNCHANGED <<known, queue, lookup, taken, row>>
  BY <1>1
<1>2. CASE Pop
  <2>1. Len(queue) \in Nat /\ Len(queue) > 0
    BY <1>2 DEF Pop
  <2>2. /\ lookup' = queue[1] /\ known' = known /\ queue' = Tail(queue)
        /\ taken' = taken \cup {queue[1]} /\ row' = row
    BY <1>2, <2>1 DEF Pop
  <2>3. Len(queue') = Len(queue) - 1 /\ \A i \in 1..Len(queue') : queue'[i] = queue[i + 1]
    BY <2>1, <2>2
  <2>4. \A i \in 1..Len(queue') : queue'[i] \in known'
    BY <2>1, <2>2, <2>3
  <2>5. \A i, j \in 1..Len(queue') : queue'[i] = queue'[j] => i = j
    <3>1. SUFFICES ASSUME NEW i \in 1..Len(queue'), NEW j \in 1..Len(queue'),
                          queue'[i] = queue'[j]
                   PROVE  i = j
      OBVIOUS
    <3>2. i + 1 \in 1..Len(queue) /\ j + 1 \in 1..Len(queue) /\ queue[i + 1] = queue[j + 1]
      BY <2>1, <2>3, <3>1
    <3>3. i + 1 = j + 1
      BY <3>2
    <3>4. QED
      BY <2>1, <2>3, <3>3
  <2>6. \A i \in 1..Len(queue') : queue'[i] \notin taken' /\ row'[queue'[i]] = "none"
    <3>1. SUFFICES ASSUME NEW i \in 1..Len(queue')
                   PROVE  queue'[i] \notin taken' /\ row'[queue'[i]] = "none"
      OBVIOUS
    <3>2. i + 1 \in 1..Len(queue) /\ 1 \in 1..Len(queue) /\ i + 1 # 1
      BY <2>1, <2>3
    <3>3. queue[i + 1] # queue[1] /\ queue[i + 1] \notin taken /\ row[queue[i + 1]] = "none"
      BY <3>2
    <3>4. QED
      BY <2>2, <2>3, <3>3
  <2>7. taken' \subseteq known' /\ lookup' \in taken'
    BY <2>1, <2>2
  <2>8. QED
    BY <2>4, <2>5, <2>6, <2>7
<1>3. CASE ProcessOne
  <2>1. lookup' = Nil /\ queue' = queue /\ known' = known /\ taken' = taken
    BY <1>3 DEF ProcessOne
  <2>2. \A g \in Games : g # lookup => row'[g] = row[g]
    BY <1>3 DEF ProcessOne
  <2>3. \A i \in 1..Len(queue) : queue[i] \in Games /\ queue[i] # lookup
    BY <1>3 DEF ProcessOne
  <2>4. QED
    BY <2>1, <2>2, <2>3
<1>4. ASSUME NEW s \in Scanners, NEW g \in Games, Visit(s, g)
      PROVE  QueueInv'
  <2>1. lookup' = lookup /\ known' = known \cup {g} /\ taken' = taken /\ row' = row
    BY <1>4 DEF Visit, Enqueue
  <2>2. CASE g \in known \/ row[g] # "none"
    <3>1. queue' = queue
      BY <1>4, <2>2 DEF Visit, Enqueue
    <3>2. QED
      BY <2>1, <3>1
  <2>3. CASE ~(g \in known \/ row[g] # "none")
    <3>1. queue' = Append(queue, g)
      BY <1>4, <2>3 DEF Visit, Enqueue
    <3>2. Len(queue') = Len(queue) + 1 /\ queue'[Len(queue) + 1] = g
      BY <3>1
    <3>3. \A i \in 1..Len(queue) : queue'[i] = queue[i]
      BY <3>1
    <3>4. g \notin known /\ g \notin taken /\ row[g] = "none"
      BY <2>3
    <3>5. \A i \in 1..Len(queue') : i \in 1..Len(queue) \/ i = Len(queue) + 1
      BY <3>2
    <3>6. \A i \in 1..Len(queue') : queue'[i] \in known'
      BY <2>1, <3>2, <3>3, <3>5
    <3>7. \A i \in 1..Len(queue') : queue'[i] \notin taken' /\ row'[queue'[i]] = "none"
      BY <2>1, <3>2, <3>3, <3>4, <3>5
    <3>8. \A i \in 1..Len(queue) : queue'[i] # g
      <4>1. \A i \in 1..Len(queue) : queue[i] \in known
        OBVIOUS
      <4>2. QED
        BY <3>3, <3>4, <4>1
    <3>9. \A i, j \in 1..Len(queue') : queue'[i] = queue'[j] => i = j
      <4>1. TAKE i, j \in 1..Len(queue')
      <4>2. HAVE queue'[i] = queue'[j]
      <4>3. CASE i \in 1..Len(queue) /\ j \in 1..Len(queue)
        BY <3>3, <4>2, <4>3 DEF QueueInv, QueuedOnce
      <4>4. CASE i = Len(queue) + 1 \/ j = Len(queue) + 1
        BY <3>2, <3>5, <3>8, <4>2, <4>4
      <4>5. QED
        BY <3>5, <4>3, <4>4
    <3>10. QED
      BY <2>1, <3>6, <3>7, <3>9
  <2>4. QED
    BY <2>2, <2>3
<1>5. Pop \/ ProcessOne \/ (\E s \in Scanners, g \in Games : Visit(s, g))
        \/ UNCHANGED <<known, queue, lookup, taken, row>>
  BY DEF Next, Create, Remove, Change, Unnoticed, Early, MoveOut, Connect, Listen, Event,
         Again, Respawn, RespawnDelayed, Enrich, Scan, Delay, Begin, List, WalkFail, Publish,
         Finish, enricherVars
<1>6. QED
  BY <1>1, <1>2, <1>3, <1>4, <1>5

\* No game waits twice for its lookup, nor after it was taken out for one since
\* the worker started, nor with its answer in the cache (Enqueue and Run of
\* enricher.go).
THEOREM QueuedOnceHolds == Spec => []QueuedOnce
<1>1. Init => QueueInv
  BY DEF Init, QueueInv, QueuedOnce
<1>2. TypeOK /\ QueueInv /\ [Next]_vars => QueueInv'
  <2>1. ASSUME QueueInv, UNCHANGED vars
        PROVE  QueueInv'
    BY <2>1 DEF QueueInv, QueuedOnce, vars, enricherVars
  <2>2. QED
    BY <2>1, QueueStep
<1>3. QueueInv => QueuedOnce
  BY DEF QueueInv
<1>4. QED
  BY <1>1, <1>2, <1>3, TypeCorrect, PTL DEF Spec

-----------------------------------------------------------------------------
(***************************************************************************)
(* The saved states.                                                       *)
(***************************************************************************)

(***************************************************************************)
(* Type correctness.                                                       *)
(***************************************************************************)

\* What a fault and its absence do to the bounds.
LEMMA Bounds ==
    ASSUME SaveTypeOK, Fault \/ NoFault
    PROVE  kills' \in 0..MaxKills /\ faults' \in 0..MaxFaults
BY SaveStateAssumption DEF SaveTypeOK, Fault, NoFault, bounds

\* The end of the worker keeps the types.
LEMMA DieTypes ==
    ASSUME SaveTypeOK, Die, kills' \in 0..MaxKills, faults' \in 0..MaxFaults,
           op = "restore" => held \in States
    PROVE  SaveTypeOK'
<1> USE DEF SaveTypeOK, Die, config
<1>1. dat' \in File
  BY DEF File
<1>2. suspects' \in SUBSET States /\ loose' \in SUBSET States
  OBVIOUS
<1>3. QED
  BY <1>1, <1>2 DEF File

\* A state is restored or written, and is one.
Holds == op \in {"restore", "write"} => held \in States

\* A save keeps the types.
LEMMA SaveTypes ==
    ASSUME SaveTypeOK, Holds, NEW asked \in BOOLEAN, Save(asked)
    PROVE  SaveTypeOK' /\ Holds'
<1> USE DEF SaveTypeOK, Holds, File, Return, SaveRAM, Uploads, config
<1>1. UNCHANGED <<config, suspects, loose>> /\ op = "none"
  BY DEF Save
<1>2. CASE SaveEarly(asked)
  BY <1>1, <1>2, Bounds DEF SaveEarly
<1>3. CASE SaveFailed(asked)
  BY <1>1, <1>3, Bounds DEF SaveFailed
<1>4. ASSUME NEW s \in States \ used, SaveLater(s, asked)
      PROVE  SaveTypeOK' /\ Holds'
  BY <1>1, <1>4, Bounds DEF SaveLater
<1>5. ASSUME NEW s \in States \ used, SaveNow(s, asked)
      PROVE  SaveTypeOK' /\ Holds'
  BY <1>1, <1>5, Bounds DEF SaveNow
<1>6. QED
  BY <1>2, <1>3, <1>4, <1>5 DEF Save

\* So do its writes.
LEMMA WriteTypes ==
    ASSUME SaveTypeOK, Holds, SaveStep
    PROVE  SaveTypeOK' /\ Holds'
<1> USE DEF SaveTypeOK, Holds, File, Return, SaveRAM, Asked, config, process, bounds
<1>1. CASE WriteDone
  BY <1>1 DEF WriteDone
<1>2. CASE WriteFail
  BY <1>2, Bounds DEF WriteFail, history
<1>3. CASE Upload
  <2>1. stored' \in File
    BY <1>3 DEF Upload
  <2>2. QED
    BY <1>3, <2>1 DEF Upload, history
<1>4. ASSUME NEW s \in States, WriteLater(s)
      PROVE  SaveTypeOK' /\ Holds'
  BY <1>4 DEF WriteLater
<1>5. QED
  BY <1>1, <1>2, <1>3, <1>4 DEF SaveStep

\* So does a load.
LEMMA LoadTypes ==
    ASSUME SaveTypeOK, Holds, LoadStep
    PROVE  SaveTypeOK' /\ Holds'
<1> USE DEF SaveTypeOK, Holds, File, config, history
<1>1. CASE LoadNothing
  <2>1. Remaining \in File
    BY DEF Remaining
  <2>2. QED
    BY <1>1, <2>1 DEF LoadNothing, bounds
<1>2. CASE Quarantine
  BY <1>2, Bounds DEF Quarantine, LoadState
<1>3. CASE LoadInPlace
  BY <1>3, Bounds DEF LoadInPlace, LoadState
<1>4. CASE Restore
  BY <1>4, Bounds DEF Restore, Restored
<1>5. CASE StaysAside
  BY <1>5, Bounds DEF StaysAside, Restored
<1>6. CASE Refuse
  BY <1>6, Bounds DEF Refuse, Restored
<1>7. CASE Crash
  <2>1. SaveTypeOK'
    BY <1>7, DieTypes DEF Crash, bounds
  <2>2. Holds'
    BY <1>7 DEF Crash, Die
  <2>3. QED
    BY <2>1, <2>2
<1>8. QED
  BY <1>1, <1>2, <1>3, <1>4, <1>5, <1>6, <1>7 DEF LoadStep

\* So does every step.
LEMMA SaveStepTypes ==
    ASSUME SaveTypeOK, Holds, SaveNext
    PROVE  SaveTypeOK' /\ Holds'
<1> USE DEF SaveTypeOK, Holds, config, files, process, history, bounds
<1>1. CASE Launch
  <2>1. dat' \in File
    BY <1>1 DEF Launch
  <2>2. QED
    BY <1>1, <2>1 DEF Launch
<1>2. CASE Start
  BY <1>2 DEF Start
<1>3. CASE Close
  BY <1>3 DEF Close
<1>4. CASE Kill
  <2>1. kills' \in 0..MaxKills /\ faults' \in 0..MaxFaults
    BY <1>4, SaveStateAssumption DEF Kill
  <2>2. SaveTypeOK'
    BY <1>4, <2>1, DieTypes DEF Kill
  <2>3. Holds'
    BY <1>4 DEF Kill, Die
  <2>4. QED
    BY <2>2, <2>3
<1>5. CASE LoadGame
  BY <1>5 DEF LoadGame
<1>6. ASSUME NEW asked \in BOOLEAN, Save(asked)
      PROVE  SaveTypeOK' /\ Holds'
  BY <1>6, SaveTypes
<1>7. CASE SaveStep
  BY <1>7, WriteTypes
<1>8. CASE LoadStep
  BY <1>8, LoadTypes
<1>9. QED
  BY <1>1, <1>2, <1>3, <1>4, <1>5, <1>6, <1>7, <1>8 DEF SaveNext

\* The types, and what the mutex's holder works on.
LEMMA Typed == SaveSpec => [](SaveTypeOK /\ Holds)
<1>1. SaveInit => SaveTypeOK /\ Holds
  <2>1. 0 \in 0..MaxKills /\ 0 \in 0..MaxFaults
    BY SaveStateAssumption
  <2>2. QED
    BY <2>1 DEF SaveInit, SaveTypeOK, Holds, File
<1>2. SaveTypeOK /\ Holds /\ [SaveNext]_saveVars => (SaveTypeOK /\ Holds)'
  <2>1. ASSUME SaveTypeOK, Holds, UNCHANGED saveVars
        PROVE  SaveTypeOK' /\ Holds'
    BY <2>1 DEF SaveTypeOK, Holds, saveVars, config, files, process, history, bounds
  <2>2. QED
    BY <2>1, SaveStepTypes
<1>3. QED
  BY <1>1, <1>2, PTL DEF SaveSpec

\* Every variable keeps its type.
THEOREM SaveTypeCorrect == SaveSpec => []SaveTypeOK
<1>1. SaveTypeOK /\ Holds => SaveTypeOK
  OBVIOUS
<1>2. QED
  BY <1>1, Typed, PTL

-----------------------------------------------------------------------------
(***************************************************************************)
(* The file never goes back to an older state.                             *)
(***************************************************************************)

\* What is restored is the newest state, and while it is no other is written.
OrderInv ==
    options \cap {"nonblock", "cloud"} = {} =>
        /\ writes = {}
        /\ dat \in States => dat = latest
        /\ op = "restore" => held = latest

LEMMA OrderStep ==
    ASSUME SaveTypeOK, OrderInv, SaveNext
    PROVE  OrderInv'
<1> SUFFICES ASSUME options' \cap {"nonblock", "cloud"} = {}
             PROVE  /\ writes' = {}
                    /\ dat' \in States => dat' = latest'
                    /\ op' = "restore" => held' = latest'
  BY DEF OrderInv
<1>1. options' = options
  BY DEF SaveNext, Launch, Start, Close, Kill, Die, Save, LoadGame, SaveStep, WriteDone, WriteFail,
         Upload, WriteLater, LoadStep, LoadNothing, Quarantine, LoadInPlace, LoadState,
         Restore, StaysAside, Refuse, Restored, Crash, config
<1>2. /\ writes = {}
      /\ dat \in States => dat = latest
      /\ op = "restore" => held = latest
      /\ "cloud" \notin options
      /\ "nonblock" \notin options
  BY <1>1 DEF OrderInv
<1> USE <1>2, SaveStateAssumption
<1> USE DEF SaveTypeOK, files, process, history
<1>3. CASE Launch
  BY <1>3 DEF Launch
<1>4. CASE Start
  BY <1>4 DEF Start
<1>5. CASE Close
  BY <1>5 DEF Close
<1>6. CASE Die
  BY <1>6 DEF Die
<1>7. CASE LoadGame
  BY <1>7 DEF LoadGame
<1>8. ASSUME NEW asked \in BOOLEAN, Save(asked)
      PROVE  /\ writes' = {}
             /\ dat' \in States => dat' = latest'
             /\ op' = "restore" => held' = latest'
  BY <1>8 DEF Save, SaveEarly, SaveFailed, SaveLater, SaveNow, Return
<1>9. CASE SaveStep
  BY <1>9 DEF SaveStep, WriteDone, WriteFail, Upload, WriteLater, Return
<1>10. CASE LoadStep
  <2>1. CASE LoadNothing
    BY <2>1 DEF LoadNothing
  <2>2. CASE Quarantine \/ LoadInPlace
    <3>1. Remaining \in States => Remaining = dat
      BY DEF Remaining
    <3>2. QED
      BY <2>2, <3>1 DEF Quarantine, LoadInPlace, LoadState
  <2>3. CASE Restore \/ StaysAside \/ Refuse
    BY <2>3 DEF Restore, StaysAside, Refuse, Restored
  <2>4. CASE Crash
    BY <2>4, <1>6 DEF Crash
  <2>5. QED
    BY <1>10, <2>1, <2>2, <2>3, <2>4 DEF LoadStep
<1>11. QED
  BY <1>3, <1>4, <1>5, <1>6, <1>7, <1>8, <1>9, <1>10 DEF SaveNext, Kill

\* Without the two options that write behind the frontend's back, the saved state
\* is always the newest one (Save and Load under the frontend's mutex).
THEOREM NeverOlderHolds == SaveSpec => []NeverOlder
<1>1. SaveInit => OrderInv
  BY SaveStateAssumption DEF SaveInit, OrderInv
<1>2. SaveTypeOK /\ OrderInv /\ [SaveNext]_saveVars => OrderInv'
  <2>1. ASSUME OrderInv, UNCHANGED saveVars
        PROVE  OrderInv'
    BY <2>1 DEF OrderInv, saveVars, config, files, process, history
  <2>2. QED
    BY <2>1, OrderStep
<1>3. OrderInv => NeverOlder
  BY DEF OrderInv, NeverOlder
<1>4. QED
  BY <1>1, <1>2, <1>3, SaveTypeCorrect, PTL DEF SaveSpec

-----------------------------------------------------------------------------
(***************************************************************************)
(* No state takes the worker down twice.                                   *)
(***************************************************************************)

\* A state is written once: what is in a file, in the core or suspect has been
\* written, or is written by the save that holds the mutex.
WrittenOnce ==
    /\ writes \subseteq used
    /\ {dat, loading, stored} \cap States \subseteq used \ writes
    /\ op \in {"restore", "write"} => held \in used \ writes
    /\ suspects \subseteq used \ writes
    /\ op = "write" => held \notin suspects

\* No upload is due when a state is loaded, and nothing holds the mutex of a game
\* that does not run.
NoUpload ==
    /\ op \in {"load", "restore"} => upload = "no"
    /\ run = "starting" => upload = "no"
    /\ run \in {"down", "starting"} => op = "none"

\* A state in quarantine is not in the file as well, and one that is restored in
\* the file could not be moved aside; a suspect in the file could not either, or
\* comes from the cloud.
SuspectsGone ==
    /\ op = "restore" /\ quarantined => dat # held
    /\ op = "restore" /\ ~quarantined => held \in loose
    /\ dat \in suspects => dat = stored \/ dat \in loose
    /\ NoCrashLoop

CrashInv == WrittenOnce /\ NoUpload /\ SuspectsGone

\* The end of the worker makes a suspect of the state that is restored, which in
\* quarantine is not in the file.
LEMMA DieSuspects ==
    ASSUME SaveTypeOK, CrashInv, Die
    PROVE  CrashInv'
<1> USE SaveStateAssumption
<1> USE DEF SaveTypeOK, CrashInv, Die
<1>1. dat' \in {dat, Torn} /\ loading' = loading /\ stored' = stored /\ used' = used
        /\ writes' = {} /\ op' = "none" /\ upload' = "no" /\ run' = "down"
  BY DEF config
<1>2. suspects' \subseteq used
  BY DEF WrittenOnce
<1>3. WrittenOnce'
  BY <1>1, <1>2 DEF WrittenOnce
<1>4. NoUpload'
  BY <1>1 DEF NoUpload
<1>5. dat' \in suspects' => dat' = stored' \/ dat' \in loose'
  BY <1>1 DEF SuspectsGone
<1>6. QED
  BY <1>1, <1>3, <1>4, <1>5 DEF SuspectsGone, NoCrashLoop

LEMMA SaveSuspects ==
    ASSUME SaveTypeOK, CrashInv, NEW asked \in BOOLEAN, Save(asked)
    PROVE  CrashInv'
<1> USE SaveStateAssumption
<1> USE DEF SaveTypeOK, CrashInv, WrittenOnce, NoUpload, SuspectsGone, NoCrashLoop, Return, Uploads
<1>1. UNCHANGED <<suspects, loose>> /\ op = "none" /\ run \notin {"down", "starting"}
  BY DEF Save
<1>2. CASE SaveEarly(asked)
  BY <1>1, <1>2 DEF SaveEarly
<1>3. CASE SaveFailed(asked)
  BY <1>1, <1>3 DEF SaveFailed
<1>4. ASSUME NEW s \in States \ used, SaveLater(s, asked)
      PROVE  CrashInv'
  BY <1>1, <1>4 DEF SaveLater
<1>5. ASSUME NEW s \in States \ used, SaveNow(s, asked)
      PROVE  CrashInv'
  <2>1. s \notin writes /\ s \notin suspects /\ Torn \notin suspects
    BY DEF SaveTypeOK
  <2>2. WrittenOnce'
    BY <1>1, <1>5, <2>1 DEF SaveNow
  <2>3. NoUpload'
    BY <1>1, <1>5 DEF SaveNow
  <2>4. SuspectsGone'
    BY <1>1, <1>5, <2>1 DEF SaveNow
  <2>5. QED
    BY <2>2, <2>3, <2>4
<1>6. QED
  BY <1>2, <1>3, <1>4, <1>5 DEF Save

LEMMA WriteSuspects ==
    ASSUME SaveTypeOK, CrashInv, SaveStep
    PROVE  CrashInv'
<1> USE SaveStateAssumption
<1> USE DEF SaveTypeOK, CrashInv, WrittenOnce, NoUpload, SuspectsGone, NoCrashLoop, Return, config,
            process, history
<1>1. CASE WriteDone
  BY <1>1 DEF WriteDone
<1>2. CASE WriteFail
  BY <1>2 DEF WriteFail
<1>3. CASE Upload
  BY <1>3 DEF Upload
<1>4. ASSUME NEW s \in States, WriteLater(s)
      PROVE  CrashInv'
  BY <1>4 DEF WriteLater
<1>5. QED
  BY <1>1, <1>2, <1>3, <1>4 DEF SaveStep

LEMMA LoadSuspects ==
    ASSUME SaveTypeOK, CrashInv, LoadStep
    PROVE  CrashInv'
<1> USE SaveStateAssumption
<1> USE DEF SaveTypeOK, CrashInv, WrittenOnce, NoUpload, SuspectsGone, NoCrashLoop, history
<1>1. Remaining \in States => Remaining = dat
  BY DEF Remaining
<1>2. CASE LoadNothing
  <2>1. Remaining \in {NoState, dat}
    BY DEF Remaining
  <2>2. QED
    BY <1>2, <2>1 DEF LoadNothing
<1>3. CASE Quarantine
  BY <1>1, <1>3 DEF Quarantine, LoadState
<1>4. CASE LoadInPlace
  BY <1>1, <1>4 DEF LoadInPlace, LoadState
<1>5. CASE Restore
  BY <1>5 DEF Restore, Restored
<1>6. CASE StaysAside
  BY <1>6 DEF StaysAside, Restored
<1>7. CASE Refuse
  BY <1>7 DEF Refuse, Restored
<1>8. CASE Crash
  BY <1>8, DieSuspects DEF Crash
<1>9. QED
  BY <1>2, <1>3, <1>4, <1>5, <1>6, <1>7, <1>8 DEF LoadStep

LEMMA CrashStep ==
    ASSUME SaveTypeOK, CrashInv, SaveNext
    PROVE  CrashInv'
<1> USE DEF CrashInv, WrittenOnce, NoUpload, SuspectsGone, NoCrashLoop, files, history
<1>1. CASE Launch
  <2>1. dat' \in {dat, stored}
    BY <1>1 DEF Launch
  <2>2. QED
    BY <1>1, <2>1 DEF Launch
<1>2. CASE Start
  BY <1>2 DEF Start
<1>3. CASE Close
  BY <1>3 DEF Close
<1>4. CASE Kill
  BY <1>4, DieSuspects DEF Kill
<1>5. CASE LoadGame
  BY <1>5 DEF LoadGame
<1>6. ASSUME NEW asked \in BOOLEAN, Save(asked)
      PROVE  CrashInv'
  BY <1>6, SaveSuspects
<1>7. CASE SaveStep
  BY <1>7, WriteSuspects
<1>8. CASE LoadStep
  BY <1>8, LoadSuspects
<1>9. QED
  BY <1>1, <1>2, <1>3, <1>4, <1>5, <1>6, <1>7, <1>8 DEF SaveNext

\* A state whose restore did not return is not given to the core again, unless it
\* is the one in the cloud, or could not be moved aside and was in no quarantine
\* at a restore that did not return since (Frontend.Load).
THEOREM NoCrashLoopHolds == SaveSpec => []NoCrashLoop
<1>1. SaveInit => CrashInv
  BY SaveStateAssumption DEF SaveInit, CrashInv, WrittenOnce, NoUpload, SuspectsGone, NoCrashLoop
<1>2. SaveTypeOK /\ CrashInv /\ [SaveNext]_saveVars => CrashInv'
  <2>1. ASSUME CrashInv, UNCHANGED saveVars
        PROVE  CrashInv'
    BY <2>1 DEF CrashInv, WrittenOnce, NoUpload, SuspectsGone, NoCrashLoop, saveVars, config, files,
                process, history
  <2>2. QED
    BY <2>1, CrashStep
<1>3. CrashInv => NoCrashLoop
  BY DEF CrashInv, SuspectsGone
<1>4. QED
  BY <1>1, <1>2, <1>3, SaveTypeCorrect, PTL DEF SaveSpec
=============================================================================
