-------------------------------- MODULE Library --------------------------------
(***************************************************************************)
(* The worker's library of games (games/library.go) and its enricher       *)
(* (worker/enricher), which fills in what the library shows of a game.     *)
(*                                                                         *)
(* Scan walks the library's directory and publishes what it found.  It is  *)
(* called once at start, by the watcher goroutine for each change of the   *)
(* directory, and by the enricher after each batch of lookups.  While a    *)
(* scan runs the others are delayed: they only leave a mark, and the scan  *)
(* that ends with the mark set starts another one.                         *)
(*                                                                         *)
(* A game is one file in the directory, or a directory of its own there    *)
(* (a disc dump).  Hidden, ignored and unsupported files are left out, and *)
(* so are the ids of saved games, which Scan collects as well.             *)
(***************************************************************************)
EXTENDS Naturals, Sequences

CONSTANTS
    Games,
    Foldered,     \* the games that have a directory of their own
    Nil,
    BatchSize,    \* the lookups of a batch
    MaxChanges    \* bound: the changes of the directory

ASSUME LibraryAssumption ==
    /\ Foldered \subseteq Games
    /\ Nil \notin Games
    /\ BatchSize \in Nat \ {0}
    /\ MaxChanges \in Nat

VARIABLES
    disk,        \* the games in the directory
    changes,     \* the number of changes so far
    watching,    \* watcher.Add was called
    events,      \* the changes the watcher has not read
    overlooked,  \* history: the directory changed without an event since the last walk
    isScanning,
    delayed,     \* isScanningDelayed
    spawned,     \* the goroutines started for a delayed scan that did not run yet
    pc,          \* where each goroutine is in Scan
    todo,        \* the entries of the directory it has not visited
    seen,        \* the games it found ...
    hydrated,    \* ... and those of them that got their cached fields
    games,       \* library.games
    rich,        \* the games of the library that show their fields
    row,         \* the enricher's cache, on the disk
    known,       \* Enricher.known
    queue,       \* Enricher.queue
    lookup,      \* the game the enricher looks up
    taken,       \* history: the games it took out of the queue
    batch,       \* the lookups since the last batch was complete
    connected,   \* the worker has, or had, a coordinator
    unshown      \* history: a batch was complete without a rescan since the last walk

diskVars == <<disk, changes>>
watchVars == <<watching, events, overlooked>>
throttle == <<isScanning, delayed, spawned>>
walk == <<todo, seen, hydrated>>
list == <<games, rich>>
enricherVars == <<row, known, queue, lookup, taken, batch, unshown>>
vars == <<diskVars, watchVars, throttle, pc, walk, list, enricherVars, connected>>

\* The start of the worker, the watcher, the enricher, and a delayed scan.
Scanners == {"start", "watcher", "enricher", "again"}
Walking == {"list", "walk", "publish"}
Places == {"idle", "call"} \cup Walking

\* The enricher's cache outlives the worker.
Init ==
    /\ disk \in SUBSET Games
    /\ changes = 0
    /\ watching = FALSE
    /\ events = 0
    /\ overlooked = FALSE
    /\ isScanning = FALSE
    /\ delayed = FALSE
    /\ spawned = 0
    /\ pc = [s \in Scanners |-> IF s = "start" THEN "call" ELSE "idle"]
    /\ todo = [s \in Scanners |-> {}]
    /\ seen = [s \in Scanners |-> {}]
    /\ hydrated = [s \in Scanners |-> {}]
    /\ games = {}
    /\ rich = {}
    /\ row \in [Games -> {"none", "unmatched", "matched"}]
    /\ known = {}
    /\ queue = <<>>
    /\ lookup = Nil
    /\ taken = {}
    /\ batch = 0
    /\ connected = FALSE
    /\ unshown = FALSE

Goto(s, from, to) ==
    /\ pc[s] = from
    /\ pc' = [pc EXCEPT ![s] = to]
-----------------------------------------------------------------------------
(***************************************************************************)
(* The directory and its watcher.                                          *)
(***************************************************************************)

\* A game is put into the directory, or removed from it, as a whole.
Change(now) ==
    /\ changes < MaxChanges
    /\ changes' = changes + 1
    /\ disk' = now
    /\ UNCHANGED <<watching, throttle, pc, walk, list, enricherVars, connected>>

Notify == watching /\ events' = events + 1 /\ UNCHANGED overlooked

Create(g) == g \notin disk /\ Change(disk \cup {g}) /\ Notify
Remove(g) == g \in disk /\ Change(disk \ {g}) /\ Notify

\* A change before the watcher listens, and a rename: the watcher reads the
\* events that are exactly Create or Remove.
Early == ~watching /\ \E now \in SUBSET Games : now # disk /\ Change(now)
MoveOut == \E g \in disk : Change(disk \ {g})
Unnoticed ==
    /\ overlooked' = TRUE
    /\ UNCHANGED events
    /\ Early \/ MoveOut

\* watcher.Add
Listen ==
    /\ ~watching
    /\ watching' = TRUE
    /\ UNCHANGED <<diskVars, events, overlooked, throttle, pc, walk, list, enricherVars,
                   connected>>

\* case event, ok := <-watcher.Events
Event ==
    /\ events > 0
    /\ events' = events - 1
    /\ Goto("watcher", "idle", "call")
    /\ UNCHANGED <<diskVars, watching, overlooked, throttle, walk, list, enricherVars,
                   connected>>
-----------------------------------------------------------------------------
(***************************************************************************)
(* Scan.                                                                   *)
(***************************************************************************)

\* A scan runs: this one is delayed.
Delay(s) ==
    /\ isScanning
    /\ Goto(s, "call", "idle")
    /\ delayed' = TRUE
    /\ UNCHANGED <<diskVars, watchVars, isScanning, spawned, walk, list, enricherVars,
                   connected>>

\* Mutant of Begin: the scan does not look whether another one runs.
BeginAnyway(s) ==
    /\ Goto(s, "call", "list")
    /\ isScanning' = TRUE
    /\ UNCHANGED <<diskVars, watchVars, delayed, spawned, walk, list, enricherVars, connected>>

Begin(s) ==
    /\ ~isScanning
    /\ Goto(s, "call", "list")
    /\ isScanning' = TRUE
    /\ UNCHANGED <<diskVars, watchVars, delayed, spawned, walk, list, enricherVars, connected>>

\* go lib.Scan(), for the delayed scans.
Respawn ==
    /\ spawned > 0
    /\ spawned' = spawned - 1
    /\ Goto("again", "idle", "call")
    /\ UNCHANGED <<diskVars, watchVars, isScanning, delayed, walk, list, enricherVars,
                   connected>>

\* A second one, while the first scans, is delayed at once.
RespawnDelayed ==
    /\ spawned > 0
    /\ spawned' = spawned - 1
    /\ isScanning
    /\ delayed' = TRUE
    /\ UNCHANGED <<diskVars, watchVars, isScanning, pc, walk, list, enricherVars, connected>>

\* WalkDir reads the library's directory.
List(s) ==
    /\ Goto(s, "list", "walk")
    /\ todo' = [todo EXCEPT ![s] = disk]
    /\ seen' = [seen EXCEPT ![s] = {}]
    /\ hydrated' = [hydrated EXCEPT ![s] = {}]
    /\ overlooked' = FALSE
    /\ unshown' = FALSE
    /\ UNCHANGED <<diskVars, watching, events, throttle, list, row, known, queue, lookup,
                   taken, batch, connected>>

\* A directory that was listed and is gone: the walk, and the scan, end here.
WalkFail(s) ==
    /\ \E g \in todo[s] \cap Foldered : g \notin disk
    /\ Goto(s, "walk", "idle")
    /\ UNCHANGED <<diskVars, watchVars, throttle, walk, list, enricherVars, connected>>

\* Mutant of Enqueue: without the map of known games.
EnqueueAgain(g) == known' = known \cup {g} /\ queue' = Append(queue, g)

\* Enricher.Enqueue, after ApplyCached looked for a row.
Enqueue(g) ==
    /\ known' = known \cup {g}
    /\ queue' = IF g \in known \/ row[g] # "none" THEN queue ELSE Append(queue, g)

\* A game of the listing: enrichFn, and games = append(games, meta).
Visit(s, g) ==
    /\ Goto(s, "walk", "walk")
    /\ g \in todo[s]
    /\ g \in Foldered => g \in disk
    /\ todo' = [todo EXCEPT ![s] = @ \ {g}]
    /\ seen' = [seen EXCEPT ![s] = @ \cup {g}]
    /\ hydrated' = [hydrated EXCEPT ![s] = IF row[g] = "matched" THEN @ \cup {g} ELSE @]
    /\ Enqueue(g)
    /\ UNCHANGED <<diskVars, watchVars, throttle, list, row, lookup, taken, batch,
                   unshown, connected>>

\* The walk is complete; an empty library is not published.
Publish(s) ==
    /\ Goto(s, "walk", "publish")
    /\ todo[s] = {}
    /\ IF seen[s] = {} THEN UNCHANGED list
       ELSE games' = seen[s] /\ rich' = hydrated[s]
    /\ UNCHANGED <<diskVars, watchVars, throttle, walk, enricherVars, connected>>

\* Mutant of Finish: a delayed scan is not run again.
FinishForgets(s) ==
    /\ Goto(s, "publish", "idle")
    /\ isScanning' = FALSE
    /\ delayed' = FALSE
    /\ UNCHANGED <<diskVars, watchVars, spawned, walk, list, enricherVars, connected>>

\* "run scan again if delayed"
Finish(s) ==
    /\ Goto(s, "publish", "idle")
    /\ isScanning' = FALSE
    /\ delayed' = FALSE
    /\ spawned' = IF delayed THEN spawned + 1 ELSE spawned
    /\ UNCHANGED <<diskVars, watchVars, walk, list, enricherVars, connected>>
-----------------------------------------------------------------------------
(***************************************************************************)
(* The enricher: Run.                                                      *)
(***************************************************************************)

\* The worker has its coordinator.
Connect ==
    /\ ~connected
    /\ pc["start"] = "idle"
    /\ connected' = TRUE
    /\ UNCHANGED <<diskVars, watchVars, throttle, pc, walk, list, enricherVars>>

Pop ==
    /\ pc["start"] = "idle"
    /\ pc["enricher"] = "idle"
    /\ lookup = Nil
    /\ queue # <<>>
    /\ lookup' = Head(queue)
    /\ queue' = Tail(queue)
    /\ taken' = taken \cup {Head(queue)}
    /\ UNCHANGED <<diskVars, watchVars, throttle, pc, walk, list, row, known, batch, unshown,
                   connected>>

\* Mutant of ProcessOne: a batch is announced at its first lookup.
ProcessOneLate ==
    /\ lookup # Nil
    /\ \E r \in {"none", "unmatched", "matched"} : row' = [row EXCEPT ![lookup] = r]
    /\ lookup' = Nil
    /\ batch' = (batch + 1) % BatchSize
    /\ pc' = [pc EXCEPT !["enricher"] = IF batch = 0 /\ connected THEN "call" ELSE "idle"]
    /\ unshown' = (unshown \/ (batch' = 0 /\ ~connected))
    /\ UNCHANGED <<diskVars, watchVars, throttle, walk, list, known, queue, taken,
                   connected>>

\* processOne: an error, no confident match, or a match; after BatchSize of
\* them OnBatchComplete scans the library, if there was a coordinator.
ProcessOne ==
    /\ lookup # Nil
    /\ \E r \in {"none", "unmatched", "matched"} : row' = [row EXCEPT ![lookup] = r]
    /\ lookup' = Nil
    /\ batch' = (batch + 1) % BatchSize
    /\ pc' = [pc EXCEPT !["enricher"] = IF batch' = 0 /\ connected THEN "call" ELSE "idle"]
    /\ unshown' = (unshown \/ (batch' = 0 /\ ~connected))
    /\ UNCHANGED <<diskVars, watchVars, throttle, walk, list, known, queue, taken,
                   connected>>
-----------------------------------------------------------------------------
Scan(s) ==
    \/ Delay(s) \/ Begin(s) \/ List(s) \/ WalkFail(s) \/ Publish(s) \/ Finish(s)
    \/ \E g \in Games : Visit(s, g)

Again == Respawn \/ RespawnDelayed
Enrich == Pop \/ ProcessOne

Next ==
    \/ \E g \in Games : Create(g) \/ Remove(g)
    \/ Unnoticed
    \/ Connect \/ Listen \/ Event \/ Again \/ Enrich
    \/ \E s \in Scanners : Scan(s)

Spec == Init /\ [][Next]_vars

\* The goroutines run on; nothing makes the directory change.
FairSpec ==
    /\ Spec
    /\ WF_vars(Listen) /\ WF_vars(Event) /\ WF_vars(Again) /\ WF_vars(Enrich)
    /\ \A s \in Scanners : WF_vars(Scan(s))
-----------------------------------------------------------------------------
TypeOK ==
    /\ disk \in SUBSET Games
    /\ changes \in 0..MaxChanges
    /\ watching \in BOOLEAN
    /\ events \in Nat
    /\ overlooked \in BOOLEAN
    /\ isScanning \in BOOLEAN
    /\ delayed \in BOOLEAN
    /\ spawned \in Nat
    /\ pc \in [Scanners -> Places]
    /\ todo \in [Scanners -> SUBSET Games]
    /\ seen \in [Scanners -> SUBSET Games]
    /\ hydrated \in [Scanners -> SUBSET Games]
    /\ games \in SUBSET Games
    /\ rich \in SUBSET Games
    /\ row \in [Games -> {"none", "unmatched", "matched"}]
    /\ known \in SUBSET Games
    /\ queue \in Seq(Games)
    /\ lookup \in Games \cup {Nil}
    /\ taken \in SUBSET Games
    /\ batch \in 0..(BatchSize - 1)
    /\ connected \in BOOLEAN
    /\ unshown \in BOOLEAN

\* All that was started has ended: no event, no scan, no delayed scan is left.
Settled ==
    /\ events = 0
    /\ spawned = 0
    /\ ~isScanning
    /\ \A s \in Scanners : pc[s] = "idle"

\* When everything settled the library is the directory: of the changes that
\* came during a scan none is lost by the throttling, whichever goroutines
\* scanned and in whatever order their events, walks and delays fell (library.go,
\* "run scan again if delayed").  Not so for a change no event told of, nor
\* for a directory that is empty: an empty list is not published.
Fresh == Settled /\ ~overlooked /\ disk # {} => games = disk

\* When everything settled and the last batch of lookups was complete, each game
\* of the library that has a match in the cache shows its fields, though the
\* rescan of the batch may have been delayed, or overtaken by one that had read
\* the row before (worker.go, OnBatchComplete).
EnrichedShown ==
    Settled /\ ~overlooked /\ ~unshown /\ disk # {} /\ lookup = Nil /\ batch = 0
        => \A g \in games : row[g] = "matched" => g \in rich

\* "Idempotent - calling twice on the same game during one worker lifetime
\* only queues once" (Enricher.Enqueue): no game waits twice, nor one that was
\* taken out to be looked up since the worker started, nor one whose answer is
\* in the cache, however the scans that enqueue and the loop interleave.
QueuedOnce ==
    /\ \A i, j \in 1..Len(queue) : queue[i] = queue[j] => i = j
    /\ \A i \in 1..Len(queue) : queue[i] \notin taken /\ row[queue[i]] = "none"

\* A scan that failed, and left isScanning set.
Stuck == isScanning /\ \A s \in Scanners : pc[s] \notin Walking

\* A change that an event tells of reaches the library, unless a scan failed: the
\* failed one returns with isScanning set ("Lib scan... failed"), so that every
\* later scan is delayed for good, and the carve-out Stuck cannot be dropped.
CatchesUp == <>[](Stuck \/ overlooked \/ disk = {} \/ games = disk)
=============================================================================
