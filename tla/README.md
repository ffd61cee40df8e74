# Cloudplay in TLA+

Cloudplay streams games from emulators to browsers. It is two Go programs. The
*coordinator* keeps the browsers' and the workers' websockets and passes their
packets on. A *worker* runs one game at a time, in an emulator, and sends its
picture over WebRTC. This directory models the parts of the two where
goroutines, connections, files and crashes meet, and the achievement library that a
worker drives from several threads; it checks the models with TLC and proves the
properties that matter most with TLAPS.

## The system

| Part | Source | State | Operations | Module |
|---|---|---|---|---|
| Rooms and sessions | `pkg/coordinator/{userhandlers,worker,workerhandlers}.go`, `pkg/worker/{coordinatorhandlers,coordinator}.go`, `pkg/worker/room/room.go` | the worker's slot and RoomId as the coordinator sees them; the worker's router, room objects, sessions, hydration goroutines, emulator | WebrtcInit, StartGame, QuitGame, TerminateSession, RegisterRoom, CloseRoom, Room.Close | `Session` |
| Blocking calls | `pkg/com/{net,com,map}.go`, `pkg/network/websocket` | table of tasks, done channels, send channel, alive | Call, handleMessage, Cleanup, reader, writer | `Rpc`, `CallContract` |
| Hub | `pkg/coordinator/{hub,user,userapi}.go` | tables of workers and users, `User.w` | connect, lookup, detach, disconnect, ensureWorker | `Hub` |
| ROM hydrator | `pkg/worker/romcache/hydrator.go` | archives and payloads on the disk, a mutex per archive | Resolve, extract | `Hydrator` |
| Library, enricher | `pkg/games/library.go`, `pkg/worker/enricher`, `pkg/worker/worker.go` | list of games, scan flags, queue and cache of lookups | Scan, watch, Enqueue, Run, OnBatchComplete | `Library` |
| Saved states | `pkg/worker/caged/libretro/{frontend,storage,cloud}.go` | the state file, its quarantine, battery RAM, the cloud's copy | Save, Load, WithCloud, SaveGameState | `SaveState` |
| Achievements: the wrapper | `pkg/worker/rcheevos/{rcheevos,bridge}.go`, `bridge.c`, `upstream/src/rc_client.c` | one pending login and one pending load with their channels and handles; load states, the current game | Login, LoadGameFromFile and the answers of their requests | `RcLoad` |
| Achievements: definitions | `upstream/src/rcheevos/{condset,trigger,condition,memref,operand,value}.c` | hit counts, state of a trigger, references with their previous values | parse, one evaluation per frame | `RcConditions`, `RcTrigger`, `RcMemory` |
| Achievements: unlocks | `rc_client.c` | queue of scheduled callbacks, retries, disconnect flags, indicator | frame, idle, answers, unload | `RcAward` |
| Achievements: leaderboards | `lboard.c`, `value.c`, `rc_client.c` | attempts, trackers with their counts of references | frame, start, cancel, submit, failed read, unload | `RcLeaderboard` |
| Libretro frontend | `frontend.go`, `caged.go` | mui, done, shutdownDone | Start, Close, Shutdown | planned |
| Native emulators | `caged/nativeemu`, `caged/xemu`, `caged/flycast` | process, captures, virtual pads | Start, Close, unexpected exit | planned |
| Worker's connection | `pkg/worker/worker.go` | the coordinator's connection | retry, Reset | planned |
| Media, encoders, WebRTC | `pkg/worker/media`, `pkg/encoder`, `pkg/network/webrtc` | audio buckets, encoder handles, peer | push, encode, stop | audio buffer planned |
| Recorder | `pkg/worker/recorder` | enabled, files | Set, Start, Stop | planned |
| Search, assistant | `pkg/worker/search`, `pkg/worker/agent` | index of vectors, LRU | Upsert, Delete, Top | planned |
| Browser client | `web/js` | state machine, overlay | packets of the coordinator and the worker | candidate |
| Core binding, graphics, core downloads, S3, configuration, logging, monitoring, HTTP | the rest of `pkg` | | | not modelled: C, GPU, I/O |

How they meet: a browser's packets run on the reader goroutine of its websocket
at the coordinator. A handler there that needs the worker makes a blocking call
over the worker's websocket (`Rpc`), after reading and writing the fields of the
coordinator's `Worker` (`Session`) that it reaches through the link `User.w`
(`Hub`). The worker handles its packets one after the other, and leaves the
unpacking of an archive to a goroutine (`Hydrator`) that boots the emulator when
it is done. A room's libretro frontend loads and saves the game's state
(`SaveState`). The list of games comes from the library (`Library`). Once a game
runs, a goroutine of the worker loads its achievements (`RcLoad`), and the
emulator's thread evaluates them in each frame: their memory (`RcMemory`), their
conditions (`RcConditions`, `RcTrigger`), their leaderboards (`RcLeaderboard`). What
is earned is posted by goroutines of its own (`RcAward`).

What is hard here is that most of this state is shared without a lock between
the reader goroutine of a user, that of the worker, the handlers of the
connections and the hydration goroutine; that calls may time out and be answered
late; that an emulator core may take its process down; that a worker may end
between any two steps on the disk; and that the achievement library, written for one
thread and a mutex around single assignments, is called from the emulator's thread
and from a goroutine per answer.

What makes each part correct:

- rooms and sessions: the coordinator's view is the worker's; one room at a time;
  the emulator runs the room's game; the slot is freed; requests come to an end;
- calls: each returns once, succeeds only with its peer's answer, never hangs;
- hub: a worker keeps sessions only of users linked to it, who will terminate
  them; the coordinator survives the end of a worker;
- hydrator: no game is lost; a caller gets its own, whole payload; calls return;
- library: it catches up with the directory and shows what was looked up;
- saved states: no crash loop, no step back, no good state thrown away;
- achievements: a definition means what its conditions say one by one; nothing is
  earned at once; the game under the frames is the last one loaded; every call
  returns and every unlock is settled; the screen shows the attempts under way.

## The modules

Each module has its own header. `MC<Module>` gives a module its small instance,
`<Module>_proofs` holds its theorems. A request, room, file or picture is a
member of a small set; contents, wording and timing are left out.

**Session.** One worker with its coordinator side. `pc[u]` is where a user's
reader goroutine is in `HandleWebrtcInit`, `HandleStartGame` or `HandleQuitGame`;
each read of `u.w.RoomId` and of the slot is an action of its own, as nothing
locks them. `toWorker` and `toCoord` are the two directions of the worker's
websocket, in order. `job` splits `HandleGameStart` at its `commonStart`, so that
the hydration goroutine it started may run first. Room ids are names of games,
as for the backends xemu and flycast. Room objects are taken from `Rooms`; one
that nothing refers to any more may be used again. `leaving` are the users whose
connection ended and whose `TerminateSession` has not timed out yet: the worker
answers it with nothing. `failed` remembers a room that a failed hydration closed.

**Rpc.** One websocket: callers in `RPC.Call`, the reader in `handleMessage`, the
writer, and the goroutine of the hub that calls `Cleanup` at the end. A second
close of a channel and a send on a closed one set `process` to `"dead"`.
`CallContract` is the abstract specification: a call is pending until it succeeds
with its peer's answer or fails. `Rpc` implements it under the mapping
`Contract` at the end of the module.

**Hub.** `wstate` and `ustate` are where the connection handlers are, `rq` where a
user's reader is. The lookups of `findWorkerFor` are asked one after the other,
each against the tables as they are then. Requests that use `User.w` twice read
it twice. `cut` remembers the users whose connection a failed write ended during a
request. Of the rooms only what the lookups and gates read is kept.

**Hydrator.** The steps of `Resolve` and `extract`, each with its failure, and
`Crash` between any two. A file name is a sequence of words, so that one archive's
name may be the prefix of another's. `partial` are the payloads that are not whole,
`torn` the archives whose copy was cut short by an error that only the dropped close of
`copyFile` reported. `Alone` and `Findable` say of one archive that no other unpacks to
its path, and that `findLikelyPayload` tells its payload from the others'.

**Library.** `Scan` for each of the goroutines that may run it; a walk lists the
directory once and visits the entries in any order while the directory changes.
Three history variables: `taken` (the games taken out of the queue since the start);
and what the design leaves out, `overlooked` (the directory
changed without an event) and `unshown` (a batch ended before the worker had a
coordinator, so nobody rescanned).

**SaveState.** One room's file over any number of launches; the cloud, the writes
of `nonBlockingSave` and the battery RAM are options that `Init` chooses. A torn
file is not read as a state, because states are zipped. A write of the storage's
own goroutine is one step, torn only by the end of the process; the battery RAM
is only "there" or not. Each state is saved once, so that a state is its own date.
`suspects` are the states that were being restored when the process ended, wherever
they came from; `loose` those that were restored in place, as the rename into quarantine
had failed.

The achievement library is C, vendored under `pkg/worker/rcheevos/upstream` and
built into the worker; the models are of the build the worker makes of it (a
recursive mutex, hardcore mode, reads of memory off the emulator's thread allowed,
no reset and no logout).

**RcConditions.** One group of conditions: how the parser sorts them into classes
(`Array`, the set of the indices, as each of the code's arrays keeps their order), and
what one pass in that order does to hit counts and verdict (`TestCondset`; `Passes` is
the state after each condition of an array), with the counters that `AddHits` and its
like carry along a chain. What a comparison yields is the input `raw`.

**RcTrigger.** One achievement over those groups: a core and alternatives. `Frame` is
`rc_evaluate_trigger`, with the reset of all groups, the pause, the priming and the
measured value. The lower half of the module says what a definition means chain by
chain, in the order written; the properties compare the two.

**RcMemory.** What one condition reads. `Compiled` is the parser: it shares memory
references by address and size and turns chains of `AddSource`, `SubSource` and
`AddAddress` into modified references. `UpdateMemrefs` updates both as
`rc_update_memref_values` does, `TestCondition` compares with the optimised forms.
`Sum` and `Written` are the reference: what the definition says of the memory now
and a frame ago. Widths are scaled down: two bits for a byte, four for the 32 bits.
The processor's `&` and `^` are constants (`BitAnd`, `BitXor`), which `MCRcMemory` takes
from `Bitwise`.

**RcLoad.** `pc[c]` is where a call of the wrapper is, `at[r]` where the goroutine of
an answer is; a handler is as many steps as it has places without the mutex.
`mem.crash` becomes `"Panic"` or `"Freed"` when the process would end or go on with
freed memory. `history` variables remember which calls overlapped.

**RcAward.** `thread` is where the emulator's thread is between `do_frame` and `idle`;
answers, unload and load interleave with it. Times are the seconds left, `Tick` lets
one pass. `crashed` stands for the places that use `client->game` after an unload
set it to NULL.

**RcLeaderboard.** One frame takes the leaderboards one after the other (`next`). Each
keeps the hits of its own value; what a definition of a value finds in memory is the same
for all of them (`frame`): some hits, a reset, a number, or a pause. Trackers are a
sequence that only grows, as in the code, and a free one is used again.

The program's own handler (`bridge.c`) forwards only the event of an earned
achievement. The events of trackers, indicators and connections, which `RcAward` and
`RcLeaderboard` speak of, are the library's contract with whoever shows them.

## Runs

Deadlock is not checked, except in `rc_memory` and `rc_trigger`: users owe nothing
and every count is bounded, so that the other models may stop. The type invariants
are proved (below), and run only where the instance says so.

| Run | Instance | What it asks | States |
|---|---|---|---|
| `session` | 2 users, 2 games (one archived, which may fail to unpack), 3 room objects, 2 calls each, 1 timeout | types; `ViewAgrees`, `SlotHeld`, `NoConcurrentCreation`: the gate and the worker agree whatever overlaps, and what remains of it after a failed hydration or a timeout; `StrayWasHydrated`; `AnswerUnderway`: what a user waits for is always under way | 2.5 million |
| `session_live` | 2 users, 1 archived game that may fail to unpack, 2 rooms, no timeout | `RequestsEnd`: every request is answered without the help of the timeout; `OneOpenRoom` | 560 thousand |
| `rpc` | 3 calls, one of them the owner's, writes may fail | types; `TwiceOnlyAfterCleanup`; `KeepsContract` (refinement); `CallsReturn` | 134 thousand |
| `hub` | 2 workers, 2 users, 2 requests each | `SessionsLinked`, `SessionsCovered` | 1.8 million |
| `hydrator` | 7 archives of all kinds, two of them with prefix names and two with images of one name, 2 callers, 3 calls, 1 crash, every step may fail, a close error dropped | `NoLoss`, `Served`, `ResolvesReturn` | 446 thousand |
| `library` | a file and a disc dump, batches of 2, 2 changes | `Fresh`, `EnrichedShown`, `QueuedOnce`, `CatchesUp` | 364 thousand |
| `saves` | 2 states, all options, 1 kill, 1 failed rename or write | `NoCrashLoop`, `NeverOlder`, `GameStarts` | 265 thousand |
| `rc_trigger` | groups of two out of 13 kinds of condition and of three out of 11, 30 definitions of two or three groups | `MeaningKept`: the classes evaluated out of order mean what the chains say; `NoFireAtOnce`; `MeasuredBacked` | 26 thousand |
| `rc_memory` | chains of up to two links of 18 kinds, every pair of 15 operands under 6 comparisons, 6 contents of the memory | `SumKept`, `PriorKept`, `VerdictKept`: what the compiled condition reads and decides is what is written | 514 thousand |
| `rc_load` | 3 calls out of 2 logins and 2 loads of one ROM, every answer may fail or be empty | `GameIsLatest`, `OkMeansDone`, `NobodyForgotten`, `PanicExplained` | 1.5 million |
| `rc_award` | an achievement and a leaderboard entry, 3 losses each, 1 unload | `IndicatorTimed`, `DisconnectedJustified`, `PostsSettle` | 240 thousand |
| `rc_leaderboard` | 3 leaderboards of 4 games: all read one value, two of the three count hits, one counts and one reads, one shows hits and submits what it read; the third is broken unless all read one value | `ReferencesCounted`, `ScreenCurrent`, `TrackerTells` | 843,000 |

**Why the bounds are enough.** Every property is about one pair of actors: two
users at one slot, one user between two workers, one caller behind another at a
mutex, a running scan and a delayed one. Two of each, and one more step than the
scenario needs, let both orders happen, and a third room object lets an old room
still be hydrated while a new one is closed. Two calls per user are an init and a
start, or a start and a quit. Three blocking calls are the owner's, a timed-out
one and one in the table at the end. In `library` a change during the walk and one
after it are the two that matter. In `saves` an older and a newer state are enough
to tell the order; the safety properties also hold with three states (4.3 million
states, not listed). Symmetry is used where members of a set are interchangeable
and no liveness is checked. The bounds `MaxCalls`, `MaxTimeouts`, `MaxRequests`,
`MaxResolves`, `MaxCrashes`, `MaxChanges`, `MaxKills` and `MaxFaults` are in the
guards of the actions they bound. The theorems hold for any value of them.

For the achievements: a chain is at most two conditions and an end, since what one
condition leaves to the next does not depend on more; hits go to 2, one below and at
the target. A second link of a sum is the first that finds a sum before it. Two loads
and a login, or a load and two logins, are every pair of a kind and one call of the
other kind beside it. Three losses take a retry through the delays of 0, 1
and 2 seconds and order the two posts either way. With three leaderboards two share a
tracker and one joins or leaves meanwhile, before them or after them in a frame; one
value gains a hit a frame (`Burst` is 1) up to `MaxHits`, or is reset; the other is read
as one of two numbers or paused.
Only the first leaderboard is `Fragile`, and in three of the four games the last is
broken from the start, to keep the run small: its three properties are proved for any
number of leaderboards and any games.

**Stated, and not run.** The modules also state what the code's comments and docs
promise and the code does not keep. TLC refutes each of these on its module's
instance, or on the one named; none of them is among the runs. Most have a neighbour
among the runs that says how far the promise goes.

Rooms, hub, calls, files:

- `Session!SlotFreed`. `HandleStartGame` reserves the slot
  (`coordinator/userhandlers.go:94`) and returns at 101-108 without freeing it when
  the worker refuses or fails the start; the worker is idle and `HasSlot` is false,
  which is "true in case if there are no players in the room"
  (`coordinator/worker.go:138`).
- `Session!EmulatorRunsRoom`. The hydration goroutine compares the router's room
  (`worker/coordinatorhandlers.go:660`) and then mounts and boots the game without a
  lock; a quit between the two leaves a game that no room owns, against the
  "staleness guard" of line 626. `StrayWasHydrated`: there is no other way.
- `Session!NoGhost`: the terminate of a user may overtake its WebRTC init (six
  steps); the session stays at the worker.
- `Session!ClosedForgotten`: a hydration that fails before `commonStart` has its
  CloseRoom in front of RegisterRoom; the coordinator keeps a closed room. One that
  fails after it closes the room too, and the worker's router keeps it
  (`coordinatorhandlers.go:653-659`). Without `failed` in their premises `ViewAgrees`,
  `SlotHeld` and `NoConcurrentCreation` are refuted for the same reason: the
  coordinator has no room, or an old one, and a free slot; the next `StartGame` is
  refused by the worker as a concurrent creation, or joins the closed room.
- `Hub!CoordinatorSurvives`. `DetachWorkerUsers` sets `User.w` to nil (`hub.go:192`);
  the next quit, save, reset or WebRTC packet of such a user dereferences it
  (`userhandlers.go:119`) on a goroutine that recovers from nothing, while
  `docs/arch-backend.md:126` has "a hard crash keeps coordinator alive".
- `Hub!NoLingeringWorker`: between `DetachWorkerUsers` and the removal a dead
  worker is found as a free one (six steps).
- `Rpc!DoneOnce`: an answer after `Cleanup` closes `done` again (fourteen steps).
  `TwiceOnlyAfterCleanup` says that this is the only way.
- `Hydrator!NoLoss` without one of its premises. Without `Alone`: images with one name
  in two archives overwrite each other (`hydrator.go:192`), and both archives are
  removed, of which lines 18-20 say that the extracted payload takes their place.
  Without `torn`: `copyFile` drops the error of its deferred close (line 524), the
  archive is removed, and a part of the payload is what remains.
- `Hydrator!Served` without `Findable`: for an archive that is gone the lookup finds no
  `.cue`, `.chd` or `.cdi`, and may return the image of `Halo 2` for `Halo`.
- `SaveState!DiscardsSuspects`, with `MCPlain` for the options: the state saved after a
  crash is thrown away with the one that crashed at the next load
  (`frontend.go:619-626`, where both "shouldn't" exist).

Achievements:

- `RcTrigger!TargetsReached`, with `MCTallies` for the definitions: a condition with a
  target of 2, an `AddHits` and a `ResetIf` without a target fires after one hit. The
  comment of `rc_condset_evaluate_total_hits` (`condset.c:477`) has the value of a
  chain without a target ignored; it stays in the counter and is added to the next
  condition with one.
- `RcLoad!LoadsNotFatal`: with two loads or two logins pending, the second answer uses
  a deleted handle, or a channel of the other call, and the wrapper panics
  (`rcheevos.go:289`); a load's failure is meant to be "non-fatal"
  (`coordinatorhandlers.go:236-240`).
- `RcLoad!FreedWhenDone`: the answer of a session is stored after its count was
  decremented (`rc_client.c:1958`), when the other request's goroutine may have freed
  the load state.
- `RcAward!ReconnectedWhenDone`: "all pending unlocks have been completed"
  (`rc_client.h:770`) is told when the queue holds no retry, while one may be out.
- `RcAward!SettleWithoutFrames`: retries run in `do_frame` only; without a game they
  wait. `PostsSettle` takes frames as its premise.
- `RcLeaderboard!HitsToldExactly`: two leaderboards that count hits share a tracker if
  their counts are equal when the second starts (`rc_client.c:5016`, whose comment says
  that they cannot), and may drift apart afterwards (16 states). `TrackerTells` says by
  how much: by the hits of one frame, for ever, which the proof shows for any number of
  leaderboards. A leaderboard joins only while its own first frame's hits equal what is
  shown, so that whoever is ahead is ahead by what that frame brought.
- `RcLeaderboard!GoneAfterUnload`: a failed read disables a leaderboard during an attempt
  and keeps its tracker (`rc_client.c:5662`); the unload gives back only those that are
  tracking (1300-1328), and the tracker stays on the screen (17 states).

Read in the code and not modelled: the achievements of a stopped game stay loaded until
the next load replaces them (`coordinatorhandlers.go:240`), and a login of another user
keeps the first user's unlocks (`coordinatorhandlers.go:774`).

## Fairness

Goroutines that can run do run: weak fairness of each user's handler, the
coordinator's and the worker's readers and each hydration (`Session`), of callers,
writer, reader and owner (`Rpc`), of each caller (`Hydrator`), of the scanners, the
watcher and the enricher (`Library`). A caller's fairness in `Rpc` includes its
timer, as `time.After` fires; reading a closed socket fails, as the library closes
the file descriptor. In `RcAward` time passes and every request is answered or lost
(the HTTP client gives up after 15 seconds). Its emulator thread has strong fairness, since its steps
are disabled while no game runs: a game that is started again and again gets to run a
frame. `PostsSettle` has frames that go on as its premise, and nobody has to earn
anything. Nobody has to send a request, answer a call, disconnect or
change the directory, and no timeout is needed for `RequestsEnd`. In `Hydrator` the
external tools are assumed to end. Handing on a mutex is fair enough with a bounded
number of calls. In `SaveState` the game is launched again after a crash, since the
container's command restarts the worker (`docs/arch-backend.md`, line 126) and the
player asks for the game again; `GameStarts` depends on it.

## Proofs

`TLAPS` proves, for every value of the constants:

| Theorem | Statement | Inductive invariant |
|---|---|---|
| `TypeCorrect` of `Session`, `Rpc`, `Hub`, `Hydrator`, `Library` and `RcLeaderboard`, `SaveTypeCorrect` of `SaveState` | `Spec => []TypeOK`, `SaveSpec => []SaveTypeOK` | `TypeOK`; in `Hydrator` with `Holding` (a caller past the lock has its archive's mutex), in `SaveState` with `Holds` (what is restored or written is a state), in `RcLeaderboard` with all of `IInv` |
| `Session_proofs!OneOpenRoomHolds` | `OneOpenRoom` | itself with `TypeOK`: each way out of the router closes the room |
| `Session_proofs!ViewAgreesHolds` | `ViewAgrees` | `IInv`, of which `ViewInv` is the heart: there is a sequence of views, one for each packet on its way to the coordinator, that begins with its `RoomId`, is changed only by news of a room, and ends in the worker's room, or in that a failed hydration leaves behind (`HydrationTells`), until the worker's next room |
| `Session_proofs!SlotHeldHolds`, `!NoConcurrentCreationHolds` | `SlotHeld`, `NoConcurrentCreation` | `IInv`, with `CallInv` (before a timeout a user has one request, which is on its way, in hand, or answered) and `Slotted` (which of the views the slot, the requests and the worker's job fit), while no RPC has timed out and no hydration failed (`UndisturbedStep`) |
| `Session_proofs!StrayWasHydratedHolds` | `StrayWasHydrated` | `StrayInv`: a game that needs no unpacking is booted and stopped with its room |
| `Session_proofs!AnswerUnderwayHolds` | `AnswerUnderway` | itself with `TypeOK`: each packet of a request is handed on, from the channel to the job to the answer, under its own number |
| `Rpc_proofs!ContractKept` | `Spec => KeepsContract` | `CallInv`: packets reach the peer in order, answers are of calls it was asked, a task released has an error or a response |
| `Rpc_proofs!TwiceOnlyAfterCleanupHolds` | `TwiceOnlyAfterCleanup` | `OnceInv`: before `Cleanup` a task in the table is open; after a second close the process is dead |
| `Hub_proofs!SessionsLinkedHolds` | `SessionsLinked` | `IInv`: only live workers have sessions, users on their way in have none, and a reader at work is of a served user |
| `Hub_proofs!SessionsCoveredHolds` | `SessionsCovered` | the same, in which only a user `cut` off during a request is at work after its handler is done |
| `Hydrator_proofs!NoLossHolds` | `NoLoss` | `DiskInv`: what a caller at each place may rely on of its archive, and of its payload if it is `Alone` |
| `Hydrator_proofs!ServedHolds` | `Served` | `DiskInv` and `Handed` (what a caller about to return has in hand) |
| `Files_proofs!FreshHolds` | `Fresh` | `FreshInv`: one scanner walks at a time, and the directory as it is now was read, is being read, or will be |
| `Files_proofs!EnrichedShownHolds` | `EnrichedShown` | `FreshInv` with `ShownInv`: each match in the cache is shown, or will be by the walk under way, or a scan, a batch or a mark is still due |
| `Files_proofs!QueuedOnceHolds` | `QueuedOnce` | `QueueInv`: what is queued or was taken out is known, and what is known is not queued again |
| `Files_proofs!NeverOlderHolds` | `NeverOlder` | `OrderInv`: what is restored is the newest, and nothing else is written meanwhile |
| `Files_proofs!NoCrashLoopHolds` | `NoCrashLoop` | `CrashInv`: what was written was saved, a suspect is neither in the file nor due for the cloud, unless it is `loose` or the cloud has it |
| `Rc_proofs!GameIsLatestHolds` | `GameIsLatest` | `LatestInv`: the current load is the latest, and no game is set between the unload and the next load |
| `Rc_proofs!OkMeansDoneHolds` | `OkMeansDone` | `DoneInv`: a call that is pending alone owns the channel and the handle of its kind, and its channel is closed by its own success or with an error |
| `Rc_proofs!NobodyForgottenHolds` | `NobodyForgotten` | `CallsInv`: `DoneInv` with `RequestInv` (the count of outstanding requests is that of the requests out, and a fetch and its session come in order), `LoginInv` and `LoadInv` (a call not told yet can still be told: its callback and handle are its own, its load is current, and a request or a login is under way) |
| `Rc_proofs!PanicExplainedHolds` | `PanicExplained` | `CallsInv` with `ToldInv`: a load that was told has no request left that could tell it again, and is not one a new load would abort |
| `Rc_proofs!AwardTypeCorrect` | `AwardSpec => []AwardTypeOK` | `AwardInv` with `WorldTypes`: a callback is put in the queue only where it is not, or is taken out first |
| `Rc_proofs!IndicatorTimedHolds` | `IndicatorTimed` | `IndicatorInv` of `AwardInv`: an event of the frame stands only with the callback in the queue and before the events are raised; while the timer runs the callback is not in the queue |
| `Rc_proofs!DisconnectedJustifiedHolds` | `DisconnectedJustified`, an action property | `DisconnectInv` with `PostsInv`: while SHOW is pending a post has failed and is not settled, or has still to look at the queue; what is in the queue waits for its retry |
| `RcFrame_proofs!NeverFiresAtOnce` | `NoFireAtOnce` | `WaitingUntilFalse`: only a trigger still waiting has not been seen false |
| `RcFrame_proofs!MeaningKeptHolds` | `MeaningKept`, of which `TalliesUsed` is a premise | `HitsTyped`; in every state with such hit counts each chain is evaluated in the pass of its class as it would be by itself (`Lockstep`) |
| `RcFrame_proofs!MeasuredBackedHolds` | `MeasuredBacked` | `MeasuredInv`, which adds that only an achievement that measures shows anything, with `HitsTyped` |
| `RcMemory_proofs!SumKeptHolds` | `SumKept` | `MemoryHeld`: each reference holds what it reads, its present value in the memory and its delta in the memory before; `SumHeld` along the chain |
| `RcMemory_proofs!PriorKeptHolds` | `PriorKept` | `MemoryHeld` with `PriorHeld`: the prior of a shared reference, taken through the mask, is the last other value of the part |
| `RcMemory_proofs!VerdictKeptHolds` | `VerdictKept` | the same as `SumKept`, with the forms of the comparison |
| `RcFrame_proofs!ReferencesCountedHolds` | `ReferencesCounted` | `TrackersInv`: a tracker's count is that of its leaderboards, its flags fit what is shown, and flags stand only in a frame that has noted them |
| `RcFrame_proofs!ScreenCurrentHolds` | `ScreenCurrent` | `TrackersInv` with `AttemptsInv` (who has a tracker is tracking, or disabled) and `NewsInv` (what the player knows and the news of the frame make up who has a tracker) |
| `RcFrame_proofs!TrackerTellsHolds` | `TrackerTells` | `TellsInv`: taken at the end of the frame, the values that share a tracker never fall from one leaderboard to the next and differ by the hits of one frame at most, and what the tracker holds lies between those who had their turn and those who have not |

The properties alone are not inductive: `Fresh` speaks of settled states only,
`NoLoss` says nothing of a caller about to remove an archive, `NoCrashLoop` nothing
of the file that the next load will read. `ScreenCurrent` speaks of the end of a frame,
while starts, ends, failed reads and updates of the other leaderboards come in any
order before it: for each tracker the flags `Show`, `Update` and `Hide` must be
consistent with its count and with the screen at every place in between
(`Consistent`). The strengthenings say what holds in
between; each was checked by TLC before it was proved.

The assumptions: each module's named `ASSUME` on its constants, which TLC evaluates
on every run. No theorem adds one of its own. Where the code breaks a promise, the
property itself names the case, and the runs reach it: a timeout (`Punctual`), a failed
hydration (`failed`, `Undisturbed`), a write that fails during a request (`cut`), archives
with one payload path (`Alone`) or a payload that the lookup misses (`Findable`), a copy
cut short unnoticed (`torn`), a state restored in place (`loose`). `Hydrator` assumes that
archives in a directory have different names. `RcMemory` assumes of the widths that a word
counts more values than a byte has bits, of `&` and `^` that a mask keeps the bits it names
(`MasksAssumption`), of the memory that it holds bytes, and of the conditions that they are
well formed and no pointer is a `Delta` or a `Prior`.

How the proofs of `Session` and `RcLoad` go. Neither can be proved from what is true
between steps of one actor: in `Session` the coordinator acts on news that the worker has
yet to send, and in `RcLoad` a handler acts on a load state that other threads have moved.
`Session`'s invariant therefore speaks of every packet on its way (each position of the
two channels has its view of the room), and `RcLoad`'s of each place a call and its two
requests can be in. A step of `RcLoad` is a composition of calls of the library on one
memory; what each of them does to the memory is a lemma of its own (`CompleteIs`,
`FreeLoadIs`, `EndLoadIs`, ... `ProcessedIs`), and the preservation lemmas use those and
no definition below them. `LeastNatural` of `Session_proofs` gives the induction over
the channel's positions that is needed, as the least counterexample.

How the proofs of `RcTrigger` go. What a pass computes is a recursion over the conditions of
a group, of which there may be any number. It is written as a recursive function, and
`RecursionExists` shows once that such a function has a solution and that its values stay
where its steps keep them (the induction is `UpTo`, for a property given as a set: the
library's theorems take operators, which the provers cannot instantiate). `EvaluateDoes`
says what one condition of any flag does. From it, by induction along a pass: between two
chains nothing is carried (`CleanBetween`), hits change once (`HitsOnce`), the verdict is
that of all conditions (`Verdict`), and a chain in a pass goes in step with the chain by
itself (`Lockstep`), also where a pause cuts the pass short (`ShortPass`). Five passes make
a group (`GroupMeans`), and the groups a frame (`FrameMeans`). `MeasuredBackedHolds` follows
in the same passes what is measured back to the hits it comes from (`PassShowsAll`,
`GroupMeasures`), and then through the choice of the group whose value is kept
(`MeasuredFromIs`) and the ways it is withdrawn or kept (`UpdatedIs`).

How the proofs of `RcMemory` go. The parser comes first: along the chain it only ever adds
modified references, and `ParsedIs` says after each link what the accumulated operand, the
pointer and the list are, however earlier references are found again and shared. Then a frame:
a modified reference reads only references before it in the list, so one pass gives each of
them what it reads of the new memory (`UpdatedModsAre`), and `UpdatedToIs` makes its delta what
it read of the memory before (`MemoryHeldOnwards`). With that the operands of a state can be
evaluated (`EvaluatesAt`, `OperandReads`, `PointersPoint`), and the sum that the parser
carries is the sum that is written, link by link and modulo the word (`SumStarts`, `SumAdds`,
`SumSubtracts`, `SumCarried`). The verdict adds the forms of the comparison
(`VerdictEvaluates`). The recursion lemmas above are stated in this module, which
`RcFrame_proofs` extends.

Only model-checked: liveness (`RequestsEnd`, `CallsReturn`, `ResolvesReturn`,
`CatchesUp`, `GameStarts`, `PostsSettle`), which is beyond the prover. What `RequestsEnd` rests
on, that whoever waits is being answered, is the theorem `AnswerUnderwayHolds`. Every other property
of the runs is a theorem, under the assumptions named above.

## Where the properties stop

`Fresh` does not speak of a change the watcher cannot see, nor of an emptied
directory, whose list is not published. `CatchesUp` names `Stuck`, the state after a
walk that failed: the scan returns with `isScanning` set and every later one is
delayed. `NeverOlder` does not speak of `nonBlockingSave` and of the cloud, for which
it fails: writes fall in any order, and the cloud's copy of an older state replaces a
newer file at each launch. `NoCrashLoop` lets the cloud bring a suspect back,
and a state that was restored in place after the rename into quarantine failed
(`frontend.go:638-640`) may be restored again by the next launch; once it ends the process
while it is in quarantine it counts as any other. `SessionsCovered` excepts the users `cut`
off: a write that fails ends the connection (`websocket.go:171`) while the reader may be in
a request, which then makes a session that nobody terminates.

`ViewAgrees` does not speak of the time between a failed hydration that closed its room
and the next room that the worker makes, `SlotHeld` and `NoConcurrentCreation` of none
after such a failure. `NoLoss` and `Served` say nothing of archives whose images have one
name, nor of one whose copy was cut short unnoticed; of a dump that the lookup cannot find
`Served` says only that it is there. `RequestsEnd` is about the requests of users;
`TerminateSession` (`workerapi.go:70-72`) is a blocking call that the worker never answers,
and the goroutine of a connection that ended stays in it until the timeout.

`MeaningKept` excludes chains of `AddHits` that end without a target, `SumKept` a chain
that begins with two `SubSource`s of something else than a present value (the sum is then
wrong in the code), `VerdictKept` a comparison of a part of a byte with the delta of
another part, which is taken for equal while the byte does not change, and `PriorKept` the
count of bits, whose reference is that of the byte: it remembers the last other byte, which
may count the same. In all three a pointer is read as it is now, never as a `Delta` or a `Prior`. `GameIsLatest`
lets two loads attach at once, when both think they are the last. `OkMeansDone` and
`NobodyForgotten` exclude overlapping calls of one kind, for which both fail; what a
call waits for is a request of its own, or the login that its load waits for.

`SlotHeld` and `NoConcurrentCreation` speak of the time before an RPC times out. With
three calls per user and one timeout TLC finds why (20 million states): a user's second
WebrtcInit waits at the worker behind another user's quit and times out; the user's
StartGame still finds the slot taken and the old room, and joins it, behind the init. The
worker closes the room, lets the user in by the late init, and makes the room again,
for which nobody holds the slot. Without timeouts both hold with three calls (5 million
states), and `ViewAgrees` holds with them (28 million).

`IndicatorTimed` excludes an unload between a frame and its events, whose timer points
to a freed game. `TrackerTells` allows for values of their own and for pauses, and knows no
`SubHits`, `MeasuredIf` or alternatives in a value that counts hits.

## Not modelled

- Of rcheevos: identifying a file (`rhash`), building and parsing requests (`rapi`), the
  validator and the editor's interface, the tables of consoles, the older runtime
  interface and its serialisation, rich presence and its ping, change of media. They are
  formats, tables, or code this program never calls. `libretro.h` is declarations. In
  `RcMemory`, floats, `Recall` and the 16- and 24-bit sizes; in `RcLeaderboard`, a
  leaderboard without start conditions, and values that count hits with alternatives,
  `SubHits` or `MeasuredIf`.
- A frame and an unload at once: `RcAward` ends in `crashed` at the places that would use
  a game that is gone, and says nothing of what follows.
- Core binding, graphics, Vulkan, encoders and WebRTC: callbacks of C, GPU and pion, whose
  state is not this code's.
- Core downloads, S3, configuration, logging, monitoring, HTTP, the assistant: I/O
  without a protocol of its own.
- The frontend's start and stop, the native processes and their captures, the recorder,
  the worker's reconnect and the browser client: planned.

## Plan

Done: the modules above. Next, in this order:

1. `Frontend`: Start, loop, Close and Shutdown with `mui`, `done` and
   `shutdownDone`; a Close that comes before Start, a second Close, the exit after
   five seconds. Abstract specification: a game is started once, stopped once and
   nothing of it is left when Close returns. `SaveState` stays below it.
2. `Process`: the native process, its unexpected exit and Close, and the captures
   whose discovery is still under way. Properties: Close returns, exit is reported
   once, no capture outlives its process.
3. Worker's reconnect in `Session`: the loop of `worker.go`, the Reset, and handlers
   of the old connection that still run; then `Session` and `Hub` composed over one
   worker set, with `Hub`'s worker as the abstract one.
4. An abstract specification of the slot (free, reserved, held by a room) that
   `Session` implements up to the leak, as a refinement.
5. The audio buffer of `media`, the index of `search` and the LRU of `agent` as pure
   operators against reference definitions.
6. `Recorder`: Set against Set.
7. Rich presence and media change of rcheevos, and `RcAward` composed with `RcLoad` over
   one game.

Theorems to add: the mutual exclusion of the hydrator's callers as a theorem of its own.
The runs stay few: what TLC refutes is described above.
