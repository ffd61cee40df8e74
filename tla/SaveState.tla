------------------------------- MODULE SaveState -------------------------------
(***************************************************************************)
(* The saved state of one room across the launches of its game: Save and   *)
(* Load of the libretro frontend (frontend.go), the storage below them     *)
(* (storage.go) and the cloud's copy (cloud.go).                           *)
(*                                                                         *)
(* A core may take the whole worker down when it restores a state it does  *)
(* not like.  Load therefore moves the file aside, to <path>.loading, and  *)
(* moves it back when the core has taken it: a .loading that is found by   *)
(* the next load is the state that took the worker down.                   *)
(*                                                                         *)
(* Save and Load hold the frontend's mutex, so that one of them runs at a  *)
(* time (op).  The files are compressed: one that was not written to its   *)
(* end is not read as a state.                                             *)
(***************************************************************************)
EXTENDS Naturals

CONSTANTS
    States,      \* bound: the states that may be saved, each once
    NoState,         \* no file
    Torn,        \* a file that was not written to its end
    Options,     \* the options to consider (see AllOptions)
    MaxKills,    \* bound: the times the worker is killed
    MaxFaults    \* bound: the renames and writes that fail

\* nonBlockingSave of the core, a cloud storage, a game with battery RAM.
AllOptions == {"nonblock", "cloud", "sram"}

ASSUME SaveStateAssumption ==
    /\ Options \subseteq AllOptions
    /\ NoState \notin States
    /\ Torn \notin States
    /\ NoState # Torn
    /\ MaxKills \in Nat
    /\ MaxFaults \in Nat

VARIABLES
    options,      \* the options of this game and worker
    kind,         \* what the core does with each state
    used,         \* the states saved so far
    dat,          \* the file of the saved state (HashPath)
    loading,      \* the file in quarantine
    sram,         \* "some" once the file of the battery RAM exists
    stored,       \* the state in the cloud
    writes,       \* the writes of the storage's own goroutines
    run,          \* the game
    op,           \* what holds the frontend's mutex
    held,         \* the state that is restored or written
    quarantined,  \* Load moved it aside
    upload,       \* the cloud's save of a player's request
    latest,       \* history: the state that was written last
    suspects,     \* history: the states whose restore did not return ...
    loose,        \* ... or may not, as they could not be moved aside for it
    kills,
    faults

config == <<options, kind>>
files == <<dat, loading, sram, stored>>
process == <<run, op, held, quarantined, upload>>
history == <<latest, suspects, loose>>
bounds == <<kills, faults>>
saveVars == <<config, used, files, writes, process, history, bounds>>

SaveInit ==
    /\ options \in SUBSET Options
    /\ kind \in [States -> {"good", "refused", "crashes"}]
    /\ used = {}
    /\ dat = NoState
    /\ loading = NoState
    /\ sram = "none"
    /\ stored = NoState
    /\ writes = {}
    /\ run = "down"
    /\ op = "none"
    /\ held = NoState
    /\ quarantined = FALSE
    /\ upload = "no"
    /\ latest = NoState
    /\ suspects = {}
    /\ loose = {}
    /\ kills = 0
    /\ faults = 0

Fault == faults < MaxFaults /\ faults' = faults + 1 /\ UNCHANGED kills
NoFault == UNCHANGED bounds
-----------------------------------------------------------------------------
(***************************************************************************)
(* The game.                                                               *)
(***************************************************************************)

\* WithCloud: what the cloud has replaces the file, if it can be fetched.
Launch ==
    /\ run = "down"
    /\ upload = "no"
    /\ run' = "starting"
    /\ dat' \in IF "cloud" \in options /\ stored # NoState THEN {dat, stored} ELSE {dat}
    /\ UNCHANGED <<config, used, loading, sram, stored, writes, op, held, quarantined, upload,
                   history, bounds>>

HasSave == dat # NoState \/ sram = "some"

\* Start: a game with a save is restored before its loop.
Start ==
    /\ run = "starting"
    /\ run' = "playing"
    /\ op' = IF HasSave THEN "load" ELSE "none"
    /\ UNCHANGED <<config, used, files, writes, held, quarantined, upload, history, bounds>>

\* The loop ends; SaveOnClose is set for every room.
Close ==
    /\ run = "playing"
    /\ op = "none"
    /\ run' = "closing"
    /\ UNCHANGED <<config, used, files, writes, op, held, quarantined, upload, history, bounds>>

\* The worker ends, and the writes of its goroutines with it, the last of them
\* perhaps in the middle.  A state that was being restored is suspect; one in
\* quarantine stays there.
Die ==
    /\ run' = "down"
    /\ op' = "none"
    /\ upload' = "no"
    /\ writes' = {}
    /\ dat' \in IF writes = {} THEN {dat} ELSE {dat, Torn}
    /\ suspects' = IF op = "restore" THEN suspects \cup {held} ELSE suspects
    /\ loose' = IF op = "restore" /\ quarantined THEN loose \ {held} ELSE loose
    /\ UNCHANGED <<config, used, loading, sram, stored, held, quarantined, latest>>

\* The worker is stopped, or gives up on a core that does not return.
Kill ==
    /\ run # "down" \/ writes # {}
    /\ kills < MaxKills
    /\ kills' = kills + 1
    /\ UNCHANGED faults
    /\ Die
-----------------------------------------------------------------------------
(***************************************************************************)
(* Save.                                                                   *)
(***************************************************************************)

\* Save returns; the save on close is the last of the game.
Return ==
    /\ op' = "none"
    /\ run' = IF run = "closing" THEN "down" ELSE run
    /\ UNCHANGED quarantined

SaveRAM == sram' = IF "sram" \in options THEN "some" ELSE sram

\* Save with no error: the cloud's SaveGameState, if it called, uploads the file.
Uploads(asked) == upload' = IF asked /\ "cloud" \in options THEN "due" ELSE upload

\* The uptime gate: only the battery RAM is saved.
SaveEarly(asked) ==
    /\ SaveRAM
    /\ Uploads(asked)
    /\ Return
    /\ UNCHANGED <<used, dat, loading, stored, writes, held, latest>>
    /\ NoFault

\* retro_serialize failed: a stale file is removed.  A battery RAM that was saved
\* clears the error.
SaveFailed(asked) ==
    /\ dat' = NoState
    /\ SaveRAM
    /\ Uploads(asked /\ "sram" \in options)
    /\ Return
    /\ UNCHANGED <<used, loading, stored, writes, held, latest>>
    /\ NoFault

\* storage.Save with NonBlock: the write is left to a goroutine.
SaveLater(s, asked) ==
    /\ "nonblock" \in options
    /\ used' = used \cup {s}
    /\ writes' = writes \cup {s}
    /\ SaveRAM
    /\ Uploads(asked)
    /\ Return
    /\ UNCHANGED <<dat, loading, stored, held, latest>>
    /\ NoFault

\* os.WriteFile truncates the file first.
SaveNow(s, asked) ==
    /\ "nonblock" \notin options
    /\ used' = used \cup {s}
    /\ op' = "write"
    /\ held' = s
    /\ dat' = Torn
    /\ upload' = IF asked THEN "asked" ELSE upload
    /\ UNCHANGED <<loading, sram, stored, writes, run, quarantined, latest>>
    /\ NoFault

\* Mutant of Save: without the mutex, a save may run while a load restores.
SaveUnlocked(asked) ==
    /\ run = "playing" \/ (run = "closing" /\ ~asked)
    /\ asked => upload = "no"
    /\ op # "write"
    /\ IF op = "none"
       THEN SaveEarly(asked) \/ SaveFailed(asked)
              \/ \E s \in States \ used : SaveLater(s, asked) \/ SaveNow(s, asked)
       ELSE \E s \in States \ used :
              /\ used' = used \cup {s}
              /\ dat' = s
              /\ latest' = s
              /\ UNCHANGED <<loading, sram, stored, writes, process, bounds>>
    /\ UNCHANGED <<config, suspects, loose>>

\* Save: asked by a player, or called by autosave or at the close.
Save(asked) ==
    /\ run = "playing" \/ (run = "closing" /\ ~asked)
    /\ asked => upload = "no"
    /\ op = "none"
    /\ \/ SaveEarly(asked)
       \/ SaveFailed(asked)
       \/ \E s \in States \ used : SaveLater(s, asked) \/ SaveNow(s, asked)
    /\ UNCHANGED <<config, suspects, loose>>

\* What a player asked for is uploaded when Save returned without an error.
Asked(saved) ==
    upload' = IF upload # "asked" THEN upload
              ELSE IF saved /\ "cloud" \in options THEN "due" ELSE "no"

\* The write that Save waits for.
WriteDone ==
    /\ op = "write"
    /\ dat' = held
    /\ latest' = held
    /\ SaveRAM
    /\ Asked(TRUE)
    /\ Return
    /\ UNCHANGED <<config, used, loading, stored, writes, held, suspects, loose,
                   bounds>>

WriteFail ==
    /\ op = "write"
    /\ SaveRAM
    /\ Asked("sram" \in options)
    /\ Return
    /\ UNCHANGED <<config, used, dat, loading, stored, writes, held, history>>
    /\ Fault

\* A goroutine of the storage writes its state, in no order.
WriteLater(s) ==
    /\ s \in writes
    /\ writes' = writes \ {s}
    /\ dat' = s
    /\ latest' = s
    /\ UNCHANGED <<config, used, loading, sram, stored, process, suspects, loose, bounds>>

\* The cloud's SaveGameState reads the file and stores it, if both succeed.
Upload ==
    /\ upload = "due"
    /\ upload' = "no"
    /\ stored' \in IF dat = NoState THEN {stored} ELSE {stored, dat}
    /\ UNCHANGED <<config, used, dat, loading, sram, writes, run, op, held, quarantined,
                   history, bounds>>
-----------------------------------------------------------------------------
(***************************************************************************)
(* Load.                                                                   *)
(***************************************************************************)

\* HandleLoadGame: a player asks for it in the game.
LoadGame ==
    /\ run = "playing"
    /\ op = "none"
    /\ upload = "no"
    /\ op' = "load"
    /\ UNCHANGED <<config, used, files, writes, run, held, quarantined, upload, history, bounds>>

\* Mutant of Remaining: the state in quarantine is given another chance.
RemainingRetried == IF loading # NoState THEN loading ELSE dat

\* The file that is left once a file in quarantine was found: none, for "we can't
\* tell which was the bad one".
Remaining == IF loading # NoState THEN NoState ELSE dat

\* No state to restore; the battery RAM is.
LoadNothing ==
    /\ op = "load"
    /\ Remaining \notin States
    /\ dat' = Remaining
    /\ loading' = NoState
    /\ op' = "none"
    /\ UNCHANGED <<config, used, sram, stored, writes, run, held, quarantined, upload, history,
                   bounds>>

\* The state that was read, and its file: moved aside, or not.
LoadState(file, aside, isAside) ==
    /\ op = "load"
    /\ Remaining \in States
    /\ dat' = file
    /\ loading' = aside
    /\ held' = Remaining
    /\ quarantined' = isAside
    /\ op' = "restore"
    /\ UNCHANGED <<config, used, sram, stored, writes, run, upload, latest, suspects>>

\* Mutant of Quarantine: the file stays where it is.
NoQuarantine == LoadState(Remaining, NoState, FALSE) /\ NoFault /\ UNCHANGED loose

\* The file is moved aside, or cannot be, and is restored where it is.
Quarantine == LoadState(NoState, Remaining, TRUE) /\ NoFault /\ UNCHANGED loose

LoadInPlace ==
    /\ LoadState(Remaining, NoState, FALSE)
    /\ loose' = loose \cup {Remaining}
    /\ Fault

Restored(result) ==
    /\ op = "restore"
    /\ kind[held] = result
    /\ op' = "none"
    /\ UNCHANGED <<config, used, sram, stored, writes, run, held, quarantined, upload, history>>

\* The core took the state: the file gets its name back.
Restore ==
    /\ Restored("good")
    /\ dat' = IF quarantined THEN held ELSE dat
    /\ loading' = IF quarantined THEN NoState ELSE loading
    /\ NoFault

StaysAside == Restored("good") /\ quarantined /\ UNCHANGED <<dat, loading>> /\ Fault

\* The core returned an error: the state is dropped.
Refuse ==
    /\ Restored("refused")
    /\ dat' = IF quarantined THEN dat ELSE NoState
    /\ loading' = IF quarantined THEN NoState ELSE loading
    /\ NoFault

\* The core took the worker down.
Crash == op = "restore" /\ kind[held] = "crashes" /\ Die /\ UNCHANGED bounds
-----------------------------------------------------------------------------
LoadStep == LoadNothing \/ Quarantine \/ LoadInPlace \/ Restore \/ StaysAside \/ Refuse \/ Crash
SaveStep == WriteDone \/ WriteFail \/ Upload \/ \E s \in States : WriteLater(s)

SaveNext ==
    \/ Launch \/ Start \/ Close \/ Kill
    \/ \E asked \in BOOLEAN : Save(asked)
    \/ LoadGame
    \/ SaveStep \/ LoadStep

SaveSpec == SaveInit /\ [][SaveNext]_saveVars

\* Launched again after a crash, the game runs on; nobody has to close it, to save
\* or to load.
FairSaveSpec ==
    /\ SaveSpec
    /\ WF_saveVars(Launch) /\ WF_saveVars(Start) /\ WF_saveVars(LoadStep) /\ WF_saveVars(SaveStep)
-----------------------------------------------------------------------------
File == States \cup {NoState, Torn}

SaveTypeOK ==
    /\ options \in SUBSET Options
    /\ kind \in [States -> {"good", "refused", "crashes"}]
    /\ used \in SUBSET States
    /\ dat \in File
    /\ loading \in States \cup {NoState}
    /\ sram \in {"none", "some"}
    /\ stored \in File
    /\ writes \in SUBSET States
    /\ run \in {"down", "starting", "playing", "closing"}
    /\ op \in {"none", "load", "restore", "write"}
    /\ held \in States \cup {NoState}
    /\ quarantined \in BOOLEAN
    /\ upload \in {"no", "asked", "due"}
    /\ latest \in States \cup {NoState}
    /\ suspects \in SUBSET States
    /\ loose \in SUBSET States
    /\ kills \in 0..MaxKills
    /\ faults \in 0..MaxFaults

\* A state whose restore did not return is not given to the core again, by
\* whichever launch or player (Frontend.Load: without the quarantine "the
\* supervisor's next-launch restart re-attempts the same bad file and crashes
\* again").  There are two exceptions: the cloud brings the state back, or it had
\* been restored where it was, as the rename into quarantine failed, and was not
\* in quarantine at a restore that did not return since.
NoCrashLoop == op = "restore" /\ held \in suspects => held = stored \/ held \in loose

\* The file never goes back to an older state: neither when a load moves it back
\* nor at a crash.  Two options break the order, the writes of nonBlockingSave and
\* the copy of the cloud, which the save on close does not reach.
NeverOlder == options \cap {"nonblock", "cloud"} = {} /\ dat \in States => dat = latest

\* A game that is launched gets to its loop, whatever the saved state does to the
\* core, if it is launched again after a crash.
GameStarts == run = "starting" ~> run = "playing" /\ op = "none"

\* "Stale .loading == the previous load attempt crashed the worker.  That file is
\* the corrupt save state": a load discards nothing but that state.  It also
\* discards the state that was saved since, when the launch after the crash found
\* no file to load and left the quarantine as it was.
DiscardsSuspects ==
    op = "load" /\ loading # NoState => {dat, loading} \cap States \subseteq suspects
=============================================================================
