-------------------------------- MODULE RcLoad --------------------------------
(***************************************************************************
 Logging in to RetroAchievements and loading a game's achievements:
 rcheevos.Client (rcheevos.go, bridge.go) over rc_client_t (rc_client.c).

 Login and LoadGameFromFile block a goroutine of the worker each until the C
 library calls back; every request runs in a goroutine of its own, and its
 answer is handled there.  The mutex of the client is held for single
 assignments only, so a handler is several steps here where another thread can
 get in between.

 mem is the memory the threads share: the fields of Client and of rc_client_t,
 and the load states.  crash is set when the process ends: a panic of the
 wrapper, or a use of freed memory.
 ***************************************************************************)
EXTENDS FiniteSets, Naturals

CONSTANTS Logins, Loads,   \* the calls of Login and of LoadGameFromFile
          RomOf,           \* the hash that a load asks for
          MaxCalls,        \* bound on the calls that are made
          Nil

ASSUME CallsApart == Logins \cap Loads = {} /\ Nil \notin Logins \cup Loads

Calls == Logins \cup Loads
Kinds == {"login", "load"}
KindOf(c) == IF c \in Logins THEN "login" ELSE "load"
Requests == ({"login"} \X Logins) \cup ({"fetch", "session"} \X Loads)

VARIABLES mem,         \* shared memory, see MemType
          pc,          \* where the goroutine of a call is
          waitsOn,     \* the channel it waits on, named by the call that made it
          at,          \* where the goroutine of a request is
          seen,        \* the load state that the answer of a login has read
          overlapped,  \* history: kinds of which two calls were pending at once, and
                       \* "attach" when two loads were attached at once
          latest,      \* history: the load that was attached last
          succeeded,   \* history: calls whose login or activation went through
          emptied      \* history: loads whose answer held no sets

vars == <<mem, pc, waitsOn, at, seen, overlapped, latest, succeeded, emptied>>
history == <<overlapped, latest, succeeded, emptied>>

(* rc_client_load_state_t; game tells whether it still owns its game object. *)
LoadState == [live: BOOLEAN, aborted: BOOLEAN, callback: BOOLEAN, game: BOOLEAN,
              response: BOOLEAN, outstanding: 0..2,
              progress: {"Started", "AwaitLogin", "Fetching", "Aborted", "Done"}]

NewLoad == [live |-> TRUE, aborted |-> FALSE, callback |-> TRUE, game |-> FALSE,
            response |-> FALSE, outstanding |-> 0, progress |-> "Started"]

MemType ==
    [channel: [Kinds -> Calls \cup {Nil}],  \* loginC and loadC
     handle: [Kinds -> Calls \cup {Nil}],   \* loginH and loadH
     failed: [Kinds -> BOOLEAN],            \* loginErr and loadErr are set
     closed: SUBSET Calls,                  \* channels
     live: SUBSET Calls,                    \* cgo handles
     userdata: [Calls -> Calls \cup {Nil}], \* the handle that a callback gets
     user: {"None", "Requested", "LoggedIn"},
     load: Loads \cup {Nil},                \* client->state.load
     game: Loads \cup {Nil},                \* client->game, named by its load
     unknown: SUBSET Loads,                 \* games of initialize_unknown_game
     freed: SUBSET Loads,                   \* games that were freed
     noGame: SUBSET {RomOf[c] : c \in Loads}, \* hashes known to have no game
     states: [Loads -> LoadState],
     crash: {"No", "Panic", "Freed"}]

TypeOK ==
    /\ mem \in MemType
    /\ pc \in [Calls -> {"Idle", "Begin", "Attach", "Unload", "Set", "Fetch", "Wait",
                         "Waiting", "OK", "Failed"}]
    /\ waitsOn \in [Calls -> Calls \cup {Nil}]
    /\ at \in [Requests -> {"None", "Sent", "Answered", "Resolved", "Processing", "Store",
                            "Activate", "Enable", "Finish", "Done"}]
    /\ seen \in [Logins -> Loads \cup {Nil}]
    /\ overlapped \subseteq Kinds \cup {"attach"} /\ latest \in Loads \cup {Nil}
    /\ succeeded \subseteq Calls /\ emptied \subseteq Loads

Init ==
    /\ mem = [channel |-> [k \in Kinds |-> Nil], handle |-> [k \in Kinds |-> Nil],
              failed |-> [k \in Kinds |-> FALSE], closed |-> {}, live |-> {},
              userdata |-> [c \in Calls |-> Nil], user |-> "None", load |-> Nil, game |-> Nil,
              unknown |-> {}, freed |-> {}, noGame |-> {},
              states |-> [c \in Loads |-> [NewLoad EXCEPT !.live = FALSE]], crash |-> "No"]
    /\ pc = [c \in Calls |-> "Idle"]
    /\ waitsOn = [c \in Calls |-> Nil]
    /\ at = [r \in Requests |-> "None"]
    /\ seen = [c \in Logins |-> Nil]
    /\ overlapped = {} /\ latest = Nil /\ succeeded = {} /\ emptied = {}

-----------------------------------------------------------------------------
(* The calls that the steps below are made of, on a memory m. *)

Crash(m, why) == IF m.crash = "No" THEN [m EXCEPT !.crash = why] ELSE m

\* Mutant of Complete: the result is not recorded.
CompleteQuietly(m, k, h, ok) ==
    IF h = Nil THEN m
    ELSE IF h \notin m.live \/ m.channel[k] \in m.closed THEN Crash(m, "Panic")
    ELSE [m EXCEPT !.closed = @ \cup {m.channel[k]}]

(* The completion bridge with handle h: finishLogin or finishLoadGame closes the
   channel that is current, whichever call made it. *)
Complete(m, k, h, ok) ==
    IF h = Nil THEN m
    ELSE IF h \notin m.live \/ m.channel[k] \in m.closed THEN Crash(m, "Panic")
    ELSE [m EXCEPT !.closed = @ \cup {m.channel[k]}, !.failed[k] = @ \/ ~ok]

Callback(m, c, ok) ==
    IF m.states[c].callback THEN Complete(m, "load", m.userdata[c], ok) ELSE m

Stale(m, c) == m.load # c

(* rc_client_free_load_state *)
FreeLoad(m, c) ==
    IF m.states[c].game /\ c \in m.freed THEN Crash(m, "Freed")
    ELSE [m EXCEPT !.states[c].live = FALSE,
                   !.freed = IF m.states[c].game THEN @ \cup {c} ELSE @]

(* rc_client_load_error *)
LoadError(m, c) ==
    IF ~m.states[c].live THEN Crash(m, "Freed")
    ELSE LET detached == [m EXCEPT !.states[c].progress = "Aborted",
                                   !.load = IF @ = c THEN Nil ELSE @]
             told == Callback(detached, c, FALSE)
         IN  IF m.states[c].outstanding = 0 THEN FreeLoad(told, c) ELSE told

\* Mutant of EndLoad: a load that has reported its error is told again.
EndLoadTold(m, c) ==
    IF ~m.states[c].live THEN Crash(m, "Freed")
    ELSE LET left == [m EXCEPT !.states[c].outstanding = IF @ > 0 THEN @ - 1 ELSE 0]
         IN  IF Stale(m, c) /\ left.states[c].outstanding = 0
             THEN FreeLoad(Callback(left, c, FALSE), c) ELSE left

(* rc_client_end_load_state *)
EndLoad(m, c) ==
    IF ~m.states[c].live THEN Crash(m, "Freed")
    ELSE LET left == [m EXCEPT !.states[c].outstanding = IF @ > 0 THEN @ - 1 ELSE 0]
             told == IF m.states[c].progress = "Aborted" THEN left ELSE Callback(left, c, FALSE)
         IN  IF Stale(m, c) /\ left.states[c].outstanding = 0 THEN FreeLoad(told, c) ELSE left

(* rc_client_load_aborted *)
LoadAborted(m, c) == EndLoad(LoadError([m EXCEPT !.states[c].callback = FALSE], c), c)

(* rc_client_begin_fetch_game_sets; Asks says whether the request goes out. *)
Asks(m) == m.user = "LoggedIn"
BeginFetch(m, c) ==
    IF m.user = "Requested" THEN [m EXCEPT !.states[c].progress = "AwaitLogin"]
    ELSE LET fetching == [m EXCEPT !.states[c].progress = "Fetching"]
         IN  IF Asks(m) THEN [fetching EXCEPT !.states[c].outstanding = @ + 1]
             ELSE LoadError(fetching, c)

(* rc_client_process_resolved_hash for a hash without a game. *)
UnknownGame(m, c) ==
    LoadError([m EXCEPT !.game = c, !.unknown = @ \cup {c}, !.states[c].game = FALSE], c)

(* The end of rc_client_activate_game for a load that is no longer current. *)
NotActive(m, c) == FreeLoad(Callback([m EXCEPT !.states[c].progress = "Aborted"], c, FALSE), c)

-----------------------------------------------------------------------------
(* The goroutine of a call. *)

Running == mem.crash = "No"

(* The first critical section of login and of LoadGameFromFile. *)
Register(c) ==
    LET k == KindOf(c) IN
    /\ Running /\ pc[c] = "Idle" /\ Cardinality({d \in Calls : pc[d] # "Idle"}) < MaxCalls
    /\ mem' = [mem EXCEPT !.failed[k] = FALSE, !.channel[k] = c, !.handle[k] = c,
                          !.live = @ \cup {c}]
    /\ pc' = [pc EXCEPT ![c] = "Begin"]
    /\ overlapped' = IF \E d \in Calls \ {c} : KindOf(d) = k /\ pc[d] \notin {"Idle", "OK", "Failed"}
                     THEN overlapped \cup {k} ELSE overlapped
    /\ UNCHANGED <<waitsOn, at, seen, latest, succeeded, emptied>>

(* rc_client_begin_login *)
BeginLogin(c) ==
    /\ Running /\ c \in Logins /\ pc[c] = "Begin"
    /\ pc' = [pc EXCEPT ![c] = "Wait"]
    /\ IF mem.user = "Requested"
       THEN /\ mem' = Complete(mem, "login", mem.handle["login"], FALSE)
            /\ at' = at
       ELSE /\ mem' = [mem EXCEPT !.user = "Requested", !.userdata[c] = mem.handle["login"]]
            /\ at' = [at EXCEPT ![<<"login", c>>] = "Sent"]
    /\ UNCHANGED <<waitsOn, seen, history>>

(* rc_client_begin_load_game: rc_client_abort_load_in_progress. *)
BeginLoad(c) ==
    LET old == mem.load
        begun == [mem EXCEPT !.userdata[c] = mem.handle["load"], !.states[c] = NewLoad]
    IN
    /\ Running /\ c \in Loads /\ pc[c] = "Begin"
    /\ mem' = IF old = Nil THEN begun
              ELSE IF ~mem.states[old].live THEN Crash(mem, "Freed")
              ELSE Callback([begun EXCEPT !.states[old].aborted = TRUE, !.load = Nil], old, FALSE)
    /\ pc' = [pc EXCEPT ![c] = "Attach"]
    /\ UNCHANGED <<waitsOn, at, seen, history>>

(* rc_client_attach_load_state, in three steps: the test is made without the
   lock. *)
Attach(c) ==
    /\ Running /\ pc[c] = "Attach"
    /\ IF mem.load = Nil
       THEN mem' = mem /\ pc' = [pc EXCEPT ![c] = "Unload"]
       ELSE mem' = FreeLoad(Callback(mem, c, FALSE), c) /\ pc' = [pc EXCEPT ![c] = "Wait"]
    /\ UNCHANGED <<waitsOn, at, seen, history>>

(* rc_client_unload_game *)
Unload(c) ==
    LET old == mem.load
        owned == old # Nil /\ old = mem.game
        aborted == IF old = Nil THEN mem ELSE [mem EXCEPT !.states[old].aborted = TRUE, !.load = Nil]
    IN
    /\ Running /\ pc[c] = "Unload"
    /\ mem' = [aborted EXCEPT !.game = Nil,
                              !.freed = IF mem.game # Nil /\ ~owned THEN @ \cup {mem.game} ELSE @]
    /\ pc' = [pc EXCEPT ![c] = "Set"]
    /\ UNCHANGED <<waitsOn, at, seen, history>>

SetLoad(c) ==
    /\ Running /\ pc[c] = "Set"
    /\ mem' = [mem EXCEPT !.load = c, !.states[c].game = TRUE]
    /\ latest' = c
    /\ overlapped' = IF \E d \in Loads \ {c} : pc[d] \in {"Unload", "Set"}
                     THEN overlapped \cup {"attach"} ELSE overlapped
    /\ pc' = [pc EXCEPT ![c] = "Fetch"]
    /\ UNCHANGED <<waitsOn, at, seen, succeeded, emptied>>

(* The rest of rc_client_load_game: a hash seen before may be known to have no
   game. *)
LoadGame(c) ==
    /\ Running /\ pc[c] = "Fetch"
    /\ IF RomOf[c] \in mem.noGame
       THEN mem' = UnknownGame(mem, c) /\ at' = at
       ELSE /\ mem' = BeginFetch(mem, c)
            /\ at' = IF Asks(mem) THEN [at EXCEPT ![<<"fetch", c>>] = "Sent"] ELSE at
    /\ pc' = [pc EXCEPT ![c] = "Wait"]
    /\ UNCHANGED <<waitsOn, seen, history>>

(* <-c.loginC and <-c.loadC: the field is read when the C call is back. *)
Wait(c) ==
    /\ Running /\ pc[c] = "Wait"
    /\ waitsOn' = [waitsOn EXCEPT ![c] = mem.channel[KindOf(c)]]
    /\ pc' = [pc EXCEPT ![c] = "Waiting"]
    /\ UNCHANGED <<mem, at, seen, history>>

(* The call returns its error and deletes the handle of the field. *)
Return(c) ==
    LET k == KindOf(c) IN
    /\ Running /\ pc[c] = "Waiting" /\ waitsOn[c] \in mem.closed
    /\ pc' = [pc EXCEPT ![c] = IF mem.failed[k] THEN "Failed" ELSE "OK"]
    /\ mem' = IF mem.handle[k] = Nil THEN Crash(mem, "Panic")
              ELSE [mem EXCEPT !.live = @ \ {mem.handle[k]}, !.handle[k] = Nil]
    /\ UNCHANGED <<waitsOn, at, seen, history>>

-----------------------------------------------------------------------------
(* The answers.  An answer that is no answer (a timeout, a refused connection)
   is handled as an error. *)

Goes(r, from, to) == Running /\ at[r] = from /\ at' = [at EXCEPT ![r] = to]

(* rc_client_login_callback, up to the unlock. *)
LoginAnswered(c, ok) ==
    /\ Goes(<<"login", c>>, "Sent", IF ok THEN "Answered" ELSE "Resolved")
    /\ mem' = IF ok THEN [mem EXCEPT !.user = "LoggedIn"]
              ELSE Complete([mem EXCEPT !.user = "None"], "login", mem.userdata[c], FALSE)
    /\ seen' = [seen EXCEPT ![c] = mem.load]
    /\ succeeded' = IF ok THEN succeeded \cup {c} ELSE succeeded
    /\ UNCHANGED <<pc, waitsOn, overlapped, latest, emptied>>

\* Mutant of LoginDone: the load that waits for the login is not looked for.
LoginAlone(c) ==
    /\ Running /\ at[<<"login", c>>] \in {"Answered", "Resolved"}
    /\ mem' = IF at[<<"login", c>>] = "Answered" THEN Complete(mem, "login", mem.userdata[c], TRUE)
              ELSE mem
    /\ at' = [at EXCEPT ![<<"login", c>>] = "Done"]
    /\ UNCHANGED <<pc, waitsOn, seen, history>>

(* ... and the load that waited for it. *)
LoginDone(c) ==
    LET load == seen[c]
        waiting == load # Nil /\ mem.states[load].progress = "AwaitLogin"
        ok == at[<<"login", c>>] = "Answered"
        fetched == IF load # Nil /\ ~mem.states[load].live THEN Crash(mem, "Freed")
                   ELSE IF waiting THEN BeginFetch(mem, load) ELSE mem
    IN
    /\ Running /\ at[<<"login", c>>] \in {"Answered", "Resolved"}
    /\ mem' = IF ok THEN Complete(fetched, "login", mem.userdata[c], TRUE) ELSE fetched
    /\ at' = [r \in Requests |->
                 IF r = <<"login", c>> THEN "Done"
                 ELSE IF waiting /\ Asks(mem) /\ r = <<"fetch", load>> THEN "Sent"
                 ELSE at[r]]
    /\ UNCHANGED <<pc, waitsOn, seen, history>>

(* rc_client_end_async of a fetch or a session: go on, or clean up. *)
EndAsync(r) ==
    LET c == r[2] IN
    /\ Running /\ at[r] = "Sent" /\ r[1] # "login"
    /\ IF ~mem.states[c].live
       THEN mem' = Crash(mem, "Freed") /\ at' = at
       ELSE IF mem.states[c].aborted
       THEN mem' = LoadAborted(mem, c) /\ at' = [at EXCEPT ![r] = "Done"]
       ELSE mem' = mem /\ at' = [at EXCEPT ![r] = "Answered"]
    /\ UNCHANGED <<pc, waitsOn, seen, history>>

(* Both callbacks end the request first, and report an error even when that has
   freed the load state. *)
AnswerFails(r) ==
    /\ Goes(r, "Answered", "Done") /\ r[1] # "login"
    /\ mem' = LoadError(EndLoad(mem, r[2]), r[2])
    /\ UNCHANGED <<pc, waitsOn, seen, history>>

(* rc_client_fetch_game_sets_callback *)
FetchStale(c) ==
    /\ Goes(<<"fetch", c>>, "Answered", "Done") /\ Stale(mem, c)
    /\ mem' = EndLoad(mem, c)
    /\ UNCHANGED <<pc, waitsOn, seen, history>>

FetchUnknown(c) ==
    /\ Goes(<<"fetch", c>>, "Answered", "Resolved") /\ ~Stale(mem, c)
    /\ mem' = [EndLoad(mem, c) EXCEPT !.noGame = @ \cup {RomOf[c]}]
    /\ UNCHANGED <<pc, waitsOn, seen, history>>

SetUnknown(c) ==
    /\ Goes(<<"fetch", c>>, "Resolved", "Done")
    /\ mem' = UnknownGame(mem, c)
    /\ UNCHANGED <<pc, waitsOn, seen, history>>

(* The session is requested while the sets are processed. *)
FetchKnown(c) ==
    /\ Running /\ at[<<"fetch", c>>] = "Answered" /\ ~Stale(mem, c)
    /\ mem' = [EndLoad(mem, c) EXCEPT !.states[c].outstanding = @ + 2]
    /\ at' = [at EXCEPT ![<<"fetch", c>>] = "Processing", ![<<"session", c>>] = "Sent"]
    /\ UNCHANGED <<pc, waitsOn, seen, history>>

Processed(c, found) ==
    LET r == <<"fetch", c>>
        loaded == IF found THEN mem ELSE LoadError(mem, c)
    IN
    /\ Running /\ at[r] = "Processing"
    /\ mem' = EndLoad(loaded, c)
    /\ at' = [at EXCEPT ![r] = IF ~Stale(loaded, c) /\ mem'.states[c].outstanding = 0
                               THEN "Activate" ELSE "Done"]
    /\ emptied' = IF found THEN emptied ELSE emptied \cup {c}
    /\ UNCHANGED <<pc, waitsOn, seen, overlapped, latest, succeeded>>

(* rc_client_start_session_callback; the answer is stored after the request was
   counted as done. *)
SessionStarted(c) ==
    LET r == <<"session", c>> IN
    /\ Running /\ at[r] = "Answered"
    /\ mem' = EndLoad(mem, c)
    /\ at' = [at EXCEPT ![r] = IF Stale(mem, c) THEN "Done"
                               ELSE IF mem'.states[c].outstanding = 0 THEN "Activate" ELSE "Store"]
    /\ UNCHANGED <<pc, waitsOn, seen, history>>

StoreSession(c) ==
    /\ Goes(<<"session", c>>, "Store", "Done")
    /\ mem' = IF mem.states[c].live THEN [mem EXCEPT !.states[c].response = TRUE]
              ELSE Crash(mem, "Freed")
    /\ UNCHANGED <<pc, waitsOn, seen, history>>

\* Mutant of Activate: the game is set without asking whether its load is current.
ActivateUnasked(r) ==
    LET c == r[2]
        answered == r[1] = "session" \/ mem.states[c].response
    IN
    /\ Running /\ at[r] = "Activate"
    /\ mem' = IF ~answered THEN FreeLoad(Callback(mem, c, FALSE), c)
              ELSE [mem EXCEPT !.states[c].progress = "Done", !.game = c]
    /\ at' = [at EXCEPT ![r] = IF answered THEN "Enable" ELSE "Done"]
    /\ UNCHANGED <<pc, waitsOn, seen, history>>

(* rc_client_activate_game.  It asks four times under the lock whether the load is
   still the current one; the tests with nothing but private work between them are
   one step here. *)
Activate(r) ==
    LET c == r[2]
        answered == r[1] = "session" \/ mem.states[c].response
    IN
    /\ Running /\ at[r] = "Activate"
    /\ mem' = IF Stale(mem, c) THEN NotActive(mem, c)
              ELSE IF ~answered THEN FreeLoad(Callback(mem, c, FALSE), c)
              ELSE [mem EXCEPT !.states[c].progress = "Done", !.game = c]
    /\ at' = [at EXCEPT ![r] = IF Stale(mem, c) \/ ~answered THEN "Done" ELSE "Enable"]
    /\ UNCHANGED <<pc, waitsOn, seen, history>>

(* rc_client_validate_addresses and the activation of the achievements use the
   game without the lock. *)
Enable(r) ==
    LET c == r[2] IN
    /\ Running /\ at[r] = "Enable"
    /\ mem' = IF c \in mem.freed THEN Crash(mem, "Freed")
              ELSE IF Stale(mem, c) THEN NotActive(mem, c) ELSE [mem EXCEPT !.load = Nil]
    /\ at' = [at EXCEPT ![r] = IF Stale(mem, c) THEN "Done" ELSE "Finish"]
    /\ UNCHANGED <<pc, waitsOn, seen, history>>

Finish(r) ==
    LET c == r[2] IN
    /\ Goes(r, "Finish", "Done")
    /\ mem' = IF c \in mem.freed THEN Crash(mem, "Freed")
              ELSE FreeLoad([Callback(mem, c, TRUE) EXCEPT !.states[c].game = FALSE], c)
    /\ succeeded' = succeeded \cup {c}
    /\ UNCHANGED <<pc, waitsOn, seen, overlapped, latest, emptied>>

-----------------------------------------------------------------------------
CallStep(c) ==
    \/ BeginLogin(c) \/ BeginLoad(c) \/ Attach(c) \/ Unload(c) \/ SetLoad(c) \/ LoadGame(c)
    \/ Wait(c) \/ Return(c)

LoginStep(c) == (\E ok \in BOOLEAN : LoginAnswered(c, ok)) \/ LoginDone(c)

FetchStep(c) ==
    \/ FetchStale(c) \/ FetchUnknown(c) \/ SetUnknown(c) \/ FetchKnown(c)
    \/ \E found \in BOOLEAN : Processed(c, found)

SessionStep(c) == SessionStarted(c) \/ StoreSession(c)

ActivateStep(r) == Activate(r) \/ Enable(r) \/ Finish(r)

AnswerStep(r) ==
    \/ r[1] = "login" /\ LoginStep(r[2])
    \/ r[1] = "fetch" /\ FetchStep(r[2])
    \/ r[1] = "session" /\ SessionStep(r[2])
    \/ EndAsync(r) \/ AnswerFails(r) \/ ActivateStep(r)

Step == (\E c \in Calls : CallStep(c)) \/ (\E r \in Requests : AnswerStep(r))

Next ==
    \/ \E c \in Calls : Register(c)
    \/ Step

Spec == Init /\ [][Next]_vars

-----------------------------------------------------------------------------
(* Properties *)

(* A game with achievements is current only if it is the one whose load was
   attached last: the answer of an older load, however late, never puts its game
   under the frames of the emulator (rc_client_activate_game).  Two loads that are
   in rc_client_attach_load_state at once are left out: both attach. *)
GameIsLatest ==
    mem.game \in Loads \ mem.unknown /\ "attach" \notin overlapped => mem.game = latest

(* The wrapper panics only if two calls of a kind were pending at once, or the
   server sent a game without sets: a handle or a channel is used after its call
   only then (finishLogin, finishLoadGame). *)
PanicExplained == mem.crash = "Panic" => overlapped # {} \/ emptied # {}

(* A call that returns no error has been done, unless another call of its kind
   was pending with it: the login went through, or the game is loaded. *)
OkMeansDone ==
    \A c \in Calls : pc[c] = "OK" /\ KindOf(c) \notin overlapped => c \in succeeded

(* A call that still waits has something to wait for, unless another call of its
   kind was pending with it: a request of its own is out or its answer is being
   handled, or it is a load that waits for a login, whose answer is still to come or
   has this load to go on with.  No answer, abort or login that others wait for is
   lost on the way to the channel, and as no goroutine comes back to where it was and the HTTP client gives up
   after 15 seconds, every Login and LoadGameFromFile returns. *)
NobodyForgotten ==
    \A c \in Calls :
        pc[c] = "Waiting" /\ waitsOn[c] \notin mem.closed /\ Running /\ KindOf(c) \notin overlapped
            => \E r \in Requests :
                 /\ at[r] \notin {"None", "Done"}
                 /\ \/ r[2] = c
                    \/ /\ c \in Loads
                       /\ mem.states[c].progress = "AwaitLogin"
                       /\ r[1] = "login"
                       /\ at[r] = "Sent" \/ seen[r[2]] = c

(* Failures of a load are non-fatal (coordinatorhandlers.go:236-240); refuted. *)
LoadsNotFatal == mem.crash # "Panic"

(* A load state is freed only when no request uses it (the comment in
   rc_client_load_error); refuted by StoreSession. *)
FreedWhenDone == mem.crash # "Freed"
=============================================================================
