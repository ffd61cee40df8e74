------------------------------- MODULE RcAward --------------------------------
(***************************************************************************
 What becomes of an unlock: the frames of the emulator, the requests that post
 achievements and leaderboard entries, their retries, and the events that tell
 the player of a lost connection and of progress (rc_client.c).

 rc_client_do_frame and rc_client_idle run on the emulator's thread, and only
 while a game runs; every answer runs in a goroutine of its own, and so does the
 load that unloads the game (RcLoad).  They share the queue of scheduled
 callbacks, whose times are kept here as the seconds that are left.
 ***************************************************************************)
EXTENDS Naturals, SequencesExt

CONSTANTS Awards, Entries,  \* the achievements and the leaderboard entries that are won
          Hide,             \* the callback that hides the progress indicator
          MaxRetries,       \* bound on retry_count: the server answers in the end
          MaxUnloads        \* bound on the games that are unloaded

ASSUME RetriesAssumption == MaxRetries \in Nat /\ MaxUnloads \in Nat
ASSUME PostsApart == Awards \cap Entries = {} /\ Hide \notin Awards \cup Entries

Posts == Awards \cup Entries
HideDelay == 2

(* The wait before a retry, by the retry_count it leaves. *)
Delay(n) == IF n > 8 THEN 120 ELSE 2 ^ (n - 2)

VARIABLES stage,       \* where a post is: its request is out, it is in the queue, ...
          retries,     \* retry_count
          updating,    \* posts whose answer has still to call update_disconnect_state
          queue,       \* client->state.scheduled_callbacks
          due,         \* the seconds until a callback is due
          disconnect,  \* client->state.disconnect
          told,        \* the last event of the connection was DISCONNECTED
          thread,      \* where the emulator's thread is
          won,         \* posts whose event is pending in this frame
          action,      \* progress_tracker.action
          indicator,   \* the progress indicator is shown
          game,        \* client->game is set
          orphan,      \* the Hide in the queue belongs to a game that was freed
          unloads,     \* games that were unloaded
          running,     \* the emulator runs
          crashed

posting == <<stage, retries, updating>>
events == <<disconnect, told>>
tracker == <<action, indicator, orphan>>
world == <<game, unloads, running>>
awardVars == <<posting, queue, due, events, thread, won, tracker, world, crashed>>

Settled(p) == stage[p] \in {"Accepted", "Refused"}
Queued == ToSet(queue)

AwardTypeOK ==
    /\ stage \in [Posts -> {"None", "Out", "Queued", "Accepted", "Refused"}]
    /\ retries \in [Posts -> 0..MaxRetries]
    /\ updating \subseteq Posts
    /\ queue \in Seq(Posts \cup {Hide}) /\ IsInjective(queue)
    /\ due \in [Posts \cup {Hide} -> 0..120]
    /\ disconnect \in SUBSET {"Visible", "ShowPending", "HidePending"} /\ told \in BOOLEAN
    /\ thread \in {"Frame", "Events", "Idle", "Timer", "Raise"} /\ won \subseteq Posts
    /\ action \in {"None", "Show", "Update"} /\ indicator \in BOOLEAN /\ orphan \in BOOLEAN
    /\ game \in BOOLEAN /\ unloads \in 0..MaxUnloads /\ running \in BOOLEAN
    /\ crashed \in BOOLEAN

AwardInit ==
    /\ stage = [p \in Posts |-> "None"] /\ retries = [p \in Posts |-> 0] /\ updating = {}
    /\ queue = <<>> /\ due = [x \in Posts \cup {Hide} |-> 0]
    /\ disconnect = {} /\ told = FALSE
    /\ thread = "Frame" /\ won = {}
    /\ action = "None" /\ indicator = FALSE /\ orphan = FALSE
    /\ game = TRUE /\ unloads = 0 /\ running = TRUE /\ crashed = FALSE

-----------------------------------------------------------------------------
(* A queue with x before the first that is due later. *)
Inserted(q, x, seconds) ==
    LET later == {i \in DOMAIN q : due[q[i]] > seconds}
        at == IF later = {} THEN Len(q) + 1 ELSE CHOOSE i \in later : \A j \in later : i <= j
    IN  InsertAt(q, at, x)

(* rc_client_schedule_callback *)
Schedule(x, seconds) ==
    /\ queue' = Inserted(queue, x, seconds)
    /\ due' = [due EXCEPT ![x] = seconds]

\* Mutant of Reschedule: the callback stays where it was, too.
RescheduleAgain(x, seconds) == Schedule(x, seconds)

Without(q, x) ==
    IF x \in ToSet(q) THEN RemoveAt(q, CHOOSE i \in DOMAIN q : q[i] = x) ELSE q

(* rc_client_reschedule_callback moves a callback that may be in the queue ... *)
Reschedule(x, seconds) ==
    /\ queue' = Inserted(Without(queue, x), x, seconds)
    /\ due' = [due EXCEPT ![x] = seconds]

(* ... or, called with 0, takes it from the queue, to which it adds one that is not
   there. *)
Unschedule(x) ==
    /\ queue' = IF x \in Queued THEN Without(queue, x) ELSE Append(queue, x)
    /\ due' = [due EXCEPT ![x] = 0]

\* Mutant of UpdateDisconnect: an event that is pending is not taken back.
UpdateDisconnectSticky ==
    LET visible == "Visible" \in disconnect IN
    disconnect' = IF Queued \cap Posts # {}
                  THEN IF visible THEN {"Visible"} ELSE {"ShowPending"}
                  ELSE IF visible THEN {"Visible", "HidePending"} ELSE disconnect

(* rc_client_update_disconnect_state *)
UpdateDisconnect ==
    LET visible == "Visible" \in disconnect IN
    disconnect' = IF Queued \cap Posts # {}
                  THEN IF visible THEN {"Visible"} ELSE {"ShowPending"}
                  ELSE IF visible THEN {"Visible", "HidePending"} ELSE {}

-----------------------------------------------------------------------------
(* The emulator's thread. *)

On(from, to) == ~crashed /\ thread = from /\ thread' = to

(* The part of rc_client_do_frame under the lock: what the achievements and
   leaderboards yield, and the progress indicator, which is not followed any more
   once the queue holds the callback of a game that was freed. *)
EvaluateFrame(winners, progress) ==
    /\ On("Frame", "Events") /\ running /\ game
    /\ \A p \in winners : stage[p] = "None"
    /\ won' = winners
    /\ IF progress /\ ~orphan
       THEN /\ action' = IF Hide \in Queued THEN "Update" ELSE "Show"
            /\ Reschedule(Hide, HideDelay)
       ELSE UNCHANGED <<action, queue, due>>
    /\ UNCHANGED <<posting, events, indicator, orphan, world, crashed>>

(* rc_client_raise_pending_events, without the lock: the requests go out. *)
RaiseEvents ==
    /\ On("Events", "Idle")
    /\ crashed' = ~game
    /\ stage' = [p \in Posts |-> IF p \in won THEN "Out" ELSE stage[p]]
    /\ won' = {}
    /\ indicator' = (indicator \/ action \in {"Show", "Update"})
    /\ action' = "None"
    /\ UNCHANGED <<retries, updating, queue, due, events, orphan, world>>

NoGame ==
    /\ On("Frame", "Idle") /\ running /\ ~game
    /\ UNCHANGED <<posting, queue, due, events, won, tracker, world, crashed>>

Due == queue # <<>> /\ due[Head(queue)] = 0

(* rc_client_idle takes a callback that is due and calls it: a retry. *)
Retry ==
    /\ On("Idle", "Idle") /\ Due /\ Head(queue) # Hide
    /\ queue' = Tail(queue)
    /\ stage' = [stage EXCEPT ![Head(queue)] = "Out"]
    /\ UNCHANGED <<retries, updating, due, events, won, tracker, world, crashed>>

(* ... or rc_client_progress_tracker_timer_elapsed, which takes the lock again. *)
TakeTimer ==
    /\ On("Idle", "Timer") /\ Due /\ Head(queue) = Hide
    /\ queue' = Tail(queue)
    /\ UNCHANGED <<posting, due, events, won, tracker, world, crashed>>

TimerElapsed ==
    /\ On("Timer", "Idle")
    /\ crashed' = (orphan \/ ~game)
    /\ indicator' = FALSE
    /\ UNCHANGED <<posting, queue, due, events, won, action, orphan, world>>

(* The end of rc_client_idle, which looks at the flags without the lock ... *)
IdleDone ==
    /\ On("Idle", IF disconnect \subseteq {"Visible"} THEN "Frame" ELSE "Raise") /\ ~Due
    /\ UNCHANGED <<posting, queue, due, events, won, tracker, world, crashed>>

(* ... rc_client_raise_disconnect_events takes it. *)
RaiseDisconnect ==
    /\ On("Raise", "Frame")
    /\ disconnect' = IF "ShowPending" \in disconnect THEN {"Visible"} ELSE {}
    /\ told' = ("ShowPending" \in disconnect)
    /\ UNCHANGED <<posting, queue, due, won, tracker, world, crashed>>

-----------------------------------------------------------------------------
(* The answers.  Every end of a post that was retried looks at the queue again. *)

Settle(p, how) ==
    /\ stage' = [stage EXCEPT ![p] = how]
    /\ updating' = IF retries[p] > 0 THEN updating \cup {p} ELSE updating
    /\ UNCHANGED <<retries, queue, due>>

(* The first retry is immediate; then the wait doubles. *)
TryAgain(p) ==
    /\ retries[p] < MaxRetries
    /\ retries' = [retries EXCEPT ![p] = @ + 1]
    /\ IF retries[p] = 0
       THEN UNCHANGED <<stage, updating, queue, due>>
       ELSE /\ stage' = [stage EXCEPT ![p] = "Queued"]
            /\ Schedule(p, Delay(retries[p] + 1))
            /\ updating' = updating \cup {p}

Answered(p) == ~crashed /\ stage[p] = "Out" /\ p \notin updating

(* rc_client_award_achievement_callback; last when it leaves no achievement to
   earn, which makes it look for the subset in the current game. *)
AwardAccepted(p, last) ==
    /\ Answered(p) /\ p \in Awards
    /\ Settle(p, "Accepted")
    /\ crashed' = (last /\ ~game)
    /\ UNCHANGED <<events, thread, won, tracker, world>>

(* An error that rc_client_should_retry does not retry. *)
Refused(p) ==
    /\ Answered(p)
    /\ Settle(p, "Refused")
    /\ UNCHANGED <<events, thread, won, tracker, world, crashed>>

Lost(p) ==
    /\ Answered(p)
    /\ TryAgain(p)
    /\ UNCHANGED <<events, thread, won, tracker, world, crashed>>

(* rc_client_submit_leaderboard_entry_callback *)
EntryAccepted(p) ==
    /\ Answered(p) /\ p \in Entries
    /\ Settle(p, "Accepted")
    /\ UNCHANGED <<events, thread, won, tracker, world, crashed>>

StateUpdated(p) ==
    /\ ~crashed /\ p \in updating
    /\ UpdateDisconnect
    /\ updating' = updating \ {p}
    /\ UNCHANGED <<stage, retries, queue, due, told, thread, won, tracker, world, crashed>>

-----------------------------------------------------------------------------
(* The rest of the worker. *)

Tick ==
    /\ ~crashed /\ \E x \in Queued : due[x] > 0
    /\ due' = [x \in DOMAIN due |-> IF x \in Queued /\ due[x] > 0 THEN due[x] - 1 ELSE due[x]]
    /\ UNCHANGED <<posting, queue, events, thread, won, tracker, world, crashed>>

\* Mutant of UnloadGame: all scheduled callbacks go with the game.
UnloadAll ==
    /\ ~crashed /\ game /\ unloads < MaxUnloads
    /\ game' = FALSE /\ unloads' = unloads + 1
    /\ crashed' = (won # {}) /\ won' = {} /\ action' = "None"
    /\ indicator' = (action # "None") /\ queue' = <<>>
    /\ orphan' = (orphan \/ thread = "Timer" \/ action # "None")
    /\ UNCHANGED <<posting, due, events, thread, running>>

(* rc_client_unload_game by the load of the next game.  What the frame left to be
   raised is raised here, where the posts look for client->game; the indicator is
   hidden unless it is just to be shown (rc_client_hide_progress_tracker).  A Hide
   that is not removed from the queue, or is about to run, outlives its game. *)
UnloadGame ==
    /\ ~crashed /\ game /\ unloads < MaxUnloads
    /\ game' = FALSE /\ unloads' = unloads + 1
    /\ crashed' = (won # {}) /\ won' = {} /\ action' = "None"
    /\ IF action = "None" /\ ~orphan
       THEN /\ IF Hide \in Queued \/ thread = "Timer" THEN Unschedule(Hide) ELSE UNCHANGED <<queue, due>>
            /\ indicator' = FALSE /\ orphan' = (thread = "Timer")
       ELSE /\ indicator' = (indicator \/ action # "None") /\ orphan' = TRUE
            /\ UNCHANGED <<queue, due>>
    /\ UNCHANGED <<posting, events, thread, running>>

Load ==
    /\ ~crashed /\ ~game /\ game' = TRUE
    /\ UNCHANGED <<posting, queue, due, events, thread, won, tracker, unloads, running, crashed>>

(* The frames stop with the game and go on with the next one. *)
Switch ==
    /\ ~crashed /\ thread = "Frame" /\ running' = ~running
    /\ UNCHANGED <<posting, queue, due, events, thread, won, tracker, game, unloads, crashed>>

-----------------------------------------------------------------------------
ThreadStep ==
    \/ \E winners \in SUBSET Posts, progress \in BOOLEAN : EvaluateFrame(winners, progress)
    \/ RaiseEvents \/ NoGame \/ Retry \/ TakeTimer \/ TimerElapsed \/ IdleDone \/ RaiseDisconnect

PostStep(p) ==
    \/ \E last \in BOOLEAN : AwardAccepted(p, last)
    \/ EntryAccepted(p) \/ Refused(p) \/ Lost(p) \/ StateUpdated(p)

AwardNext ==
    \/ ThreadStep \/ Tick \/ UnloadGame \/ Load \/ Switch
    \/ \E p \in Posts : PostStep(p)

AwardSpec == AwardInit /\ [][AwardNext]_awardVars

(* The emulator's thread runs as long as a game does, and a game that is started
   again and again gets to run; time passes, and every request is answered. *)
AwardFairSpec ==
    /\ AwardSpec
    /\ SF_awardVars(ThreadStep) /\ WF_awardVars(Tick)
    /\ \A p \in Posts : WF_awardVars(PostStep(p))

-----------------------------------------------------------------------------
(* Properties *)

(* The player is told of a lost connection only while a post that failed is not
   settled, or its answer has yet to say so: the flags that the answers set and
   the emulator's thread takes never leave an old failure to be shown
   (rc_client_update_disconnect_state, rc_client_raise_disconnect_events). *)
DisconnectedJustified ==
    [][~told /\ told' => \E p \in Posts : retries[p] > 0 /\ (~Settled(p) \/ p \in updating)]_awardVars

(* Between frames the progress indicator is shown exactly while the callback that
   hides it is in the queue: no indicator stays for ever, none is hidden twice.
   A game that is unloaded while the event of a frame is pending is left out: its
   callback stays in the queue (rc_client_hide_progress_tracker), where it points
   to freed memory. *)
IndicatorTimed ==
    action = "None" /\ thread # "Timer" /\ ~orphan /\ ~crashed =>
        (indicator <=> Hide \in Queued)

(* Every post is accepted or refused in the end, however often its answer is lost,
   if the emulator does not stop for ever: no retry is dropped from the queue or
   left behind in it. *)
PostsSettle ==
    []<>(running \/ crashed) => \A p \in Posts : stage[p] = "Out" ~> (Settled(p) \/ crashed)

(* RC_CLIENT_EVENT_RECONNECTED: "all pending unlocks have been completed"
   (rc_client.h:770); refuted, a retry that is out is not in the queue. *)
ReconnectedWhenDone ==
    [][told /\ ~told' => \A p \in Posts : retries[p] > 0 => Settled(p)]_awardVars

(* The scheduled retries do not wait for the next game; refuted, rc_client_idle is
   called by rc_client_do_frame alone. *)
SettleWithoutFrames ==
    \A p \in Posts : stage[p] = "Out" ~> (Settled(p) \/ crashed)
=============================================================================
