---------------------------- MODULE RcLeaderboard ----------------------------
(***************************************************************************
 The leaderboards of a game, from its activation to its unload: the state of an
 attempt (lboard.c), and the trackers that show the values of the attempts that
 are under way (rc_client.c).  Leaderboards with one definition of their value
 share a tracker.

 A frame evaluates the leaderboards in their order; next is the one that comes
 next, 0 between frames.  The conditions of start, cancel and submit may yield
 anything in a frame (RcTrigger).  Left out are a leaderboard without start
 conditions, which is one in development; of the values that count hits, those with
 alternatives, SubHits or MeasuredIf; and the overlap of an unload with a frame
 (RcAward).
 ***************************************************************************)
EXTENDS Integers, Sequences, FiniteSets

CONSTANTS N,          \* the number of leaderboards
          Values,     \* the definitions of values: VAL or PRO, with the format
          HitValues,  \* those that measure hits (rc_value_from_hits)
          Games,      \* the definitions of the leaderboards of a game, [value, progress, broken]
          Readings,   \* what memory can read as
          Burst,      \* the most hits of a value in a frame: AddHits may add some
          MaxHits,    \* bound on the hits of a value
          Fragile     \* leaderboards that need an address which may become unreadable

ASSUME NAssumption == N \in Nat \ {0}
ASSUME ValuesAssumption == HitValues \subseteq Values /\ Readings \subseteq Nat /\ Burst \in Nat

Boards == 1..N
None == "None"

ASSUME GamesAssumption ==
    \A g \in Games : /\ g.value \in [Boards -> Values]
                     /\ g.progress \in [Boards -> Values \cup {None}]
                     /\ g.broken \subseteq Boards
(* What a value may do in a frame beside yielding a number. *)
Paused == -1
Reset == -2

VARIABLES value,      \* the definition of a leaderboard's value
          progress,   \* the definition of what it shows meanwhile, if it has one
          state,      \* rc_lboard_t.state
          public,     \* public_.state
          current,    \* leaderboard->value
          captured,   \* the last value of VAL, its hits if it counts them
          progressed, \* the last value of PRO
          tracker,    \* leaderboard->tracker, 0 for none
          news,       \* leaderboard->pending_events
          trackers,   \* game->leaderboard_trackers: id, reference_count, value_djb2, ...
          pending,    \* LEADERBOARD_TRACKER in game->pending_events
          frame,      \* what the values read in this frame
          next,
          display,    \* the text of each tracker
          shown,      \* trackers on the screen: SHOW without a HIDE since
          told,       \* leaderboards the player knows to be under way
          loaded

definitions == <<value, progress>>
boards == <<state, public, current, captured, progressed, tracker, news>>
screen == <<display, shown, told>>
vars == <<definitions, boards, trackers, pending, frame, next, screen, loaded>>

Tracker == [refs: 0..N, value: Values, raw: Nat, pending: SUBSET {"Show", "Update", "Hide"}]

TypeOK ==
    /\ value \in [Boards -> Values] /\ progress \in [Boards -> Values \cup {None}]
    /\ state \in [Boards -> {"Waiting", "Active", "Started", "Canceled", "Triggered", "Disabled"}]
    /\ public \in [Boards -> {"Active", "Tracking", "Disabled"}]
    /\ current \in [Boards -> Nat] /\ captured \in [Boards -> Nat] /\ progressed \in [Boards -> Nat]
    /\ tracker \in [Boards -> 0..Len(trackers)]
    /\ news \in [Boards -> {None, "Started", "Failed", "Submitted"}]
    /\ trackers \in Seq(Tracker) /\ pending \in BOOLEAN
    /\ frame \in [Values -> Nat \cup {Paused, Reset}]
    /\ \A d \in Values : frame[d] # IF d \in HitValues THEN Paused ELSE Reset
    /\ next \in 0..(N + 1)
    /\ display \in Seq(Nat) /\ Len(display) \leq Len(trackers)
    /\ shown \subseteq 1..Len(trackers) /\ told \subseteq Boards /\ loaded \in BOOLEAN

(* What rc_client_activate_leaderboards makes of the leaderboards of a game; one
   whose definition could not be parsed is disabled. *)
Init ==
    /\ \E g \in Games :
          /\ value = g.value /\ progress = g.progress
          /\ state = [b \in Boards |-> IF b \in g.broken THEN "Disabled" ELSE "Waiting"]
          /\ public = [b \in Boards |-> IF b \in g.broken THEN "Disabled" ELSE "Active"]
    /\ current = [b \in Boards |-> 0] /\ captured = [b \in Boards |-> 0]
    /\ progressed = [b \in Boards |-> 0] /\ tracker = [b \in Boards |-> 0]
    /\ news = [b \in Boards |-> None]
    /\ trackers = <<>> /\ pending = FALSE /\ frame = [d \in Values |-> 0] /\ next = 0
    /\ display = <<>> /\ shown = {} /\ told = {} /\ loaded = TRUE

-----------------------------------------------------------------------------
(* rc_evaluate_value, from the value or the hits that the last call left: a value
   that is paused keeps what was captured, one that is reset loses its hits. *)
Evaluated(d, last) ==
    IF d \in HitValues THEN IF frame[d] = Reset THEN 0 ELSE last + frame[d]
    ELSE IF frame[d] = Paused THEN last ELSE frame[d]

(* The trackers, as the functions of their sequence; each says with Touches
   whether it sets LEADERBOARD_TRACKER in game->pending_events. *)
First(S) == CHOOSE t \in S : \A u \in S : t <= u

\* Mutant of Shareable: the hits of another attempt are as good.
ShareableAny(d, v) ==
    {t \in DOMAIN trackers : trackers[t].refs > 0 /\ trackers[t].value = d}

(* A tracker that a new attempt can be attached to: values that count hits are
   shared only while they are equal. *)
Shareable(d, v) ==
    {t \in DOMAIN trackers :
        /\ trackers[t].refs > 0 /\ trackers[t].value = d
        /\ trackers[t].raw = v \/ d \notin HitValues}

Available == {t \in DOMAIN trackers : trackers[t].refs = 0 /\ trackers[t].pending = {}}

Chosen(d, v) ==
    IF Shareable(d, v) # {} THEN First(Shareable(d, v))
    ELSE IF Available # {} THEN First(Available)
    ELSE Len(trackers) + 1

New(d, v) == [refs |-> 1, value |-> d, raw |-> v, pending |-> {"Show"}]

Shows(r, v) ==
    [r EXCEPT !.raw = v, !.pending = IF r.raw = v THEN @ ELSE @ \cup {"Update"}]

Attached(r, v) == [Shows(r, v) EXCEPT !.refs = @ + 1, !.pending = @ \ {"Hide"}]

\* Mutant of Allocated: an attempt that shares a tracker is not counted.
AllocatedUncounted(d, v) ==
    LET t == Chosen(d, v) IN
    IF t \in Shareable(d, v) THEN [trackers EXCEPT ![t] = Shows(@, v)]
    ELSE IF t \in Available THEN [trackers EXCEPT ![t] = New(d, v)]
    ELSE Append(trackers, New(d, v))

(* rc_client_allocate_leaderboard_tracker *)
Allocated(d, v) ==
    LET t == Chosen(d, v) IN
    IF t \in Shareable(d, v) THEN [trackers EXCEPT ![t] = Attached(@, v)]
    ELSE IF t \in Available THEN [trackers EXCEPT ![t] = New(d, v)]
    ELSE Append(trackers, New(d, v))

(* rc_client_release_leaderboard_tracker *)
Released(r) ==
    [r EXCEPT !.refs = @ - 1, !.pending = IF r.refs = 1 THEN @ \cup {"Hide"} ELSE @]

(* What a leaderboard shows while its attempt is under way: PRO if it has one. *)
EvaluateRunning(b, value0, progress0) ==
    LET own == progress[b] # None IN
    /\ captured' = [captured EXCEPT ![b] = IF own THEN value0 ELSE Evaluated(value[b], value0)]
    /\ progressed' = [progressed EXCEPT ![b] =
                        IF own THEN Evaluated(progress[b], progress0) ELSE progress0]
    /\ current' = [current EXCEPT ![b] = IF own THEN progressed'[b] ELSE captured'[b]]

(* What is submitted is always VAL. *)
EvaluateFinal(b, value0, progress0) ==
    /\ captured' = [captured EXCEPT ![b] = Evaluated(value[b], value0)]
    /\ progressed' = [progressed EXCEPT ![b] = progress0]
    /\ current' = [current EXCEPT ![b] = captured'[b]]

Moves(b, to, visible, event) ==
    /\ state' = [state EXCEPT ![b] = to]
    /\ public' = [public EXCEPT ![b] = visible]
    /\ news' = [news EXCEPT ![b] = event]

-----------------------------------------------------------------------------
(* A frame (rc_client_do_frame).  Leaderboards that need an address which cannot
   be read are disabled first (rc_client_invalidate_memref_leaderboards). *)
BeginFrame(read, failing) ==
    /\ loaded /\ next = 0 /\ next' = 1
    /\ \A b \in Boards, d \in HitValues :
          d \in {value[b], progress[b]} /\ read[d] > 0 =>
              captured[b] < MaxHits /\ progressed[b] < MaxHits
    /\ frame' = read /\ pending' = FALSE
    /\ state' = [b \in Boards |-> IF b \in failing THEN "Disabled" ELSE state[b]]
    /\ public' = [b \in Boards |-> IF b \in failing THEN "Disabled" ELSE public[b]]
    /\ UNCHANGED <<definitions, current, captured, progressed, tracker, news, trackers, screen, loaded>>

(* One turn of the loop in rc_client_do_frame_process_leaderboards, over what
   rc_evaluate_lboard makes of the leaderboard. *)
Turn(b) ==
    /\ next = b /\ next' = b + 1
    /\ UNCHANGED <<definitions, frame, screen, loaded>>

NoValue(b) ==
    /\ current' = [current EXCEPT ![b] = 0]
    /\ UNCHANGED <<captured, progressed, tracker, trackers, pending>>

Skip(b) ==
    /\ Turn(b) /\ public[b] = "Disabled"
    /\ UNCHANGED <<boards, trackers, pending>>

(* A leaderboard that waits starts only after a frame without its start. *)
Wait(b, start) ==
    /\ Turn(b) /\ state[b] \in {"Waiting", "Canceled", "Triggered"}
    /\ state' = IF start THEN state ELSE [state EXCEPT ![b] = "Active"]
    /\ NoValue(b)
    /\ UNCHANGED <<public, news>>

Idle(b) ==
    /\ Turn(b) /\ state[b] = "Active"
    /\ NoValue(b)
    /\ UNCHANGED <<state, public, news>>

Start(b) ==
    LET v == current'[b]
        t == Chosen(value[b], v)
    IN
    /\ Turn(b) /\ state[b] = "Active"
    /\ EvaluateRunning(b, 0, 0)
    /\ Moves(b, "Started", "Tracking", "Started")
    /\ tracker' = [tracker EXCEPT ![b] = t]
    /\ trackers' = Allocated(value[b], v)
    /\ pending' = (pending \/ (t \in Shareable(value[b], v) => trackers[t].raw # v))

(* Start and submit in one frame: the tracker is taken and given back. *)
SubmitAtOnce(b) ==
    LET v == current'[b]
        t == Chosen(value[b], v)
        taken == Allocated(value[b], v)
    IN
    /\ Turn(b) /\ state[b] = "Active"
    /\ EvaluateFinal(b, 0, 0)
    /\ Moves(b, "Triggered", "Active", "Submitted")
    /\ trackers' = [taken EXCEPT ![t] = Released(@)]
    /\ pending' = (pending \/ (t \in Shareable(value[b], v) => trackers[t].raw # v))
    /\ UNCHANGED tracker

Track(b) ==
    LET t == tracker[b] IN
    /\ Turn(b) /\ state[b] = "Started"
    /\ EvaluateRunning(b, captured[b], progressed[b])
    /\ trackers' = [trackers EXCEPT ![t] = Shows(@, current'[b])]
    /\ pending' = (pending \/ trackers[t].raw # current'[b])
    /\ UNCHANGED <<state, public, tracker, news>>

\* Mutant of Cancel: the game is not told that a tracker has to be hidden.
CancelQuietly(b) ==
    /\ Turn(b) /\ state[b] = "Started"
    /\ current' = [current EXCEPT ![b] = 0]
    /\ Moves(b, "Canceled", "Active", "Failed")
    /\ tracker' = [tracker EXCEPT ![b] = 0]
    /\ trackers' = [trackers EXCEPT ![tracker[b]] = Released(@)]
    /\ UNCHANGED <<captured, progressed, pending>>

Cancel(b) ==
    /\ Turn(b) /\ state[b] = "Started"
    /\ current' = [current EXCEPT ![b] = 0]
    /\ Moves(b, "Canceled", "Active", "Failed")
    /\ tracker' = [tracker EXCEPT ![b] = 0]
    /\ trackers' = [trackers EXCEPT ![tracker[b]] = Released(@)]
    /\ pending' = (pending \/ trackers[tracker[b]].refs = 1)
    /\ UNCHANGED <<captured, progressed>>

Submit(b) ==
    LET t == tracker[b] IN
    /\ Turn(b) /\ state[b] = "Started"
    /\ EvaluateFinal(b, captured[b], progressed[b])
    /\ Moves(b, "Triggered", "Active", "Submitted")
    /\ tracker' = [tracker EXCEPT ![b] = 0]
    /\ trackers' = [trackers EXCEPT ![t] = Released(Shows(@, current'[b]))]
    /\ pending' = (pending \/ trackers[t].refs = 1 \/ trackers[t].raw # current'[b])

-----------------------------------------------------------------------------
(* rc_client_raise_leaderboard_tracker_events on the trackers ts. *)
Quiet(ts) == [t \in DOMAIN ts |-> [ts[t] EXCEPT !.pending = {}]]

ShownAfter(ts) ==
    {t \in DOMAIN ts :
        IF "Hide" \in ts[t].pending THEN FALSE ELSE t \in shown \/ "Show" \in ts[t].pending}

DisplayAfter(ts) ==
    [t \in DOMAIN ts |-> IF ts[t].pending \cap {"Show", "Update"} # {} THEN ts[t].raw ELSE display[t]]

(* rc_client_raise_pending_events: first the trackers, then the leaderboards. *)
RaiseEvents ==
    /\ next = N + 1 /\ next' = 0
    /\ IF pending
       THEN /\ trackers' = Quiet(trackers) /\ shown' = ShownAfter(trackers)
            /\ display' = DisplayAfter(trackers)
       ELSE UNCHANGED <<trackers, shown, display>>
    /\ told' = {b \in Boards : news[b] = "Started" \/ (news[b] = None /\ b \in told)}
    /\ news' = [b \in Boards |-> None]
    /\ pending' = FALSE
    /\ UNCHANGED <<definitions, state, public, current, captured, progressed, tracker, frame, loaded>>

(* rc_client_unload_game between frames: rc_client_game_mark_ui_to_be_hidden gives
   back the trackers of the attempts that are under way. *)
Tracking == {b \in Boards : public[b] = "Tracking"}

Unload ==
    LET left(t) == trackers[t].refs - Cardinality({b \in Tracking : tracker[b] = t})
        marked == [t \in DOMAIN trackers |->
                     [trackers[t] EXCEPT !.refs = left(t),
                        !.pending = IF left(t) = 0 /\ trackers[t].refs > 0 THEN @ \cup {"Hide"} ELSE @]]
    IN
    /\ loaded /\ next = 0
    /\ loaded' = FALSE
    /\ tracker' = [b \in Boards |-> IF b \in Tracking THEN 0 ELSE tracker[b]]
    /\ trackers' = Quiet(marked) /\ shown' = ShownAfter(marked)
    /\ UNCHANGED <<definitions, state, public, current, captured, progressed, news, pending, frame,
                   next, display, told>>

Process(b) ==
    \/ Skip(b) \/ (\E start \in BOOLEAN : Wait(b, start)) \/ Idle(b) \/ Start(b) \/ SubmitAtOnce(b)
    \/ Track(b) \/ Cancel(b) \/ Submit(b)

(* What the values read in a frame: some hits, none or a reset of them, or the memory
   unless a condition pauses it. *)
Used == {value[b] : b \in Boards} \cup {progress[b] : b \in Boards}
InputsOf(d) ==
    IF d \notin Used THEN {0}
    ELSE IF d \in HitValues THEN 0..Burst \cup {Reset} ELSE Readings \cup {Paused}
Inputs ==
    {read \in [Values -> Readings \cup {Paused, Reset} \cup 0..Burst] :
        \A d \in Values : read[d] \in InputsOf(d)}

Next ==
    \/ \E read \in Inputs, failing \in SUBSET (Fragile \cap Boards) : BeginFrame(read, failing)
    \/ \E b \in Boards : Process(b)
    \/ RaiseEvents \/ Unload

Spec == Init /\ [][Next]_vars

-----------------------------------------------------------------------------
(* Properties *)

(* A tracker counts the leaderboards that point to it: it is neither hidden nor
   given to another attempt while one of them shows its value there, and it is
   free when none does (allocate, update and release of trackers). *)
ReferencesCounted ==
    \A t \in DOMAIN trackers : trackers[t].refs = Cardinality({b \in Boards : tracker[b] = t})

(* Between frames the screen shows the trackers that are in use and no other, and
   the player has heard of the start of exactly the attempts that have one: no
   event is lost between the flags of a frame and the events that are raised
   after it, whatever starts, ends and shares trackers in that frame.  An unload
   leaves only trackers of leaderboards that were disabled during an attempt. *)
ScreenCurrent ==
    next = 0 =>
        /\ shown = {t \in DOMAIN trackers : trackers[t].refs > 0}
        /\ loaded => told = {b \in Boards : tracker[b] # 0}
        /\ \A b \in Boards : ~loaded /\ tracker[b] # 0 => public[b] = "Disabled"

Distance(m, n) == IF m > n THEN m - n ELSE n - m

(* A tracker tells the value of each attempt that shows it: the very value if it
   is read from memory; if it counts hits, one that is off by the hits of one frame
   at most, however many leaderboards share it and for however long.  Leaderboards
   with a value of their own to show meanwhile (PRO) and values that are paused are
   left out. *)
TrackerTells ==
    next = 0 /\ loaded =>
        \A b \in Tracking :
            \/ \E c \in Boards : value[c] = value[b] /\ progress[c] # None
            \/ frame[value[b]] = Paused
            \/ Distance(display[tracker[b]], current[b]) <= IF value[b] \in HitValues THEN Burst ELSE 0

(* "if the value comes from tracking hits, we can't assume the trackers started in
   the same frame, so we can't share the tracker"
   (rc_client_allocate_leaderboard_tracker); refuted, see the README. *)
HitsToldExactly ==
    next = 0 /\ loaded =>
        \A b \in Tracking : (\A c \in Boards : progress[c] = None) /\ value[b] \in HitValues =>
            display[tracker[b]] = current[b]

(* Nothing of a game that was unloaded stays on the screen; refuted, a leaderboard
   that is disabled during an attempt keeps its tracker. *)
GoneAfterUnload == ~loaded => shown = {}
=============================================================================
