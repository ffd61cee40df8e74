------------------------------ MODULE Rc_proofs ------------------------------
(* What is proved of logins and loads (RcLoad) and of what becomes of an unlock
   (RcAward), for every value of the constants. *)
EXTENDS RcLoad, RcAward, WellFoundedInduction, Integers, TLAPS

-----------------------------------------------------------------------------
(***************************************************************************
 The calls that a step of RcLoad is made of: what each does to the memory.
 ***************************************************************************)
(* LoadState and MemType, but for what takes an argument to bound: the number of
   requests that are counted, and the channels that are closed. *)
AnyLoadState ==
    [live: BOOLEAN, aborted: BOOLEAN, callback: BOOLEAN, game: BOOLEAN, response: BOOLEAN,
     outstanding: Nat, progress: {"Started", "AwaitLogin", "Fetching", "Aborted", "Done"}]

Shape ==
    [channel: [Kinds -> Calls \cup {Nil}], handle: [Kinds -> Calls \cup {Nil}],
     failed: [Kinds -> BOOLEAN], closed: SUBSET (Calls \cup {Nil}), live: SUBSET Calls,
     userdata: [Calls -> Calls \cup {Nil}], user: {"None", "Requested", "LoggedIn"},
     load: Loads \cup {Nil}, game: Loads \cup {Nil}, unknown: SUBSET Loads,
     freed: SUBSET Loads, noGame: SUBSET {RomOf[c] : c \in Loads},
     states: [Loads -> AnyLoadState], crash: {"No", "Panic", "Freed"}]

(* Nothing but what a completion writes is changed. *)
OnlyTold(m, n) ==
    /\ n.channel = m.channel /\ n.handle = m.handle /\ n.live = m.live
    /\ n.userdata = m.userdata /\ n.user = m.user /\ n.load = m.load /\ n.game = m.game
    /\ n.unknown = m.unknown /\ n.noGame = m.noGame /\ n.states = m.states /\ n.freed = m.freed

Quiet(m, n) == n.closed = m.closed /\ n.failed = m.failed

(* The channel of kind k is closed for the handle h. *)
Tells(m, n, k, h, ok) ==
    IF h = Nil THEN Quiet(m, n)
    ELSE /\ h \in m.live /\ m.channel[k] \notin m.closed
         /\ n.closed = m.closed \cup {m.channel[k]}
         /\ n.failed = [m.failed EXCEPT ![k] = @ \/ ~ok]

(* A completion that is not the first, or that comes after its call. *)
Late(m, k, h) == h # Nil /\ (h \notin m.live \/ m.channel[k] \in m.closed)

LEMMA CrashIs ==
    ASSUME NEW m \in Shape, NEW why \in {"Panic", "Freed"}
    PROVE  /\ Crash(m, why) \in Shape /\ OnlyTold(m, Crash(m, why)) /\ Quiet(m, Crash(m, why))
           /\ Crash(m, why).crash # "No"
           /\ Crash(m, why).crash = IF m.crash = "No" THEN why ELSE m.crash
  BY DEF Crash, Shape, OnlyTold, Quiet

LEMMA CompleteIs ==
    ASSUME NEW m \in Shape, NEW k \in Kinds, NEW h \in Calls \cup {Nil}, NEW ok \in BOOLEAN,
           NEW n, n = Complete(m, k, h, ok)
    PROVE  /\ n \in Shape /\ OnlyTold(m, n)
           /\ n.crash = "No" => m.crash = "No" /\ Tells(m, n, k, h, ok)
           /\ n.crash = "Panic" => m.crash = "Panic" \/ Late(m, k, h)
           /\ n.crash = "Freed" => m.crash = "Freed"
           /\ m.crash # "No" => n.crash = m.crash
<1>1. CASE h = Nil
  BY <1>1 DEF Complete, OnlyTold, Tells, Quiet
<1>2. CASE Late(m, k, h)
  <2>1. n = Crash(m, "Panic")
    BY <1>2 DEF Complete, Late
  <2>2. QED
    BY <1>2, <2>1, CrashIs DEF Shape
<1>3. CASE h # Nil /\ ~Late(m, k, h)
  <2>1. n = [m EXCEPT !.closed = @ \cup {m.channel[k]}, !.failed[k] = @ \/ ~ok]
    BY <1>3 DEF Complete, Late
  <2>2. m.channel[k] \in Calls \cup {Nil}
    BY DEF Shape
  <2>3. n \in Shape
    <3> DEFINE closing == m.closed \cup {m.channel[k]}
               err == [m.failed EXCEPT ![k] = @ \/ ~ok]
    <3>1. closing \in SUBSET (Calls \cup {Nil})
      BY <2>2 DEF Shape
    <3>2. err \in [Kinds -> BOOLEAN]
      <4>1. m.failed \in [Kinds -> BOOLEAN]
        BY DEF Shape
      <4>2. (m.failed[k] \/ ~ok) \in BOOLEAN
        OBVIOUS
      <4>3. QED
        BY <4>1, <4>2, Zenon
    <3>3. n = [m EXCEPT !.closed = closing, !.failed = err]
      BY <2>1
    <3> HIDE DEF closing, err
    <3>4. QED
      BY <3>1, <3>2, <3>3 DEF Shape
  <2>4. OnlyTold(m, n) /\ n.crash = m.crash
    BY <2>1 DEF OnlyTold, Shape
  <2>5. Tells(m, n, k, h, ok)
    BY <1>3, <2>1 DEF Tells, Late, Shape
  <2>6. QED
    BY <2>3, <2>4, <2>5 DEF Shape
<1>4. QED
  BY <1>1, <1>2, <1>3

(* The calls and their handles are left as they are. *)
KeepsCalls(m, n) ==
    /\ n.channel = m.channel /\ n.handle = m.handle /\ n.live = m.live
    /\ n.userdata = m.userdata

(* So is the game ... *)
KeepsGame(m, n) == n.game = m.game /\ n.unknown = m.unknown

(* ... and the login, the other load states, and of the load state of c all but what
   tells how far it is. *)
KeepsLoads(m, n, c) ==
    /\ KeepsCalls(m, n) /\ n.user = m.user
    /\ \A d \in Loads \ {c} : n.states[d] = m.states[d]
    /\ n.states[c].callback = m.states[c].callback
    /\ n.states[c].aborted = m.states[c].aborted

(* The callback of a load. *)
Reports(m, n, c, ok) ==
    IF m.states[c].callback THEN Tells(m, n, "load", m.userdata[c], ok) ELSE Quiet(m, n)

LateLoad(m, c) == m.states[c].callback /\ Late(m, "load", m.userdata[c])

LEMMA CallbackIs ==
    ASSUME NEW m \in Shape, NEW c \in Loads, NEW ok \in BOOLEAN, NEW n, n = Callback(m, c, ok)
    PROVE  /\ n \in Shape /\ OnlyTold(m, n)
           /\ n.crash = "No" => m.crash = "No" /\ Reports(m, n, c, ok)
           /\ n.crash = "Panic" => m.crash = "Panic" \/ LateLoad(m, c)
           /\ n.crash = "Freed" => m.crash = "Freed"
           /\ m.crash # "No" => n.crash = m.crash
<1>1. CASE m.states[c].callback
  <2>1. n = Complete(m, "load", m.userdata[c], ok) /\ "load" \in Kinds
    BY <1>1 DEF Callback, Kinds
  <2>2. m.userdata[c] \in Calls \cup {Nil}
    BY DEF Shape, Calls
  <2>3. QED
    BY <1>1, <2>1, <2>2, CompleteIs DEF Reports, LateLoad
<1>2. CASE ~m.states[c].callback
  BY <1>2 DEF Callback, OnlyTold, Reports, Quiet
<1>3. QED
  BY <1>1, <1>2

(* The load state of c is freed, and perhaps its game. *)
Frees(m, n, c) ==
    /\ KeepsLoads(m, n, c) /\ Quiet(m, n) /\ n.load = m.load
    /\ ~n.states[c].live
    /\ n.states[c].progress = m.states[c].progress
    /\ n.states[c].outstanding = m.states[c].outstanding

(* No request of a load is counted twice. *)
Fewer(m, n) == \A d \in Loads : n.states[d].outstanding <= m.states[d].outstanding

LEMMA FreeLoadIs ==
    ASSUME NEW m \in Shape, NEW c \in Loads, NEW n, n = FreeLoad(m, c)
    PROVE  /\ n \in Shape /\ KeepsLoads(m, n, c) /\ KeepsGame(m, n) /\ n.load = m.load
           /\ Fewer(m, n)
           /\ Quiet(m, n)
           /\ n.crash = "No" => m.crash = "No" /\ Frees(m, n, c)
           /\ n.crash = "Panic" => m.crash = "Panic"
           /\ m.crash # "No" => n.crash = m.crash
<1> DEFINE st == [m.states[c] EXCEPT !.live = FALSE]
<1>1. CASE m.states[c].game /\ c \in m.freed
  <2>1. n = Crash(m, "Freed")
    BY <1>1 DEF FreeLoad
  <2>2. QED
    BY <2>1, CrashIs DEF OnlyTold, KeepsLoads, KeepsGame, KeepsCalls, Fewer, Quiet, Shape, AnyLoadState
<1>2. CASE ~(m.states[c].game /\ c \in m.freed)
  <2>1. PICK fr \in SUBSET Loads :
           n = [m EXCEPT !.states = [m.states EXCEPT ![c] = st], !.freed = fr]
    BY <1>2 DEF FreeLoad, Shape
  <2>2. m.states \in [Loads -> AnyLoadState] /\ m.states[c] \in AnyLoadState
    BY DEF Shape
  <2>3. /\ st \in AnyLoadState /\ st.live = FALSE
        /\ st.progress = m.states[c].progress /\ st.outstanding = m.states[c].outstanding
        /\ st.callback = m.states[c].callback /\ st.aborted = m.states[c].aborted
    BY <2>2 DEF AnyLoadState
  <2> HIDE DEF st
  <2>4. n \in Shape
    <3> DEFINE ss == [m.states EXCEPT ![c] = st]
    <3>1. ss \in [Loads -> AnyLoadState]
      BY <2>2, <2>3
    <3>2. n = [m EXCEPT !.states = ss, !.freed = fr]
      BY <2>1
    <3> HIDE DEF ss
    <3>3. QED
      BY <3>1, <3>2 DEF Shape
  <2>5. n.states = [m.states EXCEPT ![c] = st]
    BY <2>1 DEF Shape
  <2>6. /\ KeepsLoads(m, n, c) /\ KeepsGame(m, n) /\ Quiet(m, n) /\ n.load = m.load
        /\ n.crash = m.crash
    BY <2>1, <2>2, <2>3, <2>5 DEF KeepsLoads, KeepsGame, KeepsCalls, Quiet, Shape
  <2>7. Frees(m, n, c)
    BY <2>2, <2>3, <2>5, <2>6 DEF Frees
  <2>8. Fewer(m, n)
    BY <2>2, <2>3, <2>5 DEF Fewer, AnyLoadState
  <2>9. QED
    BY <2>4, <2>6, <2>7, <2>8 DEF Frees
<1>3. QED
  BY <1>1, <1>2

(* The load has failed: it is told, it is no longer current, and it is freed when
   no request of it is out. *)
Errs(m, n, c) ==
    /\ m.states[c].live
    /\ KeepsLoads(m, n, c) /\ Reports(m, n, c, FALSE)
    /\ n.load = IF m.load = c THEN Nil ELSE m.load
    /\ n.states[c].progress = "Aborted"
    /\ n.states[c].outstanding = m.states[c].outstanding
    /\ m.states[c].outstanding = 0 => ~n.states[c].live

LEMMA LoadErrorIs ==
    ASSUME NEW m \in Shape, NEW c \in Loads, NEW n, n = LoadError(m, c)
    PROVE  /\ n \in Shape /\ KeepsLoads(m, n, c) /\ KeepsGame(m, n)
           /\ n.load \in {m.load, Nil} /\ Fewer(m, n)
           /\ n.crash = "No" => m.crash = "No" /\ Errs(m, n, c)
           /\ n.crash = "Panic" => m.crash = "Panic" \/ (m.states[c].live /\ LateLoad(m, c))
           /\ m.crash # "No" => n.crash = m.crash
<1> DEFINE st == [m.states[c] EXCEPT !.progress = "Aborted"]
           l == IF m.load = c THEN Nil ELSE m.load
           d == [m EXCEPT !.states = [m.states EXCEPT ![c] = st], !.load = l]
           t == Callback(d, c, FALSE)
<1>1. CASE ~m.states[c].live
  <2>1. n = Crash(m, "Freed")
    BY <1>1 DEF LoadError
  <2>2. QED
    BY <2>1, CrashIs DEF OnlyTold, KeepsLoads, KeepsGame, KeepsCalls, Fewer, Shape, AnyLoadState
<1>2. CASE m.states[c].live
  <2>1. n = IF m.states[c].outstanding = 0 THEN FreeLoad(t, c) ELSE t
    BY <1>2 DEF LoadError
  <2>2. m.states \in [Loads -> AnyLoadState] /\ m.states[c] \in AnyLoadState /\ m.load \in Loads \cup {Nil}
    BY DEF Shape
  <2>3. /\ st \in AnyLoadState /\ st.live = m.states[c].live
        /\ st.progress = "Aborted" /\ st.outstanding = m.states[c].outstanding
        /\ st.callback = m.states[c].callback /\ st.aborted = m.states[c].aborted
    BY <2>2 DEF AnyLoadState
  <2>4. l \in {m.load, Nil} /\ l = IF m.load = c THEN Nil ELSE m.load
    OBVIOUS
  <2> HIDE DEF st, l
  <2>5. d \in Shape
    BY <2>2, <2>3, <2>4 DEF Shape
  <2>6. d.states = [m.states EXCEPT ![c] = st] /\ d.load = l /\ d.crash = m.crash
    BY DEF Shape
  <2>7. KeepsLoads(m, d, c) /\ KeepsGame(m, d) /\ Quiet(m, d)
    BY <2>2, <2>3, <2>6 DEF KeepsLoads, KeepsGame, KeepsCalls, Quiet, Shape
  <2>8. d.states[c] = st
    BY <2>2, <2>6
  <2> HIDE DEF d
  <2>9. /\ t \in Shape /\ OnlyTold(d, t)
        /\ t.crash = "No" => d.crash = "No" /\ Reports(d, t, c, FALSE)
        /\ t.crash = "Panic" => d.crash = "Panic" \/ LateLoad(d, c)
        /\ d.crash # "No" => t.crash = d.crash
    BY <2>5, CallbackIs
  <2> HIDE DEF t
  <2>10. /\ t.crash = "No" => m.crash = "No" /\ Reports(m, t, c, FALSE)
         /\ t.crash = "Panic" => m.crash = "Panic" \/ LateLoad(m, c)
    BY <2>3, <2>6, <2>7, <2>8, <2>9
    DEF Reports, LateLoad, Late, Tells, Quiet, KeepsLoads, KeepsCalls
  <2>11. /\ KeepsLoads(m, t, c) /\ KeepsGame(m, t) /\ t.load = l /\ t.states[c] = st
         /\ \A e \in Loads : t.states[e].outstanding = m.states[e].outstanding
    BY <2>2, <2>3, <2>6, <2>7, <2>8, <2>9 DEF OnlyTold, KeepsLoads, KeepsGame, KeepsCalls
  <2>12. CASE m.states[c].outstanding # 0
    <3>1. n = t
      BY <2>1, <2>12
    <3>2. Fewer(m, n)
      BY <2>2, <2>9, <2>11, <3>1 DEF Fewer, Shape, AnyLoadState
    <3>3. QED
      BY <1>2, <2>3, <2>4, <2>6, <2>9, <2>10, <2>11, <2>12, <3>1, <3>2 DEF Errs
  <2>13. CASE m.states[c].outstanding = 0
    <3>1. n = FreeLoad(t, c)
      BY <2>1, <2>13
    <3>2. /\ n \in Shape /\ KeepsLoads(t, n, c) /\ KeepsGame(t, n) /\ n.load = t.load
          /\ Fewer(t, n) /\ Quiet(t, n)
          /\ n.crash = "No" => t.crash = "No" /\ Frees(t, n, c)
          /\ n.crash = "Panic" => t.crash = "Panic"
          /\ t.crash # "No" => n.crash = t.crash
      BY <2>9, <3>1, FreeLoadIs
    <3>3. KeepsLoads(m, n, c) /\ KeepsGame(m, n)
      BY <2>11, <3>2 DEF KeepsLoads, KeepsGame, KeepsCalls
    <3>4. Fewer(m, n)
      BY <2>11, <3>2 DEF Fewer
    <3>5. Reports(m, t, c, FALSE) => Reports(m, n, c, FALSE)
      BY <3>2 DEF Reports, Tells, Quiet
    <3>6. n.crash = "No" => m.crash = "No" /\ Errs(m, n, c)
      <4>1. SUFFICES ASSUME n.crash = "No"
                     PROVE  m.crash = "No" /\ Errs(m, n, c)
        OBVIOUS
      <4>2. m.crash = "No" /\ Reports(m, n, c, FALSE) /\ Frees(t, n, c)
        BY <2>10, <3>2, <3>5, <4>1
      <4>3. /\ n.states[c].progress = "Aborted" /\ ~n.states[c].live
            /\ n.states[c].outstanding = m.states[c].outstanding
        BY <2>3, <2>11, <4>2 DEF Frees
      <4>4. QED
        BY <1>2, <2>4, <2>11, <3>2, <3>3, <4>2, <4>3 DEF Errs
    <3>7. QED
      BY <1>2, <2>4, <2>6, <2>9, <2>10, <2>11, <3>2, <3>3, <3>4, <3>6
  <2>14. QED
    BY <2>12, <2>13
<1>3. QED
  BY <1>1, <1>2

Counted1(x) == IF x > 0 THEN x - 1 ELSE 0

(* A request of the load has ended: when the load is not current and no other
   request of it is out, it is told, once, and freed. *)
LastOf(m, c) == Stale(m, c) /\ Counted1(m.states[c].outstanding) = 0
EndsUntold(m, c) == LastOf(m, c) /\ m.states[c].progress # "Aborted"

EndsLoad(m, n, c) ==
    /\ m.states[c].live
    /\ KeepsLoads(m, n, c) /\ n.load = m.load
    /\ n.states[c].progress = m.states[c].progress
    /\ n.states[c].outstanding = Counted1(m.states[c].outstanding)
    /\ IF EndsUntold(m, c) THEN Reports(m, n, c, FALSE) ELSE Quiet(m, n)
    /\ LastOf(m, c) => ~n.states[c].live
    /\ ~LastOf(m, c) => n.states[c].live

LEMMA EndLoadIs ==
    ASSUME NEW m \in Shape, NEW c \in Loads, NEW n, n = EndLoad(m, c)
    PROVE  /\ n \in Shape /\ KeepsLoads(m, n, c) /\ KeepsGame(m, n) /\ n.load = m.load
           /\ Fewer(m, n)
           /\ n.crash = "No" => m.crash = "No" /\ EndsLoad(m, n, c)
           /\ n.crash = "Panic" =>
                m.crash = "Panic" \/ (m.states[c].live /\ EndsUntold(m, c) /\ LateLoad(m, c))
<1> DEFINE x == Counted1(m.states[c].outstanding)
           st == [m.states[c] EXCEPT !.outstanding = x]
           d == [m EXCEPT !.states = [m.states EXCEPT ![c] = st]]
           t == IF m.states[c].progress = "Aborted" THEN d ELSE Callback(d, c, FALSE)
<1>1. CASE ~m.states[c].live
  <2>1. n = Crash(m, "Freed")
    BY <1>1 DEF EndLoad
  <2>2. QED
    BY <2>1, CrashIs DEF OnlyTold, KeepsLoads, KeepsGame, KeepsCalls, Fewer, Shape, AnyLoadState
<1>2. CASE m.states[c].live
  <2>1. n = IF Stale(m, c) /\ d.states[c].outstanding = 0 THEN FreeLoad(t, c) ELSE d
    BY <1>2 DEF EndLoad, Counted1
  <2>2. /\ m.states \in [Loads -> AnyLoadState] /\ m.states[c] \in AnyLoadState
        /\ m.states[c].outstanding \in Nat
    BY DEF Shape, AnyLoadState
  <2>3. x \in Nat /\ x <= m.states[c].outstanding
    BY <2>2 DEF Counted1
  <2> HIDE DEF x
  <2>4. /\ st \in AnyLoadState /\ st.live = m.states[c].live
        /\ st.progress = m.states[c].progress /\ st.outstanding = x
        /\ st.callback = m.states[c].callback /\ st.aborted = m.states[c].aborted
    BY <2>2, <2>3 DEF AnyLoadState
  <2> HIDE DEF st
  <2>5. d \in Shape
    BY <2>2, <2>4 DEF Shape
  <2>6. d.states = [m.states EXCEPT ![c] = st] /\ d.load = m.load /\ d.crash = m.crash
    BY DEF Shape
  <2>7. KeepsLoads(m, d, c) /\ KeepsGame(m, d) /\ Quiet(m, d)
    BY <2>2, <2>4, <2>6 DEF KeepsLoads, KeepsGame, KeepsCalls, Quiet, Shape
  <2>8. d.states[c] = st
    BY <2>2, <2>6
  <2>9. \A e \in Loads : d.states[e].outstanding <= m.states[e].outstanding
    BY <2>2, <2>3, <2>4, <2>6 DEF AnyLoadState
  <2> HIDE DEF d
  <2>10. LastOf(m, c) <=> Stale(m, c) /\ d.states[c].outstanding = 0
    BY <2>4, <2>8 DEF LastOf, x
  <2>11. CASE ~LastOf(m, c)
    <3>1. n = d /\ ~EndsUntold(m, c)
      BY <2>1, <2>10, <2>11 DEF EndsUntold
    <3>2. m.crash = "No" => EndsLoad(m, n, c)
      BY <1>2, <2>4, <2>6, <2>7, <2>8, <2>11, <3>1 DEF EndsLoad, x
    <3>3. QED
      BY <2>5, <2>6, <2>7, <2>9, <3>1, <3>2 DEF Fewer
  <2>12. CASE LastOf(m, c)
    <3>1. n = FreeLoad(t, c)
      BY <2>1, <2>10, <2>12
    <3>2. /\ t \in Shape /\ OnlyTold(d, t)
          /\ t.crash = "No" =>
               d.crash = "No" /\ IF EndsUntold(m, c) THEN Reports(d, t, c, FALSE) ELSE Quiet(d, t)
          /\ t.crash = "Panic" => d.crash = "Panic" \/ (EndsUntold(m, c) /\ LateLoad(d, c))
      <4>1. CASE m.states[c].progress = "Aborted"
        BY <2>5, <4>1 DEF EndsUntold, OnlyTold, Quiet
      <4>2. CASE m.states[c].progress # "Aborted"
        BY <2>5, <2>12, <4>2, CallbackIs DEF EndsUntold
      <4>3. QED
        BY <4>1, <4>2
    <3> HIDE DEF t
    <3>3. /\ t.crash = "No" =>
               m.crash = "No" /\ IF EndsUntold(m, c) THEN Reports(m, t, c, FALSE) ELSE Quiet(m, t)
          /\ t.crash = "Panic" => m.crash = "Panic" \/ (EndsUntold(m, c) /\ LateLoad(m, c))
      BY <2>4, <2>6, <2>7, <2>8, <3>2
      DEF Reports, LateLoad, Late, Tells, Quiet, KeepsLoads, KeepsCalls
    <3>4. /\ KeepsLoads(m, t, c) /\ KeepsGame(m, t) /\ t.load = m.load /\ t.states[c] = st
          /\ \A e \in Loads : t.states[e].outstanding <= m.states[e].outstanding
      BY <2>4, <2>6, <2>7, <2>8, <2>9, <3>2 DEF OnlyTold, KeepsLoads, KeepsGame, KeepsCalls
    <3>5. /\ n \in Shape /\ KeepsLoads(t, n, c) /\ KeepsGame(t, n) /\ n.load = t.load
          /\ Fewer(t, n) /\ Quiet(t, n)
          /\ n.crash = "No" => t.crash = "No" /\ Frees(t, n, c)
          /\ n.crash = "Panic" => t.crash = "Panic"
      BY <3>1, <3>2, FreeLoadIs
    <3>6. KeepsLoads(m, n, c) /\ KeepsGame(m, n)
      BY <3>4, <3>5 DEF KeepsLoads, KeepsGame, KeepsCalls
    <3>7. Fewer(m, n)
      <4>1. SUFFICES ASSUME NEW e \in Loads
                     PROVE  n.states[e].outstanding <= m.states[e].outstanding
        BY DEF Fewer
      <4>2. /\ n.states[e].outstanding \in Nat /\ t.states[e].outstanding \in Nat
            /\ m.states[e].outstanding \in Nat
        BY <3>2, <3>5 DEF Shape, AnyLoadState
      <4>3. QED
        BY <3>4, <3>5, <4>2 DEF Fewer
    <3>8. ASSUME n.crash = "No"
          PROVE  m.crash = "No" /\ EndsLoad(m, n, c)
      <4>1. m.crash = "No" /\ Frees(t, n, c)
        BY <3>3, <3>5, <3>8
      <4>2. IF EndsUntold(m, c) THEN Reports(m, n, c, FALSE) ELSE Quiet(m, n)
        BY <3>3, <3>5, <3>8 DEF Reports, Tells, Quiet
      <4>3. /\ n.states[c].progress = m.states[c].progress /\ n.states[c].outstanding = x
            /\ ~n.states[c].live
        BY <2>4, <3>4, <4>1 DEF Frees
      <4>4. QED
        BY <1>2, <2>12, <3>4, <3>5, <3>6, <4>1, <4>2, <4>3 DEF EndsLoad, x
    <3>9. QED
      BY <1>2, <3>3, <3>4, <3>5, <3>6, <3>7, <3>8
  <2>13. QED
    BY <2>11, <2>12
<1>3. QED
  BY <1>1, <1>2

(* A load that was aborted cleans up without a word. *)
Aborts(m, n, c) ==
    /\ KeepsCalls(m, n) /\ n.user = m.user /\ Quiet(m, n)
    /\ \A d \in Loads \ {c} : n.states[d] = m.states[d]
    /\ n.load = IF m.load = c THEN Nil ELSE m.load
    /\ n.states[c].progress = "Aborted"
    /\ n.states[c].outstanding = Counted1(m.states[c].outstanding)
    /\ ~n.states[c].callback /\ n.states[c].aborted = m.states[c].aborted

LEMMA LoadAbortedIs ==
    ASSUME NEW m \in Shape, NEW c \in Loads, NEW n, n = LoadAborted(m, c)
    PROVE  /\ n \in Shape /\ KeepsCalls(m, n) /\ KeepsGame(m, n)
           /\ n.load \in {m.load, Nil} /\ Fewer(m, n)
           /\ n.user = m.user /\ \A d \in Loads \ {c} : n.states[d] = m.states[d]
           /\ n.crash = "No" => m.crash = "No" /\ Aborts(m, n, c)
           /\ n.crash = "Panic" => m.crash = "Panic"
<1> DEFINE st == [m.states[c] EXCEPT !.callback = FALSE]
           d == [m EXCEPT !.states = [m.states EXCEPT ![c] = st]]
           t == LoadError(d, c)
<1>1. n = EndLoad(t, c)
  BY DEF LoadAborted
<1>2. m.states \in [Loads -> AnyLoadState] /\ m.states[c] \in AnyLoadState
  BY DEF Shape
<1>3. /\ st \in AnyLoadState /\ st.callback = FALSE
      /\ st.progress = m.states[c].progress /\ st.outstanding = m.states[c].outstanding
      /\ st.aborted = m.states[c].aborted
  BY <1>2 DEF AnyLoadState
<1> HIDE DEF st
<1>4. /\ d \in Shape
      /\ d.states = [m.states EXCEPT ![c] = st] /\ d.load = m.load /\ d.crash = m.crash
  BY <1>2, <1>3 DEF Shape
<1>5. KeepsCalls(m, d) /\ KeepsGame(m, d) /\ Quiet(m, d) /\ d.user = m.user
  BY DEF KeepsGame, KeepsCalls, Quiet, Shape
<1>6. d.states[c] = st /\ \A e \in Loads \ {c} : d.states[e] = m.states[e]
  BY <1>2, <1>4
<1> HIDE DEF d
<1>7. /\ t \in Shape /\ KeepsLoads(d, t, c) /\ KeepsGame(d, t)
      /\ t.load \in {d.load, Nil} /\ Fewer(d, t)
      /\ t.crash = "No" => d.crash = "No" /\ Errs(d, t, c)
      /\ t.crash = "Panic" => d.crash = "Panic" \/ (d.states[c].live /\ LateLoad(d, c))
  BY <1>4, LoadErrorIs
<1> HIDE DEF t
<1>8. /\ n \in Shape /\ KeepsLoads(t, n, c) /\ KeepsGame(t, n) /\ n.load = t.load
      /\ Fewer(t, n)
      /\ n.crash = "No" => t.crash = "No" /\ EndsLoad(t, n, c)
      /\ n.crash = "Panic" =>
           t.crash = "Panic" \/ (t.states[c].live /\ EndsUntold(t, c) /\ LateLoad(t, c))
  BY <1>1, <1>7, EndLoadIs
<1>9. ~t.states[c].callback /\ ~d.states[c].callback
  BY <1>3, <1>6, <1>7 DEF KeepsLoads
<1>10. n.crash = "Panic" => m.crash = "Panic"
  BY <1>4, <1>7, <1>8, <1>9 DEF LateLoad
<1>11. KeepsCalls(m, n) /\ KeepsGame(m, n)
  BY <1>5, <1>7, <1>8 DEF KeepsCalls, KeepsGame, KeepsLoads
<1>12. Fewer(m, n)
  <2>1. SUFFICES ASSUME NEW e \in Loads
                 PROVE  n.states[e].outstanding <= m.states[e].outstanding
    BY DEF Fewer
  <2>2. /\ n.states[e].outstanding \in Nat /\ t.states[e].outstanding \in Nat
        /\ m.states[e].outstanding \in Nat
    BY <1>7, <1>8 DEF Shape, AnyLoadState
  <2>3. d.states[e].outstanding = m.states[e].outstanding
    BY <1>3, <1>6
  <2>4. QED
    BY <1>7, <1>8, <2>2, <2>3 DEF Fewer
<1>13. ASSUME n.crash = "No"
       PROVE  m.crash = "No" /\ Aborts(m, n, c)
  <2>1. m.crash = "No" /\ Errs(d, t, c) /\ EndsLoad(t, n, c)
    BY <1>4, <1>7, <1>8, <1>13
  <2>2. Quiet(m, n)
    <3>1. Quiet(d, t)
      BY <1>9, <2>1 DEF Errs, Reports
    <3>2. ~EndsUntold(t, c)
      BY <2>1 DEF Errs, EndsUntold
    <3>3. Quiet(t, n)
      BY <2>1, <3>2 DEF EndsLoad
    <3>4. QED
      BY <1>5, <3>1, <3>3 DEF Quiet
  <2>3. /\ n.states[c].progress = "Aborted"
        /\ n.states[c].outstanding = Counted1(m.states[c].outstanding)
    BY <1>3, <1>6, <2>1 DEF Errs, EndsLoad
  <2>4. n.load = IF m.load = c THEN Nil ELSE m.load
    BY <1>4, <1>8, <2>1 DEF Errs
  <2>5. /\ \A e \in Loads \ {c} : n.states[e] = m.states[e]
        /\ ~n.states[c].callback /\ n.states[c].aborted = m.states[c].aborted
        /\ n.user = m.user
    BY <1>3, <1>5, <1>6, <1>7, <1>8, <1>9 DEF KeepsLoads
  <2>6. QED
    BY <1>11, <2>1, <2>2, <2>3, <2>4, <2>5 DEF Aborts
<1>14. n.user = m.user /\ \A e \in Loads \ {c} : n.states[e] = m.states[e]
  BY <1>5, <1>6, <1>7, <1>8 DEF KeepsLoads
<1>15. QED
  BY <1>4, <1>7, <1>8, <1>10, <1>11, <1>12, <1>13, <1>14

(* The sets of a game are asked for, or the load waits for the login, or fails
   without one. *)
Fetches(m, n, c) ==
    /\ KeepsLoads(m, n, c)
    /\ m.user = "Requested" => /\ Quiet(m, n) /\ n.load = m.load
                               /\ n.states[c].progress = "AwaitLogin"
                               /\ n.states[c].outstanding = m.states[c].outstanding
                               /\ n.states[c].live = m.states[c].live
    /\ m.user = "LoggedIn" => /\ Quiet(m, n) /\ n.load = m.load
                              /\ n.states[c].progress = "Fetching"
                              /\ n.states[c].outstanding = m.states[c].outstanding + 1
                              /\ n.states[c].live = m.states[c].live
    /\ m.user = "None" => Errs(m, n, c)

(* A load that is at p, with x requests out. *)
ProgressTo(m, c, p, x) ==
    [m EXCEPT !.states = [m.states EXCEPT ![c] = [m.states[c] EXCEPT !.progress = p,
                                                                     !.outstanding = x]]]

LEMMA ProgressToIs ==
    ASSUME NEW m \in Shape, NEW c \in Loads, NEW p \in {"AwaitLogin", "Fetching"}, NEW x \in Nat,
           NEW n, n = ProgressTo(m, c, p, x)
    PROVE  /\ n \in Shape /\ KeepsLoads(m, n, c) /\ KeepsGame(m, n) /\ Quiet(m, n)
           /\ n.load = m.load /\ n.crash = m.crash
           /\ n.states[c].progress = p /\ n.states[c].outstanding = x
           /\ n.states[c].live = m.states[c].live
<1> DEFINE st == [m.states[c] EXCEPT !.progress = p, !.outstanding = x]
<1>1. m.states \in [Loads -> AnyLoadState] /\ m.states[c] \in AnyLoadState
  BY DEF Shape
<1>2. /\ st \in AnyLoadState /\ st.live = m.states[c].live
      /\ st.progress = p /\ st.outstanding = x
      /\ st.callback = m.states[c].callback /\ st.aborted = m.states[c].aborted
  BY <1>1 DEF AnyLoadState
<1>3. n = [m EXCEPT !.states = [m.states EXCEPT ![c] = st]]
  BY DEF ProgressTo
<1> HIDE DEF st
<1>4. /\ n \in Shape
      /\ n.states = [m.states EXCEPT ![c] = st] /\ n.load = m.load /\ n.crash = m.crash
  BY <1>1, <1>2, <1>3 DEF Shape
<1>5. n.states[c] = st /\ \A e \in Loads \ {c} : n.states[e] = m.states[e]
  BY <1>1, <1>4
<1>6. KeepsCalls(m, n) /\ KeepsGame(m, n) /\ Quiet(m, n) /\ n.user = m.user
  BY <1>3 DEF KeepsGame, KeepsCalls, Quiet, Shape
<1>7. QED
  BY <1>2, <1>4, <1>5, <1>6 DEF KeepsLoads

LEMMA BeginFetchIs ==
    ASSUME NEW m \in Shape, NEW c \in Loads, NEW n, n = BeginFetch(m, c)
    PROVE  /\ n \in Shape /\ KeepsLoads(m, n, c) /\ KeepsGame(m, n)
           /\ n.load \in {m.load, Nil}
           /\ m.user # "LoggedIn" => Fewer(m, n)
           /\ m.user = "LoggedIn" => n.crash = m.crash
           /\ n.crash = "No" => m.crash = "No" /\ Fetches(m, n, c)
           /\ n.crash = "Panic" =>
                m.crash = "Panic" \/ (m.user = "None" /\ m.states[c].live /\ LateLoad(m, c))
<1>1. /\ m.states \in [Loads -> AnyLoadState] /\ m.states[c] \in AnyLoadState
      /\ m.states[c].outstanding \in Nat /\ m.user \in {"None", "Requested", "LoggedIn"}
  BY DEF Shape, AnyLoadState
<1>0. PICK o \in Nat : o = m.states[c].outstanding
  BY <1>1
<1> DEFINE df == ProgressTo(m, c, "Fetching", o)
<1>2. /\ o \in Nat /\ o + 1 \in Nat
      /\ "AwaitLogin" \in {"AwaitLogin", "Fetching"} /\ "Fetching" \in {"AwaitLogin", "Fetching"}
  BY <1>1
<1>3. CASE m.user = "Requested"
  <2>1. n = ProgressTo(m, c, "AwaitLogin", o)
    BY <1>1, <1>0, <1>3 DEF BeginFetch, ProgressTo, AnyLoadState
  <2>2. /\ n \in Shape /\ KeepsLoads(m, n, c) /\ KeepsGame(m, n) /\ Quiet(m, n)
        /\ n.load = m.load /\ n.crash = m.crash
        /\ n.states[c].progress = "AwaitLogin" /\ n.states[c].outstanding = o
        /\ n.states[c].live = m.states[c].live
    BY <1>2, <2>1, ProgressToIs
  <2>3. Fewer(m, n)
    BY <1>1, <1>0, <2>2 DEF Fewer, KeepsLoads, AnyLoadState
  <2>4. QED
    BY <1>0, <1>3, <2>2, <2>3 DEF Fetches
<1>4. CASE m.user = "LoggedIn"
  <2>1. n = ProgressTo(m, c, "Fetching", o + 1)
    BY <1>1, <1>0, <1>4 DEF BeginFetch, Asks, ProgressTo, AnyLoadState, Shape
  <2>2. /\ n \in Shape /\ KeepsLoads(m, n, c) /\ KeepsGame(m, n) /\ Quiet(m, n)
        /\ n.load = m.load /\ n.crash = m.crash
        /\ n.states[c].progress = "Fetching" /\ n.states[c].outstanding = o + 1
        /\ n.states[c].live = m.states[c].live
    BY <1>2, <2>1, ProgressToIs
  <2>3. QED
    BY <1>0, <1>4, <2>2 DEF Fetches
<1>5. CASE m.user = "None"
  <2>1. n = LoadError(df, c)
    BY <1>1, <1>0, <1>5 DEF BeginFetch, Asks, ProgressTo, AnyLoadState
  <2>2. /\ df \in Shape /\ KeepsLoads(m, df, c) /\ KeepsGame(m, df) /\ Quiet(m, df)
        /\ df.load = m.load /\ df.crash = m.crash
        /\ df.states[c].outstanding = o /\ df.states[c].live = m.states[c].live
    BY <1>2, ProgressToIs
  <2> HIDE DEF df
  <2>3. /\ n \in Shape /\ KeepsLoads(df, n, c) /\ KeepsGame(df, n)
        /\ n.load \in {df.load, Nil} /\ Fewer(df, n)
        /\ n.crash = "No" => df.crash = "No" /\ Errs(df, n, c)
        /\ n.crash = "Panic" => df.crash = "Panic" \/ (df.states[c].live /\ LateLoad(df, c))
    BY <2>1, <2>2, LoadErrorIs
  <2>4. KeepsLoads(m, n, c) /\ KeepsGame(m, n)
    BY <2>2, <2>3 DEF KeepsLoads, KeepsGame, KeepsCalls
  <2>5. Reports(df, n, c, FALSE) => Reports(m, n, c, FALSE)
    BY <2>2 DEF Reports, Tells, Quiet, KeepsLoads, KeepsCalls
  <2>6. LateLoad(df, c) => LateLoad(m, c)
    BY <2>2 DEF LateLoad, Late, Quiet, KeepsLoads, KeepsCalls
  <2>7. n.crash = "No" => m.crash = "No" /\ Errs(m, n, c)
    BY <1>0, <2>2, <2>3, <2>4, <2>5 DEF Errs
  <2>8. Fewer(m, n)
    BY <1>0, <2>2, <2>3 DEF Fewer, KeepsLoads
  <2>9. QED
    BY <1>5, <2>2, <2>3, <2>4, <2>6, <2>7, <2>8 DEF Fetches
<1>6. QED
  BY <1>1, <1>3, <1>4, <1>5

LEMMA UnknownGameIs ==
    ASSUME NEW m \in Shape, NEW c \in Loads, NEW n, n = UnknownGame(m, c)
    PROVE  /\ n \in Shape /\ KeepsLoads(m, n, c)
           /\ n.game = c /\ n.unknown = m.unknown \cup {c}
           /\ n.load \in {m.load, Nil} /\ Fewer(m, n)
           /\ n.crash = "No" => m.crash = "No" /\ Errs(m, n, c)
           /\ n.crash = "Panic" => m.crash = "Panic" \/ (m.states[c].live /\ LateLoad(m, c))
<1> DEFINE st == [m.states[c] EXCEPT !.game = FALSE]
           d == [m EXCEPT !.game = c, !.unknown = m.unknown \cup {c},
                          !.states = [m.states EXCEPT ![c] = st]]
<1>1. n = LoadError(d, c)
  BY DEF UnknownGame
<1>2. m.states \in [Loads -> AnyLoadState] /\ m.states[c] \in AnyLoadState
      /\ m.unknown \cup {c} \in SUBSET Loads
  BY DEF Shape
<1>3. /\ st \in AnyLoadState /\ st.callback = m.states[c].callback /\ st.live = m.states[c].live
      /\ st.progress = m.states[c].progress /\ st.outstanding = m.states[c].outstanding
      /\ st.aborted = m.states[c].aborted
  BY <1>2 DEF AnyLoadState
<1> HIDE DEF st
<1>4. /\ d \in Shape /\ d.game = c /\ d.unknown = m.unknown \cup {c}
      /\ d.states = [m.states EXCEPT ![c] = st] /\ d.load = m.load /\ d.crash = m.crash
  BY <1>2, <1>3 DEF Shape
<1>5. KeepsCalls(m, d) /\ Quiet(m, d) /\ d.user = m.user
  BY DEF KeepsCalls, Quiet, Shape
<1>6. d.states[c] = st /\ \A e \in Loads \ {c} : d.states[e] = m.states[e]
  BY <1>2, <1>4
<1> HIDE DEF d
<1>7. /\ n \in Shape /\ KeepsLoads(d, n, c) /\ KeepsGame(d, n)
      /\ n.load \in {d.load, Nil} /\ Fewer(d, n)
      /\ n.crash = "No" => d.crash = "No" /\ Errs(d, n, c)
      /\ n.crash = "Panic" => d.crash = "Panic" \/ (d.states[c].live /\ LateLoad(d, c))
  BY <1>1, <1>4, LoadErrorIs
<1>8. KeepsLoads(m, n, c) /\ n.game = c /\ n.unknown = m.unknown \cup {c}
  BY <1>3, <1>4, <1>5, <1>6, <1>7 DEF KeepsLoads, KeepsGame, KeepsCalls
<1>9. Reports(d, n, c, FALSE) => Reports(m, n, c, FALSE)
  BY <1>3, <1>5, <1>6 DEF Reports, Tells, Quiet, KeepsCalls
<1>10. LateLoad(d, c) => LateLoad(m, c)
  BY <1>3, <1>5, <1>6 DEF LateLoad, Late, Quiet, KeepsCalls
<1>11. ASSUME n.crash = "No"
       PROVE  m.crash = "No" /\ Errs(m, n, c)
  <2>1. m.crash = "No" /\ Errs(d, n, c)
    BY <1>4, <1>7, <1>11
  <2>2. m.states[c].live
    BY <1>3, <1>6, <2>1 DEF Errs
  <2>3. /\ n.load = IF m.load = c THEN Nil ELSE m.load
        /\ n.states[c].outstanding = m.states[c].outstanding
        /\ m.states[c].outstanding = 0 => ~n.states[c].live
    BY <1>3, <1>4, <1>6, <2>1 DEF Errs
  <2>4. QED
    BY <1>8, <1>9, <2>1, <2>2, <2>3 DEF Errs
<1>12. Fewer(m, n)
  BY <1>3, <1>6, <1>7 DEF Fewer
<1>13. QED
  BY <1>3, <1>4, <1>6, <1>7, <1>8, <1>10, <1>11, <1>12

(* The load is told how it went, and freed. *)
Drops(m, n, c, ok) ==
    /\ KeepsLoads(m, n, c) /\ Reports(m, n, c, ok) /\ n.load = m.load
    /\ ~n.states[c].live
    /\ n.states[c].progress \in {m.states[c].progress, "Aborted"}
    /\ n.states[c].outstanding = m.states[c].outstanding

Dropped(m, c, ok) == FreeLoad(Callback(m, c, ok), c)

LEMMA DropIs ==
    ASSUME NEW m \in Shape, NEW c \in Loads, NEW ok \in BOOLEAN,
           NEW n, n = Dropped(m, c, ok)
    PROVE  /\ n \in Shape /\ KeepsLoads(m, n, c) /\ KeepsGame(m, n) /\ n.load = m.load
           /\ Fewer(m, n)
           /\ n.crash = "No" => m.crash = "No" /\ Drops(m, n, c, ok)
           /\ n.crash = "Panic" => m.crash = "Panic" \/ LateLoad(m, c)
<1> DEFINE t == Callback(m, c, ok)
<1>1. /\ t \in Shape /\ OnlyTold(m, t)
      /\ t.crash = "No" => m.crash = "No" /\ Reports(m, t, c, ok)
      /\ t.crash = "Panic" => m.crash = "Panic" \/ LateLoad(m, c)
  BY CallbackIs
<1>2. n = FreeLoad(t, c)
  BY DEF Dropped
<1> HIDE DEF t
<1>3. /\ n \in Shape /\ KeepsLoads(t, n, c) /\ KeepsGame(t, n) /\ n.load = t.load
      /\ Fewer(t, n) /\ Quiet(t, n)
      /\ n.crash = "No" => t.crash = "No" /\ Frees(t, n, c)
      /\ n.crash = "Panic" => t.crash = "Panic"
  BY <1>1, <1>2, FreeLoadIs
<1>4. KeepsLoads(m, n, c) /\ KeepsGame(m, n) /\ n.load = m.load
  BY <1>1, <1>3 DEF KeepsLoads, KeepsGame, KeepsCalls, OnlyTold
<1>5. Fewer(m, n)
  BY <1>1, <1>3 DEF Fewer, OnlyTold
<1>6. Reports(m, t, c, ok) => Reports(m, n, c, ok)
  BY <1>3 DEF Reports, Tells, Quiet
<1>7. n.crash = "No" => m.crash = "No" /\ Drops(m, n, c, ok)
  BY <1>1, <1>3, <1>4, <1>6 DEF Drops, Frees, OnlyTold
<1>8. QED
  BY <1>1, <1>3, <1>4, <1>5, <1>7

LEMMA NotActiveIs ==
    ASSUME NEW m \in Shape, NEW c \in Loads, NEW n, n = NotActive(m, c)
    PROVE  /\ n \in Shape /\ KeepsLoads(m, n, c) /\ KeepsGame(m, n) /\ n.load = m.load
           /\ Fewer(m, n)
           /\ n.crash = "No" => m.crash = "No" /\ Drops(m, n, c, FALSE)
           /\ n.crash = "Panic" => m.crash = "Panic" \/ LateLoad(m, c)
<1> DEFINE st == [m.states[c] EXCEPT !.progress = "Aborted"]
           d == [m EXCEPT !.states = [m.states EXCEPT ![c] = st]]
<1>1. n = Dropped(d, c, FALSE)
  BY DEF NotActive, Dropped
<1>2. m.states \in [Loads -> AnyLoadState] /\ m.states[c] \in AnyLoadState
  BY DEF Shape
<1>3. /\ st \in AnyLoadState /\ st.callback = m.states[c].callback /\ st.live = m.states[c].live
      /\ st.progress = "Aborted" /\ st.outstanding = m.states[c].outstanding
      /\ st.aborted = m.states[c].aborted
  BY <1>2 DEF AnyLoadState
<1> HIDE DEF st
<1>4. /\ d \in Shape
      /\ d.states = [m.states EXCEPT ![c] = st] /\ d.load = m.load /\ d.crash = m.crash
  BY <1>2, <1>3 DEF Shape
<1>5. KeepsCalls(m, d) /\ KeepsGame(m, d) /\ Quiet(m, d) /\ d.user = m.user
  BY DEF KeepsCalls, KeepsGame, Quiet, Shape
<1>6. d.states[c] = st /\ \A e \in Loads \ {c} : d.states[e] = m.states[e]
  BY <1>2, <1>4
<1> HIDE DEF d
<1>7. /\ n \in Shape /\ KeepsLoads(d, n, c) /\ KeepsGame(d, n) /\ n.load = d.load
      /\ Fewer(d, n)
      /\ n.crash = "No" => d.crash = "No" /\ Drops(d, n, c, FALSE)
      /\ n.crash = "Panic" => d.crash = "Panic" \/ LateLoad(d, c)
  BY <1>1, <1>4, DropIs
<1>8. KeepsLoads(m, n, c) /\ KeepsGame(m, n)
  BY <1>3, <1>5, <1>6, <1>7 DEF KeepsLoads, KeepsGame, KeepsCalls
<1>9. Reports(d, n, c, FALSE) => Reports(m, n, c, FALSE)
  BY <1>3, <1>5, <1>6 DEF Reports, Tells, Quiet, KeepsCalls
<1>10. LateLoad(d, c) => LateLoad(m, c)
  BY <1>3, <1>5, <1>6 DEF LateLoad, Late, Quiet, KeepsCalls
<1>11. n.crash = "No" => m.crash = "No" /\ Drops(m, n, c, FALSE)
  BY <1>3, <1>4, <1>6, <1>7, <1>8, <1>9 DEF Drops
<1>12. Fewer(m, n)
  BY <1>3, <1>6, <1>7 DEF Fewer
<1>13. QED
  BY <1>4, <1>7, <1>8, <1>10, <1>11, <1>12

Finished(m, c) == FreeLoad([Callback(m, c, TRUE) EXCEPT !.states[c].game = FALSE], c)

LEMMA FinishIs ==
    ASSUME NEW m \in Shape, NEW c \in Loads, NEW n, n = Finished(m, c)
    PROVE  /\ n \in Shape /\ KeepsLoads(m, n, c) /\ KeepsGame(m, n) /\ n.load = m.load
           /\ Fewer(m, n)
           /\ n.crash = "No" => m.crash = "No" /\ Drops(m, n, c, TRUE)
           /\ n.crash = "Panic" => m.crash = "Panic" \/ LateLoad(m, c)
<1> DEFINE t == Callback(m, c, TRUE)
           st == [t.states[c] EXCEPT !.game = FALSE]
           d == [t EXCEPT !.states = [t.states EXCEPT ![c] = st]]
<1>1. /\ t \in Shape /\ OnlyTold(m, t)
      /\ t.crash = "No" => m.crash = "No" /\ Reports(m, t, c, TRUE)
      /\ t.crash = "Panic" => m.crash = "Panic" \/ LateLoad(m, c)
  BY CallbackIs
<1>2. n = FreeLoad(d, c)
  BY DEF Finished
<1> HIDE DEF t
<1>3. t.states \in [Loads -> AnyLoadState] /\ t.states[c] \in AnyLoadState
  BY <1>1 DEF Shape
<1>4. /\ st \in AnyLoadState /\ st.callback = t.states[c].callback
      /\ st.progress = t.states[c].progress /\ st.outstanding = t.states[c].outstanding
      /\ st.aborted = t.states[c].aborted
  BY <1>3 DEF AnyLoadState
<1> HIDE DEF st
<1>5. /\ d \in Shape
      /\ d.states = [t.states EXCEPT ![c] = st] /\ d.load = t.load /\ d.crash = t.crash
  BY <1>1, <1>3, <1>4 DEF Shape
<1>6. KeepsCalls(t, d) /\ KeepsGame(t, d) /\ Quiet(t, d) /\ d.user = t.user
  BY <1>1 DEF KeepsCalls, KeepsGame, Quiet, Shape
<1>7. d.states[c] = st /\ \A e \in Loads \ {c} : d.states[e] = t.states[e]
  BY <1>3, <1>5
<1> HIDE DEF d
<1>8. /\ n \in Shape /\ KeepsLoads(d, n, c) /\ KeepsGame(d, n) /\ n.load = d.load
      /\ Fewer(d, n) /\ Quiet(d, n)
      /\ n.crash = "No" => d.crash = "No" /\ Frees(d, n, c)
      /\ n.crash = "Panic" => d.crash = "Panic"
  BY <1>2, <1>5, FreeLoadIs
<1>9. KeepsLoads(m, n, c) /\ KeepsGame(m, n) /\ n.load = m.load
  BY <1>1, <1>4, <1>5, <1>6, <1>7, <1>8 DEF KeepsLoads, KeepsGame, KeepsCalls, OnlyTold
<1>10. Fewer(m, n)
  BY <1>1, <1>4, <1>7, <1>8 DEF Fewer, OnlyTold
<1>11. Reports(m, t, c, TRUE) => Reports(m, n, c, TRUE)
  BY <1>6, <1>8 DEF Reports, Tells, Quiet
<1>12. n.crash = "No" => m.crash = "No" /\ Drops(m, n, c, TRUE)
  BY <1>1, <1>4, <1>5, <1>7, <1>8, <1>9, <1>11 DEF Drops, Frees, OnlyTold
<1>13. QED
  BY <1>1, <1>5, <1>8, <1>9, <1>10, <1>12
-----------------------------------------------------------------------------
(***************************************************************************
 Logging in and loading: the types, and what the answers of a load leave alone.
 ***************************************************************************)
Places == {"Idle", "Begin", "Attach", "Unload", "Set", "Fetch", "Wait", "Waiting", "OK", "Failed"}
Stages == {"None", "Sent", "Answered", "Resolved", "Processing", "Store", "Activate", "Enable",
           "Finish", "Done"}
LoginPlaces == {"Idle", "Begin", "Wait", "Waiting", "OK", "Failed"}
LoginStages == {"None", "Sent", "Answered", "Resolved", "Done"}

Login(c) == at[<<"login", c>>]
Fetching(c) == at[<<"fetch", c>>]
Session(c) == at[<<"session", c>>]

Types ==
    /\ mem \in Shape
    /\ pc \in [Calls -> Places]
    /\ \A c \in Logins : pc[c] \in LoginPlaces
    /\ waitsOn \in [Calls -> Calls \cup {Nil}]
    /\ at \in [Requests -> Stages]
    /\ \A c \in Logins : Login(c) \in LoginStages
    /\ seen \in [Logins -> Loads \cup {Nil}]
    /\ overlapped \subseteq Kinds \cup {"attach"} /\ latest \in Loads \cup {Nil}
    /\ succeeded \subseteq Calls /\ emptied \subseteq Loads

LEMMA RequestIs ==
    /\ \A c \in Logins : <<"login", c>> \in Requests
    /\ \A c \in Loads : <<"fetch", c>> \in Requests /\ <<"session", c>> \in Requests
    /\ \A r \in Requests : \/ \E c \in Logins : r = <<"login", c>>
                           \/ \E c \in Loads : r = <<"fetch", c>> \/ r = <<"session", c>>
  BY DEF Requests

LEMMA CallIs ==
    /\ \A c \in Logins : c \in Calls /\ c \notin Loads /\ KindOf(c) = "login" /\ c # Nil
    /\ \A c \in Loads : c \in Calls /\ c \notin Logins /\ KindOf(c) = "load" /\ c # Nil
    /\ \A c \in Calls : KindOf(c) \in Kinds /\ c # Nil
    /\ Nil \notin Calls
  BY CallsApart DEF Calls, KindOf, Kinds

(* A step of a request of the load c. *)
Answering(c) ==
    /\ mem' \in Shape /\ KeepsCalls(mem, mem') /\ mem'.user = mem.user
    /\ \A d \in Loads \ {c} : mem'.states[d] = mem.states[d]
    /\ mem'.load \in {mem.load, Nil}
    /\ \/ KeepsGame(mem, mem')
       \/ mem'.game = c /\ mem'.unknown = mem.unknown \cup {c}
       \/ mem'.game = c /\ mem'.unknown = mem.unknown /\ mem.load = c
    /\ UNCHANGED <<pc, waitsOn, seen, overlapped, latest>>
    /\ \E r \in {<<"fetch", c>>, <<"session", c>>} : at[r] # "None"
    /\ at' \in [Requests -> Stages]
    /\ \A r \in Requests : r[2] # c => at'[r] = at[r]
    /\ succeeded \subseteq succeeded' /\ succeeded' \subseteq succeeded \cup {c}
    /\ emptied \subseteq emptied' /\ emptied' \subseteq emptied \cup {c}
    /\ mem'.crash = "No" =>
         /\ mem'.load # mem.load => mem.load = c
         /\ \/ Quiet(mem, mem')
            \/ Reports(mem, mem', c, FALSE)
            \/ Reports(mem, mem', c, TRUE) /\ c \in succeeded'

AnswerOf(c) ==
    \/ \E r \in {<<"fetch", c>>, <<"session", c>>} :
         EndAsync(r) \/ AnswerFails(r) \/ Activate(r) \/ Enable(r) \/ Finish(r)
    \/ FetchStale(c) \/ FetchUnknown(c) \/ SetUnknown(c) \/ FetchKnown(c)
    \/ (\E found \in BOOLEAN : Processed(c, found))
    \/ SessionStarted(c) \/ StoreSession(c)

LEMMA Goes1 ==
    ASSUME Types, NEW c \in Loads, NEW r \in {<<"fetch", c>>, <<"session", c>>},
           NEW to \in Stages, at' = [at EXCEPT ![r] = to]
    PROVE  at' \in [Requests -> Stages] /\ \A q \in Requests : q[2] # c => at'[q] = at[q]
<1>1. r[2] = c /\ r \in Requests
  BY DEF Requests
<1>2. QED
  BY <1>1 DEF Types

(* The steps that end a request. *)
LEMMA EndingAnswers ==
    ASSUME Types, NEW c \in Loads,
           NEW r \in {<<"fetch", c>>, <<"session", c>>},
           \/ EndAsync(r) \/ AnswerFails(r)
           \/ r = <<"fetch", c>> /\ (FetchStale(c) \/ FetchUnknown(c) \/ FetchKnown(c))
           \/ r = <<"session", c>> /\ SessionStarted(c)
    PROVE  Answering(c)
<1>1. /\ mem \in Shape /\ r[2] = c /\ r \in Requests /\ c \in Calls
      /\ <<"fetch", c>>[2] = c /\ <<"fetch", c>> \in Requests /\ <<"session", c>> \in Requests
      /\ <<"session", c>>[2] = c
  BY RequestIs, CallIs DEF Types
<1> DEFINE e == EndLoad(mem, c)
<1>2. /\ e \in Shape /\ KeepsLoads(mem, e, c) /\ KeepsGame(mem, e) /\ e.load = mem.load
      /\ e.crash = "No" => mem.crash = "No" /\ EndsLoad(mem, e, c)
  BY <1>1, EndLoadIs
<1>3. e.crash = "No" => Quiet(mem, e) \/ Reports(mem, e, c, FALSE)
  BY <1>2 DEF EndsLoad
<1> HIDE DEF e
<1>4. CASE EndAsync(r)
  <2>1. /\ UNCHANGED <<pc, waitsOn, seen, overlapped, latest, succeeded, emptied>>
        /\ at[r] = "Sent"
        /\ \/ mem' = Crash(mem, "Freed") /\ at' = at
           \/ mem' = LoadAborted(mem, c) /\ at' = [at EXCEPT ![r] = "Done"]
           \/ mem' = mem /\ at' = [at EXCEPT ![r] = "Answered"]
    BY <1>1, <1>4 DEF EndAsync, history
  <2>2. /\ at' \in [Requests -> Stages] /\ \A q \in Requests : q[2] # c => at'[q] = at[q]
    <3>1. "Done" \in Stages /\ "Answered" \in Stages
      BY DEF Stages
    <3>2. CASE at' = at
      BY <3>2 DEF Types
    <3>3. CASE at' = [at EXCEPT ![r] = "Done"]
      BY <3>1, <3>3, Goes1
    <3>4. CASE at' = [at EXCEPT ![r] = "Answered"]
      BY <3>1, <3>4, Goes1
    <3>5. QED
      BY <2>1, <3>2, <3>3, <3>4
  <2>3. CASE mem' = Crash(mem, "Freed")
    BY <1>1, <2>1, <2>2, <2>3, CrashIs DEF Answering, OnlyTold, KeepsCalls, KeepsGame
  <2>4. CASE mem' = LoadAborted(mem, c)
    <3>1. /\ mem' \in Shape /\ KeepsCalls(mem, mem') /\ KeepsGame(mem, mem')
          /\ mem'.load \in {mem.load, Nil} /\ mem'.user = mem.user
          /\ \A d \in Loads \ {c} : mem'.states[d] = mem.states[d]
          /\ mem'.crash = "No" => Aborts(mem, mem', c)
      BY <1>1, <2>4, LoadAbortedIs
    <3>2. QED
      BY <2>1, <2>2, <3>1 DEF Answering, Aborts
  <2>5. CASE mem' = mem
    BY <1>1, <2>1, <2>2, <2>5 DEF Answering, Quiet, KeepsCalls, KeepsGame
  <2>6. QED
    BY <2>1, <2>3, <2>4, <2>5
<1>5. CASE AnswerFails(r)
  <2>1. /\ UNCHANGED <<pc, waitsOn, seen, overlapped, latest, succeeded, emptied>>
        /\ at[r] = "Answered" /\ at' = [at EXCEPT ![r] = "Done"]
        /\ mem' = LoadError(e, c)
    BY <1>1, <1>5 DEF AnswerFails, Goes, history, e
  <2>2. /\ at' \in [Requests -> Stages] /\ \A q \in Requests : q[2] # c => at'[q] = at[q]
    <3>1. "Done" \in Stages
      BY DEF Stages
    <3>2. QED
      BY <2>1, <3>1, Goes1
  <2>3. /\ mem' \in Shape /\ KeepsLoads(e, mem', c) /\ KeepsGame(e, mem')
        /\ mem'.load \in {e.load, Nil}
        /\ mem'.crash = "No" => e.crash = "No" /\ Errs(e, mem', c)
    BY <1>2, <2>1, LoadErrorIs
  <2>4. KeepsLoads(mem, mem', c) /\ KeepsGame(mem, mem') /\ mem'.load \in {mem.load, Nil}
    BY <1>2, <2>3 DEF KeepsLoads, KeepsCalls, KeepsGame
  <2>5. ASSUME mem'.crash = "No"
        PROVE  /\ mem'.load # mem.load => mem.load = c
               /\ Quiet(mem, mem') \/ Reports(mem, mem', c, FALSE)
    <3>1. EndsLoad(mem, e, c) /\ Errs(e, mem', c)
      BY <1>2, <2>3, <2>5
    <3>2. mem'.load # mem.load => mem.load = c
      BY <1>2, <3>1 DEF Errs
    <3>3. CASE EndsUntold(mem, c)
      BY <3>1, <3>3 DEF Errs, EndsLoad, EndsUntold
    <3>4. CASE ~EndsUntold(mem, c)
      <4>1. Quiet(mem, e)
        BY <3>1, <3>4 DEF EndsLoad
      <4>2. Reports(e, mem', c, FALSE) => Reports(mem, mem', c, FALSE)
        BY <1>2, <4>1 DEF Reports, Tells, Quiet, KeepsLoads, KeepsCalls
      <4>3. QED
        BY <3>1, <3>2, <4>2 DEF Errs
    <3>5. QED
      BY <3>3, <3>4
  <2>6. QED
    BY <2>1, <2>2, <2>3, <2>4, <2>5 DEF Answering, KeepsLoads
<1>6. CASE r = <<"fetch", c>> /\ FetchStale(c)
  <2>1. /\ UNCHANGED <<pc, waitsOn, seen, overlapped, latest, succeeded, emptied>>
        /\ at[r] = "Answered" /\ at' = [at EXCEPT ![r] = "Done"] /\ mem' = e
    BY <1>6 DEF FetchStale, Goes, history, e
  <2>2. /\ at' \in [Requests -> Stages] /\ \A q \in Requests : q[2] # c => at'[q] = at[q]
    <3>1. "Done" \in Stages
      BY DEF Stages
    <3>2. QED
      BY <2>1, <3>1, Goes1
  <2>3. QED
    BY <1>2, <1>3, <2>1, <2>2 DEF Answering, KeepsLoads
<1>7. CASE r = <<"fetch", c>> /\ FetchUnknown(c)
  <2>1. /\ UNCHANGED <<pc, waitsOn, seen, overlapped, latest, succeeded, emptied>>
        /\ at[r] = "Answered" /\ at' = [at EXCEPT ![r] = "Resolved"]
        /\ mem' = [e EXCEPT !.noGame = @ \cup {RomOf[c]}]
    BY <1>7 DEF FetchUnknown, Goes, history, e
  <2>2. /\ at' \in [Requests -> Stages] /\ \A q \in Requests : q[2] # c => at'[q] = at[q]
    <3>1. "Resolved" \in Stages
      BY DEF Stages
    <3>2. QED
      BY <2>1, <3>1, Goes1
  <2>3. /\ mem' \in Shape
        /\ KeepsCalls(e, mem') /\ KeepsGame(e, mem') /\ Quiet(e, mem') /\ mem'.user = e.user
        /\ mem'.states = e.states /\ mem'.load = e.load /\ mem'.crash = e.crash
    BY <1>2, <2>1 DEF Shape, KeepsCalls, KeepsGame, Quiet
  <2>4. Reports(mem, e, c, FALSE) => Reports(mem, mem', c, FALSE)
    BY <2>3 DEF Reports, Tells, Quiet
  <2>5. Quiet(mem, e) => Quiet(mem, mem')
    BY <2>3 DEF Quiet
  <2>6. KeepsCalls(mem, mem') /\ KeepsGame(mem, mem')
    BY <1>2, <2>3 DEF KeepsLoads, KeepsCalls, KeepsGame
  <2>7. QED
    BY <1>2, <1>3, <2>1, <2>2, <2>3, <2>4, <2>5, <2>6 DEF Answering, KeepsLoads
<1>8. CASE r = <<"fetch", c>> /\ FetchKnown(c)
  <2>1. /\ UNCHANGED <<pc, waitsOn, seen, overlapped, latest, succeeded, emptied>>
        /\ at[r] = "Answered"
        /\ at' = [at EXCEPT ![<<"fetch", c>>] = "Processing", ![<<"session", c>>] = "Sent"]
        /\ mem' = [e EXCEPT !.states[c].outstanding = @ + 2]
    BY <1>8 DEF FetchKnown, history, e
  <2>2. /\ at' \in [Requests -> Stages] /\ \A q \in Requests : q[2] # c => at'[q] = at[q]
    BY <1>1, <2>1 DEF Types, Stages
  <2>3. PICK o \in Nat : o = e.states[c].outstanding
    BY <1>2 DEF Shape, AnyLoadState
  <2> DEFINE st == [e.states[c] EXCEPT !.outstanding = o + 2]
  <2>4. st \in AnyLoadState /\ st.callback = e.states[c].callback
    BY <1>2, <2>3 DEF Shape, AnyLoadState
  <2>5. mem' = [e EXCEPT !.states = [e.states EXCEPT ![c] = st]]
    BY <1>2, <2>1, <2>3 DEF Shape, AnyLoadState
  <2> HIDE DEF st
  <2>6. /\ mem' \in Shape
        /\ KeepsCalls(e, mem') /\ KeepsGame(e, mem') /\ Quiet(e, mem') /\ mem'.user = e.user
        /\ mem'.load = e.load /\ mem'.crash = e.crash
        /\ \A d \in Loads \ {c} : mem'.states[d] = e.states[d]
    BY <1>2, <2>4, <2>5 DEF Shape, KeepsCalls, KeepsGame, Quiet
  <2>7. Reports(mem, e, c, FALSE) => Reports(mem, mem', c, FALSE)
    BY <2>6 DEF Reports, Tells, Quiet
  <2>8. Quiet(mem, e) => Quiet(mem, mem')
    BY <2>6 DEF Quiet
  <2>9. KeepsCalls(mem, mem') /\ KeepsGame(mem, mem')
    BY <1>2, <2>6 DEF KeepsLoads, KeepsCalls, KeepsGame
  <2>10. QED
    BY <1>2, <1>3, <1>8, <2>1, <2>2, <2>6, <2>7, <2>8, <2>9 DEF Answering, KeepsLoads
<1>9. CASE r = <<"session", c>> /\ SessionStarted(c)
  <2>1. PICK to \in {"Done", "Activate", "Store"} :
        /\ UNCHANGED <<pc, waitsOn, seen, overlapped, latest, succeeded, emptied>>
        /\ at[r] = "Answered" /\ mem' = e /\ at' = [at EXCEPT ![r] = to]
    BY <1>9 DEF SessionStarted, history, e
  <2>2. /\ at' \in [Requests -> Stages] /\ \A q \in Requests : q[2] # c => at'[q] = at[q]
    <3>1. to \in Stages
      BY DEF Stages
    <3>2. QED
      BY <2>1, <3>1, Goes1
  <2>3. QED
    BY <1>2, <1>3, <2>1, <2>2 DEF Answering, KeepsLoads
<1>10. QED
  BY <1>4, <1>5, <1>6, <1>7, <1>8, <1>9

(* The steps that work on the answer of a request. *)
LEMMA WorkingAnswers ==
    ASSUME Types, NEW c \in Loads,
           NEW r \in {<<"fetch", c>>, <<"session", c>>},
           \/ r = <<"fetch", c>> /\ (SetUnknown(c) \/ \E found \in BOOLEAN : Processed(c, found))
           \/ r = <<"session", c>> /\ StoreSession(c)
           \/ Activate(r) \/ Enable(r) \/ Finish(r)
    PROVE  Answering(c)
<1>1. /\ mem \in Shape /\ r[2] = c /\ r \in Requests /\ c \in Calls
      /\ <<"fetch", c>>[2] = c /\ <<"fetch", c>> \in Requests /\ <<"session", c>> \in Requests
      /\ <<"session", c>>[2] = c
  BY RequestIs, CallIs DEF Types
<1>2. \A to \in Stages : at' = [at EXCEPT ![r] = to] =>
        at' \in [Requests -> Stages] /\ \A q \in Requests : q[2] # c => at'[q] = at[q]
  BY Goes1
<1>3. "Done" \in Stages /\ "Activate" \in Stages /\ "Enable" \in Stages /\ "Finish" \in Stages
  BY DEF Stages
<1>4. CASE r = <<"fetch", c>> /\ SetUnknown(c)
  <2>1. /\ UNCHANGED <<pc, waitsOn, seen, overlapped, latest, succeeded, emptied>>
        /\ at[r] = "Resolved" /\ at' = [at EXCEPT ![r] = "Done"] /\ mem' = UnknownGame(mem, c)
    BY <1>4 DEF SetUnknown, Goes, history
  <2>2. /\ mem' \in Shape /\ KeepsLoads(mem, mem', c)
        /\ mem'.game = c /\ mem'.unknown = mem.unknown \cup {c}
        /\ mem'.load \in {mem.load, Nil}
        /\ mem'.crash = "No" => Errs(mem, mem', c)
    BY <1>1, <2>1, UnknownGameIs
  <2>3. QED
    BY <1>2, <1>3, <2>1, <2>2 DEF Answering, Errs, KeepsLoads
<1>5. CASE r = <<"fetch", c>> /\ \E found \in BOOLEAN : Processed(c, found)
  <2>. PICK found \in BOOLEAN, to \in {"Activate", "Done"} :
        /\ UNCHANGED <<pc, waitsOn, seen, overlapped, latest, succeeded>>
        /\ at[r] = "Processing" /\ at' = [at EXCEPT ![r] = to]
        /\ mem' = EndLoad(IF found THEN mem ELSE LoadError(mem, c), c)
        /\ emptied' = IF found THEN emptied ELSE emptied \cup {c}
    BY <1>5 DEF Processed
  <2>. PICK l : l = IF found THEN mem ELSE LoadError(mem, c)
    OBVIOUS
  <2>1. /\ UNCHANGED <<pc, waitsOn, seen, overlapped, latest, succeeded>>
        /\ at[r] = "Processing" /\ at' = [at EXCEPT ![r] = to]
        /\ l = (IF found THEN mem ELSE LoadError(mem, c)) /\ mem' = EndLoad(l, c)
        /\ emptied' = IF found THEN emptied ELSE emptied \cup {c}
    OBVIOUS
  <2>2. at' \in [Requests -> Stages] /\ \A q \in Requests : q[2] # c => at'[q] = at[q]
    BY <1>2, <1>3, <2>1
  <2>3. CASE found
    <3>1. /\ mem' \in Shape /\ KeepsLoads(mem, mem', c) /\ KeepsGame(mem, mem') /\ mem'.load = mem.load
          /\ mem'.crash = "No" => mem.crash = "No" /\ EndsLoad(mem, mem', c)
      BY <1>1, <2>1, <2>3, EndLoadIs
    <3>2. mem'.crash = "No" => Quiet(mem, mem') \/ Reports(mem, mem', c, FALSE)
      BY <3>1 DEF EndsLoad
    <3>3. QED
      BY <1>1, <2>1, <2>2, <2>3, <3>1, <3>2 DEF Answering, KeepsLoads
  <2>4. CASE ~found
    <3>1. /\ l \in Shape /\ KeepsLoads(mem, l, c) /\ KeepsGame(mem, l) /\ l.load \in {mem.load, Nil}
          /\ l.crash = "No" => mem.crash = "No" /\ Errs(mem, l, c)
      BY <1>1, <2>1, <2>4, LoadErrorIs
    <3>2. /\ mem' \in Shape /\ KeepsLoads(l, mem', c) /\ KeepsGame(l, mem') /\ mem'.load = l.load
          /\ mem'.crash = "No" => l.crash = "No" /\ EndsLoad(l, mem', c)
      BY <2>1, <3>1, EndLoadIs
    <3>3. KeepsLoads(mem, mem', c) /\ KeepsGame(mem, mem') /\ mem'.load \in {mem.load, Nil}
      BY <3>1, <3>2 DEF KeepsLoads, KeepsCalls, KeepsGame
    <3>4. ASSUME mem'.crash = "No"
          PROVE  (mem'.load # mem.load => mem.load = c) /\ Reports(mem, mem', c, FALSE)
      <4>1. Errs(mem, l, c) /\ EndsLoad(l, mem', c)
        BY <3>1, <3>2, <3>4
      <4>2. Quiet(l, mem')
        BY <4>1 DEF Errs, EndsLoad, EndsUntold
      <4>3. Reports(mem, l, c, FALSE) => Reports(mem, mem', c, FALSE)
        BY <4>2 DEF Reports, Tells, Quiet
      <4>4. QED
        BY <3>2, <4>1, <4>3 DEF Errs
    <3>5. QED
      BY <1>1, <2>1, <2>2, <2>4, <3>2, <3>3, <3>4 DEF Answering, KeepsLoads
  <2>5. QED
    BY <2>3, <2>4
<1>6. CASE r = <<"session", c>> /\ StoreSession(c)
  <2>1. /\ UNCHANGED <<pc, waitsOn, seen, overlapped, latest, succeeded, emptied>>
        /\ at[r] = "Store" /\ at' = [at EXCEPT ![r] = "Done"]
        /\ \/ mem' = [mem EXCEPT !.states[c].response = TRUE] \/ mem' = Crash(mem, "Freed")
    BY <1>6 DEF StoreSession, Goes, history
  <2>2. CASE mem' = Crash(mem, "Freed")
    BY <1>1, <1>2, <1>3, <2>1, <2>2, CrashIs DEF Answering, OnlyTold, KeepsCalls, KeepsGame
  <2>3. CASE mem' = [mem EXCEPT !.states[c].response = TRUE]
    <3> DEFINE st == [mem.states[c] EXCEPT !.response = TRUE]
    <3>1. st \in AnyLoadState
      <4>1. mem.states[c] \in AnyLoadState
        BY <1>1 DEF Shape
      <4>2. QED
        BY <4>1, Zenon DEF AnyLoadState
    <3>2. mem' = [mem EXCEPT !.states = [mem.states EXCEPT ![c] = st]]
      BY <2>3
    <3> HIDE DEF st
    <3>3. /\ mem' \in Shape
          /\ KeepsCalls(mem, mem') /\ KeepsGame(mem, mem') /\ Quiet(mem, mem')
          /\ mem'.user = mem.user /\ mem'.load = mem.load
          /\ \A d \in Loads \ {c} : mem'.states[d] = mem.states[d]
      BY <1>1, <3>1, <3>2 DEF Shape, KeepsCalls, KeepsGame, Quiet
    <3>4. QED
      BY <1>2, <1>3, <2>1, <3>3 DEF Answering
  <2>4. QED
    BY <2>1, <2>2, <2>3
<1>7. CASE Activate(r)
  <2>1. PICK to \in {"Done", "Enable"} :
        /\ UNCHANGED <<pc, waitsOn, seen, overlapped, latest, succeeded, emptied>>
        /\ at[r] = "Activate" /\ at' = [at EXCEPT ![r] = to]
        /\ \/ mem' = NotActive(mem, c)
           \/ mem' = Dropped(mem, c, FALSE)
           \/ mem.load = c /\ mem' = [mem EXCEPT !.states[c].progress = "Done", !.game = c]
    BY <1>1, <1>7 DEF Activate, Goes, history, Stale, Dropped
  <2>2. at' \in [Requests -> Stages] /\ \A q \in Requests : q[2] # c => at'[q] = at[q]
    BY <1>2, <1>3, <2>1
  <2>3. CASE mem' = NotActive(mem, c) \/ mem' = Dropped(mem, c, FALSE)
    <3>1. /\ mem' \in Shape /\ KeepsLoads(mem, mem', c) /\ KeepsGame(mem, mem') /\ mem'.load = mem.load
          /\ mem'.crash = "No" => Drops(mem, mem', c, FALSE)
      <4>1. CASE mem' = NotActive(mem, c)
        BY <1>1, <4>1, NotActiveIs
      <4>2. CASE mem' = Dropped(mem, c, FALSE)
        <5>1. FALSE \in BOOLEAN
          OBVIOUS
        <5>2. QED
          BY <1>1, <4>2, <5>1, DropIs
      <4>3. QED
        BY <2>3, <4>1, <4>2
    <3>2. QED
      BY <2>1, <2>2, <3>1 DEF Answering, KeepsLoads, Drops
  <2>4. CASE mem.load = c /\ mem' = [mem EXCEPT !.states[c].progress = "Done", !.game = c]
    <3> DEFINE st == [mem.states[c] EXCEPT !.progress = "Done"]
    <3>1. st \in AnyLoadState
      BY <1>1 DEF Shape, AnyLoadState
    <3>2. mem' = [mem EXCEPT !.states = [mem.states EXCEPT ![c] = st], !.game = c]
      BY <2>4
    <3> HIDE DEF st
    <3>3. /\ mem' \in Shape
          /\ KeepsCalls(mem, mem') /\ Quiet(mem, mem')
          /\ mem'.game = c /\ mem'.unknown = mem.unknown
          /\ mem'.user = mem.user /\ mem'.load = mem.load
          /\ \A d \in Loads \ {c} : mem'.states[d] = mem.states[d]
      BY <1>1, <3>1, <3>2 DEF Shape, KeepsCalls, Quiet
    <3>4. QED
      BY <2>1, <2>2, <2>4, <3>3 DEF Answering
  <2>5. QED
    BY <2>1, <2>3, <2>4
<1>8. CASE Enable(r)
  <2>1. PICK to \in {"Done", "Finish"} :
        /\ UNCHANGED <<pc, waitsOn, seen, overlapped, latest, succeeded, emptied>>
        /\ at[r] = "Enable" /\ at' = [at EXCEPT ![r] = to]
        /\ \/ mem' = Crash(mem, "Freed")
           \/ mem' = NotActive(mem, c)
           \/ mem.load = c /\ mem' = [mem EXCEPT !.load = Nil]
    BY <1>1, <1>8 DEF Enable, Goes, history, Stale
  <2>2. at' \in [Requests -> Stages] /\ \A q \in Requests : q[2] # c => at'[q] = at[q]
    BY <1>2, <1>3, <2>1
  <2>3. CASE mem' = Crash(mem, "Freed")
    BY <1>1, <2>1, <2>2, <2>3, CrashIs DEF Answering, OnlyTold, KeepsCalls, KeepsGame
  <2>4. CASE mem' = NotActive(mem, c)
    <3>1. /\ mem' \in Shape /\ KeepsLoads(mem, mem', c) /\ KeepsGame(mem, mem') /\ mem'.load = mem.load
          /\ mem'.crash = "No" => Drops(mem, mem', c, FALSE)
      BY <1>1, <2>4, NotActiveIs
    <3>2. QED
      BY <2>1, <2>2, <3>1 DEF Answering, KeepsLoads, Drops
  <2>5. CASE mem.load = c /\ mem' = [mem EXCEPT !.load = Nil]
    <3>1. /\ mem' \in Shape /\ KeepsCalls(mem, mem') /\ Quiet(mem, mem') /\ KeepsGame(mem, mem')
          /\ mem'.user = mem.user /\ mem'.load = Nil /\ mem'.states = mem.states
      BY <1>1, <2>5 DEF Shape, KeepsCalls, Quiet, KeepsGame
    <3>2. QED
      BY <2>1, <2>2, <2>5, <3>1 DEF Answering
  <2>6. QED
    BY <2>1, <2>3, <2>4, <2>5
<1>9. CASE Finish(r)
  <2>1. /\ UNCHANGED <<pc, waitsOn, seen, overlapped, latest, emptied>>
        /\ at[r] = "Finish" /\ at' = [at EXCEPT ![r] = "Done"]
        /\ succeeded' = succeeded \cup {c}
        /\ \/ mem' = Crash(mem, "Freed")
           \/ mem' = Finished(mem, c)
    BY <1>1, <1>9 DEF Finish, Goes, history, Finished
  <2>2. at' \in [Requests -> Stages] /\ \A q \in Requests : q[2] # c => at'[q] = at[q]
    BY <1>2, <1>3, <2>1
  <2>3. CASE mem' = Crash(mem, "Freed")
    BY <1>1, <2>1, <2>2, <2>3, CrashIs DEF Answering, OnlyTold, KeepsCalls, KeepsGame
  <2>4. CASE mem' = Finished(mem, c)
    <3>1. /\ mem' \in Shape /\ KeepsLoads(mem, mem', c) /\ KeepsGame(mem, mem') /\ mem'.load = mem.load
          /\ mem'.crash = "No" => Drops(mem, mem', c, TRUE)
      BY <1>1, <2>4, FinishIs
    <3>2. QED
      BY <2>1, <2>2, <3>1 DEF Answering, KeepsLoads, Drops
  <2>5. QED
    BY <2>1, <2>3, <2>4
<1>10. QED
  BY <1>4, <1>5, <1>6, <1>7, <1>8, <1>9

LEMMA AnswerSteps ==
    ASSUME Types, NEW r \in Requests, AnswerStep(r)
    PROVE  \/ \E c \in Logins : r = <<"login", c>> /\ LoginStep(c)
           \/ \E c \in Loads : r \in {<<"fetch", c>>, <<"session", c>>} /\ Answering(c) /\ AnswerOf(c)
<1>1. CASE \E c \in Logins : r = <<"login", c>>
  <2>1. PICK c \in Logins : r = <<"login", c>>
    BY <1>1
  <2>2. Login(c) \in LoginStages /\ at[r] = Login(c)
    BY <2>1 DEF Types, Login
  <2>3. r[1] = "login" /\ r[2] = c
    BY <2>1
  <2>4. ~EndAsync(r) /\ ~AnswerFails(r)
    BY <2>3 DEF EndAsync, AnswerFails
  <2>5. ~Activate(r) /\ ~Enable(r) /\ ~Finish(r)
    BY <2>2 DEF Activate, Enable, Finish, Goes, LoginStages
  <2>6. QED
    BY <2>1, <2>3, <2>4, <2>5 DEF AnswerStep, ActivateStep
<1>2. ASSUME NEW c \in Loads, r = <<"fetch", c>>
      PROVE  Answering(c) /\ AnswerOf(c)
  <2>1. r[1] = "fetch" /\ r[2] = c /\ r \in {<<"fetch", c>>, <<"session", c>>}
    BY <1>2
  <2>2. FetchStep(c) \/ EndAsync(r) \/ AnswerFails(r) \/ Activate(r) \/ Enable(r) \/ Finish(r)
    BY <2>1 DEF AnswerStep, ActivateStep
  <2>3. QED
    BY <1>2, <2>1, <2>2, EndingAnswers, WorkingAnswers DEF FetchStep, AnswerOf
<1>3. ASSUME NEW c \in Loads, r = <<"session", c>>
      PROVE  Answering(c) /\ AnswerOf(c)
  <2>1. r[1] = "session" /\ r[2] = c /\ r \in {<<"fetch", c>>, <<"session", c>>}
    BY <1>3
  <2>2. SessionStep(c) \/ EndAsync(r) \/ AnswerFails(r) \/ Activate(r) \/ Enable(r) \/ Finish(r)
    BY <2>1 DEF AnswerStep, ActivateStep
  <2>3. QED
    BY <1>3, <2>1, <2>2, EndingAnswers, WorkingAnswers DEF SessionStep, AnswerOf
<1>4. QED
  BY <1>1, <1>2, <1>3, RequestIs

(* The steps of a login's answer: what the login does is done to the shared user,
   and the load that waited for it goes on. *)
LEMMA LoginAnsweredIs ==
    ASSUME Types, NEW c \in Logins, NEW ok \in BOOLEAN, LoginAnswered(c, ok)
    PROVE  /\ mem' \in Shape /\ KeepsCalls(mem, mem') /\ KeepsGame(mem, mem')
           /\ mem'.states = mem.states /\ mem'.load = mem.load
           /\ mem'.user = IF ok THEN "LoggedIn" ELSE "None"
           /\ UNCHANGED <<pc, waitsOn, overlapped, latest, emptied>>
           /\ Login(c) = "Sent"
           /\ at' = [at EXCEPT ![<<"login", c>>] = IF ok THEN "Answered" ELSE "Resolved"]
           /\ seen' = [seen EXCEPT ![c] = mem.load]
           /\ succeeded' = IF ok THEN succeeded \cup {c} ELSE succeeded
           /\ mem'.crash = "No" =>
                mem.crash = "No" /\ IF ok THEN Quiet(mem, mem')
                                    ELSE Tells(mem, mem', "login", mem.userdata[c], FALSE)
           /\ mem'.crash = "Panic" =>
                mem.crash = "Panic" \/ (~ok /\ Late(mem, "login", mem.userdata[c]))
<1>1. /\ UNCHANGED <<pc, waitsOn, overlapped, latest, emptied>>
      /\ Login(c) = "Sent"
      /\ at' = [at EXCEPT ![<<"login", c>>] = IF ok THEN "Answered" ELSE "Resolved"]
      /\ seen' = [seen EXCEPT ![c] = mem.load]
      /\ succeeded' = IF ok THEN succeeded \cup {c} ELSE succeeded
  BY DEF LoginAnswered, Goes, Login
<1>2. mem \in Shape /\ c \in Calls
  BY CallIs DEF Types
<1>3. CASE ok
  <2>1. mem' = [mem EXCEPT !.user = "LoggedIn"]
    BY <1>3 DEF LoginAnswered
  <2>2. QED
    BY <1>1, <1>2, <1>3, <2>1 DEF Shape, KeepsCalls, KeepsGame, Quiet
<1>4. CASE ~ok
  <2> DEFINE d == [mem EXCEPT !.user = "None"]
             h == mem.userdata[c]
  <2>1. mem' = Complete(d, "login", h, FALSE)
    BY <1>4 DEF LoginAnswered
  <2>2. /\ d \in Shape /\ KeepsCalls(mem, d) /\ KeepsGame(mem, d) /\ Quiet(mem, d)
        /\ d.user = "None" /\ d.states = mem.states /\ d.load = mem.load /\ d.crash = mem.crash
    BY <1>2 DEF Shape, KeepsCalls, KeepsGame, Quiet
  <2>3. h \in Calls \cup {Nil} /\ "login" \in Kinds /\ FALSE \in BOOLEAN
    BY <1>2 DEF Shape, Kinds
  <2> HIDE DEF d, h
  <2>4. /\ mem' \in Shape /\ OnlyTold(d, mem')
        /\ mem'.crash = "No" => d.crash = "No" /\ Tells(d, mem', "login", h, FALSE)
        /\ mem'.crash = "Panic" => d.crash = "Panic" \/ Late(d, "login", h)
    BY <2>1, <2>2, <2>3, CompleteIs
  <2>5. Tells(d, mem', "login", h, FALSE) => Tells(mem, mem', "login", h, FALSE)
    BY <2>2 DEF Tells, Quiet, KeepsCalls
  <2>6. Late(d, "login", h) => Late(mem, "login", h)
    BY <2>2 DEF Late, Quiet, KeepsCalls
  <2>7. KeepsCalls(mem, mem') /\ KeepsGame(mem, mem')
    BY <2>2, <2>4 DEF OnlyTold, KeepsCalls, KeepsGame
  <2>8. QED
    BY <1>1, <1>4, <2>2, <2>4, <2>5, <2>6, <2>7 DEF OnlyTold, h
<1>5. QED
  BY <1>3, <1>4

(* What LoginDone does about the load that the answer saw. *)
Fetched(m, c) ==
    IF seen[c] # Nil /\ ~m.states[seen[c]].live THEN Crash(m, "Freed")
    ELSE IF seen[c] # Nil /\ m.states[seen[c]].progress = "AwaitLogin" THEN BeginFetch(m, seen[c])
    ELSE m

Waits(c) == seen[c] # Nil /\ mem.states[seen[c]].progress = "AwaitLogin"

LEMMA FetchedIs ==
    ASSUME Types, NEW c \in Logins, NEW n, n = Fetched(mem, c)
    PROVE  /\ n \in Shape /\ KeepsCalls(mem, n) /\ n.user = mem.user /\ KeepsGame(mem, n)
           /\ n.load \in {mem.load, Nil}
           /\ \A d \in Loads : d # seen[c] =>  n.states[d] = mem.states[d]
           /\ \A d \in Loads : n.states[d].callback = mem.states[d].callback
           /\ n.crash = "No" =>
                 /\ mem.crash = "No"
                 /\ seen[c] # Nil => mem.states[seen[c]].live
                 /\ IF Waits(c) THEN Fetches(mem, n, seen[c]) ELSE n = mem
           /\ n.crash = "Panic" =>
                 \/ mem.crash = "Panic"
                 \/ /\ Waits(c) /\ mem.user = "None" /\ mem.states[seen[c]].live
                    /\ LateLoad(mem, seen[c])
<1>1. mem \in Shape /\ seen[c] \in Loads \cup {Nil} /\ Nil \notin Loads
  BY CallIs DEF Types, Calls
<1>2. CASE seen[c] = Nil \/ (mem.states[seen[c]].live /\ mem.states[seen[c]].progress # "AwaitLogin")
  BY <1>1, <1>2 DEF Fetched, Waits, KeepsCalls, KeepsGame
<1>3. CASE seen[c] # Nil /\ ~mem.states[seen[c]].live
  <2>1. n = Crash(mem, "Freed")
    BY <1>3 DEF Fetched
  <2>2. QED
    BY <1>1, <1>3, <2>1, CrashIs DEF OnlyTold, KeepsCalls, KeepsGame
<1>4. CASE /\ seen[c] # Nil /\ mem.states[seen[c]].live
           /\ mem.states[seen[c]].progress = "AwaitLogin"
  <2>1. PICK l \in Loads : l = seen[c]
    BY <1>1, <1>4
  <2>2. n = BeginFetch(mem, l) /\ Waits(c)
    BY <1>4, <2>1 DEF Fetched, Waits
  <2>3. /\ n \in Shape /\ KeepsLoads(mem, n, l) /\ KeepsGame(mem, n)
        /\ n.load \in {mem.load, Nil}
        /\ n.crash = "No" => mem.crash = "No" /\ Fetches(mem, n, l)
        /\ n.crash = "Panic" =>
             mem.crash = "Panic" \/ (mem.user = "None" /\ mem.states[l].live /\ LateLoad(mem, l))
    BY <1>1, <2>2, BeginFetchIs
  <2>4. QED
    BY <1>4, <2>1, <2>2, <2>3 DEF KeepsLoads
<1>5. QED
  BY <1>2, <1>3, <1>4

LEMMA LoginDoneIs ==
    ASSUME Types, NEW c \in Logins, LoginDone(c)
    PROVE  \E f \in Shape :
             /\ f = Fetched(mem, c)
             /\ UNCHANGED <<pc, waitsOn, seen, overlapped, latest, succeeded, emptied>>
             /\ Login(c) \in {"Answered", "Resolved"}
             /\ at' = [r \in Requests |->
                         IF r = <<"login", c>> THEN "Done"
                         ELSE IF Waits(c) /\ Asks(mem) /\ r = <<"fetch", seen[c]>> THEN "Sent"
                         ELSE at[r]]
             /\ mem' \in Shape /\ OnlyTold(f, mem')
             /\ mem'.crash = "No" =>
                  f.crash = "No" /\ IF Login(c) = "Answered"
                                    THEN Tells(f, mem', "login", mem.userdata[c], TRUE)
                                    ELSE Quiet(f, mem')
             /\ mem'.crash = "Panic" =>
                  \/ f.crash = "Panic"
                  \/ /\ f.crash = "No" /\ Login(c) = "Answered"
                     /\ Late(f, "login", mem.userdata[c])
<1>1. PICK f : f = Fetched(mem, c)
  OBVIOUS
<1>2. f \in Shape /\ mem \in Shape /\ c \in Calls
  BY <1>1, FetchedIs, CallIs DEF Types
<1>3. /\ UNCHANGED <<pc, waitsOn, seen, overlapped, latest, succeeded, emptied>>
      /\ Login(c) \in {"Answered", "Resolved"}
      /\ at' = [r \in Requests |->
                  IF r = <<"login", c>> THEN "Done"
                  ELSE IF Waits(c) /\ Asks(mem) /\ r = <<"fetch", seen[c]>> THEN "Sent"
                  ELSE at[r]]
  BY DEF LoginDone, history, Login, Waits
<1>4. mem' = IF Login(c) = "Answered" THEN Complete(f, "login", mem.userdata[c], TRUE) ELSE f
  BY <1>1 DEF LoginDone, Login, Fetched, Waits
<1>5. CASE Login(c) = "Answered"
  <2>1. mem' = Complete(f, "login", mem.userdata[c], TRUE)
    BY <1>4, <1>5
  <2>2. PICK h \in Calls \cup {Nil} : h = mem.userdata[c]
    BY <1>2 DEF Shape
  <2>3. PICK k \in Kinds, ok \in BOOLEAN : k = "login" /\ ok
    BY DEF Kinds
  <2>4. /\ mem' \in Shape /\ OnlyTold(f, mem')
        /\ mem'.crash = "No" => f.crash = "No" /\ Tells(f, mem', "login", h, TRUE)
        /\ mem'.crash = "Panic" => f.crash = "Panic" \/ (f.crash = "No" /\ Late(f, "login", h))
    <3>1. mem' = Complete(f, k, h, ok)
      BY <2>1, <2>2, <2>3
    <3>2. /\ mem' \in Shape /\ OnlyTold(f, mem')
          /\ mem'.crash = "No" => f.crash = "No" /\ Tells(f, mem', k, h, ok)
          /\ mem'.crash = "Panic" => f.crash = "Panic" \/ Late(f, k, h)
          /\ f.crash # "No" => mem'.crash = f.crash
      BY <1>2, <3>1, CompleteIs
    <3>3. QED
      BY <2>3, <3>2
  <2>5. QED
    BY <1>1, <1>2, <1>3, <1>5, <2>2, <2>4
<1>6. CASE Login(c) # "Answered"
  <2>1. mem' = f
    BY <1>4, <1>6
  <2>2. OnlyTold(f, mem') /\ Quiet(f, mem')
    BY <2>1 DEF OnlyTold, Quiet
  <2>3. QED
    BY <1>1, <1>2, <1>3, <1>6, <2>1, <2>2
<1>7. QED
  BY <1>5, <1>6

(* The steps of a call.  The first changes the fields that its kind of call shares. *)
LEMMA RegisterIs ==
    ASSUME Types, NEW c \in Calls, Register(c), NEW k, k = KindOf(c)
    PROVE  /\ mem' \in Shape /\ k \in Kinds
           /\ mem'.channel = [mem.channel EXCEPT ![k] = c]
           /\ mem'.handle = [mem.handle EXCEPT ![k] = c]
           /\ mem'.failed = [mem.failed EXCEPT ![k] = FALSE]
           /\ mem'.live = mem.live \cup {c}
           /\ mem'.closed = mem.closed /\ mem'.userdata = mem.userdata /\ mem'.user = mem.user
           /\ mem'.load = mem.load /\ mem'.states = mem.states /\ mem'.crash = mem.crash
           /\ KeepsGame(mem, mem')
           /\ pc[c] = "Idle" /\ pc' = [pc EXCEPT ![c] = "Begin"]
           /\ overlapped' = IF \E d \in Calls \ {c} : KindOf(d) = k /\ pc[d] \notin {"Idle", "OK", "Failed"}
                            THEN overlapped \cup {k} ELSE overlapped
           /\ UNCHANGED <<waitsOn, at, seen, latest, succeeded, emptied>>
<1>1. k \in Kinds /\ mem \in Shape
  BY CallIs DEF Types
<1> DEFINE channel == [mem.channel EXCEPT ![k] = c]
           handle == [mem.handle EXCEPT ![k] = c]
           failed == [mem.failed EXCEPT ![k] = FALSE]
           live == mem.live \cup {c}
<1>2. /\ channel \in [Kinds -> Calls \cup {Nil}] /\ handle \in [Kinds -> Calls \cup {Nil}]
      /\ live \in SUBSET Calls
  BY <1>1 DEF Shape
<1>3. failed \in [Kinds -> BOOLEAN]
  <2>1. mem.failed \in [Kinds -> BOOLEAN]
    BY <1>1 DEF Shape
  <2>2. QED
    BY <2>1, Zenon
<1>4. mem' = [mem EXCEPT !.failed = failed, !.channel = channel, !.handle = handle, !.live = live]
  BY DEF Register
<1>5. /\ pc[c] = "Idle" /\ pc' = [pc EXCEPT ![c] = "Begin"]
      /\ overlapped' = IF \E d \in Calls \ {c} : KindOf(d) = k /\ pc[d] \notin {"Idle", "OK", "Failed"}
                       THEN overlapped \cup {k} ELSE overlapped
      /\ UNCHANGED <<waitsOn, at, seen, latest, succeeded, emptied>>
  BY DEF Register
<1> HIDE DEF channel, handle, failed, live
<1>6. /\ mem' \in Shape /\ mem'.channel = channel /\ mem'.handle = handle
      /\ mem'.failed = failed /\ mem'.live = live
      /\ mem'.closed = mem.closed /\ mem'.userdata = mem.userdata /\ mem'.user = mem.user
      /\ mem'.load = mem.load /\ mem'.states = mem.states /\ mem'.crash = mem.crash
      /\ KeepsGame(mem, mem')
  BY <1>1, <1>2, <1>3, <1>4 DEF Shape, KeepsGame
<1>7. QED
  BY <1>1, <1>5, <1>6 DEF channel, handle, failed, live

LEMMA BeginLoginIs ==
    ASSUME Types, NEW c \in Logins, BeginLogin(c)
    PROVE  /\ mem' \in Shape /\ KeepsGame(mem, mem') /\ mem'.load = mem.load
           /\ mem'.states = mem.states
           /\ mem'.channel = mem.channel /\ mem'.handle = mem.handle /\ mem'.live = mem.live
           /\ pc[c] = "Begin" /\ pc' = [pc EXCEPT ![c] = "Wait"]
           /\ UNCHANGED <<waitsOn, seen, overlapped, latest, succeeded, emptied>>
           /\ mem.user = "Requested" =>
                /\ OnlyTold(mem, mem') /\ at' = at
                /\ mem'.crash = "No" => Tells(mem, mem', "login", mem.handle["login"], FALSE)
                /\ mem'.crash = "Panic" => mem.crash = "Panic" \/ Late(mem, "login", mem.handle["login"])
           /\ mem.user # "Requested" =>
                /\ Quiet(mem, mem') /\ mem'.user = "Requested" /\ mem'.crash = mem.crash
                /\ mem'.userdata = [mem.userdata EXCEPT ![c] = mem.handle["login"]]
                /\ at' = [at EXCEPT ![<<"login", c>>] = "Sent"]
<1>1. /\ mem \in Shape /\ c \in Calls /\ "login" \in Kinds /\ FALSE \in BOOLEAN
      /\ mem.handle["login"] \in Calls \cup {Nil}
  BY CallIs DEF Types, Kinds, Shape
<1>2. /\ pc[c] = "Begin" /\ pc' = [pc EXCEPT ![c] = "Wait"]
      /\ UNCHANGED <<waitsOn, seen, overlapped, latest, succeeded, emptied>>
  BY DEF BeginLogin, history
<1>3. CASE mem.user = "Requested"
  <2>1. mem' = Complete(mem, "login", mem.handle["login"], FALSE) /\ at' = at
    BY <1>3 DEF BeginLogin
  <2>2. /\ mem' \in Shape /\ OnlyTold(mem, mem')
        /\ mem'.crash = "No" => mem.crash = "No" /\ Tells(mem, mem', "login", mem.handle["login"], FALSE)
        /\ mem'.crash = "Panic" => mem.crash = "Panic" \/ Late(mem, "login", mem.handle["login"])
    <3>1. PICK k \in Kinds, h \in Calls \cup {Nil}, ok \in BOOLEAN :
            k = "login" /\ h = mem.handle["login"] /\ ~ok
      BY <1>1
    <3>2. mem' = Complete(mem, k, h, ok)
      BY <2>1, <3>1
    <3>3. /\ mem' \in Shape /\ OnlyTold(mem, mem')
          /\ mem'.crash = "No" => mem.crash = "No" /\ Tells(mem, mem', k, h, ok)
          /\ mem'.crash = "Panic" => mem.crash = "Panic" \/ Late(mem, k, h)
      BY <1>1, <3>2, CompleteIs
    <3>4. QED
      BY <3>1, <3>3
  <2>3. QED
    BY <1>2, <1>3, <2>1, <2>2 DEF OnlyTold, KeepsGame
<1>4. CASE mem.user # "Requested"
  <2> DEFINE ud == [mem.userdata EXCEPT ![c] = mem.handle["login"]]
  <2>1. /\ mem' = [mem EXCEPT !.user = "Requested", !.userdata = ud]
        /\ at' = [at EXCEPT ![<<"login", c>>] = "Sent"]
    BY <1>4 DEF BeginLogin
  <2>2. ud \in [Calls -> Calls \cup {Nil}]
    BY <1>1 DEF Shape
  <2> HIDE DEF ud
  <2>3. /\ mem' \in Shape /\ KeepsGame(mem, mem') /\ mem'.load = mem.load
        /\ mem'.states = mem.states /\ mem'.user = "Requested" /\ mem'.userdata = ud
        /\ mem'.channel = mem.channel /\ mem'.handle = mem.handle /\ mem'.live = mem.live
        /\ Quiet(mem, mem') /\ mem'.crash = mem.crash
    BY <1>1, <2>1, <2>2 DEF Shape, KeepsGame, Quiet
  <2>4. QED
    BY <1>2, <1>4, <2>1, <2>3 DEF ud
<1>5. QED
  BY <1>3, <1>4

(* A load begins: its state is made, and the load that is current, which is aborted,
   is told so. *)
Begun(c, b) ==
    /\ b \in Shape /\ KeepsGame(mem, b) /\ Quiet(mem, b)
    /\ b.channel = mem.channel /\ b.handle = mem.handle /\ b.live = mem.live
    /\ b.user = mem.user /\ b.crash = mem.crash /\ b.load = Nil
    /\ b.userdata = [mem.userdata EXCEPT ![c] = mem.handle["load"]]
    /\ \A d \in Loads \ {c} :
         /\ d # mem.load => b.states[d] = mem.states[d]
         /\ b.states[d].callback = mem.states[d].callback
         /\ b.states[d].live = mem.states[d].live
         /\ b.states[d].progress = mem.states[d].progress
         /\ b.states[d].outstanding = mem.states[d].outstanding
    /\ c # mem.load => b.states[c] = NewLoad

LEMMA BeginLoadIs ==
    ASSUME Types, NEW c \in Loads, BeginLoad(c)
    PROVE  /\ mem' \in Shape /\ KeepsGame(mem, mem') /\ mem'.load \in {mem.load, Nil}
           /\ mem'.channel = mem.channel /\ mem'.handle = mem.handle /\ mem'.live = mem.live
           /\ mem'.user = mem.user
           /\ pc[c] = "Begin" /\ pc' = [pc EXCEPT ![c] = "Attach"]
           /\ UNCHANGED <<waitsOn, at, seen, overlapped, latest, succeeded, emptied>>
           /\ mem.load = Nil => Begun(c, mem') /\ mem'.crash = mem.crash
           /\ mem.load # Nil =>
                \/ mem'.crash = "Freed" /\ OnlyTold(mem, mem')
                \/ mem'.crash = mem.crash /\ mem'.crash # "No" /\ OnlyTold(mem, mem')
                \/ /\ mem.states[mem.load].live
                   /\ \E b \in Shape : /\ Begun(c, b) /\ OnlyTold(b, mem')
                                       /\ mem'.crash = "No" => Reports(b, mem', mem.load, FALSE)
                                       /\ mem'.crash = "Panic" => mem.crash = "Panic" \/ LateLoad(b, mem.load)
<1>1. /\ mem \in Shape /\ c \in Calls /\ "load" \in Kinds /\ FALSE \in BOOLEAN
      /\ mem.handle["load"] \in Calls \cup {Nil} /\ mem.load \in Loads \cup {Nil}
      /\ c # Nil
  BY CallIs DEF Types, Kinds, Shape
<1>2. /\ pc[c] = "Begin" /\ pc' = [pc EXCEPT ![c] = "Attach"]
      /\ UNCHANGED <<waitsOn, at, seen, overlapped, latest, succeeded, emptied>>
  BY DEF BeginLoad, history
<1> DEFINE ud == [mem.userdata EXCEPT ![c] = mem.handle["load"]]
           ss == [mem.states EXCEPT ![c] = NewLoad]
           begun == [mem EXCEPT !.userdata = ud, !.states = ss]
<1>3. ud \in [Calls -> Calls \cup {Nil}] /\ ss \in [Loads -> AnyLoadState]
  BY <1>1 DEF Shape, NewLoad, AnyLoadState
<1>4. ss[c] = NewLoad /\ \A d \in Loads \ {c} : ss[d] = mem.states[d]
  BY <1>1 DEF Shape
<1>5. mem' = IF mem.load = Nil THEN begun
             ELSE IF ~mem.states[mem.load].live THEN Crash(mem, "Freed")
             ELSE Callback([begun EXCEPT !.states[mem.load].aborted = TRUE, !.load = Nil], mem.load, FALSE)
  BY DEF BeginLoad
<1>6. ud = [mem.userdata EXCEPT ![c] = mem.handle["load"]]
  OBVIOUS
<1> HIDE DEF ud, ss
<1>7. CASE mem.load = Nil
  <2>1. mem' = begun
    BY <1>5, <1>7
  <2>2. /\ mem' \in Shape /\ KeepsGame(mem, mem') /\ Quiet(mem, mem')
        /\ mem'.load = mem.load /\ mem'.userdata = ud /\ mem'.states = ss
        /\ mem'.channel = mem.channel /\ mem'.handle = mem.handle /\ mem'.live = mem.live
        /\ mem'.user = mem.user /\ mem'.crash = mem.crash
    BY <1>1, <1>3, <2>1 DEF Shape, KeepsGame, Quiet
  <2>3. Begun(c, mem')
    BY <1>4, <1>6, <1>7, <2>2 DEF Begun
  <2>4. QED
    BY <1>2, <1>7, <2>2, <2>3
<1>8. CASE mem.load # Nil /\ ~mem.states[mem.load].live
  <2>1. mem' = Crash(mem, "Freed")
    BY <1>5, <1>8
  <2>2. /\ mem' \in Shape /\ OnlyTold(mem, mem')
        /\ mem'.crash # "No"
        /\ mem'.crash = IF mem.crash = "No" THEN "Freed" ELSE mem.crash
    BY <1>1, <2>1, CrashIs
  <2>3. QED
    BY <1>2, <1>8, <2>2 DEF OnlyTold, KeepsGame
<1>9. CASE mem.load # Nil /\ mem.states[mem.load].live
  <2>1. PICK o \in Loads : o = mem.load
    BY <1>1, <1>9
  <2> DEFINE st == [ss[o] EXCEPT !.aborted = TRUE]
             ss2 == [ss EXCEPT ![o] = st]
             b == [begun EXCEPT !.states = ss2, !.load = Nil]
  <2>2. /\ st \in AnyLoadState /\ st.callback = ss[o].callback /\ st.live = ss[o].live
        /\ st.progress = ss[o].progress /\ st.outstanding = ss[o].outstanding
    <3>1. ss[o] \in AnyLoadState
      BY <1>3
    <3>2. QED
      BY <3>1 DEF AnyLoadState
  <2>3. mem' = Callback(b, o, FALSE)
    <3>1. begun.states = ss
      BY <1>1 DEF Shape
    <3>2. b = [begun EXCEPT !.states[o].aborted = TRUE, !.load = Nil]
      BY <3>1, <1>1, <1>3 DEF Shape
    <3>3. QED
      BY <1>5, <1>9, <2>1, <3>2
  <2> HIDE DEF st
  <2>4. ss2 \in [Loads -> AnyLoadState] /\ ss2[o] = st /\ \A d \in Loads \ {o} : ss2[d] = ss[d]
    BY <1>3, <2>2
  <2> HIDE DEF ss2
  <2>5. b = [mem EXCEPT !.userdata = ud, !.states = ss2, !.load = Nil]
    BY <1>1 DEF Shape
  <2> HIDE DEF b
  <2>6. /\ b \in Shape /\ KeepsGame(mem, b) /\ Quiet(mem, b)
        /\ b.load = Nil /\ b.userdata = ud /\ b.states = ss2
        /\ b.channel = mem.channel /\ b.handle = mem.handle /\ b.live = mem.live
        /\ b.user = mem.user /\ b.crash = mem.crash
    BY <1>1, <1>3, <2>4, <2>5 DEF Shape, KeepsGame, Quiet
  <2>7. Begun(c, b)
    <3>1. /\ \A d \in Loads \ {c} :
               /\ d # mem.load => b.states[d] = mem.states[d]
               /\ b.states[d].callback = mem.states[d].callback
               /\ b.states[d].live = mem.states[d].live
               /\ b.states[d].progress = mem.states[d].progress
               /\ b.states[d].outstanding = mem.states[d].outstanding
      BY <1>4, <2>1, <2>2, <2>4, <2>6
    <3>2. c # mem.load => b.states[c] = NewLoad
      BY <1>4, <2>1, <2>4, <2>6
    <3>3. QED
      BY <1>6, <2>6, <3>1, <3>2 DEF Begun
  <2>8. /\ mem' \in Shape /\ OnlyTold(b, mem')
        /\ mem'.crash = "No" => b.crash = "No" /\ Reports(b, mem', o, FALSE)
        /\ mem'.crash = "Panic" => b.crash = "Panic" \/ LateLoad(b, o)
    BY <1>1, <2>3, <2>6, CallbackIs
  <2>9. /\ KeepsGame(mem, mem') /\ mem'.load = Nil
        /\ mem'.channel = mem.channel /\ mem'.handle = mem.handle /\ mem'.live = mem.live
        /\ mem'.user = mem.user
    BY <2>6, <2>8 DEF OnlyTold, KeepsGame
  <2>10. QED
    BY <1>2, <1>9, <2>1, <2>6, <2>7, <2>8, <2>9
<1>10. QED
  BY <1>7, <1>8, <1>9

LEMMA AttachIs ==
    ASSUME Types, NEW c \in Loads, Attach(c)
    PROVE  /\ mem' \in Shape /\ KeepsLoads(mem, mem', c) /\ KeepsGame(mem, mem') /\ mem'.load = mem.load
           /\ pc[c] = "Attach"
           /\ UNCHANGED <<waitsOn, at, seen, overlapped, latest, succeeded, emptied>>
           /\ mem.load = Nil => mem' = mem /\ pc' = [pc EXCEPT ![c] = "Unload"]
           /\ mem.load # Nil =>
                /\ pc' = [pc EXCEPT ![c] = "Wait"]
                /\ mem'.crash = "No" => mem.crash = "No" /\ Drops(mem, mem', c, FALSE)
                /\ mem'.crash = "Panic" => mem.crash = "Panic" \/ LateLoad(mem, c)
<1>1. mem \in Shape /\ FALSE \in BOOLEAN
  BY DEF Types
<1>2. /\ pc[c] = "Attach"
      /\ UNCHANGED <<waitsOn, at, seen, overlapped, latest, succeeded, emptied>>
  BY DEF Attach, history
<1>3. CASE mem.load = Nil
  <2>1. mem' = mem /\ pc' = [pc EXCEPT ![c] = "Unload"]
    BY <1>3 DEF Attach
  <2>2. QED
    BY <1>1, <1>2, <1>3, <2>1 DEF KeepsLoads, KeepsGame, KeepsCalls
<1>4. CASE mem.load # Nil
  <2>1. mem' = Dropped(mem, c, FALSE) /\ pc' = [pc EXCEPT ![c] = "Wait"]
    BY <1>4 DEF Attach, Dropped
  <2>2. /\ mem' \in Shape /\ KeepsLoads(mem, mem', c) /\ KeepsGame(mem, mem') /\ mem'.load = mem.load
        /\ mem'.crash = "No" => mem.crash = "No" /\ Drops(mem, mem', c, FALSE)
        /\ mem'.crash = "Panic" => mem.crash = "Panic" \/ LateLoad(mem, c)
    BY <1>1, <2>1, DropIs
  <2>3. QED
    BY <1>2, <1>4, <2>1, <2>2
<1>5. QED
  BY <1>3, <1>4

LEMMA UnloadIs ==
    ASSUME Types, NEW c \in Loads, Unload(c)
    PROVE  /\ mem' \in Shape /\ KeepsCalls(mem, mem') /\ mem'.user = mem.user /\ Quiet(mem, mem')
           /\ mem'.game = Nil /\ mem'.unknown = mem.unknown /\ mem'.load = Nil
           /\ mem'.crash = mem.crash
           /\ mem.load = Nil => mem'.states = mem.states
           /\ \A d \in Loads :
                /\ mem'.states[d].callback = mem.states[d].callback
                /\ mem'.states[d].live = mem.states[d].live
                /\ mem'.states[d].progress = mem.states[d].progress
                /\ mem'.states[d].outstanding = mem.states[d].outstanding
                /\ d # mem.load => mem'.states[d] = mem.states[d]
           /\ pc[c] = "Unload" /\ pc' = [pc EXCEPT ![c] = "Set"]
           /\ UNCHANGED <<waitsOn, at, seen, overlapped, latest, succeeded, emptied>>
<1>1. mem \in Shape /\ mem.load \in Loads \cup {Nil} /\ mem.game \in Loads \cup {Nil}
  BY DEF Types, Shape
<1>2. /\ pc[c] = "Unload" /\ pc' = [pc EXCEPT ![c] = "Set"]
      /\ UNCHANGED <<waitsOn, at, seen, overlapped, latest, succeeded, emptied>>
  BY DEF Unload, history
<1> DEFINE fr == IF mem.game # Nil /\ ~(mem.load # Nil /\ mem.load = mem.game)
                 THEN mem.freed \cup {mem.game} ELSE mem.freed
<1>3. fr \in SUBSET Loads
  BY <1>1 DEF Shape
<1>4. CASE mem.load = Nil
  <2>1. mem' = [mem EXCEPT !.game = Nil, !.freed = fr]
    BY <1>4 DEF Unload
  <2> HIDE DEF fr
  <2>2. QED
    BY <1>1, <1>2, <1>3, <1>4, <2>1 DEF Shape, KeepsCalls, Quiet
<1>5. CASE mem.load # Nil
  <2>1. PICK o \in Loads : o = mem.load
    BY <1>1, <1>5
  <2> DEFINE st == [mem.states[o] EXCEPT !.aborted = TRUE]
             ss == [mem.states EXCEPT ![o] = st]
  <2>2. mem' = [mem EXCEPT !.states = ss, !.load = Nil, !.game = Nil, !.freed = fr]
    <3>1. mem' = [[mem EXCEPT !.states[o].aborted = TRUE, !.load = Nil] EXCEPT !.game = Nil, !.freed = fr]
      BY <1>5, <2>1 DEF Unload
    <3> HIDE DEF fr
    <3>2. QED
      BY <1>1, <3>1 DEF Shape
  <2>3. mem.states \in [Loads -> AnyLoadState] /\ mem.states[o] \in AnyLoadState
    BY <1>1 DEF Shape
  <2>4. /\ st \in AnyLoadState /\ st.callback = mem.states[o].callback /\ st.live = mem.states[o].live
        /\ st.progress = mem.states[o].progress /\ st.outstanding = mem.states[o].outstanding
    BY <2>3 DEF AnyLoadState
  <2> HIDE DEF fr, st
  <2>5. ss \in [Loads -> AnyLoadState] /\ ss[o] = st /\ \A d \in Loads \ {o} : ss[d] = mem.states[d]
    BY <2>3, <2>4
  <2> HIDE DEF ss
  <2>6. /\ mem' \in Shape /\ KeepsCalls(mem, mem') /\ mem'.user = mem.user /\ Quiet(mem, mem')
        /\ mem'.game = Nil /\ mem'.unknown = mem.unknown /\ mem'.load = Nil
        /\ mem'.crash = mem.crash /\ mem'.states = ss
    BY <1>1, <1>3, <2>2, <2>5 DEF Shape, KeepsCalls, Quiet
  <2>7. QED
    BY <1>2, <1>5, <2>1, <2>4, <2>5, <2>6
<1>6. QED
  BY <1>4, <1>5

LEMMA SetLoadIs ==
    ASSUME Types, NEW c \in Loads, SetLoad(c)
    PROVE  /\ mem' \in Shape /\ KeepsLoads(mem, mem', c) /\ KeepsGame(mem, mem') /\ Quiet(mem, mem')
           /\ mem'.load = c /\ mem'.crash = mem.crash
           /\ mem'.states[c].live = mem.states[c].live
           /\ mem'.states[c].progress = mem.states[c].progress
           /\ mem'.states[c].outstanding = mem.states[c].outstanding
           /\ latest' = c
           /\ overlapped' = IF \E d \in Loads \ {c} : pc[d] \in {"Unload", "Set"}
                            THEN overlapped \cup {"attach"} ELSE overlapped
           /\ pc[c] = "Set" /\ pc' = [pc EXCEPT ![c] = "Fetch"]
           /\ UNCHANGED <<waitsOn, at, seen, succeeded, emptied>>
<1>1. mem \in Shape /\ mem.states \in [Loads -> AnyLoadState] /\ mem.states[c] \in AnyLoadState
  BY DEF Types, Shape
<1>2. /\ latest' = c
      /\ overlapped' = IF \E d \in Loads \ {c} : pc[d] \in {"Unload", "Set"}
                       THEN overlapped \cup {"attach"} ELSE overlapped
      /\ pc[c] = "Set" /\ pc' = [pc EXCEPT ![c] = "Fetch"]
      /\ UNCHANGED <<waitsOn, at, seen, succeeded, emptied>>
  BY DEF SetLoad
<1> DEFINE st == [mem.states[c] EXCEPT !.game = TRUE]
<1>3. mem' = [mem EXCEPT !.load = c, !.states = [mem.states EXCEPT ![c] = st]]
  BY DEF SetLoad
<1>4. st \in AnyLoadState
  BY <1>1, Zenon DEF AnyLoadState
<1>5. /\ st.callback = mem.states[c].callback /\ st.live = mem.states[c].live
      /\ st.progress = mem.states[c].progress /\ st.outstanding = mem.states[c].outstanding
      /\ st.aborted = mem.states[c].aborted
  BY <1>1 DEF AnyLoadState
<1> HIDE DEF st
<1>6. /\ mem' \in Shape /\ KeepsGame(mem, mem') /\ Quiet(mem, mem') /\ mem'.load = c
      /\ mem'.crash = mem.crash /\ KeepsCalls(mem, mem') /\ mem'.user = mem.user
      /\ mem'.states = [mem.states EXCEPT ![c] = st]
  BY <1>1, <1>3, <1>4 DEF Shape, KeepsGame, Quiet, KeepsCalls
<1>7. QED
  BY <1>1, <1>2, <1>5, <1>6 DEF KeepsLoads

LEMMA LoadGameIs ==
    ASSUME Types, NEW c \in Loads, LoadGame(c)
    PROVE  /\ mem' \in Shape /\ KeepsLoads(mem, mem', c) /\ mem'.load \in {mem.load, Nil}
           /\ \/ KeepsGame(mem, mem')
              \/ mem'.game = c /\ mem'.unknown = mem.unknown \cup {c}
           /\ mem'.crash = "No" =>
                \/ Errs(mem, mem', c) /\ at' = at
                \/ /\ Fetches(mem, mem', c) /\ mem.user # "None"
                   /\ at' = IF Asks(mem) THEN [at EXCEPT ![<<"fetch", c>>] = "Sent"] ELSE at
           /\ mem'.crash = "Panic" => mem.crash = "Panic" \/ (mem.states[c].live /\ LateLoad(mem, c))
           /\ at' = at \/ at' = [at EXCEPT ![<<"fetch", c>>] = "Sent"]
           /\ pc[c] = "Fetch" /\ pc' = [pc EXCEPT ![c] = "Wait"]
           /\ UNCHANGED <<waitsOn, seen, overlapped, latest, succeeded, emptied>>
<1>1. mem \in Shape /\ mem.user \in {"None", "Requested", "LoggedIn"}
  BY DEF Types, Shape
<1>2. /\ pc[c] = "Fetch" /\ pc' = [pc EXCEPT ![c] = "Wait"]
      /\ UNCHANGED <<waitsOn, seen, overlapped, latest, succeeded, emptied>>
  BY DEF LoadGame, history
<1>3. CASE RomOf[c] \in mem.noGame
  <2>1. mem' = UnknownGame(mem, c) /\ at' = at
    BY <1>3 DEF LoadGame
  <2>2. /\ mem' \in Shape /\ KeepsLoads(mem, mem', c)
        /\ mem'.game = c /\ mem'.unknown = mem.unknown \cup {c}
        /\ mem'.load \in {mem.load, Nil}
        /\ mem'.crash = "No" => Errs(mem, mem', c)
        /\ mem'.crash = "Panic" => mem.crash = "Panic" \/ (mem.states[c].live /\ LateLoad(mem, c))
    BY <1>1, <2>1, UnknownGameIs
  <2>3. QED
    BY <1>2, <2>1, <2>2
<1>4. CASE RomOf[c] \notin mem.noGame
  <2>1. /\ mem' = BeginFetch(mem, c)
        /\ at' = IF Asks(mem) THEN [at EXCEPT ![<<"fetch", c>>] = "Sent"] ELSE at
    BY <1>4 DEF LoadGame
  <2>2. /\ mem' \in Shape /\ KeepsLoads(mem, mem', c) /\ KeepsGame(mem, mem')
        /\ mem'.load \in {mem.load, Nil}
        /\ mem'.crash = "No" => Fetches(mem, mem', c)
        /\ mem'.crash = "Panic" =>
             mem.crash = "Panic" \/ (mem.user = "None" /\ mem.states[c].live /\ LateLoad(mem, c))
    BY <1>1, <2>1, BeginFetchIs
  <2>3. mem.user = "None" /\ mem'.crash = "No" => Errs(mem, mem', c) /\ at' = at
    BY <2>1, <2>2 DEF Fetches, Asks
  <2>4. QED
    BY <1>1, <1>2, <2>1, <2>2, <2>3
<1>5. QED
  BY <1>3, <1>4

LEMMA ReturnIs ==
    ASSUME Types, NEW c \in Calls, Return(c), NEW k, k = KindOf(c)
    PROVE  /\ mem' \in Shape /\ k \in Kinds /\ KeepsGame(mem, mem') /\ mem'.load = mem.load
           /\ mem'.states = mem.states /\ mem'.userdata = mem.userdata /\ mem'.user = mem.user
           /\ mem'.channel = mem.channel /\ Quiet(mem, mem')
           /\ pc[c] = "Waiting" /\ waitsOn[c] \in mem.closed
           /\ pc' = [pc EXCEPT ![c] = IF mem.failed[k] THEN "Failed" ELSE "OK"]
           /\ UNCHANGED <<waitsOn, at, seen, overlapped, latest, succeeded, emptied>>
           /\ mem.handle[k] = Nil =>
                /\ mem'.live = mem.live /\ mem'.handle = mem.handle
                /\ mem.crash = "No" => mem'.crash = "Panic"
           /\ mem.handle[k] # Nil =>
                /\ mem'.live = mem.live \ {mem.handle[k]}
                /\ mem'.handle = [mem.handle EXCEPT ![k] = Nil]
                /\ mem'.crash = mem.crash
<1>1. mem \in Shape /\ k \in Kinds
  BY CallIs DEF Types
<1>2. /\ pc[c] = "Waiting" /\ waitsOn[c] \in mem.closed
      /\ pc' = [pc EXCEPT ![c] = IF mem.failed[k] THEN "Failed" ELSE "OK"]
      /\ UNCHANGED <<waitsOn, at, seen, overlapped, latest, succeeded, emptied>>
  BY DEF Return, history
<1>3. CASE mem.handle[k] = Nil
  <2>1. mem' = Crash(mem, "Panic")
    BY <1>3 DEF Return
  <2>2. QED
    BY <1>1, <1>2, <1>3, <2>1, CrashIs DEF OnlyTold, KeepsGame, Quiet
<1>4. CASE mem.handle[k] # Nil
  <2> DEFINE h == [mem.handle EXCEPT ![k] = Nil]
             l == mem.live \ {mem.handle[k]}
  <2>1. mem' = [mem EXCEPT !.live = l, !.handle = h]
    BY <1>4 DEF Return
  <2>2. h \in [Kinds -> Calls \cup {Nil}] /\ l \in SUBSET Calls
    BY <1>1 DEF Shape
  <2>3. h = [mem.handle EXCEPT ![k] = Nil] /\ l = mem.live \ {mem.handle[k]}
    OBVIOUS
  <2> HIDE DEF h, l
  <2>4. QED
    BY <1>1, <1>2, <1>4, <2>1, <2>2, <2>3 DEF Shape, KeepsGame, Quiet
<1>5. QED
  BY <1>3, <1>4

(* A step of Next, by what it steps. *)
LEMMA StepIs ==
    ASSUME Types, Next
    PROVE  \/ \E c \in Calls : Register(c) \/ Wait(c) \/ Return(c)
           \/ \E c \in Logins : BeginLogin(c)
           \/ \E c \in Loads : BeginLoad(c) \/ Attach(c) \/ Unload(c) \/ SetLoad(c) \/ LoadGame(c)
           \/ \E c \in Logins : (\E ok \in BOOLEAN : LoginAnswered(c, ok)) \/ LoginDone(c)
           \/ \E c \in Loads : Answering(c) /\ AnswerOf(c)
<1>1. CASE \E c \in Calls : Register(c)
  BY <1>1
<1>2. ASSUME NEW r \in Requests, AnswerStep(r)
      PROVE  \/ \E c \in Logins : (\E ok \in BOOLEAN : LoginAnswered(c, ok)) \/ LoginDone(c)
             \/ \E c \in Loads : Answering(c) /\ AnswerOf(c)
  BY <1>2, AnswerSteps DEF LoginStep
<1>3. ASSUME NEW c \in Calls, CallStep(c)
      PROVE  \/ Wait(c) \/ Return(c)
             \/ c \in Logins /\ BeginLogin(c)
             \/ c \in Loads /\ (BeginLoad(c) \/ Attach(c) \/ Unload(c) \/ SetLoad(c) \/ LoadGame(c))
  <2>1. c \in Logins => ~Attach(c) /\ ~Unload(c) /\ ~SetLoad(c) /\ ~LoadGame(c)
    BY DEF Types, LoginPlaces, Attach, Unload, SetLoad, LoadGame
  <2>2. QED
    BY <1>3, <2>1 DEF CallStep, BeginLogin, BeginLoad, Calls
<1>4. CASE Step
  <2>1. CASE \E c \in Calls : CallStep(c)
    BY <1>3, <2>1
  <2>2. CASE \E r \in Requests : AnswerStep(r)
    BY <1>2, <2>2
  <2>3. QED
    BY <1>4, <2>1, <2>2 DEF Step
<1>5. QED
  BY <1>1, <1>4 DEF Next

LEMMA Moves ==
    ASSUME Types, NEW c \in Calls, NEW to \in Places, pc' = [pc EXCEPT ![c] = to],
           c \in Logins => to \in LoginPlaces
    PROVE  /\ pc' \in [Calls -> Places] /\ \A d \in Logins : pc'[d] \in LoginPlaces
           /\ pc'[c] = to /\ \A d \in Calls \ {c} : pc'[d] = pc[d]
  BY CallIs DEF Types

LEMMA Answers ==
    ASSUME Types, NEW c \in Logins, NEW to \in LoginStages, at' = [at EXCEPT ![<<"login", c>>] = to]
    PROVE  /\ at' \in [Requests -> Stages] /\ \A d \in Logins : Login(d)' \in LoginStages
           /\ Login(c)' = to
           /\ \A r \in Requests : r # <<"login", c>> => at'[r] = at[r]
<1>1. <<"login", c>> \in Requests /\ \A d \in Logins : <<"login", d>> \in Requests
  BY RequestIs
<1>2. to \in Stages
  BY DEF LoginStages, Stages
<1>3. QED
  BY <1>1, <1>2 DEF Types, Login

(* How a step of a request moves the others. *)
LEMMA TypesKept == Types /\ [Next]_vars => Types'
<1> SUFFICES ASSUME Types, Next PROVE Types'
  <2>1. CASE UNCHANGED vars
    BY <2>1 DEF Types, vars, Login
  <2>2. QED
    BY <2>1
<1>1. ASSUME NEW c \in Calls, Register(c) PROVE Types'
  <2>1. PICK k : k = KindOf(c)
    OBVIOUS
  <2>2. /\ mem' \in Shape /\ k \in Kinds /\ pc' = [pc EXCEPT ![c] = "Begin"]
        /\ overlapped' \in {overlapped, overlapped \cup {k}}
        /\ UNCHANGED <<waitsOn, at, seen, latest, succeeded, emptied>>
    BY <1>1, <2>1, RegisterIs
  <2>3. "Begin" \in Places /\ "Begin" \in LoginPlaces
    BY DEF Places, LoginPlaces
  <2>4. /\ pc' \in [Calls -> Places] /\ \A d \in Logins : pc'[d] \in LoginPlaces
    BY <2>2, <2>3, Moves
  <2>5. QED
    BY <2>2, <2>4 DEF Types, Login
<1>2. ASSUME NEW c \in Calls, Wait(c) PROVE Types'
  <2>1. /\ mem' = mem /\ pc' = [pc EXCEPT ![c] = "Waiting"] /\ UNCHANGED <<at, seen, history>>
        /\ waitsOn' = [waitsOn EXCEPT ![c] = mem.channel[KindOf(c)]]
    BY <1>2 DEF Wait
  <2>2. "Waiting" \in Places /\ "Waiting" \in LoginPlaces
    BY DEF Places, LoginPlaces
  <2>3. mem.channel[KindOf(c)] \in Calls \cup {Nil}
    BY CallIs DEF Types, Shape
  <2>4. /\ pc' \in [Calls -> Places] /\ \A d \in Logins : pc'[d] \in LoginPlaces
    BY <2>1, <2>2, Moves
  <2>5. QED
    BY <2>1, <2>3, <2>4 DEF Types, Login, history
<1>3. ASSUME NEW c \in Calls, Return(c) PROVE Types'
  <2>1. PICK k : k = KindOf(c)
    OBVIOUS
  <2>2. PICK to \in {"OK", "Failed"} :
        /\ mem' \in Shape /\ pc' = [pc EXCEPT ![c] = to]
        /\ UNCHANGED <<waitsOn, at, seen, overlapped, latest, succeeded, emptied>>
    BY <1>3, <2>1, ReturnIs
  <2>3. to \in Places /\ to \in LoginPlaces
    BY DEF Places, LoginPlaces
  <2>4. /\ pc' \in [Calls -> Places] /\ \A d \in Logins : pc'[d] \in LoginPlaces
    BY <2>2, <2>3, Moves
  <2>5. QED
    BY <2>2, <2>4 DEF Types, Login
<1>4. ASSUME NEW c \in Logins, BeginLogin(c) PROVE Types'
  <2>1. /\ mem' \in Shape /\ pc' = [pc EXCEPT ![c] = "Wait"]
        /\ UNCHANGED <<waitsOn, seen, overlapped, latest, succeeded, emptied>>
        /\ at' = at \/ at' = [at EXCEPT ![<<"login", c>>] = "Sent"]
    BY <1>4, BeginLoginIs
  <2>2. "Wait" \in Places /\ "Wait" \in LoginPlaces /\ "Sent" \in LoginStages /\ c \in Calls
    BY CallIs DEF Places, LoginPlaces, LoginStages
  <2>3. /\ pc' \in [Calls -> Places] /\ \A d \in Logins : pc'[d] \in LoginPlaces
    BY <2>1, <2>2, Moves
  <2>4. at' \in [Requests -> Stages] /\ \A d \in Logins : Login(d)' \in LoginStages
    <3>1. CASE at' = at
      BY <3>1 DEF Types, Login
    <3>2. CASE at' = [at EXCEPT ![<<"login", c>>] = "Sent"]
      BY <2>2, <3>2, Answers
    <3>3. QED
      BY <2>1, <3>1, <3>2
  <2>5. QED
    BY <2>1, <2>3, <2>4 DEF Types
<1>5. ASSUME NEW c \in Loads, BeginLoad(c) \/ Attach(c) \/ Unload(c) \/ SetLoad(c) PROVE Types'
  <2>1. PICK to \in {"Attach", "Unload", "Wait", "Set", "Fetch"} :
        /\ mem' \in Shape /\ pc' = [pc EXCEPT ![c] = to]
        /\ UNCHANGED <<waitsOn, at, seen, succeeded, emptied>>
        /\ latest' \in {latest, c}
        /\ overlapped' \in {overlapped, overlapped \cup {"attach"}}
    <3>1. CASE BeginLoad(c)
      BY <3>1, BeginLoadIs
    <3>2. CASE Attach(c)
      BY <3>2, AttachIs
    <3>3. CASE Unload(c)
      BY <3>3, UnloadIs
    <3>4. CASE SetLoad(c)
      BY <3>4, SetLoadIs
    <3>5. QED
      BY <1>5, <3>1, <3>2, <3>3, <3>4
  <2>2. to \in Places /\ c \in Calls /\ c \notin Logins
    BY CallIs DEF Places
  <2>3. /\ pc' \in [Calls -> Places] /\ \A d \in Logins : pc'[d] \in LoginPlaces
    BY <2>1, <2>2, Moves
  <2>4. QED
    BY <2>1, <2>3 DEF Types, Login
<1>6. ASSUME NEW c \in Loads, LoadGame(c) PROVE Types'
  <2>1. /\ mem' \in Shape /\ pc' = [pc EXCEPT ![c] = "Wait"]
        /\ UNCHANGED <<waitsOn, seen, overlapped, latest, succeeded, emptied>>
        /\ at' = at \/ at' = [at EXCEPT ![<<"fetch", c>>] = "Sent"]
    BY <1>6, LoadGameIs
  <2>2. "Wait" \in Places /\ c \in Calls /\ c \notin Logins /\ "Sent" \in Stages
    BY CallIs DEF Places, Stages
  <2>3. /\ pc' \in [Calls -> Places] /\ \A d \in Logins : pc'[d] \in LoginPlaces
    BY <2>1, <2>2, Moves
  <2>4. at' \in [Requests -> Stages] /\ \A d \in Logins : Login(d)' = Login(d)
    BY <2>1, <2>2, RequestIs DEF Types, Login
  <2>5. QED
    BY <2>1, <2>3, <2>4 DEF Types
<1>7. ASSUME NEW c \in Logins, NEW ok \in BOOLEAN, LoginAnswered(c, ok) PROVE Types'
  <2>1. PICK to \in {"Answered", "Resolved"} :
        /\ mem' \in Shape /\ UNCHANGED <<pc, waitsOn, overlapped, latest, emptied>>
        /\ at' = [at EXCEPT ![<<"login", c>>] = to]
        /\ seen' = [seen EXCEPT ![c] = mem.load]
        /\ succeeded' \in {succeeded, succeeded \cup {c}}
    BY <1>7, LoginAnsweredIs
  <2>2. to \in LoginStages /\ c \in Calls /\ mem.load \in Loads \cup {Nil}
    BY CallIs DEF LoginStages, Types, Shape
  <2>3. at' \in [Requests -> Stages] /\ \A d \in Logins : Login(d)' \in LoginStages
    BY <2>1, <2>2, Answers
  <2>4. QED
    BY <2>1, <2>2, <2>3 DEF Types
<1>8. ASSUME NEW c \in Logins, LoginDone(c) PROVE Types'
  <2>1. /\ mem' \in Shape /\ UNCHANGED <<pc, waitsOn, seen, overlapped, latest, succeeded, emptied>>
        /\ at' = [r \in Requests |->
                     IF r = <<"login", c>> THEN "Done"
                     ELSE IF Waits(c) /\ Asks(mem) /\ r = <<"fetch", seen[c]>> THEN "Sent"
                     ELSE at[r]]
    BY <1>8, LoginDoneIs
  <2>2. "Done" \in LoginStages /\ "Done" \in Stages /\ "Sent" \in Stages
    BY DEF LoginStages, Stages
  <2>3. \A d \in Logins : Login(d)' \in {"Done", Login(d)}
    BY <2>1, RequestIs DEF Login
  <2>4. at' \in [Requests -> Stages]
    BY <2>1, <2>2 DEF Types
  <2>5. QED
    BY <2>1, <2>2, <2>3, <2>4 DEF Types
<1>9. ASSUME NEW c \in Loads, Answering(c) PROVE Types'
  <2>1. /\ mem' \in Shape /\ UNCHANGED <<pc, waitsOn, seen, overlapped, latest>>
        /\ at' \in [Requests -> Stages]
        /\ \A r \in Requests : r[2] # c => at'[r] = at[r]
        /\ succeeded' \subseteq succeeded \cup {c} /\ emptied' \subseteq emptied \cup {c}
    BY <1>9 DEF Answering
  <2>2. \A d \in Logins : Login(d)' = Login(d)
    <3>1. ASSUME NEW d \in Logins PROVE <<"login", d>> \in Requests /\ <<"login", d>>[2] # c
      BY RequestIs, CallIs
    <3>2. QED
      BY <2>1, <3>1 DEF Login
  <2>3. c \in Calls
    BY CallIs
  <2>4. QED
    BY <2>1, <2>2, <2>3 DEF Types
<1>10. QED
  BY <1>1, <1>2, <1>3, <1>4, <1>5, <1>6, <1>7, <1>8, <1>9, StepIs

LEMMA TypesFirst == Init => Types
<1> SUFFICES ASSUME Init PROVE Types
  OBVIOUS
<1>1. [NewLoad EXCEPT !.live = FALSE] \in AnyLoadState
  BY DEF NewLoad, AnyLoadState
<1>2. [c \in Loads |-> [NewLoad EXCEPT !.live = FALSE]] \in [Loads -> AnyLoadState]
  BY <1>1
<1>3. [k \in Kinds |-> FALSE] \in [Kinds -> BOOLEAN]
  OBVIOUS
<1>4. mem \in Shape
  <2> DEFINE ss == [c \in Loads |-> [NewLoad EXCEPT !.live = FALSE]]
             ff == [k \in Kinds |-> FALSE]
  <2>1. ss \in [Loads -> AnyLoadState] /\ ff \in [Kinds -> BOOLEAN]
    BY <1>2, <1>3
  <2>2. mem = [channel |-> [k \in Kinds |-> Nil], handle |-> [k \in Kinds |-> Nil],
              failed |-> ff, closed |-> {}, live |-> {},
              userdata |-> [c \in Calls |-> Nil], user |-> "None", load |-> Nil, game |-> Nil,
              unknown |-> {}, freed |-> {}, noGame |-> {}, states |-> ss, crash |-> "No"]
    BY DEF Init
  <2> HIDE DEF ss, ff
  <2>3. QED
    BY <2>1, <2>2 DEF Shape
<1>5. /\ pc \in [Calls -> Places] /\ \A c \in Logins : pc[c] \in LoginPlaces
      /\ at \in [Requests -> Stages] /\ \A c \in Logins : Login(c) \in LoginStages
  BY CallIs, RequestIs DEF Init, Places, LoginPlaces, Stages, LoginStages, Login
<1>6. QED
  BY <1>4, <1>5 DEF Init, Types
-----------------------------------------------------------------------------
(* The game is the one of the load that was attached last. *)
LatestInv ==
    /\ mem.load # Nil => mem.load = latest
    /\ "attach" \notin overlapped =>
         /\ \A c \in Loads : pc[c] = "Set" => mem.load = Nil /\ mem.game \notin Loads \ mem.unknown
         /\ mem.game \in Loads \ mem.unknown => mem.game = latest

LEMMA LatestKept == Types /\ LatestInv /\ [Next]_vars => LatestInv'
<1> SUFFICES ASSUME Types, LatestInv, Next PROVE LatestInv'
  <2>1. CASE UNCHANGED vars
    BY <2>1 DEF LatestInv, vars
  <2>2. QED
    BY <2>1
<1>1. /\ pc \in [Calls -> Places] /\ mem.load \in Loads \cup {Nil} /\ mem.game \in Loads \cup {Nil}
      /\ \A d \in Loads : d \in Calls /\ d # Nil
  BY CallIs DEF Types, Shape
(* A step that moves no call to or from the end of an attach, and sets no game. *)
<1>2. ASSUME mem'.load \in {mem.load, Nil}, KeepsGame(mem, mem'), latest' = latest,
             "attach" \in overlapped => "attach" \in overlapped',
             \A d \in Loads : pc'[d] = "Set" => pc[d] = "Set"
      PROVE  LatestInv'
  BY <1>2 DEF LatestInv, KeepsGame
<1>3. ASSUME NEW c \in Calls, Register(c) PROVE LatestInv'
  <2>1. PICK k : k = KindOf(c)
    OBVIOUS
  <2>2. /\ mem'.load = mem.load /\ KeepsGame(mem, mem')
        /\ pc' = [pc EXCEPT ![c] = "Begin"]
        /\ overlapped' \in {overlapped, overlapped \cup {k}}
        /\ latest' = latest
    BY <1>3, <2>1, RegisterIs
  <2>3. QED
    BY <1>1, <1>2, <2>2
<1>4. ASSUME NEW c \in Calls, Wait(c) PROVE LatestInv'
  <2>1. /\ mem' = mem /\ pc' = [pc EXCEPT ![c] = "Waiting"] /\ UNCHANGED <<latest, overlapped>>
    BY <1>4 DEF Wait, history
  <2>2. QED
    BY <1>1, <1>2, <2>1 DEF KeepsGame
<1>5. ASSUME NEW c \in Calls, Return(c) PROVE LatestInv'
  <2>1. PICK k : k = KindOf(c)
    OBVIOUS
  <2>2. PICK to \in {"OK", "Failed"} :
        /\ mem'.load = mem.load /\ KeepsGame(mem, mem') /\ pc' = [pc EXCEPT ![c] = to]
        /\ UNCHANGED <<overlapped, latest>>
    BY <1>5, <2>1, ReturnIs
  <2>3. QED
    BY <1>1, <1>2, <2>2
<1>6. ASSUME NEW c \in Logins, BeginLogin(c) PROVE LatestInv'
  <2>1. /\ mem'.load = mem.load /\ KeepsGame(mem, mem') /\ pc' = [pc EXCEPT ![c] = "Wait"]
        /\ UNCHANGED <<overlapped, latest>>
    BY <1>6, BeginLoginIs
  <2>2. QED
    BY <1>1, <1>2, <2>1
<1>7. ASSUME NEW c \in Loads, BeginLoad(c) \/ Attach(c) PROVE LatestInv'
  <2>1. PICK to \in {"Attach", "Unload", "Wait"} :
        /\ mem'.load \in {mem.load, Nil} /\ KeepsGame(mem, mem') /\ pc' = [pc EXCEPT ![c] = to]
        /\ UNCHANGED <<overlapped, latest>>
    <3>1. CASE BeginLoad(c)
      BY <3>1, BeginLoadIs
    <3>2. CASE Attach(c)
      BY <3>2, AttachIs
    <3>3. QED
      BY <1>7, <3>1, <3>2
  <2>2. QED
    BY <1>1, <1>2, <2>1
<1>8. ASSUME NEW c \in Loads, Unload(c) PROVE LatestInv'
  <2>1. mem'.game = Nil /\ mem'.load = Nil
    BY <1>8, UnloadIs
  <2>2. QED
    BY <1>1, <2>1 DEF LatestInv
<1>9. ASSUME NEW c \in Loads, SetLoad(c) PROVE LatestInv'
  <2>1. /\ mem'.load = c /\ latest' = c /\ KeepsGame(mem, mem')
        /\ overlapped' = IF \E d \in Loads \ {c} : pc[d] \in {"Unload", "Set"}
                         THEN overlapped \cup {"attach"} ELSE overlapped
        /\ pc[c] = "Set" /\ pc' = [pc EXCEPT ![c] = "Fetch"]
    BY <1>9, SetLoadIs
  <2>2. QED
    BY <1>1, <2>1 DEF LatestInv, KeepsGame
<1>10. ASSUME NEW c \in Loads, LoadGame(c) PROVE LatestInv'
  <2>1. /\ mem'.load \in {mem.load, Nil} /\ UNCHANGED <<overlapped, latest>>
        /\ \/ KeepsGame(mem, mem')
           \/ mem'.game = c /\ mem'.unknown = mem.unknown \cup {c}
        /\ pc' = [pc EXCEPT ![c] = "Wait"]
    BY <1>10, LoadGameIs
  <2>2. QED
    BY <1>1, <1>2, <2>1 DEF LatestInv
<1>11. ASSUME NEW c \in Logins, NEW ok \in BOOLEAN, LoginAnswered(c, ok) PROVE LatestInv'
  <2>1. mem'.load = mem.load /\ KeepsGame(mem, mem') /\ UNCHANGED <<pc, overlapped, latest>>
    BY <1>11, LoginAnsweredIs
  <2>2. QED
    BY <1>2, <2>1
<1>12. ASSUME NEW c \in Logins, LoginDone(c) PROVE LatestInv'
  <2>1. PICK f : f = Fetched(mem, c) /\ OnlyTold(f, mem') /\ UNCHANGED <<pc, overlapped, latest>>
    BY <1>12, LoginDoneIs
  <2>2. KeepsGame(mem, f) /\ f.load \in {mem.load, Nil}
    BY <2>1, FetchedIs
  <2>3. KeepsGame(mem, mem') /\ mem'.load \in {mem.load, Nil}
    BY <2>1, <2>2 DEF KeepsGame, OnlyTold
  <2>4. QED
    BY <1>2, <2>1, <2>3
<1>13. ASSUME NEW c \in Loads, Answering(c) PROVE LatestInv'
  <2>1. /\ mem'.load \in {mem.load, Nil} /\ UNCHANGED <<pc, overlapped, latest>>
        /\ \/ KeepsGame(mem, mem')
           \/ mem'.game = c /\ mem'.unknown = mem.unknown \cup {c}
           \/ mem'.game = c /\ mem'.unknown = mem.unknown /\ mem.load = c
    BY <1>13 DEF Answering
  <2>2. QED
    BY <1>1, <1>2, <2>1 DEF LatestInv
<1>14. QED
  BY <1>3, <1>4, <1>5, <1>6, <1>7, <1>8, <1>9, <1>10, <1>11, <1>12, <1>13, StepIs

(* The game that is current is the one whose load was attached last, unless two loads
   were in rc_client_attach_load_state at once. *)
THEOREM GameIsLatestHolds == Spec => []GameIsLatest
<1>1. Init => Types /\ LatestInv
  BY TypesFirst, CallIs DEF Init, LatestInv
<1>2. Types /\ LatestInv /\ [Next]_vars => Types' /\ LatestInv'
  BY TypesKept, LatestKept
<1>3. Types /\ LatestInv => GameIsLatest
  BY DEF LatestInv, GameIsLatest
<1>4. QED
  BY <1>1, <1>2, <1>3, PTL DEF Spec
-----------------------------------------------------------------------------
(***************************************************************************
 A call and its channel.  As long as no two calls of a kind are pending at once,
 the channel and the handle of the kind are those of the pending call, and only
 the answer to that call can close it.
 ***************************************************************************)
Early == {"Idle", "Begin", "Attach", "Unload", "Set", "Fetch"}
Ended == {"OK", "Failed"}

Pending(c) == pc[c] \notin {"Idle"} \cup Ended
Alone(c) == KindOf(c) \notin overlapped

(* What is kept of a kind is of that kind. *)
KindsIn(m) ==
    /\ \A k \in Kinds : /\ m.channel[k] # Nil => KindOf(m.channel[k]) = k
                        /\ m.handle[k] # Nil => KindOf(m.handle[k]) = k /\ m.channel[k] # Nil
    /\ \A c \in Calls : m.userdata[c] # Nil =>
                          KindOf(m.userdata[c]) = KindOf(c) /\ m.channel[KindOf(c)] # Nil
    /\ Nil \notin m.closed

(* The call c, in a memory m, when p tells where the calls are and s which of them
   have been done. *)
CallIn(m, p, s, c) ==
    /\ p[c] \in {"Idle"} \cup Ended => c \notin m.live
    /\ p[c] \notin {"Idle"} \cup Ended =>
         c \in m.live /\ m.channel[KindOf(c)] = c /\ m.handle[KindOf(c)] = c
    /\ p[c] \in Ended => c \in m.closed
    /\ c \in m.closed => p[c] \notin Early
    /\ c \in m.closed /\ p[c] \notin Ended => m.failed[KindOf(c)] \/ c \in s
    /\ p[c] = "OK" => c \in s
    /\ m.userdata[c] \in {Nil, c}

CallsIn(m, p, s) == \A c \in Calls : Alone(c) => CallIn(m, p, s, c)

OneEach == \A c, d \in Calls : KindOf(c) = KindOf(d) /\ Alone(c) /\ Pending(c) /\ Pending(d) => c = d

(* A load that is not yet asked for at the server has no request out. *)
EarlyInv ==
    /\ \A c \in Loads : pc[c] \in Early =>
         /\ Fetching(c) = "None" /\ Session(c) = "None"
         /\ mem.states[c].progress = "Started"
         /\ pc[c] # "Fetch" => mem.load # c
    /\ \A c \in Logins : pc[c] \in Early => Login(c) = "None"

AnsweredInv == \A c \in Logins : Login(c) = "Answered" => c \in succeeded

WaitsInv == \A c \in Calls : Alone(c) /\ pc[c] = "Waiting" => waitsOn[c] = c

DoneInv ==
    /\ KindsIn(mem) /\ CallsIn(mem, pc, succeeded)
    /\ OneEach /\ EarlyInv /\ AnsweredInv /\ WaitsInv

LEMMA Runs == ASSUME Next PROVE mem.crash = "No"
<1>1. ASSUME NEW c \in Calls, Register(c) \/ CallStep(c) PROVE mem.crash = "No"
  BY <1>1 DEF Register, CallStep, BeginLogin, BeginLoad, Attach, Unload, SetLoad, LoadGame, Wait,
              Return, Running
<1>2. ASSUME NEW r \in Requests, AnswerStep(r) PROVE mem.crash = "No"
  <2>1. /\ \A q, from, to : Goes(q, from, to) => mem.crash = "No"
    BY DEF Goes, Running
  <2>2. CASE EndAsync(r) \/ AnswerFails(r) \/ ActivateStep(r)
    BY <2>1, <2>2 DEF EndAsync, AnswerFails, ActivateStep, Activate, Enable, Finish, Running
  <2>3. CASE LoginStep(r[2])
    BY <2>1, <2>3 DEF LoginStep, LoginAnswered, LoginDone, Running
  <2>4. CASE FetchStep(r[2])
    BY <2>1, <2>4 DEF FetchStep, FetchStale, FetchUnknown, SetUnknown, FetchKnown, Processed, Running
  <2>5. CASE SessionStep(r[2])
    BY <2>1, <2>5 DEF SessionStep, SessionStarted, StoreSession, Running
  <2>6. QED
    BY <1>2, <2>2, <2>3, <2>4, <2>5 DEF AnswerStep
<1>3. QED
  BY <1>1, <1>2 DEF Next, Step

(* A completion for the call d, which has been begun: it closes the channel of d, or
   of another kind of call than c. *)
LEMMA CallTold ==
    ASSUME NEW m \in Shape, NEW n \in Shape, NEW p, NEW s, NEW d \in Calls, NEW ok \in BOOLEAN,
           NEW k, k = KindOf(d), k \in Kinds,
           KindsIn(m), CallsIn(m, p, s), KeepsCalls(m, n),
           Quiet(m, n) \/ Tells(m, n, k, m.userdata[d], ok),
           ok => d \in s, Alone(d) => p[d] \notin Early
    PROVE  KindsIn(n) /\ CallsIn(n, p, s)
<1>1. CASE Quiet(m, n)
  BY <1>1 DEF Quiet, KeepsCalls, KindsIn, CallsIn, CallIn
<1>2. CASE ~Quiet(m, n)
  <2>1. PICK h : h = m.userdata[d]
    OBVIOUS
  <2>2. /\ h # Nil /\ h \in m.live /\ m.channel[k] \notin m.closed
        /\ n.closed = m.closed \cup {m.channel[k]}
        /\ n.failed = [m.failed EXCEPT ![k] = @ \/ ~ok]
    BY <1>2, <2>1 DEF Tells
  <2>3. m.channel[k] # Nil /\ KindOf(m.channel[k]) = k
    BY <2>1, <2>2 DEF KindsIn
  <2>4. KindsIn(n)
    BY <2>2, <2>3 DEF KindsIn, KeepsCalls
  <2>5. /\ n.failed[k] <=> (m.failed[k] \/ ~ok)
        /\ \A j \in Kinds \ {k} : n.failed[j] = m.failed[j]
    <3>1. m.failed \in [Kinds -> BOOLEAN]
      BY DEF Shape
    <3>2. QED
      BY <2>2, <3>1, Zenon
  <2>6. ASSUME NEW c \in Calls, Alone(c), CallIn(m, p, s, c)
        PROVE  CallIn(n, p, s, c)
    <3>1. KindOf(c) \in Kinds
      BY DEF KindOf, Kinds
    <3>2. CASE KindOf(c) # k
      BY <2>2, <2>3, <2>5, <2>6, <3>1, <3>2 DEF CallIn, KeepsCalls
    <3>3. CASE KindOf(c) = k
      <4>1. Alone(d)
        BY <2>6, <3>3 DEF Alone
      <4>2. h = d /\ CallIn(m, p, s, d)
        BY <2>1, <2>2, <4>1 DEF CallsIn, CallIn
      <4>3. m.channel[k] = d /\ p[d] \notin Early
        BY <2>2, <4>1, <4>2 DEF CallIn
      <4>4. CASE c = d
        BY <2>2, <2>5, <2>6, <3>3, <4>1, <4>2, <4>3, <4>4 DEF CallIn, KeepsCalls
      <4>5. CASE c # d
        BY <2>2, <2>5, <2>6, <3>3, <4>1, <4>2, <4>3, <4>5 DEF CallIn, KeepsCalls
      <4>6. QED
        BY <4>4, <4>5
    <3>4. QED
      BY <3>2, <3>3
  <2>7. QED
    BY <2>4, <2>6 DEF CallsIn
<1>3. QED
  BY <1>1, <1>2

(* A call goes on, and is not at its end yet. *)
LEMMA CallMoves ==
    ASSUME Types, CallsIn(mem, pc, succeeded), NEW c \in Calls, Pending(c),
           NEW to \in Places \ ({"Idle"} \cup Ended), pc' = [pc EXCEPT ![c] = to],
           pc[c] \in Early \/ to \notin Early
    PROVE  CallsIn(mem, pc', succeeded)
<1>1. pc'[c] = to /\ \A d \in Calls \ {c} : pc'[d] = pc[d]
  BY DEF Types
<1>2. ASSUME NEW d \in Calls, Alone(d)
      PROVE  CallIn(mem, pc', succeeded, d)
  <2>1. CallIn(mem, pc, succeeded, d)
    BY <1>2 DEF CallsIn
  <2>2. CASE d # c
    BY <1>1, <2>1, <2>2 DEF CallIn
  <2>3. CASE d = c
    BY <1>1, <2>1, <2>3 DEF CallIn, Pending, Ended, Early
  <2>4. QED
    BY <2>2, <2>3
<1>3. QED
  BY <1>2 DEF CallsIn

LEMMA CallsGrow ==
    ASSUME NEW m, NEW p, NEW s, NEW t, s \subseteq t, CallsIn(m, p, s)
    PROVE  CallsIn(m, p, t)
  BY DEF CallsIn, CallIn

(* What a step of a call does to the calls. *)
LEMMA RegisterCalls ==
    ASSUME Types, DoneInv, NEW c \in Calls, Register(c)
    PROVE  KindsIn(mem') /\ CallsIn(mem, pc, succeeded)' /\ OneEach'
<1>1. PICK k : k = KindOf(c)
  OBVIOUS
<1>2. /\ k \in Kinds
      /\ mem'.channel = [mem.channel EXCEPT ![k] = c]
      /\ mem'.handle = [mem.handle EXCEPT ![k] = c]
      /\ mem'.live = mem.live \cup {c}
      /\ mem'.closed = mem.closed /\ mem'.userdata = mem.userdata
      /\ mem'.failed = [mem.failed EXCEPT ![k] = FALSE]
      /\ pc[c] = "Idle" /\ pc' = [pc EXCEPT ![c] = "Begin"]
      /\ overlapped' = IF \E d \in Calls \ {c} : KindOf(d) = k /\ pc[d] \notin {"Idle", "OK", "Failed"}
                       THEN overlapped \cup {k} ELSE overlapped
      /\ UNCHANGED succeeded
  BY <1>1, RegisterIs
<1>3. /\ mem.channel \in [Kinds -> Calls \cup {Nil}] /\ mem.handle \in [Kinds -> Calls \cup {Nil}]
      /\ mem.failed \in [Kinds -> BOOLEAN] /\ c # Nil
      /\ \A d \in Calls : KindOf(d) \in Kinds
  BY CallIs DEF Types, Shape
<1>4. pc'[c] = "Begin" /\ \A d \in Calls \ {c} : pc'[d] = pc[d]
  BY <1>2 DEF Types
<1>5. /\ mem'.channel[k] = c /\ mem'.handle[k] = c
      /\ \A j \in Kinds \ {k} : /\ mem'.channel[j] = mem.channel[j]
                                /\ mem'.handle[j] = mem.handle[j]
                                /\ mem'.failed[j] = mem.failed[j]
  <2>1. /\ mem'.channel[k] = c /\ mem'.handle[k] = c
        /\ \A j \in Kinds \ {k} : /\ mem'.channel[j] = mem.channel[j]
                                  /\ mem'.handle[j] = mem.handle[j]
    BY <1>2, <1>3
  <2>2. \A j \in Kinds \ {k} : mem'.failed[j] = mem.failed[j]
    BY <1>2, <1>3, Zenon
  <2>3. QED
    BY <2>1, <2>2
<1>6. KindsIn(mem')
  BY <1>1, <1>2, <1>3, <1>5 DEF KindsIn, DoneInv
<1>7. ASSUME NEW d \in Calls, Alone(d)'
      PROVE  CallIn(mem, pc, succeeded, d)'
  <2>1. Alone(d) /\ (KindOf(d) = k /\ d # c => pc[d] \in {"Idle"} \cup Ended)
    BY <1>2, <1>7 DEF Alone, Ended
  <2>2. CallIn(mem, pc, succeeded, d)
    BY <2>1 DEF DoneInv, CallsIn
  <2>3. CASE d = c
    BY <1>1, <1>2, <1>4, <1>5, <2>2, <2>3 DEF CallIn, Early, Ended
  <2>4. CASE d # c
    BY <1>2, <1>3, <1>4, <1>5, <2>1, <2>2, <2>4 DEF CallIn, Early, Ended
  <2>5. QED
    BY <2>3, <2>4
<1>8. OneEach'
  BY <1>1, <1>2, <1>4 DEF OneEach, DoneInv, Alone, Pending, Ended
<1>9. QED
  BY <1>6, <1>7, <1>8 DEF CallsIn

LEMMA ReturnCalls ==
    ASSUME Types, DoneInv, NEW c \in Calls, Return(c), mem'.crash = "No"
    PROVE  KindsIn(mem') /\ CallsIn(mem', pc', succeeded')
<1>1. PICK k : k = KindOf(c)
  OBVIOUS
<1>2. /\ k \in Kinds /\ mem'.userdata = mem.userdata
      /\ mem'.channel = mem.channel /\ Quiet(mem, mem')
      /\ pc[c] = "Waiting" /\ waitsOn[c] \in mem.closed
      /\ pc' = [pc EXCEPT ![c] = IF mem.failed[k] THEN "Failed" ELSE "OK"]
      /\ succeeded' = succeeded
      /\ mem.handle[k] = Nil /\ mem.crash = "No" => mem'.crash = "Panic"
      /\ mem.handle[k] # Nil =>
           /\ mem'.live = mem.live \ {mem.handle[k]}
           /\ mem'.handle = [mem.handle EXCEPT ![k] = Nil]
  BY <1>1, ReturnIs
<1>3. mem.crash = "No"
  BY DEF Return, Running
<1>4. /\ mem.handle \in [Kinds -> Calls \cup {Nil}] /\ \A d \in Calls : KindOf(d) \in Kinds /\ d # Nil
  BY CallIs DEF Types, Shape
<1>5. PICK h : h = mem.handle[k] /\ h # Nil /\ KindOf(h) = k /\ mem'.live = mem.live \ {h}
  BY <1>2, <1>3 DEF DoneInv, KindsIn
<1>6. mem'.handle[k] = Nil /\ \A j \in Kinds \ {k} : mem'.handle[j] = mem.handle[j]
  BY <1>2, <1>4, <1>5
<1>7. KindsIn(mem')
  BY <1>2, <1>6 DEF KindsIn, DoneInv, Quiet
<1>8. PICK to \in Ended : pc'[c] = to /\ (to = "OK" => ~mem.failed[k])
  BY <1>2 DEF Types, Ended
<1>9. \A d \in Calls \ {c} : pc'[d] = pc[d]
  BY <1>2 DEF Types
<1>10. ASSUME NEW d \in Calls, Alone(d)
      PROVE  CallIn(mem', pc', succeeded', d)
  <2>1. CallIn(mem, pc, succeeded, d)
    BY <1>10 DEF DoneInv, CallsIn
  <2>2. CASE KindOf(d) # k
    BY <1>1, <1>2, <1>4, <1>5, <1>6, <1>9, <2>1, <2>2 DEF CallIn, Quiet
  <2>3. CASE d = c
    <3>1. waitsOn[c] = c /\ h = c
      BY <1>1, <1>2, <1>5, <1>10, <2>1, <2>3 DEF DoneInv, WaitsInv, CallIn, Ended
    <3>2. QED
      BY <1>1, <1>2, <1>5, <1>8, <2>1, <2>3, <3>1 DEF CallIn, Quiet, Ended, Early
  <2>4. CASE d # c /\ KindOf(d) = k
    <3>1. ~Pending(d)
      <4>1. Pending(c) /\ Alone(c) /\ Alone(d)
        BY <1>1, <1>2, <1>10, <2>4 DEF Pending, Ended, Alone
      <4>2. QED
        BY <1>1, <2>4, <4>1 DEF DoneInv, OneEach
    <3>2. QED
      BY <1>2, <1>5, <1>9, <2>1, <2>4, <3>1 DEF CallIn, Quiet, Pending
  <2>5. QED
    BY <2>2, <2>3, <2>4
<1>11. QED
  BY <1>7, <1>10 DEF CallsIn

LEMMA BeginLoginCalls ==
    ASSUME Types, DoneInv, NEW c \in Logins, BeginLogin(c), mem'.crash = "No"
    PROVE  KindsIn(mem') /\ CallsIn(mem', pc', succeeded')
<1>1. c \in Calls /\ KindOf(c) = "login" /\ "login" \in Kinds /\ mem \in Shape /\ FALSE \in BOOLEAN
  BY CallIs DEF Types, Kinds
<1>2. /\ mem' \in Shape
      /\ mem'.channel = mem.channel /\ mem'.handle = mem.handle /\ mem'.live = mem.live
      /\ pc[c] = "Begin" /\ pc' = [pc EXCEPT ![c] = "Wait"] /\ succeeded' = succeeded
      /\ mem.user = "Requested" =>
           /\ OnlyTold(mem, mem')
           /\ mem'.crash = "No" => Tells(mem, mem', "login", mem.handle["login"], FALSE)
      /\ mem.user # "Requested" =>
           /\ Quiet(mem, mem')
           /\ mem'.userdata = [mem.userdata EXCEPT ![c] = mem.handle["login"]]
  BY BeginLoginIs
<1>3. CallsIn(mem, pc', succeeded)
  <2>1. "Wait" \in Places \ ({"Idle"} \cup Ended) /\ pc[c] \in Early /\ Pending(c)
    BY <1>2 DEF Places, Ended, Early, Pending
  <2>2. QED
    BY <1>1, <1>2, <2>1, CallMoves DEF DoneInv
<1>4. pc'[c] = "Wait"
  BY <1>1, <1>2 DEF Types
<1>5. CASE mem.user = "Requested"
  <2>1. mem.handle["login"] \in Calls \cup {Nil} /\ mem.userdata \in [Calls -> Calls \cup {Nil}]
    BY <1>1 DEF Shape
  <2>2. QED
    <3>1. PICK h : h = mem.handle["login"]
      OBVIOUS
    <3>2. CASE Quiet(mem, mem')
      BY <1>2, <1>3, <1>5, <3>2 DEF Quiet, OnlyTold, KindsIn, CallsIn, CallIn, DoneInv
    <3>3. CASE h # Nil /\ ~Quiet(mem, mem')
      <4>1. h \in Calls /\ KindOf(h) = "login"
        BY <1>1, <2>1, <3>1, <3>3 DEF DoneInv, KindsIn
      <4>2. /\ h \in mem.live /\ mem.channel["login"] \notin mem.closed
            /\ mem'.closed = mem.closed \cup {mem.channel["login"]}
            /\ mem'.failed = [mem.failed EXCEPT !["login"] = @ \/ TRUE]
        BY <1>2, <1>5, <3>1, <3>3 DEF Tells
      <4>3. mem.channel["login"] # Nil /\ KindOf(mem.channel["login"]) = "login"
        BY <1>1, <3>1, <3>3 DEF DoneInv, KindsIn
      <4>4. KindsIn(mem')
        BY <1>2, <1>5, <4>2, <4>3 DEF KindsIn, OnlyTold, DoneInv
      <4>5. mem'.failed["login"] /\ \A j \in Kinds \ {"login"} : mem'.failed[j] = mem.failed[j]
        <5>1. mem.failed \in [Kinds -> BOOLEAN]
          BY <1>1 DEF Shape
        <5>2. QED
          BY <1>1, <4>2, <5>1, Zenon
      <4>6. ASSUME NEW d \in Calls, Alone(d) PROVE CallIn(mem', pc', succeeded', d)
        <5>1. CallIn(mem, pc', succeeded, d) /\ KindOf(d) \in Kinds
          BY <1>3, <4>6, CallIs DEF CallsIn
        <5>2. CASE KindOf(d) # "login"
          BY <1>2, <1>5, <4>2, <4>3, <4>5, <5>1, <5>2 DEF CallIn, OnlyTold
        <5>3. CASE KindOf(d) = "login"
          <6>1. Alone(c)
            BY <1>1, <4>6, <5>3 DEF Alone
          <6>2. mem.channel["login"] = c
            BY <1>1, <1>3, <1>4, <6>1 DEF CallsIn, CallIn, Ended
          <6>3. QED
            BY <1>2, <1>4, <1>5, <4>2, <4>5, <5>1, <5>3, <6>2 DEF CallIn, OnlyTold, Early, Ended
        <5>4. QED
          BY <5>2, <5>3
      <4>7. QED
        BY <4>4, <4>6 DEF CallsIn
    <3>4. CASE h = Nil
      <4>1. Quiet(mem, mem')
        BY <1>2, <1>5, <3>1, <3>4 DEF Tells
      <4>2. QED
        BY <3>2, <4>1
    <3>5. QED
      BY <3>2, <3>3, <3>4
<1>6. CASE mem.user # "Requested"
  <2>1. mem.userdata \in [Calls -> Calls \cup {Nil}]
    BY <1>1 DEF Shape
  <2>2. mem'.userdata[c] = mem.handle["login"] /\ \A d \in Calls \ {c} : mem'.userdata[d] = mem.userdata[d]
    BY <1>1, <1>2, <1>6, <2>1
  <2>3. KindsIn(mem')
    BY <1>1, <1>2, <1>6, <2>2 DEF KindsIn, DoneInv, Quiet
  <2>4. ASSUME NEW d \in Calls, Alone(d) PROVE CallIn(mem', pc', succeeded', d)
    <3>1. CallIn(mem, pc', succeeded, d)
      BY <1>3, <2>4 DEF CallsIn
    <3>2. CASE d # c
      BY <1>2, <1>6, <2>2, <3>1, <3>2 DEF CallIn, Quiet
    <3>3. CASE d = c
      BY <1>1, <1>2, <1>4, <1>6, <2>2, <3>1, <3>3 DEF CallIn, Quiet, Ended
    <3>4. QED
      BY <3>2, <3>3
  <2>5. QED
    BY <2>3, <2>4 DEF CallsIn
<1>7. QED
  BY <1>5, <1>6

(* The kinds and the calls, when a load is told. *)
LEMMA CallReported ==
    ASSUME NEW m \in Shape, NEW n \in Shape, NEW p, NEW s, NEW d \in Loads, NEW ok \in BOOLEAN,
           KindsIn(m), CallsIn(m, p, s), KeepsCalls(m, n),
           Quiet(m, n) \/ Reports(m, n, d, ok),
           ok /\ ~Quiet(m, n) => d \in s,
           Alone(d) /\ ~Quiet(m, n) => p[d] \notin Early
    PROVE  KindsIn(n) /\ CallsIn(n, p, s)
<1>1. d \in Calls /\ KindOf(d) = "load" /\ "load" \in Kinds
  BY CallIs DEF Kinds
<1>2. CASE Quiet(m, n)
  BY <1>2 DEF Quiet, KeepsCalls, KindsIn, CallsIn, CallIn
<1>3. CASE ~Quiet(m, n)
  <2>1. Tells(m, n, "load", m.userdata[d], ok)
    BY <1>3 DEF Reports
  <2>2. PICK k : k = KindOf(d)
    OBVIOUS
  <2>3. QED
    BY <1>1, <1>3, <2>1, <2>2, CallTold
<1>4. QED
  BY <1>2, <1>3

LEMMA BeginLoadCalls ==
    ASSUME Types, DoneInv, NEW c \in Loads, BeginLoad(c), mem'.crash = "No"
    PROVE  KindsIn(mem') /\ CallsIn(mem', pc', succeeded')
<1>1. /\ c \in Calls /\ KindOf(c) = "load" /\ "load" \in Kinds /\ mem \in Shape /\ FALSE \in BOOLEAN
      /\ mem.load \in Loads \cup {Nil}
  BY CallIs DEF Types, Kinds, Shape
<1>2. /\ mem' \in Shape
      /\ pc[c] = "Begin" /\ pc' = [pc EXCEPT ![c] = "Attach"] /\ succeeded' = succeeded
      /\ mem.load = Nil => Begun(c, mem')
      /\ mem.load # Nil =>
           \E b \in Shape : Begun(c, b) /\ OnlyTold(b, mem') /\ Reports(b, mem', mem.load, FALSE)
  <2>1. mem.crash = "No"
    BY DEF BeginLoad, Running
  <2>2. QED
    BY <2>1, BeginLoadIs
<1>3. CallsIn(mem, pc', succeeded)
  <2>1. "Attach" \in Places \ ({"Idle"} \cup Ended) /\ pc[c] \in Early /\ Pending(c)
    BY <1>2 DEF Places, Ended, Early, Pending
  <2>2. QED
    BY <1>1, <1>2, <2>1, CallMoves DEF DoneInv
<1>4. pc'[c] = "Attach" /\ \A d \in Calls \ {c} : pc'[d] = pc[d]
  BY <1>1, <1>2 DEF Types
<1>5. ASSUME NEW b, Begun(c, b)
      PROVE  KindsIn(b) /\ CallsIn(b, pc', succeeded)
  <2>1. mem.userdata \in [Calls -> Calls \cup {Nil}]
    BY <1>1 DEF Shape
  <2>2. /\ b.userdata[c] = mem.handle["load"]
        /\ \A d \in Calls \ {c} : b.userdata[d] = mem.userdata[d]
    BY <1>1, <1>5, <2>1 DEF Begun
  <2>3. KindsIn(b)
    BY <1>1, <1>5, <2>2 DEF KindsIn, DoneInv, Quiet, Begun
  <2>4. ASSUME NEW d \in Calls, Alone(d) PROVE CallIn(b, pc', succeeded, d)
    <3>1. CallIn(mem, pc', succeeded, d)
      BY <1>3, <2>4 DEF CallsIn
    <3>2. CASE d # c
      BY <1>5, <2>2, <3>1, <3>2 DEF CallIn, Quiet, Begun
    <3>3. CASE d = c
      BY <1>1, <1>4, <1>5, <2>2, <3>1, <3>3 DEF CallIn, Quiet, Ended, Begun
    <3>4. QED
      BY <3>2, <3>3
  <2>5. QED
    BY <2>3, <2>4 DEF CallsIn
<1>6. CASE mem.load = Nil
  BY <1>2, <1>5, <1>6
<1>7. CASE mem.load # Nil
  <2>1. PICK o \in Loads : o = mem.load
    BY <1>1, <1>7
  <2>2. PICK b \in Shape : Begun(c, b) /\ OnlyTold(b, mem') /\ Reports(b, mem', o, FALSE)
    BY <1>2, <1>7, <2>1
  <2>3. Alone(o) => pc'[o] \notin Early
    <3>1. o # c /\ o \in Calls /\ KindOf(o) = "load"
      BY <1>2, <2>1, CallIs DEF DoneInv, EarlyInv, Early
    <3>2. pc[o] \in Early => pc[o] = "Fetch"
      BY <2>1 DEF DoneInv, EarlyInv
    <3>3. Alone(o) => ~(Pending(o) /\ Pending(c))
      BY <1>1, <3>1 DEF DoneInv, OneEach
    <3>4. QED
      BY <1>2, <1>4, <3>1, <3>2, <3>3 DEF Pending, Ended
  <2>4. KeepsCalls(b, mem') /\ KindsIn(b) /\ CallsIn(b, pc', succeeded)
    BY <1>5, <2>2 DEF OnlyTold, KeepsCalls
  <2>5. PICK p : p = pc'
    OBVIOUS
  <2>6. KindsIn(mem') /\ CallsIn(mem', p, succeeded)
    BY <1>1, <1>2, <2>2, <2>3, <2>4, <2>5, CallReported
  <2>7. QED
    BY <1>2, <2>5, <2>6
<1>8. QED
  BY <1>6, <1>7

LEMMA LoadCalls ==
    ASSUME Types, DoneInv, NEW c \in Loads,
           Attach(c) \/ Unload(c) \/ SetLoad(c) \/ LoadGame(c), mem'.crash = "No"
    PROVE  KindsIn(mem') /\ CallsIn(mem', pc', succeeded')
<1>1. c \in Calls /\ mem \in Shape /\ FALSE \in BOOLEAN
  BY CallIs DEF Types
<1>2. PICK to \in Places \ ({"Idle"} \cup Ended) :
      /\ mem' \in Shape /\ KeepsCalls(mem, mem')
      /\ pc[c] \in Early /\ pc' = [pc EXCEPT ![c] = to] /\ succeeded' = succeeded /\ Pending(c)
      /\ Quiet(mem, mem') \/ Reports(mem, mem', c, FALSE)
      /\ ~Quiet(mem, mem') => to \notin Early
  <2>1. /\ "Unload" \in Places \ ({"Idle"} \cup Ended) /\ "Wait" \in Places \ ({"Idle"} \cup Ended)
        /\ "Set" \in Places \ ({"Idle"} \cup Ended) /\ "Fetch" \in Places \ ({"Idle"} \cup Ended)
        /\ "Wait" \notin Early
    BY DEF Places, Ended, Early
  <2>2. CASE Attach(c)
    <3>1. pc[c] \in Early /\ Pending(c)
      BY <2>2 DEF Attach, Early, Pending, Ended
    <3>2. CASE mem.load = Nil
      <4>1. mem' = mem /\ pc' = [pc EXCEPT ![c] = "Unload"] /\ succeeded' = succeeded
        BY <2>2, <3>2, AttachIs
      <4>2. Quiet(mem, mem') /\ KeepsCalls(mem, mem')
        BY <4>1 DEF Quiet, KeepsCalls
      <4>3. QED
        BY <1>1, <2>1, <3>1, <4>1, <4>2
    <3>3. CASE mem.load # Nil
      <4>1. /\ mem' \in Shape /\ KeepsLoads(mem, mem', c) /\ pc' = [pc EXCEPT ![c] = "Wait"]
            /\ succeeded' = succeeded /\ Drops(mem, mem', c, FALSE)
        BY <2>2, <3>3, AttachIs
      <4>2. QED
        BY <2>1, <3>1, <4>1 DEF KeepsLoads, Drops
    <3>4. QED
      BY <3>2, <3>3
  <2>3. CASE Unload(c)
    <3>1. pc[c] \in Early /\ Pending(c)
      BY <2>3 DEF Unload, Early, Pending, Ended
    <3>2. /\ mem' \in Shape /\ KeepsCalls(mem, mem') /\ Quiet(mem, mem')
          /\ pc' = [pc EXCEPT ![c] = "Set"] /\ succeeded' = succeeded
      BY <2>3, UnloadIs
    <3>3. QED
      BY <2>1, <3>1, <3>2
  <2>4. CASE SetLoad(c)
    <3>1. pc[c] \in Early /\ Pending(c)
      BY <2>4 DEF SetLoad, Early, Pending, Ended
    <3>2. /\ mem' \in Shape /\ KeepsLoads(mem, mem', c) /\ Quiet(mem, mem')
          /\ pc' = [pc EXCEPT ![c] = "Fetch"] /\ succeeded' = succeeded
      BY <2>4, SetLoadIs
    <3>3. QED
      BY <2>1, <3>1, <3>2 DEF KeepsLoads
  <2>5. CASE LoadGame(c)
    <3>1. pc[c] \in Early /\ Pending(c)
      BY <2>5 DEF LoadGame, Early, Pending, Ended
    <3>2. /\ mem' \in Shape /\ KeepsLoads(mem, mem', c)
          /\ pc' = [pc EXCEPT ![c] = "Wait"] /\ succeeded' = succeeded
          /\ \/ Errs(mem, mem', c)
             \/ Fetches(mem, mem', c) /\ mem.user # "None"
      BY <2>5, LoadGameIs
    <3>3. Quiet(mem, mem') \/ Reports(mem, mem', c, FALSE)
      BY <3>2, <1>1 DEF Errs, Fetches, Shape
    <3>4. QED
      BY <2>1, <3>1, <3>2, <3>3 DEF KeepsLoads
  <2>6. QED
    BY <2>2, <2>3, <2>4, <2>5
<1>3. CallsIn(mem, pc', succeeded)
  BY <1>1, <1>2, CallMoves DEF DoneInv
<1>4. PICK p : p = pc' /\ p[c] = to
  BY <1>1, <1>2 DEF Types
<1>5. KindsIn(mem') /\ CallsIn(mem', p, succeeded)
  BY <1>1, <1>2, <1>3, <1>4, CallReported DEF DoneInv
<1>6. QED
  BY <1>2, <1>4, <1>5

LEMMA AnsweringCalls ==
    ASSUME Types, DoneInv, NEW c \in Loads, Answering(c), mem'.crash = "No"
    PROVE  KindsIn(mem') /\ CallsIn(mem', pc', succeeded')
<1>1. /\ mem \in Shape /\ mem' \in Shape /\ KeepsCalls(mem, mem') /\ pc' = pc
      /\ succeeded \subseteq succeeded'
      /\ \/ Quiet(mem, mem')
         \/ Reports(mem, mem', c, FALSE)
         \/ Reports(mem, mem', c, TRUE) /\ c \in succeeded'
      /\ \E r \in {<<"fetch", c>>, <<"session", c>>} : at[r] # "None"
  BY DEF Answering, Types
<1>2. pc[c] \notin Early
  BY <1>1 DEF DoneInv, EarlyInv, Fetching, Session
<1>3. PICK s : s = succeeded' /\ CallsIn(mem, pc, s) /\ KindsIn(mem)
  BY <1>1, CallsGrow DEF DoneInv
<1>4. PICK ok \in BOOLEAN : (Quiet(mem, mem') \/ Reports(mem, mem', c, ok)) /\ (ok => c \in s)
  BY <1>1, <1>3
<1>5. KindsIn(mem') /\ CallsIn(mem', pc, s)
  BY <1>1, <1>2, <1>3, <1>4, CallReported
<1>6. QED
  BY <1>1, <1>3, <1>5

LEMMA LoginAnsweredCalls ==
    ASSUME Types, DoneInv, NEW c \in Logins, NEW ok \in BOOLEAN, LoginAnswered(c, ok),
           mem'.crash = "No"
    PROVE  KindsIn(mem') /\ CallsIn(mem', pc', succeeded')
<1>1. c \in Calls /\ KindOf(c) = "login" /\ "login" \in Kinds /\ FALSE \in BOOLEAN /\ mem \in Shape
  BY CallIs DEF Kinds, Types
<1>2. /\ mem' \in Shape /\ KeepsCalls(mem, mem') /\ pc' = pc
      /\ Login(c) = "Sent" /\ succeeded \subseteq succeeded'
      /\ Quiet(mem, mem') \/ Tells(mem, mem', "login", mem.userdata[c], FALSE)
  BY LoginAnsweredIs
<1>3. pc[c] \notin Early
  BY <1>2 DEF DoneInv, EarlyInv
<1>4. PICK s : s = succeeded' /\ CallsIn(mem, pc, s) /\ KindsIn(mem)
  BY <1>2, CallsGrow DEF DoneInv
<1>5. PICK k : k = KindOf(c)
  OBVIOUS
<1>6. KindsIn(mem') /\ CallsIn(mem', pc, s)
  BY <1>1, <1>2, <1>3, <1>4, <1>5, CallTold
<1>7. QED
  BY <1>2, <1>4, <1>6

LEMMA LoginDoneCalls ==
    ASSUME Types, DoneInv, NEW c \in Logins, LoginDone(c), mem'.crash = "No"
    PROVE  KindsIn(mem') /\ CallsIn(mem', pc', succeeded')
<1>1. /\ c \in Calls /\ KindOf(c) = "login" /\ "login" \in Kinds
      /\ FALSE \in BOOLEAN /\ TRUE \in BOOLEAN /\ mem \in Shape
      /\ seen[c] \in Loads \cup {Nil}
  BY CallIs DEF Kinds, Types
<1>2. PICK f \in Shape :
      /\ f = Fetched(mem, c)
      /\ pc' = pc /\ succeeded' = succeeded /\ Login(c) \in {"Answered", "Resolved"}
      /\ mem' \in Shape /\ OnlyTold(f, mem') /\ f.crash = "No"
      /\ IF Login(c) = "Answered" THEN Tells(f, mem', "login", mem.userdata[c], TRUE)
                                  ELSE Quiet(f, mem')
  BY LoginDoneIs
<1>3. /\ KeepsCalls(mem, f)
      /\ IF Waits(c) THEN Fetches(mem, f, seen[c]) ELSE f = mem
  BY <1>2, FetchedIs
<1>4. KindsIn(f) /\ CallsIn(f, pc, succeeded)
  <2>1. CASE ~Waits(c)
    BY <1>3, <2>1 DEF DoneInv
  <2>2. CASE Waits(c)
    <3>1. PICK l \in Loads : l = seen[c]
      BY <1>1, <2>2 DEF Waits
    <3>2. Quiet(mem, f) \/ Reports(mem, f, l, FALSE)
      BY <1>1, <1>3, <2>2, <3>1 DEF Fetches, Errs, Shape
    <3>3. pc[l] \notin Early
      BY <2>2, <3>1 DEF Waits, DoneInv, EarlyInv
    <3>4. QED
      BY <1>1, <1>2, <1>3, <3>2, <3>3, CallReported DEF DoneInv
  <2>3. QED
    BY <2>1, <2>2
<1>5. f.userdata[c] = mem.userdata[c] /\ KeepsCalls(f, mem')
  BY <1>2, <1>3 DEF KeepsCalls, OnlyTold
<1>6. PICK k : k = KindOf(c)
  OBVIOUS
<1>7. pc[c] \notin Early /\ (Login(c) = "Answered" => c \in succeeded)
  BY <1>2 DEF DoneInv, EarlyInv, AnsweredInv
<1>8. KindsIn(mem') /\ CallsIn(mem', pc, succeeded)
  <2>1. CASE Login(c) = "Answered"
    <3>1. Tells(f, mem', k, f.userdata[c], TRUE)
      BY <1>1, <1>2, <1>5, <1>6, <2>1
    <3>2. QED
      BY <1>1, <1>2, <1>4, <1>5, <1>6, <1>7, <2>1, <3>1, CallTold
  <2>2. CASE Login(c) # "Answered"
    <3>1. Quiet(f, mem')
      BY <1>2, <2>2
    <3>2. QED
      BY <1>4, <1>5, <3>1 DEF Quiet, KeepsCalls, KindsIn, CallsIn, CallIn
  <2>3. QED
    BY <2>1, <2>2
<1>9. QED
  BY <1>2, <1>8

(* No call comes back, and calls that overlapped have. *)
LEMMA Advances ==
    ASSUME Types, Next
    PROVE  /\ overlapped \subseteq overlapped' /\ succeeded \subseteq succeeded'
           /\ \/ \E c \in Calls : Register(c)
              \/ \A d \in Calls : Pending(d)' => Pending(d)
<1>1. ASSUME NEW c \in Calls, NEW to, pc' = [pc EXCEPT ![c] = to], Pending(c)
      PROVE  \A d \in Calls : Pending(d)' => Pending(d)
  BY <1>1 DEF Pending, Types
<1>2. ASSUME pc' = pc
      PROVE  \A d \in Calls : Pending(d)' => Pending(d)
  BY <1>2 DEF Pending
<1>3. ASSUME NEW c \in Calls, Register(c)
      PROVE  overlapped \subseteq overlapped' /\ succeeded \subseteq succeeded'
  BY <1>3 DEF Register
<1>4. ASSUME NEW c \in Calls, Wait(c) \/ Return(c)
      PROVE  /\ overlapped \subseteq overlapped' /\ succeeded \subseteq succeeded'
             /\ Pending(c) /\ \E to : pc' = [pc EXCEPT ![c] = to]
  BY <1>4 DEF Wait, Return, history, Pending, Ended
<1>5. ASSUME NEW c \in Logins, BeginLogin(c)
      PROVE  /\ overlapped \subseteq overlapped' /\ succeeded \subseteq succeeded'
             /\ Pending(c) /\ \E to : pc' = [pc EXCEPT ![c] = to]
  BY <1>5 DEF BeginLogin, history, Pending, Ended
<1>6. ASSUME NEW c \in Loads,
             BeginLoad(c) \/ Attach(c) \/ Unload(c) \/ SetLoad(c) \/ LoadGame(c)
      PROVE  /\ overlapped \subseteq overlapped' /\ succeeded \subseteq succeeded'
             /\ Pending(c) /\ \E to : pc' = [pc EXCEPT ![c] = to]
  <2>1. CASE BeginLoad(c)
    BY <2>1 DEF BeginLoad, history, Pending, Ended
  <2>2. CASE Attach(c)
    BY <2>2 DEF Attach, history, Pending, Ended
  <2>3. CASE Unload(c)
    BY <2>3 DEF Unload, history, Pending, Ended
  <2>4. CASE SetLoad(c)
    BY <2>4 DEF SetLoad, history, Pending, Ended
  <2>5. CASE LoadGame(c)
    BY <2>5 DEF LoadGame, history, Pending, Ended
  <2>6. QED
    BY <1>6, <2>1, <2>2, <2>3, <2>4, <2>5
<1>7. ASSUME NEW c \in Logins, (\E ok \in BOOLEAN : LoginAnswered(c, ok)) \/ LoginDone(c)
      PROVE  overlapped \subseteq overlapped' /\ succeeded \subseteq succeeded' /\ pc' = pc
  BY <1>7 DEF LoginAnswered, LoginDone, history
<1>8. ASSUME NEW c \in Loads, Answering(c)
      PROVE  overlapped \subseteq overlapped' /\ succeeded \subseteq succeeded' /\ pc' = pc
  BY <1>8 DEF Answering
<1>9. \A c \in Loads \cup Logins : c \in Calls
  BY DEF Calls
<1>10. QED
  BY <1>1, <1>2, <1>3, <1>4, <1>5, <1>6, <1>7, <1>8, <1>9, StepIs

LEMMA CallsKept ==
    ASSUME Types, DoneInv, Next, mem'.crash = "No"
    PROVE  KindsIn(mem') /\ CallsIn(mem, pc, succeeded)' /\ OneEach'
<1>1. /\ overlapped \subseteq overlapped'
      /\ \/ \E c \in Calls : Register(c)
         \/ \A d \in Calls : Pending(d)' => Pending(d)
  BY Advances
<1>2. CASE \E c \in Calls : Register(c)
  BY <1>2, RegisterCalls
<1>3. ASSUME KindsIn(mem'), CallsIn(mem', pc', succeeded')
      PROVE  KindsIn(mem') /\ CallsIn(mem, pc, succeeded)'
  <2>1. \A c \in Calls : Alone(c)' => Alone(c)
    BY <1>1 DEF Alone
  <2>2. QED
    BY <1>3, <2>1 DEF CallsIn, CallIn
<1>4. \/ \E c \in Calls : Register(c)
      \/ OneEach'
  BY <1>1 DEF OneEach, DoneInv, Alone
<1>5. CASE \E c \in Calls : Wait(c)
  <2>1. PICK c \in Calls : Wait(c)
    BY <1>5
  <2>2. mem' = mem /\ pc[c] = "Wait" /\ pc' = [pc EXCEPT ![c] = "Waiting"] /\ succeeded' = succeeded
    BY <2>1 DEF Wait, history
  <2>3. "Waiting" \in Places \ ({"Idle"} \cup Ended) /\ "Waiting" \notin Early /\ Pending(c)
    BY <2>2 DEF Places, Ended, Early, Pending
  <2>4. CallsIn(mem, pc', succeeded)
    BY <2>2, <2>3, CallMoves DEF DoneInv
  <2>5. KindsIn(mem') /\ CallsIn(mem', pc', succeeded')
    BY <2>2, <2>4 DEF DoneInv
  <2>6. QED
    BY <1>2, <1>3, <1>4, <2>5
<1>6. QED
  BY <1>2, <1>3, <1>4, <1>5, StepIs, ReturnCalls, BeginLoginCalls, BeginLoadCalls, LoadCalls,
     AnsweringCalls, LoginAnsweredCalls, LoginDoneCalls

LEMMA EarlyKept ==
    ASSUME Types, EarlyInv, Next, mem'.crash = "No"
    PROVE  EarlyInv'
<1>1. /\ mem.load \in Loads \cup {Nil} /\ mem \in Shape
      /\ \A d \in Loads : d \in Calls /\ d # Nil /\ d \notin Logins
      /\ \A d \in Logins : d \in Calls
      /\ \A c \in Logins : <<"login", c>> \in Requests
      /\ \A c \in Loads : <<"fetch", c>> \in Requests /\ <<"session", c>> \in Requests
      /\ mem.crash = "No"
  BY CallIs, RequestIs, Runs DEF Types, Shape
(* A call moves on, and nothing is asked for. *)
<1>2. ASSUME NEW c \in Calls, NEW to, pc' = [pc EXCEPT ![c] = to], at' = at,
             to \in Early => pc[c] \in Early,
             mem'.load \in {mem.load, Nil},
             to = "Fetch" \/ pc[c] # "Fetch" \/ to \notin Early,
             \A d \in Loads : d # c \/ to \in Early => mem'.states[d].progress = mem.states[d].progress
      PROVE  EarlyInv'
  <2>1. pc'[c] = to /\ \A d \in Calls \ {c} : pc'[d] = pc[d]
    BY <1>2 DEF Types
  <2>2. \A d \in Calls : pc'[d] \in Early => pc[d] \in Early
    BY <1>2, <2>1
  <2>3. \A d \in Calls : pc'[d] \in Early /\ pc'[d] # "Fetch" => pc[d] # "Fetch"
    BY <1>2, <2>1
  <2>4. \A d \in Loads : pc'[d] \in Early => mem'.states[d].progress = mem.states[d].progress
    BY <1>1, <1>2, <2>1
  <2>5. QED
    BY <1>1, <1>2, <2>2, <2>3, <2>4 DEF EarlyInv, Fetching, Session, Login
<1>3. ASSUME NEW c \in Calls, Register(c) PROVE EarlyInv'
  <2>1. PICK k : k = KindOf(c)
    OBVIOUS
  <2>2. /\ mem'.load = mem.load /\ mem'.states = mem.states /\ at' = at /\ pc[c] = "Idle"
        /\ pc' = [pc EXCEPT ![c] = "Begin"]
    BY <1>3, <2>1, RegisterIs
  <2>3. QED
    BY <1>2, <2>2 DEF Early
<1>4. ASSUME NEW c \in Calls, Wait(c) PROVE EarlyInv'
  <2>1. mem' = mem /\ pc' = [pc EXCEPT ![c] = "Waiting"] /\ at' = at
    BY <1>4 DEF Wait
  <2>2. QED
    BY <1>2, <2>1 DEF Early
<1>5. ASSUME NEW c \in Calls, Return(c) PROVE EarlyInv'
  <2>1. PICK k : k = KindOf(c)
    OBVIOUS
  <2>2. PICK to \in {"OK", "Failed"} :
        mem'.load = mem.load /\ mem'.states = mem.states /\ pc' = [pc EXCEPT ![c] = to] /\ at' = at
    BY <1>5, <2>1, ReturnIs
  <2>3. QED
    BY <1>2, <2>2 DEF Early
<1>6. ASSUME NEW c \in Logins, BeginLogin(c) PROVE EarlyInv'
  <2>1. /\ mem'.load = mem.load /\ mem'.states = mem.states /\ pc' = [pc EXCEPT ![c] = "Wait"]
        /\ at' = at \/ at' = [at EXCEPT ![<<"login", c>>] = "Sent"]
    BY <1>6, BeginLoginIs
  <2>2. pc'[c] = "Wait" /\ \A d \in Calls \ {c} : pc'[d] = pc[d]
    BY <1>1, <2>1 DEF Types
  <2>3. \A r \in Requests : r # <<"login", c>> => at'[r] = at[r]
    BY <2>1 DEF Types
  <2>4. QED
    BY <1>1, <2>1, <2>2, <2>3 DEF EarlyInv, Early, Fetching, Session, Login
<1>7. ASSUME NEW c \in Loads, BeginLoad(c) PROVE EarlyInv'
  <2>1. /\ pc[c] = "Begin" /\ pc' = [pc EXCEPT ![c] = "Attach"] /\ at' = at
        /\ mem'.load \in {mem.load, Nil}
        /\ \E b \in Shape : Begun(c, b) /\ b.states = mem'.states
    <3>1. /\ pc[c] = "Begin" /\ pc' = [pc EXCEPT ![c] = "Attach"] /\ at' = at
          /\ mem'.load \in {mem.load, Nil} /\ mem' \in Shape
          /\ mem.load = Nil => Begun(c, mem')
          /\ mem.load # Nil => \E b \in Shape : Begun(c, b) /\ OnlyTold(b, mem')
      BY <1>1, <1>7, BeginLoadIs
    <3>2. CASE mem.load = Nil
      BY <3>1, <3>2
    <3>3. CASE mem.load # Nil
      BY <3>1, <3>3 DEF OnlyTold
    <3>4. QED
      BY <3>1, <3>2, <3>3
  <2>2. mem.load # c /\ mem.states[c].progress = "Started"
    BY <2>1 DEF EarlyInv, Early
  <2>3. \A d \in Loads : mem'.states[d].progress = mem.states[d].progress
    BY <2>1, <2>2 DEF Begun, NewLoad
  <2>4. QED
    BY <1>1, <1>2, <2>1, <2>3 DEF Early
<1>8. ASSUME NEW c \in Loads, Attach(c) PROVE EarlyInv'
  <2>1. PICK to \in {"Unload", "Wait"} :
        /\ mem'.load = mem.load /\ at' = at /\ pc[c] = "Attach" /\ KeepsLoads(mem, mem', c)
        /\ pc' = [pc EXCEPT ![c] = to] /\ (to = "Unload" => mem' = mem)
    BY <1>8, AttachIs
  <2>2. \A d \in Loads : d # c \/ to \in Early => mem'.states[d].progress = mem.states[d].progress
    <3>1. CASE to = "Unload"
      BY <2>1, <3>1
    <3>2. CASE to = "Wait"
      BY <2>1, <3>2 DEF Early, KeepsLoads
    <3>3. QED
      BY <3>1, <3>2
  <2>3. c \in Calls
    BY <1>1
  <2>4. QED
    BY <1>2, <2>1, <2>2, <2>3 DEF Early
<1>9. ASSUME NEW c \in Loads, Unload(c) PROVE EarlyInv'
  <2>1. /\ mem'.load = Nil /\ at' = at /\ pc[c] = "Unload" /\ pc' = [pc EXCEPT ![c] = "Set"]
        /\ \A d \in Loads : mem'.states[d].progress = mem.states[d].progress
    BY <1>9, UnloadIs
  <2>2. QED
    BY <1>1, <1>2, <2>1 DEF Early
<1>10. ASSUME NEW c \in Loads, SetLoad(c) PROVE EarlyInv'
  <2>1. /\ mem'.load = c /\ at' = at /\ pc[c] = "Set" /\ pc' = [pc EXCEPT ![c] = "Fetch"]
        /\ KeepsLoads(mem, mem', c) /\ mem'.states[c].progress = mem.states[c].progress
    BY <1>10, SetLoadIs
  <2>2. pc'[c] = "Fetch" /\ \A d \in Calls \ {c} : pc'[d] = pc[d]
    BY <1>1, <2>1 DEF Types
  <2>3. QED
    BY <1>1, <2>1, <2>2 DEF EarlyInv, Early, Fetching, Session, Login, KeepsLoads
<1>11. ASSUME NEW c \in Loads, LoadGame(c) PROVE EarlyInv'
  <2>1. /\ mem'.load \in {mem.load, Nil} /\ pc[c] = "Fetch" /\ pc' = [pc EXCEPT ![c] = "Wait"]
        /\ KeepsLoads(mem, mem', c)
        /\ at' = at \/ at' = [at EXCEPT ![<<"fetch", c>>] = "Sent"]
    BY <1>11, LoadGameIs
  <2>2. pc'[c] = "Wait" /\ \A d \in Calls \ {c} : pc'[d] = pc[d]
    BY <1>1, <2>1 DEF Types
  <2>3. \A r \in Requests : r # <<"fetch", c>> => at'[r] = at[r]
    BY <2>1 DEF Types
  <2>4. QED
    BY <1>1, <2>1, <2>2, <2>3 DEF EarlyInv, Early, Fetching, Session, Login, KeepsLoads
<1>12. ASSUME NEW c \in Logins, NEW ok \in BOOLEAN, LoginAnswered(c, ok) PROVE EarlyInv'
  <2>1. PICK to : /\ mem'.load = mem.load /\ mem'.states = mem.states /\ pc' = pc
                  /\ Login(c) = "Sent" /\ at' = [at EXCEPT ![<<"login", c>>] = to]
    BY <1>12, LoginAnsweredIs
  <2>2. \A r \in Requests : r # <<"login", c>> => at'[r] = at[r]
    BY <2>1 DEF Types
  <2>3. QED
    BY <1>1, <2>1, <2>2 DEF EarlyInv, Early, Fetching, Session, Login
<1>13. ASSUME NEW c \in Logins, LoginDone(c) PROVE EarlyInv'
  <2>1. PICK f \in Shape :
        /\ f = Fetched(mem, c) /\ pc' = pc /\ Login(c) \in {"Answered", "Resolved"}
        /\ at' = [r \in Requests |->
                     IF r = <<"login", c>> THEN "Done"
                     ELSE IF Waits(c) /\ Asks(mem) /\ r = <<"fetch", seen[c]>> THEN "Sent"
                     ELSE at[r]]
        /\ OnlyTold(f, mem')
    BY <1>13, LoginDoneIs
  <2>2. /\ mem'.load \in {mem.load, Nil}
        /\ \A d \in Loads : d # seen[c] => mem'.states[d] = mem.states[d]
    BY <2>1, FetchedIs DEF OnlyTold
  <2>3. mem'.crash = "No" /\ ~Waits(c) => mem'.states = mem.states
    <3>1. f.crash = "No"
      BY <1>13, LoginDoneIs, <2>1
    <3>2. QED
      BY <2>1, <3>1, FetchedIs DEF OnlyTold
  <2>4. ASSUME NEW d \in Loads, pc[d] \in Early
        PROVE  /\ mem'.states[d].progress = mem.states[d].progress
               /\ Fetching(d)' = Fetching(d) /\ Session(d)' = Session(d)
    <3>1. mem.states[d].progress = "Started"
      BY <2>4 DEF EarlyInv
    <3>2. ~(d = seen[c] /\ Waits(c))
      BY <3>1 DEF Waits
    <3>3. mem'.states[d] = mem.states[d]
      BY <2>2, <2>3, <3>2
    <3>4. <<"fetch", d>> # <<"login", c>> /\ <<"session", d>> # <<"login", c>>
      OBVIOUS
    <3>5. QED
      BY <1>1, <2>1, <3>2, <3>3, <3>4 DEF Fetching, Session
  <2>5. \A d \in Logins : pc[d] \in Early => Login(d)' = Login(d)
    BY <1>1, <2>1 DEF EarlyInv, Login
  <2>6. ASSUME NEW d \in Loads, pc'[d] \in Early
        PROVE  /\ Fetching(d)' = "None" /\ Session(d)' = "None"
               /\ mem'.states[d].progress = "Started"
               /\ pc'[d] # "Fetch" => mem'.load # d
    <3>1. /\ Fetching(d) = "None" /\ Session(d) = "None" /\ mem.states[d].progress = "Started"
          /\ pc[d] # "Fetch" => mem.load # d
      BY <2>1, <2>6 DEF EarlyInv
    <3>2. d # Nil
      BY <1>1
    <3>3. QED
      BY <2>1, <2>2, <2>4, <2>6, <3>1, <3>2
  <2>7. ASSUME NEW d \in Logins, pc'[d] \in Early PROVE Login(d)' = "None"
    BY <2>1, <2>5, <2>7 DEF EarlyInv
  <2>8. QED
    BY <2>6, <2>7 DEF EarlyInv
<1>14. ASSUME NEW c \in Loads, Answering(c) PROVE EarlyInv'
  <2>1. /\ mem'.load \in {mem.load, Nil} /\ pc' = pc
        /\ \A d \in Loads \ {c} : mem'.states[d] = mem.states[d]
        /\ \A r \in Requests : r[2] # c => at'[r] = at[r]
        /\ \E r \in {<<"fetch", c>>, <<"session", c>>} : at[r] # "None"
    BY <1>14 DEF Answering
  <2>2. pc[c] \notin Early
    <3>1. Fetching(c) # "None" \/ Session(c) # "None"
      BY <2>1 DEF Fetching, Session
    <3>2. QED
      BY <3>1 DEF EarlyInv
  <2>3. /\ \A d \in Loads \ {c} : Fetching(d)' = Fetching(d) /\ Session(d)' = Session(d)
        /\ \A d \in Logins : Login(d)' = Login(d)
    BY <1>1, <2>1 DEF Fetching, Session, Login
  <2>4. QED
    BY <1>1, <2>1, <2>2, <2>3 DEF EarlyInv
<1>15. QED
  BY <1>3, <1>4, <1>5, <1>6, <1>7, <1>8, <1>9, <1>10, <1>11, <1>12, <1>13, <1>14, StepIs

(* The stages of the answers to a login. *)
LEMMA AnsweredKept ==
    ASSUME Types, AnsweredInv, Next
    PROVE  AnsweredInv'
<1>1. /\ \A c \in Logins : <<"login", c>> \in Requests /\ c \in Calls
      /\ succeeded \subseteq succeeded'
      /\ \A c \in Loads : c \notin Logins
  BY CallIs, RequestIs, Advances
<1>2. ASSUME \A c \in Logins : Login(c)' = "Answered" => Login(c) = "Answered" \/ c \in succeeded'
      PROVE  AnsweredInv'
  BY <1>1, <1>2 DEF AnsweredInv
<1>3. ASSUME at' = at PROVE AnsweredInv'
  BY <1>2, <1>3 DEF Login
<1>4. CASE \E c \in Calls : Register(c) \/ Wait(c) \/ Return(c)
  BY <1>3, <1>4 DEF Register, Wait, Return
<1>5. ASSUME NEW c \in Logins, BeginLogin(c) PROVE AnsweredInv'
  <2>1. at' = at \/ at' = [at EXCEPT ![<<"login", c>>] = "Sent"]
    BY <1>5, BeginLoginIs
  <2>2. QED
    BY <1>1, <1>2, <2>1 DEF Login, Types
<1>6. ASSUME NEW c \in Loads,
             BeginLoad(c) \/ Attach(c) \/ Unload(c) \/ SetLoad(c) \/ LoadGame(c)
      PROVE  AnsweredInv'
  <2>1. at' = at \/ at' = [at EXCEPT ![<<"fetch", c>>] = "Sent"]
    BY <1>6, LoadGameIs DEF BeginLoad, Attach, Unload, SetLoad
  <2>2. QED
    BY <1>1, <1>2, <2>1 DEF Login, Types
<1>7. ASSUME NEW c \in Logins, NEW ok \in BOOLEAN, LoginAnswered(c, ok) PROVE AnsweredInv'
  <2>1. /\ at' = [at EXCEPT ![<<"login", c>>] = IF ok THEN "Answered" ELSE "Resolved"]
        /\ succeeded' = IF ok THEN succeeded \cup {c} ELSE succeeded
    BY <1>7, LoginAnsweredIs
  <2>2. QED
    BY <1>1, <1>2, <2>1 DEF Login, Types
<1>8. ASSUME NEW c \in Logins, LoginDone(c) PROVE AnsweredInv'
  <2>1. at' = [r \in Requests |->
                 IF r = <<"login", c>> THEN "Done"
                 ELSE IF Waits(c) /\ Asks(mem) /\ r = <<"fetch", seen[c]>> THEN "Sent"
                 ELSE at[r]]
    BY <1>8, LoginDoneIs
  <2>2. QED
    BY <1>1, <1>2, <2>1 DEF Login
<1>9. ASSUME NEW c \in Loads, Answering(c) PROVE AnsweredInv'
  <2>1. \A r \in Requests : r[2] # c => at'[r] = at[r]
    BY <1>9 DEF Answering
  <2>2. QED
    BY <1>1, <1>2, <2>1 DEF Login
<1>10. QED
  BY <1>4, <1>5, <1>6, <1>7, <1>8, <1>9, StepIs

LEMMA WaitsKept ==
    ASSUME Types, DoneInv, Next
    PROVE  WaitsInv'
<1>1. \A c \in Calls : Alone(c)' => Alone(c)
  BY Advances DEF Alone
<1>2. ASSUME waitsOn' = waitsOn, \A c \in Calls : pc'[c] = "Waiting" => pc[c] = "Waiting"
      PROVE  WaitsInv'
  BY <1>1, <1>2 DEF WaitsInv, DoneInv
<1>3. ASSUME NEW c \in Calls, NEW to, pc' = [pc EXCEPT ![c] = to], to # "Waiting", waitsOn' = waitsOn
      PROVE  WaitsInv'
  BY <1>2, <1>3 DEF Types
<1>4. ASSUME NEW c \in Calls, Register(c) PROVE WaitsInv'
  BY <1>3, <1>4 DEF Register
<1>5. ASSUME NEW c \in Calls, Return(c) PROVE WaitsInv'
  <2>1. PICK to \in {"OK", "Failed"} : pc' = [pc EXCEPT ![c] = to] /\ waitsOn' = waitsOn
    BY <1>5 DEF Return
  <2>2. QED
    BY <1>3, <2>1
<1>6. ASSUME NEW c \in Calls, Wait(c) PROVE WaitsInv'
  <2>1. /\ pc[c] = "Wait" /\ pc' = [pc EXCEPT ![c] = "Waiting"]
        /\ waitsOn' = [waitsOn EXCEPT ![c] = mem.channel[KindOf(c)]]
    BY <1>6 DEF Wait
  <2>2. Alone(c) => mem.channel[KindOf(c)] = c
    BY <2>1 DEF DoneInv, CallsIn, CallIn, Ended
  <2>3. ASSUME NEW d \in Calls, Alone(d), pc'[d] = "Waiting" PROVE waitsOn'[d] = d
    <3>1. CASE d = c
      BY <2>1, <2>2, <2>3, <3>1 DEF Types
    <3>2. CASE d # c
      BY <2>1, <2>3, <3>2 DEF Types, DoneInv, WaitsInv
    <3>3. QED
      BY <3>1, <3>2
  <2>4. QED
    BY <1>1, <2>3 DEF WaitsInv
<1>7. ASSUME NEW c \in Logins, BeginLogin(c) PROVE WaitsInv'
  BY <1>3, <1>7, CallIs DEF BeginLogin
<1>8. ASSUME NEW c \in Loads,
             BeginLoad(c) \/ Attach(c) \/ Unload(c) \/ SetLoad(c) \/ LoadGame(c)
      PROVE  WaitsInv'
  <2>1. PICK to \in {"Attach", "Unload", "Wait", "Set", "Fetch"} :
          pc' = [pc EXCEPT ![c] = to] /\ waitsOn' = waitsOn
    BY <1>8 DEF BeginLoad, Attach, Unload, SetLoad, LoadGame
  <2>2. QED
    BY <1>3, <2>1, CallIs
<1>9. ASSUME NEW c \in Logins, (\E ok \in BOOLEAN : LoginAnswered(c, ok)) \/ LoginDone(c)
      PROVE  WaitsInv'
  BY <1>2, <1>9 DEF LoginAnswered, LoginDone
<1>10. ASSUME NEW c \in Loads, Answering(c) PROVE WaitsInv'
  BY <1>2, <1>10 DEF Answering
<1>11. QED
  BY <1>4, <1>5, <1>6, <1>7, <1>8, <1>9, <1>10, StepIs

LEMMA DoneKept == Types /\ (Running => DoneInv) /\ [Next]_vars => (Running => DoneInv)'
<1> SUFFICES ASSUME Types, Running => DoneInv, Next, mem'.crash = "No"
             PROVE  DoneInv'
  <2>1. CASE UNCHANGED vars
    BY <2>1 DEF vars, Running, DoneInv, CallsIn, CallIn, OneEach, EarlyInv, AnsweredInv, WaitsInv,
                Alone, Pending, Fetching, Session, Login
  <2>2. QED
    BY <2>1 DEF Running
<1>1. DoneInv
  BY Runs DEF Running
<1>2. KindsIn(mem') /\ CallsIn(mem, pc, succeeded)' /\ OneEach'
  BY <1>1, CallsKept
<1>3. EarlyInv' /\ AnsweredInv' /\ WaitsInv'
  BY <1>1, EarlyKept, AnsweredKept, WaitsKept DEF DoneInv
<1>4. QED
  BY <1>2, <1>3 DEF DoneInv

LEMMA DoneFirst == Init => DoneInv
<1> SUFFICES ASSUME Init PROVE DoneInv
  OBVIOUS
<1>1. /\ \A k \in Kinds : mem.channel[k] = Nil /\ mem.handle[k] = Nil
      /\ \A c \in Calls : mem.userdata[c] = Nil /\ pc[c] = "Idle"
      /\ mem.closed = {} /\ mem.live = {} /\ mem.load = Nil
      /\ \A c \in Loads : mem.states[c].progress = "Started"
      /\ \A r \in Requests : at[r] = "None"
  BY DEF Init, NewLoad
<1>2. /\ \A c \in Loads : c \in Calls /\ c # Nil /\ Fetching(c) = "None" /\ Session(c) = "None"
      /\ \A c \in Logins : c \in Calls /\ Login(c) = "None"
  BY <1>1, CallIs, RequestIs DEF Fetching, Session, Login
<1>3. KindsIn(mem) /\ CallsIn(mem, pc, succeeded)
  BY <1>1 DEF KindsIn, CallsIn, CallIn, Ended, Early
<1>4. OneEach /\ EarlyInv /\ AnsweredInv /\ WaitsInv
  BY <1>1, <1>2 DEF OneEach, EarlyInv, AnsweredInv, WaitsInv, Pending, Ended
<1>5. QED
  BY <1>3, <1>4 DEF DoneInv

LEMMA OkKept ==
    ASSUME Types, Running => DoneInv, OkMeansDone, Next
    PROVE  OkMeansDone'
<1>1. DoneInv
  BY Runs DEF Running
<1>2. /\ succeeded \subseteq succeeded'
      /\ \A c \in Calls : Alone(c)' => Alone(c)
  BY Advances DEF Alone
<1>3. ASSUME \A c \in Calls : pc'[c] = "OK" /\ Alone(c) => pc[c] = "OK" \/ c \in succeeded
      PROVE  OkMeansDone'
  BY <1>2, <1>3 DEF OkMeansDone, Alone
<1>4. ASSUME NEW c \in Calls, NEW to, pc' = [pc EXCEPT ![c] = to],
             to = "OK" /\ Alone(c) => c \in succeeded
      PROVE  OkMeansDone'
  BY <1>3, <1>4 DEF Types
<1>5. ASSUME NEW c \in Calls, Register(c) \/ Wait(c) PROVE OkMeansDone'
  <2>1. PICK to \in {"Begin", "Waiting"} : pc' = [pc EXCEPT ![c] = to]
    BY <1>5 DEF Register, Wait
  <2>2. QED
    BY <1>4, <2>1
<1>6. ASSUME NEW c \in Calls, Return(c) PROVE OkMeansDone'
  <2>1. /\ pc[c] = "Waiting" /\ waitsOn[c] \in mem.closed
        /\ pc' = [pc EXCEPT ![c] = IF mem.failed[KindOf(c)] THEN "Failed" ELSE "OK"]
    BY <1>6 DEF Return
  <2>2. Alone(c) => waitsOn[c] = c /\ CallIn(mem, pc, succeeded, c)
    BY <1>1, <2>1 DEF DoneInv, WaitsInv, CallsIn
  <2>3. Alone(c) /\ ~mem.failed[KindOf(c)] => c \in succeeded
    BY <2>1, <2>2 DEF CallIn, Ended
  <2>4. QED
    BY <1>4, <2>1, <2>3
<1>7. ASSUME NEW c \in Logins, BeginLogin(c) PROVE OkMeansDone'
  BY <1>4, <1>7, CallIs DEF BeginLogin
<1>8. ASSUME NEW c \in Loads,
             BeginLoad(c) \/ Attach(c) \/ Unload(c) \/ SetLoad(c) \/ LoadGame(c)
      PROVE  OkMeansDone'
  <2>1. PICK to \in {"Attach", "Unload", "Wait", "Set", "Fetch"} : pc' = [pc EXCEPT ![c] = to]
    BY <1>8 DEF BeginLoad, Attach, Unload, SetLoad, LoadGame
  <2>2. QED
    BY <1>4, <2>1, CallIs
<1>9. ASSUME NEW c \in Logins, (\E ok \in BOOLEAN : LoginAnswered(c, ok)) \/ LoginDone(c)
      PROVE  OkMeansDone'
  BY <1>3, <1>9 DEF LoginAnswered, LoginDone
<1>10. ASSUME NEW c \in Loads, Answering(c) PROVE OkMeansDone'
  BY <1>3, <1>10 DEF Answering
<1>11. QED
  BY <1>5, <1>6, <1>7, <1>8, <1>9, <1>10, StepIs

(* A call that returns no error has been done, unless another call of its kind was
   pending with it. *)
THEOREM OkMeansDoneHolds == Spec => []OkMeansDone
<1>1. Init => Types /\ (Running => DoneInv) /\ OkMeansDone
  <2>1. Init => OkMeansDone
    BY DEF Init, OkMeansDone
  <2>2. QED
    BY <2>1, TypesFirst, DoneFirst
<1>2. Types /\ (Running => DoneInv) /\ OkMeansDone /\ [Next]_vars
        => Types' /\ (Running => DoneInv)' /\ OkMeansDone'
  <2>1. OkMeansDone /\ UNCHANGED vars => OkMeansDone'
    BY DEF OkMeansDone, vars
  <2>2. QED
    BY <2>1, TypesKept, DoneKept, OkKept
<1>3. QED
  BY <1>1, <1>2, PTL DEF Spec
-----------------------------------------------------------------------------
(***************************************************************************
 The steps of the answers to a load, one by one.
 ***************************************************************************)
LEMMA RequestMoves ==
    ASSUME Types, NEW c \in Loads, NEW r \in {<<"fetch", c>>, <<"session", c>>}, NEW to,
           at' = [at EXCEPT ![r] = to]
    PROVE  /\ r = <<"fetch", c>> => Fetching(c)' = to /\ Session(c)' = Session(c)
           /\ r = <<"session", c>> => Session(c)' = to /\ Fetching(c)' = Fetching(c)
  BY RequestIs DEF Types, Fetching, Session

LEMMA EndAsyncIs ==
    ASSUME Types, NEW c \in Loads, NEW r \in {<<"fetch", c>>, <<"session", c>>}, EndAsync(r)
    PROVE  /\ at[r] = "Sent" /\ mem'.crash # "Panic" /\ emptied' = emptied
           /\ mem'.crash = "No" =>
                IF mem.states[c].aborted
                THEN Aborts(mem, mem', c) /\ at' = [at EXCEPT ![r] = "Done"]
                ELSE mem' = mem /\ at' = [at EXCEPT ![r] = "Answered"]
<1>1. mem \in Shape /\ r[2] = c /\ mem.crash = "No"
  BY DEF Types, EndAsync, Running
<1>2. at[r] = "Sent" /\ emptied' = emptied
  BY DEF EndAsync, history
<1>3. CASE ~mem.states[c].live
  <2>1. mem' = Crash(mem, "Freed")
    BY <1>1, <1>3 DEF EndAsync
  <2>2. QED
    BY <1>1, <1>2, <2>1, CrashIs
<1>4. CASE mem.states[c].live /\ mem.states[c].aborted
  <2>1. mem' = LoadAborted(mem, c) /\ at' = [at EXCEPT ![r] = "Done"]
    BY <1>1, <1>4 DEF EndAsync
  <2>2. QED
    BY <1>1, <1>2, <1>4, <2>1, LoadAbortedIs
<1>5. CASE mem.states[c].live /\ ~mem.states[c].aborted
  <2>1. mem' = mem /\ at' = [at EXCEPT ![r] = "Answered"]
    BY <1>1, <1>5 DEF EndAsync
  <2>2. QED
    BY <1>1, <1>2, <1>5, <2>1
<1>6. QED
  BY <1>3, <1>4, <1>5

LEMMA AnswerFailsIs ==
    ASSUME Types, NEW c \in Loads, NEW r \in {<<"fetch", c>>, <<"session", c>>}, AnswerFails(r)
    PROVE  /\ at[r] = "Answered" /\ at' = [at EXCEPT ![r] = "Done"] /\ emptied' = emptied
           /\ mem'.crash = "No" =>
                /\ Reports(mem, mem', c, FALSE)
                /\ mem'.load = IF mem.load = c THEN Nil ELSE mem.load
                /\ mem'.states[c].progress = "Aborted"
                /\ mem'.states[c].outstanding = Counted1(mem.states[c].outstanding)
           /\ mem'.crash = "Panic" => LateLoad(mem, c)
<1>1. mem \in Shape /\ r[2] = c /\ mem.crash = "No"
  BY DEF Types, AnswerFails, Goes, Running
<1> DEFINE e == EndLoad(mem, c)
<1>2. /\ at[r] = "Answered" /\ at' = [at EXCEPT ![r] = "Done"] /\ emptied' = emptied
      /\ mem' = LoadError(e, c)
  BY <1>1 DEF AnswerFails, Goes, history
<1>3. /\ e \in Shape /\ KeepsLoads(mem, e, c) /\ e.load = mem.load
      /\ e.crash = "No" => EndsLoad(mem, e, c)
      /\ e.crash = "Panic" => LateLoad(mem, c)
  BY <1>1, EndLoadIs
<1> HIDE DEF e
<1>4. /\ mem' \in Shape
      /\ mem'.crash = "No" => e.crash = "No" /\ Errs(e, mem', c)
      /\ mem'.crash = "Panic" => e.crash = "Panic" \/ (e.states[c].live /\ LateLoad(e, c))
      /\ e.crash # "No" => mem'.crash = e.crash
  BY <1>2, <1>3, LoadErrorIs
<1>5. e.states[c].live /\ e.crash = "No" => Quiet(mem, e)
  BY <1>3 DEF EndsLoad, EndsUntold
<1>6. Quiet(mem, e) => /\ LateLoad(e, c) => LateLoad(mem, c)
                       /\ Reports(e, mem', c, FALSE) => Reports(mem, mem', c, FALSE)
  BY <1>3 DEF Quiet, LateLoad, Late, Reports, Tells, KeepsLoads, KeepsCalls
<1>7. ASSUME mem'.crash = "No"
      PROVE  /\ Reports(mem, mem', c, FALSE)
             /\ mem'.load = IF mem.load = c THEN Nil ELSE mem.load
             /\ mem'.states[c].progress = "Aborted"
             /\ mem'.states[c].outstanding = Counted1(mem.states[c].outstanding)
  BY <1>3, <1>4, <1>5, <1>6, <1>7 DEF Errs, EndsLoad
<1>8. mem'.crash = "Panic" => LateLoad(mem, c)
  BY <1>3, <1>4, <1>5, <1>6
<1>9. QED
  BY <1>2, <1>7, <1>8

(* The answers that only end their request. *)
LEMMA FetchStaleIs ==
    ASSUME Types, NEW c \in Loads, FetchStale(c)
    PROVE  /\ Fetching(c) = "Answered" /\ at' = [at EXCEPT ![<<"fetch", c>>] = "Done"]
           /\ Stale(mem, c) /\ emptied' = emptied
           /\ mem'.crash = "No" => EndsLoad(mem, mem', c)
           /\ mem'.crash = "Panic" => LateLoad(mem, c)
<1>1. mem \in Shape /\ mem.crash = "No" /\ mem' = EndLoad(mem, c)
  BY DEF Types, FetchStale, Goes, Running
<1>2. /\ Fetching(c) = "Answered" /\ at' = [at EXCEPT ![<<"fetch", c>>] = "Done"]
      /\ Stale(mem, c) /\ emptied' = emptied
  BY DEF FetchStale, Goes, history, Fetching
<1>3. QED
  BY <1>1, <1>2, EndLoadIs

(* The load is current: nothing is told. *)
GoesOn(n, c, x) ==
    /\ Quiet(mem, n) /\ n.load = mem.load /\ mem.states[c].live /\ n.states[c].live
    /\ n.states[c].progress = mem.states[c].progress
    /\ n.states[c].callback = mem.states[c].callback
    /\ n.states[c].aborted = mem.states[c].aborted
    /\ n.states[c].outstanding = x

LEMMA EndCurrent ==
    ASSUME Types, NEW c \in Loads, mem.crash = "No", ~Stale(mem, c), NEW n, n = EndLoad(mem, c)
    PROVE  /\ n \in Shape /\ n.crash # "Panic"
           /\ n.crash = "No" => GoesOn(n, c, Counted1(mem.states[c].outstanding))
<1>1. /\ n \in Shape /\ KeepsLoads(mem, n, c) /\ n.load = mem.load
      /\ n.crash = "No" => EndsLoad(mem, n, c)
      /\ n.crash = "Panic" => EndsUntold(mem, c)
  BY EndLoadIs DEF Types
<1>2. QED
  BY <1>1 DEF GoesOn, EndsLoad, EndsUntold, LastOf, KeepsLoads

LEMMA FetchUnknownIs ==
    ASSUME Types, NEW c \in Loads, FetchUnknown(c)
    PROVE  /\ Fetching(c) = "Answered" /\ at' = [at EXCEPT ![<<"fetch", c>>] = "Resolved"]
           /\ mem.load = c /\ emptied' = emptied /\ mem'.crash # "Panic"
           /\ mem'.crash = "No" => GoesOn(mem', c, Counted1(mem.states[c].outstanding))
<1> DEFINE e == EndLoad(mem, c)
<1>1. mem.crash = "No" /\ mem' = [e EXCEPT !.noGame = @ \cup {RomOf[c]}]
  BY DEF FetchUnknown, Goes, Running
<1>2. /\ Fetching(c) = "Answered" /\ at' = [at EXCEPT ![<<"fetch", c>>] = "Resolved"]
      /\ mem.load = c /\ ~Stale(mem, c) /\ emptied' = emptied
  BY DEF FetchUnknown, Goes, history, Fetching, Stale
<1>3. /\ e \in Shape /\ e.crash # "Panic"
      /\ e.crash = "No" => GoesOn(e, c, Counted1(mem.states[c].outstanding))
  BY <1>1, <1>2, EndCurrent
<1> HIDE DEF e
<1>4. /\ mem'.crash = e.crash /\ mem'.states = e.states /\ mem'.load = e.load
      /\ Quiet(e, mem')
  BY <1>1, <1>3 DEF Shape, Quiet
<1>5. QED
  BY <1>2, <1>3, <1>4 DEF GoesOn, Quiet

LEMMA FetchKnownIs ==
    ASSUME Types, NEW c \in Loads, FetchKnown(c)
    PROVE  /\ Fetching(c) = "Answered" /\ Fetching(c)' = "Processing" /\ Session(c)' = "Sent"
           /\ mem.load = c /\ emptied' = emptied /\ mem'.crash # "Panic"
           /\ mem'.crash = "No" => GoesOn(mem', c, Counted1(mem.states[c].outstanding) + 2)
<1> DEFINE e == EndLoad(mem, c)
<1>1. mem.crash = "No" /\ mem' = [e EXCEPT !.states[c].outstanding = @ + 2]
  BY DEF FetchKnown, Running
<1>2. /\ Fetching(c) = "Answered" /\ mem.load = c /\ ~Stale(mem, c) /\ emptied' = emptied
      /\ at' = [at EXCEPT ![<<"fetch", c>>] = "Processing", ![<<"session", c>>] = "Sent"]
  BY DEF FetchKnown, history, Fetching, Stale
<1>3. Fetching(c)' = "Processing" /\ Session(c)' = "Sent"
  BY <1>2, RequestIs DEF Types, Fetching, Session
<1>4. /\ e \in Shape /\ e.crash # "Panic"
      /\ e.crash = "No" => GoesOn(e, c, Counted1(mem.states[c].outstanding))
  BY <1>1, <1>2, EndCurrent
<1> HIDE DEF e
<1>5. e.states \in [Loads -> AnyLoadState] /\ e.states[c] \in AnyLoadState
  BY <1>4 DEF Shape
<1> DEFINE st == [e.states[c] EXCEPT !.outstanding = @ + 2]
<1>6. mem' = [e EXCEPT !.states = [e.states EXCEPT ![c] = st]]
  BY <1>1, <1>4 DEF Shape
<1>7. /\ st.live = e.states[c].live /\ st.progress = e.states[c].progress
      /\ st.callback = e.states[c].callback /\ st.aborted = e.states[c].aborted
      /\ st.outstanding = e.states[c].outstanding + 2
  BY <1>5 DEF AnyLoadState
<1> HIDE DEF st
<1>8. /\ mem'.crash = e.crash /\ mem'.load = e.load /\ Quiet(e, mem')
      /\ mem'.states[c] = st
  BY <1>4, <1>5, <1>6 DEF Shape, Quiet
<1>9. QED
  BY <1>2, <1>3, <1>4, <1>7, <1>8 DEF GoesOn, Quiet

LEMMA SetUnknownIs ==
    ASSUME Types, NEW c \in Loads, SetUnknown(c)
    PROVE  /\ Fetching(c) = "Resolved" /\ at' = [at EXCEPT ![<<"fetch", c>>] = "Done"]
           /\ emptied' = emptied
           /\ mem'.crash = "No" => Errs(mem, mem', c)
           /\ mem'.crash = "Panic" => LateLoad(mem, c)
<1>1. mem \in Shape /\ mem.crash = "No" /\ mem' = UnknownGame(mem, c)
  BY DEF Types, SetUnknown, Goes, Running
<1>2. /\ Fetching(c) = "Resolved" /\ at' = [at EXCEPT ![<<"fetch", c>>] = "Done"]
      /\ emptied' = emptied
  BY DEF SetUnknown, Goes, history, Fetching
<1>3. QED
  BY <1>1, <1>2, UnknownGameIs

(* Sets were found; or there are none, and the load is told. *)
LEMMA ProcessedIs ==
    ASSUME Types, NEW c \in Loads, NEW found \in BOOLEAN, Processed(c, found)
    PROVE  /\ Fetching(c) = "Processing"
           /\ emptied' = IF found THEN emptied ELSE emptied \cup {c}
           /\ mem'.crash = "No" /\ found =>
                /\ EndsLoad(mem, mem', c)
                /\ at' = [at EXCEPT ![<<"fetch", c>>] =
                             IF ~Stale(mem, c) /\ mem'.states[c].outstanding = 0 THEN "Activate" ELSE "Done"]
           /\ mem'.crash = "No" /\ ~found =>
                /\ Reports(mem, mem', c, FALSE)
                /\ mem'.load = IF mem.load = c THEN Nil ELSE mem.load
                /\ mem'.states[c].progress = "Aborted"
                /\ mem'.states[c].outstanding = Counted1(mem.states[c].outstanding)
                /\ at' = [at EXCEPT ![<<"fetch", c>>] = "Done"]
           /\ mem'.crash = "Panic" /\ found => LateLoad(mem, c) /\ EndsUntold(mem, c)
<1>1. PICK l : /\ l = (IF found THEN mem ELSE LoadError(mem, c)) /\ mem' = EndLoad(l, c)
               /\ at' = [at EXCEPT ![<<"fetch", c>>] =
                            IF ~Stale(l, c) /\ mem'.states[c].outstanding = 0 THEN "Activate" ELSE "Done"]
  BY DEF Processed
<1>2. /\ mem \in Shape /\ mem.crash = "No" /\ Fetching(c) = "Processing"
      /\ emptied' = (IF found THEN emptied ELSE emptied \cup {c}) /\ c # Nil
  BY CallIs DEF Types, Processed, Running, Fetching
<1>3. CASE found
  <2>1. l = mem
    BY <1>1, <1>3
  <2>2. /\ mem'.crash = "No" => EndsLoad(mem, mem', c)
        /\ mem'.crash = "Panic" => LateLoad(mem, c) /\ EndsUntold(mem, c)
    BY <1>1, <1>2, <2>1, EndLoadIs
  <2>3. QED
    BY <1>1, <1>2, <1>3, <2>1, <2>2
<1>4. CASE ~found
  <2>1. l = LoadError(mem, c)
    BY <1>1, <1>4
  <2>2. /\ l \in Shape /\ KeepsLoads(mem, l, c)
        /\ l.crash = "No" => Errs(mem, l, c)
    BY <1>2, <2>1, LoadErrorIs
  <2>3. /\ mem' \in Shape /\ KeepsLoads(l, mem', c) /\ mem'.load = l.load
        /\ mem'.crash = "No" => l.crash = "No" /\ EndsLoad(l, mem', c)
    BY <1>1, <2>2, EndLoadIs
  <2>4. ASSUME mem'.crash = "No"
        PROVE  /\ Reports(mem, mem', c, FALSE)
               /\ mem'.load = IF mem.load = c THEN Nil ELSE mem.load
               /\ mem'.states[c].progress = "Aborted"
               /\ mem'.states[c].outstanding = Counted1(mem.states[c].outstanding)
               /\ at' = [at EXCEPT ![<<"fetch", c>>] = "Done"]
    <3>1. Errs(mem, l, c) /\ EndsLoad(l, mem', c)
      BY <2>2, <2>3, <2>4
    <3>2. Quiet(l, mem')
      BY <3>1 DEF Errs, EndsLoad, EndsUntold
    <3>3. Reports(mem, mem', c, FALSE)
      BY <3>1, <3>2 DEF Errs, Reports, Tells, Quiet
    <3>4. Stale(l, c)
      BY <1>2, <3>1 DEF Errs, Stale
    <3>5. QED
      BY <1>1, <2>3, <3>1, <3>3, <3>4 DEF Errs, EndsLoad
  <2>5. QED
    BY <1>2, <1>4, <2>4
<1>5. QED
  BY <1>3, <1>4

LEMMA SessionStartedIs ==
    ASSUME Types, NEW c \in Loads, SessionStarted(c)
    PROVE  /\ Session(c) = "Answered" /\ emptied' = emptied
           /\ mem'.crash = "No" =>
                /\ EndsLoad(mem, mem', c)
                /\ at' = [at EXCEPT ![<<"session", c>>] =
                             IF Stale(mem, c) THEN "Done"
                             ELSE IF mem'.states[c].outstanding = 0 THEN "Activate" ELSE "Store"]
           /\ mem'.crash = "Panic" => LateLoad(mem, c)
<1>1. mem \in Shape /\ mem.crash = "No" /\ mem' = EndLoad(mem, c)
  BY DEF Types, SessionStarted, Running
<1>2. /\ Session(c) = "Answered" /\ emptied' = emptied
      /\ at' = [at EXCEPT ![<<"session", c>>] =
                   IF Stale(mem, c) THEN "Done"
                   ELSE IF mem'.states[c].outstanding = 0 THEN "Activate" ELSE "Store"]
  BY DEF SessionStarted, history, Session
<1>3. QED
  BY <1>1, <1>2, EndLoadIs

LEMMA StoreSessionIs ==
    ASSUME Types, NEW c \in Loads, StoreSession(c)
    PROVE  /\ Session(c) = "Store" /\ at' = [at EXCEPT ![<<"session", c>>] = "Done"]
           /\ emptied' = emptied /\ mem'.crash # "Panic"
           /\ mem'.crash = "No" => GoesOn(mem', c, mem.states[c].outstanding)
<1>1. /\ mem \in Shape /\ mem.crash = "No" /\ Session(c) = "Store"
      /\ at' = [at EXCEPT ![<<"session", c>>] = "Done"] /\ emptied' = emptied
  BY DEF Types, StoreSession, Goes, Running, Session, history
<1>2. CASE ~mem.states[c].live
  <2>1. mem' = Crash(mem, "Freed")
    BY <1>2 DEF StoreSession
  <2>2. QED
    BY <1>1, <2>1, CrashIs
<1>3. CASE mem.states[c].live
  <2> DEFINE st == [mem.states[c] EXCEPT !.response = TRUE]
  <2>1. mem' = [mem EXCEPT !.states = [mem.states EXCEPT ![c] = st]]
    BY <1>3 DEF StoreSession
  <2>2. mem.states \in [Loads -> AnyLoadState] /\ mem.states[c] \in AnyLoadState
    BY <1>1 DEF Shape
  <2>3. /\ st.live = mem.states[c].live /\ st.progress = mem.states[c].progress
        /\ st.callback = mem.states[c].callback /\ st.aborted = mem.states[c].aborted
        /\ st.outstanding = mem.states[c].outstanding
    BY <2>2 DEF AnyLoadState
  <2> HIDE DEF st
  <2>4. /\ mem'.crash = mem.crash /\ mem'.load = mem.load /\ Quiet(mem, mem')
        /\ mem'.states[c] = st
    BY <1>1, <2>1, <2>2 DEF Shape, Quiet
  <2>5. QED
    BY <1>1, <1>3, <2>3, <2>4 DEF GoesOn
<1>4. QED
  BY <1>2, <1>3

LEMMA ActivateIs ==
    ASSUME Types, NEW c \in Loads, NEW r \in {<<"fetch", c>>, <<"session", c>>}, Activate(r)
    PROVE  /\ at[r] = "Activate" /\ emptied' = emptied
           /\ mem'.crash = "No" =>
                \/ Drops(mem, mem', c, FALSE) /\ at' = [at EXCEPT ![r] = "Done"]
                \/ /\ mem.load = c /\ at' = [at EXCEPT ![r] = "Enable"]
                   /\ Quiet(mem, mem') /\ mem'.load = c
                   /\ mem'.states[c].live = mem.states[c].live
                   /\ mem'.states[c].callback = mem.states[c].callback
                   /\ mem'.states[c].aborted = mem.states[c].aborted
                   /\ mem'.states[c].outstanding = mem.states[c].outstanding
                   /\ mem'.states[c].progress = "Done"
           /\ mem'.crash = "Panic" => LateLoad(mem, c)
<1>1. /\ mem \in Shape /\ r[2] = c /\ mem.crash = "No" /\ at[r] = "Activate" /\ emptied' = emptied
      /\ FALSE \in BOOLEAN
  BY DEF Types, Activate, Running, history
<1>2. \/ mem' = NotActive(mem, c) /\ at' = [at EXCEPT ![r] = "Done"]
      \/ mem' = Dropped(mem, c, FALSE) /\ at' = [at EXCEPT ![r] = "Done"]
      \/ /\ mem.load = c /\ at' = [at EXCEPT ![r] = "Enable"]
         /\ mem' = [mem EXCEPT !.states[c].progress = "Done", !.game = c]
  BY <1>1 DEF Activate, Stale, Dropped
<1>3. CASE mem' = NotActive(mem, c) /\ at' = [at EXCEPT ![r] = "Done"]
  BY <1>1, <1>3, NotActiveIs
<1>4. CASE mem' = Dropped(mem, c, FALSE) /\ at' = [at EXCEPT ![r] = "Done"]
  BY <1>1, <1>4, DropIs
<1>5. CASE /\ mem.load = c /\ at' = [at EXCEPT ![r] = "Enable"]
           /\ mem' = [mem EXCEPT !.states[c].progress = "Done", !.game = c]
  <2> DEFINE st == [mem.states[c] EXCEPT !.progress = "Done"]
  <2>1. mem' = [mem EXCEPT !.states = [mem.states EXCEPT ![c] = st], !.game = c]
    BY <1>5
  <2>2. mem.states \in [Loads -> AnyLoadState] /\ mem.states[c] \in AnyLoadState
    BY <1>1 DEF Shape
  <2>3. /\ st.live = mem.states[c].live /\ st.progress = "Done"
        /\ st.callback = mem.states[c].callback /\ st.aborted = mem.states[c].aborted
        /\ st.outstanding = mem.states[c].outstanding
    BY <2>2 DEF AnyLoadState
  <2> HIDE DEF st
  <2>4. /\ mem'.crash = mem.crash /\ mem'.load = mem.load /\ Quiet(mem, mem')
        /\ mem'.states[c] = st
    BY <1>1, <2>1, <2>2 DEF Shape, Quiet
  <2>5. QED
    BY <1>1, <1>5, <2>3, <2>4
<1>6. QED
  BY <1>2, <1>3, <1>4, <1>5

LEMMA EnableIs ==
    ASSUME Types, NEW c \in Loads, NEW r \in {<<"fetch", c>>, <<"session", c>>}, Enable(r)
    PROVE  /\ at[r] = "Enable" /\ emptied' = emptied
           /\ mem'.crash = "No" =>
                \/ Drops(mem, mem', c, FALSE) /\ at' = [at EXCEPT ![r] = "Done"] /\ mem.load # c
                \/ /\ mem.load = c /\ at' = [at EXCEPT ![r] = "Finish"]
                   /\ Quiet(mem, mem') /\ mem'.load = Nil /\ mem'.states = mem.states
           /\ mem'.crash = "Panic" => LateLoad(mem, c)
<1>1. /\ mem \in Shape /\ r[2] = c /\ mem.crash = "No" /\ at[r] = "Enable" /\ emptied' = emptied
  BY DEF Types, Enable, Running, history
<1>2. \/ mem' = Crash(mem, "Freed")
      \/ mem' = NotActive(mem, c) /\ at' = [at EXCEPT ![r] = "Done"] /\ mem.load # c
      \/ mem.load = c /\ at' = [at EXCEPT ![r] = "Finish"] /\ mem' = [mem EXCEPT !.load = Nil]
  BY <1>1 DEF Enable, Stale
<1>3. CASE mem' = Crash(mem, "Freed")
  BY <1>1, <1>3, CrashIs
<1>4. CASE mem' = NotActive(mem, c) /\ at' = [at EXCEPT ![r] = "Done"] /\ mem.load # c
  BY <1>1, <1>4, NotActiveIs
<1>5. CASE mem.load = c /\ at' = [at EXCEPT ![r] = "Finish"] /\ mem' = [mem EXCEPT !.load = Nil]
  BY <1>1, <1>5 DEF Shape, Quiet
<1>6. QED
  BY <1>2, <1>3, <1>4, <1>5

LEMMA FinishStepIs ==
    ASSUME Types, NEW c \in Loads, NEW r \in {<<"fetch", c>>, <<"session", c>>}, Finish(r)
    PROVE  /\ at[r] = "Finish" /\ at' = [at EXCEPT ![r] = "Done"] /\ emptied' = emptied
           /\ mem'.crash = "No" => Drops(mem, mem', c, TRUE)
           /\ mem'.crash = "Panic" => LateLoad(mem, c)
<1>1. /\ mem \in Shape /\ r[2] = c /\ mem.crash = "No" /\ at[r] = "Finish" /\ emptied' = emptied
      /\ at' = [at EXCEPT ![r] = "Done"]
  BY DEF Types, Finish, Goes, Running, history
<1>2. mem' = Crash(mem, "Freed") \/ mem' = Finished(mem, c)
  BY <1>1 DEF Finish, Finished
<1>3. CASE mem' = Crash(mem, "Freed")
  BY <1>1, <1>3, CrashIs
<1>4. CASE mem' = Finished(mem, c)
  BY <1>1, <1>4, FinishIs
<1>5. QED
  BY <1>2, <1>3, <1>4
-----------------------------------------------------------------------------
(***************************************************************************
 The requests of a load, and how many of them are counted.
 ***************************************************************************)
Ending == {"Activate", "Enable", "Finish"}
One(b) == IF b THEN 1 ELSE 0
FetchOut(f) == f \in {"Sent", "Answered", "Processing"}
SessionOut(s) == s \in {"Sent", "Answered"}

(* f and s tell where the requests of a load are, p how far the load is, o how many
   are counted.  The session is asked for when the sets have come, and of the two
   requests the one that ends last activates the game. *)
RequestIn(f, s, p, o) ==
    /\ p = "AwaitLogin" => f = "None"
    /\ f \in {"None", "Sent", "Answered", "Resolved"} => s = "None"
    /\ f = "Processing" => s # "None"
    /\ f \in Ending => s \in {"Store", "Done"}
    /\ s \in Ending => f = "Done"
    /\ s \notin {"Resolved", "Processing"} /\ f # "Store"
    /\ o = One(FetchOut(f)) + One(SessionOut(s))

RequestOf(m, c) ==
    RequestIn(Fetching(c), Session(c), m.states[c].progress, m.states[c].outstanding)

RequestInv == \A c \in Loads : RequestOf(mem, c)

LEMMA CountOf ==
    ASSUME NEW f, NEW s, NEW o, o = One(FetchOut(f)) + One(SessionOut(s))
    PROVE  /\ One(FALSE) = 0 /\ One(TRUE) = 1 /\ o \in Nat
           /\ o = 0 <=> ~FetchOut(f) /\ ~SessionOut(s)
           /\ FetchOut(f) => Counted1(o) = One(FALSE) + One(SessionOut(s))
           /\ SessionOut(s) => Counted1(o) = One(FetchOut(f)) + One(FALSE)
<1>1. CASE FetchOut(f) /\ SessionOut(s)
  BY <1>1 DEF One, Counted1
<1>2. CASE FetchOut(f) /\ ~SessionOut(s)
  BY <1>2 DEF One, Counted1
<1>3. CASE ~FetchOut(f) /\ SessionOut(s)
  BY <1>3 DEF One, Counted1
<1>4. CASE ~FetchOut(f) /\ ~SessionOut(s)
  BY <1>4 DEF One, Counted1
<1>5. QED
  BY <1>1, <1>2, <1>3, <1>4

(* What is left of a load when one of its requests has been answered. *)
LEMMA FetchLeaves ==
    ASSUME NEW f \in Stages, NEW s \in Stages, NEW p, NEW o, RequestIn(f, s, p, o), FetchOut(f),
           NEW p2 \in {p, "Aborted"}
    PROVE  /\ RequestIn("Done", s, p2, Counted1(o))
           /\ f = "Answered" => RequestIn("Resolved", s, p2, Counted1(o))
           /\ f = "Sent" => RequestIn("Answered", s, p2, o)
           /\ f = "Processing" /\ Counted1(o) = 0 => RequestIn("Activate", s, p2, 0)
<1>1. /\ Counted1(o) = One(FALSE) + One(SessionOut(s)) /\ p # "AwaitLogin"
      /\ o = One(TRUE) + One(SessionOut(s))
  BY CountOf DEF RequestIn, FetchOut
<1>2. /\ ~FetchOut("Done") /\ ~FetchOut("Resolved") /\ ~FetchOut("Activate") /\ FetchOut("Answered")
      /\ FetchOut(f) = TRUE /\ FetchOut("Done") = FALSE /\ FetchOut("Resolved") = FALSE
      /\ FetchOut("Activate") = FALSE /\ FetchOut("Answered") = TRUE
  BY DEF FetchOut
<1>3. Counted1(o) = 0 => ~SessionOut(s)
  BY <1>1, <1>2, CountOf
<1>4. RequestIn("Done", s, p2, Counted1(o))
  BY <1>1, <1>2 DEF RequestIn, Ending
<1>5. ASSUME f = "Answered" PROVE RequestIn("Resolved", s, p2, Counted1(o))
  BY <1>1, <1>2, <1>5 DEF RequestIn, Ending
<1>6. ASSUME f = "Sent" PROVE RequestIn("Answered", s, p2, o)
  BY <1>1, <1>2, <1>6 DEF RequestIn, Ending
<1>7. ASSUME f = "Processing", Counted1(o) = 0 PROVE RequestIn("Activate", s, p2, 0)
  <2>1. s \in {"Store", "Done"}
    BY <1>3, <1>7 DEF RequestIn, Ending, Stages, SessionOut
  <2>2. QED
    BY <1>1, <1>2, <1>7, <2>1 DEF RequestIn, Ending
<1>8. QED
  BY <1>4, <1>5, <1>6, <1>7

LEMMA SessionLeaves ==
    ASSUME NEW f \in Stages, NEW s \in Stages, NEW p, NEW o, RequestIn(f, s, p, o), SessionOut(s),
           NEW p2 \in {p, "Aborted"}
    PROVE  /\ RequestIn(f, "Done", p2, Counted1(o))
           /\ s = "Answered" => RequestIn(f, "Store", p2, Counted1(o))
           /\ s = "Sent" => RequestIn(f, "Answered", p2, o)
           /\ s = "Answered" /\ Counted1(o) = 0 => RequestIn(f, "Activate", p2, 0)
<1>1. /\ Counted1(o) = One(FetchOut(f)) + One(FALSE) /\ p # "AwaitLogin"
      /\ o = One(FetchOut(f)) + One(TRUE) /\ f \in {"Processing", "Done"}
  BY CountOf DEF RequestIn, SessionOut, Ending, Stages
<1>2. /\ SessionOut(s) = TRUE /\ SessionOut("Done") = FALSE /\ SessionOut("Store") = FALSE
      /\ SessionOut("Activate") = FALSE /\ SessionOut("Answered") = TRUE
  BY DEF SessionOut
<1>3. Counted1(o) = 0 => f = "Done"
  BY <1>1, CountOf DEF FetchOut, One
<1>4. RequestIn(f, "Done", p2, Counted1(o))
  BY <1>1, <1>2 DEF RequestIn, Ending
<1>5. ASSUME s = "Answered" PROVE RequestIn(f, "Store", p2, Counted1(o))
  BY <1>1, <1>2, <1>5 DEF RequestIn, Ending
<1>6. ASSUME s = "Sent" PROVE RequestIn(f, "Answered", p2, o)
  BY <1>1, <1>2, <1>6 DEF RequestIn, Ending
<1>7. ASSUME s = "Answered", Counted1(o) = 0 PROVE RequestIn(f, "Activate", p2, 0)
  BY <1>1, <1>2, <1>3, <1>7 DEF RequestIn, Ending
<1>8. QED
  BY <1>4, <1>5, <1>6, <1>7

LEMMA RequestFirst == Init => RequestInv
<1> SUFFICES ASSUME Init, NEW c \in Loads PROVE RequestOf(mem, c)
  BY DEF RequestInv
<1>1. /\ Fetching(c) = "None" /\ Session(c) = "None"
      /\ mem.states[c].progress = "Started" /\ mem.states[c].outstanding = 0
  BY RequestIs DEF Init, NewLoad, Fetching, Session
<1>2. QED
  BY <1>1 DEF RequestOf, RequestIn, One, Ending, FetchOut, SessionOut

(* The answers of a load. *)
LEMMA AnswerCounted ==
    ASSUME Types, RequestInv, NEW c \in Loads, Answering(c), AnswerOf(c), mem'.crash = "No"
    PROVE  RequestOf(mem, c)'
<1>1. PICK f, s, p, o :
        f = Fetching(c) /\ s = Session(c) /\ p = mem.states[c].progress /\ o = mem.states[c].outstanding
  OBVIOUS
<1>2. PICK f2, s2, p2, o2 :
        /\ f2 = Fetching(c)' /\ s2 = Session(c)'
        /\ p2 = mem'.states[c].progress /\ o2 = mem'.states[c].outstanding
  OBVIOUS
<1>3. /\ RequestIn(f, s, p, o) /\ o \in Nat /\ f \in Stages /\ s \in Stages
      /\ f = at[<<"fetch", c>>] /\ s = at[<<"session", c>>]
  BY <1>1, RequestIs DEF RequestInv, RequestOf, Types, Shape, AnyLoadState, Fetching, Session
<1>4. SUFFICES RequestIn(f2, s2, p2, o2)
  BY <1>2 DEF RequestOf
<1>5. ASSUME NEW r \in {<<"fetch", c>>, <<"session", c>>}, NEW to, at' = [at EXCEPT ![r] = to]
      PROVE  \/ f2 = to /\ s2 = s /\ at[r] = f /\ r = <<"fetch", c>>
             \/ s2 = to /\ f2 = f /\ at[r] = s /\ r = <<"session", c>>
  BY <1>1, <1>2, <1>3, <1>5, RequestMoves
<1>6. ASSUME NEW to, at' = [at EXCEPT ![<<"session", c>>] = to] PROVE s2 = to /\ f2 = f
  BY <1>1, <1>2, <1>6, RequestMoves
<1>7. ASSUME NEW r \in {<<"fetch", c>>, <<"session", c>>}, EndAsync(r)
      PROVE  RequestIn(f2, s2, p2, o2)
  <2>1. /\ at[r] = "Sent"
        /\ IF mem.states[c].aborted
           THEN Aborts(mem, mem', c) /\ at' = [at EXCEPT ![r] = "Done"]
           ELSE mem' = mem /\ at' = [at EXCEPT ![r] = "Answered"]
    BY <1>7, EndAsyncIs
  <2>2. CASE mem.states[c].aborted
    <3>1. p2 = "Aborted" /\ o2 = Counted1(o) /\ at' = [at EXCEPT ![r] = "Done"]
      BY <1>1, <1>2, <2>1, <2>2 DEF Aborts
    <3>2. CASE r = <<"fetch", c>> /\ f2 = "Done" /\ s2 = s /\ f = "Sent"
      BY <1>3, <3>1, <3>2, FetchLeaves DEF FetchOut
    <3>3. CASE r = <<"session", c>> /\ s2 = "Done" /\ f2 = f /\ s = "Sent"
      BY <1>3, <3>1, <3>3, SessionLeaves DEF SessionOut
    <3>4. QED
      BY <1>5, <2>1, <3>1, <3>2, <3>3
  <2>3. CASE ~mem.states[c].aborted
    <3>1. p2 = p /\ o2 = o /\ at' = [at EXCEPT ![r] = "Answered"]
      BY <1>1, <1>2, <2>1, <2>3
    <3>2. CASE r = <<"fetch", c>> /\ f2 = "Answered" /\ s2 = s /\ f = "Sent"
      BY <1>3, <3>1, <3>2, FetchLeaves DEF FetchOut
    <3>3. CASE r = <<"session", c>> /\ s2 = "Answered" /\ f2 = f /\ s = "Sent"
      BY <1>3, <3>1, <3>3, SessionLeaves DEF SessionOut
    <3>4. QED
      BY <1>5, <2>1, <3>1, <3>2, <3>3
  <2>4. QED
    BY <2>2, <2>3
<1>8. ASSUME NEW r \in {<<"fetch", c>>, <<"session", c>>}, AnswerFails(r)
      PROVE  RequestIn(f2, s2, p2, o2)
  <2>1. at[r] = "Answered" /\ at' = [at EXCEPT ![r] = "Done"] /\ p2 = "Aborted" /\ o2 = Counted1(o)
    BY <1>1, <1>2, <1>3, <1>8, AnswerFailsIs
  <2>2. QED
    BY <1>3, <1>5, <2>1, FetchLeaves, SessionLeaves DEF FetchOut, SessionOut
<1>9. ASSUME NEW r \in {<<"fetch", c>>, <<"session", c>>}, Activate(r)
      PROVE  RequestIn(f2, s2, p2, o2)
  <2>1. /\ at[r] = "Activate" /\ o2 = o /\ p2 \in {p, "Aborted", "Done"}
        /\ at' = [at EXCEPT ![r] = "Done"] \/ at' = [at EXCEPT ![r] = "Enable"]
    BY <1>1, <1>2, <1>3, <1>9, ActivateIs DEF Drops
  <2>2. CASE at' = [at EXCEPT ![r] = "Done"]
    BY <1>3, <1>5, <2>1, <2>2 DEF RequestIn, One, Ending, FetchOut, SessionOut
  <2>3. CASE at' = [at EXCEPT ![r] = "Enable"]
    BY <1>3, <1>5, <2>1, <2>3 DEF RequestIn, One, Ending, FetchOut, SessionOut
  <2>4. QED
    BY <2>1, <2>2, <2>3
<1>10. ASSUME NEW r \in {<<"fetch", c>>, <<"session", c>>}, Enable(r)
      PROVE  RequestIn(f2, s2, p2, o2)
  <2>1. /\ at[r] = "Enable" /\ o2 = o /\ p2 \in {p, "Aborted"}
        /\ at' = [at EXCEPT ![r] = "Done"] \/ at' = [at EXCEPT ![r] = "Finish"]
    BY <1>1, <1>2, <1>3, <1>10, EnableIs DEF Drops
  <2>2. CASE at' = [at EXCEPT ![r] = "Done"]
    BY <1>3, <1>5, <2>1, <2>2 DEF RequestIn, One, Ending, FetchOut, SessionOut
  <2>3. CASE at' = [at EXCEPT ![r] = "Finish"]
    BY <1>3, <1>5, <2>1, <2>3 DEF RequestIn, One, Ending, FetchOut, SessionOut
  <2>4. QED
    BY <2>1, <2>2, <2>3
<1>11. ASSUME NEW r \in {<<"fetch", c>>, <<"session", c>>}, Finish(r)
      PROVE  RequestIn(f2, s2, p2, o2)
  <2>1. at[r] = "Finish" /\ o2 = o /\ p2 \in {p, "Aborted"} /\ at' = [at EXCEPT ![r] = "Done"]
    BY <1>1, <1>2, <1>3, <1>11, FinishStepIs DEF Drops
  <2>2. QED
    BY <1>3, <1>5, <2>1 DEF RequestIn, One, Ending, FetchOut, SessionOut
<1>12. CASE FetchStale(c)
  <2>1. f = "Answered" /\ at' = [at EXCEPT ![<<"fetch", c>>] = "Done"] /\ p2 = p /\ o2 = Counted1(o)
    BY <1>1, <1>2, <1>3, <1>12, FetchStaleIs DEF EndsLoad
  <2>2. QED
    BY <1>3, <1>5, <2>1, FetchLeaves, SessionLeaves DEF FetchOut, SessionOut
<1>13. CASE FetchUnknown(c)
  <2>1. f = "Answered" /\ at' = [at EXCEPT ![<<"fetch", c>>] = "Resolved"] /\ p2 = p /\ o2 = Counted1(o)
    BY <1>1, <1>2, <1>3, <1>13, FetchUnknownIs DEF GoesOn
  <2>2. QED
    BY <1>3, <1>5, <2>1, FetchLeaves, SessionLeaves DEF FetchOut, SessionOut
<1>14. CASE SetUnknown(c)
  <2>1. f = "Resolved" /\ at' = [at EXCEPT ![<<"fetch", c>>] = "Done"] /\ p2 = "Aborted" /\ o2 = o
    BY <1>1, <1>2, <1>3, <1>14, SetUnknownIs DEF Errs
  <2>2. QED
    BY <1>3, <1>5, <2>1 DEF RequestIn, One, Ending, FetchOut, SessionOut
<1>15. CASE FetchKnown(c)
  <2>1. f = "Answered" /\ f2 = "Processing" /\ s2 = "Sent" /\ p2 = p /\ o2 = Counted1(o) + 2
    BY <1>1, <1>2, <1>3, <1>15, FetchKnownIs DEF GoesOn
  <2>2. QED
    BY <1>3, <2>1 DEF RequestIn, One, Ending, Counted1, FetchOut, SessionOut
<1>16. ASSUME NEW found \in BOOLEAN, Processed(c, found)
       PROVE  RequestIn(f2, s2, p2, o2)
  <2>1. f = "Processing" /\ o2 = Counted1(o) /\ p2 \in {p, "Aborted"}
    BY <1>1, <1>2, <1>3, <1>16, ProcessedIs DEF EndsLoad
  <2>2. \/ at' = [at EXCEPT ![<<"fetch", c>>] = "Done"]
        \/ at' = [at EXCEPT ![<<"fetch", c>>] = "Activate"] /\ o2 = 0
    BY <1>1, <1>2, <1>3, <1>16, ProcessedIs
  <2>3. CASE at' = [at EXCEPT ![<<"fetch", c>>] = "Done"]
    BY <1>3, <1>5, <2>1, <2>3, FetchLeaves, SessionLeaves DEF FetchOut, SessionOut
  <2>4. CASE at' = [at EXCEPT ![<<"fetch", c>>] = "Activate"] /\ o2 = 0
    BY <1>3, <1>5, <2>1, <2>4, FetchLeaves, SessionLeaves DEF FetchOut, SessionOut
  <2>5. QED
    BY <2>2, <2>3, <2>4
<1>17. CASE SessionStarted(c)
  <2>1. s = "Answered" /\ o2 = Counted1(o) /\ p2 = p
    BY <1>1, <1>2, <1>3, <1>17, SessionStartedIs DEF EndsLoad
  <2>2. \/ at' = [at EXCEPT ![<<"session", c>>] = "Done"]
        \/ at' = [at EXCEPT ![<<"session", c>>] = "Store"]
        \/ at' = [at EXCEPT ![<<"session", c>>] = "Activate"] /\ o2 = 0
    BY <1>1, <1>2, <1>3, <1>17, SessionStartedIs
  <2>3. CASE at' = [at EXCEPT ![<<"session", c>>] = "Done"]
    BY <1>3, <1>6, <2>1, <2>3, SessionLeaves DEF FetchOut, SessionOut
  <2>4. CASE at' = [at EXCEPT ![<<"session", c>>] = "Store"]
    <3>1. s2 = "Store" /\ f2 = f /\ SessionOut(s) /\ p2 \in {p, "Aborted"}
      BY <1>6, <2>1, <2>4 DEF SessionOut
    <3>2. QED
      BY <1>3, <2>1, <3>1, SessionLeaves
  <2>5. CASE at' = [at EXCEPT ![<<"session", c>>] = "Activate"] /\ o2 = 0
    BY <1>3, <1>6, <2>1, <2>5, SessionLeaves DEF FetchOut, SessionOut
  <2>6. QED
    BY <2>2, <2>3, <2>4, <2>5
<1>18. CASE StoreSession(c)
  <2>1. s = "Store" /\ at' = [at EXCEPT ![<<"session", c>>] = "Done"] /\ p2 = p /\ o2 = o
    BY <1>1, <1>2, <1>3, <1>18, StoreSessionIs DEF GoesOn
  <2>2. QED
    BY <1>3, <1>5, <2>1 DEF RequestIn, One, Ending, FetchOut, SessionOut
<1>19. QED
  BY <1>7, <1>8, <1>9, <1>10, <1>11, <1>12, <1>13, <1>14, <1>15, <1>16, <1>17, <1>18
  DEF AnswerOf

LEMMA RequestKept ==
    ASSUME Types, EarlyInv, RequestInv, Next, mem'.crash = "No"
    PROVE  RequestInv'
<1>1. /\ mem.load \in Loads \cup {Nil} /\ mem \in Shape /\ mem.crash = "No"
      /\ \A d \in Loads : d \in Calls /\ d # Nil /\ d \notin Logins
      /\ \A c \in Loads : <<"fetch", c>> \in Requests /\ <<"session", c>> \in Requests
      /\ \A c \in Loads : mem.states[c].outstanding \in Nat
  BY CallIs, RequestIs, Runs DEF Types, Shape, AnyLoadState
(* Where neither the requests nor the load state of a load are changed. *)
<1>2. ASSUME NEW d \in Loads, Fetching(d)' = Fetching(d), Session(d)' = Session(d),
             mem'.states[d].progress \in {mem.states[d].progress, "Aborted"},
             mem'.states[d].outstanding = mem.states[d].outstanding
      PROVE  RequestOf(mem, d)'
  BY <1>2 DEF RequestInv, RequestOf, RequestIn
<1>3. ASSUME at' = at,
             \A d \in Loads : /\ mem'.states[d].progress \in {mem.states[d].progress, "Aborted"}
                              /\ mem'.states[d].outstanding = mem.states[d].outstanding
      PROVE  RequestInv'
  BY <1>2, <1>3 DEF RequestInv, Fetching, Session
<1>4. ASSUME NEW c \in Calls, Register(c) \/ Wait(c) \/ Return(c) PROVE RequestInv'
  <2>1. PICK k : k = KindOf(c)
    OBVIOUS
  <2>2. mem'.states = mem.states /\ at' = at
    <3>1. CASE Register(c)
      BY <2>1, <3>1, RegisterIs
    <3>2. CASE Wait(c)
      BY <3>2 DEF Wait
    <3>3. CASE Return(c)
      BY <2>1, <3>3, ReturnIs
    <3>4. QED
      BY <1>4, <3>1, <3>2, <3>3
  <2>3. QED
    BY <1>3, <2>2
<1>5. ASSUME NEW c \in Logins, NEW to, mem'.states = mem.states,
             at' = [at EXCEPT ![<<"login", c>>] = to]
      PROVE  RequestInv'
  <2>1. \A d \in Loads : Fetching(d)' = Fetching(d) /\ Session(d)' = Session(d)
    BY <1>1, <1>5 DEF Types, Fetching, Session
  <2>2. QED
    BY <1>2, <1>5, <2>1 DEF RequestInv
<1>6. ASSUME NEW c \in Logins, BeginLogin(c) PROVE RequestInv'
  <2>1. mem'.states = mem.states /\ (at' = at \/ at' = [at EXCEPT ![<<"login", c>>] = "Sent"])
    BY <1>6, BeginLoginIs
  <2>2. QED
    BY <1>3, <1>5, <2>1
<1>7. ASSUME NEW c \in Loads, BeginLoad(c) PROVE RequestInv'
  <2>1. /\ pc[c] = "Begin" /\ at' = at
        /\ \E b \in Shape : Begun(c, b) /\ b.states = mem'.states
    <3>1. /\ pc[c] = "Begin" /\ at' = at /\ mem' \in Shape
          /\ mem.load = Nil => Begun(c, mem')
          /\ mem.load # Nil => \E b \in Shape : Begun(c, b) /\ OnlyTold(b, mem')
      BY <1>1, <1>7, BeginLoadIs
    <3>2. CASE mem.load = Nil
      BY <3>1, <3>2
    <3>3. CASE mem.load # Nil
      BY <3>1, <3>3 DEF OnlyTold
    <3>4. QED
      BY <3>1, <3>2, <3>3
  <2>2. /\ mem.load # c /\ Fetching(c) = "None" /\ Session(c) = "None"
    BY <2>1 DEF EarlyInv, Early
  <2>3. Fetching(c)' = "None" /\ Session(c)' = "None"
    BY <2>1, <2>2 DEF Fetching, Session
  <2>4. mem'.states[c].progress = "Started" /\ mem'.states[c].outstanding = 0
    BY <2>1, <2>2 DEF Begun, NewLoad
  <2>5. RequestOf(mem, c)'
    BY <2>3, <2>4 DEF RequestOf, RequestIn, One, Ending, FetchOut, SessionOut
  <2>6. \A d \in Loads \ {c} : RequestOf(mem, d)'
    BY <1>2, <2>1 DEF Begun, Fetching, Session
  <2>7. QED
    BY <2>5, <2>6 DEF RequestInv
<1>8. ASSUME NEW c \in Loads, Attach(c) PROVE RequestInv'
  <2>1. /\ KeepsLoads(mem, mem', c) /\ at' = at
        /\ mem' = mem \/ Drops(mem, mem', c, FALSE)
    BY <1>8, AttachIs
  <2>2. QED
    BY <1>3, <2>1 DEF KeepsLoads, Drops
<1>9. ASSUME NEW c \in Loads, Unload(c) \/ SetLoad(c) PROVE RequestInv'
  <2>1. /\ at' = at
        /\ \A d \in Loads : /\ mem'.states[d].progress = mem.states[d].progress
                            /\ mem'.states[d].outstanding = mem.states[d].outstanding
    BY <1>9, UnloadIs, SetLoadIs DEF KeepsLoads
  <2>2. QED
    BY <1>3, <2>1
<1>10. ASSUME NEW c \in Loads, LoadGame(c) PROVE RequestInv'
  <2>1. /\ KeepsLoads(mem, mem', c) /\ pc[c] = "Fetch"
        /\ \/ Errs(mem, mem', c) /\ at' = at
           \/ /\ Fetches(mem, mem', c) /\ mem.user # "None"
              /\ at' = IF Asks(mem) THEN [at EXCEPT ![<<"fetch", c>>] = "Sent"] ELSE at
    BY <1>10, LoadGameIs
  <2>2. Fetching(c) = "None" /\ Session(c) = "None"
    BY <2>1 DEF EarlyInv, Early
  <2>3. RequestOf(mem, c)'
    <3>1. CASE Errs(mem, mem', c) /\ at' = at
      BY <1>2, <3>1 DEF Errs, Fetching, Session
    <3>2. CASE Fetches(mem, mem', c) /\ mem.user = "LoggedIn" /\ at' = [at EXCEPT ![<<"fetch", c>>] = "Sent"]
      <4>1. Fetching(c)' = "Sent" /\ Session(c)' = "None"
        BY <2>2, <3>2, RequestMoves
      <4>2. /\ mem'.states[c].progress = "Fetching"
            /\ mem'.states[c].outstanding = mem.states[c].outstanding + 1
        BY <3>2 DEF Fetches
      <4>3. mem.states[c].outstanding = 0
        BY <2>2 DEF RequestInv, RequestOf, RequestIn, One, FetchOut, SessionOut
      <4>4. QED
        BY <4>1, <4>2, <4>3 DEF RequestOf, RequestIn, One, Ending, FetchOut, SessionOut
    <3>3. CASE Fetches(mem, mem', c) /\ mem.user = "Requested" /\ at' = at
      <4>1. Fetching(c)' = "None" /\ Session(c)' = "None"
        BY <2>2, <3>3 DEF Fetching, Session
      <4>2. /\ mem'.states[c].progress = "AwaitLogin"
            /\ mem'.states[c].outstanding = mem.states[c].outstanding
        BY <3>3 DEF Fetches
      <4>3. mem.states[c].outstanding = 0
        BY <2>2 DEF RequestInv, RequestOf, RequestIn, One, FetchOut, SessionOut
      <4>4. QED
        BY <4>1, <4>2, <4>3 DEF RequestOf, RequestIn, One, Ending, FetchOut, SessionOut
    <3>4. mem.user \in {"None", "Requested", "LoggedIn"}
      BY <1>1 DEF Shape
    <3>5. QED
      BY <2>1, <3>1, <3>2, <3>3, <3>4 DEF Asks
  <2>4. ASSUME NEW d \in Loads \ {c} PROVE RequestOf(mem, d)'
    <3>1. Fetching(d)' = Fetching(d) /\ Session(d)' = Session(d)
      BY <1>1, <2>1 DEF Types, Fetching, Session
    <3>2. QED
      BY <1>2, <2>1, <3>1 DEF KeepsLoads
  <2>5. QED
    BY <2>3, <2>4 DEF RequestInv
<1>11. ASSUME NEW c \in Logins, NEW ok \in BOOLEAN, LoginAnswered(c, ok) PROVE RequestInv'
  BY <1>5, <1>11, LoginAnsweredIs
<1>12. ASSUME NEW c \in Logins, LoginDone(c) PROVE RequestInv'
  <2>1. PICK g \in Shape :
        /\ g = Fetched(mem, c) /\ g.crash = "No" /\ OnlyTold(g, mem')
        /\ at' = [r \in Requests |->
                     IF r = <<"login", c>> THEN "Done"
                     ELSE IF Waits(c) /\ Asks(mem) /\ r = <<"fetch", seen[c]>> THEN "Sent"
                     ELSE at[r]]
    BY <1>12, LoginDoneIs
  <2>2. /\ \A d \in Loads : d # seen[c] => mem'.states[d] = mem.states[d]
        /\ ~Waits(c) => mem'.states = mem.states
        /\ Waits(c) => Fetches(mem, g, seen[c]) /\ seen[c] \in Loads
    BY <2>1, FetchedIs DEF OnlyTold, Waits, Types
  <2>3. ASSUME NEW d \in Loads, ~(Waits(c) /\ d = seen[c]) PROVE RequestOf(mem, d)'
    <3>1. Fetching(d)' = Fetching(d) /\ Session(d)' = Session(d)
      BY <1>1, <2>1, <2>3 DEF Fetching, Session
    <3>2. mem'.states[d] = mem.states[d]
      BY <2>2, <2>3
    <3>3. QED
      BY <1>2, <3>1, <3>2
  <2>4. ASSUME NEW d \in Loads, Waits(c), d = seen[c] PROVE RequestOf(mem, d)'
    <3>1. Fetching(d) = "None" /\ Session(d) = "None" /\ mem.states[d].outstanding = 0
      BY <2>4 DEF RequestInv, RequestOf, RequestIn, One, Waits, FetchOut, SessionOut
    <3>2. /\ Fetching(d)' = IF mem.user = "LoggedIn" THEN "Sent" ELSE "None"
          /\ Session(d)' = "None"
      BY <1>1, <2>1, <2>4, <3>1 DEF Fetching, Session, Asks
    <3>3. Fetches(mem, g, d) /\ g.states = mem'.states
      BY <2>1, <2>2, <2>4 DEF OnlyTold
    <3>4. mem.user \in {"None", "Requested", "LoggedIn"}
      BY <1>1 DEF Shape
    <3>5. /\ mem'.states[d].outstanding = IF mem.user = "LoggedIn" THEN 1 ELSE 0
          /\ mem'.states[d].progress = "AwaitLogin" => mem.user # "LoggedIn"
      <4>1. CASE mem.user = "LoggedIn"
        BY <3>1, <3>3, <4>1 DEF Fetches
      <4>2. CASE mem.user = "Requested"
        BY <3>1, <3>3, <4>2 DEF Fetches
      <4>3. CASE mem.user = "None"
        BY <3>1, <3>3, <4>3 DEF Fetches, Errs
      <4>4. QED
        BY <3>4, <4>1, <4>2, <4>3
    <3>6. QED
      BY <3>2, <3>5 DEF RequestOf, RequestIn, One, Ending, FetchOut, SessionOut
  <2>5. QED
    BY <2>3, <2>4 DEF RequestInv
<1>13. ASSUME NEW c \in Loads, Answering(c), AnswerOf(c) PROVE RequestInv'
  <2>1. RequestOf(mem, c)'
    BY <1>13, AnswerCounted
  <2>2. ASSUME NEW d \in Loads \ {c} PROVE RequestOf(mem, d)'
    <3>1. mem'.states[d] = mem.states[d] /\ \A r \in Requests : r[2] # c => at'[r] = at[r]
      BY <1>13 DEF Answering
    <3>2. Fetching(d)' = Fetching(d) /\ Session(d)' = Session(d)
      BY <1>1, <3>1 DEF Fetching, Session
    <3>3. QED
      BY <1>2, <3>1, <3>2
  <2>3. QED
    BY <2>1, <2>2 DEF RequestInv
<1>14. QED
  BY <1>4, <1>6, <1>7, <1>8, <1>9, <1>10, <1>11, <1>12, <1>13, StepIs
-----------------------------------------------------------------------------
(***************************************************************************
 A call of Login that is pending has its request out, or is about to be told.
 ***************************************************************************)
LoginIn(c) ==
    /\ Login(c) \in {"Sent", "Answered"} => c \notin mem.closed /\ mem.userdata[c] = c
    /\ pc[c] \in {"Wait", "Waiting"} /\ c \notin mem.closed => Login(c) \in {"Sent", "Answered"}

LoginInv ==
    /\ mem.user = "Requested" => \E c \in Logins : Login(c) = "Sent"
    /\ \A c \in Logins : Alone(c) => LoginIn(c)

(* What a load tells closes no other channel than that of the loads. *)
LEMMA LoadCloses ==
    ASSUME Types, DoneInv, NEW c \in Loads, mem'.crash = "No",
           BeginLoad(c) \/ Attach(c) \/ Unload(c) \/ SetLoad(c) \/ LoadGame(c) \/ Answering(c)
    PROVE  /\ mem.closed \subseteq mem'.closed
           /\ \A l \in Logins : /\ l \in mem'.closed => l \in mem.closed
                                /\ mem'.userdata[l] = mem.userdata[l]
                                /\ pc'[l] = pc[l] /\ Login(l)' = Login(l)
           /\ mem'.user = mem.user
<1>1. /\ mem \in Shape /\ \A l \in Logins : l \in Calls /\ l # c /\ <<"login", l>> \in Requests
      /\ c \in Calls /\ mem.load \in Loads \cup {Nil}
      /\ \A l \in Logins : <<"login", l>> # <<"fetch", c>> /\ <<"login", l>>[2] # c
  BY CallIs, RequestIs DEF Types, Shape
<1>2. mem.channel["load"] # Nil => mem.channel["load"] \notin Logins
  <2>1. "load" \in Kinds /\ \A l \in Logins : KindOf(l) = "login"
    BY CallIs DEF Kinds
  <2>2. QED
    BY <2>1 DEF DoneInv, KindsIn
<1>3. ASSUME NEW m, NEW d, NEW ok, Reports(m, mem', d, ok), m.closed = mem.closed,
             m.channel = mem.channel
      PROVE  /\ mem.closed \subseteq mem'.closed
             /\ \A l \in Logins : l \in mem'.closed => l \in mem.closed
  BY <1>1, <1>2, <1>3, CallIs DEF Reports, Tells, Quiet
<1>0. ASSUME NEW to, pc' = [pc EXCEPT ![c] = to] PROVE \A l \in Logins : pc'[l] = pc[l]
  BY <1>0, <1>1 DEF Types
<1>4. CASE BeginLoad(c)
  <2>1. mem.crash = "No"
    BY <1>4 DEF BeginLoad, Running
  <2>2. /\ pc' = [pc EXCEPT ![c] = "Attach"] /\ at' = at /\ mem'.user = mem.user
        /\ mem.load = Nil => Begun(c, mem')
        /\ mem.load # Nil =>
             \E b \in Shape : Begun(c, b) /\ OnlyTold(b, mem') /\ Reports(b, mem', mem.load, FALSE)
    BY <1>4, <2>1, BeginLoadIs
  <2>3. mem.userdata \in [Calls -> Calls \cup {Nil}] /\ pc \in [Calls -> Places]
    BY <1>1 DEF Shape, Types
  <2>4. CASE mem.load = Nil
    BY <1>1, <2>2, <2>3, <2>4 DEF Begun, Quiet, Login
  <2>5. CASE mem.load # Nil
    <3>1. PICK b \in Shape : Begun(c, b) /\ OnlyTold(b, mem') /\ Reports(b, mem', mem.load, FALSE)
      BY <2>2, <2>5
    <3>2. b.closed = mem.closed /\ b.channel = mem.channel /\ mem'.userdata = b.userdata
      BY <3>1 DEF Begun, Quiet, OnlyTold
    <3>3. /\ mem.closed \subseteq mem'.closed
          /\ \A l \in Logins : l \in mem'.closed => l \in mem.closed
      BY <1>3, <3>1, <3>2
    <3>4. \A l \in Logins : mem'.userdata[l] = mem.userdata[l]
      BY <1>1, <2>3, <3>1, <3>2 DEF Begun
    <3>5. \A l \in Logins : pc'[l] = pc[l] /\ Login(l)' = Login(l)
      BY <1>1, <2>2, <2>3 DEF Login
    <3>6. QED
      BY <2>2, <3>3, <3>4, <3>5
  <2>6. QED
    BY <2>4, <2>5
<1>5. CASE Attach(c)
  <2>1. /\ KeepsLoads(mem, mem', c) /\ at' = at /\ pc[c] = "Attach"
        /\ mem' = mem \/ Reports(mem, mem', c, FALSE)
    BY <1>5, AttachIs DEF Drops
  <2>0. \A l \in Logins : pc'[l] = pc[l]
    BY <1>0, <1>5, AttachIs
  <2>2. QED
    BY <1>3, <2>0, <2>1 DEF KeepsLoads, KeepsCalls, Login
<1>6. CASE Unload(c) \/ SetLoad(c)
  <2>1. /\ KeepsCalls(mem, mem') /\ mem'.user = mem.user /\ Quiet(mem, mem') /\ at' = at
    BY <1>6, UnloadIs, SetLoadIs DEF KeepsLoads
  <2>0. \A l \in Logins : pc'[l] = pc[l]
    BY <1>0, <1>6, UnloadIs, SetLoadIs
  <2>2. QED
    BY <2>0, <2>1 DEF KeepsCalls, Quiet, Login
<1>7. CASE LoadGame(c)
  <2>1. /\ KeepsLoads(mem, mem', c)
        /\ at' = at \/ at' = [at EXCEPT ![<<"fetch", c>>] = "Sent"]
        /\ Quiet(mem, mem') \/ Reports(mem, mem', c, FALSE)
    <3>1. mem.user \in {"None", "Requested", "LoggedIn"}
      BY <1>1 DEF Shape
    <3>2. QED
      BY <1>7, <3>1, LoadGameIs DEF Errs, Fetches
  <2>2. \A l \in Logins : Login(l)' = Login(l) /\ pc'[l] = pc[l]
    <3>1. \A l \in Logins : pc'[l] = pc[l]
      BY <1>0, <1>7, LoadGameIs
    <3>2. QED
      BY <1>1, <2>1, <3>1 DEF Login, Types
  <2>3. QED
    BY <1>1, <1>3, <2>1, <2>2 DEF KeepsLoads, KeepsCalls, Quiet
<1>8. CASE Answering(c)
  <2>1. /\ KeepsCalls(mem, mem') /\ mem'.user = mem.user /\ pc' = pc
        /\ Quiet(mem, mem') \/ \E ok \in BOOLEAN : Reports(mem, mem', c, ok)
        /\ \A r \in Requests : r[2] # c => at'[r] = at[r]
    BY <1>8 DEF Answering
  <2>2. QED
    BY <1>1, <1>3, <2>1 DEF KeepsCalls, Quiet, Login
<1>9. QED
  BY <1>4, <1>5, <1>6, <1>7, <1>8

(* The answer to the login d tells d itself. *)
LEMMA LoginTold ==
    ASSUME Types, DoneInv, NEW d \in Logins, Alone(d), LoginIn(d), Login(d) \in {"Sent", "Answered"},
           NEW m, m.channel = mem.channel, m.live = mem.live, NEW ok, NEW n,
           Tells(m, n, "login", mem.userdata[d], ok)
    PROVE  n.closed = m.closed \cup {d}
<1>1. mem.userdata[d] = d /\ d # Nil /\ d \in Calls /\ KindOf(d) = "login"
  BY CallIs DEF LoginIn
<1>2. d \in mem.live /\ n.closed = m.closed \cup {mem.channel["login"]}
  BY <1>1 DEF Tells
<1>3. mem.channel["login"] = d
  BY <1>1, <1>2 DEF DoneInv, CallsIn, CallIn
<1>4. QED
  BY <1>2, <1>3

LEMMA LoginKept ==
    ASSUME Types, DoneInv, LoginInv, Next, mem'.crash = "No"
    PROVE  LoginInv'
<1>1. /\ mem \in Shape /\ mem.crash = "No"
      /\ \A c \in Logins : c \in Calls /\ c # Nil /\ KindOf(c) = "login" /\ <<"login", c>> \in Requests
      /\ pc \in [Calls -> Places] /\ at \in [Requests -> Stages]
  BY Runs, CallIs, RequestIs DEF Types
<1>2. \A c \in Logins : Alone(c)' => Alone(c)
  BY <1>1, Advances DEF Alone
(* A login that the step is not about. *)
<1>3. ASSUME NEW c \in Logins, Alone(c), Login(c)' = Login(c), mem'.userdata[c] = mem.userdata[c],
             mem.closed \subseteq mem'.closed, c \in mem'.closed => c \in mem.closed,
             pc'[c] \in {"Wait", "Waiting"} => pc[c] \in {"Wait", "Waiting"}
      PROVE  LoginIn(c)'
  BY <1>3 DEF LoginInv, LoginIn
<1>4. ASSUME NEW c \in Calls, Register(c) \/ Wait(c) \/ Return(c) PROVE LoginInv'
  <2>1. PICK k : k = KindOf(c)
    OBVIOUS
  <2>2. /\ mem'.userdata = mem.userdata /\ mem'.closed = mem.closed /\ at' = at
        /\ mem'.user = mem.user
        /\ \A l \in Logins : pc'[l] \in {"Wait", "Waiting"} => pc[l] \in {"Wait", "Waiting"}
    <3>1. CASE Register(c)
      BY <1>1, <2>1, <3>1, RegisterIs
    <3>2. CASE Wait(c)
      BY <1>1, <3>2 DEF Wait
    <3>3. CASE Return(c)
      BY <1>1, <2>1, <3>3, ReturnIs DEF Quiet
    <3>4. QED
      BY <1>4, <3>1, <3>2, <3>3
  <2>3. QED
    BY <1>2, <1>3, <2>2 DEF LoginInv, Login
<1>5. ASSUME NEW c \in Loads,
             BeginLoad(c) \/ Attach(c) \/ Unload(c) \/ SetLoad(c) \/ LoadGame(c) \/ Answering(c)
      PROVE  LoginInv'
  <2>1. /\ mem.closed \subseteq mem'.closed
        /\ \A l \in Logins : /\ l \in mem'.closed => l \in mem.closed
                             /\ mem'.userdata[l] = mem.userdata[l]
                             /\ pc'[l] = pc[l] /\ Login(l)' = Login(l)
        /\ mem'.user = mem.user
    BY <1>5, LoadCloses
  <2>2. QED
    BY <1>2, <1>3, <2>1 DEF LoginInv
<1>6. ASSUME NEW d \in Logins, BeginLogin(d) PROVE LoginInv'
  <2>1. /\ pc[d] = "Begin" /\ pc' = [pc EXCEPT ![d] = "Wait"] /\ Login(d) = "None"
        /\ pc'[d] = "Wait" /\ \A c \in Logins \ {d} : pc'[c] = pc[c]
    <3>1. pc[d] = "Begin" /\ pc' = [pc EXCEPT ![d] = "Wait"]
      BY <1>6, BeginLoginIs
    <3>2. Login(d) = "None"
      BY <3>1 DEF DoneInv, EarlyInv, Early
    <3>3. QED
      BY <1>1, <3>1, <3>2
  <2>2. Alone(d) => mem.handle["login"] = d /\ mem.channel["login"] = d /\ d \notin mem.closed
    BY <1>1, <2>1 DEF DoneInv, CallsIn, CallIn, Early, Ended
  <2>3. CASE mem.user = "Requested"
    <3>1. /\ OnlyTold(mem, mem') /\ at' = at
          /\ Tells(mem, mem', "login", mem.handle["login"], FALSE)
      BY <1>6, <2>3, BeginLoginIs
    <3>2. ASSUME NEW c \in Logins, Alone(c)' PROVE LoginIn(c)'
      <4>1. Alone(c) /\ Login(c)' = Login(c)
        BY <1>2, <3>1, <3>2 DEF Login
      <4>2. CASE c = d
        <5>1. d \in mem'.closed
          BY <1>1, <2>2, <3>1, <4>1, <4>2 DEF Tells
        <5>2. QED
          BY <2>1, <4>1, <4>2, <5>1 DEF LoginIn
      <4>3. CASE c # d
        <5>1. ~Pending(c) /\ Pending(d)
          BY <1>1, <2>1, <4>1, <4>3 DEF DoneInv, OneEach, Pending, Ended
        <5>2. pc[c] = "Idle" \/ pc[c] \in Ended
          BY <5>1 DEF Pending
        <5>3. Login(c) \notin {"Sent", "Answered"}
          <6>1. CASE pc[c] = "Idle"
            BY <6>1 DEF DoneInv, EarlyInv, Early
          <6>2. CASE pc[c] \in Ended
            <7>1. c \in mem.closed
              BY <1>1, <4>1, <6>2 DEF DoneInv, CallsIn, CallIn
            <7>2. QED
              BY <4>1, <7>1 DEF LoginInv, LoginIn
          <6>3. QED
            BY <5>2, <6>1, <6>2
        <5>4. pc'[c] \notin {"Wait", "Waiting"}
          BY <2>1, <4>3, <5>2 DEF Ended
        <5>5. QED
          BY <4>1, <5>3, <5>4 DEF LoginIn
      <4>4. QED
        BY <4>2, <4>3
    <3>3. QED
      BY <3>1, <3>2 DEF LoginInv, OnlyTold, Login
  <2>4. CASE mem.user # "Requested"
    <3>1. /\ Quiet(mem, mem') /\ mem'.user = "Requested"
          /\ mem'.userdata = [mem.userdata EXCEPT ![d] = mem.handle["login"]]
          /\ at' = [at EXCEPT ![<<"login", d>>] = "Sent"]
      BY <1>6, <2>4, BeginLoginIs
    <3>2. /\ Login(d)' = "Sent" /\ \A c \in Logins \ {d} : Login(c)' = Login(c)
          /\ mem'.userdata[d] = mem.handle["login"]
          /\ \A c \in Logins \ {d} : mem'.userdata[c] = mem.userdata[c]
      BY <1>1, <3>1 DEF Login, Shape
    <3>3. ASSUME NEW c \in Logins, Alone(c)' PROVE LoginIn(c)'
      <4>1. CASE c = d
        BY <1>2, <2>2, <3>1, <3>2, <3>3, <4>1 DEF LoginIn, Quiet
      <4>2. CASE c # d
        BY <1>2, <1>3, <2>1, <3>1, <3>2, <3>3, <4>2 DEF Quiet
      <4>3. QED
        BY <4>1, <4>2
    <3>4. QED
      BY <3>2, <3>3 DEF LoginInv
  <2>5. QED
    BY <2>3, <2>4
<1>7. ASSUME NEW d \in Logins, NEW ok \in BOOLEAN, LoginAnswered(d, ok) PROVE LoginInv'
  <2>1. /\ KeepsCalls(mem, mem') /\ mem'.user # "Requested" /\ pc' = pc /\ Login(d) = "Sent"
        /\ at' = [at EXCEPT ![<<"login", d>>] = IF ok THEN "Answered" ELSE "Resolved"]
        /\ IF ok THEN Quiet(mem, mem') ELSE Tells(mem, mem', "login", mem.userdata[d], FALSE)
    BY <1>7, LoginAnsweredIs
  <2>2. /\ Login(d)' = (IF ok THEN "Answered" ELSE "Resolved")
        /\ \A c \in Logins \ {d} : Login(c)' = Login(c)
    BY <1>1, <2>1 DEF Login
  <2>3. Alone(d) => mem'.closed = IF ok THEN mem.closed ELSE mem.closed \cup {d}
    <3>1. CASE ok
      BY <2>1, <3>1 DEF Quiet
    <3>2. CASE ~ok
      BY <2>1, <3>2, LoginTold DEF LoginInv
    <3>3. QED
      BY <3>1, <3>2
  <2>4. ASSUME NEW c \in Logins, Alone(c)' PROVE LoginIn(c)'
    <3>1. Alone(c) /\ Alone(d)
      BY <1>1, <1>2, <2>4 DEF Alone
    <3>2. CASE c = d
      <4>1. LoginIn(d) /\ mem'.userdata[d] = mem.userdata[d]
        BY <2>1, <3>1 DEF LoginInv, KeepsCalls
      <4>2. QED
        BY <2>1, <2>2, <2>3, <3>1, <3>2, <4>1 DEF LoginIn
    <3>3. CASE c # d
      BY <1>3, <2>1, <2>2, <2>3, <3>1, <3>3 DEF KeepsCalls
    <3>4. QED
      BY <3>2, <3>3
  <2>5. QED
    BY <2>1, <2>4 DEF LoginInv
<1>8. ASSUME NEW d \in Logins, LoginDone(d) PROVE LoginInv'
  <2>1. PICK f \in Shape :
          /\ f = Fetched(mem, d) /\ f.crash = "No" /\ pc' = pc /\ Login(d) \in {"Answered", "Resolved"}
          /\ at' = [r \in Requests |->
                       IF r = <<"login", d>> THEN "Done"
                       ELSE IF Waits(d) /\ Asks(mem) /\ r = <<"fetch", seen[d]>> THEN "Sent"
                       ELSE at[r]]
          /\ OnlyTold(f, mem')
          /\ IF Login(d) = "Answered" THEN Tells(f, mem', "login", mem.userdata[d], TRUE)
                                      ELSE Quiet(f, mem')
    BY <1>8, LoginDoneIs
  <2>2. /\ KeepsCalls(mem, f) /\ f.user = mem.user
        /\ IF Waits(d) THEN Fetches(mem, f, seen[d]) ELSE f = mem
    BY <2>1, FetchedIs
  <2>3. /\ Login(d)' = "Done" /\ \A c \in Logins \ {d} : Login(c)' = Login(c)
    BY <1>1, <2>1 DEF Login
  <2>4. mem.closed \subseteq f.closed /\ \A c \in Logins : c \in f.closed => c \in mem.closed
    <3>1. mem.user \in {"None", "Requested", "LoggedIn"} /\ "load" \in Kinds
      BY <1>1 DEF Shape, Kinds
    <3>2. Quiet(mem, f) \/ Reports(mem, f, seen[d], FALSE)
      BY <2>2, <3>1 DEF Fetches, Errs, Quiet
    <3>3. mem.channel["load"] # Nil => mem.channel["load"] \notin Logins
      BY <1>1, <3>1 DEF DoneInv, KindsIn
    <3>4. QED
      BY <1>1, <3>2, <3>3 DEF Reports, Tells, Quiet
  <2>5. Alone(d) => mem'.closed = IF Login(d) = "Answered" THEN f.closed \cup {d} ELSE f.closed
    <3>1. CASE Login(d) = "Answered"
      <4>1. f.channel = mem.channel /\ f.live = mem.live
        BY <2>2 DEF KeepsCalls
      <4>2. QED
        BY <2>1, <3>1, <4>1, LoginTold DEF LoginInv
    <3>2. CASE Login(d) # "Answered"
      BY <2>1, <3>2 DEF Quiet
    <3>3. QED
      BY <3>1, <3>2
  <2>6. mem'.userdata = mem.userdata /\ mem'.user = mem.user
    BY <2>1, <2>2 DEF OnlyTold, KeepsCalls
  <2>7. ASSUME NEW c \in Logins, Alone(c)' PROVE LoginIn(c)'
    <3>1. Alone(c) /\ Alone(d)
      BY <1>1, <1>2, <2>7 DEF Alone
    <3>2. CASE c = d
      BY <2>1, <2>3, <2>4, <2>5, <3>1, <3>2 DEF LoginInv, LoginIn
    <3>3. CASE c # d
      BY <1>3, <2>1, <2>3, <2>4, <2>5, <2>6, <3>1, <3>3
    <3>4. QED
      BY <3>2, <3>3
  <2>8. QED
    BY <2>1, <2>3, <2>6, <2>7 DEF LoginInv
<1>9. QED
  BY <1>4, <1>5, <1>6, <1>7, <1>8, StepIs

LEMMA LoginFirst == Init => LoginInv
<1> SUFFICES ASSUME Init PROVE LoginInv
  OBVIOUS
<1>1. mem.user = "None" /\ \A c \in Calls : pc[c] = "Idle"
  BY DEF Init
<1>2. \A c \in Logins : Login(c) = "None" /\ c \in Calls
  BY CallIs, RequestIs DEF Init, Login
<1>3. QED
  BY <1>1, <1>2 DEF LoginInv, LoginIn

-----------------------------------------------------------------------------
(***************************************************************************
 A call of LoadGameFromFile that is pending has a request out, waits for a login
 whose request is out, or is about to be told.
 ***************************************************************************)
AwaitsLogin(c) ==
    /\ mem.states[c].progress = "AwaitLogin"
    /\ \/ mem.user = "Requested"
       \/ \E a \in Logins : Login(a) \in {"Answered", "Resolved"} /\ seen[a] = c

HasRequest(c) == Fetching(c) \notin {"None", "Done"} \/ Session(c) \in {"Sent", "Answered"} \cup Ending

(* The load is current until it is about to end. *)
Current(c) == mem.load = c \/ Fetching(c) = "Finish" \/ Session(c) = "Finish"

Reportable(c) == mem.userdata[c] = c /\ mem.states[c].callback /\ ~mem.states[c].aborted

LoadIn(c) ==
    /\ pc[c] # "Begin" => Reportable(c)
    /\ pc[c] = "Fetch" => mem.load = c
    /\ pc[c] \in {"Wait", "Waiting"} => Current(c) /\ (AwaitsLogin(c) \/ HasRequest(c))

Unanswered(c) == Alone(c) /\ Pending(c) /\ c \notin mem.closed

LoadInv == \A c \in Loads : Unanswered(c) => LoadIn(c)

(* To report to a load that is pending alone closes its channel. *)
LEMMA LoadTold ==
    ASSUME DoneInv, NEW c \in Loads, Alone(c), Pending(c),
           NEW m, m.userdata = mem.userdata, m.channel = mem.channel, m.states[c].callback = TRUE,
           mem.userdata[c] = c, NEW ok, NEW n, Reports(m, n, c, ok)
    PROVE  c \in n.closed
<1>1. c # Nil /\ c \in Calls /\ KindOf(c) = "load"
  BY CallIs
<1>2. mem.channel["load"] = c
  BY <1>1 DEF DoneInv, CallsIn, CallIn, Pending
<1>3. QED
  BY <1>1, <1>2 DEF Reports, Tells

(* A step changes nothing of a load that another load takes. *)
LEMMA OnlyPending ==
    ASSUME Types, DoneInv, NEW c \in Loads, Alone(c), Pending(c), NEW d \in Loads,
           BeginLoad(d) \/ Attach(d) \/ Unload(d) \/ SetLoad(d) \/ LoadGame(d)
    PROVE  d = c
<1>1. Pending(d)
  BY BeginLoadIs, AttachIs, UnloadIs, SetLoadIs, LoadGameIs DEF Pending, Ended
<1>2. c \in Calls /\ d \in Calls /\ KindOf(c) = "load" /\ KindOf(d) = "load"
  BY CallIs
<1>3. QED
  BY <1>1, <1>2 DEF DoneInv, OneEach

(* The load's own call. *)
LEMMA LoadGoesOn ==
    ASSUME Types, DoneInv, RequestInv, LoadInv, NEW c \in Loads, Unanswered(c), mem'.crash = "No",
           c \notin mem'.closed,
           BeginLoad(c) \/ Attach(c) \/ Unload(c) \/ SetLoad(c) \/ LoadGame(c)
    PROVE  LoadIn(c)'
<1>1. /\ mem \in Shape /\ c \in Calls /\ c # Nil /\ KindOf(c) = "load" /\ "load" \in Kinds
      /\ pc \in [Calls -> Places] /\ LoadIn(c) /\ Alone(c) /\ Pending(c)
      /\ mem.load \in Loads \cup {Nil}
  BY CallIs DEF Types, Kinds, Shape, LoadInv, Unanswered
<1>2. pc[c] \in {"Begin", "Attach", "Unload", "Set"} => mem.load # c
  BY DEF DoneInv, EarlyInv, Early
<1>3. CASE BeginLoad(c)
  <2>1. mem.crash = "No"
    BY <1>3 DEF BeginLoad, Running
  <2>2. /\ pc[c] = "Begin" /\ pc' = [pc EXCEPT ![c] = "Attach"]
        /\ mem.load = Nil => Begun(c, mem')
        /\ mem.load # Nil => \E b \in Shape : Begun(c, b) /\ OnlyTold(b, mem')
    BY <1>3, <2>1, BeginLoadIs
  <2>3. mem.handle["load"] = c
    BY <1>1 DEF DoneInv, CallsIn, CallIn, Pending
  <2>4. ASSUME NEW b, Begun(c, b) PROVE b.userdata[c] = c /\ b.states[c] = NewLoad
    BY <1>1, <1>2, <2>2, <2>3, <2>4 DEF Begun, Shape
  <2>5. mem'.userdata[c] = c /\ mem'.states[c] = NewLoad
    BY <2>2, <2>4 DEF OnlyTold
  <2>6. pc'[c] = "Attach"
    BY <1>1, <2>2
  <2>7. QED
    BY <2>5, <2>6 DEF LoadIn, Reportable, NewLoad
<1>4. ASSUME pc[c] # "Begin" PROVE Reportable(c)
  BY <1>1, <1>4 DEF LoadIn
<1>5. ASSUME NEW ok, pc[c] # "Begin", KeepsCalls(mem, mem'), Reports(mem, mem', c, ok) PROVE FALSE
  <2>1. mem.states[c].callback = TRUE /\ mem.userdata[c] = c
    <3>1. mem.states[c].callback \in BOOLEAN
      BY <1>1 DEF Shape, AnyLoadState
    <3>2. QED
      BY <1>4, <1>5, <3>1 DEF Reportable
  <2>2. c \in mem'.closed
    BY <1>1, <1>5, <2>1, LoadTold
  <2>3. QED
    BY <2>2
<1>6. CASE Attach(c)
  <2>1. CASE mem.load = Nil
    <3>1. mem' = mem /\ pc[c] = "Attach" /\ pc' = [pc EXCEPT ![c] = "Unload"]
      BY <1>6, <2>1, AttachIs
    <3>2. pc'[c] = "Unload"
      BY <1>1, <3>1
    <3>3. QED
      BY <1>4, <3>1, <3>2 DEF LoadIn, Reportable
  <2>2. CASE mem.load # Nil
    <3>1. pc[c] = "Attach" /\ KeepsCalls(mem, mem') /\ Reports(mem, mem', c, FALSE)
      BY <1>6, <2>2, AttachIs DEF Drops, KeepsLoads
    <3>2. QED
      BY <1>5, <3>1
  <2>3. QED
    BY <2>1, <2>2
<1>7. CASE Unload(c)
  <2>1. /\ pc[c] = "Unload" /\ pc' = [pc EXCEPT ![c] = "Set"] /\ KeepsCalls(mem, mem')
        /\ mem'.states[c] = mem.states[c]
    BY <1>2, <1>7, UnloadIs
  <2>2. pc'[c] = "Set"
    BY <1>1, <2>1
  <2>3. QED
    BY <1>4, <2>1, <2>2 DEF LoadIn, Reportable, KeepsCalls
<1>8. CASE SetLoad(c)
  <2>1. /\ pc[c] = "Set" /\ pc' = [pc EXCEPT ![c] = "Fetch"] /\ KeepsLoads(mem, mem', c)
        /\ mem'.load = c
    BY <1>8, SetLoadIs
  <2>2. pc'[c] = "Fetch"
    BY <1>1, <2>1
  <2>3. QED
    BY <1>4, <2>1, <2>2 DEF LoadIn, Reportable, KeepsLoads, KeepsCalls
<1>9. CASE LoadGame(c)
  <2>1. /\ pc[c] = "Fetch" /\ pc' = [pc EXCEPT ![c] = "Wait"] /\ KeepsLoads(mem, mem', c)
        /\ mem.user \in {"None", "Requested", "LoggedIn"} /\ mem.load = c
        /\ \/ Errs(mem, mem', c)
           \/ /\ Fetches(mem, mem', c) /\ mem.user # "None"
              /\ at' = IF Asks(mem) THEN [at EXCEPT ![<<"fetch", c>>] = "Sent"] ELSE at
    BY <1>1, <1>9, LoadGameIs DEF Shape, LoadIn
  <2>2. pc'[c] = "Wait" /\ Reportable(c)' /\ ~Reports(mem, mem', c, FALSE)
    BY <1>1, <1>4, <1>5, <2>1 DEF Reportable, KeepsLoads, KeepsCalls
  <2>3. /\ Fetches(mem, mem', c) /\ mem.user # "None"
        /\ at' = IF Asks(mem) THEN [at EXCEPT ![<<"fetch", c>>] = "Sent"] ELSE at
    BY <2>1, <2>2 DEF Errs
  <2>4. CASE mem.user = "LoggedIn"
    <3>1. mem'.load = c /\ Fetching(c)' = "Sent"
      BY <2>1, <2>3, <2>4, RequestIs DEF Fetches, Asks, Fetching, Types
    <3>2. QED
      BY <2>2, <3>1 DEF LoadIn, Current, HasRequest
  <2>5. CASE mem.user = "Requested"
    <3>1. mem'.load = c /\ mem'.states[c].progress = "AwaitLogin" /\ mem'.user = "Requested"
      BY <2>1, <2>3, <2>5 DEF Fetches, KeepsLoads
    <3>2. QED
      BY <2>2, <3>1 DEF LoadIn, Current, AwaitsLogin
  <2>6. QED
    BY <2>1, <2>3, <2>4, <2>5
<1>10. QED
  BY <1>3, <1>6, <1>7, <1>8, <1>9

(* The answers to the load. *)
LEMMA AnswerGoesOn ==
    ASSUME Types, DoneInv, RequestInv, NEW c \in Loads, Unanswered(c), LoadIn(c), mem'.crash = "No",
           c \notin mem'.closed, Answering(c), AnswerOf(c)
    PROVE  LoadIn(c)'
<1>1. /\ mem \in Shape /\ c \in Calls /\ pc \in [Calls -> Places] /\ Alone(c) /\ Pending(c)
      /\ KeepsCalls(mem, mem') /\ mem'.user = mem.user /\ pc' = pc /\ seen' = seen
      /\ \A l \in Logins : Login(l)' = Login(l)
  <2>1. \A l \in Logins : <<"login", l>> \in Requests /\ <<"login", l>>[2] # c
    BY CallIs, RequestIs
  <2>2. QED
    BY <2>1, CallIs DEF Types, Unanswered, Answering, Login
<1>2. /\ Fetching(c) \in Stages /\ Session(c) \in Stages
      /\ Fetching(c) = at[<<"fetch", c>>] /\ Session(c) = at[<<"session", c>>]
      /\ RequestIn(Fetching(c), Session(c), mem.states[c].progress, mem.states[c].outstanding)
  BY RequestIs DEF Types, Fetching, Session, RequestInv, RequestOf
<1>3. /\ pc[c] \in {"Wait", "Waiting"} /\ Reportable(c) /\ Current(c)
      /\ AwaitsLogin(c) \/ HasRequest(c)
  <2>1. Fetching(c) # "None" \/ Session(c) # "None"
    BY <1>2 DEF Answering
  <2>2. pc[c] \notin Early
    BY <2>1 DEF DoneInv, EarlyInv
  <2>3. pc[c] \in {"Wait", "Waiting"}
    BY <1>1, <2>2 DEF Pending, Places, Early, Ended
  <2>4. QED
    BY <2>3 DEF LoadIn
<1>4. ASSUME NEW ok, Reports(mem, mem', c, ok) PROVE FALSE
  <2>1. mem.states[c].callback = TRUE /\ mem.userdata[c] = c
    <3>1. mem.states[c].callback \in BOOLEAN
      BY <1>1 DEF Shape, AnyLoadState
    <3>2. QED
      BY <1>3, <3>1 DEF Reportable
  <2>2. QED
    BY <1>1, <1>4, <2>1, LoadTold
<1>5. ASSUME mem'.states[c].callback = mem.states[c].callback,
             mem'.states[c].aborted = mem.states[c].aborted, Current(c)', (AwaitsLogin(c) \/ HasRequest(c))'
      PROVE  LoadIn(c)'
  BY <1>1, <1>3, <1>5 DEF LoadIn, Reportable, KeepsCalls
<1>6. ASSUME NEW r \in {<<"fetch", c>>, <<"session", c>>}, NEW to, at' = [at EXCEPT ![r] = to]
      PROVE  \/ Fetching(c)' = to /\ Session(c)' = Session(c) /\ at[r] = Fetching(c) /\ r = <<"fetch", c>>
             \/ Session(c)' = to /\ Fetching(c)' = Fetching(c) /\ at[r] = Session(c) /\ r = <<"session", c>>
  BY <1>2, <1>6, RequestMoves
<1>7. Fetching(c) \in {"Answered", "Processing"} \/ Session(c) = "Answered" => mem.load = c
  BY <1>2, <1>3 DEF Current, RequestIn, Ending
(* The load stays current, and one of its requests is still under way. *)
<1>8. ASSUME mem'.states[c].callback = mem.states[c].callback,
             mem'.states[c].aborted = mem.states[c].aborted,
             mem'.load = mem.load, HasRequest(c)',
             Fetching(c) = "Finish" => Fetching(c)' = "Finish",
             Session(c) = "Finish" => Session(c)' = "Finish"
      PROVE  LoadIn(c)'
  BY <1>3, <1>5, <1>8 DEF Current
<1>9. ASSUME NEW r \in {<<"fetch", c>>, <<"session", c>>}, EndAsync(r) PROVE LoadIn(c)'
  <2>1. at[r] = "Sent" /\ mem' = mem /\ at' = [at EXCEPT ![r] = "Answered"]
    BY <1>3, <1>9, EndAsyncIs DEF Reportable
  <2>2. QED
    BY <1>6, <1>8, <2>1 DEF HasRequest
<1>10. ASSUME NEW r \in {<<"fetch", c>>, <<"session", c>>}, AnswerFails(r) \/ Finish(r) PROVE LoadIn(c)'
  BY <1>4, <1>10, AnswerFailsIs, FinishStepIs DEF Drops
<1>11. ASSUME NEW r \in {<<"fetch", c>>, <<"session", c>>}, Activate(r) PROVE LoadIn(c)'
  <2>1. /\ at[r] = "Activate" /\ mem.load = c /\ at' = [at EXCEPT ![r] = "Enable"]
        /\ mem'.load = c
        /\ mem'.states[c].callback = mem.states[c].callback
        /\ mem'.states[c].aborted = mem.states[c].aborted
    BY <1>4, <1>11, ActivateIs DEF Drops
  <2>2. Current(c)' /\ HasRequest(c)'
    BY <1>6, <2>1 DEF Current, HasRequest, Ending
  <2>3. QED
    BY <1>5, <2>1, <2>2
<1>12. ASSUME NEW r \in {<<"fetch", c>>, <<"session", c>>}, Enable(r) PROVE LoadIn(c)'
  <2>1. at[r] = "Enable" /\ at' = [at EXCEPT ![r] = "Finish"] /\ mem'.states = mem.states
    BY <1>4, <1>12, EnableIs DEF Drops
  <2>2. Current(c)' /\ HasRequest(c)'
    BY <1>6, <2>1 DEF Current, HasRequest, Ending
  <2>3. QED
    BY <1>5, <2>1, <2>2
<1>13. ~FetchStale(c)
  BY <1>7, FetchStaleIs DEF Stale
<1>14. CASE FetchUnknown(c)
  <2>1. /\ Fetching(c) = "Answered" /\ at' = [at EXCEPT ![<<"fetch", c>>] = "Resolved"]
        /\ GoesOn(mem', c, Counted1(mem.states[c].outstanding))
    BY <1>14, FetchUnknownIs
  <2>2. Fetching(c)' = "Resolved" /\ Session(c)' = Session(c)
    BY <2>1, RequestMoves
  <2>3. QED
    BY <1>8, <2>1, <2>2 DEF GoesOn, HasRequest
<1>15. ~SetUnknown(c)
  BY <1>4, SetUnknownIs DEF Errs
<1>16. CASE FetchKnown(c)
  <2>1. /\ Fetching(c) = "Answered" /\ Fetching(c)' = "Processing" /\ Session(c)' = "Sent"
        /\ mem.load = c /\ GoesOn(mem', c, Counted1(mem.states[c].outstanding) + 2)
    BY <1>16, FetchKnownIs
  <2>2. Current(c)' /\ HasRequest(c)'
    BY <2>1 DEF GoesOn, HasRequest, Current
  <2>3. QED
    BY <1>5, <2>1, <2>2 DEF GoesOn
<1>17. ASSUME NEW found \in BOOLEAN, Processed(c, found) PROVE LoadIn(c)'
  <2>1. found /\ Fetching(c) = "Processing"
    BY <1>4, <1>17, ProcessedIs
  <2>2. /\ EndsLoad(mem, mem', c) /\ mem.load = c
        /\ at' = [at EXCEPT ![<<"fetch", c>>] =
                     IF mem'.states[c].outstanding = 0 THEN "Activate" ELSE "Done"]
    BY <1>7, <1>17, <2>1, ProcessedIs DEF Stale
  <2>3. /\ Fetching(c)' = (IF mem'.states[c].outstanding = 0 THEN "Activate" ELSE "Done")
        /\ Session(c)' = Session(c)
    BY <2>2, RequestMoves
  <2>4. mem'.states[c].outstanding # 0 => SessionOut(Session(c))
    <3>1. /\ mem'.states[c].outstanding = Counted1(mem.states[c].outstanding)
          /\ mem.states[c].outstanding = One(FetchOut(Fetching(c))) + One(SessionOut(Session(c)))
          /\ FetchOut(Fetching(c))
      BY <1>2, <2>1, <2>2 DEF EndsLoad, RequestIn, FetchOut
    <3>2. Counted1(mem.states[c].outstanding) = One(FALSE) + One(SessionOut(Session(c)))
      BY <3>1, CountOf
    <3>3. QED
      BY <3>1, <3>2 DEF One
  <2>5. HasRequest(c)'
    BY <2>3, <2>4 DEF HasRequest, SessionOut, Ending
  <2>6. QED
    BY <1>5, <2>2, <2>5 DEF EndsLoad, KeepsLoads, Current
<1>18. CASE SessionStarted(c)
  <2>1. Session(c) = "Answered" /\ mem.load = c
    BY <1>7, <1>18, SessionStartedIs
  <2>2. /\ EndsLoad(mem, mem', c)
        /\ at' = [at EXCEPT ![<<"session", c>>] =
                     IF mem'.states[c].outstanding = 0 THEN "Activate" ELSE "Store"]
    BY <1>18, <2>1, SessionStartedIs DEF Stale
  <2>3. /\ Session(c)' = (IF mem'.states[c].outstanding = 0 THEN "Activate" ELSE "Store")
        /\ Fetching(c)' = Fetching(c)
    BY <2>2, RequestMoves
  <2>4. mem'.states[c].outstanding # 0 => FetchOut(Fetching(c))
    <3>1. /\ mem'.states[c].outstanding = Counted1(mem.states[c].outstanding)
          /\ mem.states[c].outstanding = One(FetchOut(Fetching(c))) + One(SessionOut(Session(c)))
          /\ SessionOut(Session(c))
      BY <1>2, <2>1, <2>2 DEF EndsLoad, RequestIn, SessionOut
    <3>2. Counted1(mem.states[c].outstanding) = One(FetchOut(Fetching(c))) + One(FALSE)
      BY <3>1, CountOf
    <3>3. QED
      BY <3>1, <3>2 DEF One
  <2>5. HasRequest(c)'
    BY <2>3, <2>4 DEF HasRequest, FetchOut, Ending
  <2>6. QED
    BY <1>5, <2>1, <2>2, <2>5 DEF EndsLoad, KeepsLoads, Current
<1>19. CASE StoreSession(c)
  <2>1. /\ Session(c) = "Store" /\ at' = [at EXCEPT ![<<"session", c>>] = "Done"]
        /\ GoesOn(mem', c, mem.states[c].outstanding)
    BY <1>19, StoreSessionIs
  <2>2. Session(c)' = "Done" /\ Fetching(c)' = Fetching(c)
    BY <2>1, RequestMoves
  <2>3. Current(c)'
    BY <1>3, <2>1, <2>2 DEF Current, GoesOn
  <2>4. HasRequest(c) => HasRequest(c)'
    BY <2>1, <2>2 DEF HasRequest, Ending
  <2>5. AwaitsLogin(c) => AwaitsLogin(c)'
    BY <1>1, <2>1 DEF AwaitsLogin, GoesOn
  <2>6. QED
    BY <1>3, <1>5, <2>1, <2>3, <2>4, <2>5 DEF GoesOn
<1>20. QED
  BY <1>9, <1>10, <1>11, <1>12, <1>13, <1>14, <1>15, <1>16, <1>17, <1>18, <1>19 DEF AnswerOf

(* What the answers to the logins do to a load that is pending. *)
LEMMA LoginGoesOn ==
    ASSUME Types, DoneInv, RequestInv, NEW c \in Loads, Unanswered(c), LoadIn(c), mem'.crash = "No",
           c \notin mem'.closed, NEW l \in Logins,
           (\E ok \in BOOLEAN : LoginAnswered(l, ok)) \/ LoginDone(l)
    PROVE  LoadIn(c)'
<1>1. /\ mem \in Shape /\ c \in Calls /\ c # Nil /\ pc \in [Calls -> Places] /\ Alone(c) /\ Pending(c)
      /\ mem.user \in {"None", "Requested", "LoggedIn"}
      /\ \A a \in Logins : <<"login", a>> \in Requests
      /\ <<"fetch", c>> \in Requests /\ <<"session", c>> \in Requests
      /\ seen \in [Logins -> Loads \cup {Nil}]
  BY CallIs, RequestIs DEF Types, Shape, Unanswered
<1>2. RequestIn(Fetching(c), Session(c), mem.states[c].progress, mem.states[c].outstanding)
  BY DEF RequestInv, RequestOf
<1>3. AwaitsLogin(c) /\ Current(c) => mem.load = c
  BY <1>2 DEF AwaitsLogin, Current, RequestIn
<1>4. ASSUME NEW ok \in BOOLEAN, LoginAnswered(l, ok) PROVE LoadIn(c)'
  <2>1. /\ KeepsCalls(mem, mem') /\ mem'.states = mem.states /\ mem'.load = mem.load /\ pc' = pc
        /\ mem'.user # "Requested" /\ Login(l) = "Sent"
        /\ at' = [at EXCEPT ![<<"login", l>>] = IF ok THEN "Answered" ELSE "Resolved"]
        /\ seen' = [seen EXCEPT ![l] = mem.load]
    BY <1>4, LoginAnsweredIs
  <2>2. /\ Login(l)' \in {"Answered", "Resolved"} /\ \A a \in Logins \ {l} : Login(a)' = Login(a)
        /\ Fetching(c)' = Fetching(c) /\ Session(c)' = Session(c)
        /\ seen'[l] = mem.load /\ \A a \in Logins \ {l} : seen'[a] = seen[a]
    BY <1>1, <2>1 DEF Login, Fetching, Session, Types
  <2>3. AwaitsLogin(c) /\ Current(c) => AwaitsLogin(c)'
    BY <1>3, <2>1, <2>2 DEF AwaitsLogin
  <2>4. QED
    BY <2>1, <2>2, <2>3 DEF LoadIn, Reportable, Current, HasRequest, KeepsCalls
<1>5. CASE LoginDone(l)
  <2>1. PICK f \in Shape :
          /\ f = Fetched(mem, l) /\ f.crash = "No" /\ pc' = pc /\ seen' = seen
          /\ Login(l) \in {"Answered", "Resolved"}
          /\ at' = [r \in Requests |->
                       IF r = <<"login", l>> THEN "Done"
                       ELSE IF Waits(l) /\ Asks(mem) /\ r = <<"fetch", seen[l]>> THEN "Sent"
                       ELSE at[r]]
          /\ OnlyTold(f, mem') /\ f.closed \subseteq mem'.closed
    BY <1>5, LoginDoneIs DEF Tells, Quiet
  <2>2. /\ KeepsCalls(mem, f) /\ f.user = mem.user
        /\ \A d \in Loads : d # seen[l] => f.states[d] = mem.states[d]
        /\ f.states[c].callback = mem.states[c].callback
        /\ IF Waits(l) THEN Fetches(mem, f, seen[l]) ELSE f = mem
    BY <2>1, FetchedIs
  <2>3. /\ \A a \in Logins \ {l} : Login(a)' = Login(a)
        /\ Session(c)' = Session(c)
        /\ Fetching(c)' = IF Waits(l) /\ Asks(mem) /\ c = seen[l] THEN "Sent" ELSE Fetching(c)
    BY <1>1, <2>1 DEF Login, Session, Fetching
  <2>4. /\ mem'.userdata = mem.userdata /\ mem'.user = mem.user /\ mem'.load = f.load
        /\ mem'.states = f.states
    BY <2>1, <2>2 DEF OnlyTold, KeepsCalls
  <2>5. CASE ~Waits(l) \/ c # seen[l]
    <3>1. mem'.states[c] = mem.states[c] /\ Fetching(c)' = Fetching(c)
      BY <2>2, <2>3, <2>4, <2>5
    <3>2. mem.load = c => mem'.load = c
      BY <1>1, <2>2, <2>4, <2>5 DEF Fetches, Errs
    <3>3. AwaitsLogin(c) => AwaitsLogin(c)'
      BY <1>1, <2>1, <2>3, <2>4, <2>5, <3>1 DEF AwaitsLogin, Waits
    <3>4. QED
      BY <2>1, <2>3, <2>4, <3>1, <3>2, <3>3 DEF LoadIn, Reportable, Current, HasRequest
  <2>6. CASE Waits(l) /\ c = seen[l]
    <3>1. mem.states[c].progress = "AwaitLogin" /\ Fetches(mem, f, c)
      BY <2>2, <2>6 DEF Waits
    <3>2. pc[c] \notin Early
      BY <3>1 DEF DoneInv, EarlyInv
    <3>3. pc[c] \in {"Wait", "Waiting"} /\ Reportable(c) /\ Current(c)
      <4>1. pc[c] \in {"Wait", "Waiting"}
        BY <1>1, <3>2 DEF Pending, Places, Early, Ended
      <4>2. QED
        BY <4>1 DEF LoadIn
    <3>4. mem.load = c
      BY <1>2, <3>1, <3>3 DEF Current, RequestIn
    <3>5. mem.user # "None"
      <4>1. ASSUME mem.user = "None" PROVE FALSE
        <5>1. Reports(mem, f, c, FALSE)
          BY <3>1, <4>1 DEF Fetches, Errs
        <5>2. mem.states[c].callback = TRUE
          BY <1>1, <3>3 DEF Reportable, Shape, AnyLoadState
        <5>3. c \in f.closed
          BY <1>1, <3>3, <5>1, <5>2, LoadTold DEF Reportable
        <5>4. QED
          BY <2>1, <5>3
      <4>2. QED
        BY <4>1
    <3>6. Reportable(c)'
      BY <2>4, <3>1, <3>3 DEF Reportable, Fetches, KeepsLoads
    <3>7. mem'.load = c
      BY <1>1, <2>4, <3>1, <3>4, <3>5 DEF Fetches
    <3>8. AwaitsLogin(c)' \/ HasRequest(c)'
      <4>1. CASE mem.user = "Requested"
        BY <2>4, <3>1, <4>1 DEF AwaitsLogin, Fetches
      <4>2. CASE mem.user = "LoggedIn"
        BY <2>3, <2>6, <4>2 DEF HasRequest, Asks
      <4>3. QED
        BY <1>1, <3>5, <4>1, <4>2
    <3>9. QED
      BY <2>1, <3>3, <3>6, <3>7, <3>8 DEF LoadIn, Current
  <2>7. QED
    BY <2>5, <2>6
<1>6. QED
  BY <1>4, <1>5

LEMMA LoadKept ==
    ASSUME Types, DoneInv, RequestInv, LoginInv, LoadInv, Next, mem'.crash = "No"
    PROVE  LoadInv'
<1> SUFFICES ASSUME NEW c \in Loads, Unanswered(c)' PROVE LoadIn(c)'
  BY DEF LoadInv
<1>1. /\ mem \in Shape /\ mem.crash = "No" /\ c \in Calls /\ KindOf(c) = "load" /\ c \notin Logins
      /\ pc \in [Calls -> Places] /\ at \in [Requests -> Stages]
      /\ \A a \in Logins : a \in Calls /\ <<"login", a>> \in Requests
      /\ <<"fetch", c>> \in Requests /\ <<"session", c>> \in Requests
  BY Runs, CallIs, RequestIs DEF Types
<1>2. Alone(c) /\ c \notin mem'.closed /\ Alone(c)' /\ Pending(c)'
  BY <1>1, Advances DEF Unanswered, Alone
(* A step that the load does not see. *)
<1>3. ASSUME Pending(c), pc'[c] = pc[c] \/ (pc[c] = "Wait" /\ pc'[c] = "Waiting"),
             mem.closed \subseteq mem'.closed, mem'.userdata[c] = mem.userdata[c],
             mem'.states[c] = mem.states[c],
             mem.load = c => mem'.load = c, AwaitsLogin(c) => AwaitsLogin(c)',
             Fetching(c)' = Fetching(c), Session(c)' = Session(c)
      PROVE  LoadIn(c)'
  <2>1. LoadIn(c)
    BY <1>2, <1>3 DEF LoadInv, Unanswered
  <2>2. QED
    BY <1>3, <2>1 DEF LoadIn, Reportable, Current, HasRequest
<1>4. ASSUME NEW d \in Calls, Register(d) PROVE LoadIn(c)'
  <2>1. PICK k : k = KindOf(d)
    OBVIOUS
  <2>2. /\ mem'.closed = mem.closed /\ mem'.userdata = mem.userdata /\ mem'.user = mem.user
        /\ mem'.load = mem.load /\ mem'.states = mem.states
        /\ pc[d] = "Idle" /\ pc' = [pc EXCEPT ![d] = "Begin"]
        /\ UNCHANGED <<at, seen>>
    BY <1>4, <2>1, RegisterIs
  <2>3. CASE d = c
    <3>1. pc'[c] = "Begin"
      BY <1>1, <2>2, <2>3
    <3>2. QED
      BY <3>1 DEF LoadIn
  <2>4. CASE d # c
    <3>1. pc'[c] = pc[c] /\ Pending(c)
      BY <1>1, <1>2, <2>2, <2>4 DEF Pending
    <3>2. QED
      BY <1>3, <2>2, <3>1 DEF AwaitsLogin, Fetching, Session, Login
  <2>5. QED
    BY <2>3, <2>4
<1>5. ASSUME NEW d \in Calls, Wait(d) \/ Return(d) PROVE LoadIn(c)'
  <2>1. PICK k : k = KindOf(d)
    OBVIOUS
  <2>2. /\ mem'.closed = mem.closed /\ mem'.userdata = mem.userdata /\ mem'.user = mem.user
        /\ mem'.load = mem.load /\ mem'.states = mem.states /\ UNCHANGED <<at, seen>>
    BY <1>5, <2>1, ReturnIs DEF Quiet, Wait
  <2>3. /\ Pending(c)
        /\ pc'[c] = pc[c] \/ (pc[c] = "Wait" /\ pc'[c] = "Waiting")
    <3>1. CASE Wait(d)
      BY <1>1, <1>2, <3>1 DEF Wait, Pending, Ended
    <3>2. CASE Return(d)
      BY <1>1, <1>2, <2>1, <3>2, ReturnIs DEF Pending, Ended
    <3>3. QED
      BY <1>5, <3>1, <3>2
  <2>4. QED
    BY <1>3, <2>2, <2>3 DEF AwaitsLogin, Fetching, Session, Login
<1>6. ASSUME NEW l \in Logins, BeginLogin(l) PROVE LoadIn(c)'
  <2>1. /\ pc[l] = "Begin" /\ pc' = [pc EXCEPT ![l] = "Wait"]
        /\ mem'.states = mem.states /\ mem'.load = mem.load /\ seen' = seen
        /\ mem'.user = "Requested" \/ mem'.user = mem.user
        /\ at' = at \/ at' = [at EXCEPT ![<<"login", l>>] = "Sent"]
    BY <1>6, BeginLoginIs DEF OnlyTold
  <2>2. mem'.userdata[c] = mem.userdata[c] /\ mem.closed \subseteq mem'.closed
    <3>1. mem.userdata \in [Calls -> Calls \cup {Nil}]
      BY <1>1 DEF Shape
    <3>2. CASE mem.user = "Requested"
      <4>1. OnlyTold(mem, mem') /\ Tells(mem, mem', "login", mem.handle["login"], FALSE)
        BY <1>6, <3>2, BeginLoginIs
      <4>2. QED
        BY <4>1 DEF OnlyTold, Tells, Quiet
    <3>3. CASE mem.user # "Requested"
      <4>1. Quiet(mem, mem') /\ mem'.userdata = [mem.userdata EXCEPT ![l] = mem.handle["login"]]
        BY <1>6, <3>3, BeginLoginIs
      <4>2. QED
        BY <1>1, <3>1, <4>1 DEF Quiet
    <3>4. QED
      BY <3>2, <3>3
  <2>3. /\ Fetching(c)' = Fetching(c) /\ Session(c)' = Session(c)
        /\ \A a \in Logins \ {l} : Login(a)' = Login(a)
    BY <1>1, <2>1 DEF Fetching, Session, Login
  <2>4. Login(l) = "None"
    BY <2>1 DEF DoneInv, EarlyInv, Early
  <2>5. AwaitsLogin(c) => AwaitsLogin(c)'
    BY <2>1, <2>3, <2>4 DEF AwaitsLogin
  <2>6. pc'[c] = pc[c] /\ Pending(c)
    BY <1>1, <1>2, <2>1 DEF Pending
  <2>7. QED
    BY <1>3, <2>1, <2>2, <2>3, <2>5, <2>6
<1>7. ASSUME NEW d \in Loads, BeginLoad(d) \/ Attach(d) \/ Unload(d) \/ SetLoad(d) \/ LoadGame(d)
      PROVE  LoadIn(c)'
  <2>1. Pending(c)
    <3>1. d \in Calls /\ \E to : pc' = [pc EXCEPT ![d] = to]
      <4>1. \E to : pc' = [pc EXCEPT ![d] = to]
        BY <1>7 DEF BeginLoad, Attach, Unload, SetLoad, LoadGame
      <4>2. QED
        BY <4>1, CallIs
    <3>2. Pending(d)
      BY <1>7, BeginLoadIs, AttachIs, UnloadIs, SetLoadIs, LoadGameIs DEF Pending, Ended
    <3>3. QED
      BY <1>1, <1>2, <3>1, <3>2 DEF Pending
  <2>2. d = c
    BY <1>2, <1>7, <2>1, OnlyPending
  <2>3. Unanswered(c)
    BY <1>2, <1>7, <2>1, LoadCloses DEF Unanswered
  <2>4. QED
    BY <1>2, <1>7, <2>2, <2>3, LoadGoesOn
<1>8. ASSUME NEW l \in Logins, (\E ok \in BOOLEAN : LoginAnswered(l, ok)) \/ LoginDone(l)
      PROVE  LoadIn(c)'
  <2>1. pc' = pc /\ mem.closed \subseteq mem'.closed
    <3>1. mem.user \in {"None", "Requested", "LoggedIn"}
      BY <1>1 DEF Shape
    <3>2. ASSUME NEW ok \in BOOLEAN, LoginAnswered(l, ok) PROVE pc' = pc /\ mem.closed \subseteq mem'.closed
      BY <3>2, LoginAnsweredIs DEF Tells, Quiet
    <3>3. CASE LoginDone(l)
      <4>1. PICK f \in Shape :
              /\ f = Fetched(mem, l) /\ f.crash = "No" /\ pc' = pc
              /\ f.closed \subseteq mem'.closed
        BY <3>3, LoginDoneIs DEF Tells, Quiet
      <4>2. IF Waits(l) THEN Fetches(mem, f, seen[l]) ELSE f = mem
        BY <4>1, FetchedIs
      <4>3. mem.closed \subseteq f.closed
        BY <3>1, <4>2 DEF Fetches, Errs, Reports, Tells, Quiet
      <4>4. QED
        BY <4>1, <4>3
    <3>4. QED
      BY <1>8, <3>2, <3>3
  <2>2. Unanswered(c) /\ LoadIn(c)
    BY <1>2, <2>1 DEF Unanswered, Pending, LoadInv
  <2>3. QED
    BY <1>2, <1>8, <2>2, LoginGoesOn
<1>9. ASSUME NEW d \in Loads, Answering(d), AnswerOf(d) PROVE LoadIn(c)'
  <2>1. /\ KeepsCalls(mem, mem') /\ mem'.user = mem.user /\ pc' = pc /\ seen' = seen
        /\ \A e \in Loads \ {d} : mem'.states[e] = mem.states[e]
        /\ mem'.load # mem.load => mem.load = d
        /\ \A r \in Requests : r[2] # d => at'[r] = at[r]
    BY <1>9 DEF Answering
  <2>2. mem.closed \subseteq mem'.closed
    BY <1>9, LoadCloses
  <2>3. Unanswered(c) /\ LoadIn(c)
    BY <1>2, <2>1, <2>2 DEF Unanswered, Pending, LoadInv
  <2>4. CASE d = c
    BY <1>2, <1>9, <2>3, <2>4, AnswerGoesOn
  <2>5. CASE d # c
    <3>1. \A a \in Logins : Login(a)' = Login(a)
      BY <1>9, LoadCloses
    <3>2. Fetching(c)' = Fetching(c) /\ Session(c)' = Session(c)
      BY <1>1, <2>1, <2>5 DEF Fetching, Session
    <3>3. QED
      BY <1>3, <2>1, <2>2, <2>3, <2>5, <3>1, <3>2 DEF AwaitsLogin, KeepsCalls, Unanswered
  <2>6. QED
    BY <2>4, <2>5
<1>10. QED
  BY <1>4, <1>5, <1>6, <1>7, <1>8, <1>9, StepIs

LEMMA LoadFirst == Init => LoadInv
<1> SUFFICES ASSUME Init, NEW c \in Loads PROVE ~Unanswered(c)
  BY DEF LoadInv
<1>1. c \in Calls /\ pc[c] = "Idle"
  BY CallIs DEF Init
<1>2. QED
  BY <1>1 DEF Unanswered, Pending

-----------------------------------------------------------------------------
(* What the calls, their requests and the shared memory keep of one another while
   the program runs. *)
CallsInv == DoneInv /\ RequestInv /\ LoginInv /\ LoadInv

LEMMA CallsInvKept == Types /\ (Running => CallsInv) /\ [Next]_vars => (Running => CallsInv)'
<1> SUFFICES ASSUME Types, Running => CallsInv, [Next]_vars, Running' PROVE CallsInv'
  OBVIOUS
<1>1. CASE UNCHANGED vars
  <2>1. Running
    BY <1>1 DEF vars, Running
  <2>2. QED
    BY <1>1, <2>1 DEF vars, CallsInv, DoneInv, CallsIn, CallIn, OneEach, EarlyInv, AnsweredInv, WaitsInv,
              RequestInv, RequestOf, LoginInv, LoginIn, LoadInv, LoadIn, Unanswered, Reportable, Current,
              HasRequest, AwaitsLogin, Alone, Pending, Fetching, Session, Login
<1>2. CASE Next
  <2>1. CallsInv /\ mem'.crash = "No"
    BY <1>2, Runs DEF Running
  <2>2. DoneInv'
    BY <2>1, <1>2, DoneKept DEF CallsInv, Running
  <2>3. RequestInv'
    BY <1>2, <2>1, RequestKept DEF CallsInv, DoneInv
  <2>4. LoginInv' /\ LoadInv'
    BY <1>2, <2>1, LoginKept, LoadKept DEF CallsInv
  <2>5. QED
    BY <2>2, <2>3, <2>4 DEF CallsInv
<1>3. QED
  BY <1>1, <1>2

(* A call that waits alone of its kind, and has not been told, has a request out or
   an answer under way, or waits for a login that has: no answer, error or abort is
   lost between the requests of rc_client.c and the channel of the call. *)
THEOREM NobodyForgottenHolds == Spec => []NobodyForgotten
<1>1. Init => Types /\ (Running => CallsInv)
  BY TypesFirst, DoneFirst, RequestFirst, LoginFirst, LoadFirst DEF CallsInv
<1>2. Types /\ (Running => CallsInv) /\ [Next]_vars => Types' /\ (Running => CallsInv)'
  BY TypesKept, CallsInvKept
<1>3. Types /\ (Running => CallsInv) => NobodyForgotten
  <2> SUFFICES ASSUME Types, CallsInv, NEW c \in Calls, pc[c] = "Waiting", waitsOn[c] \notin mem.closed, Alone(c)
               PROVE  \E r \in Requests :
                          /\ at[r] \notin {"None", "Done"}
                          /\ \/ r[2] = c
                             \/ /\ c \in Loads
                                /\ mem.states[c].progress = "AwaitLogin"
                                /\ r[1] = "login"
                                /\ at[r] = "Sent" \/ seen[r[2]] = c
    BY DEF NobodyForgotten, Running, Alone
  <2>1. c \notin mem.closed /\ Pending(c)
    BY DEF CallsInv, DoneInv, WaitsInv, Pending, Ended
  <2>2. CASE c \in Logins
    <3>1. Login(c) \in {"Sent", "Answered"}
      BY <2>1, <2>2 DEF CallsInv, LoginInv, LoginIn
    <3>2. <<"login", c>> \in Requests /\ <<"login", c>>[2] = c
      BY <2>2 DEF Requests
    <3>3. QED
      BY <3>1, <3>2 DEF Login
  <2>3. CASE c \in Loads
    <3>1. AwaitsLogin(c) \/ HasRequest(c)
      BY <2>1, <2>3 DEF CallsInv, LoadInv, LoadIn, Unanswered
    <3>2. CASE HasRequest(c)
      <4>1. \E r \in {<<"fetch", c>>, <<"session", c>>} : at[r] \notin {"None", "Done"}
        BY <3>2 DEF HasRequest, Ending, Fetching, Session
      <4>2. \A r \in {<<"fetch", c>>, <<"session", c>>} : r \in Requests /\ r[2] = c
        BY <2>3 DEF Requests
      <4>3. QED
        BY <4>1, <4>2
    <3>3. CASE AwaitsLogin(c)
      <4>1. PICK a \in Logins : \/ Login(a) = "Sent"
                                \/ Login(a) \in {"Answered", "Resolved"} /\ seen[a] = c
        BY <3>3 DEF AwaitsLogin, CallsInv, LoginInv
      <4>2. /\ <<"login", a>> \in Requests
            /\ <<"login", a>>[1] = "login" /\ <<"login", a>>[2] = a
        BY DEF Requests
      <4>3. QED
        BY <2>3, <3>3, <4>1, <4>2 DEF Login, AwaitsLogin
    <3>4. QED
      BY <3>1, <3>2, <3>3
  <2>4. QED
    BY <2>2, <2>3 DEF Calls
<1>4. QED
  BY <1>1, <1>2, <1>3, PTL DEF Spec

(***************************************************************************
 The panics.  Unless two calls of a kind were pending at once, or the server sent
 a game without sets, a load that was told of its end (its channel is closed) is
 heard of no more: none of its requests can still get to a callback, it does not
 wait for a login, and its state is not one that a new load would abort.
 ***************************************************************************)
Unmixed == overlapped = {} /\ emptied = {}

ToldIn(c) ==
    /\ Fetching(c) \in {"None", "Processing", "Done"}
    /\ Fetching(c) = "Processing" => mem.states[c].progress = "Aborted"
    /\ Session(c) \in {"None", "Store", "Done"}
    /\ mem.states[c].progress # "AwaitLogin"
    /\ mem.load = c => ~mem.states[c].live

ToldInv == Unmixed => \A c \in Loads : c \in mem.closed => ToldIn(c)

LEMMA UnmixedBefore ==
    ASSUME Types, Next, Unmixed'
    PROVE  Unmixed /\ overlapped' = {} /\ emptied' = {}
<1>1. overlapped = {} /\ overlapped' = {} /\ emptied' = {}
  BY Advances DEF Unmixed
<1>2. emptied \subseteq emptied'
  <2>1. ASSUME NEW c \in Calls, Register(c) \/ Wait(c) \/ Return(c) PROVE emptied' = emptied
    BY <2>1 DEF Register, Wait, Return, history
  <2>2. ASSUME NEW c \in Logins, BeginLogin(c) \/ (\E ok \in BOOLEAN : LoginAnswered(c, ok)) \/ LoginDone(c)
        PROVE  emptied' = emptied
    BY <2>2 DEF BeginLogin, LoginAnswered, LoginDone, history
  <2>3. ASSUME NEW c \in Loads, BeginLoad(c) \/ Attach(c) \/ Unload(c) \/ SetLoad(c) \/ LoadGame(c)
        PROVE  emptied' = emptied
    BY <2>3 DEF BeginLoad, Attach, Unload, SetLoad, LoadGame, history
  <2>4. ASSUME NEW c \in Loads, Answering(c) PROVE emptied \subseteq emptied'
    BY <2>4 DEF Answering
  <2>5. QED
    BY <2>1, <2>2, <2>3, <2>4, StepIs
<1>3. QED
  BY <1>1, <1>2 DEF Unmixed

(* To tell a load closes no other channel than its own, and only while it is
   pending. *)
LEMMA TellsItself ==
    ASSUME DoneInv, overlapped = {}, NEW d \in Loads,
           NEW m, m.live = mem.live, m.channel = mem.channel, m.closed = mem.closed,
           m.userdata[d] = mem.userdata[d],
           NEW n, \E ok : Reports(m, n, d, ok) \/ Quiet(m, n)
    PROVE  \/ n.closed = mem.closed
           \/ Pending(d) /\ n.closed = mem.closed \cup {d}
<1>1. d \in Calls /\ KindOf(d) = "load" /\ Alone(d)
  BY CallIs DEF Alone
<1>2. CallIn(mem, pc, succeeded, d)
  BY <1>1 DEF DoneInv, CallsIn
<1>3. ASSUME n.closed # mem.closed
      PROVE  Pending(d) /\ n.closed = mem.closed \cup {d}
  <2>1. /\ mem.userdata[d] # Nil /\ mem.userdata[d] \in mem.live
        /\ n.closed = mem.closed \cup {mem.channel["load"]}
    BY <1>3 DEF Reports, Tells, Quiet
  <2>2. d \in mem.live
    BY <1>2, <2>1 DEF CallIn
  <2>3. Pending(d) /\ mem.channel["load"] = d
    BY <1>1, <1>2, <2>2 DEF CallIn, Pending
  <2>4. QED
    BY <2>1, <2>3
<1>4. QED
  BY <1>3

(* A load is told too late only when it was told before. *)
LEMMA LateTold ==
    ASSUME DoneInv, overlapped = {}, NEW d \in Loads, pc[d] # "Idle",
           NEW m, m.live = mem.live, m.channel = mem.channel, m.closed = mem.closed,
           m.userdata[d] = mem.userdata[d], LateLoad(m, d)
    PROVE  d \in mem.closed
<1>1. d \in Calls /\ KindOf(d) = "load" /\ Alone(d)
  BY CallIs DEF Alone
<1>2. CallIn(mem, pc, succeeded, d)
  BY <1>1 DEF DoneInv, CallsIn
<1>3. /\ mem.userdata[d] # Nil
      /\ mem.userdata[d] \notin mem.live \/ mem.channel["load"] \in mem.closed
  BY DEF LateLoad, Late
<1>4. mem.userdata[d] = d
  BY <1>2, <1>3 DEF CallIn
<1>5. CASE Pending(d)
  BY <1>1, <1>2, <1>3, <1>4, <1>5 DEF CallIn, Pending
<1>6. CASE ~Pending(d)
  BY <1>2, <1>6 DEF CallIn, Pending
<1>7. QED
  BY <1>5, <1>6

(* A load that was told has been asked for, and one that has a request out is not at
   its beginning. *)
LEMMA EarlyUntold ==
    ASSUME DoneInv, overlapped = {}, NEW d \in Calls, pc[d] \in Early
    PROVE  d \notin mem.closed
<1>1. Alone(d)
  BY DEF Alone
<1>2. QED
  BY <1>1 DEF DoneInv, CallsIn, CallIn

(* The answers to a load: one that was told has only its sets to put away or its
   session to store, and one that is told now has no other request that could tell. *)
LEMMA AnswerTold ==
    ASSUME Types, DoneInv, RequestInv, LoadInv, overlapped = {}, NEW c \in Loads,
           c \in mem.closed => ToldIn(c), Answering(c), AnswerOf(c),
           mem'.crash = "No", emptied' = {}, c \in mem'.closed
    PROVE  ToldIn(c)'
<1>1. /\ mem \in Shape /\ c \in Calls /\ pc \in [Calls -> Places] /\ Alone(c)
      /\ Fetching(c) \in Stages /\ Session(c) \in Stages
      /\ Fetching(c) = at[<<"fetch", c>>] /\ Session(c) = at[<<"session", c>>]
      /\ RequestIn(Fetching(c), Session(c), mem.states[c].progress, mem.states[c].outstanding)
  BY CallIs, RequestIs DEF Types, Fetching, Session, RequestInv, RequestOf, Alone
<1>2. pc[c] \notin Early
  <2>1. Fetching(c) # "None" \/ Session(c) # "None"
    BY <1>1 DEF Answering
  <2>2. QED
    BY <2>1 DEF DoneInv, EarlyInv
<1>3. ASSUME NEW r \in {<<"fetch", c>>, <<"session", c>>}, NEW to, at' = [at EXCEPT ![r] = to]
      PROVE  \/ Fetching(c)' = to /\ Session(c)' = Session(c) /\ at[r] = Fetching(c) /\ r = <<"fetch", c>>
             \/ Session(c)' = to /\ Fetching(c)' = Fetching(c) /\ at[r] = Session(c) /\ r = <<"session", c>>
  BY <1>1, <1>3, RequestMoves
<1>4. ASSUME Quiet(mem, mem') PROVE ToldIn(c)
  BY <1>4 DEF Quiet
(* A load that is untold is current while its requests are out. *)
<1>5. \/ c \in mem.closed
      \/ Quiet(mem, mem')
      \/ Fetching(c) \in {"Answered", "Processing"} \/ Session(c) = "Answered" => mem.load = c
  <2> SUFFICES ASSUME c \notin mem.closed, ~Quiet(mem, mem')
               PROVE  Fetching(c) \in {"Answered", "Processing"} \/ Session(c) = "Answered" => mem.load = c
    OBVIOUS
  <2>1. Pending(c)
    <3>1. PICK ok : Reports(mem, mem', c, ok)
      BY DEF Answering
    <3>2. \/ mem'.closed = mem.closed
          \/ Pending(c) /\ mem'.closed = mem.closed \cup {c}
      BY <3>1, TellsItself
    <3>3. QED
      BY <3>2
  <2>2. pc[c] \in {"Wait", "Waiting"} /\ LoadIn(c)
    BY <1>1, <1>2, <2>1 DEF LoadInv, Unanswered, Pending, Places, Early, Ended
  <2>3. QED
    BY <1>1, <2>2 DEF LoadIn, Current, RequestIn, Ending
<1>6. ASSUME NEW r \in {<<"fetch", c>>, <<"session", c>>}, EndAsync(r) PROVE ToldIn(c)'
  <2>1. at[r] = "Sent" /\ Quiet(mem, mem')
    BY <1>6, EndAsyncIs DEF Aborts, Quiet
  <2>2. QED
    BY <1>1, <1>4, <2>1 DEF ToldIn
<1>7. ASSUME NEW r \in {<<"fetch", c>>, <<"session", c>>}, AnswerFails(r) PROVE ToldIn(c)'
  <2>1. /\ at[r] = "Answered" /\ at' = [at EXCEPT ![r] = "Done"]
        /\ mem'.load # c /\ mem'.states[c].progress = "Aborted"
    BY <1>7, AnswerFailsIs, CallIs
  <2>2. QED
    BY <1>1, <1>3, <2>1 DEF ToldIn, RequestIn, Ending, Stages
(* The load is dropped at its end: it is freed. *)
<1>8. ASSUME NEW r \in {<<"fetch", c>>, <<"session", c>>}, at[r] \in Ending,
             NEW ok, Drops(mem, mem', c, ok), at' = [at EXCEPT ![r] = "Done"]
      PROVE  ToldIn(c)'
  <2>1. /\ mem'.states[c].live = FALSE /\ mem'.states[c].progress \in {mem.states[c].progress, "Aborted"}
    <3>1. mem'.states[c].live \in BOOLEAN
      BY DEF Answering, Shape, AnyLoadState
    <3>2. QED
      BY <1>8, <3>1 DEF Drops
  <2>2. QED
    BY <1>1, <1>3, <1>8, <2>1 DEF ToldIn, RequestIn, Ending, Stages
<1>9. ASSUME NEW r \in {<<"fetch", c>>, <<"session", c>>}, Activate(r) \/ Enable(r) \/ Finish(r)
      PROVE  ToldIn(c)'
  <2>1. CASE Quiet(mem, mem')
    <3>1. at[r] \in Ending
      BY <1>9, ActivateIs, EnableIs, FinishStepIs DEF Ending
    <3>2. QED
      BY <1>1, <1>4, <2>1, <3>1 DEF ToldIn, Ending
  <2>2. CASE ~Quiet(mem, mem')
    <3>1. /\ at[r] \in Ending /\ at' = [at EXCEPT ![r] = "Done"]
          /\ \E ok : Drops(mem, mem', c, ok)
      <4>1. CASE Activate(r)
        BY <2>2, <4>1, ActivateIs DEF Ending
      <4>2. CASE Enable(r)
        BY <2>2, <4>2, EnableIs DEF Ending
      <4>3. CASE Finish(r)
        BY <4>3, FinishStepIs DEF Ending
      <4>4. QED
        BY <1>9, <4>1, <4>2, <4>3
    <3>2. QED
      BY <1>8, <3>1
  <2>3. QED
    BY <2>1, <2>2
<1>10. CASE FetchStale(c)
  <2>1. Fetching(c) = "Answered" /\ mem.load # c
    BY <1>10, FetchStaleIs DEF Stale
  <2>2. QED
    BY <1>4, <1>5, <2>1 DEF ToldIn
<1>11. CASE FetchUnknown(c) \/ FetchKnown(c)
  <2>1. Fetching(c) = "Answered" /\ Quiet(mem, mem')
    BY <1>11, FetchUnknownIs, FetchKnownIs DEF GoesOn
  <2>2. QED
    BY <1>4, <2>1 DEF ToldIn
<1>12. CASE SetUnknown(c)
  <2>1. /\ Fetching(c) = "Resolved" /\ at' = [at EXCEPT ![<<"fetch", c>>] = "Done"]
        /\ Errs(mem, mem', c)
    BY <1>12, SetUnknownIs
  <2>2. QED
    BY <1>1, <1>3, <2>1, CallIs DEF ToldIn, RequestIn, Errs
<1>13. ASSUME NEW found \in BOOLEAN, Processed(c, found) PROVE ToldIn(c)'
  <2>1. Fetching(c) = "Processing" /\ found
    BY <1>13, ProcessedIs
  <2>2. /\ EndsLoad(mem, mem', c)
        /\ at' = [at EXCEPT ![<<"fetch", c>>] =
                     IF ~Stale(mem, c) /\ mem'.states[c].outstanding = 0 THEN "Activate" ELSE "Done"]
    BY <1>13, <2>1, ProcessedIs
  <2>3. CASE c \in mem.closed
    <3>1. mem.load # c
      BY <2>2, <2>3 DEF ToldIn, EndsLoad
    <3>2. Fetching(c)' = "Done" /\ Session(c)' = Session(c)
      <4>1. at' = [at EXCEPT ![<<"fetch", c>>] = "Done"]
        BY <2>2, <3>1 DEF Stale
      <4>2. QED
        BY <4>1, RequestMoves
    <3>3. QED
      BY <2>2, <2>3, <3>1, <3>2 DEF ToldIn, EndsLoad
  <2>4. CASE c \notin mem.closed
    <3>1. Quiet(mem, mem')
      BY <1>5, <2>1, <2>2, <2>4 DEF EndsLoad, EndsUntold, LastOf, Stale
    <3>2. QED
      BY <2>4, <3>1 DEF Quiet
  <2>5. QED
    BY <2>3, <2>4
<1>14. CASE SessionStarted(c)
  <2>1. Session(c) = "Answered" /\ EndsLoad(mem, mem', c)
    BY <1>14, SessionStartedIs
  <2>2. Quiet(mem, mem')
    BY <1>5, <2>1 DEF ToldIn, EndsLoad, EndsUntold, LastOf, Stale
  <2>3. QED
    BY <1>4, <2>1, <2>2 DEF ToldIn
<1>15. CASE StoreSession(c)
  <2>1. /\ Session(c) = "Store" /\ at' = [at EXCEPT ![<<"session", c>>] = "Done"]
        /\ GoesOn(mem', c, mem.states[c].outstanding)
    BY <1>15, StoreSessionIs
  <2>2. Session(c)' = "Done" /\ Fetching(c)' = Fetching(c)
    BY <2>1, RequestMoves
  <2>3. QED
    BY <1>4, <2>1, <2>2 DEF ToldIn, GoesOn
<1>16. QED
  BY <1>6, <1>7, <1>9, <1>10, <1>11, <1>12, <1>13, <1>14, <1>15 DEF AnswerOf

(* The steps of a load's own call. *)
LEMMA CallStepTold ==
    ASSUME Types, DoneInv, overlapped = {}, NEW c \in Loads, c \in mem.closed => ToldIn(c),
           NEW d \in Loads, mem'.crash = "No", c \in mem'.closed,
           BeginLoad(d) \/ Attach(d) \/ Unload(d) \/ SetLoad(d) \/ LoadGame(d)
    PROVE  ToldIn(c)'
<1>1. /\ mem \in Shape /\ c \in Calls /\ d \in Calls /\ KindOf(c) = "load" /\ KindOf(d) = "load"
      /\ c # Nil /\ <<"fetch", c>> \in Requests /\ <<"session", c>> \in Requests
      /\ at \in [Requests -> Stages] /\ mem.load \in Loads \cup {Nil}
      /\ \A e \in Calls : Alone(e)
  BY CallIs, RequestIs DEF Types, Shape, Alone
<1>2. pc[d] \in Early \ {"Idle"} /\ d \notin mem.closed
  <2>1. pc[d] \in Early \ {"Idle"}
    BY BeginLoadIs, AttachIs, UnloadIs, SetLoadIs, LoadGameIs DEF Early
  <2>2. QED
    BY <1>1, <2>1, EarlyUntold
<1>3. /\ Fetching(d) = "None" /\ Session(d) = "None" /\ mem.states[d].progress = "Started"
      /\ pc[d] # "Fetch" => mem.load # d
  BY <1>2 DEF DoneInv, EarlyInv
<1>4. at' = at \/ (LoadGame(d) /\ at' = [at EXCEPT ![<<"fetch", d>>] = "Sent"])
  BY BeginLoadIs, AttachIs, UnloadIs, SetLoadIs, LoadGameIs
(* The other loads. *)
<1>5. ASSUME c # d, c \in mem.closed, mem'.states[c].live = mem.states[c].live,
             mem'.states[c].progress = mem.states[c].progress, mem'.load \in {mem.load, Nil, d}
      PROVE  ToldIn(c)'
  <2>1. Fetching(c)' = Fetching(c) /\ Session(c)' = Session(c)
    BY <1>1, <1>4, <1>5 DEF Fetching, Session
  <2>2. QED
    BY <1>1, <1>5, <2>1 DEF ToldIn
<1>6. CASE BeginLoad(d)
  <2>1. mem.load = Nil => Begun(d, mem')
    BY <1>6, BeginLoadIs
  <2>2. mem.load # Nil => \E b \in Shape : /\ Begun(d, b) /\ OnlyTold(b, mem')
                                           /\ Reports(b, mem', mem.load, FALSE)
    BY <1>6, BeginLoadIs
  <2>3. PICK b : Begun(d, b) /\ OnlyTold(b, mem') /\ mem'.closed = mem.closed
    <3>1. CASE mem.load = Nil
      BY <2>1, <3>1 DEF Begun, OnlyTold, Quiet
    <3>2. CASE mem.load # Nil
      <4>1. PICK b \in Shape : Begun(d, b) /\ OnlyTold(b, mem') /\ Reports(b, mem', mem.load, FALSE)
        BY <2>2, <3>2
      <4>2. PICK e \in Loads : e = mem.load
        BY <1>1, <3>2
      <4>3. e # d
        BY <1>2, <1>3, <1>6, <4>2, BeginLoadIs
      <4>4. /\ b.live = mem.live /\ b.channel = mem.channel /\ b.closed = mem.closed
            /\ b.userdata[e] = mem.userdata[e]
        <5>1. mem.userdata \in [Calls -> Calls \cup {Nil}] /\ e \in Calls
          BY <1>1, CallIs DEF Shape
        <5>2. QED
          BY <4>1, <4>3, <5>1 DEF Begun, Quiet
      <4>5. \/ mem'.closed = mem.closed
            \/ Pending(e) /\ mem'.closed = mem.closed \cup {e}
        <5>1. \E ok : Reports(b, mem', e, ok) \/ Quiet(b, mem')
          BY <4>1, <4>2
        <5>2. QED
          BY <4>4, <5>1, TellsItself
      <4>6. ~Pending(e)
        <5>1. Pending(d) /\ e \in Calls /\ KindOf(e) = "load"
          BY <1>2, CallIs DEF Pending, Early, Ended
        <5>2. QED
          BY <1>1, <4>3, <5>1 DEF DoneInv, OneEach
      <4>7. QED
        BY <4>1, <4>5, <4>6
    <3>3. QED
      BY <3>1, <3>2
  <2>4. c # d
    BY <1>2, <2>3
  <2>5. QED
    BY <1>5, <2>3, <2>4 DEF Begun, OnlyTold
<1>7. CASE Attach(d)
  <2>1. CASE mem.load = Nil
    <3>1. mem' = mem
      BY <1>7, <2>1, AttachIs
    <3>2. QED
      BY <1>2, <1>5, <3>1
  <2>2. CASE mem.load # Nil
    <3>1. Drops(mem, mem', d, FALSE)
      BY <1>7, <2>2, AttachIs
    <3>2. c \in mem.closed \/ c = d
      <4>1. \E ok : Reports(mem, mem', d, ok) \/ Quiet(mem, mem')
        BY <3>1 DEF Drops
      <4>2. QED
        BY <4>1, TellsItself
    <3>3. CASE c # d
      BY <1>5, <3>1, <3>2, <3>3 DEF Drops, KeepsLoads
    <3>4. CASE c = d
      <4>1. at' = at /\ mem.load # c
        BY <1>3, <1>7, <3>4, AttachIs
      <4>2. QED
        BY <1>3, <3>1, <3>4, <4>1 DEF Drops, ToldIn, Fetching, Session
    <3>5. QED
      BY <3>3, <3>4
  <2>3. QED
    BY <2>1, <2>2
<1>8. CASE Unload(d)
  BY <1>2, <1>5, <1>8, UnloadIs DEF Quiet
<1>9. CASE SetLoad(d)
  BY <1>2, <1>5, <1>9, SetLoadIs DEF Quiet, KeepsLoads
<1>10. CASE LoadGame(d)
  <2>1. \/ Errs(mem, mem', d) /\ at' = at
        \/ KeepsLoads(mem, mem', d) /\ Quiet(mem, mem') /\ mem'.load = mem.load
    <3>1. mem.user \in {"None", "Requested", "LoggedIn"}
      BY <1>1 DEF Shape
    <3>2. QED
      BY <1>10, <3>1, LoadGameIs DEF Fetches
  <2>2. c \in mem.closed \/ c = d
    <3>1. \E ok : Reports(mem, mem', d, ok) \/ Quiet(mem, mem')
      BY <2>1 DEF Errs
    <3>2. QED
      BY <3>1, TellsItself
  <2>3. CASE c # d
    BY <1>5, <2>1, <2>2, <2>3 DEF Errs, KeepsLoads
  <2>4. CASE c = d
    <3>1. Errs(mem, mem', d) /\ at' = at
      BY <1>2, <2>1, <2>4 DEF Quiet
    <3>2. QED
      BY <1>1, <1>3, <2>4, <3>1 DEF Errs, ToldIn, Fetching, Session
  <2>5. QED
    BY <2>3, <2>4
<1>11. QED
  BY <1>6, <1>7, <1>8, <1>9, <1>10

(* The answers to the logins: the load that waited for one is told when it failed. *)
LEMMA LoginTells ==
    ASSUME Types, DoneInv, RequestInv, overlapped = {}, NEW c \in Loads, c \in mem.closed => ToldIn(c),
           NEW l \in Logins, mem'.crash = "No", c \in mem'.closed,
           BeginLogin(l) \/ (\E ok \in BOOLEAN : LoginAnswered(l, ok)) \/ LoginDone(l)
    PROVE  ToldIn(c)'
<1>1. /\ mem \in Shape /\ c \in Calls /\ c \notin Logins /\ c # Nil /\ KindOf(c) = "load"
      /\ <<"fetch", c>> \in Requests /\ <<"session", c>> \in Requests
      /\ at \in [Requests -> Stages] /\ seen[l] \in Loads \cup {Nil}
      /\ mem.user \in {"None", "Requested", "LoggedIn"}
  BY CallIs, RequestIs DEF Types, Shape
<1>2. mem.channel["login"] # c
  BY <1>1, CallIs DEF DoneInv, KindsIn, Kinds
<1>3. ASSUME c \in mem.closed, mem'.states[c] = mem.states[c], mem'.load \in {mem.load, Nil},
             Fetching(c)' = Fetching(c), Session(c)' = Session(c)
      PROVE  ToldIn(c)'
  BY <1>1, <1>3 DEF ToldIn
<1>4. CASE BeginLogin(l)
  <2>1. /\ mem'.states = mem.states /\ mem'.load = mem.load
        /\ at' = at \/ at' = [at EXCEPT ![<<"login", l>>] = "Sent"]
        /\ Quiet(mem, mem') \/ Tells(mem, mem', "login", mem.handle["login"], FALSE)
    BY <1>4, BeginLoginIs
  <2>2. Fetching(c)' = Fetching(c) /\ Session(c)' = Session(c)
    BY <1>1, <2>1 DEF Fetching, Session
  <2>3. QED
    BY <1>2, <1>3, <2>1, <2>2 DEF Quiet, Tells
<1>5. ASSUME NEW ok \in BOOLEAN, LoginAnswered(l, ok) PROVE ToldIn(c)'
  <2>1. /\ mem'.states = mem.states /\ mem'.load = mem.load
        /\ \E to : at' = [at EXCEPT ![<<"login", l>>] = to]
        /\ Quiet(mem, mem') \/ Tells(mem, mem', "login", mem.userdata[l], FALSE)
    BY <1>5, LoginAnsweredIs
  <2>2. Fetching(c)' = Fetching(c) /\ Session(c)' = Session(c)
    BY <1>1, <2>1 DEF Fetching, Session
  <2>3. QED
    BY <1>2, <1>3, <2>1, <2>2 DEF Quiet, Tells
<1>6. CASE LoginDone(l)
  <2>1. PICK f \in Shape :
          /\ f = Fetched(mem, l) /\ f.crash = "No" /\ OnlyTold(f, mem')
          /\ Tells(f, mem', "login", mem.userdata[l], TRUE) \/ Quiet(f, mem')
          /\ at' = [r \in Requests |->
                      IF r = <<"login", l>> THEN "Done"
                      ELSE IF Waits(l) /\ Asks(mem) /\ r = <<"fetch", seen[l]>> THEN "Sent"
                      ELSE at[r]]
    BY <1>6, LoginDoneIs
  <2>2. /\ KeepsCalls(mem, f) /\ f.load \in {mem.load, Nil}
        /\ IF Waits(l) THEN Fetches(mem, f, seen[l]) ELSE f = mem
    BY <2>1, FetchedIs
  <2>3. c \in f.closed /\ mem'.states = f.states /\ mem'.load = f.load
    BY <1>2, <2>1, <2>2 DEF OnlyTold, Tells, Quiet, KeepsCalls
  <2>4. CASE ~Waits(l)
    <3>1. Fetching(c)' = Fetching(c) /\ Session(c)' = Session(c)
      BY <1>1, <2>1, <2>4 DEF Fetching, Session
    <3>2. QED
      BY <1>3, <2>2, <2>3, <2>4, <3>1
  <2>5. CASE Waits(l)
    <3>1. PICK d \in Loads : d = seen[l]
      BY <1>1, <2>5 DEF Waits
    <3>2. mem.states[d].progress = "AwaitLogin" /\ Fetches(mem, f, d)
      BY <2>2, <2>5, <3>1 DEF Waits
    <3>3. \/ Quiet(mem, f)
          \/ mem.user = "None" /\ Errs(mem, f, d)
      BY <1>1, <3>2 DEF Fetches
    <3>4. c \in mem.closed \/ c = d
      <4>1. \E ok : Reports(mem, f, d, ok) \/ Quiet(mem, f)
        BY <3>3 DEF Errs
      <4>2. QED
        BY <2>3, <4>1, TellsItself
    <3>5. CASE c # d
      <4>1. Fetching(c)' = Fetching(c) /\ Session(c)' = Session(c)
        BY <1>1, <2>1, <3>1, <3>5 DEF Fetching, Session
      <4>2. mem'.states[c] = mem.states[c]
        BY <2>3, <3>2, <3>5 DEF Fetches, KeepsLoads
      <4>3. QED
        BY <1>3, <2>2, <2>3, <3>4, <3>5, <4>1, <4>2
    <3>6. CASE c = d
      <4>1. c \notin mem.closed
        BY <3>2, <3>6 DEF ToldIn
      <4>2. mem.user = "None" /\ Errs(mem, f, c)
        BY <2>3, <3>3, <3>6, <4>1 DEF Quiet
      <4>3. Fetching(c) = "None" /\ Session(c) = "None"
        BY <3>2, <3>6 DEF RequestInv, RequestOf, RequestIn
      <4>4. Fetching(c)' = Fetching(c) /\ Session(c)' = Session(c)
        BY <1>1, <2>1, <4>2 DEF Fetching, Session, Asks
      <4>5. QED
        BY <1>1, <2>3, <4>2, <4>3, <4>4 DEF Errs, ToldIn
    <3>7. QED
      BY <3>5, <3>6
  <2>6. QED
    BY <2>4, <2>5
<1>7. QED
  BY <1>4, <1>5, <1>6

LEMMA ToldKept ==
    ASSUME Types, CallsInv, ToldInv, Next, mem'.crash = "No"
    PROVE  ToldInv'
<1> SUFFICES ASSUME Unmixed', NEW c \in Loads, c \in mem'.closed PROVE ToldIn(c)'
  BY DEF ToldInv
<1>1. overlapped = {} /\ emptied' = {} /\ (c \in mem.closed => ToldIn(c))
  BY UnmixedBefore DEF Unmixed, ToldInv
<1>2. DoneInv /\ RequestInv /\ LoadInv
  BY DEF CallsInv
<1>3. ASSUME NEW d \in Calls, Register(d) \/ Wait(d) \/ Return(d) PROVE ToldIn(c)'
  <2>1. PICK k : k = KindOf(d)
    OBVIOUS
  <2>2. /\ mem'.closed = mem.closed /\ mem'.load = mem.load /\ mem'.states = mem.states /\ at' = at
    BY <1>3, <2>1, RegisterIs, ReturnIs DEF Quiet, Wait
  <2>3. QED
    BY <1>1, <2>2 DEF ToldIn, Fetching, Session
<1>4. ASSUME NEW d \in Loads, Answering(d), AnswerOf(d) PROVE ToldIn(c)'
  <2>1. CASE d = c
    BY <1>1, <1>2, <1>4, <2>1, AnswerTold
  <2>2. CASE d # c
    <3>1. \/ mem'.closed = mem.closed
          \/ Pending(d) /\ mem'.closed = mem.closed \cup {d}
      <4>1. \E ok : Reports(mem, mem', d, ok) \/ Quiet(mem, mem')
        BY <1>4 DEF Answering
      <4>2. QED
        BY <1>1, <1>2, <4>1, TellsItself
    <3>2. /\ mem'.states[c] = mem.states[c] /\ mem'.load \in {mem.load, Nil} /\ c # Nil
          /\ Fetching(c)' = Fetching(c) /\ Session(c)' = Session(c)
      <4>1. <<"fetch", c>> \in Requests /\ <<"session", c>> \in Requests /\ c # Nil
        BY RequestIs, CallIs
      <4>2. QED
        BY <1>4, <2>2, <4>1 DEF Answering, Fetching, Session
    <3>3. QED
      BY <1>1, <2>2, <3>1, <3>2 DEF ToldIn
  <2>3. QED
    BY <2>1, <2>2
<1>5. QED
  BY <1>1, <1>2, <1>3, <1>4, CallStepTold, LoginTells, StepIs

(* No step of a load's own call panics ... *)
LEMMA CallStepCalm ==
    ASSUME Types, DoneInv, ToldInv, Unmixed, mem.crash = "No", NEW d \in Loads,
           BeginLoad(d) \/ Attach(d) \/ Unload(d) \/ SetLoad(d) \/ LoadGame(d)
    PROVE  mem'.crash # "Panic"
<1>1. /\ mem \in Shape /\ d \in Calls /\ KindOf(d) = "load" /\ overlapped = {}
      /\ mem.load \in Loads \cup {Nil} /\ \A e \in Calls : Alone(e)
  BY CallIs DEF Types, Shape, Alone, Unmixed
<1>2. pc[d] \in Early \ {"Idle"} /\ d \notin mem.closed
  <2>1. pc[d] \in Early \ {"Idle"}
    BY BeginLoadIs, AttachIs, UnloadIs, SetLoadIs, LoadGameIs DEF Early
  <2>2. QED
    BY <1>1, <2>1, EarlyUntold
<1>3. ~LateLoad(mem, d)
  BY <1>1, <1>2, LateTold
<1>4. ASSUME BeginLoad(d), mem'.crash = "Panic" PROVE FALSE
  <2>1. mem.load # Nil
    BY <1>4, BeginLoadIs
  <2>2. PICK e \in Loads : e = mem.load
    BY <1>1, <2>1
  <2>3. /\ mem.states[e].live
        /\ \E b \in Shape : Begun(d, b) /\ LateLoad(b, e)
    <3>1. /\ mem.states[mem.load].live
          /\ \E b \in Shape : Begun(d, b) /\ LateLoad(b, mem.load)
      BY <1>4, <2>1, BeginLoadIs
    <3>2. QED
      BY <2>2, <3>1
  <2>4. PICK b \in Shape : Begun(d, b) /\ LateLoad(b, e)
    BY <2>3
  <2>5. e # d
    BY <1>2, <1>4, <2>2, BeginLoadIs DEF DoneInv, EarlyInv
  <2>6. pc[e] # "Idle"
    BY <2>2 DEF DoneInv, EarlyInv, Early
  <2>7. /\ b.live = mem.live /\ b.channel = mem.channel /\ b.closed = mem.closed
        /\ b.userdata[e] = mem.userdata[e]
    <3>1. mem.userdata \in [Calls -> Calls \cup {Nil}] /\ e \in Calls
      BY <1>1, CallIs DEF Shape
    <3>2. QED
      BY <1>1, <2>4, <2>5, <3>1 DEF Begun, Quiet
  <2>8. e \in mem.closed
    BY <1>1, <2>4, <2>6, <2>7, LateTold
  <2>9. QED
    BY <2>2, <2>3, <2>8 DEF ToldInv, ToldIn
<1>5. ASSUME Attach(d) \/ LoadGame(d) PROVE mem'.crash # "Panic"
  <2>1. CASE Attach(d)
    BY <1>3, <2>1, AttachIs
  <2>2. CASE LoadGame(d)
    BY <1>3, <2>2, LoadGameIs
  <2>3. QED
    BY <1>5, <2>1, <2>2
<1>6. QED
  BY <1>4, <1>5, UnloadIs, SetLoadIs

(* ... nor of a login, whose channel is open until its own answer ... *)
LEMMA LoginCalm ==
    ASSUME Types, DoneInv, RequestInv, LoginInv, ToldInv, Unmixed, mem.crash = "No", NEW l \in Logins,
           BeginLogin(l) \/ (\E ok \in BOOLEAN : LoginAnswered(l, ok)) \/ LoginDone(l)
    PROVE  mem'.crash # "Panic"
<1>1. /\ mem \in Shape /\ l \in Calls /\ KindOf(l) = "login" /\ overlapped = {} /\ Alone(l) /\ l # Nil
      /\ CallIn(mem, pc, succeeded, l) /\ LoginIn(l) /\ seen[l] \in Loads \cup {Nil}
  BY CallIs DEF Types, Alone, Unmixed, DoneInv, CallsIn, LoginInv
(* The login is pending while its request is out. *)
<1>2. ASSUME Login(l) \in {"Sent", "Answered"}
      PROVE  /\ mem.userdata[l] = l /\ l \in mem.live /\ l \notin mem.closed
             /\ mem.channel["login"] = l
  <2>1. l \notin mem.closed /\ mem.userdata[l] = l
    BY <1>1, <1>2 DEF LoginIn
  <2>2. pc[l] \notin Early
    BY <1>2 DEF DoneInv, EarlyInv
  <2>3. pc[l] \notin {"Idle"} \cup Ended
    BY <1>1, <2>1, <2>2 DEF CallIn, Early
  <2>4. QED
    BY <1>1, <2>1, <2>3 DEF CallIn
<1>3. CASE BeginLogin(l)
  <2>1. pc[l] = "Begin"
    BY <1>3, BeginLoginIs
  <2>2. l \notin mem.closed
    BY <1>1, <2>1, EarlyUntold DEF Early
  <2>3. l \in mem.live /\ mem.channel["login"] = l /\ mem.handle["login"] = l
    BY <1>1, <2>1 DEF CallIn, Ended
  <2>4. ~Late(mem, "login", mem.handle["login"])
    BY <2>2, <2>3 DEF Late
  <2>5. mem.user = "Requested" \/ mem.user # "Requested"
    OBVIOUS
  <2>6. QED
    BY <1>3, <2>4, <2>5, BeginLoginIs
<1>4. ASSUME NEW ok \in BOOLEAN, LoginAnswered(l, ok) PROVE mem'.crash # "Panic"
  <2>1. Login(l) = "Sent" /\ (mem'.crash = "Panic" => Late(mem, "login", mem.userdata[l]))
    BY <1>4, LoginAnsweredIs
  <2>2. QED
    BY <1>2, <2>1 DEF Late
<1>5. ASSUME LoginDone(l), mem'.crash = "Panic" PROVE FALSE
  <2>1. PICK f \in Shape :
          /\ f = Fetched(mem, l)
          /\ \/ f.crash = "Panic"
             \/ f.crash = "No" /\ Login(l) = "Answered" /\ Late(f, "login", mem.userdata[l])
    BY <1>5, LoginDoneIs
  <2>2. CASE f.crash = "Panic"
    <3>1. Waits(l) /\ LateLoad(mem, seen[l])
      BY <2>1, <2>2, FetchedIs
    <3>2. PICK d \in Loads : d = seen[l]
      BY <1>1, <3>1 DEF Waits
    <3>3. mem.states[d].progress = "AwaitLogin" /\ LateLoad(mem, d)
      BY <3>1, <3>2 DEF Waits
    <3>4. pc[d] # "Idle"
      BY <3>3 DEF DoneInv, EarlyInv, Early
    <3>5. d \in mem.closed
      BY <1>1, <3>3, <3>4, LateTold
    <3>6. QED
      BY <3>3, <3>5 DEF ToldInv, ToldIn
  <2>3. CASE f.crash = "No"
    <3>1. Login(l) = "Answered" /\ Late(f, "login", mem.userdata[l])
      BY <2>1, <2>3
    <3>2. /\ KeepsCalls(mem, f)
          /\ IF Waits(l) THEN Fetches(mem, f, seen[l]) ELSE f = mem
      BY <2>1, <2>3, FetchedIs
    <3>3. l \notin f.closed
      <4>1. mem.user \in {"None", "Requested", "LoggedIn"}
        BY <1>1 DEF Shape
      <4>2. f.closed = mem.closed \/ f.closed = mem.closed \cup {mem.channel["load"]}
        BY <3>2, <4>1 DEF Fetches, Errs, Reports, Tells, Quiet
      <4>3. mem.channel["load"] # l
        BY <1>1 DEF DoneInv, KindsIn, Kinds
      <4>4. QED
        BY <1>2, <3>1, <4>2, <4>3
    <3>4. QED
      BY <1>2, <3>1, <3>2, <3>3 DEF Late, KeepsCalls
  <2>4. QED
    BY <2>1, <2>2, <2>3
<1>6. QED
  BY <1>3, <1>4, <1>5

(* ... nor of an answer to a load: none is out for a load that was told. *)
LEMMA AnswerCalm ==
    ASSUME Types, DoneInv, RequestInv, ToldInv, Unmixed, emptied' = {}, NEW c \in Loads,
           Answering(c), AnswerOf(c)
    PROVE  mem'.crash # "Panic"
<1>1. /\ Fetching(c) \in Stages /\ Session(c) \in Stages
      /\ Fetching(c) = at[<<"fetch", c>>] /\ Session(c) = at[<<"session", c>>]
      /\ RequestIn(Fetching(c), Session(c), mem.states[c].progress, mem.states[c].outstanding)
  BY RequestIs DEF Types, Fetching, Session, RequestInv, RequestOf
<1>2. LateLoad(mem, c) => ToldIn(c)
  <2>1. Fetching(c) # "None" \/ Session(c) # "None"
    BY <1>1 DEF Answering
  <2>2. pc[c] # "Idle"
    BY <2>1 DEF DoneInv, EarlyInv, Early
  <2>3. QED
    BY <2>2, LateTold DEF ToldInv, Unmixed
<1>3. ASSUME NEW r \in {<<"fetch", c>>, <<"session", c>>}, EndAsync(r) \/ AnswerFails(r)
      PROVE  mem'.crash # "Panic"
  BY <1>1, <1>2, <1>3, EndAsyncIs, AnswerFailsIs DEF ToldIn
<1>4. ASSUME NEW r \in {<<"fetch", c>>, <<"session", c>>}, Activate(r) \/ Enable(r) \/ Finish(r)
      PROVE  mem'.crash # "Panic"
  BY <1>1, <1>2, <1>4, ActivateIs, EnableIs, FinishStepIs DEF ToldIn
<1>5. CASE FetchStale(c) \/ FetchUnknown(c) \/ FetchKnown(c)
  BY <1>2, <1>5, FetchStaleIs, FetchUnknownIs, FetchKnownIs DEF ToldIn
<1>6. CASE SetUnknown(c)
  BY <1>2, <1>6, SetUnknownIs DEF ToldIn
<1>7. ASSUME NEW found \in BOOLEAN, Processed(c, found) PROVE mem'.crash # "Panic"
  <2>1. Fetching(c) = "Processing" /\ found
    BY <1>7, ProcessedIs
  <2>2. mem'.crash = "Panic" => LateLoad(mem, c) /\ EndsUntold(mem, c)
    BY <1>7, <2>1, ProcessedIs
  <2>3. QED
    BY <1>2, <2>1, <2>2 DEF ToldIn, EndsUntold
<1>8. CASE SessionStarted(c) \/ StoreSession(c)
  BY <1>2, <1>8, SessionStartedIs, StoreSessionIs DEF ToldIn
<1>9. QED
  BY <1>3, <1>4, <1>5, <1>6, <1>7, <1>8 DEF AnswerOf

(* A call returns with its own handle. *)
LEMMA ReturnCalm ==
    ASSUME Types, DoneInv, Unmixed, mem.crash = "No", NEW c \in Calls, Return(c)
    PROVE  mem'.crash # "Panic"
<1>1. PICK k : k = KindOf(c)
  OBVIOUS
<1>2. pc[c] = "Waiting" /\ (mem.handle[k] # Nil => mem'.crash = mem.crash)
  BY <1>1, ReturnIs
<1>3. mem.handle[k] = c
  BY <1>1, <1>2 DEF Unmixed, Alone, DoneInv, CallsIn, CallIn, Ended
<1>4. QED
  BY <1>2, <1>3, CallIs

(* The wrapper panics only if two calls of a kind were pending at once, or the server
   sent a game without sets: else each channel is closed once, by a handle that is
   still there. *)
THEOREM PanicExplainedHolds == Spec => []PanicExplained
<1>1. Init => Types /\ (Running => CallsInv /\ ToldInv) /\ PanicExplained
  <2> SUFFICES ASSUME Init PROVE CallsInv /\ ToldInv /\ PanicExplained /\ Types
    OBVIOUS
  <2>1. mem.closed = {} /\ mem.crash = "No"
    BY DEF Init
  <2>2. QED
    BY <2>1, TypesFirst, DoneFirst, RequestFirst, LoginFirst, LoadFirst DEF CallsInv, ToldInv, PanicExplained
<1>2. Types /\ (Running => CallsInv /\ ToldInv) /\ PanicExplained /\ [Next]_vars
        => Types' /\ (Running => CallsInv /\ ToldInv)' /\ PanicExplained'
  <2> SUFFICES ASSUME Types, Running => CallsInv /\ ToldInv, PanicExplained, [Next]_vars
               PROVE  (Running => CallsInv /\ ToldInv)' /\ PanicExplained'
    BY TypesKept
  <2>1. CASE UNCHANGED vars
    <3>1. PanicExplained' /\ (Running' <=> Running)
      BY <2>1 DEF vars, PanicExplained, Running
    <3>2. Running => ToldInv'
      BY <2>1 DEF vars, ToldInv, Unmixed, ToldIn, Fetching, Session
    <3>3. Running => CallsInv'
      BY <3>1, CallsInvKept
    <3>4. QED
      BY <3>1, <3>2, <3>3
  <2>2. CASE Next
    <3>1. mem.crash = "No" /\ CallsInv /\ ToldInv /\ DoneInv /\ RequestInv /\ LoginInv
      BY <2>2, Runs DEF Running, CallsInv
    <3>2. (Running => CallsInv)'
      BY <3>1, CallsInvKept
    <3>3. (Running => ToldInv)'
      BY <2>2, <3>1, ToldKept DEF Running
    <3>4. ASSUME Unmixed' PROVE mem'.crash # "Panic"
      <4>1. Unmixed /\ emptied' = {}
        BY <2>2, <3>4, UnmixedBefore
      <4>2. ASSUME NEW c \in Calls, Register(c) \/ Wait(c) PROVE mem'.crash = mem.crash
        <5>1. PICK k : k = KindOf(c)
          OBVIOUS
        <5>2. QED
          BY <4>2, <5>1, RegisterIs DEF Wait
      <4>3. QED
        BY <2>2, <3>1, <4>1, <4>2, StepIs, ReturnCalm, CallStepCalm, LoginCalm, AnswerCalm
    <3>5. PanicExplained'
      BY <3>4 DEF PanicExplained, Unmixed
    <3>6. QED
      BY <3>2, <3>3, <3>5
  <2>3. QED
    BY <2>1, <2>2
<1>3. QED
  BY <1>1, <1>2, PTL DEF Spec

-----------------------------------------------------------------------------
(***************************************************************************
 RcAward: the queue, the connection and the progress indicator.
 ***************************************************************************)

(* The queue of callbacks: what is put in and taken out, and that nothing is in it
   twice. *)
LEMMA ConcatIs ==
  ASSUME NEW S, NEW s \in Seq(S), NEW t \in Seq(S)
  PROVE  /\ s \o t \in Seq(S) /\ Len(s \o t) = Len(s) + Len(t)
         /\ \A j \in 1..(Len(s) + Len(t)) :
               (s \o t)[j] = IF j <= Len(s) THEN s[j] ELSE t[j - Len(s)]
  OBVIOUS

LEMMA InsertAtIs ==
  ASSUME NEW S, NEW q \in Seq(S), NEW i \in 1..(Len(q) + 1), NEW x \in S
  PROVE  /\ InsertAt(q, i, x) \in Seq(S) /\ Len(InsertAt(q, i, x)) = Len(q) + 1
         /\ \A j \in 1..(Len(q) + 1) :
               InsertAt(q, i, x)[j] = IF j < i THEN q[j] ELSE IF j = i THEN x ELSE q[j - 1]
<1> DEFINE front == SubSeq(q, 1, i - 1)
           back == SubSeq(q, i, Len(q))
<1>1. /\ front \in Seq(S) /\ Len(front) = i - 1
      /\ \A j \in 1..(i - 1) : front[j] = q[j]
  OBVIOUS
<1>2. /\ back \in Seq(S) /\ Len(back) = Len(q) + 1 - i
      /\ \A j \in 1..(Len(q) + 1 - i) : back[j] = q[j + i - 1]
  OBVIOUS
<1>3. InsertAt(q, i, x) = (front \o <<x>>) \o back
  BY DEF InsertAt
<1> HIDE DEF front, back
<1> DEFINE most == front \o <<x>>
<1>4. /\ most \in Seq(S) /\ Len(most) = i
      /\ \A j \in 1..i : most[j] = IF j < i THEN q[j] ELSE x
  BY <1>1
<1> HIDE DEF most
<1>5. /\ most \o back \in Seq(S) /\ Len(most \o back) = Len(q) + 1
      /\ \A j \in 1..(Len(q) + 1) : (most \o back)[j] = IF j <= i THEN most[j] ELSE back[j - i]
  <2>1. Len(most) + Len(back) = Len(q) + 1 /\ Len(most) = i
    BY <1>2, <1>4
  <2>2. /\ most \o back \in Seq(S) /\ Len(most \o back) = Len(most) + Len(back)
        /\ \A j \in 1..(Len(most) + Len(back)) :
              (most \o back)[j] = IF j <= Len(most) THEN most[j] ELSE back[j - Len(most)]
    BY <1>2, <1>4, ConcatIs
  <2> QED
    BY <2>1, <2>2
<1>6. InsertAt(q, i, x) = most \o back
  BY <1>3 DEF most
<1>7. ASSUME NEW j \in 1..(Len(q) + 1)
      PROVE  (most \o back)[j] = IF j < i THEN q[j] ELSE IF j = i THEN x ELSE q[j - 1]
  <2>1. CASE j <= i
    BY <1>4, <1>5, <2>1
  <2>2. CASE ~(j <= i)
    <3>1. j - i \in 1..(Len(q) + 1 - i) /\ j - i + i - 1 = j - 1
      BY <2>2
    <3>2. back[j - i] = q[j - 1]
      BY <1>2, <3>1
    <3> QED
      BY <1>5, <2>2, <3>2
  <2> QED
    BY <2>1, <2>2
<1> QED
  BY <1>5, <1>6, <1>7

LEMMA RemoveAtIs ==
  ASSUME NEW S, NEW q \in Seq(S), NEW i \in 1..Len(q)
  PROVE  /\ RemoveAt(q, i) \in Seq(S) /\ Len(RemoveAt(q, i)) = Len(q) - 1
         /\ \A j \in 1..(Len(q) - 1) : RemoveAt(q, i)[j] = IF j < i THEN q[j] ELSE q[j + 1]
<1> DEFINE front == SubSeq(q, 1, i - 1)
           back == SubSeq(q, i + 1, Len(q))
<1>1. /\ front \in Seq(S) /\ Len(front) = i - 1
      /\ \A j \in 1..(i - 1) : front[j] = q[j]
  OBVIOUS
<1>2. /\ back \in Seq(S) /\ Len(back) = Len(q) - i
      /\ \A j \in 1..(Len(q) - i) : back[j] = q[j + i]
  OBVIOUS
<1>3. RemoveAt(q, i) = front \o back
  BY DEF RemoveAt
<1> HIDE DEF front, back
<1>4. /\ front \o back \in Seq(S) /\ Len(front \o back) = Len(q) - 1
      /\ \A j \in 1..(Len(q) - 1) : (front \o back)[j] = IF j <= i - 1 THEN front[j] ELSE back[j - (i - 1)]
  <2>1. Len(front) + Len(back) = Len(q) - 1 /\ Len(front) = i - 1
    BY <1>1, <1>2
  <2>2. /\ front \o back \in Seq(S) /\ Len(front \o back) = Len(front) + Len(back)
        /\ \A j \in 1..(Len(front) + Len(back)) :
              (front \o back)[j] = IF j <= Len(front) THEN front[j] ELSE back[j - Len(front)]
    BY <1>1, <1>2, ConcatIs
  <2> QED
    BY <2>1, <2>2
<1>5. ASSUME NEW j \in 1..(Len(q) - 1)
      PROVE  (front \o back)[j] = IF j < i THEN q[j] ELSE q[j + 1]
  <2>1. CASE j < i
    BY <1>1, <1>4, <2>1
  <2>2. CASE ~(j < i)
    <3>1. j - (i - 1) \in 1..(Len(q) - i) /\ j - (i - 1) + i = j + 1
      BY <2>2
    <3> QED
      BY <1>2, <1>4, <2>2, <3>1
  <2> QED
    BY <2>1, <2>2
<1> QED
  BY <1>3, <1>4, <1>5

LEMMA LeastOf ==
  ASSUME NEW n \in Nat, NEW S \in SUBSET (1..n), S # {}
  PROVE  \E i \in S : \A j \in S : i <= j
<1>1. S \subseteq Nat
  OBVIOUS
<1>2. PICK i \in S : \A j \in S : ~(<<j, i>> \in OpToRel(<, Nat))
  BY <1>1, WFMin, NatLessThanWellFounded, Zenon
<1>3. \A j \in S : ~(j < i)
  BY <1>1, <1>2, Zenon DEF OpToRel
<1> QED
  BY <1>1, <1>3

(* Every callback is in the queue once. *)
Callbacks == Posts \cup {Hide}
InQueue(q) == {q[i] : i \in 1..Len(q)}
Once(q) == q \in Seq(Callbacks) /\ \A i, j \in 1..Len(q) : q[i] = q[j] => i = j

LEMMA InsertedOnce ==
  ASSUME NEW q, Once(q), NEW x \in Callbacks, x \notin InQueue(q), NEW seconds
  PROVE  Once(Inserted(q, x, seconds)) /\ InQueue(Inserted(q, x, seconds)) = InQueue(q) \cup {x}
<1> DEFINE later == {i \in DOMAIN q : due[q[i]] > seconds}
           place == IF later = {} THEN Len(q) + 1 ELSE CHOOSE i \in later : \A j \in later : i <= j
<1>1. later \in SUBSET (1..Len(q)) /\ q \in Seq(Callbacks) /\ Len(q) \in Nat
  BY DEF Once
<1>2. place \in 1..(Len(q) + 1)
  <2>1. CASE later = {}
    BY <1>1, <2>1
  <2>2. CASE later # {}
    <3>1. \E i \in later : \A j \in later : i <= j
      BY <1>1, <2>2, LeastOf
    <3> QED
      BY <1>1, <2>2, <3>1
  <2> QED
    BY <2>1, <2>2
<1>3. Inserted(q, x, seconds) = InsertAt(q, place, x)
  BY DEF Inserted
<1> HIDE DEF place, later
<1> DEFINE r == InsertAt(q, place, x)
<1>4. /\ r \in Seq(Callbacks) /\ Len(r) = Len(q) + 1
      /\ \A j \in 1..(Len(q) + 1) : r[j] = IF j < place THEN q[j] ELSE IF j = place THEN x ELSE q[j - 1]
  BY <1>1, <1>2, InsertAtIs
<1> HIDE DEF r
<1>5. \A i \in 1..Len(q) : r[IF i < place THEN i ELSE i + 1] = q[i]
  BY <1>1, <1>2, <1>4
<1>6. \A i \in 1..Len(q) : q[i] # x
  BY DEF InQueue
<1> DEFINE old(k) == IF k < place THEN k ELSE k - 1
<1>7. \A k \in 1..Len(r) : k # place => old(k) \in 1..Len(q) /\ r[k] = q[old(k)]
  BY <1>1, <1>2, <1>4
<1>8. \A k, l \in 1..Len(r) : k # place /\ l # place /\ old(k) = old(l) => k = l
  BY <1>1, <1>2, <1>4
<1> HIDE DEF old
<1>9. r[place] = x
  BY <1>1, <1>2, <1>4
<1>10. Once(r)
  <2> SUFFICES ASSUME NEW k \in 1..Len(r), NEW l \in 1..Len(r), r[k] = r[l]
               PROVE  k = l
    BY <1>4 DEF Once
  <2>1. CASE k = place \/ l = place
    BY <2>1, <1>6, <1>7, <1>9
  <2>2. CASE k # place /\ l # place
    <3>1. old(k) = old(l)
      BY <2>2, <1>7 DEF Once
    <3> QED
      BY <2>2, <3>1, <1>8
  <2> QED
    BY <2>1, <2>2
<1>11. InQueue(r) = InQueue(q) \cup {x}
  <2>1. ASSUME NEW y \in InQueue(r) PROVE y \in InQueue(q) \cup {x}
    BY <2>1, <1>7, <1>9 DEF InQueue
  <2>2. ASSUME NEW y \in InQueue(q) PROVE y \in InQueue(r)
    <3>1. PICK i \in 1..Len(q) : y = q[i]
      BY DEF InQueue
    <3>2. (IF i < place THEN i ELSE i + 1) \in 1..Len(r)
      BY <1>1, <1>2, <1>4
    <3> QED
      BY <3>1, <3>2, <1>5 DEF InQueue
  <2>3. x \in InQueue(r)
    BY <1>1, <1>2, <1>4 DEF InQueue
  <2> QED
    BY <2>1, <2>2, <2>3
<1> QED
  BY <1>3, <1>10, <1>11 DEF r

LEMMA WithoutOnce ==
  ASSUME NEW q, Once(q), NEW x
  PROVE  Once(Without(q, x)) /\ InQueue(Without(q, x)) = InQueue(q) \ {x}
<1>1. q \in Seq(Callbacks) /\ Len(q) \in Nat /\ ToSet(q) = InQueue(q)
  BY DEF Once, ToSet, InQueue
<1>2. CASE x \notin InQueue(q)
  BY <1>1, <1>2 DEF Without
<1>3. CASE x \in InQueue(q)
  <2> DEFINE i == CHOOSE i \in DOMAIN q : q[i] = x
             r == RemoveAt(q, i)
  <2>1. i \in 1..Len(q) /\ q[i] = x
    BY <1>1, <1>3 DEF InQueue
  <2>2. Without(q, x) = r
    BY <1>1, <1>3 DEF Without
  <2> HIDE DEF i
  <2>3. /\ r \in Seq(Callbacks) /\ Len(r) = Len(q) - 1
        /\ \A j \in 1..(Len(q) - 1) : r[j] = IF j < i THEN q[j] ELSE q[j + 1]
    BY <1>1, <2>1, RemoveAtIs
  <2> HIDE DEF r
  <2>4. Once(r)
    <3> SUFFICES ASSUME NEW j \in 1..Len(r), NEW k \in 1..Len(r), r[j] = r[k]
                 PROVE  j = k
      BY <2>3 DEF Once
    <3> DEFINE old(l) == IF l < i THEN l ELSE l + 1
    <3>1. old(j) \in 1..Len(q) /\ old(k) \in 1..Len(q) /\ r[j] = q[old(j)] /\ r[k] = q[old(k)]
      BY <1>1, <2>1, <2>3
    <3>2. old(j) = old(k)
      BY <3>1 DEF Once
    <3> QED
      BY <1>1, <2>1, <2>3, <3>2
  <2>5. InQueue(r) = InQueue(q) \ {x}
    <3>1. ASSUME NEW y \in InQueue(r) PROVE y \in InQueue(q) \ {x}
      <4>1. PICK j \in 1..Len(r) : y = r[j]
        BY DEF InQueue
      <4> DEFINE l == IF j < i THEN j ELSE j + 1
      <4>2. l \in 1..Len(q) /\ y = q[l] /\ l # i
        BY <1>1, <2>1, <2>3, <4>1
      <4> HIDE DEF l
      <4> QED
        BY <4>2, <2>1 DEF InQueue, Once
    <3>2. ASSUME NEW y \in InQueue(q), y # x PROVE y \in InQueue(r)
      <4>1. PICK l \in 1..Len(q) : y = q[l]
        BY DEF InQueue
      <4> DEFINE j == IF l < i THEN l ELSE l - 1
      <4>2. j \in 1..Len(r) /\ y = r[j]
        BY <1>1, <2>1, <2>3, <3>2, <4>1
      <4> HIDE DEF j
      <4> QED
        BY <4>2 DEF InQueue
    <3> QED
      BY <3>1, <3>2
  <2> QED
    BY <2>2, <2>4, <2>5
<1> QED
  BY <1>2, <1>3

LEMMA TailOnce ==
  ASSUME NEW q, Once(q), q # <<>>
  PROVE  /\ Once(Tail(q)) /\ InQueue(Tail(q)) = InQueue(q) \ {Head(q)}
         /\ Head(q) \in InQueue(q) /\ Head(q) \in Callbacks
<1>1. q \in Seq(Callbacks) /\ Len(q) \in Nat \ {0}
  BY DEF Once
<1>2. /\ Tail(q) \in Seq(Callbacks) /\ Len(Tail(q)) = Len(q) - 1
      /\ \A i \in 1..(Len(q) - 1) : Tail(q)[i] = q[i + 1]
  BY <1>1
<1>3. Head(q) = q[1] /\ Head(q) \in Callbacks
  BY <1>1
<1> DEFINE r == Tail(q)
           h == Head(q)
<1> HIDE DEF r, h
<1>4. \A i, j \in 1..Len(r) : r[i] = r[j] => i = j
  <2> SUFFICES ASSUME NEW i \in 1..Len(r), NEW j \in 1..Len(r), r[i] = r[j]
               PROVE  i = j
    OBVIOUS
  <2>1. i + 1 \in 1..Len(q) /\ j + 1 \in 1..Len(q) /\ q[i + 1] = q[j + 1]
    BY <1>1, <1>2 DEF r
  <2> QED
    BY <1>1, <1>2, <2>1 DEF Once, r
<1>5. ASSUME NEW y \in InQueue(r) PROVE y \in InQueue(q) \ {h}
  <2>1. PICK i \in 1..Len(r) : y = r[i]
    BY DEF InQueue
  <2>2. i + 1 \in 1..Len(q) /\ y = q[i + 1] /\ i + 1 # 1
    BY <1>1, <1>2, <2>1 DEF r
  <2> QED
    BY <1>1, <1>3, <2>2 DEF InQueue, Once, h
<1>6. ASSUME NEW y \in InQueue(q), y # h PROVE y \in InQueue(r)
  <2>1. PICK i \in 1..Len(q) : y = q[i]
    BY DEF InQueue
  <2>2. i - 1 \in 1..Len(r) /\ y = r[i - 1]
    BY <1>1, <1>2, <1>3, <1>6, <2>1 DEF r, h
  <2> QED
    BY <2>2 DEF InQueue
<1>7. h \in InQueue(q)
  BY <1>1, <1>3 DEF InQueue, h
<1> QED
  BY <1>2, <1>3, <1>4, <1>5, <1>6, <1>7 DEF Once, r, h

LEMMA AppendOnce ==
  ASSUME NEW q, Once(q), NEW x \in Callbacks, x \notin InQueue(q)
  PROVE  Once(Append(q, x)) /\ InQueue(Append(q, x)) = InQueue(q) \cup {x}
<1> DEFINE r == Append(q, x)
<1>1. q \in Seq(Callbacks) /\ Len(q) \in Nat
  BY DEF Once
<1>2. /\ r \in Seq(Callbacks) /\ Len(r) = Len(q) + 1
      /\ \A i \in 1..(Len(q) + 1) : r[i] = IF i <= Len(q) THEN q[i] ELSE x
  BY <1>1
<1> HIDE DEF r
<1>3. \A i \in 1..Len(q) : q[i] # x
  BY DEF InQueue
<1>4. Once(r)
  BY <1>1, <1>2, <1>3 DEF Once
<1>5. InQueue(r) = InQueue(q) \cup {x}
  <2>1. ASSUME NEW y \in InQueue(q) PROVE y \in InQueue(r)
    BY <1>1, <1>2 DEF InQueue
  <2>2. ASSUME NEW y \in InQueue(r) PROVE y \in InQueue(q) \cup {x}
    BY <1>1, <1>2 DEF InQueue
  <2>3. x \in InQueue(r)
    BY <1>1, <1>2 DEF InQueue
  <2> QED
    BY <2>1, <2>2, <2>3
<1> QED
  BY <1>4, <1>5 DEF r

LEMMA QueuedIs == Once(queue) => Queued = InQueue(queue)
  BY DEF Once, InQueue, Queued, ToSet

LEMMA QueuedThen == Once(queue') => Queued' = InQueue(queue')
  BY DEF Once, InQueue, Queued, ToSet

LEMMA ScheduleIs ==
  ASSUME NEW x \in Callbacks, NEW seconds, Once(queue), x \notin Queued, Schedule(x, seconds)
  PROVE  Once(queue') /\ Queued' = Queued \cup {x}
  BY QueuedIs, QueuedThen, InsertedOnce DEF Schedule

LEMMA RescheduleIs ==
  ASSUME NEW x \in Callbacks, NEW seconds, Once(queue), Reschedule(x, seconds)
  PROVE  Once(queue') /\ Queued' = Queued \cup {x}
<1>1. Once(Without(queue, x)) /\ InQueue(Without(queue, x)) = Queued \ {x}
  BY QueuedIs, WithoutOnce
<1>2. queue' = Inserted(Without(queue, x), x, seconds)
  BY DEF Reschedule
<1>3. Once(queue') /\ InQueue(queue') = (Queued \ {x}) \cup {x}
  BY <1>1, <1>2, InsertedOnce
<1> QED
  BY <1>3, QueuedThen

LEMMA UnscheduleIs ==
  ASSUME NEW x \in Callbacks, Once(queue), Unschedule(x)
  PROVE  Once(queue') /\ Queued' = IF x \in Queued THEN Queued \ {x} ELSE Queued \cup {x}
<1>1. CASE x \in Queued
  BY <1>1, QueuedIs, QueuedThen, WithoutOnce DEF Unschedule
<1>2. CASE x \notin Queued
  BY <1>2, QueuedIs, QueuedThen, AppendOnce DEF Unschedule
<1> QED
  BY <1>1, <1>2

LEMMA TailIs ==
  ASSUME Once(queue), queue # <<>>, queue' = Tail(queue)
  PROVE  /\ Once(queue') /\ Queued' = Queued \ {Head(queue)}
         /\ Head(queue) \in Queued /\ Head(queue) \in Callbacks
  BY QueuedIs, QueuedThen, TailOnce

-----------------------------------------------------------------------------
(* The posts, the queue and the events that are pending, whatever the order of
   frames, answers and unloads. *)
AwardTypes ==
    /\ stage \in [Posts -> {"None", "Out", "Queued", "Accepted", "Refused"}]
    /\ retries \in [Posts -> Nat] /\ updating \subseteq Posts /\ won \subseteq Posts
    /\ Once(queue)
    /\ action \in {"None", "Show", "Update"} /\ indicator \in BOOLEAN
    /\ orphan \in BOOLEAN /\ crashed \in BOOLEAN

(* A post in the queue waits to be sent again and nothing else happens to it; one that
   is won in this frame has not been sent. *)
PostsInv ==
    \A p \in Posts :
        /\ p \in Queued => stage[p] = "Queued" /\ retries[p] > 0
        /\ p \in won => stage[p] = "None"

(* An answer has failed and is not settled, or has still to look at the queue. *)
Failing == \E p \in Posts : retries[p] > 0 /\ (~Settled(p) \/ p \in updating)

DisconnectInv == "ShowPending" \in disconnect => Failing

IndicatorInv ==
    ~crashed /\ ~orphan =>
        /\ action # "None" => Hide \in Queued /\ thread = "Events"
        /\ thread = "Timer" => Hide \notin Queued
        /\ action = "None" /\ thread # "Timer" => (indicator <=> Hide \in Queued)

AwardInv == AwardTypes /\ PostsInv /\ DisconnectInv /\ IndicatorInv

LEMMA AwardFirst == AwardInit => AwardInv
<1> SUFFICES ASSUME AwardInit PROVE AwardInv
  OBVIOUS
<1>1. Once(queue) /\ Queued = {}
  BY DEF AwardInit, Once, Queued, ToSet
<1>2. AwardTypes
  BY <1>1 DEF AwardInit, AwardTypes
<1> QED
  BY <1>1, <1>2 DEF AwardInit, AwardInv, PostsInv, DisconnectInv, IndicatorInv

(* What does not touch the posts keeps what is known of them. *)
LEMMA PostsStay ==
  ASSUME AwardInv, UNCHANGED posting, Queued' \cap Posts = Queued \cap Posts, won' \subseteq won
  PROVE  PostsInv' /\ Failing' = Failing
<1>1. \A p \in Posts : /\ Settled(p)' = Settled(p) /\ retries'[p] = retries[p] /\ stage'[p] = stage[p]
                       /\ p \in updating' <=> p \in updating
  BY DEF posting, Settled
<1>2. PostsInv'
  BY <1>1 DEF AwardInv, PostsInv
<1>3. Failing' = Failing
  BY <1>1 DEF Failing
<1> QED
  BY <1>2, <1>3

(* ... and an answer keeps what is known of the indicator. *)
LEMMA IndicatorStays ==
  ASSUME AwardInv, ~crashed, UNCHANGED <<thread, tracker>>, Hide \in Queued' <=> Hide \in Queued
  PROVE  IndicatorInv'
  BY DEF AwardInv, IndicatorInv, tracker

LEMMA HideApart == Hide \notin Posts /\ Callbacks = Posts \cup {Hide}
  BY PostsApart DEF Posts, Callbacks

LEMMA EvaluateFrameKeeps ==
  ASSUME AwardInv, NEW winners \in SUBSET Posts, NEW progress \in BOOLEAN,
         EvaluateFrame(winners, progress)
  PROVE  AwardInv'
<1>1. /\ ~crashed /\ thread = "Frame" /\ thread' = "Events" /\ won' = winners
      /\ \A p \in winners : stage[p] = "None"
      /\ UNCHANGED <<posting, disconnect, indicator, orphan, crashed>>
  BY DEF EvaluateFrame, On, events
<1>2. /\ Once(queue') /\ Queued' \cap Posts = Queued \cap Posts
      /\ \/ UNCHANGED <<action, Queued>>
         \/ ~orphan /\ action' \in {"Show", "Update"} /\ Hide \in Queued'
  <2>1. CASE progress /\ ~orphan
    <3>1. Reschedule(Hide, HideDelay) /\ action' \in {"Show", "Update"}
      BY <2>1 DEF EvaluateFrame
    <3>2. Once(queue') /\ Queued' = Queued \cup {Hide}
      BY <3>1, HideApart, RescheduleIs DEF AwardInv, AwardTypes
    <3> QED
      BY <2>1, <3>1, <3>2, HideApart
  <2>2. CASE ~(progress /\ ~orphan)
    BY <2>2 DEF EvaluateFrame, AwardInv, AwardTypes, Queued
  <2> QED
    BY <2>1, <2>2
<1>3. AwardTypes'
  BY <1>1, <1>2 DEF AwardInv, AwardTypes, posting
<1>4. \A p \in Posts : stage'[p] = stage[p] /\ retries'[p] = retries[p] /\ Settled(p)' = Settled(p)
                       /\ (p \in updating' <=> p \in updating)
  BY <1>1 DEF posting, Settled
<1>5. PostsInv'
  BY <1>1, <1>2, <1>4 DEF AwardInv, PostsInv
<1>6. DisconnectInv'
  BY <1>1, <1>4 DEF AwardInv, DisconnectInv, Failing
<1>7. IndicatorInv'
  BY <1>1, <1>2 DEF AwardInv, IndicatorInv
<1> QED
  BY <1>3, <1>5, <1>6, <1>7 DEF AwardInv

LEMMA RaiseEventsKeeps ==
  ASSUME AwardInv, RaiseEvents
  PROVE  AwardInv'
<1>1. /\ ~crashed /\ thread = "Events" /\ thread' = "Idle" /\ won' = {} /\ crashed' = ~game
      /\ stage' = [p \in Posts |-> IF p \in won THEN "Out" ELSE stage[p]]
      /\ indicator' = (indicator \/ action \in {"Show", "Update"}) /\ action' = "None"
      /\ UNCHANGED <<retries, updating, queue, Queued, disconnect, orphan>>
  BY DEF RaiseEvents, On, events, Queued
<1>2. AwardTypes'
  BY <1>1 DEF AwardInv, AwardTypes
<1>3. PostsInv'
  BY <1>1 DEF AwardInv, AwardTypes, PostsInv
<1>4. Failing => Failing'
  <2> SUFFICES ASSUME NEW p \in Posts, retries[p] > 0, ~Settled(p) \/ p \in updating
               PROVE  retries'[p] > 0 /\ (~Settled(p)' \/ p \in updating')
    BY DEF Failing
  <2> QED
    BY <1>1 DEF Settled
<1>5. IndicatorInv'
  BY <1>1 DEF AwardInv, AwardTypes, IndicatorInv
<1> QED
  BY <1>1, <1>2, <1>3, <1>4, <1>5 DEF AwardInv, DisconnectInv

LEMMA NoGameKeeps ==
  ASSUME AwardInv, NoGame
  PROVE  AwardInv'
<1>1. /\ thread = "Frame" /\ thread' = "Idle" /\ ~crashed
      /\ UNCHANGED <<posting, queue, Queued, disconnect, won, action, indicator, orphan, crashed>>
  BY DEF NoGame, On, events, tracker, Queued
<1>2. AwardTypes'
  BY <1>1 DEF AwardInv, AwardTypes, posting
<1>3. PostsInv' /\ Failing' = Failing
  BY <1>1, PostsStay
<1>4. IndicatorInv'
  BY <1>1 DEF AwardInv, IndicatorInv
<1> QED
  BY <1>1, <1>2, <1>3, <1>4 DEF AwardInv, DisconnectInv

LEMMA RetryKeeps ==
  ASSUME AwardInv, Retry
  PROVE  AwardInv'
<1> DEFINE p == Head(queue)
<1>1. /\ thread' = thread /\ ~crashed /\ queue # <<>> /\ queue' = Tail(queue) /\ p # Hide
      /\ stage' = [stage EXCEPT ![p] = "Out"]
      /\ UNCHANGED <<retries, updating, disconnect, won, tracker, crashed>>
  BY DEF Retry, On, Due, events
<1>2. Once(queue') /\ Queued' = Queued \ {p} /\ p \in Queued /\ p \in Posts
  BY <1>1, TailIs, HideApart DEF AwardInv, AwardTypes
<1> HIDE DEF p
<1>3. AwardTypes'
  BY <1>1, <1>2 DEF AwardInv, AwardTypes, tracker
<1>4. stage[p] = "Queued"
  BY <1>2 DEF AwardInv, PostsInv
<1>5. PostsInv'
  BY <1>1, <1>2, <1>4 DEF AwardInv, AwardTypes, PostsInv
<1>6. Failing => Failing'
  <2> SUFFICES ASSUME NEW o \in Posts, retries[o] > 0, ~Settled(o) \/ o \in updating
               PROVE  retries'[o] > 0 /\ (~Settled(o)' \/ o \in updating')
    BY DEF Failing
  <2> QED
    BY <1>1, <1>2 DEF Settled, AwardInv, AwardTypes
<1>7. IndicatorInv'
  BY <1>1, <1>2, IndicatorStays
<1> QED
  BY <1>1, <1>3, <1>5, <1>6, <1>7 DEF AwardInv, DisconnectInv

LEMMA TakeTimerKeeps ==
  ASSUME AwardInv, TakeTimer
  PROVE  AwardInv'
<1>1. /\ thread = "Idle" /\ thread' = "Timer" /\ ~crashed /\ queue # <<>> /\ queue' = Tail(queue)
      /\ Head(queue) = Hide
      /\ UNCHANGED <<posting, disconnect, won, action, indicator, orphan, crashed>>
  BY DEF TakeTimer, On, Due, events, tracker
<1>2. Once(queue') /\ Queued' = Queued \ {Hide}
  BY <1>1, TailIs DEF AwardInv, AwardTypes
<1>3. AwardTypes'
  BY <1>1, <1>2 DEF AwardInv, AwardTypes, posting
<1>4. PostsInv' /\ Failing' = Failing
  BY <1>1, <1>2, HideApart, PostsStay
<1>5. IndicatorInv'
  BY <1>1, <1>2 DEF AwardInv, IndicatorInv
<1> QED
  BY <1>1, <1>3, <1>4, <1>5 DEF AwardInv, DisconnectInv

LEMMA TimerElapsedKeeps ==
  ASSUME AwardInv, TimerElapsed
  PROVE  AwardInv'
<1>1. /\ thread = "Timer" /\ thread' = "Idle" /\ ~crashed /\ crashed' = (orphan \/ ~game)
      /\ indicator' = FALSE
      /\ UNCHANGED <<posting, queue, Queued, disconnect, won, action, orphan>>
  BY DEF TimerElapsed, On, events, Queued
<1>2. AwardTypes'
  BY <1>1 DEF AwardInv, AwardTypes, posting
<1>3. PostsInv' /\ Failing' = Failing
  BY <1>1, PostsStay
<1>4. IndicatorInv'
  BY <1>1 DEF AwardInv, IndicatorInv
<1> QED
  BY <1>1, <1>2, <1>3, <1>4 DEF AwardInv, DisconnectInv

LEMMA IdleDoneKeeps ==
  ASSUME AwardInv, IdleDone
  PROVE  AwardInv'
<1>1. /\ thread = "Idle" /\ thread' \in {"Frame", "Raise"} /\ ~crashed
      /\ UNCHANGED <<posting, queue, Queued, disconnect, won, action, indicator, orphan, crashed>>
  BY DEF IdleDone, On, events, tracker, Queued
<1>2. AwardTypes'
  BY <1>1 DEF AwardInv, AwardTypes, posting
<1>3. PostsInv' /\ Failing' = Failing
  BY <1>1, PostsStay
<1>4. IndicatorInv'
  BY <1>1 DEF AwardInv, IndicatorInv
<1> QED
  BY <1>1, <1>2, <1>3, <1>4 DEF AwardInv, DisconnectInv

LEMMA RaiseDisconnectKeeps ==
  ASSUME AwardInv, RaiseDisconnect
  PROVE  AwardInv'
<1>1. /\ thread = "Raise" /\ thread' = "Frame" /\ ~crashed /\ "ShowPending" \notin disconnect'
      /\ UNCHANGED <<posting, queue, Queued, won, action, indicator, orphan, crashed>>
  BY DEF RaiseDisconnect, On, tracker, Queued
<1>2. AwardTypes'
  BY <1>1 DEF AwardInv, AwardTypes, posting
<1>3. PostsInv'
  BY <1>1, PostsStay
<1>4. IndicatorInv'
  BY <1>1 DEF AwardInv, IndicatorInv
<1> QED
  BY <1>1, <1>2, <1>3, <1>4 DEF AwardInv, DisconnectInv

(* A post that is settled after a retry has still to look at the queue. *)
LEMMA SettleKeeps ==
  ASSUME AwardInv, NEW p \in Posts, Answered(p), NEW how \in {"Accepted", "Refused"}, Settle(p, how),
         crashed' \in BOOLEAN, UNCHANGED <<events, thread, won, tracker>>
  PROVE  AwardInv'
<1>1. /\ ~crashed /\ stage[p] = "Out" /\ stage' = [stage EXCEPT ![p] = how]
      /\ updating' = IF retries[p] > 0 THEN updating \cup {p} ELSE updating
      /\ UNCHANGED <<retries, queue, Queued, disconnect, won>>
  BY DEF Answered, Settle, events, Queued
<1>2. AwardTypes'
  BY <1>1 DEF AwardInv, AwardTypes, tracker
<1>3. p \notin Queued /\ p \notin won
  BY <1>1 DEF AwardInv, PostsInv
<1>4. PostsInv'
  BY <1>1, <1>3 DEF AwardInv, AwardTypes, PostsInv
<1>5. Failing => Failing'
  <2> SUFFICES ASSUME NEW o \in Posts, retries[o] > 0, ~Settled(o) \/ o \in updating
               PROVE  retries'[o] > 0 /\ (~Settled(o)' \/ o \in updating')
    BY DEF Failing
  <2> QED
    BY <1>1 DEF Settled, AwardInv, AwardTypes
<1>6. IndicatorInv'
  BY <1>1, IndicatorStays
<1> QED
  BY <1>1, <1>2, <1>4, <1>5, <1>6 DEF AwardInv, DisconnectInv

LEMMA LostKeeps ==
  ASSUME AwardInv, NEW p \in Posts, Lost(p)
  PROVE  AwardInv'
<1>1. /\ ~crashed /\ stage[p] = "Out" /\ retries' = [retries EXCEPT ![p] = @ + 1]
      /\ UNCHANGED <<disconnect, thread, won, tracker, crashed>>
  BY DEF Lost, Answered, TryAgain, events
<1>2. p \notin Queued /\ p \notin won /\ p \in Callbacks
  BY <1>1, HideApart DEF AwardInv, PostsInv
<1>3. \/ UNCHANGED <<stage, updating, queue, Queued>>
      \/ /\ stage' = [stage EXCEPT ![p] = "Queued"] /\ updating' = updating \cup {p}
         /\ Once(queue') /\ Queued' = Queued \cup {p}
  <2>1. CASE retries[p] = 0
    BY <2>1 DEF Lost, TryAgain, Queued
  <2>2. CASE retries[p] # 0
    BY <1>2, <2>2, ScheduleIs DEF Lost, TryAgain, AwardInv, AwardTypes
  <2> QED
    BY <2>1, <2>2
<1>4. AwardTypes'
  BY <1>1, <1>3 DEF AwardInv, AwardTypes, tracker
<1>5. PostsInv'
  BY <1>1, <1>2, <1>3 DEF AwardInv, AwardTypes, PostsInv
<1>6. Failing => Failing'
  <2> SUFFICES ASSUME NEW o \in Posts, retries[o] > 0, ~Settled(o) \/ o \in updating
               PROVE  retries'[o] > 0 /\ (~Settled(o)' \/ o \in updating')
    BY DEF Failing
  <2> QED
    BY <1>1, <1>3 DEF Settled, AwardInv, AwardTypes
<1>7. IndicatorInv'
  BY <1>1, <1>3, HideApart, IndicatorStays
<1> QED
  BY <1>1, <1>4, <1>5, <1>6, <1>7 DEF AwardInv, DisconnectInv

(* The flags of the connection say that posts wait only while one does. *)
LEMMA StateUpdatedKeeps ==
  ASSUME AwardInv, NEW p \in Posts, StateUpdated(p)
  PROVE  AwardInv'
<1>1. /\ ~crashed /\ UpdateDisconnect /\ updating' = updating \ {p}
      /\ UNCHANGED <<stage, retries, queue, Queued, thread, won, tracker, crashed>>
  BY DEF StateUpdated, Queued
<1>2. AwardTypes'
  BY <1>1 DEF AwardInv, AwardTypes, tracker
<1>3. PostsInv'
  BY <1>1 DEF AwardInv, PostsInv
<1>4. DisconnectInv'
  <2> SUFFICES ASSUME "ShowPending" \in disconnect'
               PROVE  Failing'
    BY DEF DisconnectInv
  <2>1. PICK o \in Posts : o \in Queued
    BY <1>1 DEF UpdateDisconnect
  <2>2. retries'[o] > 0 /\ ~Settled(o)'
    BY <1>1, <2>1 DEF AwardInv, PostsInv, Settled
  <2> QED
    BY <2>2 DEF Failing
<1>5. IndicatorInv'
  BY <1>1, IndicatorStays
<1> QED
  BY <1>2, <1>3, <1>4, <1>5 DEF AwardInv

LEMMA UnloadGameKeeps ==
  ASSUME AwardInv, UnloadGame
  PROVE  AwardInv'
<1>1. /\ ~crashed /\ crashed' \in BOOLEAN /\ won' = {} /\ action' = "None"
      /\ UNCHANGED <<posting, disconnect, thread>>
  BY DEF UnloadGame, events
<1>2. /\ Once(queue') /\ Queued' \cap Posts = Queued \cap Posts
      /\ \/ orphan' = TRUE /\ indicator' \in BOOLEAN
         \/ orphan' = FALSE /\ indicator' = FALSE /\ thread # "Timer" /\ Hide \notin Queued'
  <2>1. CASE action = "None" /\ ~orphan
    <3>1. indicator' = FALSE /\ orphan' = (thread = "Timer")
      BY <2>1 DEF UnloadGame
    <3>2. CASE Hide \in Queued \/ thread = "Timer"
      <4>1. Once(queue') /\ Queued' = IF Hide \in Queued THEN Queued \ {Hide} ELSE Queued \cup {Hide}
        BY <2>1, <3>2, HideApart, UnscheduleIs DEF UnloadGame, AwardInv, AwardTypes
      <4> QED
        BY <3>1, <3>2, <4>1, HideApart
    <3>3. CASE ~(Hide \in Queued \/ thread = "Timer")
      BY <2>1, <3>1, <3>3 DEF UnloadGame, AwardInv, AwardTypes, Queued
    <3> QED
      BY <3>2, <3>3
  <2>2. CASE ~(action = "None" /\ ~orphan)
    BY <2>2 DEF UnloadGame, AwardInv, AwardTypes, Queued
  <2> QED
    BY <2>1, <2>2
<1>3. AwardTypes'
  BY <1>1, <1>2 DEF AwardInv, AwardTypes, posting
<1>4. PostsInv' /\ Failing' = Failing
  BY <1>1, <1>2, PostsStay
<1>5. IndicatorInv'
  BY <1>1, <1>2 DEF AwardInv, IndicatorInv
<1> QED
  BY <1>1, <1>3, <1>4, <1>5 DEF AwardInv, DisconnectInv

(* Time, the next game and the switch of the emulator touch nothing of it. *)
LEMMA OthersKeep ==
  ASSUME AwardInv, Tick \/ Load \/ Switch \/ UNCHANGED awardVars
  PROVE  AwardInv'
<1>1. UNCHANGED <<posting, queue, Queued, disconnect, thread, won, tracker, crashed>>
  BY DEF Tick, Load, Switch, awardVars, events, Queued
<1>2. AwardTypes'
  BY <1>1 DEF AwardInv, AwardTypes, posting, tracker
<1>3. PostsInv' /\ Failing' = Failing
  BY <1>1, PostsStay
<1>4. IndicatorInv'
  BY <1>1 DEF AwardInv, IndicatorInv, tracker
<1> QED
  BY <1>1, <1>2, <1>3, <1>4 DEF AwardInv, DisconnectInv

LEMMA AwardKept == AwardInv /\ [AwardNext]_awardVars => AwardInv'
<1> SUFFICES ASSUME AwardInv, [AwardNext]_awardVars
             PROVE  AwardInv'
  OBVIOUS
<1>1. CASE ThreadStep
  BY <1>1, EvaluateFrameKeeps, RaiseEventsKeeps, NoGameKeeps, RetryKeeps, TakeTimerKeeps,
     TimerElapsedKeeps, IdleDoneKeeps, RaiseDisconnectKeeps DEF ThreadStep
<1>2. ASSUME NEW p \in Posts, PostStep(p)
      PROVE  AwardInv'
  <2>1. ASSUME NEW last \in BOOLEAN, AwardAccepted(p, last)
        PROVE  AwardInv'
    BY <2>1, SettleKeeps DEF AwardAccepted
  <2>2. CASE EntryAccepted(p)
    BY <2>2, SettleKeeps DEF EntryAccepted, AwardInv, AwardTypes
  <2>3. CASE Refused(p)
    BY <2>3, SettleKeeps DEF Refused, AwardInv, AwardTypes
  <2> QED
    BY <1>2, <2>1, <2>2, <2>3, LostKeeps, StateUpdatedKeeps DEF PostStep
<1>3. CASE Tick \/ Load \/ Switch \/ UNCHANGED awardVars
  BY <1>3, OthersKeep
<1> QED
  BY <1>1, <1>2, <1>3, UnloadGameKeeps DEF AwardNext

LEMMA AwardAlways == AwardSpec => []AwardInv
  BY AwardFirst, AwardKept, PTL DEF AwardSpec

(* The rest of the types: the numbers stay within their bounds. *)
LEMMA DelayIs ==
  ASSUME NEW n \in Nat, n > 1
  PROVE  Delay(n) \in 0..120
<1> DEFINE power(k) == 2 ^ k
<1>1. /\ power(0) = 1 /\ power(1) = 2 /\ power(2) = 4 /\ power(3) = 8
      /\ power(4) = 16 /\ power(5) = 32 /\ power(6) = 64
  OBVIOUS
<1>2. Delay(n) = IF n > 8 THEN 120 ELSE power(n - 2)
  BY DEF Delay
<1> HIDE DEF power
<1>3. \A k \in 0..6 : power(k) \in 0..120
  BY <1>1
<1>4. CASE n <= 8
  <2>1. n - 2 \in 0..6
    BY <1>4
  <2> QED
    BY <1>2, <1>3, <1>4, <2>1
<1>5. CASE n > 8
  BY <1>2, <1>5
<1> QED
  BY <1>4, <1>5

WorldTypes ==
    /\ retries \in [Posts -> 0..MaxRetries] /\ due \in [Callbacks -> 0..120]
    /\ disconnect \in SUBSET {"Visible", "ShowPending", "HidePending"} /\ told \in BOOLEAN
    /\ thread \in {"Frame", "Events", "Idle", "Timer", "Raise"}
    /\ game \in BOOLEAN /\ unloads \in 0..MaxUnloads /\ running \in BOOLEAN

LEMMA DueKept ==
  ASSUME WorldTypes, NEW x \in Callbacks, NEW seconds \in 0..120, due' = [due EXCEPT ![x] = seconds]
  PROVE  due' \in [Callbacks -> 0..120]
  BY DEF WorldTypes

LEMMA ThreadTypes ==
  ASSUME WorldTypes, ThreadStep
  PROVE  WorldTypes'
<1> USE DEF WorldTypes, On, posting, events, world
<1>1. ASSUME NEW winners \in SUBSET Posts, NEW progress \in BOOLEAN, EvaluateFrame(winners, progress)
      PROVE  WorldTypes'
  <2>1. due' = due \/ due' = [due EXCEPT ![Hide] = 2]
    BY <1>1 DEF EvaluateFrame, Reschedule, HideDelay
  <2>2. due' \in [Callbacks -> 0..120]
    BY <2>1
  <2> QED
    BY <1>1, <2>2 DEF EvaluateFrame
<1>2. CASE RaiseEvents
  BY <1>2 DEF RaiseEvents
<1>3. CASE NoGame
  BY <1>3 DEF NoGame
<1>4. CASE Retry
  BY <1>4 DEF Retry
<1>5. CASE TakeTimer
  BY <1>5 DEF TakeTimer
<1>6. CASE TimerElapsed
  BY <1>6 DEF TimerElapsed
<1>7. CASE IdleDone
  BY <1>7 DEF IdleDone
<1>8. CASE RaiseDisconnect
  BY <1>8 DEF RaiseDisconnect
<1> QED
  BY <1>1, <1>2, <1>3, <1>4, <1>5, <1>6, <1>7, <1>8 DEF ThreadStep

LEMMA PostTypes ==
  ASSUME WorldTypes, NEW p \in Posts, PostStep(p)
  PROVE  WorldTypes'
<1> USE DEF WorldTypes, events, world
<1>1. CASE \E last \in BOOLEAN : AwardAccepted(p, last)
  BY <1>1 DEF AwardAccepted, Settle
<1>2. CASE EntryAccepted(p)
  BY <1>2 DEF EntryAccepted, Settle
<1>3. CASE Refused(p)
  BY <1>3 DEF Refused, Settle
<1>4. CASE Lost(p)
  <2>1. retries[p] \in 0..MaxRetries /\ retries[p] < MaxRetries
    BY <1>4 DEF Lost, TryAgain
  <2>2. retries' \in [Posts -> 0..MaxRetries]
    BY <1>4, <2>1, RetriesAssumption DEF Lost, TryAgain
  <2>3. due' \in [Callbacks -> 0..120]
    <3>1. CASE retries[p] = 0
      BY <1>4, <3>1 DEF Lost, TryAgain
    <3>2. CASE retries[p] # 0
      <4>1. Delay(retries[p] + 1) \in 0..120
        BY <2>1, <3>2, RetriesAssumption, DelayIs
      <4> QED
        BY <1>4, <3>2, <4>1, HideApart, DueKept DEF Lost, TryAgain, Schedule
    <3> QED
      BY <3>1, <3>2
  <2> QED
    BY <1>4, <2>2, <2>3 DEF Lost
<1>5. CASE StateUpdated(p)
  BY <1>5 DEF StateUpdated, UpdateDisconnect
<1> QED
  BY <1>1, <1>2, <1>3, <1>4, <1>5 DEF PostStep

LEMMA WorldTypesKept ==
  ASSUME WorldTypes, [AwardNext]_awardVars
  PROVE  WorldTypes'
<1> USE DEF WorldTypes, posting, events, world
<1>1. CASE Tick
  <2>1. \A x \in Callbacks : due[x] \in 0..120 /\ (due[x] > 0 => due[x] - 1 \in 0..120)
    OBVIOUS
  <2>2. due' = [x \in Callbacks |-> IF x \in Queued /\ due[x] > 0 THEN due[x] - 1 ELSE due[x]]
    BY <1>1 DEF Tick
  <2>3. due' \in [Callbacks -> 0..120]
    BY <2>1, <2>2
  <2> QED
    BY <1>1, <2>3 DEF Tick
<1>2. CASE UnloadGame
  <2>1. due' = due \/ due' = [due EXCEPT ![Hide] = 0]
    BY <1>2 DEF UnloadGame, Unschedule
  <2>2. due' \in [Callbacks -> 0..120]
    BY <2>1
  <2>3. unloads' \in 0..MaxUnloads
    BY <1>2, RetriesAssumption DEF UnloadGame
  <2> QED
    BY <1>2, <2>2, <2>3 DEF UnloadGame
<1>3. CASE Load
  BY <1>3 DEF Load
<1>4. CASE Switch
  BY <1>4 DEF Switch
<1>5. CASE UNCHANGED awardVars
  BY <1>5 DEF awardVars
<1> QED
  BY <1>1, <1>2, <1>3, <1>4, <1>5, ThreadTypes, PostTypes DEF AwardNext

(* Every variable of RcAward keeps its type: no callback is in the queue twice, and none
   has to wait longer than two minutes. *)
THEOREM AwardTypeCorrect == AwardSpec => []AwardTypeOK
<1>1. AwardInit => WorldTypes
  <2> SUFFICES ASSUME AwardInit PROVE WorldTypes
    OBVIOUS
  <2>1. retries \in [Posts -> 0..MaxRetries] /\ unloads \in 0..MaxUnloads
    BY RetriesAssumption DEF AwardInit
  <2>2. due \in [Callbacks -> 0..120]
    BY DEF AwardInit, Callbacks
  <2> QED
    BY <2>1, <2>2 DEF AwardInit, WorldTypes
<1>2. WorldTypes /\ [AwardNext]_awardVars => WorldTypes'
  BY WorldTypesKept
<1>3. AwardInv /\ WorldTypes => AwardTypeOK
  <2> SUFFICES ASSUME AwardInv, WorldTypes PROVE AwardTypeOK
    OBVIOUS
  <2>1. queue \in Seq(Posts \cup {Hide}) /\ IsInjective(queue)
    BY DEF AwardInv, AwardTypes, Once, Callbacks, IsInjective
  <2> QED
    BY <2>1 DEF AwardInv, AwardTypes, WorldTypes, AwardTypeOK, Callbacks
<1> QED
  BY <1>1, <1>2, <1>3, AwardAlways, PTL DEF AwardSpec

(* Between frames the progress indicator is shown exactly while the callback that
   hides it is in the queue, however frames, answers, the timer and an unload
   interleave. *)
THEOREM IndicatorTimedHolds == AwardSpec => []IndicatorTimed
<1>1. AwardInv => IndicatorTimed
  BY DEF AwardInv, IndicatorInv, IndicatorTimed
<1> QED
  BY <1>1, AwardAlways, PTL

(* The player is told of a lost connection only while a post that failed is not
   settled, or its answer has yet to say so. *)
THEOREM DisconnectedJustifiedHolds == AwardSpec => DisconnectedJustified
<1>1. AwardInv /\ [AwardNext]_awardVars =>
        [~told /\ told' => \E p \in Posts : retries[p] > 0 /\ (~Settled(p) \/ p \in updating)]_awardVars
  <2> SUFFICES ASSUME AwardInv, AwardNext, ~told, told'
               PROVE  Failing
    BY DEF Failing
  <2>1. RaiseDisconnect
    <3>1. UNCHANGED told \/ RaiseDisconnect
      BY DEF AwardNext, ThreadStep, PostStep, EvaluateFrame, RaiseEvents, NoGame, Retry, TakeTimer,
             TimerElapsed, IdleDone, AwardAccepted, EntryAccepted, Refused, Lost, StateUpdated, Tick,
             UnloadGame, Load, Switch, events
    <3> QED
      BY <3>1
  <2> QED
    BY <2>1 DEF RaiseDisconnect, AwardInv, DisconnectInv
<1> QED
  BY <1>1, AwardAlways, PTL DEF AwardSpec, DisconnectedJustified
=============================================================================
