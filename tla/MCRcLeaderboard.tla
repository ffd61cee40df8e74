--------------------------- MODULE MCRcLeaderboard ---------------------------
(* Instance of RcLeaderboard: leaderboards that count hits, that read memory, that
   do one each, and that show a value of their own meanwhile. *)
EXTENDS RcLeaderboard

CONSTANTS time, rings

Game(values, own, broken) == [value |-> values, progress |-> own, broken |-> broken]

NoneOwn == [b \in Boards |-> None]

MCGames == {Game([b \in Boards |-> time], NoneOwn, {3}),
            Game([b \in Boards |-> rings], NoneOwn, {}),
            Game([b \in Boards |-> IF b = 1 THEN time ELSE rings], NoneOwn, {3}),
            Game([b \in Boards |-> rings], [NoneOwn EXCEPT ![1] = time], {3})}
=============================================================================
