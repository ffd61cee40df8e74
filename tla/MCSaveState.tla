----------------------------- MODULE MCSaveState -----------------------------
\* The saved state of a room, with every option of the game and the worker.
EXTENDS SaveState

CONSTANTS s1, s2, s3

MCTwo == {s1, s2}
MCThree == {s1, s2, s3}
MCEvery == AllOptions
MCPlain == {}
=============================================================================
