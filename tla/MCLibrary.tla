------------------------------ MODULE MCLibrary ------------------------------
\* The library of two games, a single file and a disc dump with a directory of
\* its own.
EXTENDS Library

CONSTANTS cart, disc

MCGames == {cart, disc}
MCFoldered == {disc}
=============================================================================
