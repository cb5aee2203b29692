-------------------------- MODULE MCCommandChannel --------------------------
(***************************************************************************)
(* Small instances of CommandChannel for TLC.                              *)
(***************************************************************************)
EXTENDS CommandChannel

CONSTANTS a, b,        \* entities
          t1, t2       \* task slots

MCModes == {"active", "paused"}
MCLists == {{a}, {b}}
=============================================================================
