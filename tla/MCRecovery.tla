------------------------------ MODULE MCRecovery ------------------------------
(***************************************************************************)
(* Small instances of Recovery for TLC.                                    *)
(***************************************************************************)
EXTENDS Recovery

CONSTANTS w,                 \* the window asked for, more than once
          batch, rec1, rec2, \* senders
          loop, ack1, ack2   \* heartbeats

MCCommandBeat == [r \in Recoveries |-> IF r = rec1 THEN ack1 ELSE ack2]
=============================================================================
