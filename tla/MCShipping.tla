------------------------------ MODULE MCShipping ------------------------------
(***************************************************************************)
(* Small instances of Shipping for TLC.                                    *)
(***************************************************************************)
EXTENDS Shipping

CONSTANTS a, b,              \* entities
          batch, recovery,   \* senders
          beat, command      \* heartbeats: the loop's and a command's

Command(mode, list, version) ==
  [mode |-> mode, hasList |-> TRUE, list |-> list, version |-> version]
(* The list a mode is turned on with, and a wider one that comes later. *)
MCMessages == {Command("active", {a}, 1), Command("paused", {a, b}, 2)}
=============================================================================
