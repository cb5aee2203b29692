-------------------------- MODULE VersionedRegister --------------------------
(***************************************************************************)
(* What the whitelist of the coordinator promises, without topics, pulls   *)
(* or sessions: a copy of a list of which another party writes numbered    *)
(* versions.  The copy takes a version whole, only a newer one than it     *)
(* has, and begins anew when its holder does.                              *)
(***************************************************************************)
EXTENDS Integers, Sequences

CONSTANTS Value, Unset      \* what a version may be; the copy before any

VARIABLES log, value, version

regVars == <<log, value, version>>

RegInit == log = << >> /\ value = Unset /\ version = -1

Write ==
  /\ \E v \in Value : log' = Append(log, v)
  /\ UNCHANGED <<value, version>>

Adopt ==
  /\ \E n \in DOMAIN log : n > version /\ version' = n /\ value' = log[n]
  /\ UNCHANGED log

BeginAnew == value' = Unset /\ version' = -1 /\ UNCHANGED log

RegSpec == RegInit /\ [][Write \/ Adopt \/ BeginAnew]_regVars
=============================================================================
