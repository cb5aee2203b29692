----------------------------- MODULE BatchChannel -----------------------------
(***************************************************************************)
(* What the publisher promises of the batches it is given, without queue,  *)
(* tasks or heartbeats: a batch is pending from when it is built, and      *)
(* stops being so, for good, only when it has reached the broker or is     *)
(* given up.  A batch may arrive and stay pending: its acknowledgement was *)
(* lost, and it will be sent once more.                                    *)
(***************************************************************************)
EXTENDS Integers

VARIABLES built, pending, arrived, lost

chanVars == <<built, pending, arrived, lost>>

ChanInit == built = 0 /\ pending = {} /\ arrived = {} /\ lost = {}

Build ==
  /\ built' \in Nat /\ built' > built
  /\ pending' = pending \cup (built + 1 .. built')
  /\ UNCHANGED <<arrived, lost>>

(* Of the pending batches some arrive and some are given up, a full queue   *)
(* or an exception being able to take several.                             *)
Settle ==
  /\ pending' \subseteq pending
  /\ arrived \subseteq arrived' /\ lost \subseteq lost'
  /\ (arrived' \ arrived) \cup (lost' \ lost) \subseteq pending
  /\ pending \ pending' \subseteq arrived' \cup lost'
  /\ UNCHANGED built

ChanSpec == ChanInit /\ [][Build \/ Settle]_chanVars
=============================================================================
