---------------------------- MODULE MCCoordinator ----------------------------
(***************************************************************************)
(* Small instances of Coordinator for TLC.                                 *)
(***************************************************************************)
EXTENDS Coordinator

CONSTANTS pv, soc        \* an always and a threshold entity

Unavailable == [kind |-> "off", val |-> 0]
MCBucket == [e \in Entity |-> IF e = pv THEN "always" ELSE "threshold"]
NumericStates == [e \in Entity |-> {Num(0), Num(4), Unavailable}]
NoAttrs == {0}

Command(mode) == [mode |-> mode, hasList |-> FALSE, list |-> {},
                  version |-> NoVersion]
MCActivate == {Command("active")}
MCModes == {Command("active"), Command("paused"), Command("bogus")}
=============================================================================
