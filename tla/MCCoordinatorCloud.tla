-------------------------- MODULE MCCoordinatorCloud --------------------------
(***************************************************************************)
(* Small instances of CoordinatorCloud for TLC.                            *)
(***************************************************************************)
EXTENDS CoordinatorCloud

CONSTANTS soc, fault   \* a threshold entity and inverter.fault

Unavailable == [kind |-> "off", val |-> 0]
Text(v)     == [kind |-> "text", val |-> v]

MCBucket == [e \in Entity |-> IF e = soc THEN "threshold" ELSE "fault"]
MCStates == [e \in Entity |->
   IF e = soc THEN {Num(0), Num(1), Num(2), Unavailable}
              ELSE {Text(1), Unavailable}]
Words   == {0, 1}

Command(mode) == [mode |-> mode, hasList |-> FALSE, list |-> {},
                  version |-> NoVersion]
MCActivate == {Command("active"), Command("bogus")}

(* Constraints.  One entity reports, the other stays as it was, and only a *)
(* fault entity has words: the instance is the union of a small one per    *)
(* entity.                                                                 *)
Rest == [state |-> Unavailable, attr |-> 0, since |-> 0]

OneReports ==
  /\ \E reporting \in Entity : \A e \in Entity \ {reporting} : ha[e] = Rest
  /\ \A e \in Entity : Bucket[e] # "fault" => ha[e].attr = 0

(* The properties speak of entities with nothing lost, and a loss is for    *)
(* good: behaviours need not be followed past it.                          *)
NothingLost == lost = {}
=============================================================================
