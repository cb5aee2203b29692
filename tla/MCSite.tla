-------------------------------- MODULE MCSite --------------------------------
(* Two keys of one account and one of another; two versions; a light, a     *)
(* sensor, a switch and a number, of which the ids sort the devices last.   *)
EXTENDS Site, TLC
CONSTANTS k1, k2, other, home, away, hash, bad, h1, h2

MCAccountOf == k1 :> home @@ k2 :> home @@ other :> away
MCDomainOf == "number" :> "number" @@ "sensor" :> "sensor" @@ "switch" :> "switch"
MCIdOrder == "number" :> 1 @@ "sensor" :> 2 @@ "switch" :> 3
=============================================================================
