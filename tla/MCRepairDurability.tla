------------------------ MODULE MCRepairDurability ------------------------
(***************************************************************************)
(* Small families for RepairDurability: three families of two or three     *)
(* variants over two fingerprints, where the third family repeats the      *)
(* fingerprint of the first.                                               *)
(***************************************************************************)
EXTENDS RepairDurability

CONSTANTS f1, f2, c1, c2

ThreeFamilies == <<<<f1, f1, f2>>, <<f2, f1>>, <<f1, f1, f1>>>>
TwoChoices == [f \in {f1, f2} |-> IF f = f1 THEN <<c1, c2>> ELSE <<c2>>]

\* Clusters too small for a bound, with one, without gains, and of either sign.
SomeGains == {<<>>, <<1>>, <<-1, 1>>, <<1, 1, 2>>, <<1, 1, -1>>, <<-1, -1, 1>>}
=============================================================================
