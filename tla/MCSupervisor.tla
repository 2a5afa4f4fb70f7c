---------------------------- MODULE MCSupervisor ----------------------------
(* Instances of Supervisor with up to three children in spec order ca, cb, cc. *)
EXTENDS Supervisor

CONSTANTS ca, cb, cc, w1, w2, w3

MCChildren == {ca, cb, cc}
TwoChildren == {ca, cb}
SpecsAorAB == {<<ca>>, <<ca, cb>>}
SpecsABC == {<<ca, cb, cc>>}
\* ca and cc restart with their later siblings, cb alone.
MCStrategy == [x \in Children |-> IF x = cb THEN "one_for_one" ELSE "rest_for_one"]
MCIntensity == [x \in Children |-> 1]
LowIntensity == [x \in Children |-> IF x = ca THEN 1 ELSE 0]
=============================================================================
