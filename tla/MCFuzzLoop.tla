------------------------------ MODULE MCFuzzLoop ------------------------------
(* An instance of FuzzLoop for TLC: two root causes under one rule, one     *)
(* signature that is a finding and one that is an intended rejection, and   *)
(* targets of both lanes, deterministic and flaky.                          *)
EXTENDS FuzzLoop, TLC

CONSTANTS i1, i2

MCRuleOf == [r \in Reports |-> IF r = "glue" THEN "glue" ELSE "rule"]

MCSeedSets == {{Blank}, {i1}, {i1, i2}}

(* What the first and the second input of a target may do; the second one   *)
(* of a driver target trips the oracle when it runs clean.                  *)
Pairs(l) ==
  IF l = "driver"
    THEN {{"c1"}} \X {{"clean"}, {"reject"}, {"glue"}, {"c1"}, {"c2"}}
           \cup {<<{"clean", "c1"}, {"c1"}>>, <<{"c1", "c2"}, {"clean"}>>}
    ELSE {{"s1"}} \X {{"clean"}, {"s1"}, {"s2"}, {"c1"}}
           \cup {<<{"clean", "s1"}, {"s1"}>>, <<{"c1"}, {"s1"}>>}

MCTargets(l) ==
  {[may |-> (Blank :> (IF p[2] = {"reject"} THEN p[2] ELSE {"clean"})) @@ (i1 :> p[1]) @@ (i2 :> p[2]),
    hits |-> IF l = "driver" /\ p[2] = {"clean"} THEN {i2} ELSE {}] : p \in Pairs(l)}

(* Two inputs of one root cause, both of them seeds *)
MCTwins(l) == {[may |-> (Blank :> {"clean"}) @@ (i1 :> {"c1"}) @@ (i2 :> {"c1"}), hits |-> {}]}
MCBoth == {{i1, i2}}
=============================================================================
