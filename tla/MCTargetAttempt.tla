---------------------------- MODULE MCTargetAttempt ----------------------------
(* Instances of TargetAttempt for TLC. *)
EXTENDS TargetAttempt, TLC

CONSTANTS t1, t2, t3, s1, s2

(* Pairs of sources that get in each other's way *)
Pair(a, b) == (s1 :> a) @@ (s2 :> b)
Pairs ==
  {Pair({"gcc"}, {"gcc"}), Pair({"clang"}, {"gcc"}), Pair({"fcommon"}, {"dup"}),
   Pair({"missing", "deep", "picky"}, {"missing", "picky"}), Pair({"stub"}, {"gcc"}),
   Pair({"old", "missing"}, {"undef"}), Pair({"old"}, {"fcommon", "undef"}),
   Pair({"gcc", "missing"}, {"old", "undef"})}
Plain == {Pair({"missing"}, {})}

(* The two targets of one source are alike; an idle worker's target, which   *)
(* nothing looks at, is the third.                                           *)
Symmetry == Permutations(Workers) \cup Permutations({t2, t3})

(* Either of them may have a wrong driver. *)
NoneWrong == {[t \in Targets |-> {}]}
TwoWrong(t) == [u \in Targets |-> IF u = t1 THEN {"harness"} ELSE IF u = t THEN {"unplaced"} ELSE {}]
SomeWrong == NoneWrong \cup {TwoWrong(t) : t \in {t2, t3}}

(* Two targets share a source. *)
OneAndTwo == (t1 :> s2) @@ (t2 :> s1) @@ (t3 :> s1)
=============================================================================
