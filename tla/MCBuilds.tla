------------------------------ MODULE MCBuilds ------------------------------
(* Instances of Builds for TLC: package p has two artifacts, q has one.     *)
EXTENDS Builds, TLC

CONSTANTS p, q, r1, r2, r3, r4, b1, b2, b3

TwoAndOne == (p :> 2) @@ (q :> 1)

MixedKinds ==
  [r \in Requests |-> CASE r = r1 -> "local" [] r = r2 -> "peer" [] r = r3 -> "leader" [] r = r4 -> "stranger"]
MixedPackages == [r \in Requests |-> IF r = r3 THEN q ELSE p]

LocalKinds == [r \in Requests |-> "local"]
SamePackage == [r \in Requests |-> p]
=============================================================================
