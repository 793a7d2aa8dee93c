--------------------------- MODULE MCVerification ---------------------------
(* Instances of Verification for TLC: packages p and q with artifacts a, b. *)
EXTENDS Verification, TLC

CONSTANTS p, q, a, b, h, g, s1, s2, s3, s4, s5

Add(package, artifact, hash, num) ==
  [package |-> package, artifact |-> artifact, hash |-> hash, num |-> num, kind |-> "AddArtifact"]

\* One transaction per artifact of p, one of q, one of each other kind.
EachOnce ==
  (s1 :> Add(p, a, h, 2)) @@ (s2 :> Add(p, b, g, 2)) @@ (s3 :> Add(q, a, h, 1))
  @@ (s4 :> [Add(q, a, h, 1) EXCEPT !.kind = "OtherOperation"])
  @@ (s5 :> [Add(q, b, g, 1) EXCEPT !.kind = "Garbage"])

\* The transaction of an artifact is submitted twice.
OneTwice == (s1 :> Add(p, a, h, 2)) @@ (s2 :> Add(p, a, h, 2)) @@ (s3 :> Add(p, b, g, 2))
=============================================================================
