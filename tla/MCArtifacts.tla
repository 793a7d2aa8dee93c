----------------------------- MODULE MCArtifacts -----------------------------
(* Instances of Artifacts for TLC: builder b, other nodes n and m.          *)
EXTENDS Artifacts, TLC

CONSTANTS b, n, m, t1, t2, t3

TwoOnN == (t1 :> n) @@ (t2 :> n) @@ (t3 :> m)
OneOnN == t1 :> n
Loads == (b :> 3) @@ (n :> 2) @@ (m :> 1)
=============================================================================
