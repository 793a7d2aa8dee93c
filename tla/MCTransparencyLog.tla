-------------------------- MODULE MCTransparencyLog --------------------------
(* Instances of TransparencyLog for TLC.                                    *)
EXTENDS TransparencyLog, TLC

CONSTANTS p, n, b1, b2, c1, c2

Same == (b1 :> p) @@ (b2 :> p)    \* the same package built twice
OneNode == (c1 :> n) @@ (c2 :> n) \* the same node added twice
=============================================================================
