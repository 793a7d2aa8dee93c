------------------------------ MODULE Authority ------------------------------
(***************************************************************************)
(* Multi-signatures of the authorities: each authority has a pen that signs *)
(* and a box of the public keys it knows, itself included.  A message is    *)
(* complete for a box when more than two thirds of the authorities it knows *)
(* have signed it.                                                          *)
(***************************************************************************)
EXTENDS Integers, FiniteSets

CONSTANTS
  Authorities,  \* the indices of all authorities
  Messages,
  Honest        \* the authorities that sign one message at most

\* There are finitely many authorities; the theorems assume it.
FinitelyMany == IsFiniteSet(Authorities) /\ Honest \subseteq Authorities

VARIABLES
  known,   \* authority -> the authorities recorded in its box
  signed   \* message -> the authorities that signed it

vars == <<known, signed>>

\* KeyBox::new records the pen itself.
Init ==
  /\ known = [a \in Authorities |-> {a}]
  /\ signed = [m \in Messages |-> {}]

threshold(n) == (2 * n) \div 3 + 1

record_authority(a, b) ==
  /\ known' = [known EXCEPT ![a] = @ \cup {b}]
  /\ UNCHANGED signed

\* The code signs what it is asked to sign; that an honest authority is asked for one
\* message only is up to the consensus protocol that would use it.
sign(a, m) ==
  /\ a \in Honest => \A o \in Messages : a \notin signed[o]
  /\ signed' = [signed EXCEPT ![m] = @ \cup {a}]
  /\ UNCHANGED known

\* A signature verifies when the box has the key of the one who made it.
is_complete(a, signers) ==
  /\ Cardinality(signers) >= threshold(Cardinality(known[a]))
  /\ signers \subseteq known[a]

Next ==
  \/ \E a, b \in Authorities : record_authority(a, b)
  \/ \E a \in Authorities, m \in Messages : sign(a, m)

Spec == Init /\ [][Next]_vars

-----------------------------------------------------------------------------
(* Properties                                                              *)

TypeOK ==
  /\ known \in [Authorities -> SUBSET Authorities]
  /\ signed \in [Messages -> SUBSET Authorities]
  /\ \A a \in Authorities : a \in known[a]

Complete(a, m) == \E signers \in SUBSET signed[m] : is_complete(a, signers)

\* More than two thirds of the authorities are honest.
MostHonest == 3 * Cardinality(Honest) > 2 * Cardinality(Authorities)

\* Two boxes that know all authorities never take two messages for complete: any
\* two sets of signers share an honest authority.
OneComplete ==
  \A a, b \in Authorities : \A m, o \in Messages :
    /\ known[a] = Authorities /\ known[b] = Authorities
    /\ Complete(a, m) /\ Complete(b, o)
    => m = o

\* "Completeness requires more than 2/3 of all authorities."  A complete message is
\* signed by more than two thirds of the authorities the box knows.
CompleteByMost ==
  \A a \in Authorities : \A m \in Messages :
    Complete(a, m) => 3 * Cardinality(signed[m] \cap known[a]) > 2 * Cardinality(known[a])
=============================================================================
