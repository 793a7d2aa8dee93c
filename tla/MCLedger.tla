------------------------------ MODULE MCLedger ------------------------------
(* Instances of Ledger for TLC: node f makes the genesis block, r1 and r2   *)
(* are replicas.                                                            *)
EXTENDS Ledger, TLC

CONSTANTS f, r1, r2

\* Every replica boots from the first node.
BootFromFirst == [n \in Node |-> f]

\* r2 boots from r1.
BootFromReplica == (r2 :> r1) @@ BootFromFirst

\* The replicas boot from each other.
BootMutual == (r1 :> r2) @@ (r2 :> r1) @@ BootFromFirst
=============================================================================
