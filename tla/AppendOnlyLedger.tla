-------------------------- MODULE AppendOnlyLedger --------------------------
(***************************************************************************)
(* What the blockchain component promises (docs/developers/pyrsia-         *)
(* architecture-and-use-cases.md: "store and retrieve immutable            *)
(* transparency logs, and distribute them across all peers"): one ledger   *)
(* that is only ever extended, by blocks linked to their predecessor, and  *)
(* on every node a view that is a prefix of it, that grows, or is lost     *)
(* when the node stops.                                                    *)
(***************************************************************************)
EXTENDS Chain

CONSTANTS Node, First

VARIABLES
  ledger,  \* a function from the ordinals in use to the blocks
  view     \* the prefix of the ledger each node knows

Init ==
  /\ ledger = EmptyDir
  /\ view = [n \in Node |-> <<>>]

Agrees(blocks) ==
  \A i \in 1 .. Len(blocks) : i - 1 \in DOMAIN ledger /\ blocks[i] = ledger[i - 1]

Extends(longer, shorter) ==
  /\ Len(longer) > Len(shorter)
  /\ \A i \in 1 .. Len(shorter) : longer[i] = shorter[i]

\* The block at ordinal o carries that ordinal and names the one before it.
Linked(o, blk) ==
  /\ blk.ordinal = o
  /\ o = 0 => blk.parent = NoParent
  /\ o # 0 => o - 1 \in DOMAIN ledger /\ blk.parent = ledger[o - 1].log

OnlyViewOf(n) == view' = [view EXCEPT ![n] = view'[n]]

\* The first node, which knows the whole ledger, adds a block.
Commit ==
  \E o \in DOMAIN ledger' \ DOMAIN ledger :
    /\ ledger' = WriteFile(ledger, o, ledger'[o])
    /\ Linked(o, ledger'[o])
    /\ DOMAIN ledger = 0 .. (Len(view[First]) - 1)
    /\ view' = [view EXCEPT ![First] = Append(@, ledger'[o])]

Learn(n) ==
  /\ UNCHANGED ledger
  /\ OnlyViewOf(n)
  /\ Extends(view'[n], view[n])
  /\ Agrees(view'[n])

Forget(n) ==
  /\ UNCHANGED ledger
  /\ view' = [view EXCEPT ![n] = <<>>]

Next == Commit \/ \E n \in Node : Learn(n) \/ Forget(n)

Spec == Init /\ [][Next]_<<ledger, view>>
=============================================================================
