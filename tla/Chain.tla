------------------------------- MODULE Chain -------------------------------
(***************************************************************************)
(* The in-memory chain and its block files: the data structure of          *)
(* src/blockchain/src/structures/chain.rs, as operators on a sequence of   *)
(* blocks and on a directory of files.                                     *)
(*                                                                         *)
(* A block is abstracted to what the node's code tells apart.  Its payload *)
(* is one transparency log, and every log is given to add_block once, so   *)
(* the log identifies the block and stands for its (collision free) hash.  *)
(***************************************************************************)
EXTENDS Naturals, Sequences

CONSTANT Torn   \* the content of a block file that does not deserialize

\* HashDigest::new(b""), the parent hash of the genesis block.
NoParent == 0

Block == [log : Nat, parent : Nat, ordinal : Nat]

ASSUME TornAssumption == Torn \notin Block

LastBlock(blocks) == blocks[Len(blocks)]

\* The ordinal the next block of this chain has to carry.
NextOrdinal(blocks) ==
  IF blocks = <<>> THEN 0 ELSE LastBlock(blocks).ordinal + 1

\* get_block_position: the block with this ordinal sits at index ordinal + 1.
HasPosition(blocks, ordinal) ==
  /\ ordinal < Len(blocks)
  /\ ordinal <= LastBlock(blocks).ordinal
  /\ blocks[ordinal + 1].ordinal = ordinal

\* retrieve_blocks: both ends included, nothing if either end is unknown.
RetrieveBlocks(blocks, start, end) ==
  IF HasPosition(blocks, start) /\ HasPosition(blocks, end) /\ start <= end
  THEN SubSeq(blocks, start + 1, end + 1)
  ELSE <<>>

-----------------------------------------------------------------------------
(***************************************************************************)
(* A directory is a function from the ordinals of the files <ordinal>.ser  *)
(* it holds to their contents.                                             *)
(***************************************************************************)
EmptyDir == [o \in {} |-> Torn]

IsDir(files) ==
  /\ files = [o \in DOMAIN files |-> files[o]]
  /\ DOMAIN files \subseteq Nat
  /\ \A o \in DOMAIN files : files[o] \in Block \cup {Torn}

WriteFile(files, ordinal, content) ==
  [o \in DOMAIN files \cup {ordinal} |->
     IF o = ordinal THEN content ELSE files[o]]

\* load_blocks stops at the first ordinal that has no file.
FirstMissing(files, k) ==
  /\ k \notin DOMAIN files
  /\ \A o \in 0 .. (k - 1) : o \in DOMAIN files

\* Mutant: a file that does not deserialize does not stop the loading.
ReadableAnyway(files, k) == TRUE

\* load_blocks fails on the first file that does not deserialize.
Readable(files, k) == \A o \in 0 .. (k - 1) : files[o] # Torn

LoadedBlocks(files, k) == [i \in 1 .. k |-> files[i - 1]]
=============================================================================
