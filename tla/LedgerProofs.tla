---------------------------- MODULE LedgerProofs ----------------------------
(***************************************************************************)
(* Proofs about Ledger, for any number of nodes, writers, crashes and      *)
(* faults.                                                                 *)
(***************************************************************************)
EXTENDS Ledger, TLAPS

\* A leaf without a pragma is tried with Z3, then with Zenon.
USE SMTT(30), ZenonT(30)

-----------------------------------------------------------------------------
(* The chain and its files                                                 *)

LEMMA NoPlace == 1 .. Len(<<>>) = {}
  OBVIOUS

\* retrieve_blocks returns blocks of the chain, consecutive and from start on.
LEMMA RetrievedBlocks ==
  ASSUME NEW blocks \in Seq(Block), NEW start \in Nat, NEW end \in Nat,
         NEW r, r = RetrieveBlocks(blocks, start, end)
  PROVE  /\ r \in Seq(Block)
         /\ \A i \in 1 .. Len(r) : /\ start + i \in 1 .. Len(blocks)
                                   /\ r[i] = blocks[start + i]
<1>1. CASE r = <<>>
  BY <1>1
<1>2. CASE r # <<>>
  <2>1. /\ start <= end
        /\ start < Len(blocks)
        /\ end < Len(blocks)
        /\ r = SubSeq(blocks, start + 1, end + 1)
    BY <1>2 DEF RetrieveBlocks, HasPosition
  <2>2. \A i \in start + 1 .. end + 1 : blocks[i] \in Block
    BY <2>1
  <2>3. /\ r \in Seq(Block)
        /\ Len(r) = end - start + 1
        /\ \A i \in 1 .. Len(r) : r[i] = blocks[start + 1 + i - 1]
    BY <2>1, <2>2
  <2>4. ASSUME NEW i \in 1 .. Len(r)
        PROVE  start + i \in 1 .. Len(blocks) /\ start + 1 + i - 1 = start + i
    BY <2>1, <2>3
  <2> QED
    BY <2>3, <2>4
<1> QED
  BY <1>1, <1>2

\* A written file changes nothing but itself.
LEMMA WrittenFile ==
  ASSUME NEW files, IsDir(files), NEW o \in Nat, NEW c \in Block \cup {Torn}
  PROVE  /\ IsDir(WriteFile(files, o, c))
         /\ DOMAIN WriteFile(files, o, c) = DOMAIN files \cup {o}
         /\ WriteFile(files, o, c)[o] = c
         /\ \A p \in DOMAIN files \ {o} : WriteFile(files, o, c)[p] = files[p]
BY DEF IsDir, WriteFile

\* What load_blocks returns.
LEMMA Loaded ==
  ASSUME NEW files, IsDir(files), NEW k \in Nat,
         FirstMissing(files, k), Readable(files, k)
  PROVE  /\ LoadedBlocks(files, k) \in Seq(Block)
         /\ Len(LoadedBlocks(files, k)) = k
         /\ \A i \in 1 .. k : /\ i - 1 \in DOMAIN files
                              /\ LoadedBlocks(files, k)[i] = files[i - 1]
<1>1. \A i \in 1 .. k : i - 1 \in DOMAIN files /\ files[i - 1] \in Block
  BY DEF IsDir, FirstMissing, Readable
<1> QED
  BY <1>1 DEF LoadedBlocks

\* Chain::save_block leaves the file alone or writes this block's file, torn
\* or whole; without disk faults it succeeds on a block the chain holds.
LEMMA SavedBlock ==
  ASSUME NEW blocks, NEW files, IsDir(files), NEW b \in Block,
         NEW r \in SaveOutcomes(blocks, files, b)
  PROVE  /\ r.ok \in BOOLEAN
         /\ IsDir(r.files)
         /\ r.files \in {files, WriteFile(files, b.ordinal, Torn), WriteFile(files, b.ordinal, b)}
         /\ r.ok => r.files = WriteFile(files, b.ordinal, b)
         /\ "disk" \notin Faults /\ HasPosition(blocks, b.ordinal) => r.ok
<1>1. b.ordinal \in Nat
  BY DEF Block
<1>2. /\ IsDir(WriteFile(files, b.ordinal, Torn))
      /\ IsDir(WriteFile(files, b.ordinal, b))
  BY <1>1, WrittenFile, Zenon
<1>3. CASE ~HasPosition(blocks, b.ordinal)
  <2>1. r = [ok |-> FALSE, files |-> files]
    BY <1>3 DEF SaveOutcomes
  <2> QED
    BY <2>1, <1>3
<1>4. CASE HasPosition(blocks, b.ordinal)
  <2>1. CASE r = [ok |-> TRUE, files |-> WriteFile(files, b.ordinal, b)]
    BY <2>1, <1>2
  <2>2. CASE /\ "disk" \in Faults
             /\ \E f \in {files, WriteFile(files, b.ordinal, Torn), WriteFile(files, b.ordinal, b)} :
                  r = [ok |-> FALSE, files |-> f]
    BY <2>2, <1>2
  <2> QED
    BY <2>1, <2>2, <1>4 DEF SaveOutcomes
<1> QED
  BY <1>3, <1>4

-----------------------------------------------------------------------------
(* Types                                                                   *)

\* Blockchain::commit_block keeps chains and directories well formed.
LEMMA CommitTypes ==
  ASSUME TypeOK, NEW n \in Node, NEW b \in Block, NEW ok, CommitBlock(n, b, ok)
  PROVE  /\ chain' \in [Node -> Seq(Block)]
         /\ disk' = [m \in Node |-> disk'[m]]
         /\ \A m \in Node : IsDir(disk'[m])
<1>1. chain' \in [Node -> Seq(Block)]
  BY DEF CommitBlock, TypeOK
<1>2. PICK r \in SaveOutcomes(Append(chain[n], b), disk[n], b) :
        disk' = [disk EXCEPT ![n] = r.files]
  BY Zenon DEF CommitBlock
<1>3. IsDir(disk[n]) /\ IsDir(r.files)
  BY <1>2, SavedBlock DEF TypeOK
<1>4. disk' = [m \in Node |-> IF m = n THEN r.files ELSE disk[m]]
  BY <1>2 DEF TypeOK
<1> QED
  BY <1>1, <1>3, <1>4 DEF TypeOK

LEMMA AddBlockTypes ==
  ASSUME TypeOK, NEW n \in Node, NEW b \in Block, NEW ok, AddBlock(n, b, ok)
  PROVE  /\ chain' \in [Node -> Seq(Block)]
         /\ disk' = [m \in Node |-> disk'[m]]
         /\ \A m \in Node : IsDir(disk'[m])
BY CommitTypes DEF AddBlock, TypeOK

\* The block add_payload makes for a chain that is not empty.
Payload(n, log) ==
  [log |-> log, parent |-> LastBlock(chain[n]).log, ordinal |-> NextOrdinal(chain[n])]

\* add_payload does nothing, or commits such a block and perhaps gossips it.
LEMMA AddPayloadEffect ==
  ASSUME TypeOK, NEW n \in Node, NEW log \in Nat, NEW ok, AddPayload(n, log, ok)
  PROVE  \/ UNCHANGED <<chain, disk, gossip>>
         \/ /\ chain[n] # <<>>
            /\ Payload(n, log) \in Block
            /\ \E k \in BOOLEAN : CommitBlock(n, Payload(n, log), k)
            /\ gossip' \subseteq gossip \cup {<<m, Payload(n, log)>> : m \in Node \ {n}}
<1>1. CASE chain[n] = <<>>
  BY <1>1 DEF AddPayload, ledgerVars
<1>2. CASE chain[n] # <<>>
  <2>1. LastBlock(chain[n]) \in Block
    BY <1>2 DEF TypeOK, LastBlock
  <2>2. Payload(n, log) \in Block
    BY <2>1, <1>2 DEF Block, NextOrdinal, Payload
  <2> QED
    BY <1>2, <2>2, Zenon DEF AddPayload, Payload
<1> QED
  BY <1>1, <1>2

LEMMA AddPayloadTypes ==
  ASSUME TypeOK, NEW n \in Node, NEW log \in Nat, NEW ok, AddPayload(n, log, ok)
  PROVE  /\ chain' \in [Node -> Seq(Block)]
         /\ disk' = [m \in Node |-> disk'[m]]
         /\ \A m \in Node : IsDir(disk'[m])
         /\ gossip' \subseteq Node \X Block
<1>1. CASE UNCHANGED <<chain, disk, gossip>>
  BY <1>1 DEF TypeOK
<1>2. CASE /\ Payload(n, log) \in Block
           /\ \E k \in BOOLEAN : CommitBlock(n, Payload(n, log), k)
           /\ gossip' \subseteq gossip \cup {<<m, Payload(n, log)>> : m \in Node \ {n}}
  <2>1. gossip' \subseteq Node \X Block
    BY <1>2 DEF TypeOK
  <2> QED
    BY <1>2, <2>1, CommitTypes
<1> QED
  BY <1>1, <1>2, AddPayloadEffect

LEMMA HandleBlockAddedTypes ==
  ASSUME TypeOK, NEW n \in Node, NEW b \in Block, NEW ok, HandleBlockAdded(n, b, ok)
  PROVE  rows' \in [Node -> SUBSET Nat]
<1>1. rows[n] \cup {b.log} \in SUBSET Nat
  BY DEF TypeOK, Block
<1> QED
  BY <1>1, Zenon DEF HandleBlockAdded, TypeOK

\* HandleBlockBroadcast adds a gossiped block, and perhaps indexes it.
LEMMA BroadcastEffect ==
  ASSUME TypeOK, NEW n \in Node, HandleBlockBroadcast(n)
  PROVE  /\ LoopIdle(n)
         /\ gossip' \subseteq gossip
         /\ UNCHANGED <<up, pull, toCommit, toWrite, fresh>>
         /\ \E b \in Block : \E ok \in BOOLEAN :
              /\ <<n, b>> \in gossip
              /\ AddBlock(n, b, ok)
              /\ rows' = rows \/ \E k \in BOOLEAN : HandleBlockAdded(n, b, k)
<1>1. PICK b \in {m[2] : m \in gossip} :
        /\ Arrives(n, b)
        /\ gossip' \subseteq gossip
        /\ \E ok \in BOOLEAN : AddBlock(n, b, ok)
        /\ rows' = rows \/ \E ok \in BOOLEAN : HandleBlockAdded(n, b, ok)
  BY Zenon DEF HandleBlockBroadcast
<1>2. b \in Block /\ <<n, b>> \in gossip
  BY <1>1 DEF TypeOK, Arrives
<1> QED
  BY <1>1, <1>2 DEF HandleBlockBroadcast

\* PullAdd ends the loop over the pulled blocks, or adds the first of them.
LEMMA PullAddEffect ==
  ASSUME TypeOK, NEW n \in Node, PullAdd(n)
  PROVE  /\ pull[n].stage = "add"
         /\ UNCHANGED <<up, gossip, rows, toCommit, toWrite, fresh>>
         /\ \/ UNCHANGED <<chain, disk>> /\ Goto(n, "local")
            \/ /\ pull[n].blocks \in Seq(Block)
               /\ pull[n].blocks # <<>>
               /\ Head(pull[n].blocks) \in Block
               /\ Tail(pull[n].blocks) \in Seq(Block)
               /\ \E ok \in BOOLEAN : AddBlock(n, Head(pull[n].blocks), ok)
               /\ NextBlock(n) \/ Goto(n, "failed")
<1>1. pull[n].blocks \in Seq(Block)
  BY DEF TypeOK, PullState
<1>2. pull[n].blocks # <<>> => /\ Head(pull[n].blocks) \in Block
                              /\ Tail(pull[n].blocks) \in Seq(Block)
  BY <1>1
<1> QED
  BY <1>1, <1>2, Zenon DEF PullAdd, indexVars

\* The boot-time pull keeps the node's state well formed.
LEMMA PullTypes ==
  ASSUME TypeOK, NEW n \in Node, PullStep(n)
  PROVE  TypeOK'
<1> USE LedgerAssumption
<1> DEFINE peer == BootPeer[n]
<1>0. peer \in Node /\ chain[peer] \in Seq(Block) /\ chain[n] \in Seq(Block)
  BY DEF TypeOK
<1>a. pull[n] \in PullState /\ pull[n].ordinal \in Nat /\ pull[n].blocks \in Seq(Block)
  BY DEF TypeOK, PullState
<1>b. ASSUME NEW stage \in Stage, Goto(n, stage) PROVE pull' \in [Node -> PullState]
  BY <1>b, ZenonT(30) DEF Goto, TypeOK, PullState
<1>d. ASSUME NEW new \in PullState, pull' = [pull EXCEPT ![n] = new]
      PROVE  pull' \in [Node -> PullState]
  BY <1>d DEF TypeOK
<1>c. {"connect", "query", "local", "done", "failed"} \subseteq Stage
  BY DEF Stage, Busy
<1>1. CASE PullConnect(n)
  BY <1>1, <1>b, <1>c DEF PullConnect, TypeOK, ledgerVars, indexVars
<1>2. CASE PullQuery(n)
  <2>1. LastBlock(chain[peer]).ordinal \in Nat
    <3>1. chain[peer] # <<>>
      BY <1>2 DEF PullQuery
    <3>2. LastBlock(chain[peer]) \in Block
      BY <3>1, <1>0 DEF LastBlock
    <3> QED
      BY <3>2 DEF Block
  <2>2. [pull[n] EXCEPT !.stage = "request", !.ordinal = LastBlock(chain[peer]).ordinal] \in PullState
    BY <2>1, <1>a, Zenon DEF PullState, Stage, Busy
  <2>3. pull' \in [Node -> PullState]
    BY <1>2, <2>2, <1>d DEF PullQuery, TypeOK
  <2> QED
    BY <1>2, <2>3 DEF PullQuery, TypeOK, ledgerVars, indexVars
<1>3. CASE PullRequest(n)
  <2>1. RetrieveBlocks(chain[peer], 0, pull[n].ordinal) \in Seq(Block)
    BY <1>0, <1>a, RetrievedBlocks
  <2>2. [pull[n] EXCEPT !.stage = "add",
                        !.blocks = RetrieveBlocks(chain[peer], 0, pull[n].ordinal)] \in PullState
    BY <2>1, <1>a, Zenon DEF PullState, Stage, Busy
  <2>3. pull' \in [Node -> PullState]
    BY <1>3, <2>2, <1>d DEF PullRequest, TypeOK
  <2> QED
    BY <1>3, <2>3 DEF PullRequest, TypeOK, ledgerVars, indexVars
<1>4. CASE PullAdd(n)
  <2>1. CASE UNCHANGED <<chain, disk>> /\ Goto(n, "local")
    BY <1>4, <2>1, <1>b, <1>c, PullAddEffect DEF TypeOK
  <2>2. CASE /\ Head(pull[n].blocks) \in Block
             /\ Tail(pull[n].blocks) \in Seq(Block)
             /\ \E ok \in BOOLEAN : AddBlock(n, Head(pull[n].blocks), ok)
             /\ NextBlock(n) \/ Goto(n, "failed")
    <3>1. [pull[n] EXCEPT !.blocks = Tail(pull[n].blocks)] \in PullState
      BY <2>2, <1>a, Zenon DEF PullState
    <3>2. pull' \in [Node -> PullState]
      BY <2>2, <3>1, <1>b, <1>c, <1>d, Zenon DEF NextBlock, TypeOK
    <3> QED
      BY <1>4, <2>2, <3>2, PullAddEffect, AddBlockTypes, Zenon DEF TypeOK
  <2> QED
    BY <1>4, <2>1, <2>2, PullAddEffect
<1>5. CASE PullLocal(n)
  <2>1. RetrieveBlocks(chain[n], 1, pull[n].ordinal) \in Seq(Block)
    BY <1>0, <1>a, RetrievedBlocks, Zenon
  <2>2. [pull[n] EXCEPT !.stage = "index",
                        !.blocks = RetrieveBlocks(chain[n], 1, pull[n].ordinal)] \in PullState
    BY <2>1, <1>a, Zenon DEF PullState, Stage
  <2>3. pull' \in [Node -> PullState]
    BY <1>5, <2>2, <1>d DEF PullLocal, TypeOK
  <2> QED
    BY <1>5, <2>3 DEF PullLocal, TypeOK, ledgerVars, indexVars
<1>6. CASE PullIndex(n)
  <2>1. CASE pull[n].blocks = <<>>
    BY <1>6, <2>1, <1>b, <1>c DEF PullIndex, TypeOK, ledgerVars
  <2>2. CASE pull[n].blocks # <<>>
    <3>1. Head(pull[n].blocks) \in Block /\ Tail(pull[n].blocks) \in Seq(Block)
      BY <1>a, <2>2
    <3>2. rows' \in [Node -> SUBSET Nat]
      BY <1>6, <2>2, <3>1, HandleBlockAddedTypes, Zenon DEF PullIndex
    <3>3. NextBlock(n) \/ Goto(n, "failed")
      BY <1>6, <2>2, Zenon DEF PullIndex
    <3>4. [pull[n] EXCEPT !.blocks = Tail(pull[n].blocks)] \in PullState
      BY <3>1, <1>a, Zenon DEF PullState
    <3>5. pull' \in [Node -> PullState]
      BY <3>3, <3>4, <1>b, <1>c, <1>d, Zenon DEF NextBlock, TypeOK
    <3> QED
      BY <1>6, <3>2, <3>5 DEF PullIndex, TypeOK, ledgerVars
  <2> QED
    BY <2>1, <2>2
<1>7. CASE PullFail(n)
  BY <1>7, <1>b, <1>c DEF PullFail, TypeOK, ledgerVars, indexVars
<1> QED
  BY <1>1, <1>2, <1>3, <1>4, <1>5, <1>6, <1>7 DEF PullStep

\* A crash, also one in the middle of a write, leaves chains and files so.
LEMMA StopEffect ==
  ASSUME TypeOK, NEW n \in Node, Stop(n), NEW o \in Nat, fresh' \in Nat,
         disk' = disk \/ disk' = [disk EXCEPT ![n] = WriteFile(disk[n], o, Torn)]
  PROVE  /\ TypeOK'
         /\ gossip' = gossip
         /\ chain'[n] = <<>>
         /\ ~up'[n]
         /\ pull'[n].stage = "off"
         /\ pull'[n].blocks = <<>>
         /\ \A m \in Node \ {n} : /\ chain'[m] = chain[m]
                                  /\ disk'[m] = disk[m]
                                  /\ pull'[m] = pull[m]
                                  /\ up'[m] = up[m]
         /\ disk'[n] = disk[n] \/ disk'[n] = WriteFile(disk[n], o, Torn)
<1>1. IsDir(disk[n]) /\ IsDir(WriteFile(disk[n], o, Torn))
  BY WrittenFile, Zenon DEF TypeOK
<1>2. disk' = [m \in Node |-> disk'[m]] /\ \A m \in Node : IsDir(disk'[m])
  BY <1>1 DEF TypeOK
<1>3. PullIn("off") \in PullState
  BY DEF PullIn, PullState, Stage
<1>4. TypeOK'
  BY <1>2, <1>3 DEF Stop, TypeOK
<1> QED
  BY <1>4 DEF Stop, TypeOK, PullIn

\* The ways to crash.
Killed(n) == Crash(n) \/ CrashInSave(n) \/ (n = First /\ CrashInGenesis)

LEMMA CrashEffect ==
  ASSUME TypeOK, NEW n \in Node, Killed(n)
  PROVE  /\ Stop(n)
         /\ fresh' \in Nat
         /\ \/ disk' = disk
            \/ /\ up[n]
               /\ chain[n] # <<>>
               /\ NextOrdinal(chain[n]) \in Nat
               /\ disk' = [disk EXCEPT ![n] = WriteFile(disk[n], NextOrdinal(chain[n]), Torn)]
            \/ /\ n = First
               /\ ~up[First]
               /\ 0 \notin DOMAIN disk[First]
               /\ disk' = [disk EXCEPT ![n] = WriteFile(disk[n], 0, Torn)]
<1>1. CASE Crash(n)
  BY <1>1 DEF Crash, TypeOK
<1>2. CASE CrashInSave(n)
  <2>1. LastBlock(chain[n]) \in Block
    BY <1>2 DEF CrashInSave, TypeOK, LastBlock
  <2>2. NextOrdinal(chain[n]) \in Nat
    BY <1>2, <2>1 DEF CrashInSave, NextOrdinal, Block
  <2> QED
    BY <1>2, <2>2 DEF CrashInSave, LoopIdle, TypeOK
<1>3. CASE n = First /\ CrashInGenesis
  BY <1>3 DEF CrashInGenesis, FirstMissing, TypeOK
<1> QED
  BY <1>1, <1>2, <1>3 DEF Killed

\* Every handler keeps the node's state well formed.
LEMMA TypeStep == TypeOK /\ [Next]_vars => TypeOK'
<1> SUFFICES ASSUME TypeOK, [Next]_vars PROVE TypeOK'
  OBVIOUS
<1> USE LedgerAssumption
<1>1. CASE StartFirstFromDisk
  <2>1. PICK o \in DOMAIN disk[First] :
          /\ FirstMissing(disk[First], o + 1)
          /\ Readable(disk[First], o + 1)
          /\ chain' = [chain EXCEPT ![First] = LoadedBlocks(disk[First], o + 1)]
    BY <1>1, Zenon DEF StartFirstFromDisk
  <2>2. IsDir(disk[First]) /\ o + 1 \in Nat
    BY DEF TypeOK, IsDir
  <2>3. LoadedBlocks(disk[First], o + 1) \in Seq(Block)
    BY <2>1, <2>2, Loaded
  <2> QED
    BY <1>1, <2>1, <2>3 DEF StartFirstFromDisk, TypeOK, indexVars
<1>2. CASE StartFirstWithGenesis
  <2> DEFINE g == [log |-> fresh, parent |-> NoParent, ordinal |-> 0]
  <2>1. g \in Block
    BY DEF TypeOK, Block, NoParent
  <2>2. PICK r \in SaveOutcomes(<<g>>, disk[First], g) :
          /\ disk' = [disk EXCEPT ![First] = r.files]
          /\ up' = [up EXCEPT ![First] = r.ok]
          /\ chain' = [chain EXCEPT ![First] = IF r.ok THEN <<g>> ELSE @]
    BY <1>2, Zenon DEF StartFirstWithGenesis
  <2> HIDE DEF g
  <2>3. r.ok \in BOOLEAN /\ IsDir(r.files)
    BY <2>1, <2>2, SavedBlock DEF TypeOK
  <2>4. /\ disk' = [m \in Node |-> disk'[m]]
        /\ \A m \in Node : IsDir(disk'[m])
    BY <2>2, <2>3, Zenon DEF TypeOK
  <2>5. chain' \in [Node -> Seq(Block)] /\ up' \in [Node -> BOOLEAN]
    BY <2>1, <2>2, <2>3 DEF TypeOK
  <2>6. fresh' \in Nat /\ UNCHANGED <<gossip, pull, rows, toCommit, toWrite>>
    BY <1>2 DEF StartFirstWithGenesis, TypeOK, indexVars
  <2> QED
    BY <2>4, <2>5, <2>6 DEF TypeOK
<1>3. ASSUME NEW n \in Node, StartOther(n) PROVE TypeOK'
  BY <1>3 DEF StartOther, TypeOK, ledgerVars, indexVars, PullState, PullIn, Stage
<1>4. ASSUME NEW n \in Node, Killed(n) PROVE TypeOK'
  BY <1>4, CrashEffect, StopEffect
<1>5. ASSUME NEW n \in Node, AddAuthorizedNode(n) PROVE TypeOK'
  <2>1. PICK ok \in BOOLEAN : AddPayload(n, fresh, ok)
    BY <1>5 DEF AddAuthorizedNode
  <2>2. fresh \in Nat
    BY DEF TypeOK
  <2>3. fresh' \in Nat /\ toWrite' \in [Node -> SUBSET Nat]
    <3>1. toWrite[n] \cup {fresh} \in SUBSET Nat
      BY DEF TypeOK
    <3> QED
      BY <1>5, <2>2, <3>1 DEF AddAuthorizedNode, TypeOK
  <2> QED
    BY <1>5, <2>1, <2>2, <2>3, AddPayloadTypes, Zenon DEF AddAuthorizedNode, TypeOK
<1>6. ASSUME NEW n \in Node, WriteAuthorizedNode(n) PROVE TypeOK'
  <2>1. PICK log \in toWrite[n] :
          /\ toWrite' = [toWrite EXCEPT ![n] = @ \ {log}]
          /\ rows' = [rows EXCEPT ![n] = @ \cup {log}] \/ rows' = rows
    BY <1>6, Zenon DEF WriteAuthorizedNode
  <2>2. rows[n] \cup {log} \in SUBSET Nat /\ toWrite[n] \ {log} \in SUBSET Nat
    BY DEF TypeOK
  <2>3. rows' \in [Node -> SUBSET Nat]
    BY <2>1, <2>2, Zenon DEF TypeOK
  <2>4. toWrite' \in [Node -> SUBSET Nat]
    BY <2>1, <2>2 DEF TypeOK
  <2> QED
    BY <1>6, <2>3, <2>4 DEF WriteAuthorizedNode, TypeOK, ledgerVars
<1>7. ASSUME NEW n \in Node, AddArtifact(n) PROVE TypeOK'
  BY <1>7 DEF AddArtifact, TypeOK, ledgerVars
<1>8. ASSUME NEW n \in Node, BroadcastArtifact(n) PROVE TypeOK'
  <2>1. PICK log \in toCommit[n], ok \in BOOLEAN :
          /\ AddPayload(n, log, ok)
          /\ toCommit' = [toCommit EXCEPT ![n] = @ \ {log}]
    BY <1>8, Zenon DEF BroadcastArtifact
  <2>2. log \in Nat
    BY DEF TypeOK
  <2> QED
    BY <1>8, <2>1, <2>2, AddPayloadTypes, Zenon DEF BroadcastArtifact, TypeOK
<1>9. ASSUME NEW n \in Node, HandleBlockBroadcast(n) PROVE TypeOK'
  BY <1>9, BroadcastEffect, HandleBlockAddedTypes, AddBlockTypes, Zenon DEF TypeOK
<1>10. ASSUME NEW n \in Node, LoseBroadcast(n) PROVE TypeOK'
  BY <1>10 DEF LoseBroadcast, TypeOK, indexVars
<1>11. ASSUME NEW n \in Node, PullStep(n) PROVE TypeOK'
  BY <1>11, PullTypes
<1>12. CASE UNCHANGED vars
  BY <1>12 DEF vars, TypeOK
<1> QED
  BY <1>1, <1>2, <1>3, <1>4, <1>5, <1>6, <1>7, <1>8, <1>9, <1>10, <1>11, <1>12
  DEF Next, Killed

\* TypeOK is an invariant.
THEOREM TypeCorrect == Spec => []TypeOK
<1>1. Init => TypeOK
  BY LedgerAssumption DEF Init, TypeOK, EmptyDir, IsDir, PullIn, PullState, Stage
<1> QED
  BY <1>1, TypeStep, PTL DEF Spec

-----------------------------------------------------------------------------
(* The chain is sorted by ordinal                                          *)

\* A block file holds the block its name says, or is torn.
FilesOrdered ==
  \A n \in Node : \A o \in DOMAIN disk[n] :
    disk[n][o] # Torn => disk[n][o].ordinal = o

Ordered == OrdinalsConsecutive /\ FilesOrdered

\* In a chain sorted by ordinal, comparing a block with the last ordinal
\* compares it with the length.
LEMMA NextOrdinalIsLength ==
  ASSUME TypeOK, OrdinalsConsecutive, NEW n \in Node
  PROVE  /\ NextOrdinal(chain[n]) = Len(chain[n])
         /\ chain[n] \in Seq(Block)
<1>1. chain[n] \in Seq(Block)
  BY DEF TypeOK
<1>2. CASE chain[n] = <<>>
  BY <1>1, <1>2 DEF NextOrdinal
<1>3. CASE chain[n] # <<>>
  <2>1. Len(chain[n]) \in 1 .. Len(chain[n])
    BY <1>1, <1>3
  <2>2. chain[n][Len(chain[n])].ordinal = Len(chain[n]) - 1
    BY <2>1 DEF OrdinalsConsecutive
  <2> QED
    BY <1>1, <1>3, <2>1, <2>2 DEF NextOrdinal, LastBlock
<1> QED
  BY <1>2, <1>3

\* What commit_block does to the chain and the files.
LEMMA CommitEffect ==
  ASSUME TypeOK, NEW n \in Node, NEW b \in Block, NEW ok, CommitBlock(n, b, ok)
  PROVE  /\ chain' = [chain EXCEPT ![n] = Append(chain[n], b)]
         /\ \A m \in Node \ {n} : disk'[m] = disk[m]
         /\ disk'[n] \in {disk[n], WriteFile(disk[n], b.ordinal, Torn),
                          WriteFile(disk[n], b.ordinal, b)}
         /\ /\ "disk" \notin Faults
            /\ HasPosition(Append(chain[n], b), b.ordinal)
            => ok = TRUE /\ disk'[n] = WriteFile(disk[n], b.ordinal, b)
<1>1. PICK r \in SaveOutcomes(Append(chain[n], b), disk[n], b) :
        r.ok = ok /\ disk' = [disk EXCEPT ![n] = r.files]
  BY Zenon DEF CommitBlock
<1>2. IsDir(disk[n])
  BY DEF TypeOK
<1>3. disk'[n] = r.files /\ \A m \in Node \ {n} : disk'[m] = disk[m]
  BY <1>1 DEF TypeOK
<1>4. /\ r.ok \in BOOLEAN
      /\ r.files \in {disk[n], WriteFile(disk[n], b.ordinal, Torn),
                      WriteFile(disk[n], b.ordinal, b)}
      /\ r.ok => r.files = WriteFile(disk[n], b.ordinal, b)
      /\ "disk" \notin Faults /\ HasPosition(Append(chain[n], b), b.ordinal) => r.ok
  BY <1>2, SavedBlock
<1>5. chain' = [chain EXCEPT ![n] = Append(chain[n], b)]
  BY DEF CommitBlock
<1> QED
  BY <1>1, <1>3, <1>4, <1>5

\* A block that is committed where the chain ends keeps chain and files
\* ordered, however the write ends.
LEMMA CommitOrdered ==
  ASSUME TypeOK, Ordered, NEW n \in Node, NEW b \in Block, NEW ok,
         CommitBlock(n, b, ok), b.ordinal = NextOrdinal(chain[n])
  PROVE  Ordered'
<1>1. b.ordinal = Len(chain[n]) /\ chain[n] \in Seq(Block) /\ IsDir(disk[n])
  BY NextOrdinalIsLength DEF Ordered, TypeOK
<1>2. OrdinalsConsecutive'
  <2>1. chain' = [chain EXCEPT ![n] = Append(chain[n], b)]
    BY CommitEffect, Zenon
  <2>2. ASSUME NEW i \in 1 .. Len(Append(chain[n], b))
        PROVE  Append(chain[n], b)[i].ordinal = i - 1
    BY <1>1 DEF Ordered, OrdinalsConsecutive
  <2> QED
    BY <2>1, <2>2 DEF Ordered, OrdinalsConsecutive, TypeOK
<1>3. FilesOrdered'
  <2>1. /\ \A m \in Node \ {n} : disk'[m] = disk[m]
        /\ disk'[n] \in {disk[n], WriteFile(disk[n], b.ordinal, Torn),
                         WriteFile(disk[n], b.ordinal, b)}
    BY CommitEffect, Zenon
  <2>2. ASSUME NEW c \in {b, Torn}, NEW o \in DOMAIN WriteFile(disk[n], b.ordinal, c),
               WriteFile(disk[n], b.ordinal, c)[o] # Torn
        PROVE  WriteFile(disk[n], b.ordinal, c)[o].ordinal = o
    BY <2>2 DEF WriteFile, Ordered, FilesOrdered
  <2>3. \A o \in DOMAIN disk'[n] : disk'[n][o] # Torn => disk'[n][o].ordinal = o
    BY <2>1, <2>2 DEF Ordered, FilesOrdered
  <2> QED
    BY <2>1, <2>3 DEF Ordered, FilesOrdered
<1> QED
  BY <1>2, <1>3 DEF Ordered

LEMMA AddBlockOrdered ==
  ASSUME TypeOK, Ordered, NEW n \in Node, NEW b \in Block, NEW ok, AddBlock(n, b, ok)
  PROVE  Ordered'
BY CommitOrdered DEF AddBlock, Ordered, OrdinalsConsecutive, FilesOrdered

LEMMA AddPayloadOrdered ==
  ASSUME TypeOK, Ordered, NEW n \in Node, NEW log \in Nat, NEW ok, AddPayload(n, log, ok)
  PROVE  Ordered'
<1>1. CASE UNCHANGED <<chain, disk, gossip>>
  BY <1>1 DEF Ordered, OrdinalsConsecutive, FilesOrdered
<1>2. CASE /\ Payload(n, log) \in Block
           /\ \E k \in BOOLEAN : CommitBlock(n, Payload(n, log), k)
  <2>1. Payload(n, log).ordinal = NextOrdinal(chain[n])
    BY DEF Payload
  <2> QED
    BY <1>2, <2>1, CommitOrdered
<1> QED
  BY <1>1, <1>2, AddPayloadEffect

LEMMA OrderedStep == TypeOK /\ Ordered /\ [Next]_vars => Ordered'
<1> SUFFICES ASSUME TypeOK, Ordered, [Next]_vars PROVE Ordered'
  OBVIOUS
<1> USE LedgerAssumption
<1>0. ASSUME UNCHANGED <<chain, disk>> PROVE Ordered'
  BY <1>0 DEF Ordered, OrdinalsConsecutive, FilesOrdered
<1>1. CASE StartFirstFromDisk
  <2>1. PICK o \in DOMAIN disk[First] :
          /\ FirstMissing(disk[First], o + 1)
          /\ Readable(disk[First], o + 1)
          /\ chain' = [chain EXCEPT ![First] = LoadedBlocks(disk[First], o + 1)]
    BY <1>1, Zenon DEF StartFirstFromDisk
  <2>2. IsDir(disk[First]) /\ o + 1 \in Nat
    BY DEF TypeOK, IsDir
  <2>3. /\ Len(LoadedBlocks(disk[First], o + 1)) = o + 1
        /\ \A i \in 1 .. o + 1 : /\ i - 1 \in DOMAIN disk[First]
                                 /\ LoadedBlocks(disk[First], o + 1)[i] = disk[First][i - 1]
    BY <2>1, <2>2, Loaded
  <2>4. \A i \in 1 .. o + 1 : disk[First][i - 1] # Torn
    BY <2>1, <2>2 DEF Readable
  <2>5. \A i \in 1 .. o + 1 : LoadedBlocks(disk[First], o + 1)[i].ordinal = i - 1
    BY <2>3, <2>4 DEF Ordered, FilesOrdered
  <2>6. OrdinalsConsecutive'
    BY <2>1, <2>3, <2>5 DEF Ordered, OrdinalsConsecutive, TypeOK
  <2> QED
    BY <1>1, <2>6 DEF StartFirstFromDisk, Ordered, FilesOrdered
<1>2. CASE StartFirstWithGenesis
  <2> DEFINE g == [log |-> fresh, parent |-> NoParent, ordinal |-> 0]
  <2>1. g \in Block /\ g.ordinal = 0
    BY DEF TypeOK, Block, NoParent
  <2>2. PICK r \in SaveOutcomes(<<g>>, disk[First], g) :
          /\ disk' = [disk EXCEPT ![First] = r.files]
          /\ chain' = [chain EXCEPT ![First] = IF r.ok THEN <<g>> ELSE @]
    BY <1>2, Zenon DEF StartFirstWithGenesis
  <2> HIDE DEF g
  <2>3. r.files \in {disk[First], WriteFile(disk[First], 0, Torn), WriteFile(disk[First], 0, g)}
    BY <2>1, <2>2, SavedBlock DEF TypeOK
  <2>4. OrdinalsConsecutive'
    BY <2>1, <2>2 DEF Ordered, OrdinalsConsecutive, TypeOK
  <2>5. \A o \in DOMAIN r.files : r.files[o] # Torn => r.files[o].ordinal = o
    <3>1. CASE r.files = disk[First]
      BY <3>1 DEF Ordered, FilesOrdered
    <3>2. CASE r.files = WriteFile(disk[First], 0, Torn)
      BY <3>2 DEF WriteFile, Ordered, FilesOrdered
    <3>3. CASE r.files = WriteFile(disk[First], 0, g)
      BY <2>1, <3>3 DEF WriteFile, Ordered, FilesOrdered
    <3> QED
      BY <2>3, <3>1, <3>2, <3>3
  <2>6. FilesOrdered'
    BY <2>2, <2>5 DEF Ordered, FilesOrdered, TypeOK
  <2> QED
    BY <2>4, <2>6 DEF Ordered
<1>3. ASSUME NEW n \in Node, StartOther(n) PROVE Ordered'
  BY <1>0, <1>3 DEF StartOther, ledgerVars
<1>4. ASSUME NEW n \in Node, Killed(n) PROVE Ordered'
  <2>1. PICK o \in Nat : disk' = disk \/ disk' = [disk EXCEPT ![n] = WriteFile(disk[n], o, Torn)]
    BY <1>4, CrashEffect
  <2>2. /\ chain'[n] = <<>>
        /\ \A m \in Node \ {n} : chain'[m] = chain[m] /\ disk'[m] = disk[m]
        /\ disk'[n] = disk[n] \/ disk'[n] = WriteFile(disk[n], o, Torn)
    BY <1>4, <2>1, CrashEffect, StopEffect
  <2>3. OrdinalsConsecutive'
    BY <2>2 DEF Ordered, OrdinalsConsecutive
  <2>4. \A p \in DOMAIN disk'[n] : disk'[n][p] # Torn => disk'[n][p].ordinal = p
    BY <2>2 DEF Ordered, FilesOrdered, WriteFile
  <2>5. FilesOrdered'
    BY <2>2, <2>4 DEF Ordered, FilesOrdered
  <2> QED
    BY <2>3, <2>5 DEF Ordered
<1>5. ASSUME NEW n \in Node, AddAuthorizedNode(n) PROVE Ordered'
  BY <1>5, AddPayloadOrdered DEF AddAuthorizedNode, TypeOK
<1>6. ASSUME NEW n \in Node, WriteAuthorizedNode(n) PROVE Ordered'
  BY <1>0, <1>6 DEF WriteAuthorizedNode, ledgerVars
<1>7. ASSUME NEW n \in Node, AddArtifact(n) PROVE Ordered'
  BY <1>0, <1>7 DEF AddArtifact, ledgerVars
<1>8. ASSUME NEW n \in Node, BroadcastArtifact(n) PROVE Ordered'
  <2>1. PICK log \in toCommit[n], ok \in BOOLEAN : AddPayload(n, log, ok)
    BY <1>8 DEF BroadcastArtifact
  <2>2. log \in Nat
    BY DEF TypeOK
  <2> QED
    BY <2>1, <2>2, AddPayloadOrdered
<1>9. ASSUME NEW n \in Node, HandleBlockBroadcast(n) PROVE Ordered'
  BY <1>9, BroadcastEffect, AddBlockOrdered, Zenon
<1>10. ASSUME NEW n \in Node, LoseBroadcast(n) PROVE Ordered'
  BY <1>0, <1>10 DEF LoseBroadcast
<1>11. ASSUME NEW n \in Node, PullStep(n) PROVE Ordered'
  <2>1. CASE PullAdd(n)
    BY <2>1, <1>0, PullAddEffect, AddBlockOrdered
  <2>2. CASE ~PullAdd(n)
    BY <2>2, <1>0, <1>11, Zenon DEF PullStep, PullConnect, PullQuery, PullRequest, PullLocal,
                             PullIndex, PullFail, ledgerVars
  <2> QED
    BY <2>1, <2>2
<1>12. CASE UNCHANGED vars
  BY <1>0, <1>12 DEF vars
<1> QED
  BY <1>1, <1>2, <1>3, <1>4, <1>5, <1>6, <1>7, <1>8, <1>9, <1>10, <1>11, <1>12
  DEF Next, Killed

\* On every node, whatever was gossiped, pulled, loaded, lost or torn, and
\* however many nodes add payloads, the chain is sorted by ordinal without
\* gaps: what the comment on Chain promises, from add_block's comparison and
\* the order in which load_blocks reads the files.
THEOREM ChainSorted == Spec => []OrdinalsConsecutive
<1>1. Init => Ordered
  BY DEF Init, Ordered, OrdinalsConsecutive, FilesOrdered, EmptyDir
<1>2. Ordered => OrdinalsConsecutive
  BY DEF Ordered
<1> QED
  BY <1>1, <1>2, OrderedStep, TypeCorrect, PTL DEF Spec

-----------------------------------------------------------------------------
(* How blocks move.  Every step of the network is of one of six kinds, told *)
(* apart by what it does to the chains, the files and the blocks under way; *)
(* the invariants that say where blocks come from are proved kind by kind.  *)


\* The block is in a chain, gossiped, or among the blocks a node has pulled.
Known(b) ==
  \/ \E n \in Node : \E i \in 1 .. Len(chain[n]) : chain[n][i] = b
  \/ \E m \in gossip : m[2] = b
  \/ \E n \in Node : \E i \in 1 .. Len(pull[n].blocks) : pull[n].blocks[i] = b

\* The first node has a chain exactly while it runs, and pulls from nobody.
FirstRuns ==
  /\ pull[First].stage = "off"
  /\ up[First] <=> chain[First] # <<>>

\* Only writers have payloads to add or rows to write.
WritersOnly ==
  \A n \in Node : toCommit[n] # {} \/ toWrite[n] # {} => n \in Writers

\* What a step leaves alone when it neither starts nor stops the first node.
Steady ==
  /\ up'[First] = up[First]
  /\ pull'[First].stage = pull[First].stage

\* The blocks a step puts in the pulls were known before.
PullsKnown ==
  \A m \in Node : \A i \in 1 .. Len(pull'[m].blocks) : Known(pull'[m].blocks[i])

\* A step that adds no block anywhere.
Quiet ==
  /\ Steady
  /\ UNCHANGED <<chain, disk>>
  /\ gossip' \subseteq gossip
  /\ PullsKnown

\* A node commits a block it was sent.
Take(n, b) ==
  /\ Steady
  /\ n = First => up[First]
  /\ Known(b)
  /\ b.ordinal = NextOrdinal(chain[n])
  /\ \E ok \in BOOLEAN : CommitBlock(n, b, ok)
  /\ gossip' \subseteq gossip
  /\ PullsKnown

\* A node commits a block of its own.
Make(n, log) ==
  /\ Steady
  /\ n = First => up[First]
  /\ n \in Writers
  /\ chain[n] # <<>>
  /\ Payload(n, log) \in Block
  /\ \E ok \in BOOLEAN : CommitBlock(n, Payload(n, log), ok)
  /\ gossip' \subseteq gossip \cup {<<m, Payload(n, log)>> : m \in Node \ {n}}
  /\ PullsKnown

StepKind ==
  \/ StartFirstFromDisk
  \/ StartFirstWithGenesis
  \/ \E n \in Node : Killed(n)
  \/ Quiet
  \/ \E n \in Node : \E b \in Block : Take(n, b)
  \/ \E n \in Node : \E log \in Nat : Make(n, log)

-----------------------------------------------------------------------------
LEMMA AddBlockKind ==
  ASSUME TypeOK, NEW n \in Node, NEW b \in Block, NEW ok \in BOOLEAN, AddBlock(n, b, ok),
         Known(b), n = First => up[First], Steady, gossip' \subseteq gossip, PullsKnown
  PROVE  StepKind
<1>1. CASE b.ordinal = NextOrdinal(chain[n]) /\ CommitBlock(n, b, ok)
  BY <1>1 DEF Take, StepKind
<1>2. CASE UNCHANGED <<chain, disk>>
  BY <1>2 DEF Quiet, StepKind
<1> QED
  BY <1>1, <1>2 DEF AddBlock

LEMMA AddPayloadKind ==
  ASSUME TypeOK, FirstRuns, NEW n \in Writers, n \in Node, LoopIdle(n),
         NEW log \in Nat, NEW ok \in BOOLEAN, AddPayload(n, log, ok),
         Steady, PullsKnown
  PROVE  StepKind
<1>1. CASE UNCHANGED <<chain, disk, gossip>>
  BY <1>1 DEF Quiet, StepKind
<1>2. CASE /\ chain[n] # <<>>
           /\ Payload(n, log) \in Block
           /\ \E k \in BOOLEAN : CommitBlock(n, Payload(n, log), k)
           /\ gossip' \subseteq gossip \cup {<<m, Payload(n, log)>> : m \in Node \ {n}}
  <2>1. n = First => up[First]
    BY DEF LoopIdle
  <2>2. Make(n, log)
    BY <1>2, <2>1 DEF Make
  <2> QED
    BY <2>2 DEF StepKind
<1> QED
  BY <1>1, <1>2, AddPayloadEffect

\* A pull that keeps its blocks, drops one or copies them from a chain only
\* holds blocks that were known.
LEMMA PullsStayKnown ==
  ASSUME TypeOK, NEW n \in Node, NEW new \in Seq(Block),
         pull' \in [Node -> PullState], pull'[n].blocks = new,
         \A m \in Node \ {n} : pull'[m] = pull[m],
         \A i \in 1 .. Len(new) : Known(new[i])
  PROVE  PullsKnown
<1> SUFFICES ASSUME NEW m \in Node, NEW i \in 1 .. Len(pull'[m].blocks)
             PROVE  Known(pull'[m].blocks[i])
  BY DEF PullsKnown
<1>1. CASE m = n
  BY <1>1
<1>2. CASE m # n
  <2>1. pull'[m] = pull[m]
    BY <1>2
  <2> QED
    BY <2>1 DEF Known
<1> QED
  BY <1>1, <1>2

\* What the stages of a pull do to the blocks it holds.
LEMMA PullKnown ==
  ASSUME TypeOK, TypeOK', NEW n \in Node, PullStep(n)
  PROVE  PullsKnown
<1> USE LedgerAssumption
<1> DEFINE new == pull'[n].blocks
<1>0. /\ new \in Seq(Block)
      /\ pull[n] \in PullState
      /\ pull[n].blocks \in Seq(Block)
      /\ pull[n].ordinal \in Nat
      /\ pull' \in [Node -> PullState]
      /\ \A m \in Node : chain[m] \in Seq(Block)
  BY Zenon DEF TypeOK, PullState
<1>1. \A m \in Node \ {n} : pull'[m] = pull[m]
  BY ZenonT(30) DEF PullStep, PullConnect, PullQuery, PullRequest, PullAdd, PullLocal, PullIndex,
         PullFail, Goto, NextBlock, TypeOK
<1>2. \/ new = pull[n].blocks
      \/ pull[n].blocks # <<>> /\ new = Tail(pull[n].blocks)
      \/ new = RetrieveBlocks(chain[BootPeer[n]], 0, pull[n].ordinal)
      \/ new = RetrieveBlocks(chain[n], 1, pull[n].ordinal)
  <2>0. pull \in [Node -> PullState]
    BY DEF TypeOK
  <2>1. ASSUME NEW stage, Goto(n, stage) PROVE new = pull[n].blocks
    BY <2>0, <2>1, <1>0 DEF Goto, PullState
  <2>2. ASSUME NextBlock(n) PROVE new = Tail(pull[n].blocks)
    BY <2>0, <2>2, <1>0 DEF NextBlock, PullState
  <2>3. CASE PullConnect(n) \/ PullFail(n)
    BY <2>1, <2>3 DEF PullConnect, PullFail
  <2>4. CASE PullAdd(n) \/ PullIndex(n)
    BY <2>1, <2>2, <2>4, Zenon DEF PullAdd, PullIndex
  <2>5. CASE PullQuery(n)
    BY <2>0, <2>5, <1>0 DEF PullQuery, PullState
  <2>6. CASE PullRequest(n)
    BY <2>0, <2>6, <1>0 DEF PullRequest, PullState
  <2>7. CASE PullLocal(n)
    BY <2>0, <2>7, <1>0 DEF PullLocal, PullState
  <2> QED
    BY <2>3, <2>4, <2>5, <2>6, <2>7, Zenon DEF PullStep
<1>3. \A i \in 1 .. Len(new) : Known(new[i])
  <2> HIDE DEF new
  <2>1. CASE new = pull[n].blocks
    BY <2>1 DEF Known
  <2>2. CASE pull[n].blocks # <<>> /\ new = Tail(pull[n].blocks)
    <3>1. \A i \in 1 .. Len(new) : i + 1 \in 1 .. Len(pull[n].blocks) /\ new[i] = pull[n].blocks[i + 1]
      BY <1>0, <2>2
    <3> QED
      BY <3>1 DEF Known
  <2>3. ASSUME NEW m \in Node, NEW start \in Nat,
               new = RetrieveBlocks(chain[m], start, pull[n].ordinal)
        PROVE  \A i \in 1 .. Len(new) : Known(new[i])
    <3>1. \A i \in 1 .. Len(new) : start + i \in 1 .. Len(chain[m]) /\ new[i] = chain[m][start + i]
      BY <1>0, <2>3, RetrievedBlocks
    <3> QED
      BY <3>1 DEF Known
  <2>4. BootPeer[n] \in Node
    OBVIOUS
  <2> QED
    BY <1>2, <2>1, <2>2, <2>3, <2>4, Zenon
<1> HIDE DEF new
<1> QED
  BY <1>0, <1>1, <1>3, PullsStayKnown DEF new

\* Every step is of one of the six kinds.
LEMMA StepKinds ==
  ASSUME TypeOK, TypeOK', FirstRuns, WritersOnly, Next
  PROVE  StepKind
<1> USE LedgerAssumption
<1>0. ASSUME pull' = pull PROVE PullsKnown
  BY <1>0 DEF PullsKnown, Known
<1>1. CASE StartFirstFromDisk \/ StartFirstWithGenesis \/ \E n \in Node : Killed(n)
  BY <1>1 DEF StepKind
<1>2. ASSUME NEW n \in Node, StartOther(n) PROVE StepKind
  <2>1. /\ pull'[n].blocks = <<>>
        /\ pull' \in [Node -> PullState]
        /\ \A m \in Node \ {n} : pull'[m] = pull[m] /\ up'[m] = up[m]
    BY <1>2 DEF StartOther, TypeOK, PullIn
  <2>2. PullsKnown
    <3>1. <<>> \in Seq(Block) /\ \A i \in 1 .. Len(<<>>) : Known(<<>>[i])
      OBVIOUS
    <3> QED
      BY <2>1, <3>1, PullsStayKnown, Zenon
  <2>3. Steady /\ UNCHANGED <<chain, disk, gossip>>
    BY <1>2, <2>1, Zenon DEF StartOther, Steady, ledgerVars
  <2> QED
    BY <2>2, <2>3 DEF Quiet, StepKind
<1>3. ASSUME NEW n \in Node, AddAuthorizedNode(n) PROVE StepKind
  <2>1. PICK ok \in BOOLEAN : AddPayload(n, fresh, ok)
    BY <1>3 DEF AddAuthorizedNode
  <2>2. fresh \in Nat /\ n \in Writers /\ LoopIdle(n) /\ UNCHANGED <<up, pull>>
    BY <1>3 DEF AddAuthorizedNode, TypeOK
  <2> QED
    BY <2>1, <2>2, <1>0, AddPayloadKind DEF Steady
<1>4. ASSUME NEW n \in Node, WriteAuthorizedNode(n) PROVE StepKind
  BY <1>4, <1>0 DEF WriteAuthorizedNode, ledgerVars, Steady, Quiet, StepKind
<1>5. ASSUME NEW n \in Node, AddArtifact(n) PROVE StepKind
  BY <1>5, <1>0 DEF AddArtifact, ledgerVars, Steady, Quiet, StepKind
<1>6. ASSUME NEW n \in Node, BroadcastArtifact(n) PROVE StepKind
  <2>1. PICK log \in toCommit[n], ok \in BOOLEAN : AddPayload(n, log, ok)
    BY <1>6 DEF BroadcastArtifact
  <2>2. log \in Nat /\ n \in Writers /\ LoopIdle(n) /\ UNCHANGED <<up, pull>>
    BY <1>6 DEF BroadcastArtifact, TypeOK, WritersOnly
  <2> QED
    BY <2>1, <2>2, <1>0, AddPayloadKind DEF Steady
<1>7. ASSUME NEW n \in Node, HandleBlockBroadcast(n) PROVE StepKind
  <2>1. PICK b \in Block, ok \in BOOLEAN : <<n, b>> \in gossip /\ AddBlock(n, b, ok)
    BY <1>7, BroadcastEffect
  <2>2. /\ n = First => up[First]
        /\ gossip' \subseteq gossip
        /\ UNCHANGED <<up, pull>>
    BY <1>7, BroadcastEffect DEF LoopIdle
  <2>3. Known(b)
    BY <2>1 DEF Known
  <2> QED
    BY <2>1, <2>2, <2>3, <1>0, AddBlockKind DEF Steady
<1>8. ASSUME NEW n \in Node, LoseBroadcast(n) PROVE StepKind
  BY <1>8, <1>0 DEF LoseBroadcast, Steady, Quiet, StepKind
<1>9. ASSUME NEW n \in Node, PullStep(n) PROVE StepKind
  <2>1. n # First /\ PullsKnown
    BY <1>9, PullKnown, Zenon DEF FirstRuns, PullStep, PullConnect, PullQuery, PullRequest,
                           PullAdd, PullLocal, PullIndex, PullFail
  <2>2. Steady /\ gossip' \subseteq gossip
    BY <1>9, <2>1, ZenonT(30) DEF Steady, PullStep, PullConnect, PullQuery, PullRequest, PullAdd,
                      PullLocal, PullIndex, PullFail, Goto, NextBlock, ledgerVars, TypeOK
  <2>3. CASE PullAdd(n)
    <3>1. CASE UNCHANGED <<chain, disk>>
      BY <3>1, <2>1, <2>2 DEF Quiet, StepKind
    <3>2. CASE /\ pull[n].blocks \in Seq(Block)
               /\ pull[n].blocks # <<>>
               /\ Head(pull[n].blocks) \in Block
               /\ \E ok \in BOOLEAN : AddBlock(n, Head(pull[n].blocks), ok)
      <4>1. 1 \in 1 .. Len(pull[n].blocks) /\ Head(pull[n].blocks) = pull[n].blocks[1]
        BY <3>2
      <4>2. Known(Head(pull[n].blocks))
        BY <4>1 DEF Known
      <4> QED
        BY <3>2, <4>2, <2>1, <2>2, AddBlockKind
    <3> QED
      BY <2>3, <3>1, <3>2, PullAddEffect
  <2>4. CASE ~PullAdd(n)
    <3>1. UNCHANGED <<chain, disk>>
      BY <2>4, <1>9, Zenon DEF PullStep, PullConnect, PullQuery, PullRequest, PullLocal,
                        PullIndex, PullFail, ledgerVars
    <3> QED
      BY <3>1, <2>1, <2>2 DEF Quiet, StepKind
  <2> QED
    BY <2>3, <2>4
<1> QED
  BY <1>1, <1>2, <1>3, <1>4, <1>5, <1>6, <1>7, <1>8, <1>9 DEF Next, Killed

\* The chain after each kind of step that changes one.
LEMMA LoadedChain ==
  ASSUME TypeOK, StartFirstFromDisk
  PROVE  /\ UNCHANGED <<disk, gossip, pull>>
         /\ ~up[First] /\ up'[First]
         /\ \A n \in Node \ {First} : chain'[n] = chain[n]
         /\ chain'[First] \in Seq(Block)
         /\ \E k \in Nat \ {0} :
              /\ FirstMissing(disk[First], k)
              /\ Len(chain'[First]) = k
              /\ \A i \in 1 .. k : /\ i - 1 \in DOMAIN disk[First]
                                   /\ chain'[First][i] = disk[First][i - 1]
<1> USE LedgerAssumption
<1>1. PICK o \in DOMAIN disk[First] :
        /\ FirstMissing(disk[First], o + 1)
        /\ Readable(disk[First], o + 1)
        /\ chain' = [chain EXCEPT ![First] = LoadedBlocks(disk[First], o + 1)]
  BY Zenon DEF StartFirstFromDisk
<1>2. IsDir(disk[First]) /\ o + 1 \in Nat \ {0}
  BY DEF TypeOK, IsDir
<1>3. /\ LoadedBlocks(disk[First], o + 1) \in Seq(Block)
      /\ Len(LoadedBlocks(disk[First], o + 1)) = o + 1
      /\ \A i \in 1 .. o + 1 : /\ i - 1 \in DOMAIN disk[First]
                               /\ LoadedBlocks(disk[First], o + 1)[i] = disk[First][i - 1]
  BY <1>1, <1>2, Loaded
<1>4. /\ chain'[First] = LoadedBlocks(disk[First], o + 1)
      /\ \A n \in Node \ {First} : chain'[n] = chain[n]
  BY <1>1 DEF TypeOK
<1>5. UNCHANGED <<disk, gossip, pull>> /\ ~up[First] /\ up'[First]
  BY DEF StartFirstFromDisk, TypeOK
<1> QED
  BY <1>1, <1>2, <1>3, <1>4, <1>5, ZenonT(30)

LEMMA GenesisChain ==
  ASSUME TypeOK, StartFirstWithGenesis
  PROVE  /\ UNCHANGED <<gossip, pull>>
         /\ ~up[First]
         /\ 0 \notin DOMAIN disk[First]
         /\ \A n \in Node \ {First} : chain'[n] = chain[n] /\ disk'[n] = disk[n]
         /\ \E g \in Block :
              /\ g.ordinal = 0
              /\ g.parent = NoParent
              /\ disk'[First] \in {disk[First], WriteFile(disk[First], 0, Torn),
                                   WriteFile(disk[First], 0, g)}
              /\ \/ /\ up'[First]
                    /\ chain'[First] = <<g>>
                    /\ disk'[First] = WriteFile(disk[First], 0, g)
                 \/ /\ "disk" \in Faults
                    /\ ~up'[First]
                    /\ chain'[First] = chain[First]
<1> USE LedgerAssumption
<1> DEFINE g == [log |-> fresh, parent |-> NoParent, ordinal |-> 0]
<1>1. g \in Block /\ g.ordinal = 0 /\ g.parent = NoParent
  BY DEF TypeOK, Block, NoParent
<1>2. PICK r \in SaveOutcomes(<<g>>, disk[First], g) :
        /\ disk' = [disk EXCEPT ![First] = r.files]
        /\ up' = [up EXCEPT ![First] = r.ok]
        /\ chain' = [chain EXCEPT ![First] = IF r.ok THEN <<g>> ELSE @]
  BY Zenon DEF StartFirstWithGenesis
<1>3. HasPosition(<<g>>, g.ordinal)
  BY DEF HasPosition, LastBlock
<1> HIDE DEF g
<1>4. /\ r.ok \in BOOLEAN
      /\ r.files \in {disk[First], WriteFile(disk[First], 0, Torn), WriteFile(disk[First], 0, g)}
      /\ r.ok => r.files = WriteFile(disk[First], 0, g)
      /\ "disk" \notin Faults => r.ok
  BY <1>1, <1>2, <1>3, SavedBlock DEF TypeOK
<1>5. /\ disk'[First] = r.files
      /\ up'[First] = r.ok
      /\ chain'[First] = IF r.ok THEN <<g>> ELSE chain[First]
      /\ \A n \in Node \ {First} : chain'[n] = chain[n] /\ disk'[n] = disk[n]
  BY <1>2 DEF TypeOK
<1>6. UNCHANGED <<gossip, pull>> /\ ~up[First] /\ 0 \notin DOMAIN disk[First]
  BY DEF StartFirstWithGenesis, FirstMissing
<1> QED
  BY <1>1, <1>4, <1>5, <1>6

LEMMA CommittedChain ==
  ASSUME TypeOK, NEW n \in Node, NEW b \in Block, NEW ok, CommitBlock(n, b, ok)
  PROVE  /\ \A m \in Node \ {n} : chain'[m] = chain[m]
         /\ chain[n] \in Seq(Block)
         /\ chain'[n] \in Seq(Block)
         /\ chain'[n] = Append(chain[n], b)
         /\ chain'[n] # <<>>
         /\ Len(chain'[n]) = Len(chain[n]) + 1
         /\ \A i \in 1 .. Len(chain[n]) : chain'[n][i] = chain[n][i]
         /\ chain'[n][Len(chain[n]) + 1] = b
<1>1. chain' = [chain EXCEPT ![n] = Append(chain[n], b)] /\ chain[n] \in Seq(Block)
  BY CommitEffect, Zenon DEF TypeOK
<1>2. chain'[n] = Append(chain[n], b) /\ \A m \in Node \ {n} : chain'[m] = chain[m]
  BY <1>1 DEF TypeOK
<1> QED
  BY <1>1, <1>2

LEMMA CrashedChain ==
  ASSUME TypeOK, NEW n \in Node, Killed(n)
  PROVE  /\ gossip' = gossip
         /\ chain'[n] = <<>>
         /\ ~up'[n]
         /\ pull'[n].stage = "off"
         /\ pull'[n].blocks = <<>>
         /\ \A m \in Node \ {n} : /\ chain'[m] = chain[m]
                                  /\ disk'[m] = disk[m]
                                  /\ pull'[m] = pull[m]
                                  /\ up'[m] = up[m]
         /\ \/ disk'[n] = disk[n]
            \/ /\ up[n]
               /\ chain[n] # <<>>
               /\ disk'[n] = WriteFile(disk[n], NextOrdinal(chain[n]), Torn)
            \/ /\ n = First
               /\ ~up[First]
               /\ 0 \notin DOMAIN disk[First]
               /\ disk'[n] = WriteFile(disk[n], 0, Torn)
<1>1. Stop(n) /\ fresh' \in Nat
  BY CrashEffect, ZenonT(30)
<1>2. CASE disk' = disk
  BY <1>1, <1>2, StopEffect
<1>3. CASE /\ up[n]
           /\ chain[n] # <<>>
           /\ NextOrdinal(chain[n]) \in Nat
           /\ disk' = [disk EXCEPT ![n] = WriteFile(disk[n], NextOrdinal(chain[n]), Torn)]
  BY <1>1, <1>3, StopEffect, Zenon
<1>4. CASE /\ n = First
           /\ ~up[First]
           /\ 0 \notin DOMAIN disk[First]
           /\ disk' = [disk EXCEPT ![n] = WriteFile(disk[n], 0, Torn)]
  BY <1>1, <1>4, StopEffect, Zenon
<1> QED
  BY <1>2, <1>3, <1>4, CrashEffect, Zenon

LEMMA FirstRunsStep ==
  ASSUME TypeOK, FirstRuns, StepKind
  PROVE  FirstRuns'
<1> USE LedgerAssumption
<1>1. CASE StartFirstFromDisk
  <2>1. chain'[First] # <<>>
    BY <1>1, LoadedChain
  <2> QED
    BY <1>1, <2>1, LoadedChain DEF FirstRuns
<1>2. CASE StartFirstWithGenesis
  BY <1>2, GenesisChain DEF FirstRuns
<1>3. ASSUME NEW n \in Node, Killed(n) PROVE FirstRuns'
  <2>1. CASE n = First
    BY <1>3, <2>1, CrashedChain DEF FirstRuns
  <2>2. CASE n # First
    BY <1>3, <2>2, CrashedChain DEF FirstRuns
  <2> QED
    BY <2>1, <2>2
<1>4. CASE Quiet
  BY <1>4 DEF Quiet, Steady, FirstRuns
<1>5. ASSUME Steady, NEW n \in Node, NEW b \in Block, NEW ok, CommitBlock(n, b, ok),
             n = First => up[First]
      PROVE  FirstRuns'
  BY <1>5, CommittedChain DEF Steady, FirstRuns
<1>6. ASSUME NEW n \in Node, NEW b \in Block, Take(n, b) PROVE FirstRuns'
  BY <1>5, <1>6 DEF Take
<1>7. ASSUME NEW n \in Node, NEW log \in Nat, Make(n, log) PROVE FirstRuns'
  BY <1>5, <1>7 DEF Make
<1> QED
  BY <1>1, <1>2, <1>3, <1>4, <1>6, <1>7 DEF StepKind

LEMMA WritersOnlyStep ==
  ASSUME TypeOK, WritersOnly, [Next]_vars
  PROVE  WritersOnly'
<1> USE LedgerAssumption
<1>1. CASE StartFirstFromDisk \/ StartFirstWithGenesis
  BY <1>1, ZenonT(30) DEF StartFirstFromDisk, StartFirstWithGenesis, indexVars, WritersOnly
<1>2. ASSUME NEW n \in Node, StartOther(n) \/ LoseBroadcast(n) PROVE WritersOnly'
  BY <1>2 DEF StartOther, LoseBroadcast, indexVars, WritersOnly
<1>3. ASSUME NEW n \in Node, Killed(n) PROVE WritersOnly'
  BY <1>3, CrashEffect, ZenonT(30) DEF Stop, WritersOnly, TypeOK
<1>4. ASSUME NEW n \in Node, AddAuthorizedNode(n) PROVE WritersOnly'
  BY <1>4 DEF AddAuthorizedNode, WritersOnly, TypeOK
<1>5. ASSUME NEW n \in Node, WriteAuthorizedNode(n) PROVE WritersOnly'
  BY <1>5 DEF WriteAuthorizedNode, WritersOnly, TypeOK
<1>6. ASSUME NEW n \in Node, AddArtifact(n) PROVE WritersOnly'
  BY <1>6 DEF AddArtifact, WritersOnly, TypeOK
<1>7. ASSUME NEW n \in Node, BroadcastArtifact(n) PROVE WritersOnly'
  BY <1>7 DEF BroadcastArtifact, WritersOnly, TypeOK
<1>8. ASSUME NEW n \in Node, HandleBlockBroadcast(n) \/ PullStep(n) PROVE WritersOnly'
  BY <1>8, Zenon DEF HandleBlockBroadcast, PullStep, PullConnect, PullQuery, PullRequest, PullAdd,
              PullLocal, PullIndex, PullFail, indexVars, WritersOnly
<1>9. CASE UNCHANGED vars
  BY <1>9 DEF vars, WritersOnly
<1> QED
  BY <1>1, <1>2, <1>3, <1>4, <1>5, <1>6, <1>7, <1>8, <1>9 DEF Next, Killed

-----------------------------------------------------------------------------
(* Where blocks come from                                                  *)

\* A block is known after a step if it was before, or was read from the first
\* node's files, or is the genesis block it made, or the payload a node added.
LEMMA KnownAfter ==
  ASSUME TypeOK, StepKind, NEW b \in Block, Known(b)'
  PROVE  \/ Known(b)
         \/ StartFirstFromDisk /\ \E o \in DOMAIN disk[First] : disk[First][o] = b
         \/ StartFirstWithGenesis /\ disk'[First] = WriteFile(disk[First], 0, b)
         \/ \E n \in Node : \E log \in Nat : Make(n, log) /\ b = Payload(n, log)
<1> USE LedgerAssumption
<1>0. ASSUME UNCHANGED <<gossip, pull>>,
             ~\E n \in Node : \E i \in 1 .. Len(chain'[n]) : chain'[n][i] = b
      PROVE  Known(b)
  BY <1>0 DEF Known
<1>1. CASE StartFirstFromDisk
  <2>1. ASSUME NEW n \in Node, NEW i \in 1 .. Len(chain'[n]), chain'[n][i] = b
        PROVE  Known(b) \/ \E o \in DOMAIN disk[First] : disk[First][o] = b
    <3>1. CASE n = First
      BY <1>1, <2>1, <3>1, LoadedChain
    <3>2. CASE n # First
      <4>1. chain'[n] = chain[n]
        BY <1>1, <3>2, LoadedChain
      <4> QED
        BY <2>1, <4>1 DEF Known
    <3> QED
      BY <3>1, <3>2
  <2> QED
    BY <1>0, <1>1, <2>1, LoadedChain, Zenon
<1>2. CASE StartFirstWithGenesis
  <2>1. ASSUME NEW n \in Node, NEW i \in 1 .. Len(chain'[n]), chain'[n][i] = b
        PROVE  Known(b) \/ disk'[First] = WriteFile(disk[First], 0, b)
    <3>1. CASE chain'[n] = chain[n]
      BY <2>1, <3>1 DEF Known
    <3>2. CASE n = First /\ chain'[n] # chain[n]
      <4>1. PICK g \in Block : chain'[First] = <<g>> /\ disk'[First] = WriteFile(disk[First], 0, g)
        BY <1>2, <3>2, GenesisChain
      <4>2. b = g
        <5>1. chain'[n] = <<g>>
          BY <3>2, <4>1
        <5>2. i = 1
          BY <5>1
        <5> QED
          BY <2>1, <5>1, <5>2
      <4> QED
        BY <4>1, <4>2
    <3> QED
      BY <1>2, <3>1, <3>2, GenesisChain
  <2> QED
    BY <1>0, <1>2, <2>1, GenesisChain
<1>3. ASSUME NEW n \in Node, Killed(n) PROVE Known(b)
  <2>1. /\ UNCHANGED gossip
        /\ \A m \in Node : chain'[m] = <<>> \/ chain'[m] = chain[m]
        /\ \A m \in Node : pull'[m].blocks = <<>> \/ pull'[m] = pull[m]
    BY <1>3, CrashedChain
  <2>2. ASSUME NEW m \in Node, NEW i \in 1 .. Len(chain'[m]), chain'[m][i] = b PROVE Known(b)
    <3>1. chain'[m] = chain[m]
      BY <2>1, NoPlace, Zenon
    <3> QED
      BY <2>2, <3>1 DEF Known
  <2>3. ASSUME NEW m \in Node, NEW i \in 1 .. Len(pull'[m].blocks), pull'[m].blocks[i] = b
        PROVE  Known(b)
    <3>1. pull'[m] = pull[m]
      BY <2>1, NoPlace, Zenon
    <3> QED
      BY <2>3, <3>1 DEF Known
  <2>4. ASSUME NEW m \in gossip', m[2] = b PROVE Known(b)
    BY <2>1, <2>4 DEF Known
  <2> QED
    BY <2>2, <2>3, <2>4, ZenonT(30) DEF Known
<1>4. CASE Quiet
  <2>1. ASSUME NEW n \in Node, NEW i \in 1 .. Len(pull'[n].blocks), pull'[n].blocks[i] = b
        PROVE  Known(b)
    BY <1>4, <2>1 DEF Quiet, PullsKnown
  <2>2. chain' = chain /\ gossip' \subseteq gossip
    BY <1>4 DEF Quiet
  <2> QED
    BY <2>1, <2>2 DEF Known
<1>5. ASSUME NEW n \in Node, NEW c \in Block, NEW ok, CommitBlock(n, c, ok), PullsKnown,
             gossip' \subseteq gossip \cup {<<m, c>> : m \in Node \ {n}}
      PROVE  Known(b) \/ b = c
  <2>1. ASSUME NEW m \in Node, NEW i \in 1 .. Len(chain'[m]), chain'[m][i] = b
        PROVE  Known(b) \/ b = c
    <3>1. CASE m = n
      <4>1. i \in 1 .. Len(chain[n]) \/ i = Len(chain[n]) + 1
        BY <1>5, <3>1, CommittedChain
      <4>2. CASE i \in 1 .. Len(chain[n])
        <5>1. chain'[n][i] = chain[n][i]
          BY <1>5, <4>2, CommittedChain
        <5> QED
          BY <2>1, <3>1, <4>2, <5>1 DEF Known
      <4>3. CASE i = Len(chain[n]) + 1
        <5>1. chain'[n][i] = c
          BY <1>5, <3>1, <4>3, CommittedChain
        <5> QED
          BY <2>1, <3>1, <5>1
      <4> QED
        BY <4>1, <4>2, <4>3
    <3>2. CASE m # n
      <4>1. chain'[m] = chain[m]
        BY <1>5, <3>2, CommittedChain
      <4> QED
        BY <2>1, <4>1 DEF Known
    <3> QED
      BY <3>1, <3>2
  <2>2. ASSUME NEW m \in gossip', m[2] = b PROVE Known(b) \/ b = c
    <3>1. m \in gossip \/ \E k \in Node : m = <<k, c>>
      <4>1. gossip' \subseteq gossip \cup {<<k, c>> : k \in Node \ {n}}
        BY <1>5
      <4> QED
        BY <4>1
    <3>2. CASE m \in gossip
      BY <2>2, <3>2 DEF Known
    <3>3. CASE \E k \in Node : m = <<k, c>>
      BY <2>2, <3>3
    <3> QED
      BY <3>1, <3>2, <3>3
  <2>3. ASSUME NEW m \in Node, NEW i \in 1 .. Len(pull'[m].blocks), pull'[m].blocks[i] = b
        PROVE  Known(b)
    BY <1>5, <2>3 DEF PullsKnown
  <2> QED
    BY <2>1, <2>2, <2>3 DEF Known
<1>6. ASSUME NEW n \in Node, NEW c \in Block, Take(n, c) PROVE Known(b)
  BY <1>5, <1>6 DEF Take
<1>7. ASSUME NEW n \in Node, NEW log \in Nat, Make(n, log) PROVE Known(b) \/ b = Payload(n, log)
  BY <1>5, <1>7 DEF Make
<1> QED
  BY <1>1, <1>2, <1>3, <1>4, <1>6, <1>7 DEF StepKind

\* Every genesis block under way is the one in the first node's files.
OneGenesis == \A b \in Block : Known(b) /\ b.ordinal = 0 => OnFirstDisk(b)

\* Once the first node has a genesis file it is never written again.
LEMMA GenesisFileKept ==
  ASSUME TypeOK, Ordered, FirstRuns, StepKind, 0 \in DOMAIN disk[First]
  PROVE  0 \in DOMAIN disk'[First] /\ disk'[First][0] = disk[First][0]
<1> USE LedgerAssumption
<1>0. up[First] => NextOrdinal(chain[First]) \in Nat \ {0}
  <2>1. NextOrdinal(chain[First]) = Len(chain[First]) /\ chain[First] \in Seq(Block)
    BY NextOrdinalIsLength DEF Ordered
  <2> QED
    BY <2>1 DEF FirstRuns
<1>1. CASE StartFirstFromDisk \/ Quiet
  BY <1>1, LoadedChain DEF Quiet
<1>5. ASSUME NEW n \in Node, Killed(n)
      PROVE  0 \in DOMAIN disk'[First] /\ disk'[First][0] = disk[First][0]
  <2>1. CASE n = First /\ up[First] /\ disk'[First] = WriteFile(disk[First], NextOrdinal(chain[First]), Torn)
    BY <1>0, <2>1 DEF WriteFile
  <2>2. CASE disk'[First] = disk[First]
    BY <2>2
  <2> QED
    BY <1>5, <2>1, <2>2, CrashedChain
<1>2. CASE StartFirstWithGenesis
  BY <1>2, GenesisChain
<1>3. ASSUME NEW n \in Node, NEW b \in Block, NEW ok, CommitBlock(n, b, ok),
             b.ordinal = NextOrdinal(chain[n]), n = First => up[First]
      PROVE  0 \in DOMAIN disk'[First] /\ disk'[First][0] = disk[First][0]
  <2>1. CASE n = First
    <3>1. b.ordinal # 0
      BY <1>0, <1>3, <2>1
    <3>2. disk'[First] \in {disk[First], WriteFile(disk[First], b.ordinal, Torn),
                            WriteFile(disk[First], b.ordinal, b)}
      BY <1>3, <2>1, CommitEffect, Zenon
    <3> QED
      BY <3>1, <3>2 DEF WriteFile
  <2>2. CASE n # First
    BY <1>3, <2>2, CommitEffect, ZenonT(30)
  <2> QED
    BY <2>1, <2>2
<1>4. ASSUME NEW n \in Node, NEW log \in Nat, Make(n, log)
      PROVE  0 \in DOMAIN disk'[First] /\ disk'[First][0] = disk[First][0]
  BY <1>3, <1>4 DEF Make, Payload
<1> QED
  BY <1>1, <1>2, <1>3, <1>4, <1>5 DEF StepKind, Take

LEMMA OneGenesisStep ==
  ASSUME TypeOK, Ordered, FirstRuns, OneGenesis, StepKind
  PROVE  OneGenesis'
<1> USE LedgerAssumption
<1> SUFFICES ASSUME NEW b \in Block, Known(b)', b.ordinal = 0
             PROVE  OnFirstDisk(b)'
  BY DEF OneGenesis
<1>1. CASE Known(b)
  BY <1>1, GenesisFileKept DEF OneGenesis, OnFirstDisk
<1>2. CASE StartFirstFromDisk /\ \E o \in DOMAIN disk[First] : disk[First][o] = b
  <2>1. PICK o \in DOMAIN disk[First] : disk[First][o] = b
    BY <1>2
  <2>2. o = 0
    BY <2>1, TornAssumption DEF Ordered, FilesOrdered
  <2> QED
    BY <1>2, <2>1, <2>2, LoadedChain DEF OnFirstDisk
<1>3. CASE StartFirstWithGenesis /\ disk'[First] = WriteFile(disk[First], 0, b)
  BY <1>3 DEF OnFirstDisk, WriteFile
<1>4. ASSUME NEW n \in Node, NEW log \in Nat, Make(n, log), b = Payload(n, log) PROVE FALSE
  <2>1. b.ordinal = Len(chain[n]) /\ chain[n] \in Seq(Block) /\ chain[n] # <<>>
    BY <1>4, NextOrdinalIsLength DEF Make, Payload, Ordered
  <2> QED
    BY <2>1
<1> QED
  BY <1>1, <1>2, <1>3, <1>4, KnownAfter

\* The inductive invariant of the runs with any number of writers.
LedgerInv == TypeOK /\ Ordered /\ FirstRuns /\ WritersOnly /\ OneGenesis

LEMMA LedgerInvariant == Spec => []LedgerInv
<1> USE LedgerAssumption
<1>1. Init => Ordered /\ FirstRuns /\ WritersOnly /\ OneGenesis
  <2> SUFFICES ASSUME Init PROVE Ordered /\ FirstRuns /\ WritersOnly /\ OneGenesis
    OBVIOUS
  <2>1. Ordered
    BY DEF Init, Ordered, OrdinalsConsecutive, FilesOrdered, EmptyDir
  <2>2. FirstRuns /\ WritersOnly
    BY DEF Init, FirstRuns, PullIn, WritersOnly
  <2>3. \A n \in Node : chain[n] = <<>> /\ pull[n].blocks = <<>>
    BY DEF Init, PullIn
  <2>4. gossip = {}
    BY DEF Init
  <2>5. OneGenesis
    BY <2>3, <2>4 DEF OneGenesis, Known
  <2> QED
    BY <2>1, <2>2, <2>5
<1>2. TypeOK /\ TypeOK' /\ Ordered /\ FirstRuns /\ WritersOnly /\ OneGenesis /\ [Next]_vars
      => Ordered' /\ FirstRuns' /\ WritersOnly' /\ OneGenesis'
  <2> SUFFICES ASSUME TypeOK, TypeOK', Ordered, FirstRuns, WritersOnly, OneGenesis, [Next]_vars
               PROVE  FirstRuns' /\ OneGenesis'
    BY OrderedStep, WritersOnlyStep
  <2>1. CASE Next
    BY <2>1, StepKinds, FirstRunsStep, OneGenesisStep
  <2>2. CASE UNCHANGED vars
    BY <2>2 DEF vars, FirstRuns, OneGenesis, Known, OnFirstDisk
  <2> QED
    BY <2>1, <2>2
<1> QED
  BY <1>1, <1>2, TypeCorrect, PTL DEF Spec, LedgerInv

\* Every node that has a chain has the same genesis block, whatever crashes,
\* fails to save or loads its files again, and whoever adds payloads:
\* Blockchain::new only makes one while its directory has no file 0.ser.
THEOREM SameGenesis == Spec => []GenesisAgreement
<1>1. LedgerInv => GenesisAgreement
  <2> SUFFICES ASSUME LedgerInv, NEW m \in Node, NEW n \in Node,
                      chain[m] # <<>>, chain[n] # <<>>
               PROVE  chain[m][1] = chain[n][1]
    BY DEF GenesisAgreement
  <2>1. ASSUME NEW p \in Node, chain[p] # <<>>
        PROVE  chain[p][1] = disk[First][0]
    <3>1. chain[p] \in Seq(Block) /\ 1 \in 1 .. Len(chain[p]) /\ chain[p][1] \in Block
      BY <2>1 DEF LedgerInv, TypeOK
    <3>2. chain[p][1].ordinal = 0
      BY <3>1 DEF LedgerInv, Ordered, OrdinalsConsecutive
    <3>3. Known(chain[p][1])
      BY <3>1 DEF Known
    <3> QED
      BY <3>1, <3>2, <3>3 DEF LedgerInv, OneGenesis, OnFirstDisk
  <2> QED
    BY <2>1
<1> QED
  BY <1>1, LedgerInvariant, PTL
=============================================================================
