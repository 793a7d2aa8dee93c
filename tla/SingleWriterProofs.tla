------------------------- MODULE SingleWriterProofs -------------------------
(***************************************************************************)
(* What Ledger guarantees when only the first node adds payloads and no    *)
(* write fails under a running node; nodes still crash, also in the middle *)
(* of a write, and messages are lost, duplicated and reordered, at will.   *)
(***************************************************************************)
EXTENDS LedgerProofs

\* A leaf without a pragma is tried with Z3, then with Zenon.
USE SMTT(30), ZenonT(30)

SingleWriter == Writers \subseteq {First} /\ "disk" \notin Faults

\* Every block under way is in the first node's files, under its ordinal.
AllOnFirst == \A b \in Block : Known(b) => OnFirstDisk(b)

\* The first node's files: without gaps, linked, and while it runs as many as
\* its chain has blocks.
FirstDurable ==
  /\ \A o \in DOMAIN disk[First] : \A p \in 0 .. o : p \in DOMAIN disk[First]
  /\ up[First] => DOMAIN disk[First] = 0 .. (Len(chain[First]) - 1)
  /\ \A o \in DOMAIN disk[First] \ {0} :
       disk[First][o] # Torn => disk[First][o].parent = disk[First][o - 1].log

WriterInv == LedgerInv /\ AllOnFirst /\ FirstDurable

-----------------------------------------------------------------------------
\* Blocks of a chain are where the first node's files have them.
LEMMA ChainOnFirst ==
  ASSUME WriterInv, NEW n \in Node, NEW i \in 1 .. Len(chain[n])
  PROVE  /\ i - 1 \in DOMAIN disk[First]
         /\ chain[n][i] = disk[First][i - 1]
         /\ chain[n][i] \in Block
         /\ chain[n][i].ordinal = i - 1
<1>1. chain[n][i] \in Block
  BY DEF WriterInv, LedgerInv, TypeOK
<1>2. chain[n][i].ordinal = i - 1
  BY DEF WriterInv, LedgerInv, Ordered, OrdinalsConsecutive
<1>3. Known(chain[n][i])
  BY DEF Known
<1> QED
  BY <1>1, <1>2, <1>3 DEF WriterInv, AllOnFirst, OnFirstDisk

\* The first node never takes a block from another node.
LEMMA OthersTake ==
  ASSUME WriterInv, NEW n \in Node, NEW b \in Block, Take(n, b)
  PROVE  n # First /\ OnFirstDisk(b) /\ b.ordinal = Len(chain[n])
<1> USE LedgerAssumption
<1>1. OnFirstDisk(b)
  BY DEF WriterInv, AllOnFirst, Take
<1>2. b.ordinal = Len(chain[n]) /\ chain[n] \in Seq(Block)
  BY NextOrdinalIsLength DEF WriterInv, LedgerInv, Ordered, Take
<1>3. n = First => b.ordinal \in 0 .. (Len(chain[First]) - 1)
  BY <1>1 DEF WriterInv, FirstDurable, OnFirstDisk, Take
<1> QED
  BY <1>1, <1>2, <1>3

\* A block the first node makes is appended to its files too.
LEMMA FirstMakes ==
  ASSUME SingleWriter, WriterInv, NEW n \in Node, NEW log \in Nat, Make(n, log)
  PROVE  LET b == Payload(n, log)
             o == Len(chain[First])
         IN  /\ n = First
             /\ up[First]
             /\ b \in Block
             /\ b.ordinal = o
             /\ o \in Nat \ {0}
             /\ b.parent = disk[First][o - 1].log
             /\ DOMAIN disk[First] = 0 .. (o - 1)
             /\ disk'[First] = WriteFile(disk[First], o, b)
<1> USE LedgerAssumption
<1> DEFINE b == Payload(n, log)
<1>1. n = First /\ up[First]
  BY DEF SingleWriter, Make
<1>2. b \in Block /\ chain[First] # <<>>
  BY <1>1 DEF Make
<1>3. /\ b.ordinal = Len(chain[First])
      /\ chain[First] \in Seq(Block)
      /\ b.parent = chain[First][Len(chain[First])].log
  BY <1>1, NextOrdinalIsLength DEF WriterInv, LedgerInv, Ordered, Payload, LastBlock
<1>4. Len(chain[First]) \in Nat \ {0} /\ Len(chain[First]) \in 1 .. Len(chain[First])
  BY <1>2, <1>3
<1>5. b.parent = disk[First][Len(chain[First]) - 1].log
  BY <1>3, <1>4, ChainOnFirst
<1>6. DOMAIN disk[First] = 0 .. (Len(chain[First]) - 1)
  BY <1>1 DEF WriterInv, FirstDurable
<1> HIDE DEF b
<1>7. HasPosition(Append(chain[First], b), b.ordinal)
  BY <1>2, <1>3 DEF HasPosition, LastBlock
<1>8. disk'[First] = WriteFile(disk[First], b.ordinal, b)
  BY <1>1, <1>2, <1>7, CommitEffect, Zenon DEF Make, b, SingleWriter, WriterInv, LedgerInv
<1> QED
  BY <1>1, <1>2, <1>3, <1>4, <1>5, <1>6, <1>8 DEF b

\* Making the genesis block: the first file of an empty directory.
LEMMA FirstGenesis ==
  ASSUME SingleWriter, WriterInv, StartFirstWithGenesis
  PROVE  /\ up'[First]
         /\ chain[First] = <<>>
         /\ DOMAIN disk[First] = {}
         /\ \E g \in Block : /\ g.ordinal = 0
                             /\ g.parent = NoParent
                             /\ chain'[First] = <<g>>
                             /\ disk'[First] = WriteFile(disk[First], 0, g)
<1> USE LedgerAssumption
<1>1. ~up[First] /\ 0 \notin DOMAIN disk[First]
  BY GenesisChain DEF WriterInv, LedgerInv
<1>2. chain[First] = <<>>
  BY <1>1 DEF WriterInv, LedgerInv, FirstRuns
<1>3. DOMAIN disk[First] = {}
  BY <1>1 DEF WriterInv, FirstDurable, LedgerInv, TypeOK, IsDir
<1> QED
  BY <1>2, <1>3, GenesisChain DEF WriterInv, LedgerInv, SingleWriter

\* A crash of the first node leaves its files alone, or adds one that is torn.
LEMMA FirstKilled ==
  ASSUME WriterInv, NEW n \in Node, Killed(n)
  PROVE  \/ disk'[First] = disk[First]
         \/ \E k \in Nat : /\ ~up'[First]
                            /\ DOMAIN disk[First] = 0 .. (k - 1)
                            /\ disk'[First] = WriteFile(disk[First], k, Torn)
<1> USE LedgerAssumption
<1>0. TypeOK
  BY DEF WriterInv, LedgerInv
<1>1. CASE /\ n = First
           /\ up[First]
           /\ disk'[First] = WriteFile(disk[First], NextOrdinal(chain[First]), Torn)
  <2>1. NextOrdinal(chain[First]) = Len(chain[First]) /\ Len(chain[First]) \in Nat
    BY NextOrdinalIsLength DEF WriterInv, LedgerInv, Ordered
  <2>2. DOMAIN disk[First] = 0 .. (Len(chain[First]) - 1)
    BY <1>1 DEF WriterInv, FirstDurable
  <2> QED
    BY <1>0, <1>1, <2>1, <2>2, CrashedChain
<1>2. CASE /\ n = First
           /\ 0 \notin DOMAIN disk[First]
           /\ disk'[First] = WriteFile(disk[First], 0, Torn)
  <2>1. DOMAIN disk[First] = {}
    BY <1>0, <1>2 DEF WriterInv, FirstDurable, TypeOK, IsDir
  <2>2. DOMAIN disk[First] = 0 .. (0 - 1)
    BY <2>1
  <2> QED
    BY <1>0, <1>2, <2>2, CrashedChain
<1> QED
  BY <1>0, <1>1, <1>2, CrashedChain

\* The first node's files only grow.
LEMMA FirstFilesGrow ==
  ASSUME SingleWriter, WriterInv, StepKind, NEW o \in DOMAIN disk[First]
  PROVE  o \in DOMAIN disk'[First] /\ disk'[First][o] = disk[First][o]
<1> USE LedgerAssumption
<1>0. TypeOK
  BY DEF WriterInv, LedgerInv
<1>1. CASE StartFirstFromDisk \/ Quiet
  BY <1>0, <1>1, LoadedChain DEF Quiet
<1>5. ASSUME NEW n \in Node, Killed(n)
      PROVE  o \in DOMAIN disk'[First] /\ disk'[First][o] = disk[First][o]
  <2>1. CASE disk'[First] = disk[First]
    BY <2>1
  <2>2. ASSUME NEW k \in Nat, DOMAIN disk[First] = 0 .. (k - 1),
               disk'[First] = WriteFile(disk[First], k, Torn)
        PROVE  o \in DOMAIN disk'[First] /\ disk'[First][o] = disk[First][o]
    BY <2>2 DEF WriteFile
  <2> QED
    BY <1>5, <2>1, <2>2, FirstKilled
<1>2. CASE StartFirstWithGenesis
  BY <1>2, FirstGenesis
<1>3. ASSUME NEW n \in Node, NEW b \in Block, Take(n, b) PROVE disk'[First] = disk[First]
  BY <1>0, <1>3, OthersTake, CommitEffect, Zenon DEF Take
<1>4. ASSUME NEW n \in Node, NEW log \in Nat, Make(n, log)
      PROVE  o \in DOMAIN disk'[First] /\ disk'[First][o] = disk[First][o]
  <2>1. /\ DOMAIN disk[First] = 0 .. (Len(chain[First]) - 1)
        /\ Len(chain[First]) \in Nat
        /\ disk'[First] = WriteFile(disk[First], Len(chain[First]), Payload(n, log))
    BY <1>4, FirstMakes
  <2> QED
    BY <2>1 DEF WriteFile
<1> QED
  BY <1>1, <1>2, <1>3, <1>4, <1>5 DEF StepKind

LEMMA AllOnFirstStep ==
  ASSUME SingleWriter, WriterInv, StepKind
  PROVE  AllOnFirst'
<1> USE LedgerAssumption
<1> SUFFICES ASSUME NEW b \in Block, Known(b)' PROVE OnFirstDisk(b)'
  BY DEF AllOnFirst
<1>0. TypeOK
  BY DEF WriterInv, LedgerInv
<1>1. CASE Known(b)
  BY <1>1, FirstFilesGrow DEF WriterInv, AllOnFirst, OnFirstDisk
<1>2. CASE StartFirstFromDisk /\ \E o \in DOMAIN disk[First] : disk[First][o] = b
  <2>1. PICK o \in DOMAIN disk[First] : disk[First][o] = b
    BY <1>2
  <2>2. b.ordinal = o
    BY <2>1, TornAssumption DEF WriterInv, LedgerInv, Ordered, FilesOrdered
  <2> QED
    BY <1>0, <1>2, <2>1, <2>2, LoadedChain DEF OnFirstDisk
<1>3. CASE StartFirstWithGenesis /\ disk'[First] = WriteFile(disk[First], 0, b)
  <2>1. PICK g \in Block : g.ordinal = 0 /\ disk'[First] = WriteFile(disk[First], 0, g)
    BY <1>3, FirstGenesis
  <2>2. b = g
    BY <1>3, <2>1 DEF WriteFile
  <2> QED
    BY <2>1, <2>2 DEF OnFirstDisk, WriteFile
<1>4. ASSUME NEW n \in Node, NEW log \in Nat, Make(n, log), b = Payload(n, log)
      PROVE  OnFirstDisk(b)'
  <2>1. disk'[First] = WriteFile(disk[First], b.ordinal, b)
    BY <1>4, FirstMakes
  <2> QED
    BY <2>1 DEF OnFirstDisk, WriteFile
<1> QED
  BY <1>0, <1>1, <1>2, <1>3, <1>4, KnownAfter

LEMMA FirstDurableStep ==
  ASSUME SingleWriter, WriterInv, StepKind
  PROVE  FirstDurable'
<1> USE LedgerAssumption
<1>0. TypeOK /\ IsDir(disk[First])
  BY DEF WriterInv, LedgerInv, TypeOK
<1>1. CASE StartFirstFromDisk
  <2>1. PICK k \in Nat \ {0} : FirstMissing(disk[First], k) /\ Len(chain'[First]) = k
    BY <1>0, <1>1, LoadedChain
  <2>2. DOMAIN disk[First] = 0 .. (k - 1)
    <3>1. ASSUME NEW o \in DOMAIN disk[First] PROVE o \in 0 .. (k - 1)
      <4>1. o \in Nat /\ k \notin DOMAIN disk[First]
        BY <1>0, <2>1 DEF FirstMissing, IsDir
      <4>2. k \notin 0 .. o
        BY <4>1 DEF WriterInv, FirstDurable
      <4> QED
        BY <4>1, <4>2
    <3> QED
      BY <2>1, <3>1, Zenon DEF FirstMissing
  <2> QED
    BY <1>0, <1>1, <2>1, <2>2, LoadedChain, Zenon DEF WriterInv, FirstDurable
<1>2. CASE StartFirstWithGenesis
  <2>1. PICK g \in Block : /\ chain'[First] = <<g>>
                           /\ disk'[First] = WriteFile(disk[First], 0, g)
    BY <1>2, FirstGenesis
  <2>2. DOMAIN disk[First] = {}
    BY <1>2, FirstGenesis
  <2>3. DOMAIN disk'[First] = {0} /\ disk'[First][0] = g /\ Len(chain'[First]) = 1
    BY <2>1, <2>2 DEF WriteFile
  <2> QED
    BY <2>3 DEF FirstDurable
<1>3. ASSUME NEW n \in Node, Killed(n) PROVE FirstDurable'
  <2>1. CASE disk'[First] = disk[First]
    <3>1. /\ n = First => ~up'[First]
          /\ n # First => up'[First] = up[First] /\ chain'[First] = chain[First]
      BY <1>0, <1>3, CrashedChain
    <3> QED
      BY <2>1, <3>1 DEF WriterInv, FirstDurable
  <2>2. ASSUME NEW k \in Nat, ~up'[First],
               DOMAIN disk[First] = 0 .. (k - 1),
               disk'[First] = WriteFile(disk[First], k, Torn)
        PROVE  FirstDurable'
    <3>1. /\ DOMAIN disk'[First] = 0 .. k
          /\ disk'[First][k] = Torn
          /\ \A p \in 0 .. (k - 1) : disk'[First][p] = disk[First][p]
      BY <2>2 DEF WriteFile
    <3>2. ASSUME NEW p \in DOMAIN disk'[First] \ {0}, disk'[First][p] # Torn
          PROVE  disk'[First][p].parent = disk'[First][p - 1].log
      <4>1. p \in 0 .. (k - 1) /\ p - 1 \in 0 .. (k - 1)
        BY <3>1, <3>2
      <4> QED
        BY <2>2, <3>1, <3>2, <4>1 DEF WriterInv, FirstDurable
    <3> QED
      BY <2>2, <3>1, <3>2 DEF FirstDurable
  <2> QED
    BY <1>3, <2>1, <2>2, FirstKilled
<1>4. CASE Quiet
  BY <1>4 DEF Quiet, Steady, WriterInv, FirstDurable
<1>5. ASSUME NEW n \in Node, NEW b \in Block, Take(n, b) PROVE FirstDurable'
  <2>1. n # First
    BY <1>5, OthersTake
  <2>2. PICK ok \in BOOLEAN : CommitBlock(n, b, ok)
    BY <1>5 DEF Take
  <2>3. disk'[First] = disk[First]
    BY <1>0, <2>1, <2>2, CommitEffect, Zenon
  <2>4. chain'[First] = chain[First]
    BY <1>0, <2>1, <2>2, CommittedChain
  <2>5. up'[First] = up[First]
    BY <1>5 DEF Take, Steady
  <2> QED
    BY <2>3, <2>4, <2>5 DEF WriterInv, FirstDurable
<1>6. ASSUME NEW n \in Node, NEW log \in Nat, Make(n, log) PROVE FirstDurable'
  <2> DEFINE b == Payload(n, log)
             o == Len(chain[First])
  <2>1. /\ n = First
        /\ b \in Block
        /\ o \in Nat \ {0}
        /\ b.parent = disk[First][o - 1].log
        /\ DOMAIN disk[First] = 0 .. (o - 1)
        /\ disk'[First] = WriteFile(disk[First], o, b)
    BY <1>6, FirstMakes
  <2>2. Len(chain'[First]) = o + 1
    BY <1>0, <1>6, <2>1, CommittedChain DEF Make
  <2> HIDE DEF b, o
  <2>3. /\ DOMAIN disk'[First] = 0 .. o
        /\ disk'[First][o] = b
        /\ \A p \in 0 .. (o - 1) : disk'[First][p] = disk[First][p]
    BY <2>1 DEF WriteFile
  <2>4. \A p \in DOMAIN disk'[First] \ {0} :
          disk'[First][p] # Torn => disk'[First][p].parent = disk'[First][p - 1].log
    <3> SUFFICES ASSUME NEW p \in 1 .. o, disk'[First][p] # Torn
                 PROVE  disk'[First][p].parent = disk'[First][p - 1].log
      BY <2>1, <2>3
    <3>1. p - 1 \in 0 .. (o - 1) /\ disk'[First][p - 1] = disk[First][p - 1]
      BY <2>1, <2>3
    <3>2. CASE p = o
      BY <2>1, <2>3, <3>1, <3>2
    <3>3. CASE p # o
      <4>1. p \in DOMAIN disk[First] \ {0} /\ disk'[First][p] = disk[First][p]
        BY <2>1, <2>3, <3>3
      <4> QED
        BY <3>1, <4>1 DEF WriterInv, FirstDurable
    <3> QED
      BY <3>2, <3>3
  <2> QED
    BY <2>1, <2>2, <2>3, <2>4 DEF FirstDurable
<1> QED
  BY <1>1, <1>2, <1>3, <1>4, <1>5, <1>6 DEF StepKind

LEMMA WriterInvariant ==
  ASSUME SingleWriter
  PROVE  Spec => []WriterInv
<1> USE LedgerAssumption
<1>1. Init => AllOnFirst /\ FirstDurable
  BY DEF Init, AllOnFirst, FirstDurable, Known, EmptyDir, PullIn
<1>2. LedgerInv /\ LedgerInv' /\ AllOnFirst /\ FirstDurable /\ [Next]_vars
      => AllOnFirst' /\ FirstDurable'
  <2> SUFFICES ASSUME LedgerInv, LedgerInv', AllOnFirst, FirstDurable, [Next]_vars
               PROVE  AllOnFirst' /\ FirstDurable'
    OBVIOUS
  <2>1. CASE Next
    <3>1. StepKind /\ WriterInv
      BY <2>1, StepKinds DEF LedgerInv, WriterInv
    <3> QED
      BY <3>1, AllOnFirstStep, FirstDurableStep
  <2>2. CASE UNCHANGED vars
    BY <2>2 DEF vars, AllOnFirst, FirstDurable, Known, OnFirstDisk
  <2> QED
    BY <2>1, <2>2
<1> QED
  BY <1>1, <1>2, LedgerInvariant, PTL DEF Spec, WriterInv

\* No forks: with one writer and durable files, every chain is at any time a
\* prefix of what the first node restarts from.
THEOREM NoFork ==
  ASSUME SingleWriter
  PROVE  Spec => []PrefixOfFirst
<1>1. WriterInv => PrefixOfFirst
  BY ChainOnFirst DEF PrefixOfFirst, OnFirstDisk
<1> QED
  BY <1>1, WriterInvariant, PTL

\* With one writer and durable files, every block in every chain names the
\* block before it as its parent.
THEOREM ParentLinks ==
  ASSUME SingleWriter
  PROVE  Spec => []HashLinked
<1>1. WriterInv => HashLinked
  <2> SUFFICES ASSUME WriterInv, NEW n \in Node, NEW i \in 2 .. Len(chain[n])
               PROVE  chain[n][i].parent = chain[n][i - 1].log
    BY DEF HashLinked
  <2>1. chain[n] \in Seq(Block)
    BY DEF WriterInv, LedgerInv, TypeOK
  <2>2. i \in 1 .. Len(chain[n]) /\ i - 1 \in 1 .. Len(chain[n]) /\ i - 1 # 0
    BY <2>1
  <2>3. /\ i - 1 \in DOMAIN disk[First]
        /\ chain[n][i] = disk[First][i - 1]
        /\ chain[n][i] \in Block
        /\ chain[n][i - 1] = disk[First][i - 1 - 1]
    BY <2>2, ChainOnFirst
  <2> QED
    BY <2>2, <2>3, TornAssumption DEF WriterInv, FirstDurable
<1> QED
  BY <1>1, WriterInvariant, PTL

-----------------------------------------------------------------------------
(* The transparency log of a replica                                       *)

\* What a step adds to a replica's rows was under way.
LEMMA RowsKnown ==
  ASSUME SingleWriter, TypeOK, WritersOnly, Next, NEW n \in Node \ {First}, NEW l \in rows'[n]
  PROVE  l \in rows[n] \/ \E b \in Block : Known(b) /\ b.log = l
<1> USE LedgerAssumption
<1>0. n \notin Writers /\ toWrite[n] = {}
  BY DEF SingleWriter, WritersOnly
<1>1. ASSUME NEW m \in Node, NEW b \in Block, NEW ok, HandleBlockAdded(m, b, ok), Known(b)
      PROVE  l \in rows[n] \/ \E c \in Block : Known(c) /\ c.log = l
  <2>1. rows'[n] \subseteq rows[n] \cup {b.log}
    BY <1>1, ZenonT(30) DEF HandleBlockAdded, TypeOK
  <2> QED
    BY <1>1, <2>1
<1>2. CASE rows' = rows
  BY <1>2
<1>3. ASSUME NEW m \in Node, WriteAuthorizedNode(m) \/ AddArtifact(m) PROVE rows'[n] = rows[n]
  <2>1. m # n
    BY <1>0, <1>3 DEF WriteAuthorizedNode, AddArtifact
  <2> QED
    BY <1>3, <2>1 DEF WriteAuthorizedNode, AddArtifact, TypeOK
<1>4. ASSUME NEW m \in Node, HandleBlockBroadcast(m)
      PROVE  l \in rows[n] \/ \E c \in Block : Known(c) /\ c.log = l
  <2>1. PICK b \in Block :
          <<m, b>> \in gossip /\ (rows' = rows \/ \E k \in BOOLEAN : HandleBlockAdded(m, b, k))
    BY <1>4, BroadcastEffect, Zenon
  <2>2. Known(b)
    BY <2>1 DEF Known
  <2> QED
    BY <1>1, <1>2, <2>1, <2>2
<1>5. ASSUME NEW m \in Node, PullIndex(m)
      PROVE  l \in rows[n] \/ \E c \in Block : Known(c) /\ c.log = l
  <2>1. CASE pull[m].blocks # <<>>
    <3>1. pull[m].blocks \in Seq(Block)
      BY DEF TypeOK, PullState
    <3>2. /\ Head(pull[m].blocks) \in Block
          /\ 1 \in 1 .. Len(pull[m].blocks)
          /\ Head(pull[m].blocks) = pull[m].blocks[1]
      BY <2>1, <3>1
    <3>3. Known(Head(pull[m].blocks))
      BY <3>2 DEF Known
    <3> QED
      BY <1>1, <1>5, <2>1, <3>2, <3>3, ZenonT(30) DEF PullIndex
  <2>2. CASE rows' = rows
    BY <1>2, <2>2
  <2> QED
    BY <1>5, <2>1, <2>2, Zenon DEF PullIndex
<1>6. \/ rows' = rows
      \/ \E m \in Node : \/ WriteAuthorizedNode(m) \/ AddArtifact(m)
                         \/ HandleBlockBroadcast(m) \/ PullIndex(m)
  BY ZenonT(30) DEF Next, StartFirstFromDisk, StartFirstWithGenesis, StartOther, Crash, CrashInSave,
         CrashInGenesis, Stop, AddAuthorizedNode, BroadcastArtifact, LoseBroadcast, PullStep, PullConnect, PullQuery, PullRequest,
         PullAdd, PullLocal, PullFail, indexVars
<1> QED
  BY <1>2, <1>3, <1>4, <1>5, <1>6

\* With one writer and durable files, what a replica's transparency log shows
\* is in the ledger, although HandleBlockBroadcast also writes rows for blocks
\* that add_block ignored.
THEOREM IndexedIsCommitted ==
  ASSUME SingleWriter
  PROVE  Spec => []IndexBacked
<1> USE LedgerAssumption
<1>1. Init => IndexBacked
  BY DEF Init, IndexBacked
<1>2. WriterInv /\ WriterInv' /\ IndexBacked /\ [Next]_vars => IndexBacked'
  <2> SUFFICES ASSUME WriterInv, WriterInv', IndexBacked, [Next]_vars
               PROVE  IndexBacked'
    OBVIOUS
  <2>1. CASE Next
    <3>0. StepKind /\ TypeOK /\ WritersOnly
      BY <2>1, StepKinds DEF WriterInv, LedgerInv
    <3> SUFFICES ASSUME NEW n \in Node \ {First}, NEW l \in rows'[n]
                 PROVE  \E o \in DOMAIN disk'[First] :
                          disk'[First][o] # Torn /\ disk'[First][o].log = l
      BY DEF IndexBacked, FirstFiles
    <3>1. \E o \in DOMAIN disk[First] : disk[First][o] # Torn /\ disk[First][o].log = l
      <4>1. CASE l \in rows[n]
        BY <4>1, ZenonT(30) DEF IndexBacked, FirstFiles
      <4>2. CASE \E b \in Block : Known(b) /\ b.log = l
        BY <4>2, TornAssumption DEF WriterInv, AllOnFirst, OnFirstDisk
      <4> QED
        BY <2>1, <3>0, <4>1, <4>2, RowsKnown
    <3> QED
      BY <3>0, <3>1, FirstFilesGrow
  <2>2. CASE UNCHANGED vars
    <3>1. rows' = rows /\ disk' = disk
      BY <2>2 DEF vars
    <3>2. FirstFiles' = FirstFiles
      BY <3>1 DEF FirstFiles
    <3> QED
      BY <3>1, <3>2 DEF IndexBacked
  <2> QED
    BY <2>1, <2>2
<1> QED
  BY <1>1, <1>2, WriterInvariant, PTL DEF Spec

-----------------------------------------------------------------------------
(* The transparency log once a replica has booted                          *)

\* The blocks after genesis that have no row yet.
Missing(blocks, logs) == {i \in 2 .. Len(blocks) : blocks[i].log \notin logs}

LEMMA NothingMissing == ASSUME NEW logs PROVE Missing(<<>>, logs) = {}
  BY DEF Missing

\* The pull has still to add the blocks up to the ordinal the peer reported,
\* and it stops short of none of them.
Adding(blocks, p, logs) ==
  /\ \A j \in 1 .. Len(p.blocks) : p.blocks[j].ordinal + Len(p.blocks) = p.ordinal + j
  /\ Len(blocks) + Len(p.blocks) > p.ordinal
  /\ \A i \in Missing(blocks, logs) : i <= p.ordinal + 1

\* The chain reaches the ordinal the peer reported; no later block lacks a row.
Added(blocks, ordinal, logs) ==
  /\ Len(blocks) > ordinal
  /\ \A i \in Missing(blocks, logs) : i <= ordinal + 1

\* Every block that lacks a row is among those still to index.
Listed(blocks, logs, todo) ==
  \A i \in Missing(blocks, logs) : \E j \in 1 .. Len(todo) : todo[j] = blocks[i]

\* What a replica may have left to index, by the stage of its pull.
Boots(running, blocks, p, logs) ==
  /\ ~running => p.stage = "off" /\ blocks = <<>>
  /\ p.stage \in {"off", "connect", "query", "request", "done"} => Missing(blocks, logs) = {}
  /\ p.stage = "add" =>
       (p.blocks = <<>> /\ Missing(blocks, logs) = {}) \/ Adding(blocks, p, logs)
  /\ p.stage = "local" => Missing(blocks, logs) = {} \/ Added(blocks, p.ordinal, logs)
  /\ p.stage = "index" => Listed(blocks, logs, p.blocks)

BootInv == \A n \in Node \ {First} : Boots(up[n], chain[n], pull[n], rows[n])

\* A replica that has added what it pulled, or is about to.
LEMMA BootsOn ==
  ASSUME NEW running, running, NEW blocks, NEW p, NEW logs,
         \/ p.stage = "local" /\ (Missing(blocks, logs) = {} \/ Added(blocks, p.ordinal, logs))
         \/ p.stage = "add" /\ Adding(blocks, p, logs)
  PROVE  Boots(running, blocks, p, logs)
BY DEF Boots

\* A row that is written leaves less to index.
LEMMA RowWritten ==
  ASSUME NEW running, NEW blocks, NEW p, NEW logs, NEW more, logs \subseteq more,
         Boots(running, blocks, p, logs)
  PROVE  Boots(running, blocks, p, more)
<1>1. Missing(blocks, more) \subseteq Missing(blocks, logs)
  BY DEF Missing
<1>2. Adding(blocks, p, logs) => Adding(blocks, p, more)
  BY <1>1, Zenon DEF Adding
<1>3. Added(blocks, p.ordinal, logs) => Added(blocks, p.ordinal, more)
  BY <1>1, Zenon DEF Added
<1>4. Missing(blocks, logs) = {} => Missing(blocks, more) = {}
  BY <1>1
<1>5. Listed(blocks, logs, p.blocks) => Listed(blocks, more, p.blocks)
  BY <1>1, Zenon DEF Listed
<1> QED
  BY <1>2, <1>3, <1>4, <1>5, Zenon DEF Boots

\* A block that joins the chain leaves at most itself to index.
LEMMA BlockJoins ==
  ASSUME NEW blocks \in Seq(Block), NEW b \in Block, NEW logs
  PROVE  /\ Len(Append(blocks, b)) = Len(blocks) + 1
         /\ \A i \in Missing(Append(blocks, b), logs) :
              i \in Missing(blocks, logs) \/ i = Len(blocks) + 1
         /\ \A i \in Missing(blocks, logs) : Append(blocks, b)[i] = blocks[i]
         /\ b.log \in logs \/ blocks = <<>> =>
              Missing(Append(blocks, b), logs) \subseteq Missing(blocks, logs)
<1>1. /\ Len(Append(blocks, b)) = Len(blocks) + 1
      /\ Len(blocks) \in Nat
      /\ \A i \in 1 .. Len(blocks) : Append(blocks, b)[i] = blocks[i]
      /\ Append(blocks, b)[Len(blocks) + 1] = b
  OBVIOUS
<1>2. \A i \in 2 .. Len(Append(blocks, b)) : i \in 2 .. Len(blocks) \/ i = Len(blocks) + 1
  BY <1>1
<1>3. \A i \in 2 .. Len(blocks) : i \in 1 .. Len(blocks)
  BY <1>1
<1>4. \A i \in Missing(Append(blocks, b), logs) : i \in Missing(blocks, logs) \/ i = Len(blocks) + 1
  BY <1>1, <1>2, <1>3, Zenon DEF Missing
<1>5. \A i \in Missing(blocks, logs) : Append(blocks, b)[i] = blocks[i]
  BY <1>1, <1>3, Zenon DEF Missing
<1>6. b.log \in logs => Len(blocks) + 1 \notin Missing(Append(blocks, b), logs)
  BY <1>1, Zenon DEF Missing
<1>7. blocks = <<>> => Len(blocks) + 1 \notin Missing(Append(blocks, b), logs)
  <2>1. blocks = <<>> => Len(blocks) + 1 \notin 2 .. Len(Append(blocks, b))
    BY <1>1
  <2> QED
    BY <2>1, Zenon DEF Missing
<1> QED
  BY <1>1, <1>4, <1>5, <1>6, <1>7, Zenon

\* A gossiped block that is added and indexed while the pull does not hold the
\* event loop.
LEMMA BroadcastJoins ==
  ASSUME NEW blocks \in Seq(Block), NEW b \in Block, NEW p, p.ordinal \in Nat,
         NEW logs, b.log \in logs \/ blocks = <<>>,
         p.stage \notin Busy, Boots(TRUE, blocks, p, logs)
  PROVE  Boots(TRUE, Append(blocks, b), p, logs)
<1> DEFINE longer == Append(blocks, b)
<1>1. /\ Missing(longer, logs) \subseteq Missing(blocks, logs)
      /\ Len(longer) = Len(blocks) + 1
      /\ \A i \in Missing(blocks, logs) : longer[i] = blocks[i]
  BY BlockJoins, Zenon
<1> HIDE DEF longer
<1>2. Missing(blocks, logs) = {} => Missing(longer, logs) = {}
  BY <1>1
<1>3. Added(blocks, p.ordinal, logs) => Added(longer, p.ordinal, logs)
  <2>1. Len(blocks) > p.ordinal => Len(longer) > p.ordinal
    BY <1>1
  <2> QED
    BY <1>1, <2>1, Zenon DEF Added
<1>4. p.stage \notin {"query", "request", "add"}
  BY DEF Busy
<1>5. Listed(blocks, logs, p.blocks) => Listed(longer, logs, p.blocks)
  BY <1>1, Zenon DEF Listed
<1> QED
  BY <1>2, <1>3, <1>4, <1>5, Zenon DEF Boots, longer

\* retrieve_blocks returns nothing, or all the blocks from start to end.
LEMMA RetrievedWhole ==
  ASSUME NEW blocks \in Seq(Block), NEW start \in Nat, NEW end \in Nat,
         NEW r, r = RetrieveBlocks(blocks, start, end)
  PROVE  r = <<>> \/ (Len(r) = end + 1 - start /\ start <= end)
<1>1. CASE r # <<>>
  <2>1. /\ start <= end
        /\ start < Len(blocks)
        /\ end < Len(blocks)
        /\ r = SubSeq(blocks, start + 1, end + 1)
    BY <1>1 DEF RetrieveBlocks, HasPosition
  <2> QED
    BY <2>1
<1> QED
  BY <1>1

\* PullRequest: the peer sends its chain up to the ordinal, or nothing.
LEMMA RequestAnswered ==
  ASSUME NEW blocks \in Seq(Block), NEW others \in Seq(Block), NEW logs,
         \A i \in 1 .. Len(others) : others[i].ordinal = i - 1,
         Missing(blocks, logs) = {},
         NEW ordinal \in Nat, NEW p, p.ordinal = ordinal,
         p.blocks = RetrieveBlocks(others, 0, ordinal)
  PROVE  p.blocks = <<>> \/ Adding(blocks, p, logs)
<1> DEFINE r == p.blocks
<1>1. /\ r \in Seq(Block)
      /\ \A i \in 1 .. Len(r) : 0 + i \in 1 .. Len(others) /\ r[i] = others[0 + i]
  <2>1. 0 \in Nat
    OBVIOUS
  <2> QED
    BY <2>1, RetrievedBlocks
<1>2. r = <<>> \/ Len(r) = ordinal + 1 - 0
  <2>1. 0 \in Nat
    OBVIOUS
  <2> QED
    BY <2>1, RetrievedWhole
<1> HIDE DEF r
<1>3. SUFFICES ASSUME r # <<>> PROVE Adding(blocks, p, logs)
  BY DEF r
<1>4. Len(r) = ordinal + 1
  BY <1>2, <1>3
<1>5. ASSUME NEW j \in 1 .. Len(r) PROVE r[j].ordinal + Len(r) = ordinal + j
  <2>1. j \in 1 .. Len(others) /\ r[j] = others[j]
    BY <1>1
  <2>2. r[j].ordinal = j - 1
    BY <2>1
  <2> QED
    BY <1>4, <2>2
<1>6. Len(blocks) + Len(r) > ordinal
  BY <1>4
<1> QED
  BY <1>5, <1>6, ZenonT(30) DEF Adding, r

\* One block less to add.
LEMMA OneLess ==
  ASSUME NEW a \in Nat, NEW k \in Nat \ {0}, NEW o \in Nat, NEW j \in Nat
  PROVE  /\ a + k = o + (j + 1) => a + (k - 1) = o + j
         /\ a + k > o => (a + 1) + (k - 1) > o
OBVIOUS

\* PullAdd: the next of the pulled blocks is committed, or the chain has it.
LEMMA NextIsAdded ==
  ASSUME NEW blocks \in Seq(Block), NEW longer \in Seq(Block), NEW logs,
         NEW p, p.ordinal \in Nat, p.blocks \in Seq(Block), p.blocks # <<>>,
         NEW q, q.ordinal = p.ordinal, q.blocks = Tail(p.blocks),
         \/ longer = Append(blocks, Head(p.blocks)) /\ Head(p.blocks).ordinal = Len(blocks)
         \/ longer = blocks /\ Head(p.blocks).ordinal # Len(blocks)
                            /\ (blocks = <<>> \/ Head(p.blocks).ordinal < Len(blocks)),
         Adding(blocks, p, logs)
  PROVE  Adding(longer, q, logs)
<1> DEFINE b == Head(p.blocks)
<1>1. /\ Len(p.blocks) \in Nat \ {0}
      /\ b = p.blocks[1]
      /\ b \in Block
      /\ Len(q.blocks) = Len(p.blocks) - 1
      /\ \A j \in 1 .. Len(q.blocks) : q.blocks[j] = p.blocks[j + 1]
  OBVIOUS
<1>2. b.ordinal \in Nat
  BY <1>1, ZenonT(30) DEF Block
<1>3. Len(blocks) \in Nat
  OBVIOUS
<1> HIDE DEF b
<1>4. b.ordinal + Len(p.blocks) = p.ordinal + 1
  <2>1. 1 \in 1 .. Len(p.blocks)
    BY <1>1
  <2> QED
    BY <1>1, <2>1, Zenon DEF Adding
<1>5. Len(blocks) + Len(p.blocks) > p.ordinal
  BY DEF Adding
<1>6. ASSUME NEW j \in 1 .. Len(q.blocks)
      PROVE  q.blocks[j].ordinal + Len(q.blocks) = q.ordinal + j
  <2>1. j + 1 \in 1 .. Len(p.blocks) /\ q.blocks[j] = p.blocks[j + 1] /\ j \in Nat
    BY <1>1
  <2>2. p.blocks[j + 1].ordinal \in Nat
    <3>1. p.blocks[j + 1] \in Block
      BY <2>1
    <3> QED
      BY <3>1, Zenon DEF Block
  <2>3. p.blocks[j + 1].ordinal + Len(p.blocks) = p.ordinal + (j + 1)
    BY <2>1, Zenon DEF Adding
  <2>4. /\ q.blocks[j].ordinal = p.blocks[j + 1].ordinal
        /\ Len(q.blocks) = Len(p.blocks) - 1
        /\ Len(p.blocks) \in Nat \ {0}
    BY <1>1, <2>1, Zenon
  <2>5. p.blocks[j + 1].ordinal + (Len(p.blocks) - 1) = p.ordinal + j
    <3> DEFINE a == p.blocks[j + 1].ordinal
               k == Len(p.blocks)
               o == p.ordinal
    <3>1. a \in Nat /\ k \in Nat \ {0} /\ o \in Nat /\ j \in Nat /\ a + k = o + (j + 1)
      BY <2>1, <2>2, <2>3, <2>4, ZenonT(30)
    <3> HIDE DEF a, k, o
    <3>2. a + (k - 1) = o + j
      BY <3>1, OneLess
    <3> QED
      BY <3>2, Zenon DEF a, k, o
  <2> QED
    BY <2>4, <2>5, Zenon
<1>7. CASE longer = Append(blocks, b) /\ b.ordinal = Len(blocks)
  <2>1. /\ Len(longer) = Len(blocks) + 1
        /\ \A i \in Missing(longer, logs) : i \in Missing(blocks, logs) \/ i = Len(blocks) + 1
    <3>1. /\ Len(Append(blocks, b)) = Len(blocks) + 1
          /\ \A i \in Missing(Append(blocks, b), logs) :
               i \in Missing(blocks, logs) \/ i = Len(blocks) + 1
      <4>1. b \in Block
        BY <1>1
      <4> QED
        BY <4>1, BlockJoins
    <3> QED
      BY <1>7, <3>1, Zenon
  <2>2. Len(longer) + Len(q.blocks) > q.ordinal
    <3>1. Len(q.blocks) = Len(p.blocks) - 1 /\ Len(p.blocks) \in Nat \ {0} /\ 0 \in Nat
      BY <1>1
    <3> QED
      BY <1>3, <1>5, <2>1, <3>1, OneLess, ZenonT(30)
  <2>3. Len(blocks) + 1 <= q.ordinal + 1
    BY <1>1, <1>3, <1>4, <1>7
  <2>4. \A i \in Missing(longer, logs) : i <= q.ordinal + 1
    BY <2>1, <2>3, Zenon DEF Adding
  <2> QED
    BY <1>6, <2>2, <2>4, Zenon DEF Adding
<1>8. CASE longer = blocks /\ b.ordinal # Len(blocks) /\ (blocks = <<>> \/ b.ordinal < Len(blocks))
  <2>1. b.ordinal < Len(blocks)
    <3>1. blocks = <<>> => Len(blocks) = 0
      OBVIOUS
    <3> QED
      BY <1>1, <1>2, <1>3, <1>4, <1>5, <1>8, <3>1
  <2>2. Len(longer) + Len(q.blocks) > q.ordinal
    BY <1>1, <1>2, <1>3, <1>4, <1>8, <2>1
  <2> QED
    BY <1>6, <1>8, <2>2, ZenonT(30) DEF Adding
<1> QED
  BY <1>7, <1>8 DEF b

\* PullLocal: every block that lacks a row is among those to index.
LEMMA LocalFindsAll ==
  ASSUME NEW blocks \in Seq(Block), NEW logs,
         \A i \in 1 .. Len(blocks) : blocks[i].ordinal = i - 1,
         NEW ordinal \in Nat, Added(blocks, ordinal, logs)
  PROVE  Listed(blocks, logs, RetrieveBlocks(blocks, 1, ordinal))
<1> DEFINE r == RetrieveBlocks(blocks, 1, ordinal)
<1> SUFFICES ASSUME NEW i \in Missing(blocks, logs)
             PROVE  \E j \in 1 .. Len(r) : r[j] = blocks[i]
  BY DEF Listed
<1>1. Len(blocks) > ordinal /\ i <= ordinal + 1
  BY DEF Added
<1>2. i \in 2 .. Len(blocks)
  BY DEF Missing
<1>3. Len(blocks) \in Nat
  OBVIOUS
<1>4. i \in Nat /\ 1 <= ordinal /\ ordinal < Len(blocks) /\ 1 < Len(blocks)
  BY <1>1, <1>2, <1>3
<1>5. ASSUME NEW o \in Nat, o < Len(blocks) PROVE HasPosition(blocks, o)
  <2>1. o + 1 \in 1 .. Len(blocks) /\ Len(blocks) \in 1 .. Len(blocks)
    BY <1>3, <1>5
  <2>2. blocks[o + 1].ordinal = (o + 1) - 1 /\ blocks[Len(blocks)].ordinal = Len(blocks) - 1
    BY <2>1
  <2>3. blocks[o + 1].ordinal = o /\ o <= blocks[Len(blocks)].ordinal
    BY <1>3, <1>5, <2>2
  <2> QED
    BY <1>5, <2>3 DEF HasPosition, LastBlock
<1>6. HasPosition(blocks, 1) /\ HasPosition(blocks, ordinal)
  BY <1>4, <1>5
<1>7. r = SubSeq(blocks, 1 + 1, ordinal + 1)
  BY <1>4, <1>6 DEF RetrieveBlocks
<1> HIDE DEF r
<1>8. Len(r) = ordinal /\ \A j \in 1 .. Len(r) : r[j] = blocks[j + 1]
  BY <1>4, <1>7
<1>9. i - 1 \in 1 .. Len(r) /\ (i - 1) + 1 = i
  BY <1>1, <1>2, <1>4, <1>8
<1> QED
  BY <1>8, <1>9

\* PullIndex: the row of the first of the blocks to index is written.
LEMMA NextIsIndexed ==
  ASSUME NEW blocks, NEW logs, NEW todo \in Seq(Block), todo # <<>>,
         Listed(blocks, logs, todo)
  PROVE  Listed(blocks, logs \cup {Head(todo).log}, Tail(todo))
<1> SUFFICES ASSUME NEW i \in Missing(blocks, logs \cup {Head(todo).log})
             PROVE  \E j \in 1 .. Len(Tail(todo)) : Tail(todo)[j] = blocks[i]
  BY DEF Listed
<1>1. i \in Missing(blocks, logs) /\ blocks[i].log # Head(todo).log
  BY DEF Missing
<1>2. PICK j \in 1 .. Len(todo) : todo[j] = blocks[i]
  BY <1>1 DEF Listed
<1>3. Head(todo) = todo[1] /\ Len(Tail(todo)) = Len(todo) - 1 /\ Len(todo) \in Nat
  OBVIOUS
<1>4. j # 1
  BY <1>1, <1>2, <1>3
<1>5. j - 1 \in 1 .. Len(Tail(todo)) /\ (j - 1) + 1 = j
  BY <1>2, <1>3, <1>4
<1>6. Tail(todo)[j - 1] = todo[(j - 1) + 1]
  BY <1>5
<1> QED
  BY <1>2, <1>5, <1>6

\* A step that leaves a replica alone, but for rows it may gain.
Aside(n) ==
  /\ up'[n] = up[n]
  /\ chain'[n] = chain[n]
  /\ pull'[n] = pull[n]
  /\ rows[n] \subseteq rows'[n]

\* handle_block_added never removes a row.
LEMMA RowsKept ==
  ASSUME TypeOK, NEW m \in Node, NEW b, NEW ok, HandleBlockAdded(m, b, ok), NEW n \in Node
  PROVE  /\ rows[n] \subseteq rows'[n]
         /\ "db" \notin Faults /\ b.ordinal # 0 => rows'[m] = rows[m] \cup {b.log}
BY ZenonT(30) DEF HandleBlockAdded, TypeOK

\* What a node does to itself leaves the others alone.
LEMMA OthersAside ==
  ASSUME TypeOK, NEW m \in Node, NEW n \in Node, m # n,
         \/ StartOther(m) \/ AddAuthorizedNode(m) \/ WriteAuthorizedNode(m) \/ AddArtifact(m)
         \/ BroadcastArtifact(m) \/ HandleBlockBroadcast(m) \/ LoseBroadcast(m) \/ PullStep(m)
  PROVE  Aside(n)
<1>a. ASSUME NEW b, NEW ok, AddBlock(m, b, ok) PROVE chain'[n] = chain[n]
  BY <1>a, Zenon DEF AddBlock, CommitBlock, TypeOK
<1>b. ASSUME NEW log, NEW ok, AddPayload(m, log, ok) PROVE chain'[n] = chain[n]
  <2>1. chain' = chain \/ \E b : chain' = [chain EXCEPT ![m] = Append(@, b)]
    BY <1>b, Zenon DEF AddPayload, CommitBlock, ledgerVars
  <2> QED
    BY <2>1, Zenon DEF TypeOK
<1>c. ASSUME NEW stage, Goto(m, stage) PROVE pull'[n] = pull[n]
  BY <1>c, Zenon DEF Goto, TypeOK
<1>1. CASE StartOther(m)
  BY <1>1, Zenon DEF StartOther, Aside, TypeOK, ledgerVars, indexVars
<1>2. CASE AddAuthorizedNode(m)
  BY <1>2, <1>b, Zenon DEF AddAuthorizedNode, Aside
<1>3. CASE WriteAuthorizedNode(m)
  BY <1>3, Zenon DEF WriteAuthorizedNode, Aside, ledgerVars, TypeOK
<1>4. CASE AddArtifact(m)
  BY <1>4, Zenon DEF AddArtifact, Aside, ledgerVars, TypeOK
<1>5. CASE BroadcastArtifact(m)
  BY <1>5, <1>b, Zenon DEF BroadcastArtifact, Aside
<1>6. CASE HandleBlockBroadcast(m)
  <2>1. PICK b \in Block, ok \in BOOLEAN :
          AddBlock(m, b, ok) /\ (rows' = rows \/ \E k \in BOOLEAN : HandleBlockAdded(m, b, k))
    BY <1>6, BroadcastEffect, Zenon
  <2>2. rows[n] \subseteq rows'[n]
    BY <2>1, RowsKept, Zenon
  <2> QED
    BY <1>6, <1>a, <2>1, <2>2, Zenon DEF HandleBlockBroadcast, Aside
<1>7. CASE LoseBroadcast(m)
  BY <1>7, Zenon DEF LoseBroadcast, Aside, indexVars
<1>8. CASE PullStep(m)
  <2>1. pull'[n] = pull[n]
    BY <1>8, <1>c, Zenon DEF PullStep, PullConnect, PullQuery, PullRequest, PullAdd, PullLocal,
                            PullIndex, PullFail, NextBlock, TypeOK
  <2>2. chain'[n] = chain[n]
    BY <1>8, <1>a, Zenon DEF PullStep, PullConnect, PullQuery, PullRequest, PullAdd, PullLocal,
                            PullIndex, PullFail, ledgerVars
  <2>3. up' = up
    BY <1>8, Zenon DEF PullStep, PullConnect, PullQuery, PullRequest, PullAdd, PullLocal,
                            PullIndex, PullFail
  <2>4. rows[n] \subseteq rows'[n]
    BY <1>8, RowsKept, ZenonT(30) DEF PullStep, PullConnect, PullQuery, PullRequest, PullAdd, PullLocal,
                            PullIndex, PullFail, indexVars
  <2> QED
    BY <2>1, <2>2, <2>3, <2>4, ZenonT(30) DEF Aside
<1> QED
  BY <1>1, <1>2, <1>3, <1>4, <1>5, <1>6, <1>7, <1>8

\* Without disk faults add_block commits the next block, and only an error
\* means that it does not have the block now.
LEMMA AddedOrHeld ==
  ASSUME "disk" \notin Faults, TypeOK, OrdinalsConsecutive, NEW n \in Node, NEW b \in Block,
         NEW ok \in BOOLEAN, AddBlock(n, b, ok)
  PROVE  \/ /\ ok
            /\ b.ordinal = Len(chain[n])
            /\ chain'[n] = Append(chain[n], b)
         \/ /\ chain'[n] = chain[n]
            /\ b.ordinal # Len(chain[n])
            /\ ok => chain[n] = <<>> \/ b.ordinal < Len(chain[n])
<1>1. NextOrdinal(chain[n]) = Len(chain[n]) /\ chain[n] \in Seq(Block)
  BY NextOrdinalIsLength
<1>2. CASE b.ordinal = NextOrdinal(chain[n])
  <2>1. CommitBlock(n, b, ok)
    BY <1>2 DEF AddBlock
  <2>2. chain'[n] = Append(chain[n], b)
    BY <2>1, CommittedChain
  <2>3. HasPosition(Append(chain[n], b), b.ordinal)
    BY <1>1, <1>2 DEF HasPosition, LastBlock
  <2>4. ok = TRUE
    BY <2>1, <2>3, CommitEffect, Zenon
  <2> QED
    BY <1>1, <1>2, <2>2, <2>4
<1>3. CASE b.ordinal # NextOrdinal(chain[n])
  BY <1>1, <1>3, ZenonT(30) DEF AddBlock
<1> QED
  BY <1>2, <1>3

\* A gossiped block that is added gets its row in the same event.
LEMMA BroadcastBoots ==
  ASSUME SingleWriter, "db" \notin Faults, LedgerInv, NEW n \in Node, HandleBlockBroadcast(n),
         Boots(up[n], chain[n], pull[n], rows[n])
  PROVE  Boots(up'[n], chain'[n], pull'[n], rows'[n])
<1>0. /\ TypeOK /\ OrdinalsConsecutive /\ "disk" \notin Faults
      /\ chain[n] \in Seq(Block) /\ pull[n].ordinal \in Nat
  BY DEF LedgerInv, Ordered, SingleWriter, TypeOK, PullState
<1>1. up'[n] = TRUE /\ up[n] = TRUE /\ pull'[n] = pull[n] /\ pull[n].stage \notin Busy
  BY <1>0, Zenon DEF HandleBlockBroadcast, LoopIdle, TypeOK
<1>2. PICK b \in {m[2] : m \in gossip} :
        /\ Arrives(n, b)
        /\ \/ AddBlock(n, b, FALSE) /\ rows' = rows
           \/ AddBlock(n, b, TRUE) /\ \E ok \in BOOLEAN : HandleBlockAdded(n, b, ok)
  BY Zenon DEF HandleBlockBroadcast
<1>3. b \in Block
  BY <1>0, <1>2 DEF TypeOK, Arrives
<1>4. rows[n] \subseteq rows'[n]
  BY <1>0, <1>2, RowsKept, Zenon
<1>5. CASE chain'[n] = chain[n]
  <2>1. Boots(up[n], chain[n], pull[n], rows'[n])
    BY <1>4, RowWritten, Zenon
  <2> QED
    BY <1>1, <1>5, <2>1, Zenon
<1>6. CASE chain'[n] # chain[n]
  <2>1. AddBlock(n, b, TRUE) /\ \E ok \in BOOLEAN : HandleBlockAdded(n, b, ok)
    BY <1>0, <1>2, <1>3, <1>6, AddedOrHeld, Zenon
  <2>2. b.ordinal = Len(chain[n]) /\ chain'[n] = Append(chain[n], b)
    BY <1>0, <1>3, <1>6, <2>1, AddedOrHeld, ZenonT(30)
  <2>3. b.log \in rows'[n] \/ chain[n] = <<>>
    <3>1. CASE b.ordinal = 0
      <4>1. chain[n] \in Seq(Block) /\ Len(chain[n]) = 0
        BY <1>0, <2>2, <3>1, Zenon
      <4> QED
        BY <4>1
    <3>2. CASE b.ordinal # 0
      <4>1. rows'[n] = rows[n] \cup {b.log}
        BY <1>0, <2>1, <3>2, RowsKept, ZenonT(30)
      <4> QED
        BY <4>1
    <3> QED
      BY <3>1, <3>2
  <2>4. Boots(TRUE, chain[n], pull[n], rows'[n])
    BY <1>1, <1>4, RowWritten, Zenon
  <2>5. Boots(TRUE, Append(chain[n], b), pull[n], rows'[n])
    BY <1>0, <1>1, <1>3, <2>3, <2>4, BroadcastJoins, ZenonT(30)
  <2> QED
    BY <1>1, <2>2, <2>5, Zenon
<1> QED
  BY <1>5, <1>6

\* The pull indexes whatever blocks it added that have no row yet.
LEMMA PullBoots ==
  ASSUME SingleWriter, "db" \notin Faults, LedgerInv, NEW n \in Node, PullStep(n),
         Boots(up[n], chain[n], pull[n], rows[n])
  PROVE  Boots(up'[n], chain'[n], pull'[n], rows'[n])
<1> USE LedgerAssumption
<1> DEFINE peer == BootPeer[n]
<1>0. /\ TypeOK /\ OrdinalsConsecutive /\ "disk" \notin Faults
      /\ peer \in Node /\ chain[peer] \in Seq(Block)
      /\ chain[n] \in Seq(Block) /\ pull[n].ordinal \in Nat
      /\ pull[n].blocks \in Seq(Block)
  BY DEF LedgerInv, Ordered, SingleWriter, TypeOK, PullState
<1>a. \A i \in 1 .. Len(chain[n]) : chain[n][i].ordinal = i - 1
  BY <1>0 DEF OrdinalsConsecutive
<1>b. \A i \in 1 .. Len(chain[peer]) : chain[peer][i].ordinal = i - 1
  BY <1>0 DEF OrdinalsConsecutive
<1>c. TypeOK'
  BY <1>0, PullTypes
<1>d. ASSUME NEW stage, Goto(n, stage)
      PROVE  /\ pull'[n].stage = stage
             /\ pull'[n].ordinal = pull[n].ordinal
             /\ pull'[n].blocks = pull[n].blocks
  <2>1. pull[n] \in PullState /\ pull'[n] = [pull[n] EXCEPT !.stage = stage]
    BY <1>0, <1>d DEF Goto, TypeOK
  <2> QED
    BY <2>1 DEF PullState
<1>e. ASSUME NextBlock(n)
      PROVE  /\ pull'[n].stage = pull[n].stage
             /\ pull'[n].ordinal = pull[n].ordinal
             /\ pull'[n].blocks = Tail(pull[n].blocks)
  <2>1. pull[n] \in PullState /\ pull'[n] = [pull[n] EXCEPT !.blocks = Tail(pull[n].blocks)]
    BY <1>0, <1>e DEF NextBlock, TypeOK
  <2> QED
    BY <2>1 DEF PullState
<1>f. up' = up
  BY Zenon DEF PullStep, PullConnect, PullQuery, PullRequest, PullAdd, PullLocal,
               PullIndex, PullFail
<1>g. pull[n].stage # "off"
  BY ZenonT(30) DEF PullStep, PullConnect, PullQuery, PullRequest, PullAdd, PullLocal,
               PullIndex, PullFail
<1>h. up[n] /\ up'[n]
  BY <1>f, <1>g DEF Boots
<1> HIDE DEF peer
<1>1. CASE PullConnect(n)
  <2>1. /\ pull'[n].stage = "query" /\ pull[n].stage = "connect"
        /\ chain' = chain /\ rows' = rows
    BY <1>1, <1>d DEF PullConnect, ledgerVars, indexVars
  <2> QED
    BY <1>h, <2>1 DEF Boots
<1>2. CASE PullQuery(n)
  <2>1. /\ pull'[n].stage = "request" /\ pull[n].stage = "query"
        /\ chain' = chain /\ rows' = rows
    BY <1>0, <1>2 DEF PullQuery, ledgerVars, indexVars, TypeOK, PullState
  <2> QED
    BY <1>h, <2>1 DEF Boots
<1>3. CASE PullRequest(n)
  <2>1. /\ pull'[n].stage = "add" /\ pull[n].stage = "request"
        /\ pull'[n].ordinal = pull[n].ordinal
        /\ pull'[n].blocks = RetrieveBlocks(chain[peer], 0, pull[n].ordinal)
        /\ chain' = chain /\ rows' = rows
    BY <1>0, <1>3 DEF PullRequest, ledgerVars, indexVars, TypeOK, PullState, peer
  <2>2. Missing(chain[n], rows[n]) = {}
    BY <2>1 DEF Boots
  <2>3. pull'[n].blocks = <<>> \/ Adding(chain[n], pull'[n], rows[n])
    BY <1>0, <1>b, <2>1, <2>2, RequestAnswered, ZenonT(30)
  <2> QED
    BY <1>h, <2>1, <2>2, <2>3 DEF Boots
<1>7. CASE PullFail(n)
  <2>1. pull'[n].stage = "failed"
    BY <1>7, <1>d DEF PullFail
  <2> QED
    BY <1>h, <2>1 DEF Boots
<1>4. CASE PullAdd(n)
  <2>0. pull[n].stage = "add" /\ rows' = rows
    BY <1>0, <1>4, PullAddEffect, ZenonT(30)
  <2>1. CASE pull[n].blocks = <<>>
    <3>1. /\ pull'[n].stage = "local" /\ pull'[n].ordinal = pull[n].ordinal
          /\ chain' = chain
      BY <1>4, <1>d, <2>1 DEF PullAdd
    <3>2. Missing(chain[n], rows[n]) = {} \/ Adding(chain[n], pull[n], rows[n])
      BY <2>0 DEF Boots
    <3>3. Adding(chain[n], pull[n], rows[n]) => Added(chain[n], pull'[n].ordinal, rows[n])
      <4>1. Len(pull[n].blocks) = 0 /\ Len(chain[n]) \in Nat
        BY <1>0, <2>1
      <4>2. Len(chain[n]) + Len(pull[n].blocks) > pull[n].ordinal => Len(chain[n]) > pull[n].ordinal
        BY <1>0, <4>1
      <4> QED
        BY <3>1, <4>2, ZenonT(30) DEF Adding, Added
    <3>4. Missing(chain'[n], rows'[n]) = {} \/ Added(chain'[n], pull'[n].ordinal, rows'[n])
      BY <2>0, <3>1, <3>2, <3>3, ZenonT(30)
    <3> QED
      BY <1>h, <3>1, <3>4, BootsOn, ZenonT(30)
  <2>2. CASE pull'[n].stage = "failed"
    BY <1>h, <2>2 DEF Boots
  <2>3. CASE /\ pull[n].blocks # <<>>
             /\ AddBlock(n, Head(pull[n].blocks), TRUE)
             /\ NextBlock(n)
    <3>1. /\ pull'[n].stage = "add" /\ pull'[n].ordinal = pull[n].ordinal
          /\ pull'[n].blocks = Tail(pull[n].blocks)
      BY <1>e, <2>0, <2>3
    <3>2. Head(pull[n].blocks) \in Block /\ chain'[n] \in Seq(Block)
      BY <1>0, <1>c, <2>3 DEF TypeOK
    <3>3. \/ /\ Head(pull[n].blocks).ordinal = Len(chain[n])
             /\ chain'[n] = Append(chain[n], Head(pull[n].blocks))
          \/ /\ chain'[n] = chain[n]
             /\ Head(pull[n].blocks).ordinal # Len(chain[n])
             /\ chain[n] = <<>> \/ Head(pull[n].blocks).ordinal < Len(chain[n])
      BY <1>0, <2>3, <3>2, AddedOrHeld, ZenonT(30)
    <3>4. Adding(chain[n], pull[n], rows[n])
      BY <2>0, <2>3 DEF Boots
    <3>5. Adding(chain'[n], pull'[n], rows[n])
      BY <1>0, <2>3, <3>1, <3>2, <3>3, <3>4, NextIsAdded, ZenonT(30)
    <3>6. Adding(chain'[n], pull'[n], rows'[n])
      BY <2>0, <3>5, ZenonT(30)
    <3> QED
      BY <1>h, <3>1, <3>6, BootsOn, ZenonT(30)
  <2> QED
    BY <1>4, <1>d, <2>1, <2>2, <2>3, ZenonT(30) DEF PullAdd
<1>5. CASE PullLocal(n)
  <2>1. /\ pull'[n].stage = "index" /\ pull[n].stage = "local"
        /\ pull'[n].blocks = RetrieveBlocks(chain[n], 1, pull[n].ordinal)
        /\ chain' = chain /\ rows' = rows
    BY <1>0, <1>5 DEF PullLocal, ledgerVars, indexVars, TypeOK, PullState
  <2>2. Missing(chain[n], rows[n]) = {} \/ Added(chain[n], pull[n].ordinal, rows[n])
    BY <2>1 DEF Boots
  <2>3. Listed(chain[n], rows[n], pull'[n].blocks)
    <3>1. CASE Added(chain[n], pull[n].ordinal, rows[n])
      BY <1>0, <1>a, <2>1, <3>1, LocalFindsAll, ZenonT(30)
    <3> QED
      BY <2>2, <3>1, Zenon DEF Listed
  <2> QED
    BY <1>h, <2>1, <2>3 DEF Boots
<1>6. CASE PullIndex(n)
  <2>0. pull[n].stage = "index" /\ chain' = chain
    BY <1>6 DEF PullIndex, ledgerVars
  <2>a. Listed(chain[n], rows[n], pull[n].blocks)
    BY <2>0, ZenonT(30) DEF Boots
  <2>1. CASE pull[n].blocks = <<>>
    <3>1. pull'[n].stage = "done" /\ rows' = rows
      BY <1>6, <1>d, <2>1 DEF PullIndex
    <3>2. Missing(chain[n], rows[n]) = {}
      <4>1. 1 .. Len(pull[n].blocks) = {}
        BY <2>1
      <4> QED
        BY <2>a, <4>1, Zenon DEF Listed
    <3> QED
      BY <1>h, <2>0, <3>1, <3>2 DEF Boots
  <2>2. CASE pull'[n].stage = "failed"
    BY <1>h, <2>2 DEF Boots
  <2>3. CASE /\ pull[n].blocks # <<>>
             /\ HandleBlockAdded(n, Head(pull[n].blocks), TRUE)
             /\ NextBlock(n)
    <3>1. pull'[n].stage = "index" /\ pull'[n].blocks = Tail(pull[n].blocks)
      BY <1>e, <2>0, <2>3
    <3>2. rows'[n] = rows[n] \cup {Head(pull[n].blocks).log}
      <4>1. Head(pull[n].blocks).ordinal # 0
        BY <2>3 DEF HandleBlockAdded
      <4> QED
        BY <1>0, <2>3, <4>1, RowsKept, ZenonT(30)
    <3>3. Listed(chain[n], rows'[n], Tail(pull[n].blocks))
      <4>1. Listed(chain[n], rows[n] \cup {Head(pull[n].blocks).log}, Tail(pull[n].blocks))
        BY <1>0, <2>3, <2>a, NextIsIndexed, Zenon
      <4> QED
        BY <3>2, <4>1, Zenon
    <3> QED
      BY <1>h, <2>0, <3>1, <3>3, ZenonT(30) DEF Boots
  <2> QED
    BY <1>6, <1>d, <2>1, <2>2, <2>3, ZenonT(30) DEF PullIndex
<1> QED
  BY <1>1, <1>2, <1>3, <1>4, <1>5, <1>6, <1>7, ZenonT(30) DEF PullStep

LEMMA BootStep ==
  ASSUME SingleWriter, "db" \notin Faults, LedgerInv, BootInv, Next, NEW n \in Node \ {First}
  PROVE  Boots(up'[n], chain'[n], pull'[n], rows'[n])
<1> USE LedgerAssumption
<1>0. TypeOK /\ Boots(up[n], chain[n], pull[n], rows[n]) /\ n \in Node /\ n # First
  BY DEF LedgerInv, BootInv
<1>a. n \notin Writers /\ toCommit[n] = {} /\ toWrite[n] = {}
  BY DEF SingleWriter, LedgerInv, WritersOnly
<1>1. CASE Aside(n)
  BY <1>0, <1>1, RowWritten, Zenon DEF Aside
<1>2. CASE StartFirstFromDisk \/ StartFirstWithGenesis
  <2>1. Aside(n)
    BY <1>0, <1>2, ZenonT(30) DEF StartFirstFromDisk, StartFirstWithGenesis, Aside, indexVars, TypeOK
  <2> QED
    BY <1>1, <2>1
<1>b. ASSUME NEW m \in Node, Killed(m) PROVE Boots(up'[n], chain'[n], pull'[n], rows'[n])
  <2>1. rows' = rows
    BY <1>0, <1>b, CrashEffect, Zenon DEF Stop
  <2>2. CASE m # n
    BY <1>0, <1>1, <1>b, <2>1, <2>2, CrashedChain, ZenonT(30) DEF Aside
  <2>3. CASE m = n
    <3>1. chain'[n] = <<>> /\ pull'[n].stage = "off"
      BY <1>0, <1>b, <2>3, CrashedChain, Zenon
    <3>2. Missing(<<>>, rows'[n]) = {}
      BY NothingMissing, Zenon
    <3> QED
      BY <3>1, <3>2, Zenon DEF Boots
  <2> QED
    BY <2>2, <2>3
<1>3. CASE CrashInGenesis
  BY <1>3, <1>b, Zenon DEF Killed
<1>4. ASSUME NEW m \in Node,
             \/ StartOther(m) \/ Crash(m) \/ CrashInSave(m) \/ AddAuthorizedNode(m)
             \/ WriteAuthorizedNode(m) \/ AddArtifact(m) \/ BroadcastArtifact(m)
             \/ HandleBlockBroadcast(m) \/ LoseBroadcast(m) \/ PullStep(m)
      PROVE  Boots(up'[n], chain'[n], pull'[n], rows'[n])
  <2>1. CASE Crash(m) \/ CrashInSave(m)
    BY <1>b, <2>1, Zenon DEF Killed
  <2>2. CASE m # n /\ ~(Crash(m) \/ CrashInSave(m))
    BY <1>0, <1>1, <1>4, <2>2, OthersAside, ZenonT(30)
  <2>3. CASE m = n /\ StartOther(m)
    <3>1. /\ ~up[n] /\ up'[n] /\ pull'[n].stage = "connect"
          /\ chain'[n] = chain[n] /\ rows'[n] = rows[n]
      BY <1>0, <2>3 DEF StartOther, ledgerVars, indexVars, TypeOK, PullIn
    <3>2. chain[n] = <<>>
      BY <1>0, <3>1 DEF Boots
    <3>3. Missing(<<>>, rows'[n]) = {}
      BY NothingMissing, Zenon
    <3> QED
      BY <3>1, <3>2, <3>3 DEF Boots
  <2>4. ~(m = n /\ (AddAuthorizedNode(m) \/ WriteAuthorizedNode(m) \/ AddArtifact(m)
                    \/ BroadcastArtifact(m)))
    BY <1>a, Zenon DEF AddAuthorizedNode, WriteAuthorizedNode, AddArtifact, BroadcastArtifact
  <2>5. CASE m = n /\ HandleBlockBroadcast(m)
    BY <1>0, <2>5, BroadcastBoots, Zenon
  <2>6. CASE m = n /\ LoseBroadcast(m)
    BY <1>1, <2>6, ZenonT(30) DEF LoseBroadcast, Aside, indexVars
  <2>7. CASE m = n /\ PullStep(m)
    BY <1>0, <2>7, PullBoots, Zenon
  <2> QED
    BY <1>4, <2>1, <2>2, <2>3, <2>4, <2>5, <2>6, <2>7, ZenonT(30)
<1> QED
  BY <1>2, <1>3, <1>4, ZenonT(30) DEF Next

\* "I make sure the transparency log is up-to-date when I boot": with one
\* writer, and no failing write to a block file or to the database, once the
\* pull is done a replica's database has a row for every block after genesis in
\* its chain, whatever crashes, whatever was gossiped while it pulled, and
\* whatever its peer answers.
THEOREM BootedIsIndexed ==
  ASSUME SingleWriter, "db" \notin Faults
  PROVE  Spec => []BootIndexed
<1> USE LedgerAssumption
<1>1. Init => BootInv
  <2> SUFFICES ASSUME Init, NEW n \in Node \ {First}
               PROVE  Boots(up[n], chain[n], pull[n], rows[n])
    BY DEF BootInv
  <2>1. chain[n] = <<>> /\ pull[n].stage = "off"
    BY DEF Init, PullIn
  <2>2. Missing(<<>>, rows[n]) = {}
    BY NothingMissing, Zenon
  <2> QED
    BY <2>1, <2>2, Zenon DEF Boots
<1>2. LedgerInv /\ BootInv /\ [Next]_vars => BootInv'
  <2> SUFFICES ASSUME LedgerInv, BootInv, [Next]_vars PROVE BootInv'
    OBVIOUS
  <2>1. CASE Next
    BY <2>1, BootStep, Zenon DEF BootInv
  <2>2. CASE UNCHANGED vars
    BY <2>2, Zenon DEF vars, BootInv
  <2> QED
    BY <2>1, <2>2
<1>3. LedgerInv /\ BootInv => BootIndexed
  <2> SUFFICES ASSUME LedgerInv, BootInv, NEW n \in Node, pull[n].stage = "done",
                      NEW i \in 2 .. Len(chain[n])
               PROVE  chain[n][i].log \in rows[n]
    BY DEF BootIndexed
  <2>1. n # First
    BY DEF LedgerInv, FirstRuns
  <2>2. Missing(chain[n], rows[n]) = {}
    BY <2>1, ZenonT(30) DEF BootInv, Boots
  <2> QED
    BY <2>2, Zenon DEF Missing
<1> QED
  BY <1>1, <1>2, <1>3, LedgerInvariant, PTL DEF Spec

-----------------------------------------------------------------------------
(* The network implements an append-only ledger                            *)

\* The ledger does not change with the files, nor by a torn file.
LEMMA SameLedger ==
  ASSUME disk'[First] = disk[First]
         \/ \E k \in Nat : k \notin DOMAIN disk[First] /\ disk'[First] = WriteFile(disk[First], k, Torn)
  PROVE  FirstFiles' = FirstFiles
<1>1. CASE disk'[First] = disk[First]
  BY <1>1 DEF FirstFiles
<1>2. ASSUME NEW k \in Nat, k \notin DOMAIN disk[First],
             disk'[First] = WriteFile(disk[First], k, Torn)
      PROVE  FirstFiles' = FirstFiles
  <2>1. {p \in DOMAIN disk'[First] : disk'[First][p] # Torn}
        = {p \in DOMAIN disk[First] : disk[First][p] # Torn}
    BY <1>2 DEF WriteFile
  <2>2. \A p \in DOMAIN disk[First] : disk'[First][p] = disk[First][p]
    BY <1>2 DEF WriteFile
  <2> QED
    BY <2>1, <2>2 DEF FirstFiles
<1> QED
  BY <1>1, <1>2

\* A new block file extends the ledger.
LEMMA LongerLedger ==
  ASSUME NEW b \in Block, NEW k \in Nat, k \notin DOMAIN disk[First],
         disk'[First] = WriteFile(disk[First], k, b)
  PROVE  /\ FirstFiles' = Abstract!WriteFile(FirstFiles, k, b)
         /\ k \in DOMAIN FirstFiles' \ DOMAIN FirstFiles
         /\ FirstFiles'[k] = b
<1>1. {p \in DOMAIN disk'[First] : disk'[First][p] # Torn}
      = {p \in DOMAIN disk[First] : disk[First][p] # Torn} \cup {k}
  BY TornAssumption DEF WriteFile
<1>2. disk'[First][k] = b /\ \A p \in DOMAIN disk[First] : disk'[First][p] = disk[First][p]
  BY DEF WriteFile
<1>3. DOMAIN FirstFiles = {p \in DOMAIN disk[First] : disk[First][p] # Torn}
  BY DEF FirstFiles
<1>4. FirstFiles' = [p \in {q \in DOMAIN disk[First] : disk[First][q] # Torn} \cup {k} |->
                       disk'[First][p]]
  BY <1>1 DEF FirstFiles
<1> QED
  BY <1>2, <1>3, <1>4 DEF Abstract!WriteFile, FirstFiles

\* While the first node runs none of its files is torn.
LEMMA WholeLedger ==
  ASSUME WriterInv, up[First]
  PROVE  DOMAIN FirstFiles = 0 .. (Len(chain[First]) - 1)
<1> USE LedgerAssumption
<1>1. DOMAIN disk[First] = 0 .. (Len(chain[First]) - 1) /\ chain[First] \in Seq(Block)
  BY DEF WriterInv, FirstDurable, LedgerInv, TypeOK
<1>2. ASSUME NEW o \in DOMAIN disk[First] PROVE disk[First][o] # Torn
  <2>1. o + 1 \in 1 .. Len(chain[First]) /\ (o + 1) - 1 = o
    BY <1>1
  <2>2. /\ chain[First][o + 1] = disk[First][(o + 1) - 1]
        /\ chain[First][o + 1] \in Block
    BY <2>1, ChainOnFirst
  <2> QED
    BY <2>1, <2>2, TornAssumption
<1> QED
  BY <1>1, <1>2 DEF FirstFiles

\* A chain that agrees with the first node's files agrees with the ledger.
LEMMA AgreeingChain ==
  ASSUME NEW blocks \in Seq(Block),
         \A i \in 1 .. Len(blocks) : i - 1 \in DOMAIN disk[First] /\ blocks[i] = disk[First][i - 1]
  PROVE  Abstract!Agrees(blocks)
<1>1. ASSUME NEW i \in 1 .. Len(blocks)
      PROVE  i - 1 \in DOMAIN FirstFiles /\ blocks[i] = FirstFiles[i - 1]
  <2>1. blocks[i] \in Block /\ i - 1 \in DOMAIN disk[First] /\ blocks[i] = disk[First][i - 1]
    OBVIOUS
  <2> QED
    BY <2>1, TornAssumption DEF FirstFiles
<1> QED
  BY <1>1 DEF Abstract!Agrees

LEMMA AbstractStep ==
  ASSUME SingleWriter, WriterInv, TypeOK', StepKind
  PROVE  [Abstract!Next]_<<FirstFiles, chain>>
<1> USE LedgerAssumption
<1>0. TypeOK
  BY DEF WriterInv, LedgerInv
<1>a. ASSUME NEW n \in Node, \A m \in Node \ {n} : chain'[m] = chain[m]
      PROVE  chain' = [chain EXCEPT ![n] = chain'[n]]
  BY <1>0, <1>a DEF TypeOK
<1>1. CASE StartFirstFromDisk
  <2>1. chain[First] = <<>>
    BY <1>0, <1>1, LoadedChain DEF WriterInv, LedgerInv, FirstRuns
  <2>2. Abstract!Extends(chain'[First], chain[First])
    BY <1>0, <1>1, <2>1, LoadedChain DEF Abstract!Extends
  <2>3. Abstract!Agrees(chain'[First])
    BY <1>0, <1>1, LoadedChain, AgreeingChain
  <2>4. FirstFiles' = FirstFiles
    BY <1>0, <1>1, LoadedChain, SameLedger
  <2>5. Abstract!Learn(First)
    BY <1>0, <1>1, <1>a, <2>2, <2>3, <2>4, LoadedChain DEF Abstract!Learn, Abstract!OnlyViewOf
  <2> QED
    BY <2>5 DEF Abstract!Next
<1>2. CASE StartFirstWithGenesis
  <2>1. PICK g \in Block : /\ g.ordinal = 0
                           /\ g.parent = NoParent
                           /\ chain'[First] = <<g>>
                           /\ disk'[First] = WriteFile(disk[First], 0, g)
    BY <1>2, FirstGenesis
  <2>2. chain[First] = <<>> /\ DOMAIN disk[First] = {}
    BY <1>2, FirstGenesis
  <2>3. /\ FirstFiles' = Abstract!WriteFile(FirstFiles, 0, g)
        /\ 0 \in DOMAIN FirstFiles' \ DOMAIN FirstFiles
        /\ FirstFiles'[0] = g
    BY <2>1, <2>2, LongerLedger
  <2>4. chain' = [chain EXCEPT ![First] = Append(chain[First], g)]
    <3>1. <<g>> = Append(chain[First], g)
      BY <2>2
    <3> QED
      BY <1>0, <1>2, <1>a, <2>1, <3>1, GenesisChain, ZenonT(30)
  <2>5. DOMAIN FirstFiles = 0 .. (Len(chain[First]) - 1)
    <3>1. DOMAIN FirstFiles = {} /\ Len(chain[First]) = 0
      BY <2>2 DEF FirstFiles
    <3> QED
      BY <3>1
  <2>6. Abstract!Linked(0, g)
    BY <2>1 DEF Abstract!Linked, Abstract!NoParent, NoParent
  <2>7. Abstract!Commit
    BY <2>3, <2>4, <2>5, <2>6 DEF Abstract!Commit
  <2> QED
    BY <2>7 DEF Abstract!Next
<1>3. ASSUME NEW n \in Node, Killed(n) PROVE Abstract!Next
  <2>1. FirstFiles' = FirstFiles
    <3>1. CASE disk'[First] = disk[First]
      BY <3>1, SameLedger
    <3>2. ASSUME NEW k \in Nat, DOMAIN disk[First] = 0 .. (k - 1),
                 disk'[First] = WriteFile(disk[First], k, Torn)
          PROVE  FirstFiles' = FirstFiles
      <4>1. k \notin DOMAIN disk[First]
        BY <3>2
      <4> QED
        BY <3>2, <4>1, SameLedger
    <3> QED
      BY <1>3, <3>1, <3>2, FirstKilled
  <2>2. chain' = [chain EXCEPT ![n] = <<>>]
    BY <1>0, <1>3, CrashEffect DEF Stop
  <2>3. Abstract!Forget(n)
    BY <2>1, <2>2 DEF Abstract!Forget
  <2> QED
    BY <2>3 DEF Abstract!Next
<1>4. CASE Quiet
  BY <1>4, SameLedger DEF Quiet
<1>5. ASSUME NEW n \in Node, NEW b \in Block, Take(n, b) PROVE Abstract!Next
  <2>1. PICK ok \in BOOLEAN : CommitBlock(n, b, ok)
    BY <1>5 DEF Take
  <2>2. n # First /\ OnFirstDisk(b) /\ b.ordinal = Len(chain[n])
    BY <1>5, OthersTake
  <2>3. FirstFiles' = FirstFiles
    BY <1>0, <2>1, <2>2, CommitEffect, SameLedger, ZenonT(30)
  <2>4. /\ chain[n] \in Seq(Block)
        /\ chain'[n] \in Seq(Block)
        /\ \A m \in Node \ {n} : chain'[m] = chain[m]
        /\ Len(chain'[n]) = Len(chain[n]) + 1
        /\ \A i \in 1 .. Len(chain[n]) : chain'[n][i] = chain[n][i]
        /\ chain'[n][Len(chain[n]) + 1] = b
    BY <1>0, <2>1, CommittedChain
  <2>5. Abstract!Extends(chain'[n], chain[n])
    BY <2>4 DEF Abstract!Extends
  <2>6. ASSUME NEW i \in 1 .. Len(chain'[n])
        PROVE  i - 1 \in DOMAIN disk[First] /\ chain'[n][i] = disk[First][i - 1]
    <3>1. CASE i \in 1 .. Len(chain[n])
      BY <2>4, <3>1, ChainOnFirst
    <3>2. CASE i = Len(chain[n]) + 1
      BY <2>2, <2>4, <3>2 DEF OnFirstDisk
    <3> QED
      BY <2>4, <3>1, <3>2
  <2>7. Abstract!Agrees(chain'[n])
    BY <2>4, <2>6, AgreeingChain
  <2>8. Abstract!Learn(n)
    BY <1>a, <2>3, <2>4, <2>5, <2>7 DEF Abstract!Learn, Abstract!OnlyViewOf
  <2> QED
    BY <2>8 DEF Abstract!Next
<1>6. ASSUME NEW n \in Node, NEW log \in Nat, Make(n, log) PROVE Abstract!Next
  <2> DEFINE b == Payload(n, log)
             o == Len(chain[First])
  <2>1. /\ n = First
        /\ up[First]
        /\ b \in Block
        /\ b.ordinal = o
        /\ o \in Nat \ {0}
        /\ b.parent = disk[First][o - 1].log
        /\ DOMAIN disk[First] = 0 .. (o - 1)
        /\ disk'[First] = WriteFile(disk[First], o, b)
    BY <1>6, FirstMakes
  <2>2. chain' = [chain EXCEPT ![First] = Append(chain[First], b)]
    BY <1>0, <1>6, <2>1, CommitEffect, ZenonT(30) DEF Make
  <2> HIDE DEF b, o
  <2>3. /\ FirstFiles' = Abstract!WriteFile(FirstFiles, o, b)
        /\ o \in DOMAIN FirstFiles' \ DOMAIN FirstFiles
        /\ FirstFiles'[o] = b
    <3>1. o \notin DOMAIN disk[First]
      BY <2>1
    <3> QED
      BY <2>1, <3>1, LongerLedger
  <2>4. DOMAIN FirstFiles = 0 .. (o - 1)
    BY <2>1, WholeLedger DEF o
  <2>5. Abstract!Linked(o, b)
    <3>1. o - 1 \in DOMAIN FirstFiles
      BY <2>1, <2>4
    <3>2. FirstFiles[o - 1] = disk[First][o - 1]
      BY <3>1 DEF FirstFiles
    <3> QED
      BY <2>1, <3>1, <3>2 DEF Abstract!Linked
  <2>6. Abstract!Commit
    BY <2>2, <2>3, <2>4, <2>5, Zenon DEF Abstract!Commit, o
  <2> QED
    BY <2>6 DEF Abstract!Next
<1> QED
  BY <1>1, <1>2, <1>3, <1>4, <1>5, <1>6 DEF StepKind

\* With one writer and durable files the network implements AppendOnlyLedger:
\* a committed block is never changed, dropped or overtaken, and every node
\* knows a prefix of the ledger.
THEOREM AppendOnly ==
  ASSUME SingleWriter
  PROVE  Spec => ImplementsAppendOnly
<1> USE LedgerAssumption
<1>1. Init => Abstract!Init
  BY DEF Init, Abstract!Init, EmptyDir, Abstract!EmptyDir, FirstFiles
<1>2. WriterInv /\ WriterInv' /\ [Next]_vars => [Abstract!Next]_<<FirstFiles, chain>>
  <2> SUFFICES ASSUME WriterInv, WriterInv', [Next]_vars
               PROVE  [Abstract!Next]_<<FirstFiles, chain>>
    OBVIOUS
  <2>1. CASE Next
    <3>1. StepKind /\ TypeOK'
      BY <2>1, StepKinds DEF WriterInv, LedgerInv
    <3> QED
      BY <3>1, AbstractStep
  <2>2. CASE UNCHANGED vars
    BY <2>2 DEF vars, FirstFiles
  <2> QED
    BY <2>1, <2>2
<1> QED
  BY <1>1, <1>2, WriterInvariant, PTL DEF Spec, ImplementsAppendOnly, Abstract!Spec
=============================================================================
