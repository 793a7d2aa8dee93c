------------------------------- MODULE Ledger -------------------------------
(***************************************************************************)
(* The replicated ledger of a Pyrsia network: on every node the blockchain *)
(* event loop with its chain and block files, the gossip of new blocks,    *)
(* the task that pulls the chain when a node boots, and the transparency   *)
(* log database that indexes the blocks' payloads.                         *)
(*                                                                         *)
(* The blockchain event loop handles one event at a time, so one event is  *)
(* one action; only the pull, which waits for another node in the middle   *)
(* of its handler, takes several, and keeps the loop busy meanwhile.  A    *)
(* node may be killed between two steps, or while it writes a block file.  *)
(***************************************************************************)
EXTENDS Chain, FiniteSets

CONSTANTS
  Node,       \* the nodes of the network
  First,      \* the node started with --init-blockchain
  Writers,    \* the nodes that add payloads of their own
  BootPeer,   \* the peer each node pulls from when it boots
  Unstable,   \* the nodes that may stop at any time
  Faults,     \* what the environment may do wrong, see FaultKinds
  MaxLogs     \* bound: how many transparency logs are ever created

FaultKinds ==
  { "disk",      \* writing a block file fails
    "db",        \* a statement on the transparency log database fails
    "publish",   \* gossipsub refuses to publish (no peers, queue full)
    "request",   \* a request to a peer fails or times out
    "loss",      \* a gossiped block does not arrive
    "reorder",   \* gossiped blocks overtake each other
    "duplicate"  \* a gossiped block arrives more than once
  }

ASSUME LedgerAssumption ==
  /\ First \in Node
  /\ Writers \subseteq Node
  /\ BootPeer \in [Node -> Node]
  /\ Unstable \subseteq Node
  /\ Faults \subseteq FaultKinds
  /\ MaxLogs \in Nat

VARIABLES
  up,         \* is the process running?
  chain,      \* Blockchain.chain, in memory
  disk,       \* the block files, which survive a crash
  gossip,     \* gossiped blocks on their way, as <<destination, block>>
  pull,       \* the task that pulls the chain at boot
  rows,       \* the logs in the transparency log database, on disk
  toCommit,   \* artifact logs whose row is written and block not yet added
  toWrite,    \* AddNode logs whose block is added and row not yet written
  fresh       \* the next unused log

ledgerVars == <<chain, disk, gossip>>
indexVars == <<rows, toCommit, toWrite>>
vars == <<up, chain, disk, gossip, pull, rows, toCommit, toWrite, fresh>>

\* The stages of the boot-time pull.  In the first three after "connect" the
\* handler of PullBlocksFromPeer is running.
Busy == {"query", "request", "add"}
Stage == Busy \cup {"off", "connect", "local", "index", "done", "failed"}

PullState == [stage : Stage, ordinal : Nat, blocks : Seq(Block)]
PullIn(stage) == [stage |-> stage, ordinal |-> 0, blocks |-> <<>>]

LoopIdle(n) == up[n] /\ pull[n].stage \notin Busy

Init ==
  /\ up = [n \in Node |-> FALSE]
  /\ chain = [n \in Node |-> <<>>]
  /\ disk = [n \in Node |-> EmptyDir]
  /\ gossip = {}
  /\ pull = [n \in Node |-> PullIn("off")]
  /\ rows = [n \in Node |-> {}]
  /\ toCommit = [n \in Node |-> {}]
  /\ toWrite = [n \in Node |-> {}]
  /\ fresh = 1

-----------------------------------------------------------------------------
(* Storing a block                                                         *)

\* Chain::save_block on a chain that already holds the block: the file is
\* written, or the call fails with the file untouched, torn, or written but
\* not synced.
SaveOutcomes(blocks, files, b) ==
  IF ~HasPosition(blocks, b.ordinal)
  THEN {[ok |-> FALSE, files |-> files]}
  ELSE {[ok |-> TRUE, files |-> WriteFile(files, b.ordinal, b)]}
       \cup {[ok |-> FALSE, files |-> f] :
               f \in IF "disk" \in Faults
                     THEN {files, WriteFile(files, b.ordinal, Torn),
                           WriteFile(files, b.ordinal, b)}
                     ELSE {}}

\* Mutant: the block's file is never written.
CommitBlockWithoutSave(n, b, ok) ==
  /\ chain' = [chain EXCEPT ![n] = Append(@, b)]
  /\ ok = TRUE
  /\ UNCHANGED disk

\* Blockchain::commit_block: the block joins the chain in memory whether or
\* not its file could be written.
CommitBlock(n, b, ok) ==
  /\ chain' = [chain EXCEPT ![n] = Append(@, b)]
  /\ \E r \in SaveOutcomes(Append(chain[n], b), disk[n], b) :
       /\ r.ok = ok
       /\ disk' = [disk EXCEPT ![n] = r.files]

\* Mutant: a block ahead of the chain is committed too.
AddBlockAhead(n, b, ok) ==
  \/ /\ b.ordinal >= NextOrdinal(chain[n])
     /\ CommitBlock(n, b, ok)
  \/ /\ b.ordinal < NextOrdinal(chain[n])
     /\ ok = TRUE
     /\ UNCHANGED <<chain, disk>>

\* BlockchainService::add_block.  A block ahead of the chain is an error, one
\* behind it (or any but the genesis block on an empty chain) is ignored.
AddBlock(n, b, ok) ==
  \/ /\ b.ordinal = NextOrdinal(chain[n])
     /\ CommitBlock(n, b, ok)
  \/ /\ b.ordinal # NextOrdinal(chain[n])
     /\ ok = (chain[n] = <<>> \/ b.ordinal < NextOrdinal(chain[n]))
     /\ UNCHANGED <<chain, disk>>

\* Mutant: the parent hash is that of an empty input.
AddPayloadUnlinked(n, log, ok) ==
  /\ chain[n] # <<>>
  /\ ok = TRUE
  /\ LET b == [log |-> log, parent |-> NoParent, ordinal |-> NextOrdinal(chain[n])]
     IN  /\ CommitBlock(n, b, TRUE)
         /\ gossip' = gossip \cup {<<m, b>> : m \in Node \ {n}}

\* BlockchainService::add_payload, with Blockchain::add_block and
\* broadcast_blockchain.
AddPayload(n, log, ok) ==
  \/ /\ chain[n] = <<>>
     /\ ok = FALSE
     /\ UNCHANGED ledgerVars
  \/ /\ chain[n] # <<>>
     /\ LET b == [log |-> log, parent |-> LastBlock(chain[n]).log,
                  ordinal |-> NextOrdinal(chain[n])]
        IN  \/ /\ CommitBlock(n, b, FALSE)
               /\ ok = FALSE
               /\ UNCHANGED gossip
            \/ /\ CommitBlock(n, b, TRUE)
               /\ ok = TRUE
               /\ gossip' = gossip \cup {<<m, b>> : m \in Node \ {n}}
            \/ /\ "publish" \in Faults
               /\ CommitBlock(n, b, TRUE)
               /\ ok = FALSE
               /\ UNCHANGED gossip

\* ArtifactService::handle_block_added, with write_if_not_exists.  The
\* genesis payload is not a transparency log, so it does not parse; a lookup
\* that fails for another reason than an absent row is taken for success.
HandleBlockAdded(n, b, ok) ==
  \/ /\ b.ordinal # 0
     /\ ok = TRUE
     /\ rows' = [rows EXCEPT ![n] = @ \cup {b.log}]
  \/ /\ b.ordinal = 0 \/ "db" \in Faults
     /\ b.ordinal = 0 => ok = FALSE
     /\ UNCHANGED rows

-----------------------------------------------------------------------------
(* Starting and stopping a node                                            *)

\* init_first_blockchain_node on a node with block files: load them all, or
\* refuse to start (no step) when one does not deserialize.
StartFirstFromDisk ==
  /\ ~up[First]
  /\ \E k \in {o + 1 : o \in DOMAIN disk[First]} :
       /\ FirstMissing(disk[First], k)
       /\ Readable(disk[First], k)
       /\ chain' = [chain EXCEPT ![First] = LoadedBlocks(disk[First], k)]
  /\ up' = [up EXCEPT ![First] = TRUE]
  /\ UNCHANGED <<disk, gossip, pull, indexVars, fresh>>

\* Mutant: a genesis block is made at every start.
StartFirstAnew ==
  /\ ~up[First]
  /\ fresh <= MaxLogs
  /\ fresh' = fresh + 1
  /\ LET g == [log |-> fresh, parent |-> NoParent, ordinal |-> 0]
     IN  /\ disk' = [disk EXCEPT ![First] = WriteFile(@, 0, g)]
         /\ up' = [up EXCEPT ![First] = TRUE]
         /\ chain' = [chain EXCEPT ![First] = <<g>>]
  /\ UNCHANGED <<gossip, pull, indexVars>>

\* init_first_blockchain_node on a node without: make the genesis block, or
\* fail to start when it cannot be saved.
StartFirstWithGenesis ==
  /\ ~up[First]
  /\ FirstMissing(disk[First], 0)
  /\ fresh <= MaxLogs
  /\ fresh' = fresh + 1
  /\ LET g == [log |-> fresh, parent |-> NoParent, ordinal |-> 0]
     IN  \E r \in SaveOutcomes(<<g>>, disk[First], g) :
           /\ disk' = [disk EXCEPT ![First] = r.files]
           /\ up' = [up EXCEPT ![First] = r.ok]
           /\ chain' = [chain EXCEPT ![First] = IF r.ok THEN <<g>> ELSE @]
  /\ UNCHANGED <<gossip, pull, indexVars>>

\* init_other_blockchain_node: the chain starts empty whatever is on disk, and
\* a task is spawned that connects to the network and pulls the chain.
StartOther(n) ==
  /\ n # First
  /\ ~up[n]
  /\ up' = [up EXCEPT ![n] = TRUE]
  /\ pull' = [pull EXCEPT ![n] = PullIn("connect")]
  /\ UNCHANGED <<ledgerVars, indexVars, fresh>>

\* The process ends: what it had in memory is gone.
Stop(n) ==
  /\ n \in Unstable
  /\ up' = [up EXCEPT ![n] = FALSE]
  /\ chain' = [chain EXCEPT ![n] = <<>>]
  /\ pull' = [pull EXCEPT ![n] = PullIn("off")]
  /\ toCommit' = [toCommit EXCEPT ![n] = {}]
  /\ toWrite' = [toWrite EXCEPT ![n] = {}]
  /\ UNCHANGED <<gossip, rows>>

Crash(n) ==
  /\ up[n]
  /\ Stop(n)
  /\ UNCHANGED <<disk, fresh>>

\* The process is killed while Blockchain::new writes the file of the genesis
\* block, so that the file does not deserialize.
CrashInGenesis ==
  /\ ~up[First]
  /\ FirstMissing(disk[First], 0)
  /\ disk' = [disk EXCEPT ![First] = WriteFile(@, 0, Torn)]
  /\ Stop(First)
  /\ UNCHANGED fresh

-----------------------------------------------------------------------------
(* Adding payloads                                                         *)

\* TransparencyLogService::add_authorized_node up to the reply of the event
\* loop: the row is only written, by the calling task, once the block is in.
AddAuthorizedNode(n) ==
  /\ n \in Writers
  /\ LoopIdle(n)
  /\ fresh <= MaxLogs
  /\ fresh' = fresh + 1
  /\ \E ok \in BOOLEAN :
       /\ AddPayload(n, fresh, ok)
       /\ toWrite' = [toWrite EXCEPT ![n] = IF ok THEN @ \cup {fresh} ELSE @]
  /\ UNCHANGED <<up, pull, rows, toCommit>>

\* The end of add_authorized_node: write_transparency_log.
WriteAuthorizedNode(n) ==
  /\ \E log \in toWrite[n] :
       /\ toWrite' = [toWrite EXCEPT ![n] = @ \ {log}]
       /\ \/ rows' = [rows EXCEPT ![n] = @ \cup {log}]
          \/ "db" \in Faults /\ UNCHANGED rows
  /\ UNCHANGED <<up, ledgerVars, pull, toCommit, fresh>>

\* TransparencyLogService::add_artifact: here the row comes first.
AddArtifact(n) ==
  /\ n \in Writers
  /\ up[n]
  /\ fresh <= MaxLogs
  /\ fresh' = fresh + 1
  /\ rows' = [rows EXCEPT ![n] = @ \cup {fresh}]
  /\ toCommit' = [toCommit EXCEPT ![n] = @ \cup {fresh}]
  /\ UNCHANGED <<up, ledgerVars, pull, toWrite>>

\* TransparencyLogService::broadcast_artifacts, for one payload.
BroadcastArtifact(n) ==
  /\ LoopIdle(n)
  /\ \E log \in toCommit[n], ok \in BOOLEAN :
       /\ AddPayload(n, log, ok)
       /\ toCommit' = [toCommit EXCEPT ![n] = @ \ {log}]
  /\ UNCHANGED <<up, pull, rows, toWrite, fresh>>

-----------------------------------------------------------------------------
(* Gossip                                                                  *)

\* May this block be the next one to arrive at n?
Arrives(n, b) ==
  /\ <<n, b>> \in gossip
  /\ \/ "reorder" \in Faults
     \/ \A m \in gossip : m[1] = n => b.ordinal <= m[2].ordinal

\* Mutant: the payload of a block that was added is not indexed.
HandleBlockBroadcastUnindexed(n) ==
  /\ LoopIdle(n)
  /\ \E b \in {m[2] : m \in gossip}, ok \in BOOLEAN :
       /\ Arrives(n, b)
       /\ gossip' = gossip \ {<<n, b>>}
       /\ AddBlock(n, b, ok)
  /\ UNCHANGED <<up, pull, rows, toCommit, toWrite, fresh>>

\* BlockchainEvent::HandleBlockBroadcast: unless add_block failed the payload
\* goes to the transparency log, also when add_block ignored the block.
HandleBlockBroadcast(n) ==
  /\ LoopIdle(n)
  /\ \E b \in {m[2] : m \in gossip} :
       /\ Arrives(n, b)
       /\ \/ gossip' = gossip \ {<<n, b>>}
          \/ "duplicate" \in Faults /\ UNCHANGED gossip
       /\ \/ AddBlock(n, b, FALSE) /\ UNCHANGED rows
          \/ AddBlock(n, b, TRUE) /\ \E ok \in BOOLEAN : HandleBlockAdded(n, b, ok)
  /\ UNCHANGED <<up, pull, toCommit, toWrite, fresh>>

\* A node that is not running is not subscribed to the topic.
LoseBroadcast(n) ==
  /\ "loss" \in Faults \/ ~up[n]
  /\ \E m \in gossip : m[1] = n /\ gossip' = gossip \ {m}
  /\ UNCHANGED <<up, chain, disk, pull, indexVars, fresh>>

\* The process is killed while commit_block writes the file of a block, one of
\* its own or one that arrived, so that the file does not deserialize.  (Also
\* possible in a pull, but who pulls never reads its files back.)
CrashInSave(n) ==
  /\ LoopIdle(n)
  /\ chain[n] # <<>>
  /\ \/ n \in Writers /\ fresh <= MaxLogs /\ fresh' = fresh + 1
     \/ toCommit[n] # {} /\ UNCHANGED fresh
     \/ /\ \E b \in {m[2] : m \in gossip} : Arrives(n, b) /\ b.ordinal = NextOrdinal(chain[n])
        /\ UNCHANGED fresh
  /\ disk' = [disk EXCEPT ![n] = WriteFile(@, NextOrdinal(chain[n]), Torn)]
  /\ Stop(n)

-----------------------------------------------------------------------------
(* Pulling the chain at boot                                               *)

Goto(n, stage) == pull' = [pull EXCEPT ![n] = [@ EXCEPT !.stage = stage]]

\* The loop over the blocks that were pulled goes on with the next one.
NextBlock(n) ==
  pull' = [pull EXCEPT ![n] = [@ EXCEPT !.blocks = Tail(pull[n].blocks)]]

\* The connection to the peer stands: the task sends PullBlocksFromPeer.
PullConnect(n) ==
  /\ pull[n].stage = "connect"
  /\ up[BootPeer[n]]
  /\ Goto(n, "query")
  /\ UNCHANGED <<up, ledgerVars, indexVars, fresh>>

\* query_blockchain_ordinal, answered by the peer's HandleQueryBlockOrdinal.
PullQuery(n) ==
  /\ pull[n].stage = "query"
  /\ LoopIdle(BootPeer[n])
  /\ chain[BootPeer[n]] # <<>>
  /\ pull' = [pull EXCEPT ![n] =
                [@ EXCEPT !.stage = "request", !.ordinal = LastBlock(chain[BootPeer[n]]).ordinal]]
  /\ UNCHANGED <<up, ledgerVars, indexVars, fresh>>

\* Mutant: the genesis block is not asked for.
PullRequestAfterGenesis(n) ==
  /\ pull[n].stage = "request"
  /\ LoopIdle(BootPeer[n])
  /\ pull' = [pull EXCEPT ![n] =
                [@ EXCEPT !.stage = "add",
                          !.blocks = RetrieveBlocks(chain[BootPeer[n]], 1, pull[n].ordinal)]]
  /\ UNCHANGED <<up, ledgerVars, indexVars, fresh>>

\* pull_block_from_other_nodes, answered by the peer's HandlePullBlocks from
\* the chain it has by then.
PullRequest(n) ==
  /\ pull[n].stage = "request"
  /\ LoopIdle(BootPeer[n])
  /\ pull' = [pull EXCEPT ![n] =
                [@ EXCEPT !.stage = "add",
                          !.blocks = RetrieveBlocks(chain[BootPeer[n]], 0, pull[n].ordinal)]]
  /\ UNCHANGED <<up, ledgerVars, indexVars, fresh>>

\* The loop of init_pull_from_others, one block at a time.
PullAdd(n) ==
  /\ pull[n].stage = "add"
  /\ \/ /\ pull[n].blocks = <<>>
        /\ Goto(n, "local")
        /\ UNCHANGED <<chain, disk>>
     \/ /\ pull[n].blocks # <<>>
        /\ \/ /\ AddBlock(n, Head(pull[n].blocks), TRUE)
              /\ NextBlock(n)
           \/ /\ AddBlock(n, Head(pull[n].blocks), FALSE)
              /\ Goto(n, "failed")
  /\ UNCHANGED <<up, gossip, indexVars, fresh>>

\* Mutant: the first block after genesis is left out.
PullLocalFromSecond(n) ==
  /\ pull[n].stage = "local"
  /\ pull' = [pull EXCEPT ![n] =
                [@ EXCEPT !.stage = "index",
                          !.blocks = RetrieveBlocks(chain[n], 2, pull[n].ordinal)]]
  /\ UNCHANGED <<up, ledgerVars, indexVars, fresh>>

\* pull_blocks_local from the first block after genesis up to the ordinal the
\* peer reported.
PullLocal(n) ==
  /\ pull[n].stage = "local"
  /\ pull' = [pull EXCEPT ![n] =
                [@ EXCEPT !.stage = "index",
                          !.blocks = RetrieveBlocks(chain[n], 1, pull[n].ordinal)]]
  /\ UNCHANGED <<up, ledgerVars, indexVars, fresh>>

\* The loop of main's pull_block_from_other_nodes, one block at a time.
PullIndex(n) ==
  /\ pull[n].stage = "index"
  /\ \/ /\ pull[n].blocks = <<>>
        /\ Goto(n, "done")
        /\ UNCHANGED rows
     \/ /\ pull[n].blocks # <<>>
        /\ \/ /\ HandleBlockAdded(n, Head(pull[n].blocks), TRUE)
              /\ NextBlock(n)
           \/ /\ HandleBlockAdded(n, Head(pull[n].blocks), FALSE)
              /\ Goto(n, "failed")
  /\ UNCHANGED <<up, ledgerVars, toCommit, toWrite, fresh>>

\* Mutant: a request to a peer whose event loop is busy waits for ever.
NoAnswerWithoutTimeout(n) ==
  \/ "request" \in Faults
  \/ ~up[BootPeer[n]]
  \/ pull[n].stage = "query" /\ chain[BootPeer[n]] = <<>> /\ LoopIdle(BootPeer[n])

\* The peer gives no answer: it is down, its chain is empty (its handler's
\* error is logged, not sent), or its event loop is busy pulling and the
\* request times out.
NoAnswer(n) ==
  \/ "request" \in Faults
  \/ ~up[BootPeer[n]]
  \/ pull[n].stage # "connect" /\ ~LoopIdle(BootPeer[n])
  \/ pull[n].stage = "query" /\ chain[BootPeer[n]] = <<>>

\* The task panics (or, while connecting, ends); nothing starts it again.
PullFail(n) ==
  /\ pull[n].stage \in {"connect", "query", "request"}
  /\ NoAnswer(n)
  /\ Goto(n, "failed")
  /\ UNCHANGED <<up, ledgerVars, indexVars, fresh>>

PullStep(n) ==
  \/ PullConnect(n)
  \/ PullQuery(n)
  \/ PullRequest(n)
  \/ PullAdd(n)
  \/ PullLocal(n)
  \/ PullIndex(n)
  \/ PullFail(n)

-----------------------------------------------------------------------------
Next ==
  \/ StartFirstFromDisk
  \/ StartFirstWithGenesis
  \/ CrashInGenesis
  \/ \E n \in Node :
       \/ StartOther(n)
       \/ Crash(n)
       \/ CrashInSave(n)
       \/ AddAuthorizedNode(n)
       \/ WriteAuthorizedNode(n)
       \/ AddArtifact(n)
       \/ BroadcastArtifact(n)
       \/ HandleBlockBroadcast(n)
       \/ LoseBroadcast(n)
       \/ PullStep(n)

Spec == Init /\ [][Next]_vars

\* The tasks tokio schedules are run, and a message that is neither lost nor
\* overtaken is delivered.  Starting, crashing, losing and adding are not fair.
Fairness ==
  \A n \in Node :
    /\ WF_vars(PullStep(n))
    /\ WF_vars(HandleBlockBroadcast(n))
    /\ WF_vars(WriteAuthorizedNode(n))
    /\ WF_vars(BroadcastArtifact(n))

FairSpec == Spec /\ Fairness

-----------------------------------------------------------------------------
(* Properties                                                              *)

TypeOK ==
  /\ up \in [Node -> BOOLEAN]
  /\ chain \in [Node -> Seq(Block)]
  /\ disk = [n \in Node |-> disk[n]]
  /\ \A n \in Node : IsDir(disk[n])
  /\ gossip \subseteq Node \X Block
  /\ pull \in [Node -> PullState]
  /\ rows \in [Node -> SUBSET Nat]
  /\ toCommit \in [Node -> SUBSET Nat]
  /\ toWrite \in [Node -> SUBSET Nat]
  /\ fresh \in Nat

\* Chain's comment "The block sequence is always sorted by the ordinal": on
\* every node, whatever was gossiped, pulled, loaded, lost or torn, and
\* whoever wrote it, the chain holds the ordinals 0, 1, 2... in that order, so
\* get_block_position never fails and add_block's comparison with the last
\* ordinal is a comparison with the length.
OrdinalsConsecutive ==
  \A n \in Node : \A i \in 1 .. Len(chain[n]) : chain[n][i].ordinal = i - 1

\* There is one genesis block: Blockchain::new makes another only while no
\* node can have seen the one before, across crashes and failed saves.
GenesisAgreement ==
  \A m, n \in Node :
    chain[m] # <<>> /\ chain[n] # <<>> => chain[m][1] = chain[n][1]

\* What a node knows agrees with the files of the first node.
OnFirstDisk(b) == b.ordinal \in DOMAIN disk[First] /\ disk[First][b.ordinal] = b

\* No forks: when only the first node adds payloads and no write fails under a
\* running node, every chain, at any time, is a prefix of what the first node
\* has on disk, so no crash, loss, delay, duplicate, race with a pull or failed
\* publication makes two nodes disagree on a block.
PrefixOfFirst ==
  \A n \in Node : \A i \in 1 .. Len(chain[n]) :
    chain[n][i].ordinal = i - 1 /\ OnFirstDisk(chain[n][i])

\* Header's comment "Hash of the parent block (previous Block's hash)": every
\* block names the block before it.
HashLinked ==
  \A n \in Node : \A i \in 2 .. Len(chain[n]) :
    chain[n][i].parent = chain[n][i - 1].log

\* The blocks in the first node's files.
FirstFiles ==
  [o \in {p \in DOMAIN disk[First] : disk[First][p] # Torn} |-> disk[First][o]]

\* A replica's transparency log shows nothing that is not in the ledger, even
\* though HandleBlockBroadcast writes rows for blocks add_block ignored.
IndexBacked ==
  \A n \in Node \ {First} :
    rows[n] \subseteq {FirstFiles[o].log : o \in DOMAIN FirstFiles}

\* "I make sure the transparency log is up-to-date when I boot": once the pull
\* is done the database of a replica has a row for every block after genesis
\* in its chain, those gossiped between the pull and its indexing included.
BootIndexed ==
  \A n \in Node :
    pull[n].stage = "done" =>
      \A i \in 2 .. Len(chain[n]) : chain[n][i].log \in rows[n]

\* The ledger of the network is what the first node has on disk; a node's view
\* of it is its chain.
Abstract == INSTANCE AppendOnlyLedger WITH ledger <- FirstFiles, view <- chain

\* With one writer and no failed writes the network implements an append-only
\* ledger: a block that was committed is never changed, dropped or
\* overtaken by another, whatever crashes and however late a node learns of it.
ImplementsAppendOnly == Abstract!Spec

\* A boot-time pull ends, even when two nodes pull from each other and each
\* keeps its event loop busy waiting for the other.
PullTerminates ==
  \A n \in Node : pull[n].stage \in Busy ~> pull[n].stage \notin Busy

\* The logs of the blocks after genesis in the first node's chain.
FirstLogs == {chain[First][i].log : i \in 2 .. Len(chain[First])}

\* "All nodes must receive new transactions": a replica that completed its pull
\* eventually has the chain of the first node.
CatchesUp ==
  \A n \in Node : pull[n].stage = "done" ~> chain[n] = chain[First]

\* "I make sure the transparency log is kept up-to-date while running": a
\* replica that completed its pull eventually has a row for every log the
\* first node committed.
StaysIndexed ==
  \A n \in Node : pull[n].stage = "done" ~> FirstLogs \subseteq rows[n]

\* "I make sure the transparency log is up-to-date when I boot", of the first
\* node: apart from rows still being written, what is in its chain is in its
\* database.
FirstIndexed == up[First] => FirstLogs \subseteq rows[First] \cup toWrite[First]
=============================================================================
