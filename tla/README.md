# The Pyrsia node in TLA+

A Pyrsia network is a set of nodes that build open-source packages, store the
artifacts, and record who built what in a transparency log. The log's entries are
the payloads of a blockchain that every node replicates. This directory holds TLA+
modules for the node's code and its command line client, the configurations that
model-check them with TLC, and proofs that TLAPS checks.

## 1. The system

### Parts and the modules that model them

| part | source | module |
|---|---|---|
| chain and block files | `blockchain/src/structures/chain.rs` | `Chain` |
| blockchain, its service, its event loop; pull at boot; indexing of blocks | `blockchain/src/blockchain.rs`, `blockchain_service/`, `pyrsia_node/src/main.rs` | `Ledger` |
| what the blockchain promises | architecture document | `AppendOnlyLedger` |
| four event loops, their bounded channels, dispatch in main | `network/event_loop.rs`, `blockchain_service/event.rs`, `build_service/event.rs`, `pyrsia_node/src/` | `EventLoops` |
| p2p event loop and client | `network/event_loop.rs`, `network/client.rs` | `PeerLoop` |
| codecs of the five protocols | `network/*_protocol.rs` | `Codecs` |
| build service, pollers, recording of results | `build_service/`, `artifact_service/service.rs` | `Builds` |
| verification service | `verification_service/service.rs` | `Verification` |
| transparency log database and queries | `transparency_log/log.rs` | `TransparencyLog` |
| artifact storage, download, choice of a peer | `artifact_service/`, `network/client.rs` | `Artifacts` |
| HTTP routes and handlers, Docker and Maven registries, commands of the client | `node_api/`, `docker/`, `java/`, `cli_commands/node.rs`, `pyrsia_cli/` | `NodeApi`, `PackageIds` |
| start-up and key pair | `pyrsia_node/src/main.rs`, `util/keypair_util.rs` | `NodeStart` |
| configuration of the client | `cli_commands/config.rs`, `pyrsia_cli/` | `CliConfig` |
| authorities and multi-signatures | `blockchain/src/identities/` | `Authority` |

Paths are relative to `src/src/`, except `pyrsia_node` and `pyrsia_cli`. `PROJECT.json`
maps every definition to its lines.

### How they interact

A client asks a node's HTTP server for a build or an artifact. A build is requested from
the build loop, polled by a task, downloaded, and its artifacts are recorded one by one:
a row in the database, a file, an announcement in the DHT. Then their logs are added to the
blockchain. The blockchain loop makes a block, keeps it in memory, saves it to a file and
publishes it on a gossip topic. A node that receives a block adds it when its ordinal is the
next one, and indexes the payload. The *first node* (`--init-blockchain`) makes the genesis
block or loads its files. Every other node starts with an empty chain and a task that pulls
the blocks of one peer and indexes them.

Everything that leaves the node goes through the p2p loop. A caller puts a command with a
one-shot sender in its channel and awaits the answer. Requests of peers go from the p2p loop
to main, which handles one at a time and awaits the other loops in doing so.

### What makes it hard

- Blocks are accepted by ordinal alone and can be lost, duplicated or reordered, while a
  pull is going on.
- Memory, block files, artifact files, database and DHT change at different moments, and a
  node can be killed between any two of them or in the middle of a write.
- Each loop awaits other loops and other nodes, through channels of 32 slots.
- Checks against the log (is it built already, is the node authorized already) are made long
  before the row that would answer them is written.
- A sender must stay in its map until its query is over, and no longer.
- Tasks that fail are not started again.

`PROJECT.json` lists these as hazards, each at the line where it bites.

## 2. The modules

One module per component, one action per handler or step, and a module `MC...` with the values
of the constants where a configuration needs more than sets.

### `Ledger`: all nodes with their chains, files, databases and gossip

| variable | in the code |
|---|---|
| `up[n]` | the process runs |
| `chain[n]` | `Blockchain.chain`, in memory |
| `disk[n]` | the files; a partial function from ordinals to blocks, or to `Torn` for a file that does not deserialize |
| `gossip` | blocks published and not yet delivered, per destination |
| `pull[n]` | the task of `establish_connection_with_p2p_network`: its stage, the ordinal the peer reported, the blocks in hand |
| `rows[n]` | the logs in the database |
| `toWrite[n]` | `add_authorized_node` calls whose block is in and whose row is not |
| `toCommit[n]` | `add_artifact` rows whose payload `broadcast_artifacts` has not sent yet |
| `fresh` | the next unused log id |

| action | code |
|---|---|
| `StartFirstFromDisk`, `StartFirstWithGenesis` | `init_first_blockchain_node`, `Blockchain::new` |
| `StartOther` | `init_other_blockchain_node` |
| `AddAuthorizedNode`, `WriteAuthorizedNode` | the two halves of `add_authorized_node`, before and after the loop's reply |
| `AddArtifact`, `BroadcastArtifact` | `add_artifact`, `broadcast_artifacts` |
| `HandleBlockBroadcast` | the event of that name, with `add_block` and `handle_block_added` |
| `PullConnect`, `PullQuery`, `PullRequest`, `PullAdd`, `PullLocal`, `PullIndex`, `PullFail` | the steps of the pull; the peer's handlers `HandleQueryBlockOrdinal` and `HandlePullBlocks` are part of `PullQuery` and `PullRequest` |
| `Crash`, `CrashInSave`, `CrashInGenesis` | the process ends, between two steps or while it writes a block file |
| `LoseBroadcast` | a block is lost, or its destination is down |

One event of the loop is one action, because the loop awaits nothing but disk, database
and its own p2p client in it. A call that fails does so inside the action: `SaveOutcomes`
gives the ways `save_block` can end. `AppendOnlyLedger` is the abstract specification: one
sequence of linked blocks that only grows, and views that are prefixes of it.

- A log id stands for the log, for its payload and for the hash of the block that carries
  it: ids are unique, and `NoParent` is not one of them.
- `save_block` opens the file without truncating it. bincode ignores trailing bytes, so a
  complete overwrite reads as the new block; a partial one is modelled as `Torn`.
- A node other than the first never reads its block files back.
- The payloads of one build are independent here; `Builds` has their order.
- `LoopIdle` stands for the queue of the loop: an event waits until the pull is over. The
  queue's slots are in `EventLoops`.
- A node without a peer to boot from (`--listen-only`) never pulls.
- A lookup in `write_if_not_exists` that fails for another reason than an absent row counts
  as success, as in the code.

### `EventLoops`: who waits for whom

`channel` holds the queue of each loop, `job` what it handles, `deferred` those whose answer
comes with a later event of the swarm, `task` the tasks outside the loops, `arrived` the number
of messages peers have sent. A handler is its script: the events it puts in other channels, and
whether it awaits the answer (`Await`) or not (`Post`). `MainScript`, `BlockchainScript`,
`BuildScript` and `PeerScript` are read off the handlers. The actions are `Take`, `Step`, `Finish`
and `Abort` (a handler that ends early with an error) of a loop, `NetworkAnswer`,
`MessageArrives` and `TaskSends`. What the events do is left to the other modules.

### `PeerLoop`: the maps of pending senders

`calls` are the client's calls, `commands` and `events` the two channels, `pending` and
`pendingDial` the maps, `swarm` what libp2p is doing, `inbound` the exchanges peers have opened,
`panic` the expectation that ended the loop. Every command and every event of the swarm that the
loop reacts to is an action. libp2p is the environment: it may complete, fail or time out what it
was asked. A bootstrap is several lookups under one query id, which report one by one
(`BootstrapProgressed`, `BootstrapTimedOut`, `BootstrapDone`); a query for providers may report some before it
ends (`FoundProviders`); peers put provider records into the store of this node (`AddProviderReceived`).
A sender that is dropped wakes its caller with an error.

### `Codecs`: messages in pieces

A message is a sequence of fields, a field its length and its bytes, one unit standing for many
bytes. `Deliver` hands over any number of units, `Cut` ends the connection, and the reader takes
`ReadLength`, `ReadBytes`, `EndField`, `EndMessage` or `UnexpectedEof`. A message has the fields of its
codec, each of any length (`WellFormed`).

### `Builds`: from a request to the blockchain

`request` and `build` hold how far each is, `events` the channel of the loop, `recording` the
result being recorded, and `rows`, `files`, `provided`, `ledger` what has been recorded where.
`RequestBuild` and `StartBuild` are two steps because the check against the log and the event are
two; `StartFails`, `StartSucceeds` end the second. `PollSuccess` and `PollFailure` are the poller,
`Download` and `DownloadFails` handle its event, `HandleFailed`, `HandleVerified` and
`HandleResult` the next one. A result is recorded by `AddArtifact`, `PutArtifact` and
`ProvideArtifact` per artifact, then `BroadcastArtifact` per artifact and `CleanUpBuild`;
`AbortRecording` is the first error in it. The directory of a build is absent, there, or stuck: a
removal that fails is only logged (`CleanedUp`). `Restart` loses
requests, events, pollers and the recording; rows, files, announcements and the blockchain stay.

### `Verification`: the transactions of a package

`pending` is `pending_info`, `verifying` is `verifying_info`, `answer` the state of each sender,
`result` what each build gave. A call is refused, collected, or the last of its package; then the
build starts (`StartVerification`) or does not (`StartRefused`). `HandleBuildFailed` and
`HandleBuildResult` answer all calls of a build. No code of the node calls `verify_transaction` yet.

### `TransparencyLog`: rows and queries

`rows` is the table, `clock` the time in seconds, `addition` the calls of `add_authorized_node`.
Rows may share a timestamp. The result of a query ordered by timestamp is then one of several, and
the operators (`ReadLast`, `GetArtifact`, `FindAddedNodes`, `CanBeAdded`, `NodeExists`) give the set of
them. `AddNode` and `NodeCommitted` are the two halves of an addition. `BlockAdded` and `NodeBlockAdded`
are logs that arrive in blocks of other nodes, with timestamps of those nodes, in any order.

### `Artifacts`: one artifact in the network

`file` is none, a part or whole on each node; `building` the builder's progress; `providers` the
DHT; `get` the calls of `get_artifact`. A file is created and written in two steps, with readers in
between; a copy that fails leaves the part it wrote (`BuildWriteFails`, `WriteFails`). `ReadLocally`, `ListProviders`, the choice of a peer, `RequestArtifact`, `CreateFile`, `WriteFile`,
`ReadAgain`, `VerifyArtifact` are the steps of a call and `Retry` is its client; `Restart` runs
`provide_local_artifacts`, which announces whatever is in the directory. `get_idle_peer` asks the providers
one by one in the order of a hash set: `AskIdle` takes the first below the threshold, or adds the provider
to `idle`; `AskFails` is a provider that does not answer; once all were asked `ChoosePeer` takes one
that may come first in `idle` when it is sorted (`FirstOfSorted`).

### `NodeApi` and `PackageIds`: requests of clients

A client's command becomes a request (`Ask`), a route and a handler answer it (`Run`), or the
connection fails (`Lost`), and the client shows the answer (`Show`); meanwhile builds go on
(`Progress`). A search in the log (`search_transparency_logs`) answers with logs or with the error the query
for the latest may give. `PackageIds` takes identifiers apart and puts them together the way the API, the build
service and the registries do, as sequences of tokens. `PullsOf` says which commands pull the artifacts of
a package; `PullsAssumption` fixes what such a command is (the manifest by tag, by digest or by its hash, a
blob by its digest, a file below the coordinates), and TLC evaluates it on the packages of the run.
`PulledOnceBuilt` speaks of a build of the registry's own type: the route for Maven builds takes any
coordinates, and what a Maven build makes of the name of an image is no image.

### `NodeStart`, `CliConfig`, `Authority`

`NodeStart` is the order of `main()` with the key file that is read twice (`GetPeerKey`, `GetChainKey`)
and a process that may end anywhere. `CliConfig` has client processes that load, check, store, remove
and show the configuration in overlapping steps. `Authority` has boxes of known authorities, signatures,
the threshold and `is_complete`.

## 3. The runs

| run | question | bounds |
|---|---|---|
| `one_writer` | With one writer, do all chains stay prefixes of the first node's files, with linked blocks and databases that show only committed logs? Does the network implement `AppendOnlyLedger`? | f and r1; 4 logs; both may crash; every fault but failing disk and database |
| `many_writers` | What survives two writers and failing disks and databases? | f and r1; 3 logs |
| `catch_up` | Does a replica that booted from the writer end up with its chain and its logs? | f and r1, 4 logs, no faults |
| `mutual_pull` | Do pulls end when two nodes pull from each other? | 3 nodes, 2 logs, all may crash |
| `fork` | A statement of a comment that the code does not meet; see section 6 | 2 writers |
| `peer_calls` | Do the maps of pending senders match what libp2p is doing, so that an outcome finds its sender, and does every call return? | 2 calls of any method, 2 inbound exchanges of any kind, at most 2 of them together, 1 peer, all faults |
| `loops_return` | Can loops wait for each other in a circle? Does everyone who waits get the answer? | 3 tasks, 1 message of 5 kinds, channels that do not fill |
| `builds` | Is what is broadcast recorded completely? Does every build end, and is the removal of its directory tried however it ends? | 4 requests of all kinds, 2 packages (2 and 1 artifacts), 2 builds, all faults |
| `log_queries` | Is the newest build of a package read whole and alone, and each authorized node listed once? | 2 builds of one package with 2 artifacts, one here and one on a peer; 2 additions of one node, here or on a peer; 3 seconds |
| `artifacts_shared` | Do the providers have the artifact, does a whole file stay whole, and is a client that tries again served in the end? | 3 nodes, 3 calls on 2 of them, failing requests and writes, one stop in all |
| `api_requests` | Are artifacts found under the names their build gave them? | 2 clients, all commands, 1 build, all faults for one of the clients |
| `codecs_pieces` | Is what is read what was written, however it is delivered, and does the reader end? | all formats but the metric; fields of 0, in, at and above the limit; limits 2, 3 and 4 units |

Why the bounds are enough. Four logs are the genesis block and three more, so there is a block before,
at and after each of the points where a pull and the gossip can cross. Two calls, or two exchanges,
or one of each, are what can meet in a map of the p2p loop; the maps are keyed, so a third brings no
new case. Two requests of one package are what a check before an action can miss. A package with two
artifacts has one that is recorded and one that is not. Two calls on one node race for one file, and
one on another node finds the first as a provider. In a channel that does not fill the number of
slots does not matter, and a full channel is the subject of `LoopsFull` below. Every bound is a
constant: `MaxLogs`, `MaxActive`, `MaxMessages`, `BuildIds`, `MaxTime`, `MaxBuilds`, `MaxKeys`,
`MaxStops`. One stop is enough to tear a file at any point of any call. `MaxKeys` is kademlia's own limit in `PeerLoop`.

Deadlock is not checked in the runs. Calls, requests and logs are finite, so each model comes to rest when
they are used up. That nobody waits for ever is stated by the liveness properties and `NoWaitCycle`.

### Exemptions

Where the code is known not to keep a promise in some case, a property names that case.

- `KeptWhileRunning` speaks of a loop that runs, and names the two kinds of query that may differ from
  the maps, both after a timeout: a query for providers whose sender stays behind, and a bootstrap whose lookup
  timed out, which libp2p goes on with after its caller was answered.
- `CallsReturn` exempts `ListProviders` when queries for providers may fail, and `AddProbe` when the peer may
  have connected first.
- `DirectoriesRemoved` allows a directory whose removal was tried and failed, and one left by a process that stopped.
- `NewestBuildIsWhole` speaks of a build all of whose rows are there and newer than every row of the package's
  other builds. `LogRebuilt` shows what is read otherwise.
- `ProvidersHaveIt` is about nodes that were not stopped. `ServedUnlessTorn` is about calls on a node without a torn
  file, while the builder has none either; `ArtifactsTorn` is what happens with one.
- `PulledOnceBuilt` is about clients whose requests meet no fault, while another's do.

### Fairness

Weak fairness of what tokio will run once it can, and of what libp2p completes or times out.

- `Ledger`: the pull, the handling of a gossiped block, and the two tasks that finish adding a log.
  `PullFail` belongs to the pull because libp2p times out a request that gets no answer. Starting a node,
  adding a log, crashing and losing a block are not fair.
- `EventLoops`: each loop's steps. Strong fairness where several compete: a task's turn at a channel, which
  tokio's semaphore grants in order; the p2p loop's choice between commands and network, which `select!`
  makes at random; and the network's answers, which request-response bounds by a timeout.
- `PeerLoop`: the loop, main, and the outcome of every dial, query and request. The outcome of a query for
  providers is fair only without the fault `"dht"`.
- `Builds`: the loop, the pollers and the requests under way. `Codecs`: delivery and the reader.
- `Artifacts`: the builder and each step of a call. Strong fairness says that a client that tries again and
  again finds a provider, a peer and an answer at some time, if it could again and again.

### Further configurations

Beside the runs there are configurations for the same modules. `tlc -config X.cfg M` checks them.

| configuration | module | what TLC reports |
|---|---|---|
| `LedgerRelay` | `MCLedger` | passes: a node that boots from a replica which may crash or lag has no fork, and what it boots with is indexed |
| `StartKept` | `NodeStart` | passes: `IdentityKept`, `CommitterIsPeer`, with kills anywhere and services that fail |
| `ConfigTwo` | `CliConfig` | passes: `StoredIsValid` with two processes and kills |
| `AuthorityQuorum` | `Authority` | passes: `OneComplete`, `CompleteByMost`, four authorities, three of them honest |
| `VerifyOnce` | `MCVerification` | passes: `WaitingKeptOnce`, `ConfirmedWasBuilt`, `AnsweredOnce`, `VerifiesWholePackage`, `StartedIsAnswered` |
| `LedgerDiskGap`, `LedgerStaleBoot`, `LedgerFirstIndex`, `LoopsFull`, `BuildsDuplicated`, `VerifyTwice`, `PeerLate`, `ArtifactsTorn`, `LogRebuilt` | the `MC` module of the same component | a violation each; see section 6 |

Larger or other instances that were checked with small changes of these files, and pass:

- `LoopsReturn` with `SPECIFICATION Spec`, four tasks (`TaskKind <- AllTasks`) and two messages, for
  `NoWaitCycle`: 1.1 million states;
- `ApiRequests` with `MaxBuilds = 2`: 1.3 million states;
- `ApiRequests` with `FairSpec`, `Commands <- ImageCommands`, `FirstNodes = {"self"}`, `Urls <- OneImage`,
  `PullsOf <- TagPull`, `MaxBuilds = 2` and without faults or unlucky clients, for `PullServed`;
- `ConfigTwo` with one process, for `EditKeepsRest`.

## 4. The proofs

The theorems hold for any number of nodes, calls, builds and so on, for any faults, and for any bounds, unless
an assumption is named. Eight modules hold them. `LogProofs` and `StorageProofs` each prove about several
components that share nothing: they extend the first, `TransparencyLog` and `Artifacts`, and `INSTANCE` the others.

| module | theorem | statement | argument |
|---|---|---|---|
| `LedgerProofs` | `TypeCorrect` | `Spec => []TypeOK` | inductive as it stands |
| | `ChainSorted` | `Spec => []OrdinalsConsecutive` | `Ordered`, with the files: the file of ordinal o holds a block with ordinal o or is torn. `add_block` compares with the last ordinal, which is then the length |
| | `SameGenesis` | `Spec => []GenesisAgreement` | `LedgerInv`: every block with ordinal 0 that is in a chain, in the gossip or in a pull is the one in the first node's file, which is written only while nobody knows a genesis block |
| `SingleWriterProofs` | `NoFork` | `SingleWriter` implies `Spec => []PrefixOfFirst` | `WriterInv`: all blocks known anywhere are in the first node's files, and the first node's chain is all of its files while it is up |
| | `ParentLinks` | `SingleWriter` implies `Spec => []HashLinked` | the same, with links between the files |
| | `IndexedIsCommitted` | `SingleWriter` implies `Spec => []IndexBacked` | rows of a replica come from known blocks |
| | `BootedIsIndexed` | `SingleWriter` and no fault `"db"` imply `Spec => []BootIndexed` | `BootInv` says per stage of the pull which blocks may lack a row: none before it, up to the ordinal the peer reported while blocks are added, those listed while they are indexed |
| | `AppendOnly` | `SingleWriter` implies `Spec => ImplementsAppendOnly` | every step is a commit of the first node, a view that grows, a view that is lost, or a stutter |
| `PeerLoopProofs` | `SendersKept`, `AnswersFindSenders` | `Spec => []KeptWhileRunning`, `Spec => []QueriesPending` | `LoopInv`, with the shape of the maps: a handler that starts a query keeps its sender in the same step, and the outcome of a query ends both |
| | `LoopTypesHold`, `DialsAreWatched` | `Spec => []TypeOK`, `Spec => []DialsWatched` | `CallInv`: the sender of a call is in one place only, the channel or one of the maps, and its caller waits or has gone |
| `EventLoopsProofs` | `NoCycleWithFreeSlots` | `Spec => [](HasSlot("main") /\ HasSlot("build") => NoWaitCycle)` | `AsksBelow`: main asks build, build the blockchain loop, that the p2p loop, and nobody asks a loop above it; only main and build get messages from a loop that is not above them |
| | `NoCycleWithRoom` | `RoomForAll` implies `Spec => []NoWaitCycle` | `SlotsUsed` counts: a message uses one slot of main and then of build, a task one of build |
| `BuildsProofs` | `BroadcastIsComplete` | `Spec => []BroadcastComplete` | `BroadcastInv`: before artifact k of a result is recorded the earlier ones are, and the broadcast begins after the last; events and payloads are of builds that exist |
| | `DirectoriesAreRemoved`, `BuildsAreTracked` | `Spec => []DirectoriesRemoved`, `Spec => []BuildTracked` | `TrackInv`: an event fits the stage of its build and is the only one about it, and each of the steps that end a build tries the removal |
| `LogProofs` | `PackageOpenUntilLogged` | `Spec => []OpenUntilLogged` | `LogInv`, the shape of the rows, and lemmas on `ORDER BY ... LIMIT`: the n newest of a finite set exist, and a newest one is newer than all |
| | `NewestBuildIsRead` | `Spec => []NewestBuildIsWhole` | a complete build has as many rows as artifacts (`RowsOfBuild`, a bijection), and as many rows of a finite set that are newer than the rest are what `LIMIT` takes (`TopAreNewer`) |
| | `NodesListedOnce` | `Spec => []AuthorizedOnce` | the same: any choice of a newest row per node lists the node once |
| | `ConfirmationIsBuilt` | `Transactions` implies `[]ConfirmedWasBuilt` of `Verification` | with `Kept`: a build that has ended is not active, so its result stays |
| | `AnswersFinal` | `Transactions` implies `AnsweredOnce` | `Kept`: calls that are collected or verified all wait, and no call is in two places |
| | `AuthorityTypes`, `CompletenessRequiresMost` | `[]TypeOK` of `Authority`; `FinitelyMany` implies `[]CompleteByMost` | arithmetic of the threshold |
| | `OneMessageComplete` | `FinitelyMany` and `MostHonest` imply `Spec => []OneComplete` | two complete messages have an honest signer in common |
| `StorageProofs` | `ProvidersAlwaysHaveIt`, `PeerIsIdleOrLowest`, `WholeFilesStay` | `[]ProvidersHaveIt`, `[]IdleOrLowest`, `WholeStays` of `Artifacts` | `ArtInv`: a file is written by the one call that created it, nothing is elsewhere before the builder has stored it, and a provider is the builder or was stopped |
| | `StoredConfigValid` | `Entries` implies `[]StoredIsValid` of `CliConfig` | `ConfigInv`: every configuration a process has in hand is in range, also what the user gave once it was accepted |
| | `MessagesReadWhole` | `WellFormed` implies `[]ReadIsWritten` of `Codecs` | `CodecInv`: what was read is a prefix of each field, and the rest of the stream is in the inbox and on the wire, in order |
| | `ArrivedMessagesRead` | `WellFormed` and `Repeating` imply `[]ArrivedIsRead` of `Codecs` | from `CodecInv`: a reader that reads on ends with an error only when the connection is cut or a field is too long |
| | `StartTypes` | `Bounded` implies `[]TypeOK` of `NodeStart` | with the key in hand between loading and use |
| | `SameIdentity`, `GenesisByPeer` | `FileWorks` implies `[]IdentityKept` and `[]CommitterIsPeer` | `FileIsIdentity`: once the p2p network has the key pair, the file holds it |
| `NodeApiProofs` | `PullsAreServed` | `PulledOnceBuilt` of `NodeApi` | `ApiTypes` (requests, answers and builds are about packages of the registries), `Recorded` (what a build has recorded is logged), and a chain of lemmas about names: `docker_package_id` of an image, then `artifact_specific_ids` of its build, give what `manifest_artifact_id` and `blob_artifact_id` compose from the path; the same for Maven with separators replaced |

### Assumptions

`LedgerAssumption`, `TornAssumption`, `PeerLoopAssumption`, `EventLoopsAssumption`, `BuildsAssumption`,
`TransparencyLogAssumption`, `ArtifactsAssumption` and `NodeApiAssumption` give the constants
their types, and `PullsAssumption` is described with `NodeApi`; TLC evaluates them in the runs. `WellFormed`
(which `CodecsAssumption` says of the constants of `Codecs`), `Transactions`, `Bounded`, `Entries` and
`FinitelyMany` are types as well. The others restrict what is claimed:

- `SingleWriter`: only the first node adds payloads, and no write of a running node fails; kills in the middle of
  a write remain. Both parts are needed: `fork` and `LedgerDiskGap` are what happens without them.
- `RoomForAll`: main's channel has a slot for each message, and the build loop's for each message and each task. With
  fewer the loops may wait for each other: `LoopsFull`. `NoCycleWithFreeSlots` needs no such assumption and
  says that a full channel of main or of the build loop is the only way to get there.
- `Repeating`: the codecs that read until they have all of a field. The metric is read with a single read.
- `FileWorks`: the key file can be read and written. `MostHonest`: more than two thirds of the authorities sign one
  message only.

### Along which lines

Few of the invariants are inductive alone, and what they lack is mostly about things on their way. In the ledger
a chain can be extended from the gossip or a pull, so what is on its way has to be constrained as well (`Known`
collects it); `StepKinds` shows once that a step does one of six things to chains and files, and the
invariants are proved over these six. In the p2p loop that an outcome finds its sender follows only from the agreement
of map and libp2p, and that a dial is watched by its own caller from a sender's being in one place. In the builds the
broadcast of one artifact needs to know of all of them. A whole file stays whole because nobody but its creator writes
a file, which is a fact about all calls of a node. A codec is right because
nothing is lost between wire, inbox and reader. That the rank of the loops excludes cycles is a property of the scripts
alone; the counting is needed only because the p2p loop sends to main, and the build loop to itself.

### Only model-checked

- Liveness under fairness, which is beyond this prover: `PullTerminates`, `CatchesUp`, `StaysIndexed`, `CallsReturn`,
  `TasksReturn`, `MainReturns`, `BuildsEnd`, `ServedUnlessTorn`, `ReaderEnds`, and in the further configurations
  `EventuallyServed`, `StartedIsAnswered` and `PullServed`.
- `WaitingKeptOnce` and `VerifiesWholePackage` of `Verification`, and `EditKeepsRest` of `CliConfig`, in further
  configurations.

Every other property of a passing run has its theorem. `Verification`, `NodeStart`, `CliConfig` and `Authority`
have theorems and a configuration each, and no run.

## 5. Mutants

Each property of a run has a mutant, an operator next to the definition it alters, that is a plausible slip
in the code: a dropped guard on the ordinal, a save left out, a request without a timeout, a sender that is
not kept, an error that is only logged, a directory left behind, a query that reads its first row
twice, a single read for a whole field, an artifact named by the tag and not by the image. With it
in place TLC finds the property violated.

## 6. Where code and documents disagree

The first is a run. The others are found by the configuration named, changed as said.

| configuration | property | what happens | what is said |
|---|---|---|---|
| `LedgerFork` (run `fork`) | `HashLinked` | two nodes that add payloads build on different parents, and a chain takes blocks of both | `chain.rs:29`: the sequence is "guaranteed by the hash and parent hash" |
| `LedgerDiskGap` | `HashLinked` | a failed save leaves a gap in the files which later blocks and a restart turn into a chain that is not linked | the same |
| `LedgerStaleBoot` | `StaysIndexed` | a node that boots from a peer one block behind never gets that block, nor later ones | architecture document, line 432: the log "is kept up-to-date while running" |
| `LedgerFirstIndex` | `FirstIndexed` | a stop between block and row is never repaired on the first node | line 429: "up-to-date when I boot" |
| `LoopsFull` | `TasksReturn` | with main's channel full the p2p loop waits for main, main for the blockchain loop, and that for an answer only the p2p loop can deliver | `p2p.rs:104`: the client "can now safely return to the application" |
| `PeerLate` | `ConnectionStillOpen` | the answer to a requester that has left ends the p2p loop | `event_loop.rs:804`: "Connection to peer to be still open." |
| `PeerCalls` | `BootstrapPending` | a lookup of a bootstrap times out with others remaining; its caller is answered, libp2p goes on under the same query id, and the last report ends the p2p loop | `event_loop.rs:298`, `315`: "Completed query to be previously pending." |
| `PeerCalls` | `StoreHasRoom` | the store has its maximum of provided keys and one more is announced | `event_loop.rs:769`: "No store error." |
| `PeerCalls`, only `AddProbe`, fault `"incoming"` | `ProbeBootstraps` | a peer that is connected already is not dialled, and the call never returns | `client.rs:96`: "the kademlia DHT will be bootstrapped" |
| `BuildsDuplicated` | `NoDuplicatedBuilds` | two requests pass the check before either is recorded | `artifact_service/service.rs:102`: "prevent duplicated builds" |
| the same, fault `"db"` | `ExistsIsComplete` | the rows of a recording that failed half-way make the package count as built | `build_service/error.rs:33`: "Artifact already exists. Fresh build not required" |
| `VerifyTwice` | `VerifiesWholePackage` | a transaction sent twice completes the count | `verification_service/service.rs:78`: "When all verification info for a single package has been collected" |
| `LogRebuilt` | `LastIsWhole` | while the rows of two builds of one package share a timestamp or the newer build is not complete, the two are mixed | `log.rs:517`: "then we try to get all records" |
| the same, `NumArtifacts = 1` | `GetsLatest` | `get_artifact` gives the oldest log | `log.rs:287`: "Gets the latest transparency log" |
| `LogQueries` | `NodeAddedOnce` | two additions of a node both find no row | `log.rs:347`: "Verifies that the database does not contain the node yet" |
| `ArtifactsTorn`; also with only the fault `"disk"` | `EventuallyServed` | a node that is killed, or whose disk fails, while it stores an artifact finds the torn file from then on, refuses it and asks nobody | `artifact_service/service.rs:246`: "will try to fetch the artifact from the p2p network" |
| `CodecsPieces`, `Messages <- Metric` | `ArrivedIsRead` | a metric that arrives in two pieces is refused | `idle_metric_protocol.rs:85`: "reads the peer metric from the peer" |
| `ApiRequests` | `CommandsUnderstood` | the maven build command posts to the docker route | `parser.rs:47`: "Request a new build for a maven artifact" |
| `StartKept`, fault `"read"` | `IdentityKept` | any error of reading the key file replaces it | `keypair_util.rs:70`: "If a keypair file does not yet exist" |
| `StartKept`, fault `"write"` | `CommitterIsPeer` | a key pair that could not be saved is the peer's, and the genesis block gets another | `header.rs:94`: "the committer node's PeerId" |

`request_build` maps every error of the check against the log to `ArtifactAlreadyExists`, and the route
answers 302. No property is stated about that answer.

## 7. Not modelled

- The removal of artifacts and authorized nodes: the operations exist and write nothing.
- Hashing, signing, key formats: wrappers of libraries; a hash or a signature is a value.
- libp2p itself: PeerLoop has what the node sees of it. That gossipsub does not publish a message again
  which it remembers is a failed publication in `Builds` and `Ledger`.
- The load figure of a node: a number read from the operating system, an input of `Artifacts`.
- Some details inside modelled operations. In `TransparencyLog` all builds have `NumArtifacts` artifacts. In `Artifacts`
  the builder's announcement succeeds; one that fails is in `Builds`. In `NodeApi` an authorization is one step, whose
  halves are in `TransparencyLog` and `Ledger`, and the id of a build is its place in a list.
  `HandleBlockAdded` of `Ledger` takes the lookup and the insertion of `write_if_not_exists` as one step.
  `EndMessage` of `Codecs` leaves out that a field which is no UTF-8 or names no package type ends the reader with a
  panic (`build_protocol.rs:66`, `67`, `74`). `CollectTransaction` of `Verification` is about logs with a package type
  (`verification_service/service.rs:124`). Recording an authority a second time with another key is not in
  `Authority`, where an authority has one key.
- The contents of mappings and of the pipeline's JSON; parsing of arguments and environment; logging; the
  texts of errors.
- Two components in one state space, other than in `Ledger` (chain, files, database, gossip, boot) and
  `Builds` (loop, pollers, log, storage, DHT, blockchain). What connects the others is `EventLoops`, which has
  the waiting and not the data.
