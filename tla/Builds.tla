------------------------------- MODULE Builds -------------------------------
(***************************************************************************)
(* The builds of an authorized node: the requests for a build (from its     *)
(* HTTP API, from peers, and for the verification of somebody's build), the *)
(* build event loop with the build service, the pollers of the build        *)
(* pipeline, and the recording of the artifacts of a finished build in the  *)
(* transparency log, the artifact storage, the DHT and the blockchain.      *)
(*                                                                         *)
(* The build loop handles one event at a time.  Recording a result takes    *)
(* several steps, between which other tasks run and the node may stop.      *)
(***************************************************************************)
EXTENDS Naturals, Sequences, FiniteSets

CONSTANTS
  Packages,       \* packages that can be built
  NumArtifacts,   \* per package the number of artifacts its build gives
  Requests,       \* requests for a build, each made once
  RequestKind,    \* per request where it comes from, see RequestKinds
  RequestPackage, \* per request the package to build
  Authorized,     \* the authorized nodes in the log: "self", "other"
  BuildIds,       \* bound: the builds the pipeline can start
  Faults          \* what may go wrong, see FaultKinds

RequestKinds ==
  { "local",        \* ArtifactService::request_build, from the HTTP API
    "peer",         \* PyrsiaEvent::RequestBuild
    "leader",       \* PyrsiaEvent::VerifyBuild, from an authorized node
    "stranger"      \* the same from a node that is not
  }

FaultKinds ==
  { "publish",   \* the gossip of the verification request fails
    "pipeline",  \* mapping or pipeline service fail, or the build does
    "disk",      \* writing under the node's directory fails
    "db",        \* writing a row fails
    "p2p",       \* the artifact cannot be provided
    "chain",     \* the blockchain refuses a payload
    "crash"      \* the process stops
  }

FromSource == {"local", "peer"}

ASSUME BuildsAssumption ==
  /\ NumArtifacts \in [Packages -> Nat \ {0}]
  /\ RequestKind \in [Requests -> RequestKinds]
  /\ RequestPackage \in [Requests -> Packages]
  /\ Authorized \subseteq {"self", "other"}
  /\ Faults \subseteq FaultKinds
  /\ BuildIds \cap Requests = {}

VARIABLES
  request,   \* per request how far it is
  events,    \* the channel of the build loop: <<kind, request or build>>
  build,     \* per build its request, its stage and its directory, see Dirs
  recording, \* the result being recorded: build, artifact and next step; or Idle
  rows,      \* the AddArtifact rows in the database: <<build, artifact>>
  files,     \* artifact files: <<build, artifact>>
  provided,  \* artifacts announced in the DHT
  ledger     \* artifacts whose payload is in the blockchain

storeVars == <<rows, files, provided, ledger>>
vars == <<request, events, build, recording, rows, files, provided, ledger>>

\* The directory of a build: not there; there; there for good, its removal having failed.
Dirs == {"none", "there", "stuck"}

Idle == [build |-> "none", artifact |-> 0, step |-> "idle"]

Init ==
  /\ request = [r \in Requests |-> "new"]
  /\ events = <<>>
  /\ build = [b \in BuildIds |-> [request |-> "none", stage |-> "unused", dir |-> "none"]]
  /\ recording = Idle
  /\ rows = {} /\ files = {} /\ provided = {} /\ ledger = {}

PackageOf(b) == RequestPackage[build[b].request]
Artifacts(b) == 1 .. NumArtifacts[PackageOf(b)]
Logged(p) == \E x \in rows : PackageOf(x[1]) = p

Put(kind, id) == events' = Append(events, <<kind, id>>)
SetStage(b, stage) == build' = [build EXCEPT ![b].stage = stage]
SetRequest(r, stage) == request' = [request EXCEPT ![r] = stage]

-----------------------------------------------------------------------------
(* Requests                                                                *)

\* ArtifactService::request_build up to the choice of the node.  A package with
\* any row in the log, complete or not, counts as present.
RequestBuild(r) ==
  /\ request[r] = "new"
  /\ RequestKind[r] = "local"
  /\ SetRequest(r, CASE Authorized = {} -> "error"
                     [] Authorized # {} /\ Logged(RequestPackage[r]) -> "exists"
                     [] "self" \in Authorized /\ ~Logged(RequestPackage[r]) -> "checked"
                     [] OTHER -> "forwarded")
  /\ UNCHANGED <<events, build, recording, storeVars>>

\* BuildEventClient::start_build of a request that was checked, and the requests
\* of peers, which are not.
StartBuild(r) ==
  /\ request[r] = IF RequestKind[r] = "local" THEN "checked" ELSE "new"
  /\ SetRequest(r, "starting")
  /\ Put("Start", r)
  /\ UNCHANGED <<build, recording, storeVars>>

-----------------------------------------------------------------------------
(* The build loop                                                          *)

LoopTakes(kind, id) ==
  /\ recording = Idle
  /\ events # <<>>
  /\ Head(events) = <<kind, id>>

\* A leader that is not an authorized node of the log.
Unauthorized(r) ==
  RequestKind[r] = "stranger" \/ (RequestKind[r] = "leader" /\ "other" \notin Authorized)

\* get_mapping: no answer, not a success, or not the mapping of the package.
get_mapping_fails == "pipeline" \in Faults

\* PipelineService::start_build, get_build_status, download_artifact: no answer, or
\* one that is not a success or does not parse.
pipeline_fails == "pipeline" \in Faults

\* BuildService::start_build fails: publishing, the authorization of the leader,
\* mapping or pipeline service.
StartFails(r) ==
  /\ LoopTakes("Start", r)
  /\ \/ "publish" \in Faults /\ RequestKind[r] \in FromSource
     \/ Unauthorized(r)
     \/ get_mapping_fails \/ pipeline_fails
  /\ events' = Tail(events)
  /\ SetRequest(r, "error")
  /\ UNCHANGED <<build, recording, storeVars>>

\* BuildService::start_build: the pipeline gives the build an id, and a task is
\* spawned that polls its status.
StartSucceeds(r) ==
  /\ LoopTakes("Start", r)
  /\ ~Unauthorized(r)
  /\ \E b \in BuildIds :
       /\ build[b].stage = "unused"
       /\ build' = [build EXCEPT ![b] = [request |-> r, stage |-> "running", dir |-> "none"]]
  /\ events' = Tail(events)
  /\ SetRequest(r, "started")
  /\ UNCHANGED <<recording, storeVars>>

\* Mutant: the event of a build that succeeded is not sent.
PollSuccessUnsent(b) ==
  /\ build[b].stage = "running"
  /\ SetStage(b, "built")
  /\ UNCHANGED <<request, events, recording, storeVars>>

\* The poller sees the status Success.
PollSuccess(b) ==
  /\ build[b].stage = "running"
  /\ SetStage(b, "built")
  /\ Put("Succeeded", b)
  /\ UNCHANGED <<request, recording, storeVars>>

\* Mutant: the poller stops without a word when the pipeline cannot be reached.
PollFailureSilent(b) ==
  /\ pipeline_fails
  /\ build[b].stage = "running"
  /\ \/ SetStage(b, "failing") /\ Put("Failed", b)
     \/ SetStage(b, "unwatched") /\ UNCHANGED events
  /\ UNCHANGED <<request, recording, storeVars>>

\* The poller sees the status Failure, or gets an error.
PollFailure(b) ==
  /\ pipeline_fails
  /\ build[b].stage = "running"
  /\ SetStage(b, "failing")
  /\ Put("Failed", b)
  /\ UNCHANGED <<request, recording, storeVars>>

\* clean_up_build: remove_dir_all, and a warning if that fails.
CleanedUp == {"none"} \cup (IF "disk" \in Faults THEN {"stuck"} ELSE {})

\* Mutant: the directory of a build whose artifacts cannot be had is kept.
DownloadFailsKept(b) ==
  /\ LoopTakes("Succeeded", b)
  /\ pipeline_fails \/ "disk" \in Faults
  /\ events' = Append(Tail(events), <<"Failed", b>>)
  /\ build' = [build EXCEPT ![b].stage = "failing", ![b].dir = "there"]
  /\ UNCHANGED <<request, recording, storeVars>>

\* handle_successful_build when the directory cannot be made, or one artifact
\* cannot be downloaded or stored: the event Failed, and clean_up_build.
DownloadFails(b) ==
  /\ LoopTakes("Succeeded", b)
  /\ pipeline_fails \/ "disk" \in Faults
  /\ events' = Append(Tail(events), <<"Failed", b>>)
  /\ \E d \in CleanedUp : build' = [build EXCEPT ![b].stage = "failing", ![b].dir = d]
  /\ UNCHANGED <<request, recording, storeVars>>

\* handle_successful_build with process_artifact_urls: all artifacts are in the
\* directory of the build, and the event Result goes to the loop's own channel.
Download(b) ==
  /\ LoopTakes("Succeeded", b)
  /\ events' = Append(Tail(events), <<"Result", b>>)
  /\ build' = [build EXCEPT ![b].stage = "result", ![b].dir = "there"]
  /\ UNCHANGED <<request, recording, storeVars>>

\* BuildEvent::Failed.
HandleFailed(b) ==
  /\ LoopTakes("Failed", b)
  /\ events' = Tail(events)
  /\ SetStage(b, "failed")
  /\ UNCHANGED <<request, recording, storeVars>>

\* BuildEvent::Result of a verification: VerificationService::handle_build_result
\* (module Verification), then clean_up_build.
HandleVerified(b) ==
  /\ LoopTakes("Result", b)
  /\ RequestKind[build[b].request] \notin FromSource
  /\ events' = Tail(events)
  /\ \E d \in CleanedUp : build' = [build EXCEPT ![b].stage = "verified", ![b].dir = d]
  /\ UNCHANGED <<request, recording, storeVars>>

\* BuildEvent::Result of a build from source: handle_build_result starts.
HandleResult(b) ==
  /\ LoopTakes("Result", b)
  /\ RequestKind[build[b].request] \in FromSource
  /\ events' = Tail(events)
  /\ recording' = [build |-> b, artifact |-> 1, step |-> "row"]
  /\ UNCHANGED <<request, build, storeVars>>

-----------------------------------------------------------------------------
(* ArtifactService::handle_build_result, one artifact after the other      *)

Item == <<recording.build, recording.artifact>>
At(step) == recording.step = step
LastArtifact == recording.artifact = NumArtifacts[PackageOf(recording.build)]

GoOn(artifact, step) ==
  /\ recording' = [recording EXCEPT !.artifact = artifact, !.step = step]
  /\ UNCHANGED <<request, events, build>>

\* TransparencyLogService::add_artifact.
AddArtifact ==
  /\ At("row")
  /\ rows' = rows \cup {Item}
  /\ GoOn(recording.artifact, "file")
  /\ UNCHANGED <<files, provided, ledger>>

\* put_artifact_from_build_result.
PutArtifact ==
  /\ At("file")
  /\ files' = files \cup {Item}
  /\ GoOn(recording.artifact, "provide")
  /\ UNCHANGED <<rows, provided, ledger>>

\* Mutant: what there is so far is broadcast after each artifact.
ProvideArtifactEagerly ==
  /\ At("provide")
  /\ provided' = provided \cup {Item}
  /\ ledger' = ledger \cup {Item}
  /\ IF LastArtifact THEN GoOn(1, "broadcast") ELSE GoOn(recording.artifact + 1, "row")
  /\ UNCHANGED <<rows, files>>

\* p2p_client.provide; then the next artifact, or the broadcast of all of them.
ProvideArtifact ==
  /\ At("provide")
  /\ provided' = provided \cup {Item}
  /\ IF LastArtifact THEN GoOn(1, "broadcast") ELSE GoOn(recording.artifact + 1, "row")
  /\ UNCHANGED <<rows, files, ledger>>

\* broadcast_artifacts: one payload after the other.
BroadcastArtifact ==
  /\ At("broadcast")
  /\ ledger' = ledger \cup {Item}
  /\ GoOn(recording.artifact + 1, IF LastArtifact THEN "clean" ELSE "broadcast")
  /\ UNCHANGED <<rows, files, provided>>

\* The ? after each of the calls: handle_build_result ends, the rest is not done.
AbortRecording ==
  /\ \/ At("row") /\ "db" \in Faults
     \/ At("file") /\ "disk" \in Faults
     \/ At("provide") /\ "p2p" \in Faults
     \/ At("broadcast") /\ "chain" \in Faults
  /\ GoOn(recording.artifact, "clean")
  /\ UNCHANGED storeVars

\* clean_up_build, whether the result could be recorded or not.
CleanUpBuild ==
  /\ At("clean")
  /\ \E d \in CleanedUp :
       build' = [build EXCEPT ![recording.build].stage = "recorded", ![recording.build].dir = d]
  /\ recording' = Idle
  /\ UNCHANGED <<request, events, storeVars>>

\* The process stops and starts again: tasks, channels and pollers are gone.
Restart ==
  /\ "crash" \in Faults
  /\ request' = [r \in Requests |-> IF request[r] \in {"checked", "starting"} THEN "error" ELSE request[r]]
  /\ events' = <<>>
  /\ build' = [b \in BuildIds |->
                 IF build[b].stage \in {"running", "built", "failing", "result"}
                 THEN [build[b] EXCEPT !.stage = "lost"] ELSE build[b]]
  /\ recording' = Idle
  /\ UNCHANGED storeVars

-----------------------------------------------------------------------------
LoopStep ==
  \/ \E r \in Requests : StartFails(r) \/ StartSucceeds(r)
  \/ \E b \in BuildIds :
       DownloadFails(b) \/ Download(b) \/ HandleFailed(b) \/ HandleVerified(b) \/ HandleResult(b)
  \/ AddArtifact \/ PutArtifact \/ ProvideArtifact \/ BroadcastArtifact
  \/ AbortRecording \/ CleanUpBuild

Poll(b) == PollSuccess(b) \/ PollFailure(b)

Next ==
  \/ \E r \in Requests : RequestBuild(r) \/ StartBuild(r)
  \/ LoopStep
  \/ \E b \in BuildIds : Poll(b)
  \/ Restart

Spec == Init /\ [][Next]_vars

\* The loop goes on, tasks are run, and the pipeline ends every build.
FairSpec ==
  /\ Spec
  /\ WF_vars(LoopStep)
  /\ \A r \in Requests : WF_vars(StartBuild(r))
  /\ \A b \in BuildIds : WF_vars(Poll(b))

-----------------------------------------------------------------------------
(* Properties                                                              *)

Settled == {"recorded", "verified", "failed", "lost"}
RecordItems == {<<b, k>> : b \in {b \in BuildIds : build[b].stage # "unused"},
                           k \in UNION {Artifacts(b) : b \in {b \in BuildIds : build[b].stage # "unused"}}}

TypeOK ==
  /\ request \in [Requests -> {"new", "checked", "starting", "started", "exists", "forwarded", "error"}]
  /\ events \in Seq(({"Start"} \X Requests) \cup ({"Succeeded", "Failed", "Result"} \X BuildIds))
  /\ build \in [BuildIds ->
       [request : Requests \cup {"none"}, dir : Dirs,
        stage : {"unused", "running", "built", "failing", "result"} \cup Settled]]
  /\ recording.step \in {"idle", "row", "file", "provide", "broadcast", "clean"}
  /\ rows \cup files \cup provided \cup ledger \subseteq RecordItems

\* Nothing of a package reaches the blockchain before all its artifacts are in
\* the log, stored and provided, whatever fails or stops in between.
BroadcastComplete ==
  \A x \in ledger : \A k \in Artifacts(x[1]) : <<x[1], k>> \in rows \cap files \cap provided

\* clean_up_build is called however a build ends: the directory of a build that has
\* ended is gone, or its removal was tried and failed; only a process that stops
\* leaves a directory nobody tried to remove.
DirectoriesRemoved ==
  \A b \in BuildIds : build[b].dir = "there" => build[b].stage \in {"result", "lost"}

\* Every build that runs is waited for: there is one event for it in the channel,
\* or a poller, or it is being recorded.
BuildTracked ==
  \A b \in BuildIds :
    build[b].stage \in {"built", "failing", "result"} =>
      \/ recording.build = b
      \/ Cardinality({k \in 1 .. Len(events) : events[k][2] = b}) = 1

\* Every build that was started comes to an end, also when the pipeline, the disk
\* or the network fail.
BuildsEnd == \A b \in BuildIds : build[b].stage = "running" ~> build[b].stage \in Settled

\* The comment "prevent duplicated builds": a package is recorded from one build.
NoDuplicatedBuilds ==
  \A x, y \in rows : PackageOf(x[1]) = PackageOf(y[1]) => x[1] = y[1]

\* "Artifact already exists. Fresh build not required": a package that is refused
\* for this reason has all its artifacts in the log and in the storage, or soon will.
ExistsIsComplete ==
  \A r \in Requests : request[r] = "exists" =>
    \E b \in BuildIds :
      /\ build[b].stage # "unused" /\ PackageOf(b) = RequestPackage[r]
      /\ \/ recording.build = b
         \/ \A k \in Artifacts(b) : <<b, k>> \in rows \cap files
=============================================================================
