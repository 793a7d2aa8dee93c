--------------------------- MODULE NodeApiProofs ----------------------------
(***************************************************************************)
(* Proofs about NodeApi: for any number of requests, what a build recorded *)
(* is found under the names by which Docker and Maven ask for it.          *)
(***************************************************************************)
EXTENDS NodeApi, TLAPS

\* A leaf without a pragma is tried with Z3, then with Zenon.
USE SMTT(30), ZenonT(30)

-----------------------------------------------------------------------------
(* Tasks, requests and builds                                              *)

PackageTypes == {"Docker", "Maven2"}
BuildsOf(artifacts) ==
  [type : PackageTypes, package : DOMAIN Urls, status : {"Running", "Success", "Failure"},
   recorded : SUBSET artifacts]
AllArtifacts ==
  UNION {Range(artifact_specific_ids(t, p, u)) :
           t \in PackageTypes, p \in DOMAIN Urls, u \in UNION {Urls[q] : q \in DOMAIN Urls}}

\* The shape of a task and of a request.
Shape(c) ==
  /\ task[c] = [stage |-> task[c].stage, type |-> task[c].type, package |-> task[c].package]
  /\ task[c].type \in PackageTypes
  /\ call[c] = [stage |-> call[c].stage, command |-> call[c].command, reply |-> call[c].reply]
  /\ call[c].stage \in {"asked", "building", "done"} => call[c].command \in Commands

ApiTypes ==
  /\ builds \in Seq(BuildsOf(AllArtifacts))
  /\ DOMAIN task = Clients /\ DOMAIN call = Clients
  /\ \A c \in Clients : Shape(c)

\* What a handler does that does not wait for a build.
Answers(c) ==
  /\ \E reply : Reply(c, reply)
  /\ task' = task \/ \E type \in PackageTypes : \E package : StartTask(c, type, package)
  /\ UNCHANGED <<logs, builds>>

\* The fields of a task and of a request.
LEMMA TaskRecord ==
  ASSUME NEW stage, NEW type \in PackageTypes, NEW package,
         NEW t, t = [stage |-> stage, type |-> type, package |-> package]
  PROVE  /\ t.stage = stage /\ t.type \in PackageTypes /\ t.package = package
         /\ t = [stage |-> t.stage, type |-> t.type, package |-> t.package]
OBVIOUS

LEMMA CallRecord ==
  ASSUME NEW stage, NEW command, NEW reply,
         NEW k, k = [stage |-> stage, command |-> command, reply |-> reply]
  PROVE  /\ k.stage = stage /\ k.command = command /\ k.reply = reply
         /\ k = [stage |-> k.stage, command |-> k.command, reply |-> k.reply]
OBVIOUS

\* Every handler but those of the build routes answers at once.
LEMMA HandlersAnswer ==
  ASSUME NEW c \in Clients, Handle(c) \/ Lost(c)
  PROVE  Answers(c) \/ handle_build_docker(c) \/ handle_build_maven(c)
<1>a. ASSUME NEW reply, Reply(c, reply), task' = task, UNCHANGED <<logs, builds>>
      PROVE  Answers(c)
  BY <1>a, Zenon DEF Answers
<1>b. ASSUME NEW type, NEW artifact, Serves(c, type, artifact), UNCHANGED <<logs, builds>>
      PROVE  Answers(c)
  BY <1>a, <1>b, Zenon DEF Serves
<1>c. ASSUME NEW type \in PackageTypes, NEW package, NEW artifact, NEW error,
             get_artifact_or_build(c, type, package, artifact, error),
             UNCHANGED <<logs, builds>>
      PROVE  Answers(c)
  <2>1. CASE Serves(c, type, artifact)
    BY <1>b, <1>c, <2>1, Zenon
  <2>2. CASE StartTask(c, type, package) /\ Reply(c, Rejected(error))
    BY <1>c, <2>2, Zenon DEF Answers
  <2> QED
    BY <1>c, <2>1, <2>2, Zenon DEF get_artifact_or_build
<1>1. CASE handle_add_authorized_node(c)
  BY <1>1, <1>a, Zenon DEF handle_add_authorized_node
<1>2. CASE handle_build_status(c)
  BY <1>2, <1>a, Zenon DEF handle_build_status, get_build_status
<1>3. CASE handle_get_peers(c) \/ handle_get_status(c)
  BY <1>3, <1>a, Zenon DEF handle_get_peers, handle_get_status
<1>4. ASSUME NEW path, NEW field, NEW type, NEW package, Inspect(c, path, field, type, package)
      PROVE  Answers(c)
  BY <1>4, <1>a, Zenon DEF Inspect, search_transparency_logs
<1>5. CASE handle_inspect_log_docker(c) \/ handle_inspect_log_maven(c)
  BY <1>4, <1>5, Zenon DEF handle_inspect_log_docker, handle_inspect_log_maven
<1>6. CASE v2_base(c)
  BY <1>6, <1>a, Zenon DEF v2_base
<1>7. CASE fetch_manifest_or_build(c) \/ handle_get_blobs(c)
  <2>1. \E id, error : get_artifact_or_build(c, "Docker", id, id, error)
    BY <1>7, Zenon DEF fetch_manifest_or_build, handle_get_blobs
  <2>2. UNCHANGED <<logs, builds>>
    BY <1>7, Zenon DEF fetch_manifest_or_build, handle_get_blobs
  <2>3. "Docker" \in PackageTypes
    BY DEF PackageTypes
  <2> QED
    BY <1>c, <2>1, <2>2, <2>3, Zenon
<1>8. CASE fetch_manifest(c)
  <2>1. PICK id : \/ Serves(c, "Docker", id)
                  \/ Reply(c, Rejected("ManifestUnknown")) /\ task' = task
    BY <1>8, Zenon DEF fetch_manifest
  <2>2. UNCHANGED <<logs, builds>>
    BY <1>8, Zenon DEF fetch_manifest
  <2> QED
    BY <1>a, <1>b, <2>1, <2>2, Zenon
<1>9. CASE handle_get_maven_artifact(c)
  <2>1. \/ \E package, artifact :
             get_artifact_or_build(c, "Maven2", package, artifact, "Anyhow")
        \/ Reply(c, Rejected("InvalidPath")) /\ task' = task
    BY <1>9, Zenon DEF handle_get_maven_artifact
  <2>2. UNCHANGED <<logs, builds>>
    BY <1>9, Zenon DEF handle_get_maven_artifact
  <2>3. "Maven2" \in PackageTypes
    BY DEF PackageTypes
  <2> QED
    BY <1>a, <1>c, <2>1, <2>2, <2>3, Zenon
<1>10. ASSUME NEW path, NEW field, RejectBody(c, path, field) PROVE Answers(c)
  BY <1>10, <1>a, Zenon DEF RejectBody
<1>11. CASE Lost(c)
  BY <1>11, <1>a, Zenon DEF Lost
<1> QED
  BY <1>1, <1>2, <1>3, <1>5, <1>6, <1>7, <1>8, <1>9, <1>10, <1>11, Zenon DEF Handle

\* What an answer to one client, and a new task for it, change.
LEMMA OneChanged ==
  ASSUME ApiTypes, NEW c \in Clients,
         \/ call' = call
         \/ \E reply : Reply(c, reply)
         \/ AwaitTask(c)
         \/ \E new : call' = [call EXCEPT ![c] = new],
         \/ task' = task
         \/ \E new : task' = [task EXCEPT ![c] = new]
  PROVE  /\ DOMAIN task' = Clients /\ DOMAIN call' = Clients
         /\ \A d \in Clients \ {c} : task'[d] = task[d] /\ call'[d] = call[d]
<1>1. DOMAIN task' = Clients /\ \A d \in Clients \ {c} : task'[d] = task[d]
  BY DEF ApiTypes
<1>2. DOMAIN call' = Clients /\ \A d \in Clients \ {c} : call'[d] = call[d]
  BY DEF ApiTypes, Reply, AwaitTask
<1> QED
  BY <1>1, <1>2

\* What an answer is.
LEMMA Replied ==
  ASSUME ApiTypes, NEW c \in Clients, NEW reply, Reply(c, reply)
  PROVE  call'[c] = [stage |-> "done", command |-> call[c].command, reply |-> reply]
<1>1. call' = [call EXCEPT ![c] = [[call[c] EXCEPT !.stage = "done"] EXCEPT !.reply = reply]]
  BY Zenon DEF ApiTypes, Reply
<1>2. call'[c] = [[call[c] EXCEPT !.stage = "done"] EXCEPT !.reply = reply]
  BY <1>1 DEF ApiTypes
<1>3. call[c] = [stage |-> call[c].stage, command |-> call[c].command, reply |-> call[c].reply]
  BY DEF ApiTypes, Shape
<1> QED
  BY <1>2, <1>3, Zenon

\* A step for one client keeps the types when it does for that client.
LEMMA StepFor ==
  ASSUME ApiTypes, NEW c \in Clients, builds' \in Seq(BuildsOf(AllArtifacts)),
         \/ call' = call
         \/ \E reply : Reply(c, reply)
         \/ AwaitTask(c)
         \/ \E new : call' = [call EXCEPT ![c] = new],
         \/ task' = task
         \/ \E new : task' = [task EXCEPT ![c] = new],
         Shape(c)'
  PROVE  ApiTypes'
<1>1. /\ DOMAIN task' = Clients /\ DOMAIN call' = Clients
      /\ \A d \in Clients \ {c} : task'[d] = task[d] /\ call'[d] = call[d]
  BY OneChanged, Zenon
<1>2. ASSUME NEW d \in Clients, d # c PROVE Shape(d)'
  <2>1. task'[d] = task[d] /\ call'[d] = call[d]
    BY <1>1, <1>2, Zenon
  <2>2. Shape(d)
    BY Zenon DEF ApiTypes
  <2> QED
    BY <2>1, <2>2, Zenon DEF Shape
<1> QED
  BY <1>1, <1>2, Zenon DEF ApiTypes

\* The shape of a request after an answer, and of a task after its start.
LEMMA AnsweredShape ==
  ASSUME ApiTypes, NEW c \in Clients, NEW reply, Reply(c, reply),
         call[c].stage \in {"asked", "building"},
         \/ task' = task
         \/ \E stage, package : \E type \in PackageTypes :
              task' = [task EXCEPT ![c] = [stage |-> stage, type |-> type, package |-> package]]
  PROVE  Shape(c)'
<1>0. Shape(c) /\ DOMAIN task = Clients
  BY Zenon DEF ApiTypes
<1>1. call'[c] = [stage |-> "done", command |-> call[c].command, reply |-> reply]
  BY Replied, Zenon
<1>2. call[c].command \in Commands
  BY <1>0, Zenon DEF Shape
<1>3. task'[c] = [stage |-> task'[c].stage, type |-> task'[c].type, package |-> task'[c].package]
      /\ task'[c].type \in PackageTypes
  <2>1. CASE task' = task
    BY <1>0, <2>1, Zenon DEF Shape
  <2>2. ASSUME NEW stage, NEW package, NEW type \in PackageTypes,
               task' = [task EXCEPT ![c] = [stage |-> stage, type |-> type, package |-> package]]
        PROVE  /\ task'[c].type \in PackageTypes
               /\ task'[c] = [stage |-> task'[c].stage, type |-> task'[c].type,
                              package |-> task'[c].package]
    <3>1. task'[c] = [stage |-> stage, type |-> type, package |-> package]
      BY <1>0, <2>2
    <3> QED
      BY <3>1, TaskRecord
  <2> QED
    BY <2>1, <2>2
<1>4. /\ call'[c].stage = "done" /\ call'[c].command = call[c].command
      /\ call'[c] = [stage |-> call'[c].stage, command |-> call'[c].command,
                     reply |-> call'[c].reply]
  BY <1>1, CallRecord
<1> QED
  BY <1>2, <1>3, <1>4, ZenonT(30) DEF Shape

LEMMA AnswersKeep ==
  ASSUME ApiTypes, NEW c \in Clients, call[c].stage = "asked", Answers(c)
  PROVE  ApiTypes'
<1>1. PICK reply : Reply(c, reply)
  BY DEF Answers
<1>2. \/ task' = task
      \/ \E stage, package : \E type \in PackageTypes :
           task' = [task EXCEPT ![c] = [stage |-> stage, type |-> type, package |-> package]]
  BY Zenon DEF Answers, StartTask
<1>3. Shape(c)'
  BY <1>1, <1>2, AnsweredShape, ZenonT(30)
<1>4. task' = task \/ \E new : task' = [task EXCEPT ![c] = new]
  BY <1>2, Zenon
<1>5. builds' \in Seq(BuildsOf(AllArtifacts))
  BY Zenon DEF Answers, ApiTypes
<1> QED
  BY <1>1, <1>3, <1>4, <1>5, StepFor, Zenon

\* The build routes: the request waits for a task.
LEMMA AwaitKeeps ==
  ASSUME ApiTypes, NEW c \in Clients,
         handle_build_docker(c) \/ handle_build_maven(c)
  PROVE  ApiTypes'
<1>1. /\ Shape(c) /\ DOMAIN task = Clients /\ DOMAIN call = Clients
      /\ call[c].stage = "asked"
  BY ZenonT(30) DEF ApiTypes, handle_build_docker, handle_build_maven, Incoming
<1>2. call[c].command \in Commands
  BY <1>1, Zenon DEF Shape
<1>3. PICK type \in PackageTypes : \E package : StartTask(c, type, package)
  <2>1. "Docker" \in PackageTypes /\ "Maven2" \in PackageTypes
    BY DEF PackageTypes
  <2> QED
    BY <2>1, Zenon DEF handle_build_docker, handle_build_maven
<1>4. PICK package : task'[c] = [stage |-> "check", type |-> type, package |-> package]
  BY <1>1, <1>3, Zenon DEF StartTask
<1>5. call'[c] = [stage |-> "building", command |-> call[c].command, reply |-> call[c].reply]
  <2>1. call'[c] = [call[c] EXCEPT !.stage = "building"]
    BY <1>1 DEF handle_build_docker, handle_build_maven, AwaitTask
  <2> QED
    BY <1>1, <2>1 DEF Shape
<1>6. Shape(c)'
  <2>1. /\ task'[c].type \in PackageTypes
        /\ task'[c] = [stage |-> task'[c].stage, type |-> task'[c].type,
                       package |-> task'[c].package]
    BY <1>3, <1>4, TaskRecord
  <2>2. /\ call'[c].command = call[c].command
        /\ call'[c] = [stage |-> call'[c].stage, command |-> call'[c].command,
                       reply |-> call'[c].reply]
    BY <1>5, CallRecord
  <2> QED
    BY <1>2, <2>1, <2>2, Zenon DEF Shape
<1>7. AwaitTask(c) /\ \E new : task' = [task EXCEPT ![c] = new]
  BY <1>3, Zenon DEF handle_build_docker, handle_build_maven, StartTask
<1>8. builds' \in Seq(BuildsOf(AllArtifacts))
  BY Zenon DEF handle_build_docker, handle_build_maven, ApiTypes
<1> QED
  BY <1>6, <1>7, <1>8, StepFor, Zenon

\* A client gives a command, or shows the answer.
LEMMA ClientKeeps ==
  ASSUME ApiTypes, NEW c \in Clients,
         (\E command \in Commands : Ask(c, command)) \/ Show(c)
  PROVE  ApiTypes'
<1>1. PICK stage, command, reply :
        /\ stage \in {"asked", "idle"}
        /\ call' = [call EXCEPT ![c] = [stage |-> stage, command |-> command, reply |-> reply]]
        /\ stage = "asked" => command \in Commands
  <2>1. ASSUME NEW command \in Commands, Ask(c, command)
        PROVE  call' = [call EXCEPT ![c] = [stage |-> "asked", command |-> command,
                                            reply |-> NoReply]]
    BY <2>1, Zenon DEF Ask
  <2>2. ASSUME Show(c)
        PROVE  call' = [call EXCEPT ![c] = [stage |-> "idle", command |-> Idle.command,
                                            reply |-> Idle.reply]]
    BY <2>2 DEF Show, Idle
  <2>3. CASE Show(c)
    BY <2>2, <2>3
  <2>4. CASE \E command \in Commands : Ask(c, command)
    BY <2>1, <2>4
  <2> QED
    BY <2>3, <2>4
<1>2. UNCHANGED <<logs, builds, task>>
  BY Zenon DEF Ask, Show
<1>3. call'[c] = [stage |-> stage, command |-> command, reply |-> reply]
  BY <1>1 DEF ApiTypes
<1>4. Shape(c)
  BY Zenon DEF ApiTypes
<1>5. Shape(c)'
  <2>1. /\ call'[c].stage = stage /\ call'[c].command = command
        /\ call'[c] = [stage |-> call'[c].stage, command |-> call'[c].command,
                       reply |-> call'[c].reply]
    BY <1>3, CallRecord
  <2>2. call'[c].stage \in {"asked", "building", "done"} => call'[c].command \in Commands
    BY <1>1, <2>1
  <2> QED
    BY <1>2, <1>4, <2>1, <2>2, Zenon DEF Shape
<1>6. builds' \in Seq(BuildsOf(AllArtifacts))
  BY <1>2, Zenon DEF ApiTypes
<1> QED
  BY <1>1, <1>2, <1>5, <1>6, StepFor, ZenonT(30)

\* request_build ends.
LEMMA EndKeeps ==
  ASSUME ApiTypes, NEW c \in Clients, NEW result, EndTask(c, result),
         builds' \in Seq(BuildsOf(AllArtifacts))
  PROVE  ApiTypes'
<1>1. Shape(c) /\ DOMAIN task = Clients
  BY Zenon DEF ApiTypes
<1>2. task' = [task EXCEPT ![c] = NoTask]
  BY Zenon DEF EndTask
<1>3. task'[c] = [stage |-> "none", type |-> "Docker", package |-> <<>>]
  BY <1>1, <1>2 DEF NoTask
<1>4. \/ call' = call
      \/ call[c].stage = "building" /\ Reply(c, BuildReply(result))
  BY ZenonT(30) DEF EndTask
<1>5. Shape(c)'
  <2>1. CASE call' = call
    <3>1. "Docker" \in PackageTypes
      BY DEF PackageTypes
    <3>2. /\ task'[c].type \in PackageTypes
          /\ task'[c] = [stage |-> task'[c].stage, type |-> task'[c].type, package |-> task'[c].package]
      BY <1>3, <3>1, TaskRecord
    <3> QED
      BY <1>1, <2>1, <3>2, Zenon DEF Shape
  <2>2. CASE call[c].stage = "building" /\ Reply(c, BuildReply(result))
    <3>1. "Docker" \in PackageTypes
      BY DEF PackageTypes
    <3>2. \E stage, package : \E type \in PackageTypes :
            task' = [task EXCEPT ![c] = [stage |-> stage, type |-> type, package |-> package]]
      BY <1>2, <3>1, Zenon DEF NoTask
    <3> QED
      BY <2>2, <3>2, AnsweredShape, Zenon
  <2> QED
    BY <1>4, <2>1, <2>2, Zenon
<1> QED
  BY <1>2, <1>4, <1>5, StepFor, Zenon

\* The task goes on to start the build.
LEMMA OnwardKeeps ==
  ASSUME ApiTypes, NEW c \in Clients, task' = [task EXCEPT ![c].stage = "start"],
         UNCHANGED <<builds, call>>
  PROVE  ApiTypes'
<1>1. Shape(c) /\ DOMAIN task = Clients /\ builds' \in Seq(BuildsOf(AllArtifacts))
  BY Zenon DEF ApiTypes
<1>2. task' = [task EXCEPT ![c] = [task[c] EXCEPT !.stage = "start"]]
  OBVIOUS
<1>3. task'[c] = [stage |-> "start", type |-> task[c].type, package |-> task[c].package]
  BY <1>1, <1>2 DEF Shape
<1>4. Shape(c)'
  BY <1>1, <1>3 DEF Shape
<1>5. \E new : task' = [task EXCEPT ![c] = new]
  BY <1>2, Zenon
<1> QED
  BY <1>1, <1>4, <1>5, StepFor, Zenon

\* request_build up to its first await.
LEMMA CheckKeeps ==
  ASSUME ApiTypes, NEW c \in Clients, CheckBuild(c)
  PROVE  ApiTypes'
<1>1. builds' = builds /\ builds' \in Seq(BuildsOf(AllArtifacts))
  BY Zenon DEF CheckBuild, ApiTypes
<1>2. CASE task' = [task EXCEPT ![c].stage = "start"] /\ call' = call
  BY <1>1, <1>2, OnwardKeeps, Zenon
<1>3. CASE \E result : EndTask(c, result)
  BY <1>1, <1>3, EndKeeps, Zenon
<1> QED
  BY <1>2, <1>3, Zenon DEF CheckBuild

\* The entry that starting a build adds to the list of builds.
LEMMA BuildRecord ==
  ASSUME NEW type \in PackageTypes, NEW package \in DOMAIN Urls, NEW artifacts
  PROVE  [type |-> type, package |-> package, status |-> "Running", recorded |-> {}]
           \in BuildsOf(artifacts)
BY DEF BuildsOf

\* request_build after it.
LEMMA StartKeeps ==
  ASSUME ApiTypes, NEW c \in Clients, StartBuild(c)
  PROVE  ApiTypes'
<1>1. builds \in Seq(BuildsOf(AllArtifacts)) /\ Shape(c)
  BY Zenon DEF ApiTypes
<1>2. \E result : EndTask(c, result)
  BY Zenon DEF StartBuild
<1>3. CASE builds' = builds
  BY <1>1, <1>2, <1>3, EndKeeps, Zenon
<1>4. CASE /\ task[c].package \in DOMAIN Urls
           /\ builds' = Append(builds, [type |-> task[c].type, package |-> task[c].package,
                                        status |-> "Running", recorded |-> {}])
  <2> DEFINE new == [type |-> task[c].type, package |-> task[c].package,
                     status |-> "Running", recorded |-> {}]
             B == BuildsOf(AllArtifacts)
  <2>1. task[c].type \in PackageTypes
    BY <1>1, ZenonT(30) DEF Shape
  <2>2. new \in B
    BY <1>4, <2>1, BuildRecord, Zenon
  <2>3. builds' = Append(builds, new) /\ builds \in Seq(B)
    BY <1>1, <1>4, Zenon
  <2> HIDE DEF B, new
  <2>4. builds' \in Seq(B)
    BY <2>2, <2>3
  <2> QED
    BY <1>2, <2>4, EndKeeps, Zenon DEF B
<1> QED
  BY <1>3, <1>4, ZenonT(30) DEF StartBuild

\* A build ends, or an artifact of it is recorded.
LEMMA ProgressKeeps ==
  ASSUME ApiTypes, NEW b \in DOMAIN builds, Progress(b)
  PROVE  ApiTypes'
<1> DEFINE artifacts == AllArtifacts
<1>1. task' = task /\ call' = call
  BY DEF Progress, PipelineEnds, RecordArtifact
<1>2. /\ builds \in Seq(BuildsOf(artifacts)) /\ b \in DOMAIN builds
      /\ builds[b] \in BuildsOf(artifacts)
  BY DEF ApiTypes
<1>3. ArtifactsOf(b) \subseteq artifacts
  <2>1. builds[b].type \in PackageTypes /\ builds[b].package \in DOMAIN Urls
    BY <1>2 DEF BuildsOf
  <2>2. ASSUME NEW a \in ArtifactsOf(b) PROVE a \in AllArtifacts
    <3>1. PICK u \in Urls[builds[b].package] :
            a \in Range(artifact_specific_ids(builds[b].type, builds[b].package, u))
      BY <2>2, Zenon DEF ArtifactsOf
    <3>2. u \in UNION {Urls[q] : q \in DOMAIN Urls}
      BY <2>1, <3>1, Zenon
    <3> QED
      BY <2>1, <3>1, <3>2 DEF AllArtifacts
  <2> QED
    BY <2>2, Zenon DEF artifacts
<1> HIDE DEF artifacts
<1>4. PICK new \in BuildsOf(artifacts) :
        builds' = [builds EXCEPT ![b] = new]
  <2>1. CASE PipelineEnds(b)
    <3>1. PICK s \in {"Success", "Failure"} : builds' = [builds EXCEPT ![b].status = s]
      BY <2>1, Zenon DEF PipelineEnds
    <3>2. builds' = [builds EXCEPT ![b] = [builds[b] EXCEPT !.status = s]]
      BY <3>1
    <3>3. [builds[b] EXCEPT !.status = s] \in BuildsOf(artifacts)
      BY <1>2 DEF BuildsOf
    <3> QED
      BY <3>2, <3>3, Zenon
  <2>2. ASSUME NEW a \in ArtifactsOf(b), RecordArtifact(b, a)
        PROVE  \E new \in BuildsOf(artifacts) :
                 builds' = [builds EXCEPT ![b] = new]
    <3> DEFINE new == [builds[b] EXCEPT !.recorded = builds[b].recorded \cup {a}]
    <3>1. builds' = [builds EXCEPT ![b] = new]
      BY <2>2 DEF RecordArtifact
    <3>2. a \in artifacts
      BY <1>3, <2>2
    <3>3. new \in BuildsOf(artifacts)
      BY <1>2, <3>2 DEF BuildsOf
    <3> QED
      BY <3>1, <3>3, Zenon
  <2> QED
    BY <2>1, <2>2, Zenon DEF Progress
<1>5. builds' \in Seq(BuildsOf(artifacts))
  <2> DEFINE B == BuildsOf(artifacts)
  <2>1. builds \in Seq(B) /\ new \in B
    BY <1>2, <1>4
  <2> HIDE DEF B
  <2>2. builds' \in Seq(B)
    BY <1>2, <1>4, <2>1
  <2> QED
    BY <2>2 DEF B
<1>6. ASSUME NEW c \in Clients PROVE Shape(c)'
  BY <1>1, Zenon DEF ApiTypes, Shape
<1>7. DOMAIN task' = Clients /\ DOMAIN call' = Clients
  BY <1>1 DEF ApiTypes
<1> QED
  BY <1>5, <1>6, <1>7, Zenon DEF ApiTypes, artifacts

LEMMA ApiStep ==
  ASSUME ApiTypes, [Next]_vars
  PROVE  ApiTypes'
<1>1. ASSUME NEW c \in Clients, Handle(c) \/ Lost(c) PROVE ApiTypes'
  <2>1. CASE Answers(c) /\ call[c].stage = "asked"
    BY <2>1, AnswersKeep, Zenon
  <2>2. CASE handle_build_docker(c) \/ handle_build_maven(c)
    BY <2>2, AwaitKeeps, Zenon
  <2>3. call[c].stage = "asked"
    BY <1>1, Zenon DEF Lost, Handle, handle_add_authorized_node, handle_build_docker,
         handle_build_maven, handle_build_status, handle_get_peers,
         handle_get_status, handle_inspect_log_docker, handle_inspect_log_maven,
         v2_base, fetch_manifest_or_build, fetch_manifest, handle_get_blobs,
         handle_get_maven_artifact, RejectBody, Inspect, Incoming,
         ManifestRoute, BlobRoute, MavenRoute
  <2> QED
    BY <1>1, <2>1, <2>2, <2>3, HandlersAnswer, Zenon
<1>2. CASE UNCHANGED vars
  BY <1>2, ZenonT(30) DEF vars, ApiTypes, Shape
<1>3. CASE Next
  BY <1>1, <1>3, ClientKeeps, CheckKeeps, StartKeeps, ProgressKeeps, Zenon DEF Next, Run
<1> QED
  BY <1>2, <1>3

LEMMA ApiKeepsTypes == Spec => []ApiTypes
<1>1. Init => ApiTypes
  <2> SUFFICES ASSUME Init PROVE ApiTypes
    OBVIOUS
  <2>1. /\ builds = <<>> /\ DOMAIN task = Clients /\ DOMAIN call = Clients
        /\ \A c \in Clients : task[c] = NoTask /\ call[c] = Idle
    BY DEF Init
  <2>2. builds \in Seq(BuildsOf(AllArtifacts))
    BY <2>1
  <2>3. ASSUME NEW c \in Clients PROVE Shape(c)
    <3>1. /\ task[c] = [stage |-> "none", type |-> "Docker", package |-> <<>>]
          /\ "Docker" \in PackageTypes
      BY <2>1 DEF NoTask, PackageTypes
    <3>2. call[c] = [stage |-> "idle", command |-> Idle.command, reply |-> Idle.reply]
      BY <2>1 DEF Idle
    <3>3. /\ task[c].type \in PackageTypes
          /\ task[c] = [stage |-> task[c].stage, type |-> task[c].type, package |-> task[c].package]
      BY <3>1, TaskRecord
    <3>4. /\ call[c].stage = "idle"
          /\ call[c] = [stage |-> call[c].stage, command |-> call[c].command,
                        reply |-> call[c].reply]
      BY <3>2, CallRecord
    <3>5. call[c].stage \notin {"asked", "building", "done"}
      BY <3>4
    <3> QED
      BY <3>3, <3>4, <3>5, ZenonT(30) DEF Shape
  <2> QED
    BY <2>1, <2>2, <2>3, Zenon DEF ApiTypes
<1>2. ApiTypes /\ [Next]_vars => ApiTypes'
  BY ApiStep
<1> QED
  BY <1>1, <1>2, PTL DEF Spec

-----------------------------------------------------------------------------
(* The names that builds record are those the registries look up           *)

\* Equal sequences, and when a sequence is that of two others.
LEMMA SameSequence ==
  ASSUME NEW S, NEW s \in Seq(S), NEW t \in Seq(S), Len(s) = Len(t),
         \A i \in 1 .. Len(s) : s[i] = t[i]
  PROVE  s = t
OBVIOUS

LEMMA ConcatIs ==
  ASSUME NEW S, NEW s \in Seq(S), NEW t \in Seq(S), NEW w \in Seq(S),
         Len(w) = Len(s) + Len(t),
         \A i \in 1 .. Len(s) : w[i] = s[i],
         \A i \in 1 .. Len(t) : w[Len(s) + i] = t[i]
  PROVE  s \o t = w
<1> DEFINE r == s \o t
<1>1. /\ r \in Seq(S) /\ Len(r) = Len(s) + Len(t)
      /\ \A i \in 1 .. Len(s) : r[i] = s[i]
      /\ \A i \in 1 .. Len(t) : r[Len(s) + i] = t[i]
  OBVIOUS
<1> HIDE DEF r
<1>2. ASSUME NEW i \in 1 .. Len(r) PROVE r[i] = w[i]
  <2>1. CASE i \in 1 .. Len(s)
    BY <1>1, <2>1
  <2>2. CASE i - Len(s) \in 1 .. Len(t)
    <3>1. i = Len(s) + (i - Len(s))
      OBVIOUS
    <3> QED BY <1>1, <2>2, <3>1, ZenonT(30)
  <2> QED BY <1>1, <2>1, <2>2
<1>3. r = w
  BY <1>1, <1>2, SameSequence
<1> QED BY <1>3 DEF r

\* Texts of five tokens.
LEMMA TwoThenThree ==
  ASSUME NEW a, NEW b, NEW c, NEW d, NEW e
  PROVE  <<a, b>> \o <<c, d, e>> = <<a, b, c, d, e>>
<1> DEFINE S == {a, b, c, d, e}
           s == <<a, b>>
           t == <<c, d, e>>
           all == <<a, b, c, d, e>>
<1>1. a \in S /\ b \in S /\ c \in S /\ d \in S /\ e \in S
  OBVIOUS
<1> HIDE DEF S
<1>2. s \in Seq(S) /\ t \in Seq(S) /\ all \in Seq(S) /\ Len(all) = Len(s) + Len(t)
  BY <1>1
<1>3. (\A i \in 1 .. Len(s) : all[i] = s[i]) /\ \A i \in 1 .. Len(t) : all[Len(s) + i] = t[i]
  OBVIOUS
<1> HIDE DEF s, t, all
<1>4. s \o t = all
  BY <1>2, <1>3, ConcatIs, Zenon
<1> QED
  BY <1>4, Zenon DEF s, t, all

LEMMA ThreeThenTwo ==
  ASSUME NEW a, NEW b, NEW c, NEW d, NEW e
  PROVE  <<a, b, c>> \o <<d, e>> = <<a, b, c, d, e>>
<1> DEFINE S == {a, b, c, d, e}
           s == <<a, b, c>>
           t == <<d, e>>
           all == <<a, b, c, d, e>>
<1>1. a \in S /\ b \in S /\ c \in S /\ d \in S /\ e \in S
  OBVIOUS
<1> HIDE DEF S
<1>2. s \in Seq(S) /\ t \in Seq(S) /\ all \in Seq(S) /\ Len(all) = Len(s) + Len(t)
  BY <1>1
<1>3. (\A i \in 1 .. Len(s) : all[i] = s[i]) /\ \A i \in 1 .. Len(t) : all[Len(s) + i] = t[i]
  OBVIOUS
<1> HIDE DEF s, t, all
<1>4. s \o t = all
  BY <1>2, <1>3, ConcatIs, Zenon
<1> QED
  BY <1>4, Zenon DEF s, t, all

\* The first n elements of a sequence.
LEMMA FirstPart ==
  ASSUME NEW S, NEW s \in Seq(S), NEW n \in 0 .. Len(s)
  PROVE  /\ SubSeq(s, 1, n) \in Seq(S) /\ Len(SubSeq(s, 1, n)) = n
         /\ \A i \in 1 .. n : SubSeq(s, 1, n)[i] = s[i]
  OBVIOUS

LEMMA FirstThree ==
  ASSUME NEW a, NEW b, NEW c, NEW d, NEW e
  PROVE  SubSeq(<<a, b, c, d, e>>, 1, 3) = <<a, b, c>>
<1> DEFINE S == {a, b, c, d, e}
           all == <<a, b, c, d, e>>
           s == SubSeq(all, 1, 3)
           t == <<a, b, c>>
<1>1. a \in S /\ b \in S /\ c \in S /\ d \in S /\ e \in S
  OBVIOUS
<1> HIDE DEF S
<1>2. all \in Seq(S) /\ 3 \in 0 .. Len(all) /\ t \in Seq(S) /\ Len(t) = 3
  BY <1>1
<1>3. \A i \in 1 .. 3 : all[i] = t[i]
  OBVIOUS
<1> HIDE DEF t, all
<1>4. s \in Seq(S) /\ Len(s) = 3 /\ \A i \in 1 .. 3 : s[i] = all[i]
  BY <1>2, FirstPart, Zenon
<1> HIDE DEF s
<1>5. s = t
  BY <1>2, <1>3, <1>4, SameSequence
<1> QED
  BY <1>5, Zenon DEF s, t, all

\* The id of an official image, and the image without its tag or digest.
LEMMA ImageId ==
  ASSUME NEW name, NEW tag, NEW separator \in {":", "@"},
         IsToken(name), IsToken(tag)
  PROVE  WithLibrary(<<name, separator, tag>>) = <<"library", "/", name, separator, tag>>
<1>1. "/" \notin Range(<<name, separator, tag>>)
  BY DEF Range, IsToken
<1>2. <<"library", "/">> \o <<name, separator, tag>> = <<"library", "/", name, separator, tag>>
  BY TwoThenThree, ZenonT(30)
<1> QED
  BY <1>1, <1>2, Zenon DEF WithLibrary

LEMMA ImageName ==
  ASSUME NEW name, NEW tag, NEW separator \in {":", "@"},
         IsToken(name), IsToken(tag)
  PROVE  LET id == <<"library", "/", name, separator, tag>>
         IN  /\ "@" \in Range(id) <=> separator = "@"
             /\ get_docker_image_name(id) = <<"library", "/", name>>
<1> DEFINE id == <<"library", "/", name, separator, tag>>
<1>1. "@" \in Range(id) <=> separator = "@"
  BY DEF Range, IsToken
<1>2. separator \in Range(id)
  BY DEF Range
<1>3. {i \in DOMAIN id : id[i] = separator} = {4}
  BY DEF IsToken
<1>4. Max({4}) = 4
  BY DEF Max
<1>5. SubSeq(id, 1, 3) = <<"library", "/", name>>
  BY FirstThree, Zenon
<1>6. BeforeLast(id, separator) = <<"library", "/", name>>
  <2> HIDE DEF id
  <2>1. BeforeLast(id, separator) = SubSeq(id, 1, 4 - 1)
    BY <1>3, <1>4, Zenon DEF BeforeLast
  <2>2. 4 - 1 = 3
    OBVIOUS
  <2> QED BY <1>5, <2>1, <2>2, Zenon
<1> HIDE DEF id
<1>7. get_docker_image_name(id) = <<"library", "/", name>>
  BY <1>1, <1>2, <1>6 DEF get_docker_image_name
<1> QED
  BY <1>1, <1>7 DEF id

\* A manifest is recorded under the tag or digest of the build and, for a tag,
\* under its hash; a blob under its digest.
LEMMA ManifestNamed ==
  ASSUME NEW name, NEW tag, IsToken(name), IsToken(tag), NEW u, u.kind = "manifest"
  PROVE  LET id == manifest_artifact_id(name, tag)
         IN  id \in Range(artifact_specific_ids("Docker", id, u))
<1> DEFINE separator == IF tag \in Digests THEN "@" ELSE ":"
           id == <<"library", "/", name, separator, tag>>
<1>1. separator \in {":", "@"}
  OBVIOUS
<1>2. manifest_artifact_id(name, tag) = id
  <2>1. manifest_artifact_id(name, tag) = WithLibrary(<<name, separator, tag>>)
    BY DEF manifest_artifact_id
  <2> HIDE DEF separator
  <2> QED
    BY <1>1, <2>1, ImageId, Zenon
<1> HIDE DEF id, separator
<1>3. artifact_specific_ids("Docker", id, u) = manifest_ids(id, u.name)
  BY DEF artifact_specific_ids
<1>4. \E second : \/ manifest_ids(id, u.name) = <<id>>
                  \/ manifest_ids(id, u.name) = <<id, second>>
  BY Zenon DEF manifest_ids
<1>5. id \in Range(manifest_ids(id, u.name))
  <2>1. \A second : id \in Range(<<id, second>>) /\ id \in Range(<<id>>)
    BY DEF Range
  <2> QED
    BY <1>4, <2>1, Zenon
<1> QED
  BY <1>2, <1>3, <1>5

LEMMA HashNamed ==
  ASSUME NEW name, NEW tag, NEW hash \in Digests, tag \notin Digests,
         IsToken(name), IsToken(tag), IsToken(hash)
  PROVE  manifest_artifact_id(name, hash)
           \in Range(artifact_specific_ids("Docker", manifest_artifact_id(name, tag),
                                                   [kind |-> "manifest", name |-> hash]))
<1> DEFINE id == <<"library", "/", name, ":", tag>>
           u == [kind |-> "manifest", name |-> hash]
           found == <<"library", "/", name, "@", hash>>
<1>1. manifest_artifact_id(name, tag) = id
  BY ImageId, Zenon DEF manifest_artifact_id
<1>2. manifest_artifact_id(name, hash) = found
  BY ImageId, Zenon DEF manifest_artifact_id
<1>3. "@" \notin Range(id) /\ get_docker_image_name(id) = <<"library", "/", name>>
  BY ImageName, Zenon
<1>4. <<"library", "/", name>> \o <<"@", hash>> = found
  BY ThreeThenTwo, ZenonT(30)
<1> HIDE DEF id, found
<1>5. manifest_ids(id, hash) = <<id, found>>
  BY <1>3, <1>4 DEF manifest_ids
<1>6. artifact_specific_ids("Docker", id, u) = manifest_ids(id, hash)
  BY DEF artifact_specific_ids
<1>7. found \in Range(<<id, found>>)
  BY DEF Range
<1> QED
  BY <1>1, <1>2, <1>5, <1>6, <1>7

LEMMA BlobNamed ==
  ASSUME NEW name, NEW tag, NEW digest,
         IsToken(name), IsToken(tag), IsToken(digest)
  PROVE  blob_artifact_id(name, digest)
           \in Range(artifact_specific_ids("Docker", manifest_artifact_id(name, tag),
                                                   [kind |-> "file", name |-> digest]))
<1> DEFINE separator == IF tag \in Digests THEN "@" ELSE ":"
           id == <<"library", "/", name, separator, tag>>
           u == [kind |-> "file", name |-> digest]
           found == <<"library", "/", name, "@", digest>>
<1>1. separator \in {":", "@"} /\ "@" \in {":", "@"}
  OBVIOUS
<1>2. manifest_artifact_id(name, tag) = id
  <2>1. manifest_artifact_id(name, tag) = WithLibrary(<<name, separator, tag>>)
    BY DEF manifest_artifact_id
  <2> HIDE DEF separator
  <2> QED
    BY <1>1, <2>1, ImageId, Zenon
<1>3. blob_artifact_id(name, digest) = found
  BY <1>1, ImageId, Zenon DEF blob_artifact_id
<1> HIDE DEF separator
<1>4. get_docker_image_name(id) = <<"library", "/", name>>
  BY <1>1, ImageName, Zenon
<1>5. <<"library", "/", name>> \o <<"@", digest>> = found
  BY ThreeThenTwo, ZenonT(30)
<1> HIDE DEF id, found
<1>6. artifact_specific_ids("Docker", id, u) = <<found>>
  BY <1>4, <1>5 DEF artifact_specific_ids, blob_ids
<1>7. found \in Range(<<found>>)
  BY DEF Range
<1> QED
  BY <1>2, <1>3, <1>6, <1>7

\* What joining tokens with a separator gives.
LEMMA Joined ==
  ASSUME NEW S, NEW pieces \in Seq(S), pieces # <<>>, NEW separator \in S
  PROVE  LET all == Join(pieces, separator)
         IN  /\ all \in Seq(S)
             /\ \A i \in 1 .. Len(all) :
                  all[i] = separator \/ \E j \in 1 .. Len(pieces) : all[i] = pieces[j]
<1> DEFINE n == Len(pieces)
           all == Join(pieces, separator)
<1>1. n \in Nat /\ n > 0
  OBVIOUS
<1>2. all = [i \in 1 .. 2 * n - 1 |-> IF i % 2 = 1 THEN pieces[(i + 1) \div 2] ELSE separator]
  BY Zenon DEF Join
<1>3. ASSUME NEW i \in 1 .. 2 * n - 1 PROVE (i + 1) \div 2 \in 1 .. n
  <2>1. \A k \in Nat : 2 * (k \div 2) \in k - 1 .. k /\ k \div 2 \in Nat
    OBVIOUS
  <2>2. i + 1 \in Nat
    BY <1>1
  <2> HIDE DEF n
  <2> QED
    BY <1>1, <2>1, <2>2
<1>4. \A i \in 1 .. 2 * n - 1 : pieces[(i + 1) \div 2] \in S
  BY <1>3
<1> HIDE DEF n, all
<1>5. all \in Seq(S) /\ Len(all) = 2 * n - 1
  BY <1>1, <1>2, <1>4
<1>6. \A i \in 1 .. 2 * n - 1 : all[i] = separator \/ \E j \in 1 .. n : all[i] = pieces[j]
  BY <1>2, <1>3
<1> QED
  BY <1>5, <1>6 DEF n, all

\* The id of an artifact of a Maven build: the colons of the GAV become slashes.
LEMMA ColonsReplaced ==
  ASSUME NEW T, NEW group \in Seq(T), \A i \in 1 .. Len(group) : group[i] # ":",
         NEW a, NEW v, NEW file, a # ":", v # ":"
  PROVE  maven_ids(group \o <<":", a, ":", v>>, file)
           = <<group \o <<"/", a, "/", v, "/", file>>>>
<1> DEFINE id == group \o <<":", a, ":", v>>
           path == [i \in DOMAIN id |-> IF id[i] = ":" THEN "/" ELSE id[i]]
           rest == <<"/", file>>
           all == group \o <<"/", a, "/", v, "/", file>>
           n == Len(group)
           S == T \cup {":", "/", a, v, file}
<1>0. /\ group \in Seq(S)
      /\ ":" \in S /\ "/" \in S /\ a \in S /\ v \in S /\ file \in S
  OBVIOUS
<1> HIDE DEF S
<1>1. /\ n \in Nat /\ id \in Seq(S) /\ Len(id) = n + 4
      /\ \A i \in 1 .. n : id[i] = group[i]
      /\ id[n + 1] = ":" /\ id[n + 2] = a /\ id[n + 3] = ":" /\ id[n + 4] = v
  <2>1. PICK t \in Seq(S) : t = <<":", a, ":", v>>
    <3>1. <<":", a, ":", v>> \in Seq(S)
      BY <1>0
    <3> QED
      BY <3>1, Zenon
  <2>2. Len(t) = 4 /\ t[1] = ":" /\ t[2] = a /\ t[3] = ":" /\ t[4] = v
    BY <2>1
  <2>3. group \o t \in Seq(S) /\ Len(group \o t) = n + Len(t)
    BY <1>0
  <2>4. \A i \in 1 .. n : (group \o t)[i] = group[i]
    BY <1>0
  <2>5. \A i \in 1 .. Len(t) : (group \o t)[n + i] = t[i]
    BY <1>0
  <2> QED
    BY <2>1, <2>2, <2>3, <2>4, <2>5
<1>2. /\ all \in Seq(S) /\ Len(all) = n + 6
      /\ \A i \in 1 .. n : all[i] = group[i]
      /\ all[n + 1] = "/" /\ all[n + 2] = a /\ all[n + 3] = "/" /\ all[n + 4] = v
      /\ all[n + 5] = "/" /\ all[n + 6] = file
  <2>1. PICK t \in Seq(S) : t = <<"/", a, "/", v, "/", file>>
    <3>1. <<"/", a, "/", v, "/", file>> \in Seq(S)
      BY <1>0
    <3> QED
      BY <3>1, Zenon
  <2>2. Len(t) = 6 /\ t[1] = "/" /\ t[2] = a /\ t[3] = "/" /\ t[4] = v /\ t[5] = "/" /\ t[6] = file
    BY <2>1
  <2>3. group \o t \in Seq(S) /\ Len(group \o t) = n + Len(t)
    BY <1>0
  <2>4. \A i \in 1 .. n : (group \o t)[i] = group[i]
    BY <1>0
  <2>5. \A i \in 1 .. Len(t) : (group \o t)[n + i] = t[i]
    BY <1>0
  <2> QED
    BY <2>1, <2>2, <2>3, <2>4, <2>5
<1>3. rest \in Seq(S) /\ Len(rest) = 2 /\ rest[1] = "/" /\ rest[2] = file
  BY <1>0
<1> HIDE DEF id, rest, all
<1>4. /\ path \in Seq(S) /\ Len(path) = n + 4
      /\ \A i \in 1 .. n + 4 : path[i] = IF id[i] = ":" THEN "/" ELSE id[i]
  <2>1. DOMAIN id = 1 .. n + 4
    BY <1>1
  <2>2. \A i \in 1 .. n + 4 : id[i] \in S
    BY <1>1
  <2> QED
    BY <1>0, <1>1, <2>1, <2>2
<1> HIDE DEF path, n
<1>5. ASSUME NEW i \in 1 .. n + 4 PROVE all[i] = path[i]
  <2>1. CASE i \in 1 .. n
    <3>1. id[i] = group[i] /\ all[i] = group[i] /\ group[i] # ":"
      BY <1>1, <1>2, <2>1, Zenon DEF n
    <3>2. path[i] = IF id[i] = ":" THEN "/" ELSE id[i]
      BY <1>4, <1>5, Zenon
    <3> QED
      BY <3>1, <3>2, Zenon
  <2>2. CASE i \in {n + 1, n + 2, n + 3, n + 4}
    BY <1>1, <1>2, <1>4, <2>2
  <2> QED
    BY <1>1, <2>1, <2>2
<1>6. \A i \in 1 .. 2 : all[Len(path) + i] = rest[i]
  <2>1. all[(n + 4) + 1] = rest[1] /\ all[(n + 4) + 2] = rest[2]
    BY <1>1, <1>2, <1>3
  <2> QED
    BY <1>4, <2>1
<1>7. path \o rest = all
  <2>1. Len(all) = Len(path) + Len(rest) /\ \A i \in 1 .. Len(path) : all[i] = path[i]
    BY <1>1, <1>2, <1>3, <1>4, <1>5
  <2>2. \A i \in 1 .. Len(rest) : all[Len(path) + i] = rest[i]
    BY <1>3, <1>6, Zenon
  <2> QED
    BY <1>2, <1>3, <1>4, <2>1, <2>2, ConcatIs, ZenonT(30)
<1> QED
  BY <1>7, Zenon DEF maven_ids, id, path, rest, all

LEMMA FileNamed ==
  ASSUME NEW pieces \in Seq(STRING), \A i \in DOMAIN pieces : IsToken(pieces[i]),
         ValidMavenPath(pieces), NEW u, u.name = pieces[Len(pieces)]
  PROVE  maven_artifact_id(pieces)
           \in Range(artifact_specific_ids("Maven2", maven_package_id(pieces), u))
<1> DEFINE n == Len(pieces)
           S == {pieces[i] : i \in 1 .. n} \cup {".", ":", "/"}
           names == SubSeq(pieces, 1, n - 3)
           group == Join(names, ".")
           a == pieces[n - 2]
           v == pieces[n - 1]
           file == pieces[n]
<1>1. n \in Nat /\ n >= 4 /\ DOMAIN pieces = 1 .. n
  BY DEF ValidMavenPath
<1>2. maven_package_id(pieces) = group \o <<":", a, ":", v>>
  BY DEF maven_package_id, MavenCoordinates
<1>3. maven_artifact_id(pieces) = group \o <<"/", a, "/", v, "/", file>>
  BY DEF maven_artifact_id, MavenCoordinates
<1>4. /\ ":" \in S /\ "/" \in S /\ "." \in S /\ a \in S /\ v \in S /\ file \in S
      /\ a # ":" /\ v # ":" /\ \A i \in 1 .. n : pieces[i] \in S /\ pieces[i] # ":"
  BY <1>1 DEF IsToken
<1> HIDE DEF S
<1>5. names \in Seq(S) /\ names # <<>> /\ \A i \in 1 .. Len(names) : names[i] # ":"
  <2>1. PICK s \in Seq(S) : s = pieces
    BY <1>1, <1>4
  <2>2. PICK k \in 0 .. Len(s) : k = n - 3
    <3>1. n - 3 \in 0 .. Len(s)
      BY <1>1, <2>1
    <3> QED
      BY <3>1, Zenon
  <2>3. names \in Seq(S) /\ Len(names) = n - 3 /\ \A i \in 1 .. n - 3 : names[i] = pieces[i]
    <3>1. SubSeq(s, 1, k) \in Seq(S) /\ Len(SubSeq(s, 1, k)) = k
      OBVIOUS
    <3>2. \A i \in 1 .. k : SubSeq(s, 1, k)[i] = s[i]
      OBVIOUS
    <3> QED
      BY <2>1, <2>2, <3>1, <3>2, Zenon
  <2> HIDE DEF names, n
  <2>4. names # <<>>
    BY <1>1, <2>3
  <2> QED
    BY <1>1, <1>4, <2>3, <2>4
<1> HIDE DEF names
<1>6. group \in Seq(S) /\ \A i \in 1 .. Len(group) : group[i] # ":"
  <2>1. /\ group \in Seq(S)
        /\ \A i \in 1 .. Len(group) :
             group[i] = "." \/ \E j \in 1 .. Len(names) : group[i] = names[j]
    <3>1. names \in Seq(S) /\ names # <<>> /\ "." \in S
      BY <1>4, <1>5
    <3> QED
      BY <3>1, Joined
  <2> HIDE DEF group
  <2> QED
    BY <1>5, <2>1
<1> HIDE DEF group, a, v, file
<1>7. maven_ids(group \o <<":", a, ":", v>>, file) = <<group \o <<"/", a, "/", v, "/", file>>>>
  <2>1. a # ":" /\ v # ":"
    BY <1>4 DEF a, v
  <2> QED
    BY <1>6, <2>1, ColonsReplaced, ZenonT(30)
<1>8. u.name = file
  BY DEF file
<1>9. artifact_specific_ids("Maven2", group \o <<":", a, ":", v>>, u)
        = <<group \o <<"/", a, "/", v, "/", file>>>>
  BY <1>7, <1>8, Zenon DEF artifact_specific_ids
<1>10. \A x : x \in Range(<<x>>)
  BY DEF Range
<1> QED
  BY <1>2, <1>3, <1>9, <1>10, Zenon

\* The artifact that a pull looks up.
PulledId(m) ==
  IF m.name = "pull maven" THEN maven_artifact_id(m.arg)
  ELSE IF m.name = "pull blob" THEN blob_artifact_id(m.arg[1], m.arg[2])
  ELSE manifest_artifact_id(m.arg[1], m.arg[2])

IsLogged(rows, type, artifact) == \E l \in rows : l.type = type /\ l.artifact = artifact

\* What a build has recorded is in the log.
Recorded == \A b \in DOMAIN builds : \A a \in builds[b].recorded : IsLogged(logs, builds[b].type, a)

\* The pulls of a package look up artifacts of its build.
LEMMA ImagePullNamed ==
  ASSUME NEW p, NEW m, IsPullOfImage(p, m)
  PROVE  /\ m.name \in {"pull manifest", "head manifest", "pull blob"}
         /\ \E u \in Urls[docker_package_id(p)] :
              PulledId(m)
                \in Range(artifact_specific_ids("Docker", docker_package_id(p), u))
<1> DEFINE urls == Urls[docker_package_id(p)]
           Hit(u) == PulledId(m)
             \in Range(artifact_specific_ids("Docker", docker_package_id(p), u))
<1>1. /\ p = <<p[1], IF p[3] \in Digests THEN "@" ELSE ":", p[3]>>
      /\ IsToken(p[1]) /\ IsToken(p[3]) /\ IsToken(m.arg[2])
      /\ m.arg = <<p[1], m.arg[2]>>
  BY Zenon DEF IsPullOfImage
<1>2. m.arg[1] = p[1]
  BY <1>1
<1>3. docker_package_id(p) = manifest_artifact_id(p[1], p[3])
  <2>1. CASE p[3] \in Digests
    BY <1>1, <2>1, Zenon DEF docker_package_id, manifest_artifact_id
  <2>2. CASE p[3] \notin Digests
    BY <1>1, <2>2, Zenon DEF docker_package_id, manifest_artifact_id
  <2> QED
    BY <2>1, <2>2
<1>4. ASSUME m.name \in {"pull manifest", "head manifest"}
      PROVE  PulledId(m) = manifest_artifact_id(p[1], m.arg[2])
  BY <1>2, <1>4, Zenon DEF PulledId
<1>5. CASE /\ m.name \in {"pull manifest", "head manifest"}
           /\ m.arg[2] = p[3]
           /\ \E u \in urls : u.kind = "manifest"
  <2>1. PICK u \in urls : u.kind = "manifest"
    BY <1>5, Zenon
  <2>2. Hit(u)
    BY <1>1, <1>3, <1>4, <1>5, <2>1, ManifestNamed, Zenon
  <2> QED
    BY <1>5, <2>2, Zenon
<1>6. CASE /\ m.name \in {"pull manifest", "head manifest"}
           /\ p[3] \notin Digests /\ m.arg[2] \in Digests
           /\ [kind |-> "manifest", name |-> m.arg[2]] \in urls
  <2>1. Hit([kind |-> "manifest", name |-> m.arg[2]])
    BY <1>1, <1>3, <1>4, <1>6, HashNamed, Zenon
  <2> QED
    BY <1>6, <2>1, Zenon
<1>7. CASE /\ m.name = "pull blob"
           /\ [kind |-> "file", name |-> m.arg[2]] \in urls
  <2>1. PulledId(m) = blob_artifact_id(p[1], m.arg[2])
    BY <1>2, <1>7, Zenon DEF PulledId
  <2>2. Hit([kind |-> "file", name |-> m.arg[2]])
    BY <1>1, <1>3, <2>1, BlobNamed, Zenon
  <2> QED
    BY <1>7, <2>2, Zenon
<1> QED
  BY <1>5, <1>6, <1>7, Zenon DEF IsPullOfImage

LEMMA FilePullNamed ==
  ASSUME NEW p, NEW m, IsPullOfFile(p, m)
  PROVE  /\ m.name = "pull maven" /\ m.arg \in Seq(STRING) /\ ValidMavenPath(m.arg)
         /\ \E u \in Urls[p] :
              PulledId(m) \in Range(artifact_specific_ids("Maven2", p, u))
<1>1. PICK u \in Urls[p] : u.name = m.arg[Len(m.arg)]
  BY Zenon DEF IsPullOfFile
<1>2. PulledId(m) = maven_artifact_id(m.arg)
  BY Zenon DEF PulledId, IsPullOfFile
<1>3. PulledId(m) \in Range(artifact_specific_ids("Maven2", p, u))
  BY <1>1, <1>2, FileNamed, Zenon DEF IsPullOfFile
<1> QED
  BY <1>3, Zenon DEF IsPullOfFile

LEMMA PullIsLogged ==
  ASSUME Recorded, NEW p \in DOMAIN PullsOf, NEW m \in PullsOf[p],
         Complete(Registry(m), p)
  PROVE  /\ m.name \in {"pull manifest", "head manifest", "pull blob", "pull maven"}
         /\ m.name = "pull maven" => m.arg \in Seq(STRING) /\ ValidMavenPath(m.arg)
         /\ IsLogged(logs, Registry(m), PulledId(m))
<1> DEFINE type == Registry(m)
           package == IF type = "Docker" THEN docker_package_id(p) ELSE p
<1>1. PICK b \in DOMAIN builds :
        /\ builds[b].type = type /\ builds[b].package = package
        /\ builds[b].recorded = ArtifactsOf(b)
  BY Zenon DEF Complete
<1>2. \A u \in Urls[package] : \A a \in Range(artifact_specific_ids(type, package, u)) :
        IsLogged(logs, type, a)
  <2> HIDE DEF type, package
  <2> QED
    BY <1>1 DEF Recorded, ArtifactsOf
<1>3. CASE IsPullOfImage(p, m)
  <2>1. m.name \in {"pull manifest", "head manifest", "pull blob"} /\ m.name # "pull maven"
    BY <1>3, ImagePullNamed, Zenon
  <2>2. type = "Docker" /\ package = docker_package_id(p)
    BY <2>1, Zenon DEF Registry
  <2> HIDE DEF type, package
  <2>3. IsLogged(logs, type, PulledId(m))
    BY <1>2, <1>3, <2>2, ImagePullNamed, Zenon
  <2> QED
    BY <2>1, <2>3, Zenon DEF type
<1>4. CASE IsPullOfFile(p, m)
  <2>1. m.name = "pull maven" /\ m.arg \in Seq(STRING) /\ ValidMavenPath(m.arg)
    BY <1>4, FilePullNamed, Zenon
  <2>2. type = "Maven2" /\ package = p
    BY <2>1, Zenon DEF Registry
  <2> HIDE DEF type, package
  <2>3. IsLogged(logs, type, PulledId(m))
    BY <1>2, <1>4, <2>2, FilePullNamed, Zenon
  <2> QED
    BY <2>1, <2>3, Zenon DEF type
<1> QED
  BY <1>3, <1>4, PullsAssumption, Zenon DEF PullsAssumption

\* What a request is routed to.
LEMMA Routed ==
  ASSUME NEW c \in Clients, Handle(c)
  PROVE  \/ Asked(c).method = "POST"
         \/ Asked(c).path \in {<<"peers">>, <<"status">>, <<"v2">>}
         \/ fetch_manifest_or_build(c) \/ fetch_manifest(c) \/ handle_get_blobs(c)
         \/ handle_get_maven_artifact(c)
BY Zenon DEF Handle, handle_add_authorized_node, handle_build_docker,
     handle_build_maven, handle_build_status, handle_get_peers, handle_get_status,
     handle_inspect_log_docker, handle_inspect_log_maven, v2_base, RejectBody,
     Inspect, Incoming

\* A registry that finds the artifact in the log serves it.
LEMMA LoggedIsServed ==
  ASSUME NEW c, c \notin Unlucky, NEW type, NEW package, NEW artifact, NEW error,
         IsLogged(logs, type, artifact),
         get_artifact_or_build(c, type, package, artifact, error)
  PROVE  \E content : Reply(c, Ok(content))
BY Zenon DEF IsLogged, get_artifact_or_build, Serves, Misses, Fails

LEMMA GetRequest == \A path : Get(path).path = path /\ Get(path).method = "GET"
BY DEF Get

\* The path of a request for a file, and of the requests that are none.
LEMMA PathBelow ==
  ASSUME NEW S, NEW s \in Seq(S), s # <<>>, NEW a
  PROVE  LET path == <<a>> \o s
         IN  /\ Tail(path) = s /\ path[1] = a /\ SubSeq(path, 1, 2)[1] = a
             /\ Len(path) # 1
<1> DEFINE T == S \cup {a}
           path == <<a>> \o s
<1>1. PICK t \in Seq(T) : t = s
  <2>1. s \in Seq(T)
    OBVIOUS
  <2> QED
    BY <2>1, Zenon
<1>2. PICK h \in Seq(T) : h = <<a>>
  <2>1. <<a>> \in Seq(T)
    OBVIOUS
  <2> QED
    BY <2>1, Zenon
<1>3. Len(h) = 1 /\ h[1] = a /\ Len(t) > 0
  BY <1>1, <1>2
<1> HIDE DEF T
<1>4. h \o t \in Seq(T) /\ Len(h \o t) = Len(h) + Len(t)
  OBVIOUS
<1>5. \A i \in 1 .. Len(h) : (h \o t)[i] = h[i]
  OBVIOUS
<1>6. \A i \in 1 .. Len(t) : (h \o t)[Len(h) + i] = t[i]
  OBVIOUS
<1>7. PICK r \in Seq(T) : r = h \o t
  BY <1>4, Zenon
<1>8. Len(r) = 1 + Len(t) /\ r[1] = a /\ \A i \in 1 .. Len(t) : r[1 + i] = t[i]
  BY <1>3, <1>4, <1>5, <1>6, <1>7
<1>9. Tail(r) \in Seq(T) /\ Len(Tail(r)) = Len(t) /\ \A i \in 1 .. Len(t) : Tail(r)[i] = t[i]
  BY <1>3, <1>8
<1>10. Tail(r) = t
  BY <1>9, SameSequence, Zenon
<1>11. SubSeq(r, 1, 2)[1] = a /\ Len(r) # 1
  BY <1>3, <1>8
<1> QED
  BY <1>1, <1>2, <1>7, <1>8, <1>10, <1>11, Zenon

LEMMA LongerThanNone == \A s : Len(s) >= 4 => s # <<>>
OBVIOUS

LEMMA ShortPaths ==
  ASSUME NEW path, Len(path) # 1
  PROVE  path \notin {<<"peers">>, <<"status">>, <<"v2">>}
<1>1. \A k : Len(<<k>>) = 1
  OBVIOUS
<1> QED
  BY <1>1, Zenon

IsImagePath(path, x, kind, y) ==
  path[3] = x /\ path[4] = kind /\ path[5] = y /\ Head(path) = "v2" /\ Len(path) # 1
LEMMA ImagePath ==
  ASSUME NEW x, NEW kind, NEW y
  PROVE  IsImagePath(<<"v2", "library", x, kind, y>>, x, kind, y)
BY DEF IsImagePath

LEMMA ImagePullServed ==
  ASSUME NEW c \in Clients \ Unlucky, Handle(c),
         call[c].command.name \in {"pull manifest", "head manifest", "pull blob"},
         IsLogged(logs, "Docker", PulledId(call[c].command))
  PROVE  \E content : Reply(c, Ok(content))
<1> DEFINE m == call[c].command
           x == m.arg[1]
           y == m.arg[2]
           kind == IF m.name = "pull blob" THEN "blobs" ELSE "manifests"
           path == <<"v2", "library", x, kind, y>>
           method == IF m.name = "head manifest" THEN "HEAD" ELSE "GET"
<1>1. Asked(c).path = path /\ Asked(c).method = method
  <2>1. CASE m.name = "pull manifest"
    <3>1. Request(m) = Get(<<"v2", "library", x, "manifests", y>>)
      BY <2>1, Zenon DEF Request
    <3> QED
      BY <2>1, <3>1, GetRequest, Zenon DEF Asked
  <2>2. CASE m.name = "head manifest"
    <3>1. Request(m) = [Get(<<"v2", "library", x, "manifests", y>>) EXCEPT !.method = "HEAD"]
      BY <2>2, Zenon DEF Request
    <3> QED
      BY <2>2, <3>1, Zenon DEF Asked, Get
  <2>3. CASE m.name = "pull blob"
    <3>1. Request(m) = Get(<<"v2", "library", x, "blobs", y>>)
      BY <2>3, Zenon DEF Request
    <3> QED
      BY <2>3, <3>1, GetRequest, Zenon DEF Asked
  <2> QED
    BY <2>1, <2>2, <2>3, Zenon
<1>2. method # "POST" /\ kind \in {"blobs", "manifests"}
  BY Zenon
<1>5. PulledId(m) = IF kind = "blobs" THEN blob_artifact_id(x, y)
                    ELSE manifest_artifact_id(x, y)
  BY Zenon DEF PulledId
<1> HIDE DEF m, x, y, kind, method
<1>3. IsImagePath(path, x, kind, y)
  BY ImagePath, Zenon
<1> HIDE DEF path
<1>4. path[3] = x /\ path[4] = kind /\ path[5] = y /\ Head(path) = "v2" /\ Len(path) # 1
  BY <1>3, Zenon DEF IsImagePath
<1>0. path \notin {<<"peers">>, <<"status">>, <<"v2">>}
  BY <1>4, ShortPaths, Zenon
<1>6. ~handle_get_maven_artifact(c)
  BY <1>1, <1>4, Zenon DEF handle_get_maven_artifact, MavenRoute
<1>7. CASE fetch_manifest_or_build(c)
  <2>1. kind = "manifests"
    BY <1>1, <1>4, <1>7, Zenon DEF fetch_manifest_or_build, ManifestRoute
  <2>2. PulledId(m) = manifest_artifact_id(x, y)
    BY <1>5, <2>1, Zenon
  <2>3. get_artifact_or_build(c, "Docker", PulledId(m), PulledId(m), "ManifestUnknown")
    BY <1>1, <1>4, <1>7, <2>2, Zenon DEF fetch_manifest_or_build
  <2> QED
    BY <2>3, LoggedIsServed, Zenon DEF m
<1>8. CASE fetch_manifest(c)
  <2>1. kind = "manifests"
    BY <1>1, <1>4, <1>8, Zenon DEF fetch_manifest, ManifestRoute
  <2>2. PulledId(m) = manifest_artifact_id(x, y)
    BY <1>5, <2>1, Zenon
  <2>3. Serves(c, "Docker", PulledId(m)) \/ Misses(c, "Docker", PulledId(m))
    BY <1>1, <1>4, <1>8, <2>2, Zenon DEF fetch_manifest
  <2> QED
    BY <2>3, Zenon DEF m, IsLogged, Serves, Misses, Fails
<1>9. CASE handle_get_blobs(c)
  <2>1. kind = "blobs"
    BY <1>1, <1>4, <1>9, Zenon DEF handle_get_blobs, BlobRoute
  <2>2. PulledId(m) = blob_artifact_id(x, y)
    BY <1>5, <2>1, Zenon
  <2>3. get_artifact_or_build(c, "Docker", PulledId(m), PulledId(m), "BlobUnknown")
    BY <1>1, <1>4, <1>9, <2>2, Zenon DEF handle_get_blobs
  <2> QED
    BY <2>3, LoggedIsServed, Zenon DEF m
<1> QED
  BY <1>0, <1>1, <1>2, <1>6, <1>7, <1>8, <1>9, Routed, Zenon

LEMMA FilePullServed ==
  ASSUME NEW c \in Clients \ Unlucky, Handle(c), call[c].command.name = "pull maven",
         call[c].command.arg \in Seq(STRING), ValidMavenPath(call[c].command.arg),
         IsLogged(logs, "Maven2", PulledId(call[c].command))
  PROVE  \E content : Reply(c, Ok(content))
<1> DEFINE m == call[c].command
           path == <<"maven2">> \o m.arg
<1>1. Asked(c).path = path /\ Asked(c).method = "GET"
  <2>1. Request(m) = Get(path)
    BY Zenon DEF Request
  <2> QED
    BY <2>1, GetRequest, Zenon DEF Asked
<1>2. PulledId(m) = maven_artifact_id(m.arg)
  BY Zenon DEF PulledId
<1>3. Tail(path) = m.arg /\ SubSeq(path, 1, 2)[1] = "maven2" /\ Len(path) # 1
  <2>1. m.arg # <<>>
    BY LongerThanNone, Zenon DEF ValidMavenPath
  <2> QED
    BY <2>1, PathBelow, Zenon
<1> HIDE DEF path
<1>4. path \notin {<<"peers">>, <<"status">>, <<"v2">>}
  BY <1>3, ShortPaths, Zenon
<1>5. SubSeq(path, 1, 2) # <<"v2", "library">>
  <2>1. <<"v2", "library">>[1] # "maven2"
    BY Zenon
  <2> QED
    BY <1>3, <2>1, Zenon
<1>6. ~fetch_manifest_or_build(c) /\ ~fetch_manifest(c) /\ ~handle_get_blobs(c)
  BY <1>1, <1>5, Zenon DEF fetch_manifest_or_build, fetch_manifest, handle_get_blobs,
       ManifestRoute, BlobRoute
<1> HIDE DEF m
<1>7. CASE handle_get_maven_artifact(c)
  <2>1. get_artifact_or_build(c, "Maven2", maven_package_id(m.arg), PulledId(m), "Anyhow")
    BY <1>1, <1>2, <1>3, <1>7, Zenon DEF handle_get_maven_artifact, m
  <2> QED
    BY <2>1, LoggedIsServed, Zenon DEF m
<1> QED
  BY <1>1, <1>4, <1>6, <1>7, Routed, Zenon

\* A build that starts has recorded nothing, and what is recorded is logged.
LEMMA RecordedStep ==
  ASSUME ApiTypes, Recorded, [Next]_vars
  PROVE  Recorded'
<1>1. CASE logs' = logs /\ builds' = builds
  BY <1>1 DEF Recorded
<1>2. ASSUME NEW c \in Clients, StartBuild(c), builds' # builds PROVE Recorded'
  <2>1. PICK new : builds' = Append(builds, new) /\ new.recorded = {}
    BY <1>2 DEF StartBuild
  <2>2. logs' = logs
    BY <1>2, Zenon DEF StartBuild
  <2>3. ASSUME NEW b \in DOMAIN builds'
        PROVE  builds'[b].recorded = {} \/ (b \in DOMAIN builds /\ builds'[b] = builds[b])
    <3> DEFINE B == BuildsOf(AllArtifacts)
    <3>1. builds \in Seq(B)
      BY DEF ApiTypes
    <3> HIDE DEF B
    <3>2. b = Len(builds) + 1 \/ b \in DOMAIN builds
      BY <2>1, <2>3, <3>1
    <3> QED
      BY <2>1, <3>1, <3>2
  <2> QED
    BY <2>2, <2>3, Zenon DEF Recorded
<1>3. ASSUME NEW b \in DOMAIN builds, Progress(b) PROVE Recorded'
  <2> DEFINE B == BuildsOf(AllArtifacts)
  <2>1. builds \in Seq(B) /\ builds[b] \in B
    BY DEF ApiTypes
  <2>2. CASE PipelineEnds(b)
    <3>1. PICK s : builds' = [builds EXCEPT ![b] = [builds[b] EXCEPT !.status = s]]
      BY <2>2, Zenon DEF PipelineEnds
    <3>2. logs' = logs
      BY <2>2, Zenon DEF PipelineEnds
    <3> DEFINE new == [builds[b] EXCEPT !.status = s]
    <3>3. \A k \in DOMAIN builds : builds'[k] = IF k = b THEN new ELSE builds[k]
      BY <3>1, Zenon
    <3>4. new.type = builds[b].type /\ new.recorded = builds[b].recorded
      BY <2>1 DEF BuildsOf
    <3>5. DOMAIN builds' = DOMAIN builds
      BY <3>1, Zenon
    <3>6. \A k \in DOMAIN builds :
            builds'[k].type = builds[k].type /\ builds'[k].recorded = builds[k].recorded
      BY <3>3, <3>4, Zenon
    <3> QED
      BY <3>2, <3>5, <3>6, Zenon DEF Recorded
  <2>3. ASSUME NEW a, RecordArtifact(b, a) PROVE Recorded'
    <3> DEFINE new == [builds[b] EXCEPT !.recorded = builds[b].recorded \cup {a}]
               row == [type |-> builds[b].type, package |-> builds[b].package, artifact |-> a]
    <3>1. builds' = [builds EXCEPT ![b] = new]
      BY <2>3 DEF RecordArtifact
    <3>2. logs' = logs \cup {row}
      BY <2>3, Zenon DEF RecordArtifact
    <3>3. new.type = builds[b].type /\ new.recorded = builds[b].recorded \cup {a}
      BY <2>1 DEF BuildsOf
    <3>4. row.type = builds[b].type /\ row.artifact = a
      OBVIOUS
    <3> HIDE DEF new, row
    <3>5. DOMAIN builds' = DOMAIN builds
      BY <3>1, Zenon
    <3>6. \A k \in DOMAIN builds : builds'[k] = IF k = b THEN new ELSE builds[k]
      BY <3>1, Zenon
    <3>7. ASSUME NEW k \in DOMAIN builds, NEW x \in builds'[k].recorded
          PROVE  IsLogged(logs', builds'[k].type, x)
      <4>1. CASE k = b /\ x = a
        BY <3>2, <3>3, <3>4, <3>6, <4>1, Zenon DEF IsLogged
      <4>2. CASE ~(k = b /\ x = a)
        <5>1. x \in builds[k].recorded /\ builds'[k].type = builds[k].type
          BY <3>3, <3>6, <3>7, <4>2, Zenon
        <5>2. IsLogged(logs, builds[k].type, x)
          BY <5>1, Zenon DEF Recorded
        <5> QED
          BY <3>2, <5>1, <5>2, Zenon DEF IsLogged
      <4> QED
        BY <4>1, <4>2
    <3> QED
      BY <3>5, <3>7, Zenon DEF Recorded
  <2> QED
    BY <1>3, <2>2, <2>3, Zenon DEF Progress
<1>4. CASE UNCHANGED vars
  BY <1>1, <1>4, Zenon DEF vars
<1>5. ASSUME NEW c \in Clients,
             \/ \E command \in Commands : Ask(c, command)
             \/ Handle(c) \/ CheckBuild(c) \/ Lost(c) \/ Show(c)
      PROVE  logs' = logs /\ builds' = builds
  BY <1>5, Zenon DEF Ask, CheckBuild, Lost, Show, Handle,
     handle_add_authorized_node, handle_build_docker, handle_build_maven, handle_build_status, handle_get_peers,
     handle_get_status, handle_inspect_log_docker, handle_inspect_log_maven,
     v2_base, fetch_manifest_or_build, fetch_manifest, handle_get_blobs,
     handle_get_maven_artifact, RejectBody, Inspect
<1>6. ASSUME NEW c \in Clients, StartBuild(c) PROVE Recorded'
  <2>1. logs' = logs
    BY <1>6, Zenon DEF StartBuild
  <2> QED
    BY <1>1, <1>2, <1>6, <2>1, Zenon
<1> QED
  BY <1>1, <1>3, <1>4, <1>5, <1>6, Zenon DEF Next, Run

\* The answer to a request that no fault meets comes from the handler of its route.
LEMMA AnsweredByHandler ==
  ASSUME ApiTypes, Next, NEW c \in Clients \ Unlucky,
         call[c].stage = "asked", call'[c].stage = "done"
  PROVE  Handle(c)
<1>1. call'[c] # call[c]
  BY Zenon
<1>2. ASSUME NEW d \in Clients, NEW result, EndTask(d, result)
      PROVE  call' = call \/ (call[d].stage = "building" /\ \E reply : Reply(d, reply))
  BY <1>2, Zenon DEF EndTask
<1>3. ASSUME NEW d \in Clients, CheckBuild(d) \/ StartBuild(d)
      PROVE  call' = call \/ (call[d].stage = "building" /\ \E reply : Reply(d, reply))
  <2>1. call' = call \/ \E result : EndTask(d, result)
    BY <1>3, Zenon DEF CheckBuild, StartBuild
  <2> QED
    BY <1>2, <2>1, Zenon
<1>4. ASSUME NEW d \in Clients, Handle(d) \/ Lost(d)
      PROVE  (\E reply : Reply(d, reply)) \/ AwaitTask(d)
  BY <1>4, HandlersAnswer, Zenon DEF Answers, handle_build_docker, handle_build_maven
<1>5. ASSUME NEW d \in Clients,
             (\E command \in Commands : Ask(d, command)) \/ Show(d)
      PROVE  \E new : call' = [call EXCEPT ![d] = new]
  BY <1>5, Zenon DEF Ask, Show
<1>6. ASSUME NEW d \in Clients, d # c,
             \/ \E command \in Commands : Ask(d, command)
             \/ Run(d) \/ Lost(d) \/ Show(d)
      PROVE  FALSE
  <2>1. \/ call' = call
        \/ \E reply : Reply(d, reply)
        \/ AwaitTask(d)
        \/ \E new : call' = [call EXCEPT ![d] = new]
    BY <1>3, <1>4, <1>5, <1>6, Zenon DEF Run
  <2>2. call'[c] = call[c]
    BY <1>6, <2>1 DEF ApiTypes, Reply, AwaitTask
  <2> QED
    BY <1>1, <2>2
<1>7. ~(\E command \in Commands : Ask(c, command)) /\ ~Show(c) /\ ~Lost(c)
  BY Zenon DEF Ask, Show, Lost, Fails
<1>8. ~(CheckBuild(c) \/ StartBuild(c))
  BY <1>1, <1>3, Zenon
<1>9. ASSUME NEW b \in DOMAIN builds, Progress(b) PROVE FALSE
  BY <1>1, <1>9, Zenon DEF Progress, PipelineEnds, RecordArtifact
<1> QED
  BY <1>6, <1>7, <1>8, <1>9, Zenon DEF Next, Run

\* "A new build will be started. Try again later": whatever the names, however many
\* clients pull and build at once and whatever fails for others, a pull of a package
\* whose artifacts are all recorded is answered with the artifact.
THEOREM PullsAreServed == Spec => PulledOnceBuilt
<1> DEFINE Served ==
      \A c \in Clients \ Unlucky :
        /\ call[c].stage = "asked" /\ call'[c].stage = "done"
        /\ \E p \in DOMAIN PullsOf :
             call[c].command \in PullsOf[p] /\ Complete(Registry(call[c].command), p)
        => call'[c].reply.status = 200
<1>1. Init => Recorded
  BY DEF Init, Recorded
<1>2. ApiTypes /\ Recorded /\ [Next]_vars => Recorded'
  BY RecordedStep, Zenon
<1>3. ApiTypes /\ Recorded /\ [Next]_vars => [Served]_vars
  <2> SUFFICES ASSUME ApiTypes, Recorded, Next, NEW c \in Clients \ Unlucky,
                      call[c].stage = "asked", call'[c].stage = "done",
                      NEW p \in DOMAIN PullsOf, call[c].command \in PullsOf[p],
                      Complete(Registry(call[c].command), p)
               PROVE  call'[c].reply.status = 200
    BY Zenon
  <2> DEFINE m == call[c].command
  <2>1. ApiTypes /\ Handle(c)
    BY AnsweredByHandler, Zenon DEF ApiTypes
  <2>2. /\ m.name \in {"pull manifest", "head manifest", "pull blob", "pull maven"}
        /\ m.name = "pull maven" => m.arg \in Seq(STRING) /\ ValidMavenPath(m.arg)
        /\ IsLogged(logs, Registry(m), PulledId(m))
    BY PullIsLogged, Zenon
  <2>3. \E content : Reply(c, Ok(content))
    <3>1. CASE m.name = "pull maven"
      <4>1. Registry(m) = "Maven2"
        BY <3>1, Zenon DEF Registry
      <4> QED
        BY <2>1, <2>2, <3>1, <4>1, FilePullServed, Zenon
    <3>2. CASE m.name # "pull maven"
      <4>1. Registry(m) = "Docker" /\ m.name \in {"pull manifest", "head manifest", "pull blob"}
        BY <2>2, <3>2, Zenon DEF Registry
      <4> QED
        BY <2>1, <2>2, <4>1, ImagePullServed, Zenon
    <3> QED
      BY <3>1, <3>2, Zenon
  <2>4. PICK content : call'[c] = [stage |-> "done", command |-> m, reply |-> Ok(content)]
    BY <2>1, <2>3, Replied, Zenon
  <2>5. call'[c].reply = Ok(content) /\ Ok(content).status = 200
    BY <2>4 DEF Ok
  <2> QED
    BY <2>5, Zenon
<1>4. QED
  BY <1>1, <1>2, <1>3, ApiKeepsTypes, PTL DEF Spec, PulledOnceBuilt

==============================================================================
