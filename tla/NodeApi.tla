------------------------------- MODULE NodeApi -------------------------------
(***************************************************************************)
(* The HTTP server of a node with its clients: the command line client,     *)
(* Docker and Maven.  A client's command becomes a request, a route and a   *)
(* handler answer it, and the client shows the answer.  The handlers call   *)
(* the artifact service; a build that was started ends and is recorded      *)
(* while other requests are handled.                                        *)
(***************************************************************************)
EXTENDS PackageIds, FiniteSets

CONSTANTS
  Clients,    \* client programs, each with one request at a time
  Commands,   \* the commands they are given: [name, arg]
  Local,      \* this node's peer id
  Peers,      \* well-formed peer ids
  FirstNodes, \* the nodes authorized when the clients start
  Urls,       \* package -> what the pipeline makes of it
  PullsOf,    \* package, as a user names it -> the commands that pull its artifacts
  MaxBuilds,  \* the builds the pipeline accepts
  Unlucky,    \* the clients whose requests may meet a fault
  Faults      \* "log": the log service fails, "start": a build does not start,
              \* "build": it fails, "fetch": no peer has the artifact,
              \* "connection": a request gets no answer, "p2p": the p2p client fails

\* The subcommands of the command line client that lead to a request; what the
\* registry clients, and curl, ask for.
CliCommands == {"authorize", "build docker", "build maven", "build status", "inspect docker",
                "inspect maven", "list", "ping", "status"}
RegistryCommands == {"post maven build", "pull manifest", "head manifest", "pull blob", "pull maven"}

ASSUME NodeApiAssumption ==
  /\ Unlucky \subseteq Clients
  /\ MaxBuilds \in Nat /\ Local \in Peers /\ FirstNodes \subseteq Peers
  /\ \A command \in Commands : command.name \in CliCommands \cup RegistryCommands

\* What Docker and Maven pull of a package: the manifest of an official image by
\* its tag or digest and, of a tag, by the hash of the manifest; its blobs by their
\* digests; the files of a Maven package below its coordinates.
IsToken(text) == text \notin {"/", ":", "@"}
IsPullOfImage(p, m) ==
  LET urls == Urls[docker_package_id(p)]
  IN  /\ Len(p) = 3 /\ p = <<p[1], IF p[3] \in Digests THEN "@" ELSE ":", p[3]>>
      /\ m.arg = <<p[1], m.arg[2]>>
      /\ IsToken(p[1]) /\ IsToken(p[3]) /\ IsToken(m.arg[2])
      /\ \/ /\ m.name \in {"pull manifest", "head manifest"}
            /\ m.arg[2] = p[3]
            /\ \E u \in urls : u.kind = "manifest"
         \/ /\ m.name \in {"pull manifest", "head manifest"}
            /\ p[3] \notin Digests /\ m.arg[2] \in Digests
            /\ [kind |-> "manifest", name |-> m.arg[2]] \in urls
         \/ /\ m.name = "pull blob"
            /\ [kind |-> "file", name |-> m.arg[2]] \in urls
IsPullOfFile(p, m) ==
  /\ m.name = "pull maven"
  /\ m.arg \in Seq(STRING) /\ \A i \in DOMAIN m.arg : IsToken(m.arg[i])
  /\ ValidMavenPath(m.arg) /\ p = maven_package_id(m.arg)
  /\ \E u \in Urls[p] : u.name = m.arg[Len(m.arg)]

ASSUME PullsAssumption ==
  \A p \in DOMAIN PullsOf : \A m \in PullsOf[p] : IsPullOfImage(p, m) \/ IsPullOfFile(p, m)

VARIABLES
  authorized,  \* the authorized nodes of the transparency log
  logs,        \* its artifacts: [type, package, artifact]
  builds,      \* started builds: [type, package, status], their index is the id
  task,        \* client -> the request_build going on for it
  call         \* client -> its request and the answer

vars == <<authorized, logs, builds, task, call>>

None == [none |-> TRUE]
NoTask == [stage |-> "none", type |-> "Docker", package |-> <<>>]
NoReply == [status |-> 0, content |-> None]
Idle == [stage |-> "idle", command |-> None, reply |-> NoReply]

Init ==
  /\ authorized = FirstNodes
  /\ logs = {}
  /\ builds = <<>>
  /\ task = [c \in Clients |-> NoTask]
  /\ call = [c \in Clients |-> Idle]

-----------------------------------------------------------------------------
(* The requests of the command line client and of the registry clients      *)

Post(path, body) == [method |-> "POST", path |-> path, body |-> body]
Get(path) == [method |-> "GET", path |-> path, body |-> None]

add_authorized_node(arg) == Post(<<"authorized_node">>, [peer_id |-> arg])
request_docker_build(arg) == Post(<<"build", "docker">>, [image |-> arg])
request_maven_build(arg) == Post(<<"build", "docker">>, [gav |-> arg])
request_build_status(arg) == Post(<<"build", "status">>, [build_id |-> arg])
inspect_docker_transparency_log(arg) == Post(<<"inspect", "docker">>, [image |-> arg])
inspect_maven_transparency_log(arg) == Post(<<"inspect", "maven">>, [gav |-> arg])
ping == Get(<<"v2">>)
peers_connected == Get(<<"peers">>)
node_status == Get(<<"status">>)

Request(command) ==
  CASE command.name = "authorize" -> add_authorized_node(command.arg)
    [] command.name = "build docker" -> request_docker_build(command.arg)
    [] command.name = "build maven" -> request_maven_build(command.arg)
    [] command.name = "post maven build" -> Post(<<"build", "maven">>, [gav |-> command.arg])
    [] command.name = "build status" -> request_build_status(command.arg)
    [] command.name = "inspect docker" -> inspect_docker_transparency_log(command.arg)
    [] command.name = "inspect maven" -> inspect_maven_transparency_log(command.arg)
    [] command.name = "ping" -> ping
    [] command.name = "list" -> peers_connected
    [] command.name = "status" -> node_status
    [] command.name = "pull manifest" -> Get(<<"v2", "library", command.arg[1], "manifests", command.arg[2]>>)
    [] command.name = "head manifest" ->
         [Get(<<"v2", "library", command.arg[1], "manifests", command.arg[2]>>) EXCEPT !.method = "HEAD"]
    [] command.name = "pull blob" -> Get(<<"v2", "library", command.arg[1], "blobs", command.arg[2]>>)
    [] command.name = "pull maven" -> Get(<<"maven2">> \o command.arg)

Ask(c, command) ==
  /\ call[c].stage = "idle"
  /\ task[c] = NoTask
  /\ call' = [call EXCEPT ![c] = [stage |-> "asked", command |-> command, reply |-> NoReply]]
  /\ UNCHANGED <<authorized, logs, builds, task>>

-----------------------------------------------------------------------------
(* Routes and answers                                                      *)

Asked(c) == Request(call[c].command)
Incoming(c, method, path) ==
  /\ call[c].stage = "asked"
  /\ Asked(c).method = method
  /\ Asked(c).path = path

\* warp::body::json: a body without the field is rejected.
Deserializes(c, field) == field \in DOMAIN Asked(c).body

ManifestRoute(c, method) ==
  /\ call[c].stage = "asked"
  /\ LET r == Asked(c)
     IN  /\ r.method = method /\ Len(r.path) = 5
         /\ SubSeq(r.path, 1, 2) = <<"v2", "library">> /\ r.path[4] = "manifests"
BlobRoute(c) ==
  /\ call[c].stage = "asked"
  /\ LET r == Asked(c)
     IN  /\ r.method = "GET" /\ Len(r.path) = 5
         /\ SubSeq(r.path, 1, 2) = <<"v2", "library">> /\ r.path[4] = "blobs"
MavenRoute(c) == call[c].stage = "asked" /\ Head(Asked(c).path) = "maven2"

\* From<...> for RegistryError: the code of an error.
RegistryErrorCode(error) ==
  IF error \in {"ArtifactAlreadyExists", "NodeAlreadyExists", "InvalidPeerId"} THEN "BadRequest"
  ELSE IF error \in {"BlobUnknown", "ManifestUnknown"} THEN error
  ELSE "Unknown"

\* custom_recover: the status of a rejection, 500 for what is not ours.
custom_recover(code) ==
  [status |-> CASE code \in {"BlobUnknown", "ManifestUnknown"} -> 404
                [] code = "BadRequest" -> 400
                [] OTHER -> 500,
   content |-> [error |-> IF code \in {"BlobUnknown", "ManifestUnknown", "BadRequest"} THEN code ELSE "Unknown"]]

Rejected(error) == custom_recover(RegistryErrorCode(error))
Ok(content) == [status |-> 200, content |-> content]

Reply(c, reply) == call' = [call EXCEPT ![c].stage = "done", ![c].reply = reply]

\* No route takes the request, or its body is not what the route expects.
RejectBody(c, path, field) ==
  /\ Incoming(c, "POST", path)
  /\ ~Deserializes(c, field)
  /\ Reply(c, custom_recover("BodyDeserializeError"))
  /\ UNCHANGED <<authorized, logs, builds, task>>

Fails(c, fault) == c \in Unlucky /\ fault \in Faults

-----------------------------------------------------------------------------
(* The handlers of the node API: swarm.rs                                  *)

handle_add_authorized_node(c) ==
  /\ Incoming(c, "POST", <<"authorized_node">>)
  /\ Deserializes(c, "peer_id")
  /\ LET node == Asked(c).body.peer_id
     IN  \/ /\ node \notin Peers
            /\ Reply(c, Rejected("InvalidPeerId"))
            /\ UNCHANGED authorized
         \/ /\ node \in authorized
            /\ Reply(c, Rejected("NodeAlreadyExists"))
            /\ UNCHANGED authorized
         \/ /\ node \in Peers \ authorized
            /\ authorized' = authorized \cup {node}
            /\ Reply(c, [status |-> 201, content |-> None])
         \/ /\ Fails(c, "log")
            /\ node \in Peers
            /\ Reply(c, Rejected("LogFailed"))
            /\ UNCHANGED authorized
  /\ UNCHANGED <<logs, builds, task>>

StartTask(c, type, package) ==
  task' = [task EXCEPT ![c] = [stage |-> "check", type |-> type, package |-> package]]
AwaitTask(c) == call' = [call EXCEPT ![c].stage = "building"]

handle_build_docker(c) ==
  /\ Incoming(c, "POST", <<"build", "docker">>)
  /\ Deserializes(c, "image")
  /\ StartTask(c, "Docker", docker_package_id(Asked(c).body.image))
  /\ AwaitTask(c)
  /\ UNCHANGED <<authorized, logs, builds>>

handle_build_maven(c) ==
  /\ Incoming(c, "POST", <<"build", "maven">>)
  /\ Deserializes(c, "gav")
  /\ StartTask(c, "Maven2", Asked(c).body.gav)
  /\ AwaitTask(c)
  /\ UNCHANGED <<authorized, logs, builds>>

\* Asks the build service here or on an authorized peer.  With no authorized node
\* it panics, and the connection is closed without an answer.
get_build_status(c, id) ==
  \/ /\ authorized = {}
     /\ Reply(c, NoReply)
  \/ /\ authorized # {} /\ id \in DOMAIN builds
     /\ Reply(c, Ok([build_status |-> builds[id].status]))
  \/ /\ authorized # {} /\ (id \notin DOMAIN builds \/ Fails(c, "p2p"))
     /\ Reply(c, Rejected("BuildStatusFailed"))

handle_build_status(c) ==
  /\ Incoming(c, "POST", <<"build", "status">>)
  /\ Deserializes(c, "build_id")
  /\ get_build_status(c, Asked(c).body.build_id)
  /\ UNCHANGED <<authorized, logs, builds, task>>

\* handle_get_peers and handle_get_status ask the p2p loop.
handle_get_peers(c) ==
  /\ Incoming(c, "GET", <<"peers">>)
  /\ \/ Reply(c, Ok([peers |-> TRUE]))
     \/ Fails(c, "p2p") /\ Reply(c, Rejected("Anyhow"))
  /\ UNCHANGED <<authorized, logs, builds, task>>

handle_get_status(c) ==
  /\ Incoming(c, "GET", <<"status">>)
  /\ \/ Reply(c, Ok([peers_count |-> TRUE]))
     \/ Fails(c, "p2p") /\ Reply(c, Rejected("Anyhow"))
  /\ UNCHANGED <<authorized, logs, builds, task>>

\* What a build is going to record.
ArtifactsOf(b) ==
  UNION {Range(artifact_specific_ids(builds[b].type, builds[b].package, u)) : u \in Urls[builds[b].package]}

LogsOf(type, package) == {l \in logs : l.type = type /\ l.package = package}

\* The log, or its last build only; "Perhaps, not all log records have been inserted
\* into the database yet" is the error of the latter.
search_transparency_logs(c, type, package) ==
  \/ Reply(c, Ok([logs |-> TRUE]))
  \/ /\ LogsOf(type, package) # {}
     /\ \E b \in DOMAIN builds :
          /\ builds[b].type = type /\ builds[b].package = package
          /\ ~(ArtifactsOf(b) \subseteq {l.artifact : l \in LogsOf(type, package)})
     /\ Reply(c, Rejected("LogFailed"))
  \/ Fails(c, "log") /\ Reply(c, Rejected("LogFailed"))

Inspect(c, path, field, type, package) ==
  /\ Incoming(c, "POST", path)
  /\ Deserializes(c, field)
  /\ search_transparency_logs(c, type, package)
  /\ UNCHANGED <<authorized, logs, builds, task>>

handle_inspect_log_docker(c) ==
  Inspect(c, <<"inspect", "docker">>, "image", "Docker", docker_package_id(Asked(c).body.image))
handle_inspect_log_maven(c) ==
  Inspect(c, <<"inspect", "maven">>, "gav", "Maven2", Asked(c).body.gav)

v2_base(c) ==
  /\ Incoming(c, "GET", <<"v2">>)
  /\ Reply(c, Ok(None))
  /\ UNCHANGED <<authorized, logs, builds, task>>

-----------------------------------------------------------------------------
(* The registries                                                          *)

\* get_artifact: the log knows it, and it is stored or some peer sends it.
Serves(c, type, artifact) ==
  /\ \E l \in logs : l.type = type /\ l.artifact = artifact
  /\ Reply(c, Ok([artifact |-> artifact]))
  /\ UNCHANGED task
Misses(c, type, artifact) ==
  \/ ~\E l \in logs : l.type = type /\ l.artifact = artifact
  \/ Fails(c, "fetch")

\* get_artifact_or_build: a miss is answered at once, and a build requested.
get_artifact_or_build(c, type, package, artifact, error) ==
  \/ Serves(c, type, artifact)
  \/ /\ Misses(c, type, artifact)
     /\ StartTask(c, type, package)
     /\ Reply(c, Rejected(error))

fetch_manifest_or_build(c) ==
  /\ ManifestRoute(c, "GET")
  /\ LET id == manifest_artifact_id(Asked(c).path[3], Asked(c).path[5])
     IN  get_artifact_or_build(c, "Docker", id, id, "ManifestUnknown")
  /\ UNCHANGED <<authorized, logs, builds>>

fetch_manifest(c) ==
  /\ ManifestRoute(c, "HEAD")
  /\ LET id == manifest_artifact_id(Asked(c).path[3], Asked(c).path[5])
     IN  \/ Serves(c, "Docker", id)
         \/ /\ Misses(c, "Docker", id)
            /\ Reply(c, Rejected("ManifestUnknown"))
            /\ UNCHANGED task
  /\ UNCHANGED <<authorized, logs, builds>>

handle_get_blobs(c) ==
  /\ BlobRoute(c)
  /\ LET id == blob_artifact_id(Asked(c).path[3], Asked(c).path[5])
     IN  get_artifact_or_build(c, "Docker", id, id, "BlobUnknown")
  /\ UNCHANGED <<authorized, logs, builds>>

handle_get_maven_artifact(c) ==
  /\ MavenRoute(c)
  /\ LET pieces == Tail(Asked(c).path)
     IN  \/ /\ ValidMavenPath(pieces)
            /\ get_artifact_or_build(c, "Maven2", maven_package_id(pieces),
                                     maven_artifact_id(pieces), "Anyhow")
         \/ /\ ~ValidMavenPath(pieces)
            /\ Reply(c, Rejected("InvalidPath"))
            /\ UNCHANGED task
  /\ UNCHANGED <<authorized, logs, builds>>

-----------------------------------------------------------------------------
(* request_build of the artifact service, and what becomes of the build     *)

\* handle_err_artifact_already_exists, for a handler that waits.
BuildReply(result) ==
  IF "build_id" \in DOMAIN result THEN Ok(result)
  ELSE IF result.error = "ArtifactAlreadyExists"
       THEN [status |-> 302, content |-> [message |-> "Artifact already exists"]]
       ELSE Rejected(result.error)

EndTask(c, result) ==
  /\ task' = [task EXCEPT ![c] = NoTask]
  /\ IF call[c].stage = "building" THEN Reply(c, BuildReply(result)) ELSE UNCHANGED call

\* Up to the first await.  Any error of the duplicate check counts as a duplicate.
CheckBuild(c) ==
  /\ task[c].stage = "check"
  /\ \/ /\ authorized = {} \/ Fails(c, "log")
        /\ EndTask(c, [error |-> "InitializationFailed"])
     \/ /\ authorized # {}
        /\ LogsOf(task[c].type, task[c].package) # {} \/ Fails(c, "log")
        /\ EndTask(c, [error |-> "ArtifactAlreadyExists"])
     \/ /\ authorized # {}
        /\ LogsOf(task[c].type, task[c].package) = {}
        /\ task' = [task EXCEPT ![c].stage = "start"]
        /\ UNCHANGED call
  /\ UNCHANGED <<authorized, logs, builds>>

\* start_build here, or request_build of an authorized peer.
StartBuild(c) ==
  /\ task[c].stage = "start"
  /\ LET known == task[c].package \in DOMAIN Urls /\ Len(builds) < MaxBuilds
     IN  \/ /\ known
            /\ builds' = Append(builds, [type |-> task[c].type, package |-> task[c].package,
                                         status |-> "Running", recorded |-> {}])
            /\ EndTask(c, [build_id |-> Len(builds) + 1])
         \/ /\ ~known \/ Fails(c, "start")
            /\ EndTask(c, [error |-> "InitializationFailed"])
            /\ UNCHANGED builds
  /\ UNCHANGED <<authorized, logs>>

PipelineEnds(b) ==
  /\ builds[b].status = "Running"
  /\ \E s \in {"Success"} \cup (IF "build" \in Faults THEN {"Failure"} ELSE {}) :
       builds' = [builds EXCEPT ![b].status = s]
  /\ UNCHANGED <<authorized, logs, task, call>>

\* The artifacts of a build get into the log one by one: handle_build_result, or
\* handle_block_added when another node made the build.
RecordArtifact(b, a) ==
  /\ builds[b].status = "Success"
  /\ a \in ArtifactsOf(b) \ builds[b].recorded
  /\ builds' = [builds EXCEPT ![b].recorded = @ \cup {a}]
  /\ logs' = logs \cup {[type |-> builds[b].type, package |-> builds[b].package, artifact |-> a]}
  /\ UNCHANGED <<authorized, task, call>>

-----------------------------------------------------------------------------
(* What a client makes of the answer                                       *)

\* error_for_status_with_body; a request without an answer is an error as well.
IsError(reply) == reply = NoReply \/ reply.status \in 400 .. 599

\* The handlers of the command line client.  ping and list do not look at the
\* status of the answer.
Shown(command, reply) ==
  CASE command.name \in {"ping", "list"} -> IF reply = NoReply THEN "failed" ELSE "connected"
    [] OTHER -> IF IsError(reply) THEN "failed"
                ELSE IF "build_id" \in DOMAIN reply.content THEN "started"
                ELSE IF "message" \in DOMAIN reply.content THEN "exists"
                ELSE "done"

Lost(c) ==
  /\ Fails(c, "connection")
  /\ call[c].stage = "asked"
  /\ Reply(c, NoReply)
  /\ UNCHANGED <<authorized, logs, builds, task>>

Show(c) ==
  /\ call[c].stage = "done"
  /\ call' = [call EXCEPT ![c] = Idle]
  /\ UNCHANGED <<authorized, logs, builds, task>>

Bodies == {<<<<"authorized_node">>, "peer_id">>, <<<<"build", "docker">>, "image">>,
           <<<<"build", "maven">>, "gav">>, <<<<"build", "status">>, "build_id">>,
           <<<<"inspect", "docker">>, "image">>, <<<<"inspect", "maven">>, "gav">>}

Handle(c) ==
  \/ handle_add_authorized_node(c) \/ handle_build_docker(c) \/ handle_build_maven(c)
  \/ handle_build_status(c) \/ handle_get_peers(c) \/ handle_get_status(c)
  \/ handle_inspect_log_docker(c) \/ handle_inspect_log_maven(c) \/ v2_base(c)
  \/ fetch_manifest_or_build(c) \/ fetch_manifest(c) \/ handle_get_blobs(c)
  \/ handle_get_maven_artifact(c)
  \/ \E r \in Bodies : RejectBody(c, r[1], r[2])

Run(c) == Handle(c) \/ CheckBuild(c) \/ StartBuild(c)
Progress(b) == PipelineEnds(b) \/ \E a \in ArtifactsOf(b) : RecordArtifact(b, a)

Next ==
  \/ \E c \in Clients :
       \/ \E command \in Commands : Ask(c, command)
       \/ Run(c)
       \/ Lost(c) \/ Show(c)
  \/ \E b \in DOMAIN builds : Progress(b)

Spec == Init /\ [][Next]_vars
FairSpec ==
  /\ Spec
  /\ \A c \in Clients : WF_vars(Run(c)) /\ WF_vars(Show(c))
  /\ \A b \in 1 .. MaxBuilds : WF_vars(b \in DOMAIN builds /\ Progress(b))

-----------------------------------------------------------------------------
(* Properties                                                              *)

TypeOK ==
  /\ authorized \subseteq Peers
  /\ \A l \in logs : \E b \in DOMAIN builds :
       builds[b].type = l.type /\ builds[b].package = l.package /\ l.artifact \in builds[b].recorded
  /\ Len(builds) <= MaxBuilds
  /\ \A b \in DOMAIN builds : builds[b].status \in {"Running", "Success", "Failure"}
  /\ \A c \in Clients :
       /\ task[c].stage \in {"none", "check", "start"}
       /\ call[c].stage \in {"idle", "asked", "building", "done"}
       /\ call[c].stage = "building" => task[c] # NoTask

\* A command of the command line client reaches a route that understands it: it is
\* not refused for its body.
CommandsUnderstood ==
  \A c \in Clients :
    call[c].stage = "asked" /\ Asked(c).method = "POST"
      => \E r \in Bodies : Asked(c).path = r[1] /\ Deserializes(c, r[2])

\* The build that the pulls of a package wait for: what the node API, or a miss,
\* makes of the package, with all its artifacts recorded.
Registry(command) == IF command.name = "pull maven" THEN "Maven2" ELSE "Docker"
Complete(type, package) ==
  \E b \in DOMAIN builds :
    /\ builds[b].type = type
    /\ builds[b].package = IF type = "Docker" THEN docker_package_id(package) ELSE package
    /\ builds[b].status = "Success"
    /\ builds[b].recorded = ArtifactsOf(b)

\* The registries look artifacts up under the names the build gave them: once all
\* artifacts of a package are recorded no pull of it is answered with an error,
\* whatever fails for other clients.
PulledOnceBuilt ==
  [][\A c \in Clients \ Unlucky :
       /\ call[c].stage = "asked" /\ call'[c].stage = "done"
       /\ \E p \in DOMAIN PullsOf :
            call[c].command \in PullsOf[p] /\ Complete(Registry(call[c].command), p)
       => call'[c].reply.status = 200]_vars

\* "A new build will be started. Try again later": a client that keeps pulling a
\* package the pipeline can build is served in the end.
PullServed ==
  \A p \in DOMAIN PullsOf : \A m \in PullsOf[p] :
    (\E c \in Clients : []<>(call[c].stage = "asked" /\ call[c].command = m))
      => <>(\E c \in Clients : call[c].command = m /\ call[c].reply.status = 200)
=============================================================================
