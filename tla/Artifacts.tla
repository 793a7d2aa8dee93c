------------------------------ MODULE Artifacts ------------------------------
(***************************************************************************)
(* One artifact in the network: the node that built it stores and provides  *)
(* it, and other nodes get it, from their storage or from a peer, and check *)
(* it against the hash in the transparency log.                             *)
(*                                                                         *)
(* A file is written in two steps, its creation and the copying of its      *)
(* contents, with readers in between: requests run on several threads.      *)
(***************************************************************************)
EXTENDS Naturals, FiniteSets

CONSTANTS
  Nodes,
  Builder,     \* the node that has built the artifact
  Gets,        \* calls of get_artifact, each repeated by its client on an error
  Home,        \* per call the node it is made on
  Load,        \* per node its idle metric
  Threshold,   \* PEER_METRIC_THRESHOLD
  MaxStops,    \* bound: how many nodes stop
  Faults       \* subset of FaultKinds

FaultKinds ==
  { "request",  \* a peer does not answer
    "disk",     \* copying the contents into a file fails
    "crash"     \* a node stops
  }

ASSUME ArtifactsAssumption ==
  /\ Builder \in Nodes
  /\ Home \in [Gets -> Nodes]
  /\ Load \in [Nodes -> Nat] /\ Threshold \in Nat /\ MaxStops \in Nat
  /\ Faults \subseteq FaultKinds

VARIABLES
  file,       \* per node its file of the artifact: none, part or whole
  building,   \* how far the builder is in storing the artifact
  providers,  \* the nodes that are providers in the DHT
  get,        \* per call its stage, the peers in hand and the data read
  stopped     \* bound: the nodes that were stopped, each at most once

vars == <<file, building, providers, get, stopped>>

Fresh == [stage |-> "new", asked |-> {}, idle |-> {}, peer |-> "none", data |-> "none"]

Init ==
  /\ file = [n \in Nodes |-> "none"]
  /\ building = "create"
  /\ providers = {}
  /\ get = [t \in Gets |-> Fresh]
  /\ stopped = {}

Goto(t, stage) == get' = [get EXCEPT ![t].stage = stage]
GotoWith(t, stage, data) == get' = [get EXCEPT ![t].stage = stage, ![t].data = data]

-----------------------------------------------------------------------------
(* The builder: put_artifact_from_build_result, then provide                *)

\* Mutant: provided before it is stored.
BuildCreateProvided ==
  /\ building = "create"
  /\ file' = [file EXCEPT ![Builder] = "part"]
  /\ providers' = providers \cup {Builder}
  /\ building' = "write"
  /\ UNCHANGED <<get, stopped>>

BuildCreate ==
  /\ building = "create"
  /\ file' = [file EXCEPT ![Builder] = "part"]
  /\ building' = "write"
  /\ UNCHANGED <<providers, get, stopped>>

BuildWrite ==
  /\ building = "write"
  /\ file' = [file EXCEPT ![Builder] = "whole"]
  /\ building' = "provide"
  /\ UNCHANGED <<providers, get, stopped>>

\* The copy or the flush of push_artifact fails: what was written stays, and nothing is
\* provided.  (That provide itself fails is in module Builds.)
BuildWriteFails ==
  /\ "disk" \in Faults
  /\ building = "write"
  /\ building' = "failed"
  /\ UNCHANGED <<file, providers, get, stopped>>

\* Mutant: never provided.
BuildProvideForgotten ==
  /\ building = "provide"
  /\ building' = "done"
  /\ UNCHANGED <<file, providers, get, stopped>>

BuildProvide ==
  /\ building = "provide"
  /\ providers' = providers \cup {Builder}
  /\ building' = "done"
  /\ UNCHANGED <<file, get, stopped>>

-----------------------------------------------------------------------------
(* get_artifact                                                            *)

\* get_artifact_locally: whatever is in the file at this moment.
ReadLocally(t) ==
  /\ get[t].stage = "new"
  /\ IF file[Home[t]] = "none" THEN Goto(t, "find") ELSE GotoWith(t, "verify", file[Home[t]])
  /\ UNCHANGED <<file, building, providers, stopped>>

\* list_providers: the providers the query finds.
ListProviders(t) ==
  /\ get[t].stage = "find"
  /\ \E S \in SUBSET providers : get' = [get EXCEPT ![t].stage = "choose", ![t].asked = S]
  /\ UNCHANGED <<file, building, providers, stopped>>

\* get_idle_peer asks one provider after the other, in the order of a HashSet, and takes the
\* first below the threshold.
AskIdle(t) ==
  /\ get[t].stage = "choose"
  /\ \E x \in get[t].asked :
       IF Load[x] < Threshold
       THEN get' = [get EXCEPT ![t].stage = "request", ![t].asked = @ \ {x}, ![t].peer = x]
       ELSE get' = [get EXCEPT ![t].asked = @ \ {x}, ![t].idle = @ \cup {x}]
  /\ UNCHANGED <<file, building, providers, stopped>>

\* A provider that does not answer is left out.
AskFails(t) ==
  /\ "request" \in Faults
  /\ get[t].stage = "choose"
  /\ \E x \in get[t].asked : get' = [get EXCEPT ![t].asked = @ \ {x}]
  /\ UNCHANGED <<file, building, providers, stopped>>

\* Mutant: sorted in descending order.
FirstOfSortedDown(peers) == {x \in peers : \A y \in peers : Load[x] >= Load[y]}

\* The peers that may come first when they are sorted by their idle metric.
FirstOfSorted(peers) == {x \in peers : \A y \in peers : Load[x] <= Load[y]}

\* All were asked and none is below the threshold: the least loaded one, if any answered.
ChoosePeer(t) ==
  /\ get[t].stage = "choose"
  /\ get[t].asked = {}
  /\ IF get[t].idle = {} THEN Goto(t, "error")
     ELSE \E x \in FirstOfSorted(get[t].idle) :
            get' = [get EXCEPT ![t].stage = "request", ![t].peer = x]
  /\ UNCHANGED <<file, building, providers, stopped>>

\* request_artifact: the peer answers with its file as it is at that moment, or
\* not at all when it has none.
RequestArtifact(t) ==
  /\ get[t].stage = "request"
  /\ IF file[get[t].peer] = "none" THEN Goto(t, "error") ELSE GotoWith(t, "put", file[get[t].peer])
  /\ UNCHANGED <<file, building, providers, stopped>>

RequestFails(t) ==
  /\ "request" \in Faults
  /\ get[t].stage = "request"
  /\ Goto(t, "error")
  /\ UNCHANGED <<file, building, providers, stopped>>

\* Mutant: an existing file is overwritten.
CreateFileAnyway(t) ==
  /\ get[t].stage = "put"
  /\ file' = [file EXCEPT ![Home[t]] = "part"]
  /\ Goto(t, "write")
  /\ UNCHANGED <<building, providers, stopped>>

\* create_artifact_file: an error when there is a file already.
CreateFile(t) ==
  /\ get[t].stage = "put"
  /\ IF file[Home[t]] = "none"
     THEN file' = [file EXCEPT ![Home[t]] = "part"] /\ Goto(t, "write")
     ELSE Goto(t, "error") /\ UNCHANGED file
  /\ UNCHANGED <<building, providers, stopped>>

\* push_artifact: what was received is copied into the file.
WriteFile(t) ==
  /\ get[t].stage = "write"
  /\ file' = [file EXCEPT ![Home[t]] = get[t].data]
  /\ Goto(t, "reread")
  /\ UNCHANGED <<building, providers, stopped>>

\* The copy or the flush of push_artifact fails: what was written stays in the file.
WriteFails(t) ==
  /\ "disk" \in Faults
  /\ get[t].stage = "write"
  /\ Goto(t, "error")
  /\ UNCHANGED <<file, building, providers, stopped>>

ReadAgain(t) ==
  /\ get[t].stage = "reread"
  /\ GotoWith(t, "verify", file[Home[t]])
  /\ UNCHANGED <<file, building, providers, stopped>>

\* verify_artifact: only the whole artifact has the hash of the log.
VerifyArtifact(t) ==
  /\ get[t].stage = "verify"
  /\ Goto(t, IF get[t].data = "whole" THEN "served" ELSE "error")
  /\ UNCHANGED <<file, building, providers, stopped>>

\* The client tries again.
Retry(t) ==
  /\ get[t].stage = "error"
  /\ get' = [get EXCEPT ![t] = Fresh]
  /\ UNCHANGED <<file, building, providers, stopped>>

\* A node stops and starts: its requests end, its files stay, and
\* provide_local_artifacts provides every file there is.  A builder that stops
\* before it is done is in module Builds.
Restart(n) ==
  /\ "crash" \in Faults
  /\ n \notin stopped /\ Cardinality(stopped) < MaxStops
  /\ stopped' = stopped \cup {n}
  /\ n # Builder \/ building \in {"done", "failed"}
  /\ get' = [t \in Gets |-> IF Home[t] = n /\ get[t].stage # "served"
                            THEN [Fresh EXCEPT !.stage = "error"] ELSE get[t]]
  /\ providers' = IF file[n] = "none" THEN providers ELSE providers \cup {n}
  /\ UNCHANGED <<file, building>>

-----------------------------------------------------------------------------
Build == BuildCreate \/ BuildWrite \/ BuildWriteFails \/ BuildProvide

Get(t) ==
  \/ ReadLocally(t) \/ ListProviders(t) \/ AskIdle(t) \/ AskFails(t) \/ ChoosePeer(t)
  \/ RequestArtifact(t) \/ RequestFails(t) \/ CreateFile(t) \/ WriteFile(t)
  \/ WriteFails(t) \/ ReadAgain(t) \/ VerifyArtifact(t) \/ Retry(t)

Next == Build \/ (\E t \in Gets : Get(t)) \/ (\E n \in Nodes : Restart(n))

Spec == Init /\ [][Next]_vars

\* Handlers go on, clients try again, and a query that can find a provider, or a
\* request that can succeed, does so some day.
FairSpec ==
  /\ Spec
  /\ WF_vars(Build)
  /\ \A t \in Gets :
       /\ WF_vars(Get(t))
       /\ SF_vars(ListProviders(t) /\ get'[t].asked # {})
       /\ SF_vars(AskIdle(t))
       /\ SF_vars(RequestArtifact(t))

-----------------------------------------------------------------------------
(* Properties                                                              *)

TypeOK ==
  /\ file \in [Nodes -> {"none", "part", "whole"}]
  /\ building \in {"create", "write", "provide", "done", "failed"}
  /\ providers \subseteq Nodes
  /\ \A t \in Gets :
       /\ get[t].stage \in {"new", "find", "choose", "request", "put", "write", "reread",
                            "verify", "served", "error"}
       /\ get[t].asked \subseteq Nodes /\ get[t].idle \subseteq Nodes
       /\ get[t].peer \in Nodes \cup {"none"}
       /\ get[t].stage \in {"put", "write", "verify"} => get[t].data \in {"part", "whole"}

\* "get a peer with a low enough work load to download artifact otherwise the
\* lowest work load of the set".
IdleOrLowest ==
  \A t \in Gets : get[t].stage = "request" =>
    \/ Load[get[t].peer] < Threshold
    \/ /\ get[t].asked = {}
       /\ \A x \in get[t].idle : Threshold <= Load[x] /\ Load[get[t].peer] <= Load[x]

\* A file that is whole is never touched again, by whatever downloads.
WholeStays == [][\A n \in Nodes : file[n] = "whole" => file'[n] = "whole"]_vars

\* A node that provides has the whole artifact, unless it was restarted: then it
\* provides what it finds in its storage.
ProvidersHaveIt == \A n \in providers \ stopped : file[n] = "whole"

\* "If the artifact is not available locally, the service will try to fetch the
\* artifact from the p2p network": a client that tries again gets it some day.
EventuallyServed == \A t \in Gets : <>(get[t].stage = "served")

\* A part of the artifact in a file nobody writes any more: left by a failed copy, by a
\* stop, or received from a provider that had no more.
Torn(n) ==
  /\ file[n] = "part"
  /\ ~(n = Builder /\ building = "write")
  /\ \A t \in Gets : Home[t] = n => get[t].stage # "write"

\* The same, unless the file on the node of the call, or on the builder, is torn: with the
\* files in order, calls that fail, files that are read while they are written, busy
\* providers and nodes that stop only delay it.
ServedUnlessTorn ==
  \A t \in Gets : [](~Torn(Home[t]) /\ ~Torn(Builder)) => <>(get[t].stage = "served")
=============================================================================
