------------------------------ MODULE PeerLoop ------------------------------
(***************************************************************************)
(* The p2p event loop of one node (network/event_loop.rs), the client that  *)
(* sends it commands (network/client.rs), and the requests of other peers  *)
(* that it passes to the loop of main.rs and whose answers come back.      *)
(*                                                                         *)
(* A call of a client method puts a command and a one-shot sender in the   *)
(* channel of the loop and waits.  The loop answers at once or keeps the   *)
(* sender in a map until libp2p reports the outcome.  A sender that is     *)
(* dropped wakes its caller with an error.  Where the code says `expect`   *)
(* the loop may panic: then all it holds is dropped.                       *)
(*                                                                         *)
(* A call stands for its sender and for the id of its query or request.    *)
(* The slots of the two channels are the subject of module EventLoops.     *)
(***************************************************************************)
EXTENDS Naturals, Sequences, FiniteSets

CONSTANTS
  Calls,       \* calls of client methods, each made at most once
  Methods,     \* the commands these calls may send
  Peers,       \* other peers
  NoPeer,      \* no peer
  Inbound,     \* requests and gossip of other peers
  InboundKinds,\* what they may be
  MaxKeys,     \* kademlia's max_provided_keys
  MaxActive,   \* bound: the calls and inbound messages of a behaviour
  Faults       \* what else may happen, see FaultKinds

FaultKinds ==
  { "cancel",     \* the task that waits for an answer is dropped
    "late",       \* a peer gives up on its request before it is answered
    "dht",        \* a query of the DHT, or one step of it, times out
    "incoming"    \* a peer opens a connection to this node
  }

Protocols == {"artifact", "build", "idle_metric", "blockchain", "build_status"}
Topics == {"build_topic", "blockchain_topic"}

\* The command that sends a request of each protocol.
RequestOf ==
  [artifact |-> "RequestArtifact", build |-> "RequestBuild",
   idle_metric |-> "RequestIdleMetric", blockchain |-> "RequestBlockchain",
   build_status |-> "RequestBuildStatus"]

Commands ==
  {"AddProbe", "BootstrapDht", "Listen", "Dial", "ListPeers", "Status", "Provide",
   "ListProviders", "VerifyBuild", "BroadcastBlock"}
  \cup {RequestOf[r] : r \in Protocols}

\* The maps of the loop that are keyed by a query or a request.
Maps == {"bootstrap", "start_providing", "list_providers"} \cup Protocols

ASSUME PeerLoopAssumption ==
  /\ Methods \subseteq Commands \ {"BootstrapDht"}
  /\ InboundKinds \subseteq Protocols \cup Topics
  /\ MaxKeys \in Nat /\ MaxActive \in Nat
  /\ Faults \subseteq FaultKinds
  /\ NoPeer \notin Peers

VARIABLES
  panic,         \* the expectation that failed and ended the loop, or Alive
  calls,         \* per call its command, its peer and how far it is
  commands,      \* the channel to the loop: <<command, call or inbound>>
  events,        \* the channel to main
  pending,       \* the senders kept per map
  pendingDial,   \* pending_dial: at most one sender per peer
  bootstrapped,  \* the flag of that name
  swarm,         \* libp2p: see Swarm
  inbound        \* per inbound message its kind, stage, and whether its channel is open

clientVars == <<calls, commands>>
loopVars == <<pending, pendingDial, bootstrapped>>
vars == <<panic, calls, commands, events, pending, pendingDial, bootstrapped, swarm, inbound>>

\* The expectations of the loop, each an expect or unwrap in its code.
Expectations ==
  { "query_pending",    \* "Completed query to be previously pending."
    "bootstrap_pending",\* the same of a bootstrap
    "request_pending",  \* "Request to still be pending."
    "still_open",       \* "Connection to peer to be still open."
    "no_store_error",   \* "No store error."
    "status_sent"       \* the unwrap of the answer to Status
  }
Alive == "none"
running == panic = Alive

CallStage == {"new", "waiting", "dialed", "ok", "err", "gone", "panicked"}
Returned == {"ok", "err", "gone", "panicked"}

InboundStage == {"new", "event", "handling", "responding", "done"}

\* What libp2p keeps for this node: dials on their way, open connections, AutoNAT
\* servers, peers in the routing table, keys in the store of provider records, queries
\* and requests, bootstraps past their first step, and the queries that timed out.
Swarm == [dialing : SUBSET Peers, connected : SUBSET Peers, servers : SUBSET Peers,
          routing : SUBSET Peers, keys : 0 .. MaxKeys, inflight : [Maps -> SUBSET Calls],
          refreshing : SUBSET Calls, timedout : SUBSET Calls]

Init ==
  /\ panic = Alive
  /\ calls = [c \in Calls |-> [command |-> "none", peer |-> NoPeer, stage |-> "new"]]
  /\ commands = <<>>
  /\ events = <<>>
  /\ pending = [m \in Maps |-> {}]
  /\ pendingDial = [p \in {} |-> NoPeer]
  /\ bootstrapped = FALSE
  /\ swarm = [dialing |-> {}, connected |-> {}, servers |-> {}, routing |-> {}, keys |-> 0,
              inflight |-> [m \in Maps |-> {}], refreshing |-> {}, timedout |-> {}]
  /\ inbound = [i \in Inbound |-> [kind |-> "none", stage |-> "new", open |-> FALSE]]

\* The queries and requests when one of them is started, or ended.
Begun(m, c) == [swarm.inflight EXCEPT ![m] = @ \cup {c}]
Ended(m, c) == [swarm.inflight EXCEPT ![m] = @ \ {c}]

\* Within the bound on what goes on in a behaviour.
InBound ==
  Cardinality({c \in Calls : calls[c].stage # "new"})
    + Cardinality({i \in Inbound : inbound[i].stage # "new"}) < MaxActive

-----------------------------------------------------------------------------
(* The client                                                              *)

\* Send a command with the sender of call c; the channel is closed when the
\* loop has ended.
Send(c, command, p) ==
  IF running
  THEN /\ calls' = [calls EXCEPT ![c] = [command |-> command, peer |-> p, stage |-> "waiting"]]
       /\ commands' = Append(commands, <<command, c>>)
  ELSE /\ calls' = [calls EXCEPT ![c] = [command |-> command, peer |-> p, stage |-> "err"]]
       /\ UNCHANGED commands

Call(c, command, p) ==
  /\ calls[c].stage = "new"
  /\ InBound
  /\ command \in Methods
  /\ Send(c, command, p)
  /\ UNCHANGED <<panic, events, loopVars, swarm, inbound>>

add_probe_address(c) == \E p \in Peers : Call(c, "AddProbe", p)
listen(c) == Call(c, "Listen", NoPeer)
dial(c) == \E p \in Peers : Call(c, "Dial", p)
list_peers(c) == Call(c, "ListPeers", NoPeer)
status(c) == Call(c, "Status", NoPeer)
provide(c) == Call(c, "Provide", NoPeer)
list_providers(c) == Call(c, "ListProviders", NoPeer)
request_build(c) == Call(c, "RequestBuild", NoPeer)
verify_build(c) == Call(c, "VerifyBuild", NoPeer)
request_artifact(c) == Call(c, "RequestArtifact", NoPeer)
get_idle_peer(c) == Call(c, "RequestIdleMetric", NoPeer)
request_blockchain(c) == Call(c, "RequestBlockchain", NoPeer)
broadcast_block(c) == Call(c, "BroadcastBlock", NoPeer)
request_build_status(c) == Call(c, "RequestBuildStatus", NoPeer)

\* The second half of add_probe_address and dial.
Bootstrap(c) ==
  /\ calls[c].stage = "dialed"
  /\ Send(c, "BootstrapDht", calls[c].peer)
  /\ UNCHANGED <<panic, events, loopVars, swarm, inbound>>

\* The future of the caller is dropped, as when an HTTP connection closes.
Cancel(c) ==
  /\ "cancel" \in Faults
  /\ calls[c].stage = "waiting"
  /\ calls' = [calls EXCEPT ![c].stage = "gone"]
  /\ UNCHANGED <<panic, commands, events, loopVars, swarm, inbound>>

\* The result that reaches the caller, if there still is one.
Answered(c, result) ==
  [calls EXCEPT ![c].stage =
     CASE @ # "waiting" -> @
       [] @ = "waiting" /\ result = "ok" /\ calls[c].command \in {"AddProbe", "Dial"} -> "dialed"
       [] OTHER -> result]

-----------------------------------------------------------------------------
(* A panic of the loop                                                     *)

\* Everything the loop owns is dropped.  get_idle_peer expects its sender not to be.
Panic(message) ==
  /\ panic' = message
  /\ calls' = [c \in Calls |->
                 IF calls[c].stage # "waiting" THEN calls[c]
                 ELSE [calls[c] EXCEPT !.stage =
                         IF calls[c].command = "RequestIdleMetric" THEN "panicked" ELSE "err"]]
  /\ commands' = <<>>
  /\ pending' = [m \in Maps |-> {}]
  /\ pendingDial' = [p \in {} |-> NoPeer]
  /\ UNCHANGED bootstrapped

\* The sender of c is removed from the map and answered; it is expected to be there.
AnswerKept(m, c, result, expectation) ==
  IF c \in pending[m]
  THEN /\ pending' = [pending EXCEPT ![m] = @ \ {c}]
       /\ calls' = Answered(c, result)
       /\ UNCHANGED <<panic, commands, pendingDial, bootstrapped>>
  ELSE Panic(expectation)

\* libp2p reports the outcome of a query or request.
Complete(m, c, result, expectation) ==
  /\ running
  /\ c \in swarm.inflight[m]
  /\ swarm' = [swarm EXCEPT !.inflight = Ended(m, c)]
  /\ AnswerKept(m, c, result, expectation)
  /\ UNCHANGED <<events, inbound>>

-----------------------------------------------------------------------------
(* handle_command: one action per command                                  *)

Handles(command, id) ==
  /\ running
  /\ commands # <<>>
  /\ Head(commands) = <<command, id>>

\* The command is done with: no sender was kept.
Taken == /\ commands' = Tail(commands)
         /\ UNCHANGED <<panic, events, inbound>>

\* A sender that is neither kept nor used is dropped at the end of its arm.
DropSender(c) == /\ calls' = Answered(c, "err")
                 /\ UNCHANGED <<loopVars, swarm>>

KeepDial(c) ==
  /\ pendingDial' = [p \in DOMAIN pendingDial \cup {calls[c].peer} |->
                       IF p = calls[c].peer THEN c ELSE pendingDial[p]]
  /\ UNCHANGED <<calls, pending, bootstrapped>>

\* A query or request is started, and its sender kept.
Start(m, c) == swarm' = [swarm EXCEPT !.inflight = Begun(m, c)]
Keep(m, c) == /\ pending' = [pending EXCEPT ![m] = @ \cup {c}]
              /\ UNCHANGED <<calls, pendingDial>>

AddProbe(c) ==
  /\ Handles("AddProbe", c)
  /\ Taken
  /\ \/ /\ calls[c].peer \notin DOMAIN pendingDial
        /\ KeepDial(c)
        /\ swarm' = [swarm EXCEPT !.servers = @ \cup {calls[c].peer}]
     \/ /\ calls[c].peer \in DOMAIN pendingDial
        /\ DropSender(c)

\* Mutant: a sender is kept before it is known whether libp2p will dial.
DialKeptFirst(c) ==
  /\ Handles("Dial", c)
  /\ Taken
  /\ calls[c].peer \notin DOMAIN pendingDial
  /\ KeepDial(c)
  /\ \/ swarm' = [swarm EXCEPT !.dialing = @ \cup {calls[c].peer}]
     \/ UNCHANGED swarm

\* Swarm::dial fails at once for a peer that is not to be dialed.
Dial(c) ==
  /\ Handles("Dial", c)
  /\ Taken
  /\ \/ /\ calls[c].peer \notin DOMAIN pendingDial
        /\ \/ /\ KeepDial(c)
              /\ swarm' = [swarm EXCEPT !.dialing = @ \cup {calls[c].peer}]
           \/ DropSender(c)
     \/ /\ calls[c].peer \in DOMAIN pendingDial
        /\ DropSender(c)

\* kademlia.bootstrap() fails when the routing table is empty.  A second
\* bootstrap does nothing, and its sender is dropped.
BootstrapDht(c) ==
  /\ Handles("BootstrapDht", c)
  /\ Taken
  /\ \/ /\ ~bootstrapped
        /\ swarm.routing # {}
        /\ bootstrapped' = TRUE
        /\ Start("bootstrap", c)
        /\ Keep("bootstrap", c)
     \/ /\ bootstrapped \/ swarm.routing = {}
        /\ DropSender(c)

\* Commands that are answered at once, with what libp2p returns.
AnswerAtOnce(command, c, results) ==
  /\ Handles(command, c)
  /\ Taken
  /\ \E result \in results : calls' = Answered(c, result)
  /\ UNCHANGED <<loopVars, swarm>>

Listen(c) == AnswerAtOnce("Listen", c, {"ok", "err"})
ListPeers(c) == AnswerAtOnce("ListPeers", c, {"ok"})
VerifyBuild(c) == AnswerAtOnce("VerifyBuild", c, {"ok", "err"})
BroadcastBlock(c) == AnswerAtOnce("BroadcastBlock", c, {"ok", "err"})

\* Status unwraps the result of sending its answer.
StatusCommand(c) ==
  IF calls[c].stage = "waiting"
  THEN AnswerAtOnce("Status", c, {"ok"})
  ELSE /\ Handles("Status", c)
       /\ Panic("status_sent")
       /\ UNCHANGED <<events, swarm, inbound>>

\* start_providing adds a record under a key that the store has (keys = 0), or
\* under another one.
Announce(c, keys) ==
  /\ Taken
  /\ Keep("start_providing", c)
  /\ swarm' = [swarm EXCEPT !.keys = @ + keys, !.inflight = Begun("start_providing", c)]
  /\ UNCHANGED bootstrapped

\* It fails for a key that is new to a store that is full.
Provide(c) ==
  /\ Handles("Provide", c)
  /\ \/ swarm.keys > 0 /\ Announce(c, 0)
     \/ swarm.keys < MaxKeys /\ Announce(c, 1)
     \/ /\ swarm.keys = MaxKeys
        /\ Panic("no_store_error")
        /\ UNCHANGED <<events, swarm, inbound>>

ListProviders(c) ==
  /\ Handles("ListProviders", c)
  /\ Taken
  /\ Start("list_providers", c)
  /\ Keep("list_providers", c)
  /\ UNCHANGED bootstrapped

\* Mutant: the sender of a request is not kept.
SendRequestUnkept(proto, c) ==
  /\ Handles(RequestOf[proto], c)
  /\ Taken
  /\ Start(proto, c)
  /\ UNCHANGED <<calls, loopVars>>

SendRequest(proto, c) ==
  /\ Handles(RequestOf[proto], c)
  /\ Taken
  /\ Start(proto, c)
  /\ Keep(proto, c)
  /\ UNCHANGED bootstrapped

RequestArtifact(c) == SendRequest("artifact", c)
RequestBuild(c) == SendRequest("build", c)
RequestIdleMetric(c) == SendRequest("idle_metric", c)
RequestBlockchain(c) == SendRequest("blockchain", c)
RequestBuildStatus(c) == SendRequest("build_status", c)

\* send_response fails when the requester, or its connection, is gone.
SendResponse(proto, i) ==
  /\ Handles("Respond", i)
  /\ inbound[i].kind = proto
  /\ IF inbound[i].open
     THEN /\ commands' = Tail(commands)
          /\ UNCHANGED <<panic, calls, loopVars>>
     ELSE Panic("still_open")
  /\ inbound' = [inbound EXCEPT ![i].stage = "done", ![i].open = FALSE]
  /\ UNCHANGED <<events, swarm>>

RespondArtifact(i) == SendResponse("artifact", i)
RespondBuild(i) == SendResponse("build", i)
RespondIdleMetric(i) == SendResponse("idle_metric", i)
RespondBlockchain(i) == SendResponse("blockchain", i)
RespondBuildStatus(i) == SendResponse("build_status", i)

handle_command ==
  \/ \E c \in Calls :
       \/ AddProbe(c) \/ Dial(c) \/ BootstrapDht(c) \/ Listen(c) \/ ListPeers(c)
       \/ StatusCommand(c) \/ Provide(c) \/ ListProviders(c) \/ VerifyBuild(c)
       \/ BroadcastBlock(c) \/ RequestArtifact(c) \/ RequestBuild(c)
       \/ RequestIdleMetric(c) \/ RequestBlockchain(c) \/ RequestBuildStatus(c)
  \/ \E i \in Inbound :
       \/ RespondArtifact(i) \/ RespondBuild(i) \/ RespondIdleMetric(i)
       \/ RespondBlockchain(i) \/ RespondBuildStatus(i)

-----------------------------------------------------------------------------
(* handle_swarm_event: connections                                         *)

\* AutoNAT contacts its servers again and again, on the connection it has if
\* there is one.
AutonatDials(p) ==
  /\ running
  /\ p \in swarm.servers \ (swarm.connected \cup swarm.dialing)
  /\ swarm' = [swarm EXCEPT !.dialing = @ \cup {p}]
  /\ UNCHANGED <<panic, clientVars, events, loopVars, inbound>>

\* The sender kept for p, if any, is removed and answered.
AnswerDial(p, result) ==
  /\ calls' = IF p \in DOMAIN pendingDial THEN Answered(pendingDial[p], result) ELSE calls
  /\ pendingDial' = [q \in DOMAIN pendingDial \ {p} |-> pendingDial[q]]
  /\ UNCHANGED <<panic, commands, events, pending, bootstrapped, inbound>>

\* ConnectionEstablished, as the dialer.
ConnectionEstablished(p) ==
  /\ running
  /\ p \in swarm.dialing
  /\ swarm' = [swarm EXCEPT !.dialing = @ \ {p}, !.connected = @ \cup {p},
                 !.routing = IF p \in DOMAIN pendingDial THEN @ \cup {p} ELSE @]
  /\ AnswerDial(p, "ok")

\* Mutant: a dial that failed leaves its caller waiting.
OutgoingConnectionErrorLogged(p) ==
  /\ running
  /\ p \in swarm.dialing
  /\ swarm' = [swarm EXCEPT !.dialing = @ \ {p}]
  /\ UNCHANGED <<panic, clientVars, events, loopVars, inbound>>

OutgoingConnectionError(p) ==
  /\ running
  /\ p \in swarm.dialing
  /\ swarm' = [swarm EXCEPT !.dialing = @ \ {p}]
  /\ AnswerDial(p, "err")

\* ConnectionEstablished, as the listener, and ConnectionClosed: ignored.
IncomingConnection(p) ==
  /\ "incoming" \in Faults
  /\ running
  /\ swarm' = [swarm EXCEPT !.connected = @ \cup {p}]
  /\ UNCHANGED <<panic, clientVars, events, loopVars, inbound>>

ConnectionClosed(p) ==
  /\ running
  /\ p \in swarm.connected
  /\ swarm' = [swarm EXCEPT !.connected = @ \ {p}]
  /\ UNCHANGED <<panic, clientVars, events, loopVars, inbound>>

-----------------------------------------------------------------------------
(* handle_kademlia_event                                                   *)

QueryCompleted(m, c, result) ==
  Complete(m, c, result, "query_pending")

\* Mutant: the result of a query that fails is ignored.
StartProvidingOk(c) ==
  \/ QueryCompleted("start_providing", c, "ok")
  \/ /\ running
     /\ c \in swarm.inflight["start_providing"]
     /\ swarm' = [swarm EXCEPT !.inflight = Ended("start_providing", c)]
     /\ UNCHANGED <<panic, clientVars, events, loopVars, inbound>>

\* StartProviding(_): success and failure are answered alike.
StartProvidingDone(c) == QueryCompleted("start_providing", c, "ok")

\* Providers are reported, once or several times, and added to those kept with the
\* sender; which they are is left out.
FoundProviders(c) ==
  /\ running
  /\ c \in swarm.inflight["list_providers"]
  /\ IF c \in pending["list_providers"]
     THEN UNCHANGED <<panic, clientVars, loopVars>>
     ELSE Panic("query_pending")
  /\ UNCHANGED <<events, swarm, inbound>>

GetProvidersFinished(c) == QueryCompleted("list_providers", c, "ok")

\* A GetProviders query that times out falls under `_ => {}`.
GetProvidersFailed(c) ==
  /\ "dht" \in Faults
  /\ running
  /\ c \in swarm.inflight["list_providers"]
  /\ swarm' = [swarm EXCEPT !.inflight = Ended("list_providers", c), !.timedout = @ \cup {c}]
  /\ UNCHANGED <<panic, clientVars, events, loopVars, inbound>>

\* A bootstrap looks up the node itself, then one target per bucket, all under the id
\* of the first query.  A report with targets remaining is ignored.
BootstrapProgressed(c) ==
  /\ running
  /\ c \in swarm.inflight["bootstrap"]
  /\ swarm' = [swarm EXCEPT !.refreshing = @ \cup {c}]
  /\ UNCHANGED <<panic, clientVars, events, loopVars, inbound>>

\* A lookup after the first times out with targets remaining: libp2p reports an error
\* and goes on with the next target, the loop takes the error for the end.
BootstrapTimedOut(c) ==
  /\ "dht" \in Faults
  /\ running
  /\ c \in swarm.inflight["bootstrap"] \cap swarm.refreshing
  /\ swarm' = [swarm EXCEPT !.timedout = @ \cup {c}]
  /\ AnswerKept("bootstrap", c, "err", "bootstrap_pending")
  /\ UNCHANGED <<events, inbound>>

\* The report with nothing remaining, and an error in the only or the last lookup.
BootstrapDone(c) ==
  \E result \in {"ok", "err"} : Complete("bootstrap", c, result, "bootstrap_pending")

handle_kademlia_event ==
  \E c \in Calls :
    \/ StartProvidingDone(c) \/ FoundProviders(c) \/ GetProvidersFinished(c)
    \/ GetProvidersFailed(c) \/ BootstrapProgressed(c) \/ BootstrapTimedOut(c)
    \/ BootstrapDone(c)

\* A record of another provider arrives and is kept, if there is room for its key.
AddProviderReceived ==
  /\ running
  /\ swarm.keys < MaxKeys
  /\ swarm' = [swarm EXCEPT !.keys = @ + 1]
  /\ UNCHANGED <<panic, clientVars, events, loopVars, inbound>>

-----------------------------------------------------------------------------
(* The request-response handlers, one per protocol                         *)

\* A request of a peer, or a gossiped message, goes to main.
IncomingMessage(kind, i) ==
  /\ running
  /\ kind \in InboundKinds
  /\ inbound[i].stage = "new"
  /\ InBound
  /\ events' = Append(events, i)
  /\ inbound' = [inbound EXCEPT ![i] = [kind |-> kind, stage |-> "event",
                                        open |-> kind \in Protocols]]
  /\ UNCHANGED <<panic, clientVars, loopVars, swarm>>

\* libp2p reports one outcome of every request: a response, or a failure.
RequestCompleted(proto, c, result) ==
  Complete(proto, c, result, "request_pending")

ExchangeEvent(proto) ==
  \/ \E i \in Inbound : IncomingMessage(proto, i)
  \/ \E c \in Calls, result \in {"ok", "err"} : RequestCompleted(proto, c, result)

handle_request_response_event == ExchangeEvent("artifact")
handle_idle_metric_request_response_event == ExchangeEvent("idle_metric")
handle_build_request_response_event == ExchangeEvent("build")
handle_build_status_request_response_event == ExchangeEvent("build_status")
handle_blockchain_request_response_event == ExchangeEvent("blockchain")

\* A message on one of the two topics; what does not deserialize is dropped.
handle_gossipsub_event == \E i \in Inbound, t \in Topics : IncomingMessage(t, i)

\* The requester timed out or its connection closed: InboundFailure, ignored.
InboundFailure(i) ==
  /\ "late" \in Faults
  /\ inbound[i].open
  /\ inbound' = [inbound EXCEPT ![i].open = FALSE]
  /\ UNCHANGED <<panic, clientVars, events, loopVars, swarm>>

-----------------------------------------------------------------------------
(* The loop of main, which handles one event at a time                     *)

TakeEvent ==
  /\ events # <<>>
  /\ \A i \in Inbound : inbound[i].stage # "handling"
  /\ inbound' = [inbound EXCEPT ![Head(events)].stage = "handling"]
  /\ events' = Tail(events)
  /\ UNCHANGED <<panic, clientVars, loopVars, swarm>>

\* The answer of a handler is a command to the loop, which may have ended.
Respond(i) ==
  /\ running
  /\ commands' = Append(commands, <<"Respond", i>>)
  /\ inbound' = [inbound EXCEPT ![i].stage = "responding"]

respond_artifact(i) == Respond(i)
respond_build(i) == Respond(i)
respond_idle_metric(i) == Respond(i)
respond_blockchain(i) == Respond(i)
respond_build_status(i) == Respond(i)

\* A handler that fails drops the channel.
DropChannel(i) ==
  /\ inbound' = [inbound EXCEPT ![i].stage = "done", ![i].open = FALSE]
  /\ UNCHANGED commands

Handling(kind, i) ==
  /\ inbound[i].stage = "handling"
  /\ inbound[i].kind = kind
  /\ UNCHANGED <<panic, calls, events, loopVars, swarm>>

handle_request_artifact(i) == Handling("artifact", i) /\ (respond_artifact(i) \/ DropChannel(i))
handle_request_build(i) == Handling("build", i) /\ (respond_build(i) \/ DropChannel(i))
handle_request_idle_metric(i) ==
  Handling("idle_metric", i) /\ (respond_idle_metric(i) \/ DropChannel(i))
handle_request_build_status(i) ==
  Handling("build_status", i) /\ (respond_build_status(i) \/ DropChannel(i))
handle_verify_build(i) == Handling("build_topic", i) /\ DropChannel(i)
handle_incoming_blockchain_command(i) ==
  \/ Handling("blockchain", i) /\ (respond_blockchain(i) \/ DropChannel(i))
  \/ Handling("blockchain_topic", i) /\ DropChannel(i)

HandleEvent ==
  \E i \in Inbound :
    \/ handle_request_artifact(i) \/ handle_request_build(i)
    \/ handle_request_idle_metric(i) \/ handle_request_build_status(i)
    \/ handle_verify_build(i) \/ handle_incoming_blockchain_command(i)

-----------------------------------------------------------------------------
CallAny(c) ==
  \/ add_probe_address(c) \/ listen(c) \/ dial(c) \/ list_peers(c) \/ status(c)
  \/ provide(c) \/ list_providers(c) \/ request_build(c) \/ verify_build(c)
  \/ request_artifact(c) \/ get_idle_peer(c) \/ request_blockchain(c)
  \/ broadcast_block(c) \/ request_build_status(c)

SwarmEvent ==
  \/ handle_kademlia_event
  \/ handle_request_response_event \/ handle_idle_metric_request_response_event
  \/ handle_build_request_response_event \/ handle_build_status_request_response_event
  \/ handle_blockchain_request_response_event \/ handle_gossipsub_event

Next ==
  \/ \E c \in Calls : CallAny(c) \/ Bootstrap(c) \/ Cancel(c)
  \/ handle_command
  \/ SwarmEvent
  \/ \E p \in Peers :
       \/ AutonatDials(p) \/ ConnectionEstablished(p) \/ OutgoingConnectionError(p)
       \/ IncomingConnection(p) \/ ConnectionClosed(p)
  \/ AddProviderReceived
  \/ \E i \in Inbound : InboundFailure(i)
  \/ TakeEvent
  \/ HandleEvent

Spec == Init /\ [][Next]_vars

\* The loop takes the commands it gets, tokio runs the tasks that wait, and
\* libp2p ends every dial, query (unless "dht") and request, by a timeout if
\* need be.
Fairness ==
  /\ WF_vars(handle_command)
  /\ WF_vars(TakeEvent)
  /\ WF_vars(HandleEvent)
  /\ \A p \in Peers : /\ WF_vars(AutonatDials(p))
                      /\ WF_vars(ConnectionEstablished(p) \/ OutgoingConnectionError(p))
  /\ \A c \in Calls :
       /\ WF_vars(Bootstrap(c))
       /\ WF_vars(StartProvidingDone(c) \/ BootstrapDone(c))
       /\ "dht" \notin Faults => WF_vars(GetProvidersFinished(c))
       /\ \A proto \in Protocols :
            WF_vars(\E result \in {"ok", "err"} : RequestCompleted(proto, c, result))

FairSpec == Spec /\ Fairness

-----------------------------------------------------------------------------
(* Properties                                                              *)

TypeOK ==
  /\ panic \in {Alive} \cup Expectations
  /\ calls \in [Calls -> [command : Commands \cup {"none"}, peer : Peers \cup {NoPeer},
                          stage : CallStage]]
  /\ commands \in Seq((Commands \X Calls) \cup ({"Respond"} \X Inbound))
  /\ events \in Seq(Inbound)
  /\ pending \in [Maps -> SUBSET Calls]
  /\ DOMAIN pendingDial \subseteq Peers
  /\ \A p \in DOMAIN pendingDial : pendingDial[p] \in Calls
  /\ bootstrapped \in BOOLEAN
  /\ swarm \in Swarm
  /\ inbound \in [Inbound -> [kind : Protocols \cup Topics \cup {"none"},
                              stage : InboundStage, open : BOOLEAN]]

\* "Completed query to be previously pending." and "Request to still be pending.":
\* whatever peers and callers do, the answer of libp2p finds its sender, unless a
\* lookup of a bootstrap timed out with others to come.
QueriesPending ==
  /\ panic \notin {"query_pending", "request_pending"}
  /\ panic = "bootstrap_pending" => swarm.timedout \cap swarm.refreshing # {}

\* A sender is kept as long as libp2p works on its query and no longer, so a map
\* neither misses an answer nor keeps a caller waiting for nothing.  There are two
\* exceptions, both after a timeout: a bootstrap that goes on without its sender, and
\* the sender of a query for providers, which handle_kademlia_event leaves behind.
KeptWhileRunning ==
  running => \A m \in Maps :
    /\ swarm.inflight[m] \ pending[m]
         \subseteq {c \in swarm.timedout \cap swarm.refreshing : m = "bootstrap"}
    /\ pending[m] \ swarm.inflight[m]
         \subseteq {c \in swarm.timedout : m = "list_providers"}

\* A sender waiting for a connection is of a caller that asked for this very
\* peer, and libp2p has that peer on its list.
DialsWatched ==
  \A p \in DOMAIN pendingDial :
    /\ calls[pendingDial[p]].peer = p
    /\ p \in swarm.dialing \cup swarm.servers

\* Calls the loop forgets: a query for providers that fails is ignored, and a probe
\* that is connected already is not dialed.
Forgotten ==
  {m \in {"ListProviders"} : "dht" \in Faults} \cup {m \in {"AddProbe"} : "incoming" \in Faults}

\* Every other call of a client method returns, whatever the peers do.
CallsReturn ==
  \A c \in Calls :
    calls[c].stage = "waiting" /\ calls[c].command \notin Forgotten
      ~> calls[c].stage \in Returned

\* "When adding the probe was handled successfully, the kademlia DHT will be
\* bootstrapped": a probe that was added leads to a bootstrapped DHT or to an error.
ProbeBootstraps ==
  \A c \in Calls :
    calls[c].command = "AddProbe" /\ calls[c].stage = "waiting"
      ~> bootstrapped \/ calls[c].stage = "err"

\* The expectation "Connection to peer to be still open.": when an answer is
\* given the requester still waits for it.
ConnectionStillOpen == panic # "still_open"

\* "Completed query to be previously pending.", of a bootstrap: its end finds the sender.
BootstrapPending == panic # "bootstrap_pending"

\* The expectation "No store error.": the store has room for what the node provides.
StoreHasRoom == panic # "no_store_error"
=============================================================================
