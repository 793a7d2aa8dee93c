--------------------------- MODULE PeerLoopProofs ---------------------------
(***************************************************************************)
(* Proofs about PeerLoop: whatever callers, peers and libp2p do, for any    *)
(* calls, peers and messages, the p2p event loop keeps the sender of every  *)
(* query and request libp2p works on until a timeout, and every caller that *)
(* waits is known in one place.                                             *)
(***************************************************************************)
EXTENDS PeerLoop, TLAPS

\* A leaf without a pragma is tried with Z3, then with Zenon.
USE SMTT(30), ZenonT(30)

\* The part of the type invariant the proofs need.
Fields == {"inflight", "refreshing", "timedout"}
Shape ==
  /\ pending \in [Maps -> SUBSET Calls]
  /\ Fields \subseteq DOMAIN swarm
  /\ swarm.inflight \in [Maps -> SUBSET Calls]

\* QueriesPending is not inductive: that the sender is there when libp2p reports the
\* outcome of its query is KeptWhileRunning.
LoopInv == Shape /\ KeptWhileRunning /\ QueriesPending

-----------------------------------------------------------------------------
(* What a step can do to the senders                                       *)

\* What is known of timeouts stays as it is.
SameTimeouts ==
  /\ Fields \subseteq DOMAIN swarm'
  /\ swarm'.refreshing = swarm.refreshing
  /\ swarm'.timedout = swarm.timedout

\* A step that touches neither the maps nor a query.
LEMMA QuietStep ==
  ASSUME LoopInv, panic' = panic, pending' = pending,
         SameTimeouts, swarm'.inflight = swarm.inflight
  PROVE  LoopInv'
  BY DEF LoopInv, Shape, KeptWhileRunning, QueriesPending, running, SameTimeouts

LEMMA SameSwarm == ASSUME LoopInv, UNCHANGED swarm
                   PROVE  SameTimeouts /\ swarm'.inflight = swarm.inflight
  BY Zenon DEF LoopInv, Shape, SameTimeouts

\* A query or request is started, and its sender kept in the same step.
LEMMA StartStep ==
  ASSUME LoopInv, NEW m \in Maps, NEW c \in Calls, panic' = panic,
         pending' = [pending EXCEPT ![m] = @ \cup {c}],
         SameTimeouts, swarm'.inflight = Begun(m, c)
  PROVE  LoopInv'
<1>1. Shape'
  BY DEF LoopInv, Shape, SameTimeouts, Begun
<1>2. ASSUME running', NEW n \in Maps
      PROVE  /\ swarm'.inflight[n] \ pending'[n] \subseteq swarm.inflight[n] \ pending[n]
             /\ pending'[n] \ swarm'.inflight[n] \subseteq pending[n] \ swarm.inflight[n]
  BY DEF LoopInv, Shape, Begun
<1>3. KeptWhileRunning'
  BY <1>2, Zenon DEF LoopInv, KeptWhileRunning, running, SameTimeouts
<1>4. QueriesPending'
  BY DEF LoopInv, QueriesPending, SameTimeouts
<1> QED BY <1>1, <1>3, <1>4 DEF LoopInv

\* The end of the loop for another reason.
LEMMA PanicStep ==
  ASSUME LoopInv, NEW e \in Expectations \ {"query_pending", "request_pending", "bootstrap_pending"},
         Panic(e), UNCHANGED swarm
  PROVE  LoopInv'
<1>1. Shape'
  BY DEF LoopInv, Shape, Panic
<1>2. e # Alive
  BY DEF Expectations, Alive
<1>3. KeptWhileRunning'
  BY <1>2 DEF KeptWhileRunning, Panic, running
<1>4. QueriesPending'
  BY DEF Panic, QueriesPending
<1> QED BY <1>1, <1>3, <1>4 DEF LoopInv

\* The end of the loop because a bootstrap goes on after a timeout.
LEMMA BootstrapPanicStep ==
  ASSUME LoopInv, Panic("bootstrap_pending"), NEW c, c \in swarm'.timedout \cap swarm'.refreshing,
         Fields \subseteq DOMAIN swarm', swarm'.inflight \in [Maps -> SUBSET Calls]
  PROVE  LoopInv'
<1>1. Shape'
  BY DEF Shape, Panic
<1>2. KeptWhileRunning'
  BY DEF KeptWhileRunning, Panic, running, Alive
<1>3. QueriesPending'
  BY DEF Panic, QueriesPending
<1> QED BY <1>1, <1>2, <1>3 DEF LoopInv

\* A query or request that libp2p works on has its sender in the map, unless it is a
\* bootstrap that went on after a timeout.
LEMMA SenderThere ==
  ASSUME LoopInv, running, NEW m \in Maps, NEW c \in swarm.inflight[m], c \notin pending[m]
  PROVE  m = "bootstrap" /\ c \in swarm.timedout \cap swarm.refreshing
<1>1. c \in {d \in swarm.timedout \cap swarm.refreshing : m = "bootstrap"}
  BY DEF LoopInv, KeptWhileRunning
<1> QED BY <1>1

\* libp2p reports an outcome: the sender is found, removed and answered, and the
\* expectation e is not violated.
LEMMA CompleteStep ==
  ASSUME LoopInv, NEW m \in Maps, NEW c \in Calls, NEW r, NEW e, Complete(m, c, r, e),
         m = "bootstrap" => e = "bootstrap_pending"
  PROVE  LoopInv'
<1>1. SameTimeouts /\ swarm'.inflight = Ended(m, c)
  BY DEF Complete, LoopInv, Shape, SameTimeouts, Fields
<1>2. running /\ c \in swarm.inflight[m]
  BY DEF Complete
<1>3. Ended(m, c) \in [Maps -> SUBSET Calls]
  BY DEF LoopInv, Shape, Ended
<1>4. CASE c \in pending[m]
  <2>1. /\ pending' = [pending EXCEPT ![m] = @ \ {c}]
        /\ panic' = panic
    BY <1>4 DEF Complete, AnswerKept
  <2>2. Shape'
    BY <1>1, <1>3, <2>1 DEF LoopInv, Shape, SameTimeouts
  <2>3. ASSUME NEW n \in Maps
        PROVE  /\ swarm'.inflight[n] \ pending'[n] \subseteq swarm.inflight[n] \ pending[n]
               /\ pending'[n] \ swarm'.inflight[n] \subseteq pending[n] \ swarm.inflight[n]
    BY <1>1, <2>1 DEF LoopInv, Shape, Ended
  <2>4. KeptWhileRunning'
    BY <1>1, <1>2, <2>3, Zenon DEF LoopInv, KeptWhileRunning, SameTimeouts
  <2>5. QueriesPending'
    BY <1>1, <2>1 DEF LoopInv, QueriesPending, SameTimeouts
  <2> QED BY <2>2, <2>4, <2>5 DEF LoopInv
<1>5. CASE c \notin pending[m]
  <2>1. m = "bootstrap" /\ c \in swarm.timedout \cap swarm.refreshing
    BY <1>2, <1>5, SenderThere
  <2>2. Panic("bootstrap_pending")
    BY <1>5, <2>1 DEF Complete, AnswerKept
  <2> QED BY <1>1, <1>3, <2>1, <2>2, BootstrapPanicStep DEF SameTimeouts
<1> QED BY <1>4, <1>5

\* A lookup of a bootstrap times out: its sender is answered, or was before.
LEMMA BootstrapTimeoutStep ==
  ASSUME LoopInv, NEW c \in Calls, BootstrapTimedOut(c)
  PROVE  LoopInv'
<1>1. /\ Fields \subseteq DOMAIN swarm'
      /\ swarm'.inflight = swarm.inflight
      /\ swarm'.refreshing = swarm.refreshing
      /\ swarm'.timedout = swarm.timedout \cup {c}
  BY DEF BootstrapTimedOut, LoopInv, Shape, Fields
<1>2. running /\ "bootstrap" \in Maps /\ c \in swarm.inflight["bootstrap"] \cap swarm.refreshing
  BY DEF BootstrapTimedOut, Maps
<1>3. CASE c \in pending["bootstrap"]
  <2>1. /\ pending' = [pending EXCEPT !["bootstrap"] = @ \ {c}]
        /\ panic' = panic
    BY <1>3, Zenon DEF BootstrapTimedOut, AnswerKept
  <2>2. Shape'
    BY <1>1, <2>1, Zenon DEF LoopInv, Shape
  <2>3. ASSUME NEW n \in Maps, n # "bootstrap"
        PROVE  pending'[n] = pending[n]
    BY <2>1, <2>3 DEF LoopInv, Shape
  <2>4. pending'["bootstrap"] = pending["bootstrap"] \ {c}
    BY <1>2, <2>1 DEF LoopInv, Shape
  <2>5. KeptWhileRunning'
    <3> SUFFICES ASSUME NEW n \in Maps
                 PROVE  /\ swarm'.inflight[n] \ pending'[n]
                             \subseteq {d \in swarm'.timedout \cap swarm'.refreshing : n = "bootstrap"}
                        /\ pending'[n] \ swarm'.inflight[n]
                             \subseteq {d \in swarm'.timedout : n = "list_providers"}
      BY Zenon DEF KeptWhileRunning
    <3>1. /\ swarm.inflight[n] \ pending[n]
               \subseteq {d \in swarm.timedout \cap swarm.refreshing : n = "bootstrap"}
          /\ pending[n] \ swarm.inflight[n]
               \subseteq {d \in swarm.timedout : n = "list_providers"}
      BY <1>2, Zenon DEF LoopInv, KeptWhileRunning
    <3>2. CASE n = "bootstrap"
      BY <1>1, <1>2, <2>4, <3>1, <3>2
    <3>3. CASE n # "bootstrap"
      BY <1>1, <2>3, <3>1, <3>3
    <3> QED BY <3>2, <3>3
  <2>6. QueriesPending'
    BY <1>1, <2>1 DEF LoopInv, QueriesPending
  <2> QED BY <2>2, <2>5, <2>6 DEF LoopInv
<1>4. CASE c \notin pending["bootstrap"]
  <2>1. Panic("bootstrap_pending")
    BY <1>4 DEF BootstrapTimedOut, AnswerKept
  <2>2. swarm'.inflight \in [Maps -> SUBSET Calls]
    BY <1>1 DEF LoopInv, Shape
  <2> QED BY <1>1, <1>2, <2>1, <2>2, BootstrapPanicStep
<1> QED BY <1>3, <1>4

-----------------------------------------------------------------------------
(* Callers, commands, events                                               *)

\* The methods of Client only put commands into the channel.
LEMMA ClientStep ==
  ASSUME LoopInv, NEW c \in Calls, CallAny(c) \/ Bootstrap(c) \/ Cancel(c)
  PROVE  LoopInv'
<1>1. UNCHANGED <<panic, pending, swarm>>
  BY DEF CallAny, add_probe_address, listen, dial, list_peers, status, provide, list_providers,
         request_build, verify_build, request_artifact, get_idle_peer, request_blockchain,
         broadcast_block, request_build_status, Call, Bootstrap, Cancel, loopVars, clientVars
<1> QED BY <1>1, QuietStep, SameSwarm

\* A command that is answered at once.
LEMMA AnswerStep ==
  ASSUME LoopInv, NEW command, NEW c, NEW results, AnswerAtOnce(command, c, results)
  PROVE  LoopInv'
<1>1. UNCHANGED <<panic, pending, swarm>>
  BY DEF AnswerAtOnce, Taken, loopVars
<1> QED BY <1>1, QuietStep, SameSwarm

\* What starting a query does to libp2p's part.
LEMMA StartedSwarm ==
  ASSUME LoopInv, NEW m, NEW c, Start(m, c)
  PROVE  SameTimeouts /\ swarm'.inflight = Begun(m, c)
  BY DEF LoopInv, Shape, Fields, Start, SameTimeouts

\* A request of one of the five protocols.
LEMMA RequestStep ==
  ASSUME LoopInv, NEW proto \in Protocols, NEW c \in Calls, SendRequest(proto, c)
  PROVE  LoopInv'
<1>1. proto \in Maps
  BY DEF Maps
<1> QED BY <1>1, StartStep, StartedSwarm, Zenon DEF SendRequest, Taken, Keep

\* An answer to a peer, given or too late.
LEMMA ResponseStep ==
  ASSUME LoopInv, NEW proto, NEW i, SendResponse(proto, i)
  PROVE  LoopInv'
<1>1. UNCHANGED swarm
  BY DEF SendResponse
<1>2. CASE Panic("still_open")
  BY <1>1, <1>2, PanicStep DEF Expectations
<1>3. CASE UNCHANGED <<panic, calls, loopVars>>
  BY <1>1, <1>3, QuietStep, SameSwarm DEF loopVars
<1> QED BY <1>2, <1>3 DEF SendResponse

\* handle_command, arm by arm.
LEMMA CommandStep == ASSUME LoopInv, handle_command PROVE LoopInv'
<1>1. ASSUME NEW c \in Calls, AddProbe(c) PROVE LoopInv'
  <2>1. UNCHANGED <<panic, pending>>
    BY <1>1 DEF AddProbe, Taken, KeepDial, DropSender, loopVars
  <2>2. SameTimeouts /\ swarm'.inflight = swarm.inflight
    BY <1>1 DEF AddProbe, DropSender, LoopInv, Shape, Fields, SameTimeouts
  <2> QED BY <2>1, <2>2, QuietStep
<1>2. ASSUME NEW c \in Calls, Dial(c) PROVE LoopInv'
  <2>1. UNCHANGED <<panic, pending>>
    BY <1>2 DEF Dial, Taken, KeepDial, DropSender, loopVars
  <2>2. SameTimeouts /\ swarm'.inflight = swarm.inflight
    BY <1>2 DEF Dial, DropSender, LoopInv, Shape, Fields, SameTimeouts
  <2> QED BY <2>1, <2>2, QuietStep
<1>3. ASSUME NEW c \in Calls, BootstrapDht(c) PROVE LoopInv'
  <2>1. CASE Start("bootstrap", c) /\ Keep("bootstrap", c)
    <3>1. "bootstrap" \in Maps
      BY DEF Maps
    <3> QED BY <1>3, <2>1, <3>1, StartStep, StartedSwarm, Zenon DEF BootstrapDht, Taken, Keep
  <2>2. CASE DropSender(c)
    BY <1>3, <2>2, QuietStep, SameSwarm DEF BootstrapDht, Taken, DropSender, loopVars
  <2> QED BY <1>3, <2>1, <2>2 DEF BootstrapDht
<1>4. ASSUME NEW c \in Calls, StatusCommand(c) PROVE LoopInv'
  <2>1. CASE calls[c].stage = "waiting"
    BY <1>4, <2>1, AnswerStep DEF StatusCommand
  <2>2. CASE calls[c].stage # "waiting"
    BY <1>4, <2>2, PanicStep DEF StatusCommand, Expectations
  <2> QED BY <2>1, <2>2
<1>5. ASSUME NEW c \in Calls, Provide(c) PROVE LoopInv'
  <2>1. ASSUME NEW keys, Announce(c, keys) PROVE LoopInv'
    <3>1. "start_providing" \in Maps
      BY DEF Maps
    <3>2. /\ panic' = panic
          /\ pending' = [pending EXCEPT !["start_providing"] = @ \cup {c}]
      BY <2>1 DEF Announce, Taken, Keep
    <3>3. SameTimeouts /\ swarm'.inflight = Begun("start_providing", c)
      BY <2>1 DEF Announce, LoopInv, Shape, Fields, SameTimeouts
    <3> QED BY <3>1, <3>2, <3>3, StartStep, Zenon
  <2>2. CASE Panic("no_store_error") /\ UNCHANGED <<events, swarm, inbound>>
    BY <2>2, PanicStep DEF Expectations
  <2> QED BY <1>5, <2>1, <2>2, Zenon DEF Provide
<1>6. ASSUME NEW c \in Calls, ListProviders(c) PROVE LoopInv'
  <2>1. "list_providers" \in Maps
    BY DEF Maps
  <2> QED BY <1>6, <2>1, StartStep, StartedSwarm, Zenon DEF ListProviders, Taken, Keep
<1>7. ASSUME NEW c \in Calls, Listen(c) \/ ListPeers(c) \/ VerifyBuild(c) \/ BroadcastBlock(c)
      PROVE  LoopInv'
  BY <1>7, AnswerStep DEF Listen, ListPeers, VerifyBuild, BroadcastBlock
<1>8. ASSUME NEW c \in Calls,
             \/ RequestArtifact(c) \/ RequestBuild(c) \/ RequestIdleMetric(c)
             \/ RequestBlockchain(c) \/ RequestBuildStatus(c)
      PROVE  LoopInv'
  BY <1>8, RequestStep
     DEF Protocols, RequestArtifact, RequestBuild, RequestIdleMetric, RequestBlockchain, RequestBuildStatus
<1>9. ASSUME NEW i \in Inbound,
             \/ RespondArtifact(i) \/ RespondBuild(i) \/ RespondIdleMetric(i)
             \/ RespondBlockchain(i) \/ RespondBuildStatus(i)
      PROVE  LoopInv'
  BY <1>9, ResponseStep
     DEF RespondArtifact, RespondBuild, RespondIdleMetric, RespondBlockchain, RespondBuildStatus
<1> QED BY <1>1, <1>2, <1>3, <1>4, <1>5, <1>6, <1>7, <1>8, <1>9 DEF handle_command

\* An inbound message is passed on to main.
LEMMA MessageStep ==
  ASSUME LoopInv, NEW kind, NEW i, IncomingMessage(kind, i)
  PROVE  LoopInv'
<1>1. UNCHANGED <<panic, pending, swarm>>
  BY DEF IncomingMessage, loopVars
<1> QED BY <1>1, QuietStep, SameSwarm

\* The handlers of Kademlia, request-response and gossip events.
LEMMA SwarmStep == ASSUME LoopInv, SwarmEvent PROVE LoopInv'
<1>1. ASSUME NEW c \in Calls, StartProvidingDone(c) \/ GetProvidersFinished(c) \/ BootstrapDone(c)
      PROVE  LoopInv'
  <2>1. {"start_providing", "list_providers", "bootstrap"} \subseteq Maps
    BY DEF Maps
  <2> QED BY <1>1, <2>1, CompleteStep DEF StartProvidingDone, GetProvidersFinished, BootstrapDone,
             QueryCompleted
<1>4. ASSUME NEW c \in Calls, FoundProviders(c) PROVE LoopInv'
  <2>1. "list_providers" \in Maps
    BY DEF Maps
  <2>2. c \in pending["list_providers"]
    BY <1>4, <2>1, SenderThere DEF FoundProviders
  <2> QED BY <1>4, <2>2, QuietStep, SameSwarm DEF FoundProviders, loopVars
<1>5. ASSUME NEW c \in Calls, GetProvidersFailed(c) PROVE LoopInv'
  <2>1. /\ UNCHANGED <<panic, pending>>
        /\ Fields \subseteq DOMAIN swarm'
        /\ swarm'.inflight = Ended("list_providers", c)
        /\ swarm'.refreshing = swarm.refreshing
        /\ swarm'.timedout = swarm.timedout \cup {c}
    BY <1>5 DEF GetProvidersFailed, LoopInv, Shape, Fields, loopVars
  <2>2. Shape'
    BY <2>1, Zenon DEF LoopInv, Shape, Ended
  <2>3. KeptWhileRunning'
    <3> SUFFICES ASSUME running, NEW n \in Maps
                 PROVE  /\ swarm'.inflight[n] \ pending'[n]
                             \subseteq {d \in swarm'.timedout \cap swarm'.refreshing : n = "bootstrap"}
                        /\ pending'[n] \ swarm'.inflight[n]
                             \subseteq {d \in swarm'.timedout : n = "list_providers"}
      BY <2>1, Zenon DEF KeptWhileRunning, running
    <3>1. /\ swarm.inflight[n] \ pending[n]
               \subseteq {d \in swarm.timedout \cap swarm.refreshing : n = "bootstrap"}
          /\ pending[n] \ swarm.inflight[n]
               \subseteq {d \in swarm.timedout : n = "list_providers"}
      BY Zenon DEF LoopInv, KeptWhileRunning
    <3>2. swarm'.inflight[n] = IF n = "list_providers" THEN swarm.inflight[n] \ {c} ELSE swarm.inflight[n]
      BY <2>1 DEF LoopInv, Shape, Ended
    <3> QED BY <2>1, <3>1, <3>2
  <2>4. QueriesPending'
    BY <2>1 DEF LoopInv, QueriesPending
  <2> QED BY <2>2, <2>3, <2>4 DEF LoopInv
<1>6. ASSUME NEW c \in Calls, BootstrapProgressed(c) PROVE LoopInv'
  <2>1. /\ UNCHANGED <<panic, pending>>
        /\ Fields \subseteq DOMAIN swarm'
        /\ swarm'.inflight = swarm.inflight
        /\ swarm'.refreshing = swarm.refreshing \cup {c}
        /\ swarm'.timedout = swarm.timedout
    BY <1>6 DEF BootstrapProgressed, LoopInv, Shape, Fields, loopVars
  <2>2. Shape'
    BY <2>1, Zenon DEF LoopInv, Shape
  <2>3. KeptWhileRunning'
    BY <2>1 DEF LoopInv, KeptWhileRunning, running
  <2>4. QueriesPending'
    BY <2>1 DEF LoopInv, QueriesPending
  <2> QED BY <2>2, <2>3, <2>4 DEF LoopInv
<1>7. ASSUME handle_kademlia_event PROVE LoopInv'
  BY <1>1, <1>4, <1>5, <1>6, <1>7, BootstrapTimeoutStep DEF handle_kademlia_event
<1>2. ASSUME NEW proto \in Protocols, ExchangeEvent(proto) PROVE LoopInv'
  <2>1. proto \in Maps
    BY DEF Maps
  <2>2. proto # "bootstrap"
    BY DEF Protocols
  <2> QED BY <1>2, <2>1, <2>2, MessageStep, CompleteStep DEF ExchangeEvent, RequestCompleted
<1>3. ASSUME handle_gossipsub_event PROVE LoopInv'
  BY <1>3, MessageStep DEF handle_gossipsub_event
<1> QED
  BY <1>2, <1>3, <1>7
     DEF SwarmEvent, Protocols, handle_request_response_event, handle_idle_metric_request_response_event,
         handle_build_request_response_event, handle_build_status_request_response_event,
         handle_blockchain_request_response_event

\* Connections and records of other providers come and go.
LEMMA ConnectionStep ==
  ASSUME LoopInv,
         \/ \E p \in Peers : \/ AutonatDials(p) \/ ConnectionEstablished(p)
                             \/ OutgoingConnectionError(p) \/ IncomingConnection(p)
                             \/ ConnectionClosed(p)
         \/ AddProviderReceived
  PROVE  LoopInv'
<1>1. UNCHANGED <<panic, pending>>
  BY Zenon DEF AutonatDials, ConnectionEstablished, OutgoingConnectionError, IncomingConnection,
         ConnectionClosed, AnswerDial, AddProviderReceived, loopVars
<1>2. SameTimeouts /\ swarm'.inflight = swarm.inflight
  BY ZenonT(30) DEF AutonatDials, ConnectionEstablished, OutgoingConnectionError, IncomingConnection,
         ConnectionClosed, AddProviderReceived, LoopInv, Shape, Fields, SameTimeouts
<1> QED BY <1>1, <1>2, QuietStep

\* main and its handlers.
LEMMA MainStep ==
  ASSUME LoopInv, (\E i \in Inbound : InboundFailure(i)) \/ TakeEvent \/ HandleEvent
  PROVE  LoopInv'
<1>1. UNCHANGED <<panic, pending, swarm>>
  BY DEF InboundFailure, TakeEvent, HandleEvent, handle_request_artifact, handle_request_build,
         handle_request_idle_metric, handle_request_build_status, handle_verify_build,
         handle_incoming_blockchain_command, Handling, loopVars
<1> QED BY <1>1, QuietStep, SameSwarm

-----------------------------------------------------------------------------
(* The invariant                                                           *)

LEMMA LoopInvariant == Spec => []LoopInv
<1>1. Init => LoopInv
  BY DEF Init, LoopInv, Shape, Fields, KeptWhileRunning, QueriesPending, Alive
<1>2. LoopInv /\ [Next]_vars => LoopInv'
  <2> SUFFICES ASSUME LoopInv, [Next]_vars
               PROVE  LoopInv'
    OBVIOUS
  <2>1. CASE UNCHANGED vars
    BY <2>1, QuietStep, SameSwarm DEF vars
  <2> QED BY <2>1, ClientStep, CommandStep, SwarmStep, ConnectionStep, MainStep DEF Next
<1> QED BY <1>1, <1>2, PTL DEF Spec

\* The maps of the loop hold exactly the senders of the queries and requests libp2p
\* works on, but for two kinds of queries after a timeout: one for providers, whose
\* sender stays, and a bootstrap that goes on, whose sender was answered.
THEOREM SendersKept == Spec => []KeptWhileRunning
<1>1. LoopInv => KeptWhileRunning
  BY DEF LoopInv
<1> QED BY <1>1, LoopInvariant, PTL

\* "Completed query to be previously pending." and "Request to still be pending.": the
\* loop ends for one of these only after a lookup of a bootstrap timed out with others
\* to come, whatever callers, peers and libp2p do.
THEOREM AnswersFindSenders == Spec => []QueriesPending
<1>1. LoopInv => QueriesPending
  BY DEF LoopInv
<1> QED BY <1>1, LoopInvariant, PTL
-----------------------------------------------------------------------------
(* Where a caller that waits is kept                                       *)

\* The caller waits, or has gone without telling the loop.
Awaiting(c) ==
  calls[c].stage = "waiting" \/ (calls[c].stage = "gone" /\ "cancel" \in Faults)

\* No map of the loop has the sender of call c.
Unkept(c) ==
  /\ \A m \in Maps : c \notin pending[m]
  /\ \A p \in DOMAIN pendingDial : pendingDial[p] # c

\* The command at place k of the channel is of a caller that waits, and no map has
\* its sender.
Queued(k) ==
  commands[k][1] # "Respond" =>
    /\ Awaiting(commands[k][2])
    /\ Unkept(commands[k][2])
    /\ calls[commands[k][2]].command = commands[k][1]
    /\ commands[k][1] \in {"AddProbe", "Dial"} => calls[commands[k][2]].peer \in Peers

\* The sender of a command that has not been handled is in the channel alone, once.
QueuedCalls ==
  /\ \A k \in 1 .. Len(commands) : Queued(k)
  /\ \A j, k \in 1 .. Len(commands) :
       commands[j][1] # "Respond" /\ commands[k][1] # "Respond" /\ j # k
         => commands[j][2] # commands[k][2]

\* A sender in a map is in one map.
KeptCalls ==
  /\ \A m \in Maps : \A c \in pending[m] :
       /\ Awaiting(c)
       /\ \A n \in Maps : c \in pending[n] => n = m
       /\ \A p \in DOMAIN pendingDial : pendingDial[p] # c
  /\ \A p \in DOMAIN pendingDial : Awaiting(pendingDial[p])

CallTypes ==
  /\ calls \in [Calls -> [command : Commands \cup {"none"}, peer : Peers \cup {NoPeer},
                          stage : CallStage]]
  /\ commands \in Seq((Commands \X Calls) \cup ({"Respond"} \X Inbound))
  /\ pending \in [Maps -> SUBSET Calls]
  /\ DOMAIN pendingDial \subseteq Peers
  /\ \A p \in DOMAIN pendingDial : pendingDial[p] \in Calls

\* DialsWatched is not inductive: the caller it speaks of could call again, if its
\* sender were still somewhere else.
CallInv == CallTypes /\ QueuedCalls /\ KeptCalls /\ DialsWatched

\* The channel after a command is sent.
LEMMA AppendFacts ==
  ASSUME NEW S, NEW s \in Seq(S), NEW x \in S
  PROVE  /\ Append(s, x) \in Seq(S)
         /\ Len(Append(s, x)) = Len(s) + 1
         /\ \A k \in 1 .. Len(s) : Append(s, x)[k] = s[k]
         /\ Append(s, x)[Len(s) + 1] = x
  OBVIOUS

\* The channel after one is taken.
LEMMA TailFacts ==
  ASSUME NEW S, NEW s \in Seq(S), s # <<>>
  PROVE  /\ Tail(s) \in Seq(S)
         /\ Len(s) \in Nat \ {0}
         /\ Len(Tail(s)) = Len(s) - 1
         /\ \A k \in 1 .. Len(s) - 1 : Tail(s)[k] = s[k + 1]
         /\ Head(s) = s[1]
  OBVIOUS

LEMMA PairParts == ASSUME NEW a, NEW b PROVE <<a, b>>[1] = a /\ <<a, b>>[2] = b
  OBVIOUS

LEMMA SameSuccessor == ASSUME NEW n \in Nat, NEW j \in 1 .. n, NEW k \in 1 .. n, j + 1 = k + 1
                       PROVE  j = k
  OBVIOUS

\* "Respond" is no command of a caller.
LEMMA RespondApart == "Respond" \notin Commands
  BY DEF Commands, RequestOf, Protocols

\* What is in the channel.
LEMMA ChannelTypes ==
  ASSUME CallTypes, NEW k \in 1 .. Len(commands)
  PROVE  /\ commands[k] = <<commands[k][1], commands[k][2]>>
         /\ commands[k][1] # "Respond" => commands[k][1] \in Commands /\ commands[k][2] \in Calls
         /\ commands[k][1] = "Respond" => commands[k][2] \in Inbound
<1>1. commands[k] \in (Commands \X Calls) \cup ({"Respond"} \X Inbound)
  BY DEF CallTypes
<1> QED BY <1>1, RespondApart

\* The head of the channel.
LEMMA HeadFacts ==
  ASSUME CallTypes, NEW command, NEW id, Handles(command, id)
  PROVE  /\ 1 \in 1 .. Len(commands)
         /\ Len(commands) \in Nat
         /\ commands[1] = <<command, id>>
         /\ commands[1][1] = command /\ commands[1][2] = id
         /\ Len(Tail(commands)) = Len(commands) - 1
         /\ \A k \in 1 .. Len(commands) - 1 :
              k + 1 \in 1 .. Len(commands) /\ Tail(commands)[k] = commands[k + 1]
         /\ Tail(commands) \in Seq((Commands \X Calls) \cup ({"Respond"} \X Inbound))
<1>1. commands \in Seq((Commands \X Calls) \cup ({"Respond"} \X Inbound)) /\ commands # <<>>
  BY DEF CallTypes, Handles
<1>2. /\ Len(commands) \in Nat \ {0}
      /\ Head(commands) = commands[1]
      /\ Len(Tail(commands)) = Len(commands) - 1
      /\ \A k \in 1 .. Len(commands) - 1 : Tail(commands)[k] = commands[k + 1]
      /\ Tail(commands) \in Seq((Commands \X Calls) \cup ({"Respond"} \X Inbound))
  BY <1>1, TailFacts
<1>3. commands[1] = <<command, id>>
  BY <1>2 DEF Handles
<1> QED BY <1>2, <1>3

\* An answer changes the stage of its caller only.
LEMMA AnsweredFacts ==
  ASSUME CallTypes, NEW c \in Calls, NEW r \in {"ok", "err"}
  PROVE  /\ Answered(c, r) \in [Calls -> [command : Commands \cup {"none"},
                                          peer : Peers \cup {NoPeer}, stage : CallStage]]
         /\ \A d \in Calls \ {c} : Answered(c, r)[d] = calls[d]
         /\ \A d \in Calls : /\ Answered(c, r)[d].peer = calls[d].peer
                             /\ Answered(c, r)[d].command = calls[d].command
<1>1. PICK st \in CallStage : Answered(c, r) = [calls EXCEPT ![c].stage = st]
  BY Zenon DEF Answered, CallTypes, CallStage
<1> QED BY <1>1 DEF CallTypes

-----------------------------------------------------------------------------
(* What a step can do to the places of a caller                            *)

\* A step that moves no sender.
LEMMA QuietPlaces ==
  ASSUME CallInv, UNCHANGED <<calls, commands, pending, pendingDial>>,
         swarm.dialing \cup swarm.servers \subseteq swarm'.dialing \cup swarm'.servers
  PROVE  CallInv'
  BY DEF CallInv, CallTypes, QueuedCalls, Queued, KeptCalls, DialsWatched, Awaiting, Unkept

\* A caller that does not wait has no sender anywhere.
LEMMA IdleNowhere ==
  ASSUME CallInv, NEW c \in Calls, calls[c].stage \in {"new", "dialed"}
  PROVE  /\ ~Awaiting(c)
         /\ Unkept(c)
         /\ \A k \in 1 .. Len(commands) : commands[k][1] # "Respond" => commands[k][2] # c
  BY DEF CallInv, QueuedCalls, Queued, KeptCalls, Awaiting, Unkept

\* A command is sent.
LEMMA SendPlaces ==
  ASSUME CallInv, NEW c \in Calls, NEW command \in Commands, NEW p \in Peers \cup {NoPeer},
         command \in {"AddProbe", "Dial"} => p \in Peers,
         calls[c].stage \in {"new", "dialed"}, Send(c, command, p), UNCHANGED <<loopVars, swarm>>
  PROVE  CallInv'
<1>0. UNCHANGED <<pending, pendingDial, swarm>>
  BY DEF loopVars
<1>1. \A d \in Calls \ {c} : calls'[d] = calls[d] /\ (Awaiting(d) => Awaiting(d)')
  BY DEF Send, CallInv, CallTypes, Awaiting
<1>2. \A d \in Calls : Unkept(d) => Unkept(d)'
  BY <1>0 DEF Unkept
<1>3. /\ \A m \in Maps : \A d \in pending[m] : d \in Calls \ {c}
      /\ \A q \in DOMAIN pendingDial : pendingDial[q] \in Calls \ {c}
  BY IdleNowhere DEF Unkept, CallInv, CallTypes
<1>4. KeptCalls' /\ DialsWatched'
  BY <1>0, <1>1, <1>3 DEF CallInv, KeptCalls, DialsWatched
<1>5. CASE running
  <2>1. /\ calls' = [calls EXCEPT ![c] = [command |-> command, peer |-> p, stage |-> "waiting"]]
        /\ commands' = Append(commands, <<command, c>>)
    BY <1>5 DEF Send
  <2>2. /\ commands' \in Seq((Commands \X Calls) \cup ({"Respond"} \X Inbound))
        /\ Len(commands) \in Nat
        /\ Len(commands') = Len(commands) + 1
        /\ \A k \in 1 .. Len(commands) : commands'[k] = commands[k]
        /\ commands'[Len(commands) + 1] = <<command, c>>
    <3>1. <<command, c>> \in (Commands \X Calls) \cup ({"Respond"} \X Inbound)
      OBVIOUS
    <3> QED BY <2>1, <3>1, AppendFacts DEF CallInv, CallTypes
  <2>3. CallTypes'
    BY <1>0, <2>1, <2>2 DEF CallInv, CallTypes, CallStage
  <2>4. ASSUME NEW k \in 1 .. Len(commands') PROVE Queued(k)'
    <3>1. CASE k \in 1 .. Len(commands)
      <4>1. /\ commands'[k] = commands[k]
            /\ commands[k][1] # "Respond" => commands[k][2] \in Calls \ {c}
        BY <2>2, <3>1, IdleNowhere, ChannelTypes DEF CallInv
      <4>2. Queued(k)
        BY <3>1 DEF CallInv, QueuedCalls
      <4> QED BY <1>1, <1>2, <4>1, <4>2 DEF Queued
    <3>2. CASE k = Len(commands) + 1
      <4>1. commands'[k][1] = command /\ commands'[k][2] = c
        BY <2>2, <3>2
      <4>2. calls'[c] = [command |-> command, peer |-> p, stage |-> "waiting"]
        BY <2>1 DEF CallInv, CallTypes
      <4>3. Awaiting(c)' /\ Unkept(c)'
        BY <1>2, <4>2, IdleNowhere DEF Awaiting
      <4> QED BY <4>1, <4>2, <4>3 DEF Queued
    <3> QED BY <2>2, <3>1, <3>2
  <2>5. ASSUME NEW j \in 1 .. Len(commands'), NEW k \in 1 .. Len(commands'),
               commands'[j][1] # "Respond", commands'[k][1] # "Respond", j # k
        PROVE  commands'[j][2] # commands'[k][2]
    <3>1. CASE j \in 1 .. Len(commands) /\ k \in 1 .. Len(commands)
      BY <2>2, <2>5, <3>1 DEF CallInv, QueuedCalls
    <3>2. CASE j = Len(commands) + 1 \/ k = Len(commands) + 1
      BY <2>2, <2>5, <3>2, IdleNowhere
    <3> QED BY <2>2, <3>1, <3>2
  <2>6. QueuedCalls'
    BY <2>4, <2>5 DEF QueuedCalls
  <2> QED BY <1>4, <2>3, <2>6 DEF CallInv
<1>6. CASE ~running
  <2>1. /\ calls' = [calls EXCEPT ![c] = [command |-> command, peer |-> p, stage |-> "err"]]
        /\ UNCHANGED commands
    BY <1>6 DEF Send
  <2>2. CallTypes'
    BY <1>0, <2>1 DEF CallInv, CallTypes, CallStage
  <2>3. QueuedCalls'
    <3>1. \A k \in 1 .. Len(commands) : commands[k][1] # "Respond" => commands[k][2] \in Calls \ {c}
      BY IdleNowhere, ChannelTypes DEF CallInv
    <3> QED BY <1>1, <1>2, <2>1, <3>1 DEF CallInv, QueuedCalls, Queued
  <2> QED BY <1>4, <2>2, <2>3 DEF CallInv
<1> QED BY <1>5, <1>6

\* The caller goes away.
LEMMA CancelPlaces == ASSUME CallInv, NEW c \in Calls, Cancel(c) PROVE CallInv'
<1>1. /\ calls' = [calls EXCEPT ![c].stage = "gone"] /\ "cancel" \in Faults
      /\ UNCHANGED <<commands, pending, pendingDial, swarm>>
  BY DEF Cancel, loopVars
<1>2. /\ CallTypes'
      /\ \A d \in Calls : /\ Awaiting(d) => Awaiting(d)'
                          /\ calls'[d].peer = calls[d].peer /\ calls'[d].command = calls[d].command
  BY <1>1 DEF CallInv, CallTypes, CallStage, Awaiting
<1>3. \A d : Unkept(d) => Unkept(d)'
  BY <1>1 DEF Unkept
<1>4. \A k \in 1 .. Len(commands) : Queued(k) => Queued(k)'
  BY <1>1, <1>2, <1>3, ChannelTypes DEF Queued, CallInv
<1>5. QueuedCalls'
  BY <1>1, <1>4 DEF CallInv, QueuedCalls
<1>6. KeptCalls' /\ DialsWatched'
  BY <1>1, <1>2 DEF CallInv, CallTypes, KeptCalls, DialsWatched
<1> QED BY <1>2, <1>5, <1>6 DEF CallInv

\* The head of the channel, a command of c, is taken; the other callers are unaffected
\* and no map loses the others' senders or gains any but that of c.
LEMMA TakenQueue ==
  ASSUME CallInv, NEW command \in Commands, NEW c \in Calls, Handles(command, c),
         commands' = Tail(commands),
         \A d \in Calls \ {c} : calls'[d] = calls[d] /\ (Unkept(d) => Unkept(d)')
  PROVE  QueuedCalls' /\ commands' \in Seq((Commands \X Calls) \cup ({"Respond"} \X Inbound))
<1>0. /\ Len(commands) \in Nat /\ 1 \in 1 .. Len(commands)
      /\ Len(commands') = Len(commands) - 1
      /\ \A k \in 1 .. Len(commands') :
           k + 1 \in 1 .. Len(commands) /\ commands'[k] = commands[k + 1]
      /\ commands[1][1] # "Respond" /\ commands[1][2] = c
      /\ commands' \in Seq((Commands \X Calls) \cup ({"Respond"} \X Inbound))
  BY HeadFacts, RespondApart DEF CallInv
<1>1. ASSUME NEW k \in 1 .. Len(commands') PROVE Queued(k)'
  <2>1. /\ k + 1 \in 1 .. Len(commands) /\ k + 1 # 1 /\ commands'[k] = commands[k + 1]
    BY <1>0, <1>1
  <2>2. Queued(k + 1)
    BY <2>1 DEF CallInv, QueuedCalls
  <2>3. commands[k + 1][1] # "Respond" => commands[k + 1][2] \in Calls \ {c}
    BY <1>0, <2>1, ChannelTypes DEF CallInv, QueuedCalls
  <2>4. \A d \in Calls \ {c} : Awaiting(d) => Awaiting(d)'
    BY DEF Awaiting
  <2> QED BY <2>1, <2>2, <2>3, <2>4 DEF Queued
<1>2. ASSUME NEW j \in 1 .. Len(commands'), NEW k \in 1 .. Len(commands'),
             commands'[j][1] # "Respond", commands'[k][1] # "Respond", j # k
      PROVE  commands'[j][2] # commands'[k][2]
  <2>1. /\ j + 1 \in 1 .. Len(commands) /\ k + 1 \in 1 .. Len(commands) /\ j + 1 # k + 1
        /\ commands'[j] = commands[j + 1] /\ commands'[k] = commands[k + 1]
    BY <1>0, <1>2
  <2> QED BY <1>2, <2>1 DEF CallInv, QueuedCalls
<1> QED BY <1>0, <1>1, <1>2 DEF QueuedCalls

\* The caller at the head of the channel has no sender elsewhere.
LEMMA HeadUnkept ==
  ASSUME CallInv, NEW command \in Commands, NEW c \in Calls, Handles(command, c)
  PROVE  Awaiting(c) /\ Unkept(c) /\ (command \in {"AddProbe", "Dial"} => calls[c].peer \in Peers)
<1>1. /\ 1 \in 1 .. Len(commands) /\ commands[1][1] = command /\ commands[1][2] = c
      /\ command # "Respond"
  BY HeadFacts, RespondApart DEF CallInv
<1> QED BY <1>1 DEF CallInv, QueuedCalls, Queued

\* A command is handled and answered.
LEMMA AnswerPlaces ==
  ASSUME CallInv, NEW command \in Commands, NEW c \in Calls, Handles(command, c),
         commands' = Tail(commands), NEW r \in {"ok", "err"}, calls' = Answered(c, r),
         UNCHANGED <<loopVars, swarm>>
  PROVE  CallInv'
<1>0. UNCHANGED <<pending, pendingDial, swarm>>
  BY DEF loopVars
<1>1. /\ \A d \in Calls \ {c} : calls'[d] = calls[d]
      /\ \A d : Unkept(d) => Unkept(d)'
      /\ calls' \in [Calls -> [command : Commands \cup {"none"}, peer : Peers \cup {NoPeer},
                               stage : CallStage]]
  BY <1>0, AnsweredFacts DEF CallInv, Unkept
<1>2. QueuedCalls' /\ CallTypes'
  BY <1>0, <1>1, TakenQueue DEF CallInv, CallTypes
<1>3. /\ \A m \in Maps : \A d \in pending[m] : d \in Calls \ {c}
      /\ \A q \in DOMAIN pendingDial : pendingDial[q] \in Calls \ {c}
  BY HeadUnkept DEF Unkept, CallInv, CallTypes
<1>4. KeptCalls' /\ DialsWatched'
  BY <1>0, <1>1, <1>3 DEF CallInv, KeptCalls, DialsWatched, Awaiting
<1> QED BY <1>2, <1>4 DEF CallInv

\* A command is handled and its sender kept in a map.
LEMMA KeepPlaces ==
  ASSUME CallInv, NEW command \in Commands, NEW c \in Calls, Handles(command, c),
         commands' = Tail(commands), NEW m \in Maps, Keep(m, c),
         swarm'.dialing = swarm.dialing, swarm'.servers = swarm.servers
  PROVE  CallInv'
<1>0. pending' = [pending EXCEPT ![m] = @ \cup {c}] /\ UNCHANGED <<calls, pendingDial>>
  BY DEF Keep
<1>1. \A d \in Calls \ {c} : calls'[d] = calls[d] /\ (Unkept(d) => Unkept(d)')
  BY <1>0 DEF CallInv, CallTypes, Unkept
<1>2. QueuedCalls' /\ commands' \in Seq((Commands \X Calls) \cup ({"Respond"} \X Inbound))
  BY <1>1, TakenQueue
<1>3. CallTypes'
  BY <1>0, <1>2 DEF CallInv, CallTypes
<1>4. Awaiting(c) /\ Unkept(c)
  BY HeadUnkept
<1>5. KeptCalls'
  BY <1>0, <1>4 DEF CallInv, CallTypes, KeptCalls, Awaiting, Unkept
<1>6. DialsWatched'
  BY <1>0 DEF CallInv, DialsWatched
<1> QED BY <1>2, <1>3, <1>5, <1>6 DEF CallInv

\* A dial, or a probe, is handled and its sender kept per peer.
LEMMA KeepDialPlaces ==
  ASSUME CallInv, NEW command \in {"AddProbe", "Dial"}, NEW c \in Calls, Handles(command, c),
         commands' = Tail(commands), KeepDial(c), calls[c].peer \notin DOMAIN pendingDial,
         swarm.dialing \cup swarm.servers \subseteq swarm'.dialing \cup swarm'.servers,
         calls[c].peer \in swarm'.dialing \cup swarm'.servers
  PROVE  CallInv'
<1>0. /\ command \in Commands
      /\ UNCHANGED <<calls, pending>>
      /\ DOMAIN pendingDial' = DOMAIN pendingDial \cup {calls[c].peer}
      /\ pendingDial'[calls[c].peer] = c
      /\ \A p \in DOMAIN pendingDial : pendingDial'[p] = pendingDial[p]
  BY DEF KeepDial, Commands
<1>1. \A d \in Calls \ {c} : calls'[d] = calls[d] /\ (Unkept(d) => Unkept(d)')
  BY <1>0 DEF CallInv, CallTypes, Unkept
<1>2. QueuedCalls' /\ commands' \in Seq((Commands \X Calls) \cup ({"Respond"} \X Inbound))
  BY <1>0, <1>1, TakenQueue
<1>4. Awaiting(c) /\ Unkept(c) /\ calls[c].peer \in Peers
  BY <1>0, HeadUnkept
<1>3. CallTypes'
  BY <1>0, <1>2, <1>4 DEF CallInv, CallTypes
<1>5. KeptCalls'
  <2>1. ASSUME NEW m \in Maps, NEW d \in pending[m]
        PROVE  /\ Awaiting(d)'
               /\ \A n \in Maps : d \in pending[n] => n = m
               /\ \A p \in DOMAIN pendingDial' : pendingDial'[p] # d
    <3>1. /\ Awaiting(d)
          /\ \A n \in Maps : d \in pending[n] => n = m
          /\ \A p \in DOMAIN pendingDial : pendingDial[p] # d
      BY Zenon DEF CallInv, KeptCalls
    <3>2. d # c
      BY <1>4, ZenonT(30) DEF Unkept
    <3>3. Awaiting(d)'
      BY <1>0, <3>1 DEF Awaiting
    <3>4. \A p \in DOMAIN pendingDial' : pendingDial'[p] # d
      BY <1>0, <3>1, <3>2, Zenon
    <3> QED BY <3>1, <3>3, <3>4, Zenon
  <2>2. ASSUME NEW p \in DOMAIN pendingDial' PROVE Awaiting(pendingDial[p])'
    <3>1. Awaiting(pendingDial'[p])
      BY <1>0, <1>4, Zenon DEF CallInv, KeptCalls
    <3> QED BY <1>0, <3>1 DEF Awaiting
  <2>3. pending' = pending
    BY <1>0
  <2> QED BY <2>1, <2>2, <2>3, Zenon DEF KeptCalls
<1>6. DialsWatched'
  BY <1>0 DEF CallInv, DialsWatched
<1> QED BY <1>2, <1>3, <1>5, <1>6 DEF CallInv

\* A sender c leaves the maps and is answered; what the maps keep, they keep where
\* it was.
LEMMA LeavePlaces ==
  ASSUME CallInv, NEW c \in Calls, NEW r \in {"ok", "err"}, calls' = Answered(c, r),
         UNCHANGED commands, ~Unkept(c),
         pending' \in [Maps -> SUBSET Calls],
         \A m \in Maps : pending'[m] \subseteq pending[m] /\ c \notin pending'[m],
         DOMAIN pendingDial' \subseteq DOMAIN pendingDial,
         \A p \in DOMAIN pendingDial' :
           /\ pendingDial'[p] = pendingDial[p]
           /\ pendingDial[p] # c
           /\ p \in swarm'.dialing \cup swarm'.servers
  PROVE  CallInv'
<1>1. /\ \A d \in Calls \ {c} : calls'[d] = calls[d]
      /\ \A d \in Calls : calls'[d].peer = calls[d].peer
      /\ calls' \in [Calls -> [command : Commands \cup {"none"}, peer : Peers \cup {NoPeer},
                               stage : CallStage]]
  BY AnsweredFacts DEF CallInv
<1>2. CallTypes'
  BY <1>1 DEF CallInv, CallTypes
<1>3. \A d \in Calls \ {c} : (Awaiting(d) => Awaiting(d)') /\ (Unkept(d) => Unkept(d)')
  BY <1>1 DEF Awaiting, Unkept
<1>4. \A k \in 1 .. Len(commands) : Queued(k)'
  <2> SUFFICES ASSUME NEW k \in 1 .. Len(commands) PROVE Queued(k)'
    OBVIOUS
  <2>1. Queued(k)
    BY DEF CallInv, QueuedCalls
  <2>2. commands[k][1] # "Respond" => commands[k][2] \in Calls \ {c}
    BY <2>1, ChannelTypes DEF CallInv, Queued
  <2> QED BY <1>1, <1>3, <2>1, <2>2 DEF Queued
<1>5. QueuedCalls'
  BY <1>4 DEF CallInv, QueuedCalls
<1>6. KeptCalls'
  BY <1>3 DEF CallInv, CallTypes, KeptCalls
<1>7. DialsWatched'
  BY <1>1 DEF CallInv, CallTypes, DialsWatched
<1> QED BY <1>2, <1>5, <1>6, <1>7 DEF CallInv

\* The sender is found and answered.
LEMMA CompletePlaces ==
  ASSUME CallInv, NEW m \in Maps, NEW c \in Calls, NEW r \in {"ok", "err"}, NEW e,
         AnswerKept(m, c, r, e), c \in pending[m],
         swarm'.dialing = swarm.dialing, swarm'.servers = swarm.servers
  PROVE  CallInv'
<1>1. c \in pending[m]
  OBVIOUS
<1>2. /\ pending' = [pending EXCEPT ![m] = @ \ {c}]
      /\ calls' = Answered(c, r)
      /\ UNCHANGED <<commands, pendingDial>>
  BY DEF AnswerKept
<1>3. /\ pending' \in [Maps -> SUBSET Calls]
      /\ \A n \in Maps : pending'[n] \subseteq pending[n] /\ c \notin pending'[n]
  BY <1>1, <1>2 DEF CallInv, CallTypes, KeptCalls
<1>4. \A p \in DOMAIN pendingDial : pendingDial[p] # c /\ p \in swarm'.dialing \cup swarm'.servers
  BY <1>1 DEF CallInv, KeptCalls, DialsWatched
<1>5. ~Unkept(c)
  BY <1>1 DEF Unkept
<1> QED BY <1>2, <1>3, <1>4, <1>5, LeavePlaces

\* A dial ends: the sender kept for the peer, if any, is removed and answered.
LEMMA AnswerDialPlaces ==
  ASSUME CallInv, NEW p \in Peers, NEW r \in {"ok", "err"}, AnswerDial(p, r),
         swarm'.dialing = swarm.dialing \ {p}, swarm'.servers = swarm.servers
  PROVE  CallInv'
<1>1. /\ calls' = IF p \in DOMAIN pendingDial THEN Answered(pendingDial[p], r) ELSE calls
      /\ DOMAIN pendingDial' = DOMAIN pendingDial \ {p}
      /\ \A q \in DOMAIN pendingDial' : pendingDial'[q] = pendingDial[q]
      /\ UNCHANGED <<commands, pending>>
  BY DEF AnswerDial
<1>2. \A q \in DOMAIN pendingDial' : q \in swarm'.dialing \cup swarm'.servers
  BY <1>1 DEF CallInv, DialsWatched
<1>3. CASE p \in DOMAIN pendingDial
  <2>1. /\ pendingDial[p] \in Calls
        /\ \A m \in Maps : pendingDial[p] \notin pending[m]
        /\ \A q \in DOMAIN pendingDial' : pendingDial[q] # pendingDial[p]
        /\ ~Unkept(pendingDial[p])
    BY <1>1, <1>3 DEF CallInv, CallTypes, KeptCalls, DialsWatched, Unkept
  <2>2. pending' \in [Maps -> SUBSET Calls]
    BY <1>1 DEF CallInv, CallTypes
  <2> QED BY <1>1, <1>2, <1>3, <2>1, <2>2, LeavePlaces
<1>4. CASE p \notin DOMAIN pendingDial
  <2>1. CallTypes' /\ KeptCalls' /\ DialsWatched'
    BY <1>1, <1>2, <1>4 DEF CallInv, CallTypes, KeptCalls, DialsWatched, Awaiting
  <2>2. QueuedCalls'
    <3>1. calls' = calls /\ commands' = commands
      BY <1>1, <1>4
    <3>2. \A c : Unkept(c) => Unkept(c)'
      BY <1>1, Zenon DEF Unkept
    <3>3. \A k \in 1 .. Len(commands) : Queued(k)'
      BY <3>1, <3>2, Zenon DEF CallInv, QueuedCalls, Queued, Awaiting
    <3> QED
      BY <3>1, <3>3, ZenonT(30) DEF CallInv, QueuedCalls
  <2> QED BY <2>1, <2>2 DEF CallInv
<1> QED BY <1>3, <1>4

\* The end of the loop drops every sender.
LEMMA PanicPlaces == ASSUME CallInv, NEW e, Panic(e) PROVE CallInv'
<1>1. /\ commands' = <<>> /\ pending' = [m \in Maps |-> {}] /\ DOMAIN pendingDial' = {}
  BY DEF Panic
<1>3. calls' \in [Calls -> [command : Commands \cup {"none"}, peer : Peers \cup {NoPeer},
                            stage : CallStage]]
  BY DEF Panic, CallInv, CallTypes, CallStage
<1>4. CallTypes' /\ Len(commands') = 0
  BY <1>1, <1>3 DEF CallTypes
<1>5. QueuedCalls' /\ KeptCalls' /\ DialsWatched'
  BY <1>1, <1>4 DEF QueuedCalls, KeptCalls, DialsWatched
<1> QED BY <1>4, <1>5 DEF CallInv

\* An answer to a peer goes into the channel.
LEMMA RespondPlaces ==
  ASSUME CallInv, NEW i \in Inbound, commands' = Append(commands, <<"Respond", i>>),
         UNCHANGED <<calls, pending, pendingDial, swarm>>
  PROVE  CallInv'
<1>1. /\ commands' \in Seq((Commands \X Calls) \cup ({"Respond"} \X Inbound))
      /\ Len(commands) \in Nat
      /\ Len(commands') = Len(commands) + 1
      /\ \A k \in 1 .. Len(commands) : commands'[k] = commands[k]
      /\ commands'[Len(commands) + 1][1] = "Respond"
  <2>1. <<"Respond", i>> \in (Commands \X Calls) \cup ({"Respond"} \X Inbound)
    OBVIOUS
  <2> QED BY <2>1, AppendFacts DEF CallInv, CallTypes
<1>2. CallTypes' /\ KeptCalls' /\ DialsWatched'
  BY <1>1 DEF CallInv, CallTypes, KeptCalls, DialsWatched, Awaiting
<1>3. ASSUME NEW k \in 1 .. Len(commands') PROVE Queued(k)'
  <2>1. CASE k = Len(commands) + 1
    BY <1>1, <2>1, ZenonT(30) DEF Queued
  <2>2. CASE k \in 1 .. Len(commands)
    <3>1. Queued(k) /\ commands'[k] = commands[k]
      BY <1>1, <2>2, Zenon DEF CallInv, QueuedCalls
    <3> QED BY <3>1 DEF Queued, Awaiting, Unkept
  <2> QED BY <1>1, <2>1, <2>2
<1>4. QueuedCalls'
  BY <1>1, <1>3 DEF CallInv, QueuedCalls
<1> QED BY <1>2, <1>4 DEF CallInv

\* And is taken from it.
LEMMA RespondedPlaces ==
  ASSUME CallInv, NEW i, Handles("Respond", i), commands' = Tail(commands),
         UNCHANGED <<calls, pending, pendingDial, swarm>>
  PROVE  CallInv'
<1>1. /\ Len(commands) \in Nat
      /\ Len(commands') = Len(commands) - 1
      /\ \A k \in 1 .. Len(commands') :
           k + 1 \in 1 .. Len(commands) /\ commands'[k] = commands[k + 1]
      /\ commands' \in Seq((Commands \X Calls) \cup ({"Respond"} \X Inbound))
  BY HeadFacts DEF CallInv
<1>2. CallTypes' /\ KeptCalls' /\ DialsWatched'
  BY <1>1 DEF CallInv, CallTypes, KeptCalls, DialsWatched, Awaiting
<1>3. ASSUME NEW k \in 1 .. Len(commands') PROVE Queued(k)'
  <2>1. Queued(k + 1)
    BY <1>1, <1>3 DEF CallInv, QueuedCalls
  <2> QED BY <1>1, <1>3, <2>1 DEF Queued, Awaiting, Unkept
<1>4. ASSUME NEW j \in 1 .. Len(commands'), NEW k \in 1 .. Len(commands'),
             commands'[j][1] # "Respond", commands'[k][1] # "Respond", j # k
      PROVE  commands'[j][2] # commands'[k][2]
  <2>1. /\ j + 1 \in 1 .. Len(commands) /\ k + 1 \in 1 .. Len(commands) /\ j + 1 # k + 1
        /\ commands'[j] = commands[j + 1] /\ commands'[k] = commands[k + 1]
    BY <1>1, <1>4
  <2> QED BY <1>4, <2>1 DEF CallInv, QueuedCalls
<1> QED BY <1>2, <1>3, <1>4 DEF CallInv, QueuedCalls

-----------------------------------------------------------------------------
(* Every step keeps every caller in its place                              *)

\* The rest of the type invariant.
LoopTypes ==
  /\ panic \in {Alive} \cup Expectations
  /\ events \in Seq(Inbound)
  /\ bootstrapped \in BOOLEAN
  /\ swarm \in Swarm
  /\ inbound \in [Inbound -> [kind : Protocols \cup Topics \cup {"none"},
                              stage : InboundStage, open : BOOLEAN]]

LEMMA TypesSplit == TypeOK <=> CallTypes /\ LoopTypes
  BY DEF TypeOK, CallTypes, LoopTypes

PlaceInv == LoopInv /\ LoopTypes /\ CallInv

LEMMA ClientPlaces ==
  ASSUME PlaceInv, NEW c \in Calls, CallAny(c) \/ Bootstrap(c) \/ Cancel(c)
  PROVE  CallInv'
<1>1. ASSUME NEW command \in Commands, NEW p \in Peers \cup {NoPeer},
             command \in {"AddProbe", "Dial"} => p \in Peers, Call(c, command, p)
      PROVE  CallInv'
  BY <1>1, SendPlaces DEF Call, PlaceInv
<1>2. CASE CallAny(c)
  <2>1. /\ {"AddProbe", "Listen", "Dial", "ListPeers", "Status", "Provide", "ListProviders",
            "VerifyBuild", "BroadcastBlock"} \subseteq Commands
        /\ {"RequestBuild", "RequestArtifact", "RequestIdleMetric", "RequestBlockchain",
            "RequestBuildStatus"} \subseteq Commands
    BY DEF Commands, RequestOf, Protocols
  <2>2. PICK command \in Commands, p \in Peers \cup {NoPeer} :
          (command \in {"AddProbe", "Dial"} => p \in Peers) /\ Call(c, command, p)
    BY <1>2, <2>1 DEF CallAny, add_probe_address, listen, dial, list_peers, status, provide,
       list_providers, request_build, verify_build, request_artifact, get_idle_peer,
       request_blockchain, broadcast_block, request_build_status
  <2> QED BY <1>1, <2>2
<1>3. CASE Bootstrap(c)
  <2>1. calls[c].peer \in Peers \cup {NoPeer} /\ "BootstrapDht" \in Commands
    BY DEF PlaceInv, CallInv, CallTypes, Commands
  <2> QED BY <1>3, <2>1, SendPlaces DEF Bootstrap, PlaceInv
<1>4. CASE Cancel(c)
  BY <1>4, CancelPlaces DEF PlaceInv
<1> QED BY <1>2, <1>3, <1>4

\* The names the arms of handle_command are matched by.
LEMMA CommandNames ==
  /\ {"AddProbe", "BootstrapDht", "Listen", "Dial", "ListPeers", "Status", "Provide",
      "ListProviders", "VerifyBuild", "BroadcastBlock"} \subseteq Commands
  /\ \A proto \in Protocols : RequestOf[proto] \in Commands
  BY DEF Commands, RequestOf, Protocols

LEMMA DropPlaces ==
  ASSUME CallInv, NEW command \in Commands, NEW c \in Calls, Handles(command, c), Taken,
         DropSender(c)
  PROVE  CallInv'
  BY AnswerPlaces DEF Taken, DropSender

LEMMA AtOncePlaces ==
  ASSUME CallInv, NEW command \in Commands, NEW c \in Calls, NEW results \in SUBSET {"ok", "err"},
         AnswerAtOnce(command, c, results)
  PROVE  CallInv'
<1>1. PICK r \in results : calls' = Answered(c, r)
  BY DEF AnswerAtOnce
<1> QED BY <1>1, AnswerPlaces DEF AnswerAtOnce, Taken

\* handle_command, arm by arm.
LEMMA CommandPlaces == ASSUME PlaceInv, handle_command PROVE CallInv'
<1> USE DEF PlaceInv
<1>1. ASSUME NEW c \in Calls, AddProbe(c) PROVE CallInv'
  <2>1. CASE calls[c].peer \notin DOMAIN pendingDial
    <3>1. swarm'.servers = swarm.servers \cup {calls[c].peer} /\ swarm'.dialing = swarm.dialing
      BY <1>1, <2>1 DEF AddProbe, LoopTypes, Swarm
    <3> QED BY <1>1, <2>1, <3>1, KeepDialPlaces DEF AddProbe, Taken
  <2>2. CASE calls[c].peer \in DOMAIN pendingDial
    BY <1>1, <2>2, DropPlaces, CommandNames DEF AddProbe
  <2> QED BY <2>1, <2>2
<1>2. ASSUME NEW c \in Calls, Dial(c) PROVE CallInv'
  <2>1. CASE DropSender(c)
    BY <1>2, <2>1, DropPlaces, CommandNames DEF Dial
  <2>2. CASE /\ calls[c].peer \notin DOMAIN pendingDial
             /\ KeepDial(c)
             /\ swarm' = [swarm EXCEPT !.dialing = @ \cup {calls[c].peer}]
    <3>1. swarm'.dialing = swarm.dialing \cup {calls[c].peer} /\ swarm'.servers = swarm.servers
      BY <2>2 DEF LoopTypes, Swarm
    <3> QED BY <1>2, <2>2, <3>1, KeepDialPlaces DEF Dial, Taken
  <2> QED BY <1>2, <2>1, <2>2 DEF Dial
<1>3. ASSUME NEW m \in Maps, NEW c \in Calls, Start(m, c)
      PROVE  swarm'.dialing = swarm.dialing /\ swarm'.servers = swarm.servers
  BY <1>3 DEF Start, LoopTypes, Swarm
<1>4. ASSUME NEW c \in Calls, BootstrapDht(c) PROVE CallInv'
  <2>1. CASE DropSender(c)
    BY <1>4, <2>1, DropPlaces, CommandNames DEF BootstrapDht
  <2>2. CASE Start("bootstrap", c) /\ Keep("bootstrap", c)
    BY <1>3, <1>4, <2>2, KeepPlaces, CommandNames DEF BootstrapDht, Taken, Maps
  <2> QED BY <1>4, <2>1, <2>2 DEF BootstrapDht
<1>5. ASSUME NEW c \in Calls, StatusCommand(c) PROVE CallInv'
  <2>1. CASE calls[c].stage = "waiting"
    BY <1>5, <2>1, AtOncePlaces, CommandNames DEF StatusCommand
  <2>2. CASE calls[c].stage # "waiting"
    BY <1>5, <2>2, PanicPlaces DEF StatusCommand
  <2> QED BY <2>1, <2>2
<1>6. ASSUME NEW c \in Calls, Provide(c) PROVE CallInv'
  <2>1. ASSUME NEW keys, Announce(c, keys) PROVE CallInv'
    <3>1. swarm'.dialing = swarm.dialing /\ swarm'.servers = swarm.servers
      BY <2>1 DEF Announce, LoopTypes, Swarm
    <3> QED BY <1>6, <2>1, <3>1, KeepPlaces, CommandNames DEF Provide, Announce, Taken, Maps
  <2>2. CASE Panic("no_store_error")
    BY <2>2, PanicPlaces
  <2> QED BY <1>6, <2>1, <2>2, Zenon DEF Provide
<1>7. ASSUME NEW c \in Calls, ListProviders(c) PROVE CallInv'
  BY <1>3, <1>7, KeepPlaces, CommandNames DEF ListProviders, Taken, Maps
<1>8. ASSUME NEW c \in Calls, Listen(c) \/ ListPeers(c) \/ VerifyBuild(c) \/ BroadcastBlock(c)
      PROVE  CallInv'
  BY <1>8, AtOncePlaces, CommandNames DEF Listen, ListPeers, VerifyBuild, BroadcastBlock
<1>9. ASSUME NEW proto \in Protocols, NEW c \in Calls, SendRequest(proto, c) PROVE CallInv'
  BY <1>3, <1>9, KeepPlaces, CommandNames, Zenon DEF SendRequest, Taken, Maps
<1>10. ASSUME NEW i \in Inbound, NEW proto, SendResponse(proto, i) PROVE CallInv'
  <2>1. CASE Panic("still_open")
    BY <2>1, PanicPlaces
  <2>2. CASE commands' = Tail(commands) /\ UNCHANGED <<panic, calls, loopVars>>
    BY <1>10, <2>2, RespondedPlaces DEF SendResponse, loopVars
  <2> QED BY <1>10, <2>1, <2>2 DEF SendResponse
<1>11. ASSUME NEW c \in Calls,
              \/ RequestArtifact(c) \/ RequestBuild(c) \/ RequestIdleMetric(c)
              \/ RequestBlockchain(c) \/ RequestBuildStatus(c)
       PROVE  CallInv'
  BY <1>9, <1>11 DEF Protocols, RequestArtifact, RequestBuild, RequestIdleMetric,
     RequestBlockchain, RequestBuildStatus
<1>12. ASSUME NEW i \in Inbound,
              \/ RespondArtifact(i) \/ RespondBuild(i) \/ RespondIdleMetric(i)
              \/ RespondBlockchain(i) \/ RespondBuildStatus(i)
       PROVE  CallInv'
  BY <1>10, <1>12 DEF RespondArtifact, RespondBuild, RespondIdleMetric, RespondBlockchain,
     RespondBuildStatus
<1> QED BY <1>1, <1>2, <1>4, <1>5, <1>6, <1>7, <1>8, <1>11, <1>12 DEF handle_command

\* The handlers of libp2p's events, connections, and the loop of main.
LEMMA EventPlaces ==
  ASSUME PlaceInv,
         \/ SwarmEvent
         \/ \E p \in Peers : \/ AutonatDials(p) \/ ConnectionEstablished(p)
                             \/ OutgoingConnectionError(p) \/ IncomingConnection(p)
                             \/ ConnectionClosed(p)
         \/ AddProviderReceived
         \/ \E i \in Inbound : InboundFailure(i)
         \/ TakeEvent
         \/ HandleEvent
  PROVE  CallInv'
<1> USE DEF PlaceInv
<1>1. ASSUME NEW m \in Maps, NEW c \in Calls, NEW r \in {"ok", "err"}, NEW e, AnswerKept(m, c, r, e),
             swarm'.dialing = swarm.dialing, swarm'.servers = swarm.servers
      PROVE  CallInv'
  <2>1. CASE c \in pending[m]
    BY <1>1, <2>1, CompletePlaces
  <2>2. CASE c \notin pending[m]
    BY <1>1, <2>2, PanicPlaces DEF AnswerKept
  <2> QED BY <2>1, <2>2
<1>2. ASSUME NEW m \in Maps, NEW c \in Calls, NEW r \in {"ok", "err"}, NEW e, Complete(m, c, r, e)
      PROVE  CallInv'
  <2>1. swarm'.dialing = swarm.dialing /\ swarm'.servers = swarm.servers
    BY <1>2 DEF Complete, LoopTypes, Swarm
  <2> QED BY <1>1, <1>2, <2>1 DEF Complete
<1>12. ASSUME NEW c \in Calls, BootstrapTimedOut(c) PROVE CallInv'
  <2>1. swarm'.dialing = swarm.dialing /\ swarm'.servers = swarm.servers
    BY <1>12 DEF BootstrapTimedOut, LoopTypes, Swarm
  <2> QED BY <1>1, <1>12, <2>1 DEF BootstrapTimedOut, Maps
<1>13. ASSUME NEW c \in Calls, GetProvidersFailed(c) \/ BootstrapProgressed(c)
       PROVE  CallInv'
  <2>1. swarm'.dialing = swarm.dialing /\ swarm'.servers = swarm.servers
    BY <1>13, Zenon DEF GetProvidersFailed, BootstrapProgressed, LoopTypes, Swarm
  <2> QED BY <1>13, <2>1, QuietPlaces DEF GetProvidersFailed, BootstrapProgressed,
             clientVars, loopVars
<1>14. ASSUME NEW c \in Calls, FoundProviders(c) PROVE CallInv'
  <2>1. CASE Panic("query_pending")
    BY <2>1, PanicPlaces
  <2>2. CASE UNCHANGED <<panic, clientVars, loopVars>>
    BY <1>14, <2>2, QuietPlaces DEF FoundProviders, clientVars, loopVars
  <2> QED BY <1>14, <2>1, <2>2 DEF FoundProviders
<1>3. CASE handle_kademlia_event
  <2>1. PICK c \in Calls :
          \/ StartProvidingDone(c) \/ FoundProviders(c) \/ GetProvidersFinished(c)
          \/ GetProvidersFailed(c) \/ BootstrapProgressed(c) \/ BootstrapTimedOut(c)
          \/ BootstrapDone(c)
    BY <1>3 DEF handle_kademlia_event
  <2>2. CASE StartProvidingDone(c) \/ GetProvidersFinished(c) \/ BootstrapDone(c)
    BY <1>2, <2>2 DEF StartProvidingDone, GetProvidersFinished, BootstrapDone, QueryCompleted, Maps
  <2> QED BY <1>12, <1>13, <1>14, <2>1, <2>2
<1>15. CASE AddProviderReceived
  <2>1. swarm'.dialing = swarm.dialing /\ swarm'.servers = swarm.servers
    BY <1>15 DEF AddProviderReceived, LoopTypes, Swarm
  <2> QED BY <1>15, <2>1, QuietPlaces DEF AddProviderReceived, clientVars, loopVars
<1>4. ASSUME NEW kind, NEW i, IncomingMessage(kind, i) PROVE CallInv'
  BY <1>4, QuietPlaces DEF IncomingMessage, clientVars, loopVars
<1>5. ASSUME NEW proto \in Protocols, ExchangeEvent(proto) PROVE CallInv'
  <2>1. proto \in Maps
    BY DEF Maps
  <2> QED BY <1>2, <1>4, <1>5, <2>1 DEF ExchangeEvent, RequestCompleted
<1>6. CASE SwarmEvent
  <2>1. CASE handle_gossipsub_event
    BY <1>4, <2>1 DEF handle_gossipsub_event
  <2>2. CASE \E proto \in Protocols : ExchangeEvent(proto)
    BY <1>5, <2>2
  <2> QED BY <1>3, <1>6, <2>1, <2>2 DEF SwarmEvent, Protocols, handle_request_response_event,
         handle_idle_metric_request_response_event, handle_build_request_response_event,
         handle_build_status_request_response_event, handle_blockchain_request_response_event
<1>7. ASSUME NEW p \in Peers, ConnectionEstablished(p) \/ OutgoingConnectionError(p)
      PROVE  CallInv'
  <2>1. swarm'.dialing = swarm.dialing \ {p} /\ swarm'.servers = swarm.servers
    BY <1>7, Zenon DEF ConnectionEstablished, OutgoingConnectionError, LoopTypes, Swarm
  <2> QED BY <1>7, <2>1, AnswerDialPlaces, Zenon DEF ConnectionEstablished, OutgoingConnectionError
<1>8. ASSUME NEW p \in Peers, AutonatDials(p) \/ IncomingConnection(p) \/ ConnectionClosed(p)
      PROVE  CallInv'
  <2>1. swarm.dialing \subseteq swarm'.dialing /\ swarm'.servers = swarm.servers
    BY <1>8 DEF AutonatDials, IncomingConnection, ConnectionClosed, LoopTypes, Swarm
  <2> QED BY <1>8, <2>1, QuietPlaces DEF AutonatDials, IncomingConnection, ConnectionClosed,
             clientVars, loopVars
<1>9. CASE (\E i \in Inbound : InboundFailure(i)) \/ TakeEvent
  BY <1>9, QuietPlaces DEF InboundFailure, TakeEvent, clientVars, loopVars
<1>10. ASSUME NEW i \in Inbound, NEW kind, Handling(kind, i), Respond(i) \/ DropChannel(i)
       PROVE  CallInv'
  BY <1>10, QuietPlaces, RespondPlaces DEF Handling, Respond, DropChannel, loopVars
<1>11. CASE HandleEvent
  BY <1>10, <1>11 DEF HandleEvent, handle_request_artifact, handle_request_build,
     handle_request_idle_metric, handle_request_build_status, handle_verify_build,
     handle_incoming_blockchain_command, respond_artifact, respond_build, respond_idle_metric,
     respond_blockchain, respond_build_status
<1> QED BY <1>6, <1>7, <1>8, <1>9, <1>11, <1>15

-----------------------------------------------------------------------------
(* The types of the rest                                                   *)

\* A step of the loop that ends no loop and leaves libp2p's part well-formed.
LEMMA QuietTypes ==
  ASSUME LoopTypes, UNCHANGED <<panic, events, inbound>>, bootstrapped' \in BOOLEAN, swarm' \in Swarm
  PROVE  LoopTypes'
  BY DEF LoopTypes

LEMMA PanicTypes ==
  ASSUME LoopTypes, NEW e \in Expectations, Panic(e), UNCHANGED <<events, inbound>>, swarm' \in Swarm
  PROVE  LoopTypes'
  BY DEF LoopTypes, Panic

\* Queries start and end; the rest of libp2p's part is well-formed.
LEMMA SwarmTypes ==
  ASSUME LoopTypes, NEW m \in Maps, NEW c \in Calls
  PROVE  /\ [swarm EXCEPT !.inflight = Begun(m, c)] \in Swarm
         /\ [swarm EXCEPT !.inflight = Ended(m, c)] \in Swarm
         /\ swarm.keys < MaxKeys
              => [swarm EXCEPT !.keys = @ + 1, !.inflight = Begun(m, c)] \in Swarm
         /\ [swarm EXCEPT !.keys = @ + 0, !.inflight = Begun(m, c)] \in Swarm
         /\ swarm.keys < MaxKeys => [swarm EXCEPT !.keys = @ + 1] \in Swarm
         /\ [swarm EXCEPT !.inflight = Ended(m, c), !.timedout = @ \cup {c}] \in Swarm
         /\ [swarm EXCEPT !.timedout = @ \cup {c}] \in Swarm
         /\ [swarm EXCEPT !.refreshing = @ \cup {c}] \in Swarm
<1>1. /\ swarm \in Swarm /\ swarm.inflight \in [Maps -> SUBSET Calls]
      /\ swarm.keys \in 0 .. MaxKeys
  BY DEF LoopTypes, Swarm
<1>2. Begun(m, c) \in [Maps -> SUBSET Calls] /\ Ended(m, c) \in [Maps -> SUBSET Calls]
  BY <1>1 DEF Begun, Ended
<1>3. swarm.keys < MaxKeys => swarm.keys + 1 \in 0 .. MaxKeys
  BY <1>1, PeerLoopAssumption
<1>4. swarm.keys + 0 \in 0 .. MaxKeys
  BY <1>1, PeerLoopAssumption
<1>5. swarm.timedout \cup {c} \in SUBSET Calls /\ swarm.refreshing \cup {c} \in SUBSET Calls
  BY <1>1 DEF Swarm
<1>6. /\ [swarm EXCEPT !.inflight = Begun(m, c)] \in Swarm
      /\ [swarm EXCEPT !.inflight = Ended(m, c)] \in Swarm
  BY <1>1, <1>2, ZenonT(30) DEF Swarm
<1>7. swarm.keys < MaxKeys
        => [swarm EXCEPT !.keys = @ + 1, !.inflight = Begun(m, c)] \in Swarm
  BY <1>1, <1>2, <1>3, ZenonT(30) DEF Swarm
<1>8. [swarm EXCEPT !.keys = @ + 0, !.inflight = Begun(m, c)] \in Swarm
  BY <1>1, <1>2, <1>4, ZenonT(30) DEF Swarm
<1>9. swarm.keys < MaxKeys => [swarm EXCEPT !.keys = @ + 1] \in Swarm
  BY <1>1, <1>3, ZenonT(30) DEF Swarm
<1>10. [swarm EXCEPT !.inflight = Ended(m, c), !.timedout = @ \cup {c}] \in Swarm
  BY <1>1, <1>2, <1>5, ZenonT(30) DEF Swarm
<1>11. /\ [swarm EXCEPT !.timedout = @ \cup {c}] \in Swarm
       /\ [swarm EXCEPT !.refreshing = @ \cup {c}] \in Swarm
  BY <1>1, <1>5, ZenonT(30) DEF Swarm
<1> QED BY <1>6, <1>7, <1>8, <1>9, <1>10, <1>11, Zenon

LEMMA CommandTypes == ASSUME PlaceInv, handle_command PROVE LoopTypes'
<1> USE DEF PlaceInv
<1>0. bootstrapped \in BOOLEAN /\ swarm \in Swarm
  BY DEF LoopTypes
<1>1. ASSUME NEW c \in Calls, AddProbe(c) \/ Dial(c) PROVE LoopTypes'
  <2>0. calls[c].peer \in Peers
    BY <1>1, CommandNames, HeadUnkept DEF AddProbe, Dial
  <2>1. swarm' \in Swarm
    BY <1>0, <1>1, <2>0 DEF AddProbe, Dial, Swarm, DropSender
  <2> QED BY <1>0, <1>1, <2>1, QuietTypes DEF AddProbe, Dial, Taken, KeepDial, DropSender, loopVars
<1>2. ASSUME NEW c \in Calls, BootstrapDht(c) PROVE LoopTypes'
  <2>1. swarm' \in Swarm
    <3>1. [swarm EXCEPT !.inflight = Begun("bootstrap", c)] \in Swarm
      BY SwarmTypes, Zenon DEF Maps
    <3> QED BY <1>0, <1>2, <3>1 DEF BootstrapDht, Start, DropSender
  <2> QED BY <1>0, <1>2, <2>1, QuietTypes, Zenon DEF BootstrapDht, Taken, DropSender, loopVars
<1>3. ASSUME NEW command, NEW c, NEW results, AnswerAtOnce(command, c, results) PROVE LoopTypes'
  BY <1>0, <1>3, QuietTypes DEF AnswerAtOnce, Taken, loopVars
<1>4. ASSUME NEW c \in Calls, StatusCommand(c) PROVE LoopTypes'
  BY <1>0, <1>3, <1>4, PanicTypes DEF StatusCommand, Expectations
<1>5. ASSUME NEW c \in Calls, Provide(c) PROVE LoopTypes'
  <2>1. ASSUME NEW keys, Announce(c, keys), swarm' \in Swarm PROVE LoopTypes'
    BY <1>0, <2>1, QuietTypes DEF Announce, Taken
  <2>2. CASE Announce(c, 0)
    <3>1. swarm' \in Swarm
      BY <2>2, SwarmTypes, Zenon DEF Announce, Maps
    <3> QED BY <2>1, <2>2, <3>1
  <2>3. CASE swarm.keys < MaxKeys /\ Announce(c, 1)
    <3>1. swarm' \in Swarm
      BY <2>3, SwarmTypes, Zenon DEF Announce, Maps
    <3> QED BY <2>1, <2>3, <3>1
  <2>4. CASE Panic("no_store_error") /\ UNCHANGED <<events, swarm, inbound>>
    BY <1>0, <2>4, PanicTypes DEF Expectations
  <2> QED BY <1>5, <2>2, <2>3, <2>4, Zenon DEF Provide
<1>6. ASSUME NEW c \in Calls, ListProviders(c) PROVE LoopTypes'
  <2>1. swarm' \in Swarm
    BY <1>6, SwarmTypes, Zenon DEF ListProviders, Start, Maps
  <2> QED BY <1>0, <1>6, <2>1, QuietTypes DEF ListProviders, Taken
<1>7. ASSUME NEW proto \in Protocols, NEW c \in Calls, SendRequest(proto, c) PROVE LoopTypes'
  <2>1. swarm' \in Swarm
    BY <1>7, SwarmTypes, Zenon DEF SendRequest, Start, Maps
  <2> QED BY <1>0, <1>7, <2>1, QuietTypes DEF SendRequest, Taken
<1>8. ASSUME NEW proto, NEW i \in Inbound, SendResponse(proto, i) PROVE LoopTypes'
  <2>1. inbound' \in [Inbound -> [kind : Protocols \cup Topics \cup {"none"},
                                  stage : InboundStage, open : BOOLEAN]]
    BY <1>8, ZenonT(30) DEF SendResponse, LoopTypes, InboundStage
  <2>2. panic' \in {Alive} \cup Expectations /\ bootstrapped' = bootstrapped
    BY <1>8 DEF SendResponse, LoopTypes, Panic, Expectations, loopVars
  <2> QED BY <1>8, <2>1, <2>2 DEF SendResponse, LoopTypes
<1>9. ASSUME NEW c \in Calls,
             \/ RequestArtifact(c) \/ RequestBuild(c) \/ RequestIdleMetric(c)
             \/ RequestBlockchain(c) \/ RequestBuildStatus(c)
      PROVE  LoopTypes'
  BY <1>7, <1>9 DEF Protocols, RequestArtifact, RequestBuild, RequestIdleMetric,
     RequestBlockchain, RequestBuildStatus
<1>10. ASSUME NEW i \in Inbound,
              \/ RespondArtifact(i) \/ RespondBuild(i) \/ RespondIdleMetric(i)
              \/ RespondBlockchain(i) \/ RespondBuildStatus(i)
       PROVE  LoopTypes'
  BY <1>8, <1>10 DEF RespondArtifact, RespondBuild, RespondIdleMetric, RespondBlockchain,
     RespondBuildStatus
<1>11. ASSUME NEW c \in Calls, Listen(c) \/ ListPeers(c) \/ VerifyBuild(c) \/ BroadcastBlock(c)
       PROVE  LoopTypes'
  BY <1>3, <1>11 DEF Listen, ListPeers, VerifyBuild, BroadcastBlock
<1> QED BY <1>1, <1>2, <1>4, <1>5, <1>6, <1>9, <1>10, <1>11 DEF handle_command

LEMMA EventTypes ==
  ASSUME PlaceInv,
         \/ SwarmEvent
         \/ \E p \in Peers : \/ AutonatDials(p) \/ ConnectionEstablished(p)
                             \/ OutgoingConnectionError(p) \/ IncomingConnection(p)
                             \/ ConnectionClosed(p)
         \/ AddProviderReceived
         \/ \E i \in Inbound : InboundFailure(i)
         \/ TakeEvent
         \/ HandleEvent
  PROVE  LoopTypes'
<1> USE DEF PlaceInv
<1>0. bootstrapped \in BOOLEAN /\ swarm \in Swarm
  BY DEF LoopTypes
<1>1. ASSUME NEW m, NEW c, NEW r, NEW e \in Expectations, AnswerKept(m, c, r, e),
             UNCHANGED <<events, inbound>>, swarm' \in Swarm
      PROVE  LoopTypes'
  <2>1. CASE c \in pending[m]
    BY <1>0, <1>1, <2>1, QuietTypes DEF AnswerKept
  <2>2. CASE c \notin pending[m]
    BY <1>1, <2>2, PanicTypes DEF AnswerKept
  <2> QED BY <2>1, <2>2
<1>2. ASSUME NEW m \in Maps, NEW c \in Calls, NEW r, NEW e \in Expectations, Complete(m, c, r, e)
      PROVE  LoopTypes'
  <2>1. swarm' \in Swarm
    BY <1>2, SwarmTypes, Zenon DEF Complete
  <2> QED BY <1>1, <1>2, <2>1, Zenon DEF Complete
<1>12. {"query_pending", "request_pending", "bootstrap_pending"} \subseteq Expectations
  BY DEF Expectations
<1>13. ASSUME NEW c \in Calls, BootstrapTimedOut(c) PROVE LoopTypes'
  <2>1. swarm' \in Swarm
    BY <1>13, SwarmTypes, Zenon DEF BootstrapTimedOut, Maps
  <2> QED BY <1>1, <1>12, <1>13, <2>1 DEF BootstrapTimedOut
<1>14. ASSUME NEW c \in Calls, GetProvidersFailed(c) \/ BootstrapProgressed(c) PROVE LoopTypes'
  <2>1. "list_providers" \in Maps
    BY DEF Maps
  <2>2. CASE GetProvidersFailed(c)
    <3>1. swarm' \in Swarm
      BY <2>1, <2>2, SwarmTypes, Zenon DEF GetProvidersFailed
    <3> QED BY <1>0, <2>2, <3>1, QuietTypes DEF GetProvidersFailed, loopVars
  <2>3. CASE BootstrapProgressed(c)
    <3>1. swarm' \in Swarm
      BY <2>1, <2>3, SwarmTypes, Zenon DEF BootstrapProgressed
    <3> QED BY <1>0, <2>3, <3>1, QuietTypes DEF BootstrapProgressed, loopVars
  <2> QED BY <1>14, <2>2, <2>3
<1>15. ASSUME NEW c \in Calls, FoundProviders(c) PROVE LoopTypes'
  <2>1. CASE Panic("query_pending")
    BY <1>0, <1>12, <1>15, <2>1, PanicTypes DEF FoundProviders
  <2>2. CASE UNCHANGED <<panic, clientVars, loopVars>>
    BY <1>0, <1>15, <2>2, QuietTypes DEF FoundProviders, loopVars
  <2> QED BY <1>15, <2>1, <2>2 DEF FoundProviders
<1>3. CASE handle_kademlia_event
  <2>1. PICK c \in Calls :
          \/ StartProvidingDone(c) \/ FoundProviders(c) \/ GetProvidersFinished(c)
          \/ GetProvidersFailed(c) \/ BootstrapProgressed(c) \/ BootstrapTimedOut(c)
          \/ BootstrapDone(c)
    BY <1>3 DEF handle_kademlia_event
  <2>2. CASE StartProvidingDone(c) \/ GetProvidersFinished(c) \/ BootstrapDone(c)
    BY <1>2, <1>12, <2>2 DEF StartProvidingDone, GetProvidersFinished, BootstrapDone, QueryCompleted, Maps
  <2> QED BY <1>13, <1>14, <1>15, <2>1, <2>2
<1>16. CASE AddProviderReceived
  <2>1. swarm' \in Swarm
    BY <1>0, <1>16, PeerLoopAssumption DEF AddProviderReceived, Swarm
  <2> QED BY <1>0, <1>16, <2>1, QuietTypes DEF AddProviderReceived, loopVars
<1>4. ASSUME NEW kind, NEW i \in Inbound, IncomingMessage(kind, i) PROVE LoopTypes'
  <2>1. events' \in Seq(Inbound)
    BY <1>4, AppendFacts, Zenon DEF IncomingMessage, LoopTypes
  <2>2. kind \in Protocols \cup Topics
    BY <1>4, PeerLoopAssumption DEF IncomingMessage
  <2>3. inbound' \in [Inbound -> [kind : Protocols \cup Topics \cup {"none"},
                                  stage : InboundStage, open : BOOLEAN]]
    <3> DEFINE Messages == [kind : Protocols \cup Topics \cup {"none"},
                            stage : InboundStage, open : BOOLEAN]
               message == [kind |-> kind, stage |-> "event", open |-> kind \in Protocols]
    <3>1. message \in Messages
      BY <2>2 DEF InboundStage
    <3>2. inbound \in [Inbound -> Messages] /\ inbound' = [inbound EXCEPT ![i] = message]
      BY <1>4, Zenon DEF IncomingMessage, LoopTypes
    <3> HIDE DEF Messages, message
    <3>3. inbound' \in [Inbound -> Messages]
      BY <3>1, <3>2
    <3> QED BY <3>3, ZenonT(30) DEF Messages
  <2> QED BY <1>4, <2>1, <2>3, ZenonT(30) DEF IncomingMessage, LoopTypes, loopVars
<1>5. ASSUME NEW proto \in Protocols, ExchangeEvent(proto) PROVE LoopTypes'
  <2>1. proto \in Maps
    BY DEF Maps
  <2> QED BY <1>2, <1>4, <1>5, <1>12, <2>1 DEF ExchangeEvent, RequestCompleted
<1>6. CASE SwarmEvent
  <2>1. CASE handle_gossipsub_event
    BY <1>4, <2>1 DEF handle_gossipsub_event
  <2>2. CASE \E proto \in Protocols : ExchangeEvent(proto)
    BY <1>5, <2>2
  <2> QED BY <1>3, <1>6, <2>1, <2>2 DEF SwarmEvent, Protocols, handle_request_response_event,
         handle_idle_metric_request_response_event, handle_build_request_response_event,
         handle_build_status_request_response_event, handle_blockchain_request_response_event
<1>7. ASSUME NEW p \in Peers,
             \/ AutonatDials(p) \/ ConnectionEstablished(p) \/ OutgoingConnectionError(p)
             \/ IncomingConnection(p) \/ ConnectionClosed(p)
      PROVE  LoopTypes'
  <2>1. swarm' \in Swarm
    <3>1. \A d, n, r \in SUBSET Peers :
            [swarm EXCEPT !.dialing = d, !.connected = n, !.routing = r] \in Swarm
      BY <1>0, Zenon DEF Swarm
    <3>2. /\ swarm.dialing \in SUBSET Peers /\ swarm.connected \in SUBSET Peers
          /\ swarm.routing \in SUBSET Peers
      BY <1>0 DEF Swarm
    <3>3. CASE AutonatDials(p)
      BY <1>0, <3>3 DEF AutonatDials, Swarm
    <3>4. CASE ConnectionEstablished(p)
      BY <1>0, <3>1, <3>2, <3>4, Zenon DEF ConnectionEstablished
    <3>5. CASE OutgoingConnectionError(p)
      BY <1>0, <3>5 DEF OutgoingConnectionError, Swarm
    <3>6. CASE IncomingConnection(p) \/ ConnectionClosed(p)
      BY <1>0, <3>6 DEF IncomingConnection, ConnectionClosed, Swarm
    <3> QED BY <1>7, <3>3, <3>4, <3>5, <3>6
  <2>2. UNCHANGED <<panic, events, inbound, bootstrapped>>
    BY <1>7, Zenon DEF AutonatDials, ConnectionEstablished, OutgoingConnectionError,
       IncomingConnection, ConnectionClosed, AnswerDial, loopVars
  <2> QED BY <1>0, <2>1, <2>2, QuietTypes
<1>8. ASSUME NEW i \in Inbound, InboundFailure(i) PROVE LoopTypes'
  BY <1>8, Zenon DEF InboundFailure, LoopTypes, loopVars
<1>9. CASE TakeEvent
  <2>1. Head(events) \in Inbound /\ Tail(events) \in Seq(Inbound)
    BY <1>9, TailFacts DEF TakeEvent, LoopTypes
  <2> QED BY <1>9, <2>1, ZenonT(30) DEF TakeEvent, LoopTypes, InboundStage, loopVars
<1>10. ASSUME NEW i \in Inbound, NEW kind, Handling(kind, i), Respond(i) \/ DropChannel(i)
       PROVE  LoopTypes'
  BY <1>10 DEF Handling, Respond, DropChannel, LoopTypes, InboundStage, loopVars
<1>11. CASE HandleEvent
  BY <1>10, <1>11 DEF HandleEvent, handle_request_artifact, handle_request_build,
     handle_request_idle_metric, handle_request_build_status, handle_verify_build,
     handle_incoming_blockchain_command, respond_artifact, respond_build, respond_idle_metric,
     respond_blockchain, respond_build_status
<1> QED BY <1>6, <1>7, <1>8, <1>9, <1>11, <1>16

LEMMA PlaceInvariant == Spec => []PlaceInv
<1>1. Init => LoopTypes /\ CallInv
  <2> SUFFICES ASSUME Init PROVE LoopTypes /\ CallInv
    OBVIOUS
  <2>1. LoopTypes
    <3>1. 0 \in 0 .. MaxKeys
      BY PeerLoopAssumption
    <3>2. swarm \in Swarm
      BY <3>1 DEF Init, Swarm
    <3>3. inbound \in [Inbound -> [kind : Protocols \cup Topics \cup {"none"},
                                   stage : InboundStage, open : BOOLEAN]]
      BY DEF Init, InboundStage
    <3>4. bootstrapped \in BOOLEAN
      BY Zenon DEF Init
    <3>5. events \in Seq(Inbound)
      BY DEF Init
    <3>6. panic \in {Alive} \cup Expectations
      BY DEF Init
    <3> QED BY <3>2, <3>3, <3>4, <3>5, <3>6 DEF LoopTypes
  <2>2. CallTypes
    BY DEF Init, CallTypes, CallStage
  <2>3. Len(commands) = 0 /\ DOMAIN pendingDial = {} /\ \A m \in Maps : pending[m] = {}
    BY DEF Init
  <2>4. QueuedCalls /\ KeptCalls /\ DialsWatched
    BY <2>3 DEF QueuedCalls, KeptCalls, DialsWatched
  <2> QED BY <2>1, <2>2, <2>4 DEF CallInv
<1>2. LoopInv /\ LoopTypes /\ CallInv /\ [Next]_vars => (LoopTypes /\ CallInv)'
  <2> SUFFICES ASSUME PlaceInv, [Next]_vars PROVE LoopTypes' /\ CallInv'
    BY DEF PlaceInv
  <2>1. CASE UNCHANGED vars
    BY <2>1, QuietPlaces DEF vars, PlaceInv, LoopTypes
  <2>2. ASSUME NEW c \in Calls, CallAny(c) \/ Bootstrap(c) \/ Cancel(c)
        PROVE  LoopTypes' /\ CallInv'
    <3>1. UNCHANGED <<panic, events, loopVars, swarm, inbound>>
      BY <2>2 DEF CallAny, add_probe_address, listen, dial, list_peers, status, provide,
         list_providers, request_build, verify_build, request_artifact, get_idle_peer,
         request_blockchain, broadcast_block, request_build_status, Call, Bootstrap, Cancel
    <3> QED BY <2>2, <3>1, ClientPlaces DEF PlaceInv, LoopTypes, loopVars
  <2> QED BY <2>1, <2>2, CommandPlaces, CommandTypes, EventPlaces, EventTypes DEF Next
<1> QED BY <1>1, <1>2, LoopInvariant, PTL DEF Spec, PlaceInv

\* Every variable of the loop, its client and libp2p keeps its type.
THEOREM LoopTypesHold == Spec => []TypeOK
<1>1. PlaceInv => TypeOK
  BY TypesSplit DEF PlaceInv, CallInv
<1> QED BY <1>1, PlaceInvariant, PTL

\* A sender in pending_dial is of a caller that asked for this very peer, and libp2p
\* has that peer on its list: nobody waits for a dial that no event can end.
THEOREM DialsAreWatched == Spec => []DialsWatched
<1>1. PlaceInv => DialsWatched
  BY DEF PlaceInv, CallInv
<1> QED BY <1>1, PlaceInvariant, PTL

=============================================================================
