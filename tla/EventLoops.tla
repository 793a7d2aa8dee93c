----------------------------- MODULE EventLoops -----------------------------
(***************************************************************************)
(* The four event loops of a node and the bounded channels between them:   *)
(* the loop of main.rs over p2p events, the blockchain event loop, the      *)
(* build event loop and the p2p event loop.                                 *)
(*                                                                         *)
(* A loop handles one event at a time and awaits what the handler awaits.  *)
(* A handler is reduced to its script: the events it puts in the channels  *)
(* of other loops, and whether it awaits the answer.  What the events do    *)
(* is the subject of the other modules.                                     *)
(***************************************************************************)
EXTENDS Naturals, Sequences

CONSTANTS
  Slots,        \* per loop the capacity of its channel (32 in the code)
  Tasks,        \* tasks outside the loops: HTTP handlers, boot, build pollers
  TaskKind,     \* per task what it does, see TaskScript
  PeerEvents,   \* the kinds of messages that come from other peers
  MaxMessages   \* bound: how many such messages arrive

Loops == {"main", "blockchain", "build", "p2p"}

\* A step of a script: put an event in the channel of a loop, and then await
\* the answer (Await) or go on (Post).
Await(loop, event) == [loop |-> loop, event |-> event, reply |-> TRUE]
Post(loop, event) == [loop |-> loop, event |-> event, reply |-> FALSE]

\* The handlers of main.  Every answer to a peer is a command to the p2p loop.
MainScript ==
  [RequestArtifact    |-> <<Post("p2p", "Respond")>>,
   RequestBuild       |-> <<Await("build", "Start"), Post("p2p", "Respond")>>,
   VerifyBuild        |-> <<Await("build", "StartVerification")>>,
   IdleMetricRequest  |-> <<Post("p2p", "Respond")>>,
   BlockchainRequest  |-> <<Await("blockchain", "Handle"), Post("p2p", "Respond")>>,
   BlockBroadcast     |-> <<Await("blockchain", "Handle")>>,
   RequestBuildStatus |-> <<Await("build", "Status"), Post("p2p", "Respond")>>]

\* handle_blockchain_event.  Handle stands for the four events that only read or
\* change the chain and the database.
BlockchainScript ==
  [AddBlock           |-> <<Await("p2p", "BroadcastBlock")>>,
   PullBlocksFromPeer |-> <<Await("p2p", "Request"), Await("p2p", "Request")>>,
   Handle             |-> <<>>]

\* Mutant: the result of a build starts its verification, in the same loop.
BuildScriptVerifying ==
  [Start             |-> <<Await("p2p", "VerifyBuild")>>,
   StartVerification |-> <<>>,
   Status            |-> <<>>,
   Failed            |-> <<>>,
   Succeeded         |-> <<Post("build", "Result")>>,
   Result            |-> <<Await("build", "StartVerification")>>]

\* handle_build_event.  A successful build is put in the loop's own channel.
BuildScript ==
  [Start             |-> <<Await("p2p", "VerifyBuild")>>,
   StartVerification |-> <<>>,
   Status            |-> <<>>,
   Failed            |-> <<>>,
   Succeeded         |-> <<Post("build", "Result")>>,
   Result            |-> <<Await("p2p", "Provide"), Await("blockchain", "AddBlock")>>]

\* handle_command, and the events of other peers, which go to main.
PeerScript ==
  [e \in {"BroadcastBlock", "VerifyBuild", "Respond", "Request", "Provide"} |-> <<>>]

\* The commands whose answer comes with a later event of the swarm.
Deferred == {"Request", "Provide"}

\* Tasks outside the loops: what they send, in whose channel.
TaskScript ==
  [request_build       |-> Await("build", "Start"),
   add_authorized_node |-> Await("blockchain", "AddBlock"),
   boot                |-> Await("blockchain", "PullBlocksFromPeer"),
   list_providers      |-> Await("p2p", "Request"),
   poll_succeeded      |-> Post("build", "Succeeded"),
   poll_failed         |-> Post("build", "Failed")]

ASSUME EventLoopsAssumption ==
  /\ Slots \in [Loops -> Nat \ {0}]
  /\ TaskKind \in [Tasks -> DOMAIN TaskScript]
  /\ PeerEvents \subseteq DOMAIN MainScript
  /\ MaxMessages \in Nat
  /\ Tasks \cap Loops = {}

VARIABLES
  channel,   \* per loop the events in its channel, with who awaits the answer
  job,       \* per loop the event being handled and the rest of its script
  deferred,  \* who awaits an answer of the network
  task,      \* how far the tasks are
  arrived    \* messages of peers so far

vars == <<channel, job, deferred, task, arrived>>

Nobody == "nobody"
Idle == [event |-> "none", from |-> Nobody, script |-> <<>>, waiting |-> FALSE]

Init ==
  /\ channel = [l \in Loops |-> <<>>]
  /\ job = [l \in Loops |-> Idle]
  /\ deferred = {}
  /\ task = [t \in Tasks |-> "new"]
  /\ arrived = 0

Script(l, event) ==
  CASE l = "main"       -> MainScript[event]
    [] l = "blockchain" -> BlockchainScript[event]
    [] l = "build"      -> BuildScript[event]
    [] l = "p2p"        -> PeerScript[event]

-----------------------------------------------------------------------------
\* mpsc::Sender::send waits for a free slot.
HasSlot(l) == Len(channel[l]) < Slots[l]

SendTo(l, event, from) ==
  channel' = [channel EXCEPT ![l] = Append(@, [event |-> event, from |-> from])]

\* The answer reaches who awaits it: a handler goes on, a task is done.
Reply(to, jobs) ==
  /\ job' = IF to \in Loops THEN [jobs EXCEPT ![to].waiting = FALSE] ELSE jobs
  /\ task' = IF to \in Tasks THEN [task EXCEPT ![to] = "done"] ELSE task

\* recv: the loop takes the next event when the handler of the last one is done.
Take(l) ==
  /\ job[l] = Idle
  /\ channel[l] # <<>>
  /\ LET e == Head(channel[l])
     IN  job' = [job EXCEPT ![l] = [event |-> e.event, from |-> e.from,
                                    script |-> Script(l, e.event), waiting |-> FALSE]]
  /\ channel' = [channel EXCEPT ![l] = Tail(@)]
  /\ UNCHANGED <<deferred, task, arrived>>

\* The handler puts its next event in a channel.
Step(l) ==
  /\ ~job[l].waiting
  /\ job[l].script # <<>>
  /\ LET s == Head(job[l].script)
     IN  /\ HasSlot(s.loop)
         /\ SendTo(s.loop, s.event, IF s.reply THEN l ELSE Nobody)
         /\ job' = [job EXCEPT ![l].script = Tail(@), ![l].waiting = s.reply]
  /\ UNCHANGED <<deferred, task, arrived>>

\* Mutant: the answer to a request is awaited by the p2p loop itself.
FinishAwaitingPeers(l) ==
  /\ job[l] # Idle
  /\ ~job[l].waiting
  /\ job[l].script = <<>>
  /\ IF job[l].event \in Deferred
     THEN /\ deferred' = deferred \cup {job[l].from}
          /\ job' = [job EXCEPT ![l].waiting = TRUE]
          /\ UNCHANGED task
     ELSE Reply(job[l].from, [job EXCEPT ![l] = Idle]) /\ UNCHANGED deferred
  /\ UNCHANGED <<channel, arrived>>

\* The handler is done.  The answer to a request or a query is due when the
\* swarm reports it.
Finish(l) ==
  /\ job[l] # Idle
  /\ ~job[l].waiting
  /\ job[l].script = <<>>
  /\ IF job[l].event \in Deferred
     THEN /\ deferred' = deferred \cup {job[l].from}
          /\ job' = [job EXCEPT ![l] = Idle]
          /\ UNCHANGED task
     ELSE Reply(job[l].from, [job EXCEPT ![l] = Idle]) /\ UNCHANGED deferred
  /\ UNCHANGED <<channel, arrived>>

\* Something the handler awaited failed: it returns its error at once.
Abort(l) ==
  /\ ~job[l].waiting
  /\ job[l].script # <<>>
  /\ job[l].event \in {"RequestBuild", "BlockchainRequest", "RequestBuildStatus",
                       "PullBlocksFromPeer", "Result"}
  /\ Len(job[l].script) < Len(Script(l, job[l].event))
  /\ Reply(job[l].from, [job EXCEPT ![l] = Idle])
  /\ UNCHANGED <<channel, deferred, arrived>>

\* The network answers a request or a query, or libp2p gives up on it; the p2p
\* loop passes that on when it comes to its next event.
NetworkAnswer ==
  /\ job["p2p"] = Idle
  /\ \E x \in deferred :
       /\ deferred' = deferred \ {x}
       /\ Reply(x, job)
  /\ UNCHANGED <<channel, arrived>>

\* A message of a peer: the p2p loop puts an event in the channel of main and
\* does nothing else until there is a slot.
MessageArrives(event) ==
  /\ event \in PeerEvents
  /\ arrived < MaxMessages
  /\ job["p2p"] = Idle
  /\ arrived' = arrived + 1
  /\ job' = [job EXCEPT !["p2p"] = [event |-> "Respond", from |-> Nobody,
                                    script |-> <<Post("main", event)>>, waiting |-> FALSE]]
  /\ UNCHANGED <<channel, deferred, task>>

TaskSends(t) ==
  LET s == TaskScript[TaskKind[t]]
  IN  /\ task[t] = "new"
      /\ HasSlot(s.loop)
      /\ SendTo(s.loop, s.event, IF s.reply THEN t ELSE Nobody)
      /\ task' = [task EXCEPT ![t] = IF s.reply THEN "waiting" ELSE "done"]
      /\ UNCHANGED <<job, deferred, arrived>>

LoopStep(l) == Take(l) \/ Step(l) \/ Finish(l) \/ Abort(l)

Next ==
  \/ \E l \in Loops : LoopStep(l)
  \/ NetworkAnswer
  \/ \E e \in DOMAIN MainScript : MessageArrives(e)
  \/ \E t \in Tasks : TaskSends(t)

Spec == Init /\ [][Next]_vars

\* tokio runs every task that can go on, the network answers or times out, and
\* the select! of the p2p loop picks at random, so it starves neither side.
Fairness ==
  /\ \A l \in Loops : WF_vars(LoopStep(l))
  /\ SF_vars(Take("p2p"))
  /\ SF_vars(NetworkAnswer)
  /\ \A t \in Tasks : SF_vars(TaskSends(t))

FairSpec == Spec /\ Fairness

-----------------------------------------------------------------------------
(* Properties                                                              *)

\* Loop l cannot go on before loop m does: l awaits an answer that m, and not
\* the network, has to give, or a slot in the channel of m.
WaitsFor(l, m) ==
  \/ /\ job[l].waiting
     /\ l \notin deferred
     /\ \/ job[m].from = l /\ job[m] # Idle
        \/ \E k \in 1 .. Len(channel[m]) : channel[m][k].from = l
  \/ /\ ~job[l].waiting
     /\ job[l].script # <<>>
     /\ Head(job[l].script).loop = m
     /\ ~HasSlot(m)

TypeOK ==
  /\ \A l \in Loops :
       /\ Len(channel[l]) <= Slots[l]
       /\ \A k \in 1 .. Len(channel[l]) :
            /\ channel[l][k].event \in DOMAIN
                 (CASE l = "main" -> MainScript [] l = "blockchain" -> BlockchainScript
                    [] l = "build" -> BuildScript [] l = "p2p" -> PeerScript)
            /\ channel[l][k].from \in Loops \cup Tasks \cup {Nobody}
       /\ job[l].from \in Loops \cup Tasks \cup {Nobody}
  /\ deferred \subseteq Loops \cup Tasks \cup {Nobody}
  /\ task \in [Tasks -> {"new", "waiting", "done"}]
  /\ arrived \in 0 .. MaxMessages

\* No set of loops waits for each other, as long as no channel overflows: main
\* may wait for the build loop, that for the blockchain loop, and all for the p2p
\* loop, which waits for nobody.
NoWaitCycle ==
  \A S \in (SUBSET Loops) \ {{}} : \E l \in S : \A m \in S : ~WaitsFor(l, m)

\* "The Client receiver receives the incoming response and can now safely return
\* to the application": a task that waits gets its answer.
TasksReturn == \A t \in Tasks : task[t] = "waiting" ~> task[t] = "done"

\* Every message of a peer that was taken is dealt with.
MainReturns == job["main"] # Idle ~> job["main"] = Idle
=============================================================================
