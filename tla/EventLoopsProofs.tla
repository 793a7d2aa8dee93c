--------------------------- MODULE EventLoopsProofs ---------------------------
(***************************************************************************)
(* Proofs about EventLoops: for any tasks, messages and channel sizes, no   *)
(* set of loops waits for each other while main and the build loop have a   *)
(* free slot; with room for every message and every task they always have   *)
(* one when it is needed.                                                   *)
(***************************************************************************)
EXTENDS EventLoops, FiniteSetTheorems, TLAPS

\* A leaf without a pragma is tried with Z3, then with Zenon.
USE SMTT(30), ZenonT(30)

\* The events of each loop, and the steps its handlers may take.
EventsOf ==
  [main |-> DOMAIN MainScript, blockchain |-> DOMAIN BlockchainScript,
   build |-> DOMAIN BuildScript, p2p |-> DOMAIN PeerScript]

StepsOf ==
  [main       |-> {Await("build", "Start"), Await("build", "StartVerification"),
                   Await("build", "Status"), Await("blockchain", "Handle"),
                   Post("p2p", "Respond")},
   blockchain |-> {Await("p2p", "BroadcastBlock"), Await("p2p", "Request")},
   build      |-> {Await("p2p", "VerifyBuild"), Await("p2p", "Provide"),
                   Await("blockchain", "AddBlock"), Post("build", "Result")},
   p2p        |-> {Post("main", e) : e \in DOMAIN MainScript}]

AllEvents == UNION {EventsOf[l] : l \in Loops}
AllSteps == UNION {StepsOf[l] : l \in Loops}

\* main may ask all the others, the p2p loop nobody.
Rank == [main |-> 4, build |-> 3, blockchain |-> 2, p2p |-> 1]

\* Whom an answer may go to.
Askers == Loops \cup Tasks \cup {Nobody}

Messages == [event : AllEvents, from : Askers]
Jobs == [event : {"none"} \cup AllEvents, from : Askers, script : Seq(AllSteps), waiting : BOOLEAN]

\* A loop handles its own events with its own steps.
LoopsOK ==
  /\ channel \in [Loops -> Seq(Messages)]
  /\ \A l \in Loops : \A k \in 1 .. Len(channel[l]) : channel[l][k].event \in EventsOf[l]
  /\ job \in [Loops -> Jobs]
  /\ \A l \in Loops : \A k \in 1 .. Len(job[l].script) : job[l].script[k] \in StepsOf[l]
  /\ deferred \subseteq Askers


-----------------------------------------------------------------------------
(* The scripts                                                             *)

\* What is known of a step of loop l.
LEMMA StepFacts ==
  ASSUME NEW l \in Loops, NEW s \in StepsOf[l]
  PROVE  /\ s \in AllSteps
         /\ s.loop \in Loops /\ s.event \in EventsOf[s.loop] /\ s.event \in AllEvents
         /\ s.reply = TRUE \/ s.reply = FALSE
         /\ s.reply => Rank[s.loop] < Rank[l]
         /\ \/ Rank[s.loop] < Rank[l]
            \/ l = "p2p" /\ s.loop = "main"
            \/ l = "build" /\ s.loop = "build"
         /\ s.loop = "main" => l = "p2p"
         /\ l = "p2p" => s.loop = "main"
<1>1. s \in AllSteps
  BY DEF AllSteps
<1>2. CASE l = "main"
  <2>1. s \in {Await("build", "Start"), Await("build", "StartVerification"),
               Await("build", "Status"), Await("blockchain", "Handle"), Post("p2p", "Respond")}
    BY <1>2 DEF StepsOf
  <2>2. /\ s.loop \in {"build", "blockchain", "p2p"} /\ (s.reply = TRUE \/ s.reply = FALSE)
        /\ s.loop = "build" => s.event \in {"Start", "StartVerification", "Status"}
        /\ s.loop = "blockchain" => s.event = "Handle"
        /\ s.loop = "p2p" => s.event = "Respond"
    BY <2>1 DEF Await, Post
  <2>3. s.loop \in Loops /\ s.event \in EventsOf[s.loop]
    BY <2>2 DEF EventsOf, BuildScript, BlockchainScript, PeerScript, Loops
  <2> QED BY <1>1, <1>2, <2>2, <2>3 DEF Rank, AllEvents
<1>3. CASE l = "blockchain"
  <2>1. s \in {Await("p2p", "BroadcastBlock"), Await("p2p", "Request")}
    BY <1>3 DEF StepsOf
  <2>2. s.loop = "p2p" /\ (s.reply = TRUE \/ s.reply = FALSE) /\ s.event \in {"BroadcastBlock", "Request"}
    BY <2>1 DEF Await
  <2>3. s.loop \in Loops /\ s.event \in EventsOf[s.loop]
    BY <2>2 DEF EventsOf, PeerScript, Loops
  <2> QED BY <1>1, <1>3, <2>2, <2>3 DEF Rank, AllEvents
<1>4. CASE l = "build"
  <2>1. s \in {Await("p2p", "VerifyBuild"), Await("p2p", "Provide"),
               Await("blockchain", "AddBlock"), Post("build", "Result")}
    BY <1>4 DEF StepsOf
  <2>2. /\ s.loop \in {"build", "blockchain", "p2p"} /\ (s.reply = TRUE \/ s.reply = FALSE)
        /\ s.loop = "build" => s.event = "Result" /\ ~s.reply
        /\ s.loop = "blockchain" => s.event = "AddBlock"
        /\ s.loop = "p2p" => s.event \in {"VerifyBuild", "Provide"}
    BY <2>1 DEF Await, Post
  <2>3. s.loop \in Loops /\ s.event \in EventsOf[s.loop]
    BY <2>2 DEF EventsOf, BuildScript, BlockchainScript, PeerScript, Loops
  <2> QED BY <1>1, <1>4, <2>2, <2>3 DEF Rank, AllEvents
<1>5. CASE l = "p2p"
  <2>1. PICK e \in DOMAIN MainScript : s = Post("main", e)
    BY <1>5 DEF StepsOf
  <2>2. s.loop = "main" /\ s.reply = FALSE /\ s.event \in DOMAIN MainScript
    BY <2>1 DEF Post
  <2>3. s.loop \in Loops /\ s.event \in EventsOf[s.loop]
    BY <2>2 DEF EventsOf, Loops
  <2> QED BY <1>1, <1>5, <2>2, <2>3 DEF Rank, AllEvents
<1> QED BY <1>2, <1>3, <1>4, <1>5, Zenon DEF Loops

\* The script of an event of loop l: its own steps, of which only the first may be for
\* main or the build loop.
LEMMA ScriptFacts ==
  ASSUME NEW l \in Loops, NEW e \in EventsOf[l]
  PROVE  /\ Script(l, e) \in Seq(AllSteps)
         /\ \A k \in 1 .. Len(Script(l, e)) : Script(l, e)[k] \in StepsOf[l]
         /\ \A k \in 2 .. Len(Script(l, e)) : Script(l, e)[k].loop \notin {"main", "build"}
         /\ l = "p2p" => Script(l, e) = <<>>
<1>0. ASSUME NEW s,
             \/ s = <<>>
             \/ \E a \in StepsOf[l] : s = <<a>>
             \/ \E a, b \in StepsOf[l] : s = <<a, b>> /\ b.loop \notin {"main", "build"}
      PROVE  /\ s \in Seq(AllSteps)
             /\ \A k \in 1 .. Len(s) : s[k] \in StepsOf[l]
             /\ \A k \in 2 .. Len(s) : s[k].loop \notin {"main", "build"}
  <2>1. StepsOf[l] \subseteq AllSteps
    BY DEF AllSteps
  <2>2. CASE s = <<>>
    BY <2>2
  <2>3. CASE \E a \in StepsOf[l] : s = <<a>>
    BY <2>1, <2>3
  <2>4. CASE \E a, b \in StepsOf[l] : s = <<a, b>> /\ b.loop \notin {"main", "build"}
    <3>1. PICK a \in StepsOf[l], b \in StepsOf[l] : s = <<a, b>> /\ b.loop \notin {"main", "build"}
      BY <2>4
    <3>2. s \in Seq(AllSteps) /\ Len(s) = 2 /\ s[1] = a /\ s[2] = b
      BY <2>1, <3>1
    <3> QED BY <3>1, <3>2
  <2> QED BY <1>0, <2>2, <2>3, <2>4
<1>1. CASE l = "main"
  <2>1. StepsOf[l] = {Await("build", "Start"), Await("build", "StartVerification"),
                      Await("build", "Status"), Await("blockchain", "Handle"),
                      Post("p2p", "Respond")}
    BY <1>1 DEF StepsOf
  <2>2. Post("p2p", "Respond").loop = "p2p"
    BY DEF Post
  <2>3. Script(l, e) = MainScript[e] /\ e \in DOMAIN MainScript
    BY <1>1 DEF Script, EventsOf
  <2>4. \/ Script(l, e) = <<Post("p2p", "Respond")>>
        \/ Script(l, e) = <<Await("build", "Start"), Post("p2p", "Respond")>>
        \/ Script(l, e) = <<Await("build", "StartVerification")>>
        \/ Script(l, e) = <<Await("blockchain", "Handle"), Post("p2p", "Respond")>>
        \/ Script(l, e) = <<Await("blockchain", "Handle")>>
        \/ Script(l, e) = <<Await("build", "Status"), Post("p2p", "Respond")>>
    BY <2>3 DEF MainScript
  <2>5. \/ \E a \in StepsOf[l] : Script(l, e) = <<a>>
        \/ \E a, b \in StepsOf[l] : Script(l, e) = <<a, b>> /\ b.loop \notin {"main", "build"}
    BY <2>1, <2>2, <2>4
  <2> QED BY <1>0, <1>1, <2>5
<1>2. CASE l = "blockchain"
  <2>1. StepsOf[l] = {Await("p2p", "BroadcastBlock"), Await("p2p", "Request")}
    BY <1>2 DEF StepsOf
  <2>2. Await("p2p", "Request").loop = "p2p"
    BY DEF Await
  <2>3. Script(l, e) = BlockchainScript[e] /\ e \in DOMAIN BlockchainScript
    BY <1>2 DEF Script, EventsOf
  <2>4. \/ Script(l, e) = <<>>
        \/ Script(l, e) = <<Await("p2p", "BroadcastBlock")>>
        \/ Script(l, e) = <<Await("p2p", "Request"), Await("p2p", "Request")>>
    BY <2>3 DEF BlockchainScript
  <2>5. \/ Script(l, e) = <<>>
        \/ \E a \in StepsOf[l] : Script(l, e) = <<a>>
        \/ \E a, b \in StepsOf[l] : Script(l, e) = <<a, b>> /\ b.loop \notin {"main", "build"}
    BY <2>1, <2>2, <2>4
  <2> QED BY <1>0, <1>2, <2>5
<1>3. CASE l = "build"
  <2>1. StepsOf[l] = {Await("p2p", "VerifyBuild"), Await("p2p", "Provide"),
                      Await("blockchain", "AddBlock"), Post("build", "Result")}
    BY <1>3 DEF StepsOf
  <2>2. Await("blockchain", "AddBlock").loop = "blockchain"
    BY DEF Await
  <2>3. Script(l, e) = BuildScript[e] /\ e \in DOMAIN BuildScript
    BY <1>3 DEF Script, EventsOf
  <2>4. \/ Script(l, e) = <<>>
        \/ Script(l, e) = <<Await("p2p", "VerifyBuild")>>
        \/ Script(l, e) = <<Post("build", "Result")>>
        \/ Script(l, e) = <<Await("p2p", "Provide"), Await("blockchain", "AddBlock")>>
    BY <2>3 DEF BuildScript
  <2>5. \/ Script(l, e) = <<>>
        \/ \E a \in StepsOf[l] : Script(l, e) = <<a>>
        \/ \E a, b \in StepsOf[l] : Script(l, e) = <<a, b>> /\ b.loop \notin {"main", "build"}
    BY <2>1, <2>2, <2>4
  <2> QED BY <1>0, <1>3, <2>5
<1>4. CASE l = "p2p"
  <2>1. Script(l, e) = <<>>
    BY <1>4 DEF Script, EventsOf, PeerScript
  <2> QED BY <1>0, <2>1
<1> QED BY <1>1, <1>2, <1>3, <1>4 DEF Loops

-----------------------------------------------------------------------------
(* Queues and answers                                                      *)

LEMMA AppendFacts ==
  ASSUME NEW T, NEW q \in Seq(T), NEW e \in T
  PROVE  /\ Append(q, e) \in Seq(T)
         /\ Len(Append(q, e)) = Len(q) + 1
         /\ \A k \in 1 .. Len(q) : Append(q, e)[k] = q[k]
         /\ Append(q, e)[Len(q) + 1] = e
BY Z3

LEMMA TailFacts ==
  ASSUME NEW T, NEW q \in Seq(T), q # <<>>
  PROVE  /\ Tail(q) \in Seq(T) /\ Len(Tail(q)) = Len(q) - 1
         /\ Head(q) = q[1] /\ Head(q) \in T /\ Len(q) \in Nat \ {0}
         /\ \A k \in 1 .. Len(Tail(q)) : Tail(q)[k] = q[k + 1]
BY Z3

LEMMA IdleIsJob == Idle \in Jobs /\ Idle.from \notin Loops /\ Idle.script = <<>> /\ ~Idle.waiting
<1>1. Idle.script \in Seq(AllSteps) /\ Idle.from \in Askers
  BY DEF Idle, Askers, Nobody
<1> QED BY <1>1 DEF Idle, Jobs, Nobody, Loops

\* An answer only ends a wait.
LEMMA ReplyFacts ==
  ASSUME NEW jobs \in [Loops -> Jobs], NEW to, Reply(to, jobs)
  PROVE  /\ job' \in [Loops -> Jobs]
         /\ \A m \in Loops : /\ job'[m].event = jobs[m].event
                             /\ job'[m].from = jobs[m].from
                             /\ job'[m].script = jobs[m].script
                             /\ job'[m].waiting <=> m # to /\ jobs[m].waiting
<1>1. CASE to \notin Loops
  <2>1. job' = jobs
    BY <1>1 DEF Reply
  <2> QED BY <1>1, <2>1
<1>2. CASE to \in Loops
  <2>1. job' = [jobs EXCEPT ![to] = [jobs[to] EXCEPT !.waiting = FALSE]]
    BY <1>2 DEF Reply
  <2>2. [jobs[to] EXCEPT !.waiting = FALSE] \in Jobs
    BY <1>2, Zenon DEF Jobs
  <2>3. job' \in [Loops -> Jobs]
    BY <2>1, <2>2, Zenon
  <2>4. ASSUME NEW m \in Loops, m # to
        PROVE  job'[m] = jobs[m]
    BY <2>1, <2>4
  <2>5. job'[to] = [jobs[to] EXCEPT !.waiting = FALSE]
    BY <1>2, <2>1
  <2>6. /\ job'[to].event = jobs[to].event /\ job'[to].from = jobs[to].from
        /\ job'[to].script = jobs[to].script /\ ~job'[to].waiting
    BY <1>2, <2>5 DEF Jobs
  <2> QED BY <2>3, <2>4, <2>6
<1> QED BY <1>1, <1>2

-----------------------------------------------------------------------------
(* A loop handles its own events with its own steps                        *)

LEMMA LoopsTake ==
  ASSUME LoopsOK, NEW l \in Loops, Take(l)
  PROVE  /\ LoopsOK'
         /\ channel[l] # <<>>
         /\ \A m \in Loops : m # l => job'[m] = job[m] /\ channel'[m] = channel[m]
         /\ job'[l].from = channel[l][1].from /\ ~job'[l].waiting
         /\ channel[l][1].event \in EventsOf[l]
         /\ job'[l].script = Script(l, channel[l][1].event)
         /\ channel'[l] = Tail(channel[l])
<1> DEFINE q == channel[l]
           e == q[1]
           j == [event |-> e.event, from |-> e.from, script |-> Script(l, e.event), waiting |-> FALSE]
<1>1. q \in Seq(Messages) /\ q # <<>>
  BY DEF LoopsOK, Take
<1>2. /\ Tail(q) \in Seq(Messages) /\ Len(Tail(q)) = Len(q) - 1
      /\ Head(q) = e /\ e \in Messages /\ Len(q) \in Nat \ {0}
      /\ \A k \in 1 .. Len(Tail(q)) : Tail(q)[k] = q[k + 1]
  BY <1>1, TailFacts
<1>3. e.event \in EventsOf[l] /\ e.event \in AllEvents /\ e.from \in Askers
  BY <1>2 DEF LoopsOK, Messages
<1>4. /\ Script(l, e.event) \in Seq(AllSteps)
      /\ \A k \in 1 .. Len(Script(l, e.event)) : Script(l, e.event)[k] \in StepsOf[l]
  BY <1>3, ScriptFacts
<1> HIDE DEF e
<1>5. j \in Jobs /\ j.from = e.from /\ ~j.waiting /\ j.script = Script(l, e.event)
  BY <1>3, <1>4 DEF Jobs
<1>6. job' = [job EXCEPT ![l] = j] /\ channel' = [channel EXCEPT ![l] = Tail(q)]
  BY <1>2, Zenon DEF Take
<1> HIDE DEF j
<1>7. /\ job' \in [Loops -> Jobs] /\ channel' \in [Loops -> Seq(Messages)]
      /\ job'[l] = j /\ channel'[l] = Tail(q)
      /\ \A m \in Loops : m # l => job'[m] = job[m] /\ channel'[m] = channel[m]
  BY <1>2, <1>5, <1>6 DEF LoopsOK
<1>8. \A m \in Loops : \A k \in 1 .. Len(channel'[m]) : channel'[m][k].event \in EventsOf[m]
  <2> SUFFICES ASSUME NEW m \in Loops, NEW k \in 1 .. Len(channel'[m])
               PROVE  channel'[m][k].event \in EventsOf[m]
    OBVIOUS
  <2>1. CASE m # l
    BY <1>7, <2>1 DEF LoopsOK
  <2>2. CASE m = l
    <3>0. channel'[m] = Tail(q) /\ k \in 1 .. Len(Tail(q))
      BY <1>7, <2>2, Zenon
    <3>1. channel'[m][k] = q[k + 1] /\ k + 1 \in 1 .. Len(q)
      BY <1>2, <3>0
    <3> QED BY <2>2, <3>1 DEF LoopsOK
  <2> QED BY <2>1, <2>2
<1>9. \A m \in Loops : \A k \in 1 .. Len(job'[m].script) : job'[m].script[k] \in StepsOf[m]
  BY <1>4, <1>5, <1>7, Zenon DEF LoopsOK
<1>10. deferred' \subseteq Askers
  BY DEF LoopsOK, Take
<1>11. LoopsOK'
  BY <1>7, <1>8, <1>9, <1>10 DEF LoopsOK
<1> QED BY <1>1, <1>3, <1>5, <1>7, <1>11 DEF e

\* What SendTo does to the channels.
LEMMA SendFacts ==
  ASSUME LoopsOK, NEW d \in Loops, NEW event \in EventsOf[d], NEW from \in Askers,
         SendTo(d, event, from)
  PROVE  /\ channel' \in [Loops -> Seq(Messages)]
         /\ \A m \in Loops : \A k \in 1 .. Len(channel'[m]) : channel'[m][k].event \in EventsOf[m]
         /\ \A m \in Loops : m # d => channel'[m] = channel[m]
         /\ Len(channel[d]) \in Nat /\ Len(channel'[d]) = Len(channel[d]) + 1
         /\ \A k \in 1 .. Len(channel[d]) : channel'[d][k] = channel[d][k]
         /\ channel'[d][Len(channel[d]) + 1].from = from
<1> DEFINE q == channel[d]
           e == [event |-> event, from |-> from]
<1>1. e \in Messages /\ e.event = event /\ e.from = from
  BY DEF Messages, AllEvents
<1>2. channel' = [channel EXCEPT ![d] = Append(q, e)]
  BY DEF SendTo
<1> HIDE DEF e
<1>3. q \in Seq(Messages)
  BY DEF LoopsOK
<1>4. /\ Append(q, e) \in Seq(Messages) /\ Len(Append(q, e)) = Len(q) + 1
      /\ \A k \in 1 .. Len(q) : Append(q, e)[k] = q[k]
      /\ Append(q, e)[Len(q) + 1] = e
  BY <1>1, <1>3, AppendFacts
<1>5. /\ channel' \in [Loops -> Seq(Messages)] /\ channel'[d] = Append(q, e)
      /\ \A m \in Loops : m # d => channel'[m] = channel[m]
  BY <1>2, <1>4 DEF LoopsOK
<1>6. Len(q) \in Nat
  BY <1>3
<1>7. \A m \in Loops : \A k \in 1 .. Len(channel'[m]) : channel'[m][k].event \in EventsOf[m]
  <2> SUFFICES ASSUME NEW m \in Loops, NEW k \in 1 .. Len(channel'[m])
               PROVE  channel'[m][k].event \in EventsOf[m]
    OBVIOUS
  <2>1. CASE m # d
    BY <1>5, <2>1 DEF LoopsOK
  <2>2. CASE m = d
    <3>1. CASE k \in 1 .. Len(q)
      BY <1>4, <1>5, <2>2, <3>1, ZenonT(30) DEF LoopsOK
    <3>2. CASE k = Len(q) + 1
      BY <1>1, <1>4, <1>5, <2>2, <3>2
    <3> QED BY <1>4, <1>5, <1>6, <2>2, <3>1, <3>2
  <2> QED BY <2>1, <2>2
<1> QED BY <1>1, <1>4, <1>5, <1>6, <1>7

LEMMA LoopsStep ==
  ASSUME LoopsOK, NEW l \in Loops, Step(l)
  PROVE  LET s == Head(job[l].script)
         IN  /\ LoopsOK'
             /\ s \in StepsOf[l] /\ s.loop \in Loops /\ ~job[l].waiting
             /\ (IF s.reply THEN l ELSE Nobody) \in Askers
             /\ SendTo(s.loop, s.event, IF s.reply THEN l ELSE Nobody)
             /\ s.event \in EventsOf[s.loop]
             /\ \A m \in Loops : m # l => job'[m] = job[m]
             /\ job'[l].from = job[l].from /\ (job'[l].waiting <=> s.reply)
             /\ job[l].script # <<>> /\ job'[l].script = Tail(job[l].script)
<1> DEFINE w == job[l].script
           s == Head(w)
           j == [job[l] EXCEPT !.script = Tail(w), !.waiting = s.reply]
<1>1. w \in Seq(AllSteps) /\ w # <<>> /\ ~job[l].waiting /\ job[l] \in Jobs
  BY DEF LoopsOK, Step, Jobs
<1>2. /\ Tail(w) \in Seq(AllSteps) /\ Len(Tail(w)) = Len(w) - 1
      /\ s = w[1] /\ Len(w) \in Nat \ {0}
      /\ \A k \in 1 .. Len(Tail(w)) : Tail(w)[k] = w[k + 1]
  BY <1>1, TailFacts
<1>3. s \in StepsOf[l]
  BY <1>2 DEF LoopsOK
<1>4. s.loop \in Loops /\ s.event \in EventsOf[s.loop] /\ (s.reply = TRUE \/ s.reply = FALSE)
  BY <1>3, StepFacts, Zenon
<1>5. SendTo(s.loop, s.event, IF s.reply THEN l ELSE Nobody) /\ job' = [job EXCEPT ![l] = j]
  BY Zenon DEF Step
<1>6. (IF s.reply THEN l ELSE Nobody) \in Askers
  BY <1>4 DEF Askers
<1>7. channel' \in [Loops -> Seq(Messages)]
      /\ \A m \in Loops : \A k \in 1 .. Len(channel'[m]) : channel'[m][k].event \in EventsOf[m]
  BY <1>4, <1>5, <1>6, SendFacts
<1> HIDE DEF s
<1>8. /\ j \in Jobs /\ j.from = job[l].from /\ (j.waiting <=> s.reply) /\ j.script = Tail(w)
  BY <1>1, <1>2, <1>4, Zenon DEF Jobs
<1> HIDE DEF j
<1>9. /\ job' \in [Loops -> Jobs] /\ job'[l] = j
      /\ \A m \in Loops : m # l => job'[m] = job[m]
  BY <1>5, <1>8 DEF LoopsOK
<1>10. \A k \in 1 .. Len(Tail(w)) : Tail(w)[k] \in StepsOf[l]
  <2> SUFFICES ASSUME NEW k \in 1 .. Len(Tail(w)) PROVE Tail(w)[k] \in StepsOf[l]
    OBVIOUS
  <2>1. Tail(w)[k] = w[k + 1] /\ k + 1 \in 1 .. Len(w)
    BY <1>2
  <2> QED BY <2>1 DEF LoopsOK
<1>11. \A m \in Loops : \A k \in 1 .. Len(job'[m].script) : job'[m].script[k] \in StepsOf[m]
  BY <1>8, <1>9, <1>10, Zenon DEF LoopsOK
<1>12. deferred' \subseteq Askers
  BY DEF LoopsOK, Step
<1>13. LoopsOK'
  BY <1>7, <1>9, <1>11, <1>12 DEF LoopsOK
<1> QED BY <1>1, <1>3, <1>4, <1>5, <1>6, <1>8, <1>9, <1>13 DEF s

\* An answered handler: the job of l ends and its asker, if any, goes on.
Answers(l) ==
  /\ ~job[l].waiting
  /\ Reply(job[l].from, [job EXCEPT ![l] = Idle])
  /\ UNCHANGED <<channel, deferred>>

LEMMA LoopsAnswers ==
  ASSUME LoopsOK, NEW l \in Loops, Answers(l)
  PROVE  /\ LoopsOK'
         /\ \A m \in Loops :
              /\ job'[m].from = (IF m = l THEN Idle.from ELSE job[m].from)
              /\ job'[m].script = (IF m = l THEN <<>> ELSE job[m].script)
              /\ job'[m].waiting <=> m # job[l].from /\ m # l /\ job[m].waiting
<1> DEFINE jobs == [job EXCEPT ![l] = Idle]
<1>1. /\ jobs \in [Loops -> Jobs] /\ jobs[l] = Idle
      /\ \A m \in Loops : m # l => jobs[m] = job[m]
  BY IdleIsJob DEF LoopsOK
<1>2. Reply(job[l].from, jobs)
  BY DEF Answers
<1> HIDE DEF jobs
<1>3. /\ job' \in [Loops -> Jobs]
      /\ \A m \in Loops : /\ job'[m].from = jobs[m].from
                          /\ job'[m].script = jobs[m].script
                          /\ job'[m].waiting <=> m # job[l].from /\ jobs[m].waiting
  BY <1>1, <1>2, ReplyFacts
<1>4. \A m \in Loops : /\ job'[m].from = (IF m = l THEN Idle.from ELSE job[m].from)
                       /\ job'[m].script = (IF m = l THEN <<>> ELSE job[m].script)
                       /\ job'[m].waiting <=> m # job[l].from /\ m # l /\ job[m].waiting
  BY <1>1, <1>3, IdleIsJob
<1>5. \A m \in Loops : \A k \in 1 .. Len(job'[m].script) : job'[m].script[k] \in StepsOf[m]
  BY <1>4 DEF LoopsOK
<1>6. LoopsOK'
  BY <1>3, <1>5 DEF LoopsOK, Answers
<1> QED BY <1>4, <1>6

-----------------------------------------------------------------------------
(* Every step keeps a loop to its own events and steps                      *)

LEMMA TaskFacts ==
  ASSUME NEW t \in Tasks, TaskSends(t)
  PROVE  LET s == TaskScript[TaskKind[t]]
             from == IF s.reply THEN t ELSE Nobody
         IN  /\ s.loop \in Loops /\ s.event \in EventsOf[s.loop] /\ s.loop # "main"
             /\ from \in Askers /\ from \notin Loops
             /\ SendTo(s.loop, s.event, from) /\ job' = job /\ deferred' = deferred
<1> DEFINE s == TaskScript[TaskKind[t]]
           from == IF s.reply THEN t ELSE Nobody
<1>1. SendTo(s.loop, s.event, from) /\ UNCHANGED <<job, deferred>>
  BY DEF TaskSends
<1>2. TaskKind[t] \in DOMAIN TaskScript
  BY EventLoopsAssumption
<1>3. s \in {Await("build", "Start"), Await("blockchain", "AddBlock"),
             Await("blockchain", "PullBlocksFromPeer"), Await("p2p", "Request"),
             Post("build", "Succeeded"), Post("build", "Failed")}
  BY <1>2 DEF TaskScript
<1>4. from \in Askers /\ from \notin Loops
  BY EventLoopsAssumption DEF Askers, Nobody, Loops
<1> HIDE DEF s, from
<1>5. /\ s.loop \in {"build", "blockchain", "p2p"}
      /\ s.loop = "build" => s.event \in {"Start", "Succeeded", "Failed"}
      /\ s.loop = "blockchain" => s.event \in {"AddBlock", "PullBlocksFromPeer"}
      /\ s.loop = "p2p" => s.event = "Request"
  BY <1>3 DEF Await, Post
<1>6. s.loop \in Loops /\ s.event \in EventsOf[s.loop] /\ s.loop # "main"
  BY <1>5 DEF EventsOf, BuildScript, BlockchainScript, PeerScript, Loops
<1> QED BY <1>1, <1>4, <1>6 DEF s, from

LEMMA LoopsTask ==
  ASSUME LoopsOK, NEW t \in Tasks, TaskSends(t)
  PROVE  LoopsOK'
<1> DEFINE s == TaskScript[TaskKind[t]]
           from == IF s.reply THEN t ELSE Nobody
<1>1. /\ s.loop \in Loops /\ s.event \in EventsOf[s.loop]
      /\ from \in Askers /\ from \notin Loops
      /\ SendTo(s.loop, s.event, from) /\ job' = job /\ deferred' = deferred
  BY TaskFacts
<1> HIDE DEF s, from
<1>2. /\ channel' \in [Loops -> Seq(Messages)]
      /\ \A m \in Loops : \A k \in 1 .. Len(channel'[m]) : channel'[m][k].event \in EventsOf[m]
  BY <1>1, SendFacts
<1>3. LoopsOK'
  BY <1>1, <1>2 DEF LoopsOK
<1> QED BY <1>3

\* The network is asked in place of the p2p loop.
LEMMA LoopsDefer ==
  ASSUME LoopsOK, NEW l \in Loops, ~job[l].waiting, job' = [job EXCEPT ![l] = Idle],
         deferred' = deferred \cup {job[l].from}, channel' = channel
  PROVE  LoopsOK' /\ \A m \in Loops : job'[m] = (IF m = l THEN Idle ELSE job[m])
<1>1. /\ job' \in [Loops -> Jobs] /\ job'[l] = Idle
      /\ \A m \in Loops : m # l => job'[m] = job[m]
  BY IdleIsJob DEF LoopsOK
<1>2. job[l].from \in Askers
  BY DEF LoopsOK, Jobs
<1>3. \A m \in Loops : \A k \in 1 .. Len(job'[m].script) : job'[m].script[k] \in StepsOf[m]
  BY <1>1, IdleIsJob DEF LoopsOK
<1>4. LoopsOK'
  BY <1>1, <1>2, <1>3 DEF LoopsOK
<1> QED BY <1>1, <1>4

LEMMA LoopsAnswered ==
  ASSUME LoopsOK, NEW x \in deferred, deferred' = deferred \ {x}, Reply(x, job), channel' = channel
  PROVE  LoopsOK' /\ \A m \in Loops : job'[m].from = job[m].from /\ job'[m].script = job[m].script
<1>1. job \in [Loops -> Jobs]
  BY DEF LoopsOK
<1>2. /\ job' \in [Loops -> Jobs]
      /\ \A m \in Loops : /\ job'[m].from = job[m].from
                          /\ job'[m].script = job[m].script
                          /\ job'[m].waiting <=> m # x /\ job[m].waiting
  BY <1>1, ReplyFacts
<1>3. LoopsOK'
  BY <1>2, Zenon DEF LoopsOK
<1> QED BY <1>2, <1>3

LEMMA LoopsArrive ==
  ASSUME LoopsOK, NEW e \in DOMAIN MainScript, MessageArrives(e)
  PROVE  /\ LoopsOK'
         /\ \A m \in Loops : m # "p2p" => job'[m] = job[m]
         /\ job'["p2p"].from = Nobody /\ job'["p2p"].script = <<Post("main", e)>>
         /\ job["p2p"].script = <<>>
<1> DEFINE s == Post("main", e)
           j == [event |-> "Respond", from |-> Nobody, script |-> <<s>>, waiting |-> FALSE]
<1>1. s \in StepsOf["p2p"]
  BY DEF StepsOf
<1>2. s \in AllSteps
  BY <1>1, StepFacts, Zenon DEF Loops
<1>3. "Respond" \in AllEvents
  BY DEF AllEvents, EventsOf, PeerScript, Loops
<1> HIDE DEF s
<1>4. <<s>> \in Seq(AllSteps) /\ Len(<<s>>) = 1 /\ <<s>>[1] = s
  BY <1>2
<1>5. j \in Jobs /\ j.from = Nobody /\ j.script = <<s>> /\ ~j.waiting
  BY <1>3, <1>4 DEF Jobs, Askers
<1>6. job' = [job EXCEPT !["p2p"] = j] /\ UNCHANGED <<channel, deferred>> /\ job["p2p"] = Idle
  BY DEF MessageArrives, s
<1> HIDE DEF j
<1>7. /\ job' \in [Loops -> Jobs] /\ job'["p2p"] = j
      /\ \A m \in Loops : m # "p2p" => job'[m] = job[m]
  BY <1>5, <1>6 DEF LoopsOK, Loops
<1>8. \A m \in Loops : \A k \in 1 .. Len(job'[m].script) : job'[m].script[k] \in StepsOf[m]
  <2>1. \A k \in 1 .. Len(j.script) : j.script[k] \in StepsOf["p2p"]
    BY <1>1, <1>4, <1>5
  <2> QED BY <1>7, <2>1 DEF LoopsOK
<1>9. LoopsOK'
  BY <1>6, <1>7, <1>8 DEF LoopsOK
<1> QED BY <1>5, <1>6, <1>7, <1>9, IdleIsJob DEF s

\* A handler's end: with an answer, or with a question to the network.
LEMMA EndFacts ==
  ASSUME NEW l \in Loops, Finish(l) \/ Abort(l)
  PROVE  \/ Answers(l)
         \/ /\ ~job[l].waiting /\ job' = [job EXCEPT ![l] = Idle]
            /\ deferred' = deferred \cup {job[l].from} /\ channel' = channel /\ task' = task
BY DEF Finish, Abort, Answers

LEMMA LoopsNext ==
  ASSUME LoopsOK, [Next]_vars
  PROVE  LoopsOK'
<1>1. ASSUME NEW l \in Loops, LoopStep(l)
      PROVE  LoopsOK'
  <2>1. CASE Take(l)
    BY <2>1, LoopsTake
  <2>2. CASE Step(l)
    BY <2>2, LoopsStep
  <2>3. CASE Finish(l) \/ Abort(l)
    BY <2>3, EndFacts, LoopsAnswers, LoopsDefer
  <2> QED BY <1>1, <2>1, <2>2, <2>3 DEF LoopStep
<1>2. CASE NetworkAnswer
  <2>1. PICK x \in deferred : deferred' = deferred \ {x} /\ Reply(x, job)
    BY <1>2 DEF NetworkAnswer
  <2>2. channel' = channel
    BY <1>2 DEF NetworkAnswer
  <2> QED BY <2>1, <2>2, LoopsAnswered
<1>3. CASE \E e \in DOMAIN MainScript : MessageArrives(e)
  BY <1>3, LoopsArrive
<1>4. CASE \E t \in Tasks : TaskSends(t)
  BY <1>4, LoopsTask
<1>5. CASE UNCHANGED vars
  <2>1. channel' = channel /\ job' = job /\ deferred' = deferred
    BY <1>5 DEF vars
  <2> QED BY <2>1 DEF LoopsOK
<1> QED BY <1>1, <1>2, <1>3, <1>4, <1>5 DEF Next

LEMMA LoopsInit ==
  ASSUME Init
  PROVE  LoopsOK
<1>1. /\ \A l \in Loops : channel[l] = <<>> /\ job[l] = Idle
      /\ deferred = {}
  BY DEF Init
<1>2. channel \in [Loops -> Seq(Messages)] /\ job \in [Loops -> Jobs]
  BY IdleIsJob DEF Init
<1>3. LoopsOK
  BY <1>1, <1>2, IdleIsJob DEF LoopsOK
<1> QED BY <1>3

-----------------------------------------------------------------------------
(* A loop asks loops below it only                                         *)

\* An answer goes to a loop of a higher rank.
AsksBelow ==
  \A l, m \in Loops :
    /\ job[m].from = l => Rank[m] < Rank[l]
    /\ \A k \in 1 .. Len(channel[m]) : channel[m][k].from = l => Rank[m] < Rank[l]

\* The first step of a script, if any, is for the channel of loop m.
Heads(l, m) ==
  IF job[l].script # <<>> /\ Head(job[l].script).loop = m THEN 1 ELSE 0

\* Only the first step of a script is for main or the build loop.
HeadsFirst ==
  \A l \in Loops : \A k \in 2 .. Len(job[l].script) : job[l].script[k].loop \notin {"main", "build"}

\* The tasks that have sent their event.
Started == {t \in Tasks : task[t] # "new"}

\* A slot of main's channel is used once per message, and one of the build loop's once per
\* message or task: a message that is put in it comes from a handler that took one from main,
\* or from one of the build loop's own.  The arguments are the lengths of the two channels,
\* the next steps of the p2p, the build and the main loop, and the messages and tasks so far.
Fits(inMain, p2pNext, inBuild, buildNext, mainNext, messages, tasks) ==
  /\ inMain + p2pNext <= messages
  /\ inBuild + buildNext + mainNext + inMain + p2pNext <= messages + tasks

SlotsUsed ==
  /\ arrived \in 0 .. MaxMessages
  /\ task \in [Tasks -> {"new", "waiting", "done"}]
  /\ Fits(Len(channel["main"]), Heads("p2p", "main"), Len(channel["build"]),
          Heads("build", "build"), Heads("main", "build"), arrived, Cardinality(Started))

SlotInv == LoopsOK /\ HeadsFirst /\ SlotsUsed

\* Room for every message in main's channel, and for every message and every task in the
\* build loop's.
RoomForAll ==
  /\ IsFiniteSet(Tasks)
  /\ MaxMessages <= Slots["main"]
  /\ MaxMessages + Cardinality(Tasks) <= Slots["build"]

LEMMA BelowNext ==
  ASSUME LoopsOK, AsksBelow, [Next]_vars
  PROVE  AsksBelow'
<1> SUFFICES ASSUME NEW x \in Loops, NEW m \in Loops
             PROVE  /\ job'[m].from = x => Rank[m] < Rank[x]
                    /\ \A k \in 1 .. Len(channel'[m]) : channel'[m][k].from = x => Rank[m] < Rank[x]
  BY DEF AsksBelow
<1>0. /\ job[m].from = x => Rank[m] < Rank[x]
      /\ \A k \in 1 .. Len(channel[m]) : channel[m][k].from = x => Rank[m] < Rank[x]
  BY DEF AsksBelow
<1>1. ASSUME NEW l \in Loops, LoopStep(l)
      PROVE  /\ job'[m].from = x => Rank[m] < Rank[x]
             /\ \A k \in 1 .. Len(channel'[m]) : channel'[m][k].from = x => Rank[m] < Rank[x]
  <2>1. CASE Take(l)
    <3>1. /\ channel[l] # <<>>
          /\ \A n \in Loops : n # l => job'[n] = job[n] /\ channel'[n] = channel[n]
          /\ job'[l].from = channel[l][1].from
          /\ channel'[l] = Tail(channel[l])
      BY <2>1, LoopsTake
    <3>2. CASE m # l
      BY <1>0, <3>1, <3>2
    <3>3. CASE m = l
      <4>1. channel[m] \in Seq(Messages) /\ channel[m] # <<>>
        BY <3>1, <3>3 DEF LoopsOK
      <4>2. /\ Len(Tail(channel[m])) = Len(channel[m]) - 1 /\ Len(channel[m]) \in Nat \ {0}
            /\ \A k \in 1 .. Len(Tail(channel[m])) : Tail(channel[m])[k] = channel[m][k + 1]
        BY <4>1, TailFacts
      <4>3. 1 \in 1 .. Len(channel[m])
        BY <4>2
      <4>4. job'[m].from = x => Rank[m] < Rank[x]
        BY <1>0, <3>1, <3>3, <4>3, ZenonT(30)
      <4>5. ASSUME NEW k \in 1 .. Len(channel'[m]), channel'[m][k].from = x
            PROVE  Rank[m] < Rank[x]
        <5>0. channel'[m] = Tail(channel[m]) /\ k \in 1 .. Len(Tail(channel[m]))
          BY <3>1, <3>3, ZenonT(30)
        <5>1. channel'[m][k] = channel[m][k + 1] /\ k + 1 \in 1 .. Len(channel[m])
          BY <4>2, <5>0
        <5> QED BY <1>0, <4>5, <5>1
      <4> QED BY <4>4, <4>5
    <3> QED BY <3>2, <3>3
  <2>2. CASE Step(l)
    <3> DEFINE s == Head(job[l].script)
               from == IF s.reply THEN l ELSE Nobody
    <3>1. /\ s \in StepsOf[l] /\ s.loop \in Loops
          /\ from \in Askers /\ SendTo(s.loop, s.event, from) /\ s.event \in EventsOf[s.loop]
          /\ \A n \in Loops : n # l => job'[n] = job[n]
          /\ job'[l].from = job[l].from
      BY <2>2, LoopsStep
    <3>2. s.reply => Rank[s.loop] < Rank[l]
      BY <3>1, StepFacts, ZenonT(30)
    <3>3. from = x => Rank[s.loop] < Rank[x]
      BY <3>2 DEF Nobody, Loops
    <3> HIDE DEF s, from
    <3>4. /\ \A n \in Loops : n # s.loop => channel'[n] = channel[n]
          /\ Len(channel[s.loop]) \in Nat /\ Len(channel'[s.loop]) = Len(channel[s.loop]) + 1
          /\ \A k \in 1 .. Len(channel[s.loop]) : channel'[s.loop][k] = channel[s.loop][k]
          /\ channel'[s.loop][Len(channel[s.loop]) + 1].from = from
      <4>1. s.loop \in Loops /\ s.event \in EventsOf[s.loop] /\ from \in Askers /\ SendTo(s.loop, s.event, from)
        BY <3>1, Zenon
      <4> QED BY <4>1, SendFacts, ZenonT(30)
    <3>5. job'[m].from = job[m].from
      BY <3>1
    <3>6. ASSUME NEW k \in 1 .. Len(channel'[m])
          PROVE  channel'[m][k].from = x => Rank[m] < Rank[x]
      <4>1. CASE m # s.loop
        BY <1>0, <3>4, <4>1
      <4>2. CASE m = s.loop /\ k = Len(channel[s.loop]) + 1
        BY <3>3, <3>4, <4>2
      <4>3. CASE m = s.loop /\ k \in 1 .. Len(channel[s.loop])
        BY <1>0, <3>4, <4>3
      <4> QED BY <3>4, <4>1, <4>2, <4>3
    <3> QED BY <1>0, <3>5, <3>6
  <2>3. CASE Finish(l) \/ Abort(l)
    <3>1. CASE Answers(l)
      <4>1. job'[m].from = (IF m = l THEN Idle.from ELSE job[m].from) /\ channel' = channel
        BY <3>1, LoopsAnswers DEF Answers
      <4> QED BY <1>0, <4>1, IdleIsJob
    <3>2. CASE /\ ~job[l].waiting /\ job' = [job EXCEPT ![l] = Idle]
               /\ deferred' = deferred \cup {job[l].from} /\ channel' = channel /\ task' = task
      <4>1. job'[m] = (IF m = l THEN Idle ELSE job[m])
        BY <3>2, LoopsDefer, ZenonT(30)
      <4> QED BY <1>0, <3>2, <4>1, IdleIsJob
    <3> QED BY <2>3, <3>1, <3>2, EndFacts
  <2> QED BY <1>1, <2>1, <2>2, <2>3, ZenonT(30) DEF LoopStep
<1>2. CASE NetworkAnswer
  <2>1. PICK y \in deferred : deferred' = deferred \ {y} /\ Reply(y, job)
    BY <1>2 DEF NetworkAnswer
  <2>2. channel' = channel
    BY <1>2 DEF NetworkAnswer
  <2>3. job'[m].from = job[m].from
    BY <2>1, <2>2, LoopsAnswered
  <2> QED BY <1>0, <2>2, <2>3
<1>3. CASE \E e \in DOMAIN MainScript : MessageArrives(e)
  <2>1. /\ m # "p2p" => job'[m] = job[m]
        /\ job'["p2p"].from = Nobody /\ channel' = channel
    BY <1>3, LoopsArrive, ZenonT(30) DEF MessageArrives
  <2> QED BY <1>0, <2>1 DEF Nobody, Loops
<1>4. CASE \E t \in Tasks : TaskSends(t)
  <2>1. PICK t \in Tasks : TaskSends(t)
    BY <1>4
  <2> DEFINE s == TaskScript[TaskKind[t]]
             from == IF s.reply THEN t ELSE Nobody
  <2>2. /\ s.loop \in Loops /\ s.event \in EventsOf[s.loop] /\ from \in Askers /\ from \notin Loops
        /\ SendTo(s.loop, s.event, from) /\ job' = job
    BY <2>1, TaskFacts
  <2> HIDE DEF s, from
  <2>3. /\ \A n \in Loops : n # s.loop => channel'[n] = channel[n]
        /\ Len(channel[s.loop]) \in Nat /\ Len(channel'[s.loop]) = Len(channel[s.loop]) + 1
        /\ \A k \in 1 .. Len(channel[s.loop]) : channel'[s.loop][k] = channel[s.loop][k]
        /\ channel'[s.loop][Len(channel[s.loop]) + 1].from = from
    BY <2>2, SendFacts
  <2>4. ASSUME NEW k \in 1 .. Len(channel'[m])
        PROVE  channel'[m][k].from = x => Rank[m] < Rank[x]
    <3>1. CASE m # s.loop
      BY <1>0, <2>3, <3>1
    <3>2. CASE m = s.loop /\ k = Len(channel[s.loop]) + 1
      BY <2>2, <2>3, <3>2
    <3>3. CASE m = s.loop /\ k \in 1 .. Len(channel[s.loop])
      BY <1>0, <2>3, <3>3
    <3> QED BY <2>3, <3>1, <3>2, <3>3
  <2> QED BY <1>0, <2>2, <2>4
<1>5. CASE UNCHANGED vars
  BY <1>0, <1>5 DEF vars
<1> QED BY <1>1, <1>2, <1>3, <1>4, <1>5 DEF Next

LEMMA BelowInit ==
  ASSUME Init
  PROVE  AsksBelow
<1>1. \A l \in Loops : channel[l] = <<>> /\ job[l] = Idle
  BY DEF Init
<1> QED BY <1>1, IdleIsJob DEF AsksBelow

\* A loop waits for a loop below it, or for a slot that main or the build loop lacks.
LEMMA WaitsBelow ==
  ASSUME LoopsOK, AsksBelow, NEW l \in Loops, NEW m \in Loops, WaitsFor(l, m)
  PROVE  \/ Rank[m] < Rank[l]
         \/ l = "p2p" /\ m = "main" /\ ~HasSlot("main") /\ Heads("p2p", "main") = 1
         \/ l = "build" /\ m = "build" /\ ~HasSlot("build") /\ Heads("build", "build") = 1
<1>1. CASE job[l].waiting
  BY <1>1 DEF WaitsFor, AsksBelow
<1>2. CASE ~job[l].waiting
  <2>1. job[l].script # <<>> /\ Head(job[l].script).loop = m /\ ~HasSlot(m)
    BY <1>2 DEF WaitsFor
  <2>2. job[l].script \in Seq(AllSteps)
    BY DEF LoopsOK, Jobs
  <2>3. Head(job[l].script) = job[l].script[1] /\ 1 \in 1 .. Len(job[l].script)
    BY <2>1, <2>2, TailFacts
  <2>4. Head(job[l].script) \in StepsOf[l]
    BY <2>3 DEF LoopsOK
  <2>5. \/ Rank[m] < Rank[l]
        \/ l = "p2p" /\ m = "main"
        \/ l = "build" /\ m = "build"
    BY <2>1, <2>4, StepFacts, Zenon
  <2> QED BY <2>1, <2>5 DEF Heads
<1> QED BY <1>1, <1>2

\* Of the loops of a set, the one of the lowest rank waits for none of them.
LEMMA LowestIsFree ==
  ASSUME \A l, m \in Loops : WaitsFor(l, m) => Rank[m] < Rank[l]
  PROVE  NoWaitCycle
<1> SUFFICES ASSUME NEW S \in (SUBSET Loops) \ {{}}
             PROVE  \E l \in S : \A m \in S : ~WaitsFor(l, m)
  BY DEF NoWaitCycle
<1>1. \E l \in S : \A m \in S : ~(Rank[m] < Rank[l])
  <2>1. CASE "p2p" \in S
    BY <2>1 DEF Rank, Loops
  <2>2. CASE "p2p" \notin S /\ "blockchain" \in S
    BY <2>2 DEF Rank, Loops
  <2>3. CASE "p2p" \notin S /\ "blockchain" \notin S /\ "build" \in S
    BY <2>3 DEF Rank, Loops
  <2>4. CASE "p2p" \notin S /\ "blockchain" \notin S /\ "build" \notin S
    <3>1. \A m \in S : m = "main"
      BY <2>4 DEF Loops
    <3>0. S # {}
      OBVIOUS
    <3>2. PICK l \in S : TRUE
      BY <3>0
    <3>3. ~(Rank["main"] < Rank["main"])
      BY DEF Rank
    <3> QED BY <3>1, <3>2, <3>3
  <2> QED BY <2>1, <2>2, <2>3, <2>4
<1> QED BY <1>1

\* A handler asks loops below its own only: as long as main and the build loop have a free
\* slot, no set of loops waits for each other, whatever the tasks, the messages and the sizes.
THEOREM NoCycleWithFreeSlots ==
  Spec => [](HasSlot("main") /\ HasSlot("build") => NoWaitCycle)
<1>1. Init => LoopsOK /\ AsksBelow
  BY LoopsInit, BelowInit
<1>2. LoopsOK /\ AsksBelow /\ [Next]_vars => (LoopsOK /\ AsksBelow)'
  BY LoopsNext, BelowNext
<1>3. LoopsOK /\ AsksBelow => (HasSlot("main") /\ HasSlot("build") => NoWaitCycle)
  BY WaitsBelow, LowestIsFree
<1> QED BY <1>1, <1>2, <1>3, PTL DEF Spec

-----------------------------------------------------------------------------
(* With room for all, main and the build loop never lack the slot          *)

\* How the numbers move: main or the build loop takes an event, or one of the three makes its
\* next step; a message arrives; a task sends its event; scripts end.
LEMMA FitsMoves ==
  ASSUME NEW M \in Nat, NEW p \in Nat, NEW B \in Nat, NEW q \in Nat, NEW r \in Nat,
         NEW n \in Nat, NEW c \in Nat, Fits(M, p, B, q, r, n, c)
  PROVE  /\ \A x \in 0 .. 1 : r = 0 => Fits(M - 1, p, B, q, x, n, c)
         /\ \A x \in 0 .. 1 : q = 0 => Fits(M, p, B - 1, x, r, n, c)
         /\ Fits(M, p, B + r, q, 0, n, c)
         /\ Fits(M, p, B + q, 0, r, n, c)
         /\ p = 1 => Fits(M + 1, 0, B, q, r, n, c)
         /\ \A x \in 0 .. 1 : p = 0 => Fits(M, x, B, q, r, n + 1, c)
         /\ \A x \in Nat : x <= B + 1 => Fits(M, p, x, q, r, n, c + 1)
         /\ q = 1 => B + 1 <= n + c
         /\ \A x, y, z, d \in Nat :
              x <= p /\ y <= q /\ z <= r /\ c <= d => Fits(M, x, B, y, z, n, d)
BY DEF Fits

LEMMA StartedFacts ==
  ASSUME IsFiniteSet(Tasks)
  PROVE  /\ Cardinality(Started) \in Nat /\ Cardinality(Started) <= Cardinality(Tasks)
         /\ Cardinality(Tasks) \in Nat
         /\ Cardinality(Started)' \in Nat
         /\ Started \subseteq Started' => Cardinality(Started) <= Cardinality(Started)'
         /\ \A t \in Tasks : t \notin Started /\ Started' = Started \cup {t} =>
              Cardinality(Started)' = Cardinality(Started) + 1
<1>1. Started \subseteq Tasks /\ Started' \subseteq Tasks
  BY DEF Started
<1>2. IsFiniteSet(Started) /\ IsFiniteSet(Started')
  BY <1>1, FS_Subset
<1>3. /\ Cardinality(Started) \in Nat /\ Cardinality(Started') \in Nat
      /\ Cardinality(Tasks) \in Nat
  BY <1>2, FS_CardinalityType
<1>4. Cardinality(Started) <= Cardinality(Tasks)
  BY <1>1, FS_Subset
<1>5. Started \subseteq Started' => Cardinality(Started) <= Cardinality(Started')
  BY <1>2, FS_Subset
<1>6. \A t \in Tasks : t \notin Started /\ Started' = Started \cup {t} =>
         Cardinality(Started') = Cardinality(Started) + 1
  BY <1>2, FS_AddElement
<1> QED BY <1>3, <1>4, <1>5, <1>6

LEMMA LengthsAreNatural ==
  ASSUME SlotInv
  PROVE  \A m \in Loops : Len(channel[m]) \in Nat
PROOF
<1>1. channel \in [Loops -> Seq(Messages)]
  BY Zenon DEF SlotInv, LoopsOK, LoopsOK
<1> QED BY <1>1

LEMMA HeadsRange == \A l, m \in Loops : Heads(l, m) \in 0 .. 1 /\ Heads(l, m)' \in 0 .. 1
BY DEF Heads

\* A loop whose script is the same, or empty, has the same next step, or none.
LEMMA HeadsKept ==
  ASSUME NEW l \in Loops, NEW m \in Loops
  PROVE  /\ job'[l].script = job[l].script => Heads(l, m)' = Heads(l, m)
         /\ job'[l].script = <<>> => Heads(l, m)' = 0
         /\ job[l].script = <<>> => Heads(l, m) = 0
BY DEF Heads

\* SlotsUsed, of natural numbers.
LEMMA SlotSums ==
  ASSUME SlotInv, IsFiniteSet(Tasks)
  PROVE  /\ arrived \in Nat /\ Cardinality(Started) \in Nat
         /\ Len(channel["main"]) \in Nat /\ Len(channel["build"]) \in Nat
         /\ Heads("p2p", "main") \in 0 .. 1
         /\ Heads("build", "build") \in 0 .. 1 /\ Heads("main", "build") \in 0 .. 1
         /\ Fits(Len(channel["main"]), Heads("p2p", "main"), Len(channel["build"]),
                 Heads("build", "build"), Heads("main", "build"), arrived, Cardinality(Started))
<1>1. "main" \in Loops /\ "build" \in Loops /\ "p2p" \in Loops
  BY DEF Loops
<1>2. arrived \in Nat
  BY EventLoopsAssumption DEF SlotInv, SlotsUsed
<1>3. Len(channel["main"]) \in Nat /\ Len(channel["build"]) \in Nat
  BY <1>1 DEF SlotInv, LoopsOK, LoopsOK
<1>4. /\ Heads("p2p", "main") \in 0 .. 1
      /\ Heads("build", "build") \in 0 .. 1 /\ Heads("main", "build") \in 0 .. 1
  BY <1>1, HeadsRange
<1> QED BY <1>2, <1>3, <1>4, StartedFacts DEF SlotInv, SlotsUsed

\* The same moves, from a state.
LEMMA SlotMoves ==
  ASSUME SlotInv, IsFiniteSet(Tasks)
  PROVE  LET M == Len(channel["main"])
             p == Heads("p2p", "main")
             B == Len(channel["build"])
             q == Heads("build", "build")
             r == Heads("main", "build")
             c == Cardinality(Started)
         IN  /\ \A x \in 0 .. 1 : r = 0 => Fits(M - 1, p, B, q, x, arrived, c)
             /\ \A x \in 0 .. 1 : q = 0 => Fits(M, p, B - 1, x, r, arrived, c)
             /\ Fits(M, p, B + r, q, 0, arrived, c)
             /\ Fits(M, p, B + q, 0, r, arrived, c)
             /\ p = 1 => Fits(M + 1, 0, B, q, r, arrived, c)
             /\ \A x \in 0 .. 1 : p = 0 => Fits(M, x, B, q, r, arrived + 1, c)
             /\ \A x \in Nat : x <= B + 1 => Fits(M, p, x, q, r, arrived, c + 1)
             /\ q = 1 => B + 1 <= arrived + c
             /\ \A x, y, z, d \in Nat :
                  x <= p /\ y <= q /\ z <= r /\ c <= d => Fits(M, x, B, y, z, arrived, d)
<1> DEFINE M == Len(channel["main"])
           p == Heads("p2p", "main")
           B == Len(channel["build"])
           q == Heads("build", "build")
           r == Heads("main", "build")
           c == Cardinality(Started)
<1>1. /\ arrived \in Nat /\ c \in Nat /\ M \in Nat /\ B \in Nat
      /\ p \in 0 .. 1 /\ q \in 0 .. 1 /\ r \in 0 .. 1
      /\ Fits(M, p, B, q, r, arrived, c)
  BY SlotSums
<1> HIDE DEF M, p, B, q, r, c
<1>2. p \in Nat /\ q \in Nat /\ r \in Nat
  BY <1>1
<1>3. /\ \A x \in 0 .. 1 : r = 0 => Fits(M - 1, p, B, q, x, arrived, c)
      /\ \A x \in 0 .. 1 : q = 0 => Fits(M, p, B - 1, x, r, arrived, c)
      /\ Fits(M, p, B + r, q, 0, arrived, c)
      /\ Fits(M, p, B + q, 0, r, arrived, c)
      /\ p = 1 => Fits(M + 1, 0, B, q, r, arrived, c)
      /\ \A x \in 0 .. 1 : p = 0 => Fits(M, x, B, q, r, arrived + 1, c)
      /\ \A x \in Nat : x <= B + 1 => Fits(M, p, x, q, r, arrived, c + 1)
      /\ q = 1 => B + 1 <= arrived + c
      /\ \A x, y, z, d \in Nat :
           x <= p /\ y <= q /\ z <= r /\ c <= d => Fits(M, x, B, y, z, arrived, d)
  BY ONLY <1>1, <1>2, FitsMoves, ZenonT(30)
<1> QED BY <1>3 DEF M, p, B, q, r, c

LEMMA TakeSlots ==
  ASSUME SlotInv, IsFiniteSet(Tasks), NEW l \in Loops, Take(l)
  PROVE  HeadsFirst' /\ SlotsUsed'
<1>1. /\ channel[l] # <<>>
      /\ \A m \in Loops : m # l => job'[m] = job[m] /\ channel'[m] = channel[m]
      /\ channel[l][1].event \in EventsOf[l]
      /\ job'[l].script = Script(l, channel[l][1].event)
      /\ channel'[l] = Tail(channel[l])
  BY LoopsTake DEF SlotInv, LoopsOK
<1>2. \A m \in Loops : channel[m] \in Seq(Messages)
  BY DEF SlotInv, LoopsOK, LoopsOK
<1>3. Len(channel'[l]) = Len(channel[l]) - 1
  BY <1>1, <1>2, TailFacts
<1>4. /\ \A k \in 2 .. Len(job'[l].script) : job'[l].script[k].loop \notin {"main", "build"}
      /\ l = "p2p" => job'[l].script = <<>>
  BY <1>1, ScriptFacts
<1>5. HeadsFirst'
  BY <1>1, <1>4 DEF SlotInv, HeadsFirst
<1>6. job[l].script = <<>> /\ arrived' = arrived /\ task' = task
  BY IdleIsJob DEF Take
<1>7. \A m, n \in Loops : m # l => Heads(m, n)' = Heads(m, n)
  BY <1>1, HeadsKept
<1>8. \A n \in Loops : Heads(l, n) = 0 /\ Heads(l, n)' \in 0 .. 1
  BY <1>6, HeadsKept, HeadsRange
<1>9. \A m \in Loops : Len(channel[m]) \in Nat
  BY <1>2
<1>10. l = "p2p" => Heads(l, "main")' = 0
  BY <1>4, HeadsKept DEF Loops
<1>11. Cardinality(Started)' = Cardinality(Started)
  BY <1>6 DEF Started
<1>12. Cardinality(Started) \in Nat
  BY StartedFacts
<1>13. \A m \in Loops : Len(channel'[m]) = (IF m = l THEN Len(channel[m]) - 1 ELSE Len(channel[m]))
  BY <1>1, <1>3, ZenonT(30)
<1>14. /\ "main" \in Loops /\ "build" \in Loops /\ "p2p" \in Loops
  BY DEF Loops
<1>15. ASSUME l = "main"
       PROVE  Fits(Len(channel'["main"]), Heads("p2p", "main")', Len(channel'["build"]),
                   Heads("build", "build")', Heads("main", "build")', arrived', Cardinality(Started)')
  <2>1. /\ Len(channel'["main"]) = Len(channel["main"]) - 1
        /\ Len(channel'["build"]) = Len(channel["build"])
        /\ Heads("p2p", "main")' = Heads("p2p", "main")
        /\ Heads("build", "build")' = Heads("build", "build")
        /\ Heads("main", "build") = 0 /\ Heads("main", "build")' \in 0 .. 1
    BY <1>7, <1>8, <1>13, <1>14, <1>15
  <2> QED BY <1>6, <1>11, <2>1, SlotMoves, ZenonT(30)
<1>16. ASSUME l = "build"
       PROVE  Fits(Len(channel'["main"]), Heads("p2p", "main")', Len(channel'["build"]),
                   Heads("build", "build")', Heads("main", "build")', arrived', Cardinality(Started)')
  <2>1. /\ Len(channel'["main"]) = Len(channel["main"])
        /\ Len(channel'["build"]) = Len(channel["build"]) - 1
        /\ Heads("p2p", "main")' = Heads("p2p", "main")
        /\ Heads("main", "build")' = Heads("main", "build")
        /\ Heads("build", "build") = 0 /\ Heads("build", "build")' \in 0 .. 1
    BY <1>7, <1>8, <1>13, <1>14, <1>16
  <2> QED BY <1>6, <1>11, <2>1, SlotMoves, ZenonT(30)
<1>17. ASSUME l = "p2p" \/ l = "blockchain"
       PROVE  Fits(Len(channel'["main"]), Heads("p2p", "main")', Len(channel'["build"]),
                   Heads("build", "build")', Heads("main", "build")', arrived', Cardinality(Started)')
  <2>1. /\ Len(channel'["main"]) = Len(channel["main"])
        /\ Len(channel'["build"]) = Len(channel["build"])
        /\ Heads("p2p", "main")' = Heads("p2p", "main")
        /\ Heads("main", "build")' = Heads("main", "build")
        /\ Heads("build", "build")' = Heads("build", "build")
    BY <1>7, <1>8, <1>10, <1>13, <1>14, <1>17
  <2> QED BY <1>6, <1>11, <2>1, SlotSums, ZenonT(30)
<1>18. Fits(Len(channel'["main"]), Heads("p2p", "main")', Len(channel'["build"]),
            Heads("build", "build")', Heads("main", "build")', arrived', Cardinality(Started)')
  BY <1>15, <1>16, <1>17 DEF Loops
<1>19. SlotsUsed'
  BY <1>6, <1>18 DEF SlotInv, SlotsUsed
<1> QED BY <1>5, <1>19

LEMMA StepSlots ==
  ASSUME SlotInv, IsFiniteSet(Tasks), NEW l \in Loops, Step(l)
  PROVE  HeadsFirst' /\ SlotsUsed'
<1> DEFINE w == job[l].script
           s == Head(w)
           from == IF s.reply THEN l ELSE Nobody
<1>1. /\ s \in StepsOf[l] /\ s.loop \in Loops
      /\ from \in Askers /\ SendTo(s.loop, s.event, from) /\ s.event \in EventsOf[s.loop]
      /\ \A m \in Loops : m # l => job'[m] = job[m]
      /\ w # <<>> /\ job'[l].script = Tail(w)
  BY LoopsStep DEF SlotInv, LoopsOK
<1>2. w \in Seq(AllSteps)
  BY DEF SlotInv, LoopsOK, LoopsOK, Jobs
<1>3. /\ Tail(w) \in Seq(AllSteps) /\ Len(Tail(w)) = Len(w) - 1 /\ Len(w) \in Nat \ {0}
      /\ \A k \in 1 .. Len(Tail(w)) : Tail(w)[k] = w[k + 1]
  BY <1>1, <1>2, TailFacts, ZenonT(30)
<1>4. ASSUME NEW k \in 1 .. Len(Tail(w))
      PROVE  Tail(w)[k].loop \notin {"main", "build"}
  <2>1. k + 1 \in 2 .. Len(w) /\ Tail(w)[k] = w[k + 1]
    BY <1>3
  <2> QED BY <2>1 DEF SlotInv, HeadsFirst
<1>5. \A k \in 2 .. Len(Tail(w)) : k \in 1 .. Len(Tail(w))
  BY <1>3
<1>6. HeadsFirst'
  BY <1>1, <1>4, <1>5, ZenonT(30) DEF SlotInv, HeadsFirst
<1>7. Tail(w) # <<>> => Head(Tail(w)) = Tail(w)[1] /\ 1 \in 1 .. Len(Tail(w))
  BY <1>3, TailFacts
<1>8. Heads(l, "main")' = 0 /\ Heads(l, "build")' = 0
  <2>1. Tail(w) # <<>> => Head(Tail(w)).loop \notin {"main", "build"}
    BY <1>4, <1>7
  <2> QED BY <1>1, <2>1, ZenonT(30) DEF Heads
<1>9. \A n \in Loops : Heads(l, n) = (IF s.loop = n THEN 1 ELSE 0)
  BY <1>1, ZenonT(30) DEF Heads
<1>10. \A m, n \in Loops : m # l => Heads(m, n)' = Heads(m, n)
  BY <1>1, HeadsKept
<1>11. /\ l = "p2p" => s.loop = "main"
       /\ s.loop = "main" => l = "p2p"
       /\ s.loop = "build" => l \in {"main", "build"}
  <2>1. /\ l = "p2p" => s.loop = "main"
        /\ s.loop = "main" => l = "p2p"
        /\ \/ Rank[s.loop] < Rank[l]
           \/ l = "p2p" /\ s.loop = "main"
           \/ l = "build" /\ s.loop = "build"
    BY <1>1, StepFacts, ZenonT(30)
  <2> QED BY <2>1 DEF Rank, Loops
<1> HIDE DEF s, from, w
<1>12. /\ \A m \in Loops : m # s.loop => channel'[m] = channel[m]
       /\ Len(channel'[s.loop]) = Len(channel[s.loop]) + 1
  BY <1>1, SendFacts DEF SlotInv, LoopsOK
<1>13. \A m \in Loops : Len(channel'[m]) = (IF m = s.loop THEN Len(channel[m]) + 1 ELSE Len(channel[m]))
  BY <1>12
<1>14. \A m \in Loops : Len(channel[m]) \in Nat
  BY LengthsAreNatural
<1>15. arrived' = arrived /\ task' = task
  BY DEF Step
<1>16. Cardinality(Started)' = Cardinality(Started) /\ Cardinality(Started) \in Nat
  BY <1>15, StartedFacts DEF Started
<1>17. \A m, n \in Loops : Heads(m, n) \in 0 .. 1
  BY HeadsRange
<1>18. "main" \in Loops /\ "build" \in Loops /\ "p2p" \in Loops
  BY DEF Loops
<1>19. Fits(Len(channel'["main"]), Heads("p2p", "main")', Len(channel'["build"]),
            Heads("build", "build")', Heads("main", "build")', arrived', Cardinality(Started)')
  <2>1. CASE l = "main"
    <3>1. /\ Len(channel'["main"]) = Len(channel["main"])
          /\ Len(channel'["build"]) = Len(channel["build"]) + Heads("main", "build")
          /\ Heads("p2p", "main")' = Heads("p2p", "main")
          /\ Heads("build", "build")' = Heads("build", "build")
          /\ Heads("main", "build")' = 0
      BY <1>8, <1>9, <1>10, <1>11, <1>13, <1>14, <1>18, <2>1
    <3> QED BY <1>15, <1>16, <3>1, SlotMoves, ZenonT(30)
  <2>2. CASE l = "build"
    <3>1. /\ Len(channel'["main"]) = Len(channel["main"])
          /\ Len(channel'["build"]) = Len(channel["build"]) + Heads("build", "build")
          /\ Heads("p2p", "main")' = Heads("p2p", "main")
          /\ Heads("main", "build")' = Heads("main", "build")
          /\ Heads("build", "build")' = 0
      BY <1>8, <1>9, <1>10, <1>11, <1>13, <1>14, <1>18, <2>2
    <3> QED BY <1>15, <1>16, <3>1, SlotMoves, ZenonT(30)
  <2>3. CASE l = "p2p"
    <3>1. /\ Len(channel'["main"]) = Len(channel["main"]) + 1
          /\ Len(channel'["build"]) = Len(channel["build"])
          /\ Heads("p2p", "main") = 1 /\ Heads("p2p", "main")' = 0
          /\ Heads("main", "build")' = Heads("main", "build")
          /\ Heads("build", "build")' = Heads("build", "build")
      BY <1>8, <1>9, <1>10, <1>11, <1>13, <1>14, <1>18, <2>3
    <3> QED BY <1>15, <1>16, <3>1, SlotMoves, ZenonT(30)
  <2>4. CASE l = "blockchain"
    <3>1. /\ Len(channel'["main"]) = Len(channel["main"])
          /\ Len(channel'["build"]) = Len(channel["build"])
          /\ Heads("p2p", "main")' = Heads("p2p", "main")
          /\ Heads("main", "build")' = Heads("main", "build")
          /\ Heads("build", "build")' = Heads("build", "build")
      BY <1>10, <1>11, <1>13, <1>18, <2>4
    <3> QED BY <1>15, <1>16, <3>1, SlotSums, ZenonT(30)
  <2> QED BY <2>1, <2>2, <2>3, <2>4 DEF Loops
<1>20. SlotsUsed'
  BY <1>15, <1>19 DEF SlotInv, SlotsUsed
<1> QED BY <1>6, <1>20

\* A step that leaves the channels and the messages alone, and scripts at most dropped.
LEMMA OtherSlots ==
  ASSUME SlotInv, IsFiniteSet(Tasks), channel' = channel, arrived' = arrived,
         \A m \in Loops : job'[m].script = job[m].script \/ job'[m].script = <<>>,
         task' = task \/ \E t \in Tasks : task' = [task EXCEPT ![t] = "done"]
  PROVE  HeadsFirst' /\ SlotsUsed'
<1>1. HeadsFirst'
  BY DEF SlotInv, HeadsFirst
<1>2. \A m, n \in Loops : Heads(m, n)' \in 0 .. 1 /\ Heads(m, n) \in 0 .. 1 /\ Heads(m, n)' <= Heads(m, n)
  BY HeadsKept, HeadsRange
<1>3. task' \in [Tasks -> {"new", "waiting", "done"}] /\ Started \subseteq Started'
  BY DEF SlotInv, SlotsUsed, Started
<1>4. /\ Cardinality(Started) <= Cardinality(Started)'
      /\ Cardinality(Started) \in Nat /\ Cardinality(Started)' \in Nat
  BY <1>3, StartedFacts
<1>5. \A m \in Loops : Len(channel[m]) \in Nat
  BY LengthsAreNatural
<1>6. "main" \in Loops /\ "build" \in Loops /\ "p2p" \in Loops
  BY DEF Loops
<1>7. Fits(Len(channel'["main"]), Heads("p2p", "main")', Len(channel'["build"]),
           Heads("build", "build")', Heads("main", "build")', arrived', Cardinality(Started)')
  <2>1. /\ Heads("p2p", "main")' \in 0 .. 1 /\ Heads("p2p", "main")' <= Heads("p2p", "main")
        /\ Heads("main", "build")' \in 0 .. 1 /\ Heads("main", "build")' <= Heads("main", "build")
        /\ Heads("build", "build")' \in 0 .. 1 /\ Heads("build", "build")' <= Heads("build", "build")
    BY <1>2, <1>6
  <2>2. /\ Heads("p2p", "main")' \in Nat /\ Heads("main", "build")' \in Nat
        /\ Heads("build", "build")' \in Nat
    BY <2>1
  <2> QED BY <1>4, <2>1, <2>2, SlotMoves, ZenonT(30)
<1>8. SlotsUsed'
  BY <1>3, <1>7 DEF SlotInv, SlotsUsed
<1> QED BY <1>1, <1>8

LEMMA ArriveSlots ==
  ASSUME SlotInv, IsFiniteSet(Tasks), NEW e \in DOMAIN MainScript, MessageArrives(e)
  PROVE  HeadsFirst' /\ SlotsUsed'
<1>1. /\ \A m \in Loops : m # "p2p" => job'[m] = job[m]
      /\ job'["p2p"].script = <<Post("main", e)>>
      /\ job["p2p"].script = <<>>
  BY LoopsArrive DEF SlotInv
<1>2. arrived' = arrived + 1 /\ arrived < MaxMessages /\ channel' = channel /\ task' = task
  BY DEF MessageArrives
<1>3. HeadsFirst'
  BY <1>1 DEF SlotInv, HeadsFirst
<1>4. "main" \in Loops /\ "build" \in Loops /\ "p2p" \in Loops
  BY DEF Loops
<1>5. Heads("p2p", "main") = 0 /\ Heads("p2p", "main")' \in 0 .. 1
  BY <1>1, <1>4, HeadsKept, HeadsRange
<1>6. /\ Heads("build", "build")' = Heads("build", "build") /\ Heads("build", "build") \in 0 .. 1
      /\ Heads("main", "build")' = Heads("main", "build") /\ Heads("main", "build") \in 0 .. 1
  BY <1>1, <1>4, HeadsKept, HeadsRange
<1>7. Cardinality(Started)' = Cardinality(Started) /\ Cardinality(Started) \in Nat
  BY <1>2, StartedFacts DEF Started
<1>8. \A m \in Loops : Len(channel[m]) \in Nat
  BY LengthsAreNatural
<1>9. arrived \in 0 .. MaxMessages
  BY DEF SlotInv, SlotsUsed
<1>10. Fits(Len(channel'["main"]), Heads("p2p", "main")', Len(channel'["build"]),
            Heads("build", "build")', Heads("main", "build")', arrived', Cardinality(Started)')
  BY <1>2, <1>5, <1>6, <1>7, SlotMoves, Zenon
<1>11. arrived' \in 0 .. MaxMessages
  BY <1>2, <1>9, EventLoopsAssumption
<1>12. SlotsUsed'
  BY <1>2, <1>10, <1>11 DEF SlotInv, SlotsUsed
<1> QED BY <1>3, <1>12

LEMMA TaskSlots ==
  ASSUME SlotInv, IsFiniteSet(Tasks), NEW t \in Tasks, TaskSends(t)
  PROVE  HeadsFirst' /\ SlotsUsed'
<1> DEFINE s == TaskScript[TaskKind[t]]
           from == IF s.reply THEN t ELSE Nobody
<1>1. /\ s.loop \in Loops /\ s.event \in EventsOf[s.loop] /\ s.loop # "main"
      /\ from \in Askers /\ SendTo(s.loop, s.event, from) /\ job' = job
  BY TaskFacts, ZenonT(30)
<1>2. /\ task[t] = "new" /\ arrived' = arrived
      /\ task' = [task EXCEPT ![t] = IF s.reply THEN "waiting" ELSE "done"]
  BY DEF TaskSends
<1> HIDE DEF s, from
<1>3. /\ \A m \in Loops : m # s.loop => channel'[m] = channel[m]
      /\ Len(channel'[s.loop]) = Len(channel[s.loop]) + 1
  BY <1>1, SendFacts DEF SlotInv, LoopsOK
<1>4. HeadsFirst'
  BY <1>1 DEF SlotInv, HeadsFirst
<1>5. /\ task' \in [Tasks -> {"new", "waiting", "done"}]
      /\ t \notin Started /\ Started' = Started \cup {t}
  BY <1>2 DEF SlotInv, SlotsUsed, Started
<1>6. Cardinality(Started)' = Cardinality(Started) + 1 /\ Cardinality(Started) \in Nat
  BY <1>5, StartedFacts
<1>7. "main" \in Loops /\ "build" \in Loops /\ "p2p" \in Loops
  BY DEF Loops
<1>8. \A m, n \in Loops : Heads(m, n)' = Heads(m, n) /\ Heads(m, n) \in 0 .. 1
  BY <1>1, HeadsKept, HeadsRange
<1>9. \A m \in Loops : Len(channel[m]) \in Nat
  BY LengthsAreNatural
<1>10. /\ Len(channel'["main"]) = Len(channel["main"])
       /\ Len(channel'["build"]) <= Len(channel["build"]) + 1
       /\ Len(channel'["build"]) \in Nat
  <2>1. channel'["main"] = channel["main"]
    BY <1>1, <1>3, <1>7
  <2>2. Len(channel["build"]) \in Nat
    BY <1>7, <1>9
  <2>3. \/ channel'["build"] = channel["build"]
        \/ Len(channel'["build"]) = Len(channel["build"]) + 1
    BY <1>3, <1>7
  <2> QED BY <2>1, <2>2, <2>3
<1>11. Fits(Len(channel'["main"]), Heads("p2p", "main")', Len(channel'["build"]),
            Heads("build", "build")', Heads("main", "build")', arrived', Cardinality(Started)')
  <2>1. /\ Heads("p2p", "main")' = Heads("p2p", "main")
        /\ Heads("main", "build")' = Heads("main", "build")
        /\ Heads("build", "build")' = Heads("build", "build")
    BY <1>7, <1>8
  <2> QED BY <1>2, <1>6, <1>10, <2>1, SlotMoves, ZenonT(30)
<1>12. SlotsUsed'
  BY <1>2, <1>5, <1>11 DEF SlotInv, SlotsUsed
<1> QED BY <1>4, <1>12

LEMMA SlotNext ==
  ASSUME SlotInv, IsFiniteSet(Tasks), [Next]_vars
  PROVE  SlotInv'
<1> SUFFICES HeadsFirst' /\ SlotsUsed'
  BY LoopsNext DEF SlotInv
<1>1. ASSUME NEW l \in Loops, LoopStep(l)
      PROVE  HeadsFirst' /\ SlotsUsed'
  <2>1. CASE Take(l)
    BY <2>1, TakeSlots
  <2>2. CASE Step(l)
    BY <2>2, StepSlots
  <2>3. CASE Finish(l) \/ Abort(l)
    <3>1. arrived' = arrived
      BY <2>3 DEF Finish, Abort
    <3>2. CASE Answers(l)
      <4>1. \A m \in Loops : job'[m].script = job[m].script \/ job'[m].script = <<>>
        BY <3>2, LoopsAnswers DEF SlotInv, LoopsOK
      <4>2. /\ channel' = channel
            /\ task' = task \/ \E t \in Tasks : task' = [task EXCEPT ![t] = "done"]
        BY <3>2, ZenonT(30) DEF Answers, Reply
      <4> QED BY <3>1, <4>1, <4>2, OtherSlots
    <3>3. CASE /\ ~job[l].waiting /\ job' = [job EXCEPT ![l] = Idle]
               /\ deferred' = deferred \cup {job[l].from} /\ channel' = channel /\ task' = task
      <4>1. \A m \in Loops : job'[m] = (IF m = l THEN Idle ELSE job[m])
        BY <3>3, LoopsDefer, ZenonT(30) DEF SlotInv
      <4>2. \A m \in Loops : job'[m].script = job[m].script \/ job'[m].script = <<>>
        BY <4>1, IdleIsJob
      <4> QED BY <3>1, <3>3, <4>2, OtherSlots
    <3> QED BY <2>3, <3>2, <3>3, EndFacts
  <2> QED BY <1>1, <2>1, <2>2, <2>3 DEF LoopStep
<1>2. CASE NetworkAnswer
  <2>1. PICK x \in deferred : deferred' = deferred \ {x} /\ Reply(x, job)
    BY <1>2 DEF NetworkAnswer
  <2>2. channel' = channel /\ arrived' = arrived
    BY <1>2 DEF NetworkAnswer
  <2>3. \A m \in Loops : job'[m].script = job[m].script
    BY <2>1, <2>2, LoopsAnswered DEF SlotInv
  <2>4. task' = task \/ \E t \in Tasks : task' = [task EXCEPT ![t] = "done"]
    BY <2>1 DEF Reply
  <2> QED BY <2>2, <2>3, <2>4, OtherSlots
<1>3. CASE \E e \in DOMAIN MainScript : MessageArrives(e)
  BY <1>3, ArriveSlots
<1>4. CASE \E t \in Tasks : TaskSends(t)
  BY <1>4, TaskSlots
<1>5. CASE UNCHANGED vars
  <2>1. channel' = channel /\ job' = job /\ arrived' = arrived /\ task' = task
    BY <1>5 DEF vars
  <2> QED BY <2>1, OtherSlots
<1> QED BY <1>1, <1>2, <1>3, <1>4, <1>5 DEF Next

LEMMA SlotInit ==
  ASSUME Init, IsFiniteSet(Tasks)
  PROVE  SlotInv
<1>1. LoopsOK
  BY LoopsInit
<1>2. /\ \A l \in Loops : channel[l] = <<>> /\ job[l].script = <<>>
      /\ task \in [Tasks -> {"new", "waiting", "done"}] /\ arrived = 0
  BY IdleIsJob DEF Init
<1>3. HeadsFirst
  BY <1>2 DEF HeadsFirst
<1>4. \A l, m \in Loops : Heads(l, m) = 0
  BY <1>2 DEF Heads
<1>5. Cardinality(Started) \in Nat
  BY StartedFacts
<1>6. "main" \in Loops /\ "build" \in Loops /\ "p2p" \in Loops
  BY DEF Loops
<1>7. Len(channel["main"]) = 0 /\ Len(channel["build"]) = 0
  BY <1>2, <1>6
<1>8. SlotsUsed
  BY <1>2, <1>4, <1>5, <1>6, <1>7, EventLoopsAssumption DEF SlotsUsed, Fits
<1> QED BY <1>1, <1>3, <1>8 DEF SlotInv

\* The channel of main has a slot whenever the p2p loop needs one, and that of the build
\* loop whenever the build loop itself does.
LEMMA RoomSuffices ==
  ASSUME SlotInv, AsksBelow, RoomForAll
  PROVE  NoWaitCycle
<1>1. "main" \in Loops /\ "build" \in Loops /\ "p2p" \in Loops
  BY DEF Loops
<1>2. /\ Cardinality(Started) \in Nat /\ Cardinality(Started) <= Cardinality(Tasks)
      /\ Cardinality(Tasks) \in Nat
  BY StartedFacts DEF RoomForAll
<1>3. \A m \in Loops : Len(channel[m]) \in Nat
  BY LengthsAreNatural
<1>4. \A m, n \in Loops : Heads(m, n) \in 0 .. 1
  BY HeadsRange
<1>5. Slots["main"] \in Nat /\ Slots["build"] \in Nat /\ MaxMessages \in Nat
  BY <1>1, EventLoopsAssumption
<1>6. Heads("p2p", "main") = 1 => HasSlot("main")
  BY <1>5, SlotSums DEF SlotInv, SlotsUsed, RoomForAll, HasSlot, Fits
<1>7. Heads("build", "build") = 1 => HasSlot("build")
  <2> SUFFICES ASSUME Heads("build", "build") = 1, Slots["build"] <= Len(channel["build"])
               PROVE  FALSE
    BY <1>1, <1>3, <1>5 DEF HasSlot
  <2>1. Len(channel["build"]) + 1 <= arrived + Cardinality(Started)
    BY SlotMoves DEF RoomForAll
  <2>2. arrived \in Nat /\ arrived <= MaxMessages /\ Len(channel["build"]) \in Nat
    BY <1>1, <1>3, <1>5 DEF SlotInv, SlotsUsed
  <2>3. MaxMessages + Cardinality(Tasks) <= Slots["build"]
    BY DEF RoomForAll
  <2> QED BY <1>2, <1>5, <2>1, <2>2, <2>3
<1>8. \A l, m \in Loops : WaitsFor(l, m) => Rank[m] < Rank[l]
  BY <1>6, <1>7, WaitsBelow DEF SlotInv
<1> QED BY <1>8, LowestIsFree

\* main waits for the build loop, that for the blockchain loop and all for the p2p loop, never
\* round: with channels as large as the messages and tasks that come, no set of loops waits
\* for each other.
THEOREM NoCycleWithRoom == ASSUME RoomForAll PROVE Spec => []NoWaitCycle
<1> IsFiniteSet(Tasks)
  BY DEF RoomForAll
<1>1. Init => SlotInv /\ AsksBelow
  BY SlotInit, BelowInit
<1>2. SlotInv /\ AsksBelow /\ [Next]_vars => (SlotInv /\ AsksBelow)'
  BY SlotNext, BelowNext DEF SlotInv
<1>3. SlotInv /\ AsksBelow => NoWaitCycle
  BY RoomSuffices
<1> QED BY <1>1, <1>2, <1>3, PTL DEF Spec
===============================================================================
