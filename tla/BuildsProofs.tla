---------------------------- MODULE BuildsProofs ----------------------------
(***************************************************************************)
(* Proofs about Builds: for any requests, packages and numbers of           *)
(* artifacts, and whatever fails or stops in between, nothing of a package  *)
(* is in the blockchain before all its artifacts are logged, stored and     *)
(* provided; a build that has ended is waited for exactly once; and only a  *)
(* process that stops leaves the directory of a build behind.               *)
(***************************************************************************)
EXTENDS Builds, FiniteSetTheorems, TLAPS

\* A leaf without a pragma is tried with Z3, then with Zenon.
USE SMTT(30), ZenonT(30)

Used(b) == build[b].stage # "unused"
Done(b, k) == <<b, k>> \in rows /\ <<b, k>> \in files /\ <<b, k>> \in provided

Kinds == {"Start", "Succeeded", "Failed", "Result"}
Stages == {"unused", "running", "built", "failing", "result"} \cup Settled
Steps == {"idle", "row", "file", "provide", "broadcast", "clean"}

\* A build that was started belongs to a request.
BuildsOK ==
  /\ build \in [BuildIds -> [request : Requests \cup {"none"}, stage : Stages, dir : Dirs]]
  /\ \A b \in BuildIds : Used(b) => build[b].request \in Requests

\* An event other than Start is about a build that was started.
EventsOK ==
  /\ events \in Seq(Kinds \X (Requests \cup BuildIds))
  /\ \A i \in 1 .. Len(events) :
       events[i][1] # "Start" => events[i][2] \in BuildIds /\ Used(events[i][2])

\* How far handle_build_result has come: what is before the artifact in work is done,
\* and when it broadcasts all of them are.
RecordingOK ==
  /\ recording \in [build : BuildIds \cup {"none"}, artifact : Nat, step : Steps]
  /\ ~At("idle") => recording.build \in BuildIds /\ Used(recording.build)
  /\ recording.step \in {"row", "file", "provide", "broadcast"}
       => recording.artifact \in Artifacts(recording.build)
  /\ recording.step \in {"row", "file", "provide"}
       => \A k \in 1 .. recording.artifact - 1 : Done(recording.build, k)
  /\ At("file") => Item \in rows
  /\ At("provide") => Item \in rows /\ Item \in files
  /\ At("broadcast") => \A k \in Artifacts(recording.build) : Done(recording.build, k)

\* A payload in the blockchain is of a build all of whose artifacts are done.
LedgerOK ==
  \A x \in ledger :
    /\ x[1] \in BuildIds /\ Used(x[1])
    /\ \A k \in Artifacts(x[1]) : Done(x[1], k)

\* BroadcastComplete says nothing of what is going on: the inductive invariant adds the
\* progress of the recording, and that events and payloads are of builds that exist.
BroadcastInv == BuildsOK /\ EventsOK /\ RecordingOK /\ LedgerOK

-----------------------------------------------------------------------------
(* Steps outside of the recording                                          *)

\* A build that was started stays started, and its request the same.
Kept == \A b \in BuildIds : Used(b) => Used(b)' /\ build'[b].request = build[b].request

\* What does not touch recording and stores keeps what is known of them.
LEMMA FrameStep ==
  ASSUME BroadcastInv, Kept, UNCHANGED recording, UNCHANGED storeVars
  PROVE  RecordingOK' /\ LedgerOK'
<1> USE BuildsAssumption DEF storeVars
<1>1. \A b \in BuildIds : Used(b) => Artifacts(b)' = Artifacts(b)
  BY DEF Kept, Artifacts, PackageOf
<1>2. LedgerOK'
  BY <1>1 DEF BroadcastInv, LedgerOK, Kept, Done
<1>3. RecordingOK'
  BY <1>1 DEF BroadcastInv, RecordingOK, Kept, Done, At, Item
<1> QED BY <1>2, <1>3

\* clean_up_build leaves no directory that it did not try to remove.
LEMMA CleanedUpFacts ==
  /\ "none" \in Dirs /\ "there" \in Dirs
  /\ \A d \in CleanedUp : d \in Dirs /\ d # "there"
BY DEF CleanedUp, Dirs

\* Another stage for a build that was started.
LEMMA StageStep ==
  ASSUME BuildsOK, NEW b \in BuildIds, Used(b), NEW s \in Stages \ {"unused"},
         \/ SetStage(b, s)
         \/ \E d \in Dirs : build' = [build EXCEPT ![b].stage = s, ![b].dir = d]
  PROVE  BuildsOK' /\ Kept /\ Used(b)'
<1>1. build' \in [BuildIds -> [request : Requests \cup {"none"}, stage : Stages, dir : Dirs]]
  BY DEF BuildsOK, SetStage
<1>2. /\ build'[b].stage = s /\ build'[b].request = build[b].request
      /\ \A c \in BuildIds \ {b} : build'[c] = build[c]
  BY DEF BuildsOK, SetStage
<1> QED BY <1>1, <1>2 DEF BuildsOK, Kept, Used

\* The loop takes an event from its channel.
LEMMA TakenEvent ==
  ASSUME EventsOK, Kept, events # <<>>, events' = Tail(events)
  PROVE  EventsOK'
<1>1. /\ events' \in Seq(Kinds \X (Requests \cup BuildIds))
      /\ Len(events') = Len(events) - 1
      /\ \A i \in 1 .. Len(events') : events'[i] = events[i + 1]
  BY DEF EventsOK
<1>2. \A i \in 1 .. Len(events') : i + 1 \in 1 .. Len(events)
  BY <1>1 DEF EventsOK
<1> QED BY <1>1, <1>2 DEF EventsOK, Kept

\* An event about a build that was started is put into the channel.
LEMMA PutEvent ==
  ASSUME EventsOK, Kept, NEW kind \in Kinds \ {"Start"}, NEW b \in BuildIds, Used(b)',
         events' = Append(events, <<kind, b>>)
  PROVE  EventsOK'
<1>1. /\ events' \in Seq(Kinds \X (Requests \cup BuildIds))
      /\ Len(events') = Len(events) + 1
      /\ \A i \in 1 .. Len(events) : events'[i] = events[i]
      /\ events'[Len(events) + 1] = <<kind, b>>
  BY DEF EventsOK
<1> QED BY <1>1 DEF EventsOK, Kept

\* An index is the last one, or before it.
LEMMA LastOrBefore == \A n \in Nat : \A i \in 1 .. n : i = n \/ i \in 1 .. n - 1
  OBVIOUS

\* The loop takes an event, and sends itself another one.
LEMMA ReplaceEvent ==
  ASSUME EventsOK, Kept, NEW kind \in Kinds \ {"Start"}, NEW b \in BuildIds, Used(b)',
         events # <<>>, events' = Append(Tail(events), <<kind, b>>)
  PROVE  EventsOK'
<1>1. /\ Tail(events) \in Seq(Kinds \X (Requests \cup BuildIds))
      /\ Len(Tail(events)) = Len(events) - 1
      /\ \A i \in 1 .. Len(Tail(events)) : Tail(events)[i] = events[i + 1]
  BY DEF EventsOK
<1>2. /\ events' \in Seq(Kinds \X (Requests \cup BuildIds))
      /\ Len(events') = Len(events)
      /\ \A i \in 1 .. Len(events) - 1 : events'[i] = events[i + 1]
      /\ events'[Len(events)] = <<kind, b>>
  BY <1>1 DEF EventsOK
<1>3. Len(events) \in Nat
  BY DEF EventsOK
<1>4. ASSUME NEW i \in 1 .. Len(events'), events'[i][1] # "Start"
      PROVE  (events[i][2] \in BuildIds /\ Used(events[i][2]))'
  <2>1. CASE i = Len(events)
    BY <1>2, <2>1 DEF Used
  <2>2. CASE i \in 1 .. Len(events) - 1
    <3>1. i + 1 \in 1 .. Len(events) /\ events'[i] = events[i + 1]
      BY <1>2, <1>3, <2>2
    <3>2. events[i + 1][2] \in BuildIds /\ Used(events[i + 1][2])
      BY <1>4, <3>1 DEF EventsOK
    <3>3. build'[events[i + 1][2]].stage # "unused"
      BY <3>2 DEF Kept, Used
    <3> QED BY <3>1, <3>2, <3>3 DEF Used
  <2>3. i \in 1 .. Len(events)
    BY <1>2
  <2>4. i = Len(events) \/ i \in 1 .. Len(events) - 1
    BY <1>3, <2>3, LastOrBefore
  <2> QED BY <2>1, <2>2, <2>4
<1> QED BY <1>2, <1>4, Zenon DEF EventsOK

\* The event the loop takes is about a build that was started.
LEMMA TakenIsUsed ==
  ASSUME EventsOK, NEW kind \in Kinds \ {"Start"}, NEW b, LoopTakes(kind, b)
  PROVE  b \in BuildIds /\ Used(b)
<1>1. 1 \in 1 .. Len(events) /\ Head(events) = events[1]
  BY DEF EventsOK, LoopTakes
<1>2. events[1][1] = kind /\ events[1][2] = b
  BY <1>1 DEF LoopTakes
<1> QED BY <1>1, <1>2 DEF EventsOK

-----------------------------------------------------------------------------
(* Requests, the loop and the pollers                                      *)

\* Requests only touch their own state and put Start events.
LEMMA RequestSteps ==
  ASSUME BroadcastInv, NEW r \in Requests, RequestBuild(r) \/ StartBuild(r) \/ StartFails(r)
  PROVE  BroadcastInv'
<1>1. UNCHANGED build /\ UNCHANGED recording /\ UNCHANGED storeVars
  BY DEF RequestBuild, StartBuild, StartFails
<1>2. BuildsOK' /\ Kept
  BY <1>1 DEF BroadcastInv, BuildsOK, Kept, Used
<1>3. EventsOK'
  <2>1. CASE RequestBuild(r)
    BY <2>1, <1>1 DEF RequestBuild, BroadcastInv, EventsOK, Used
  <2>2. CASE StartBuild(r)
    <3>1. /\ events' \in Seq(Kinds \X (Requests \cup BuildIds))
          /\ Len(events') = Len(events) + 1
          /\ \A i \in 1 .. Len(events) : events'[i] = events[i]
          /\ events'[Len(events) + 1] = <<"Start", r>>
      BY <2>2 DEF StartBuild, Put, BroadcastInv, EventsOK, Kinds
    <3> QED BY <1>1, <3>1 DEF BroadcastInv, EventsOK, Used
  <2>3. CASE StartFails(r)
    BY <1>2, <2>3, TakenEvent DEF StartFails, LoopTakes, BroadcastInv
  <2> QED BY <2>1, <2>2, <2>3
<1> QED BY <1>1, <1>2, <1>3, FrameStep DEF BroadcastInv

\* A build gets an id that was not used before.
LEMMA StartSucceedsStep ==
  ASSUME BroadcastInv, NEW r \in Requests, StartSucceeds(r)
  PROVE  BroadcastInv'
<1>1. PICK b \in BuildIds :
        /\ ~Used(b)
        /\ build' = [build EXCEPT ![b] = [request |-> r, stage |-> "running", dir |-> "none"]]
  BY Zenon DEF StartSucceeds, Used
<1>2. BuildsOK'
  <2>1. [request |-> r, stage |-> "running", dir |-> "none"]
          \in [request : Requests \cup {"none"}, stage : Stages, dir : Dirs]
    BY CleanedUpFacts DEF Stages
  <2>2. build' \in [BuildIds -> [request : Requests \cup {"none"}, stage : Stages, dir : Dirs]]
    BY <1>1, <2>1 DEF BroadcastInv, BuildsOK
  <2>3. \A c \in BuildIds : build'[c].request = r \/ build'[c] = build[c]
    BY <1>1 DEF BroadcastInv, BuildsOK
  <2> QED BY <2>2, <2>3 DEF BroadcastInv, BuildsOK, Used
<1>3. Kept
  BY <1>1 DEF BroadcastInv, BuildsOK, Kept, Used
<1>4. EventsOK'
  BY <1>3, TakenEvent DEF StartSucceeds, LoopTakes, BroadcastInv
<1>5. UNCHANGED recording /\ UNCHANGED storeVars
  BY DEF StartSucceeds
<1> QED BY <1>2, <1>3, <1>4, <1>5, FrameStep DEF BroadcastInv

\* A poller reports the end of its build.
LEMMA PollStep ==
  ASSUME BroadcastInv, NEW b \in BuildIds, Poll(b)
  PROVE  BroadcastInv'
<1>1. Used(b)
  BY DEF Poll, PollSuccess, PollFailure, Used
<1>2. PICK s \in Stages \ {"unused"} : SetStage(b, s)
  BY DEF Poll, PollSuccess, PollFailure, Stages
<1>3. BuildsOK' /\ Kept /\ Used(b)'
  BY <1>1, <1>2, StageStep, Zenon DEF BroadcastInv
<1>4. EventsOK'
  BY <1>3, PutEvent DEF Poll, PollSuccess, PollFailure, Put, Kinds, BroadcastInv
<1>5. UNCHANGED recording /\ UNCHANGED storeVars
  BY DEF Poll, PollSuccess, PollFailure
<1> QED BY <1>3, <1>4, <1>5, FrameStep DEF BroadcastInv

\* handle_successful_build, a failed build, and the result of a verification.
LEMMA LoopSteps ==
  ASSUME BroadcastInv, NEW b \in BuildIds,
         DownloadFails(b) \/ Download(b) \/ HandleFailed(b) \/ HandleVerified(b)
  PROVE  BroadcastInv'
<1>1. Used(b) /\ events # <<>>
  BY TakenIsUsed
     DEF BroadcastInv, Kinds, DownloadFails, Download, HandleFailed, HandleVerified, LoopTakes
<1>2. BuildsOK' /\ Kept /\ Used(b)'
  <2>1. PICK s \in Stages \ {"unused"} :
          \/ SetStage(b, s)
          \/ \E d \in Dirs : build' = [build EXCEPT ![b].stage = s, ![b].dir = d]
    <3>1. {"failing", "result", "failed", "verified"} \subseteq Stages \ {"unused"}
      BY DEF Stages, Settled
    <3>2. CASE DownloadFails(b)
      BY <3>1, <3>2, CleanedUpFacts, Zenon DEF DownloadFails
    <3>3. CASE Download(b)
      BY <3>1, <3>3, CleanedUpFacts, Zenon DEF Download
    <3>4. CASE HandleFailed(b)
      BY <3>1, <3>4, Zenon DEF HandleFailed
    <3>5. CASE HandleVerified(b)
      BY <3>1, <3>5, CleanedUpFacts, Zenon DEF HandleVerified
    <3> QED BY <3>2, <3>3, <3>4, <3>5, Zenon
  <2> QED BY <1>1, <2>1, StageStep DEF BroadcastInv
<1>3. EventsOK'
  <2>1. CASE DownloadFails(b) \/ Download(b)
    BY <1>1, <1>2, <2>1, ReplaceEvent DEF DownloadFails, Download, Kinds, BroadcastInv
  <2>2. CASE HandleFailed(b) \/ HandleVerified(b)
    BY <1>1, <1>2, <2>2, TakenEvent DEF HandleFailed, HandleVerified, BroadcastInv
  <2> QED BY <2>1, <2>2
<1>4. UNCHANGED recording /\ UNCHANGED storeVars
  BY DEF DownloadFails, Download, HandleFailed, HandleVerified
<1> QED BY <1>2, <1>3, <1>4, FrameStep DEF BroadcastInv

\* handle_build_result starts with the first artifact.
LEMMA HandleResultStep ==
  ASSUME BroadcastInv, NEW b \in BuildIds, HandleResult(b)
  PROVE  BroadcastInv'
<1>1. Used(b) /\ events # <<>>
  BY TakenIsUsed DEF BroadcastInv, Kinds, HandleResult, LoopTakes
<1>2. UNCHANGED build /\ UNCHANGED storeVars
  BY DEF HandleResult
<1>3. BuildsOK' /\ Kept
  BY <1>2 DEF BroadcastInv, BuildsOK, Kept, Used
<1>4. EventsOK'
  BY <1>1, <1>3, TakenEvent DEF HandleResult, BroadcastInv
<1>5. LedgerOK'
  BY <1>2 DEF BroadcastInv, LedgerOK, Used, Artifacts, PackageOf, Done, storeVars
<1>6. 1 \in Artifacts(b) /\ Artifacts(b)' = Artifacts(b)
  <2>1. build[b].request \in Requests
    BY <1>1 DEF BroadcastInv, BuildsOK
  <2>2. NumArtifacts[PackageOf(b)] \in Nat \ {0}
    BY <2>1, BuildsAssumption DEF PackageOf
  <2> QED BY <1>2, <2>2 DEF Artifacts, PackageOf
<1>7. RecordingOK'
  <2>1. recording' = [build |-> b, artifact |-> 1, step |-> "row"]
    BY DEF HandleResult
  <2>2. \A k \in 1 .. 1 - 1 : FALSE
    OBVIOUS
  <2> QED BY <1>1, <1>2, <1>6, <2>1, <2>2 DEF RecordingOK, At, Used, Steps
<1> QED BY <1>3, <1>4, <1>5, <1>7 DEF BroadcastInv

-----------------------------------------------------------------------------
(* The recording                                                           *)

\* A step of the recording leaves builds and events alone.
LEMMA GoOnStep ==
  ASSUME BroadcastInv, NEW artifact \in Nat, NEW step \in Steps, GoOn(artifact, step)
  PROVE  /\ BuildsOK' /\ EventsOK' /\ Kept
         /\ recording' = [build |-> recording.build, artifact |-> artifact, step |-> step]
         /\ \A b \in BuildIds : Artifacts(b)' = Artifacts(b)
<1>1. UNCHANGED build /\ UNCHANGED events
  BY DEF GoOn
<1>2. BuildsOK' /\ EventsOK' /\ Kept
  BY <1>1 DEF BroadcastInv, BuildsOK, EventsOK, Kept, Used
<1>3. recording' = [build |-> recording.build, artifact |-> artifact, step |-> step]
  BY Zenon DEF GoOn, BroadcastInv, RecordingOK
<1> QED BY <1>1, <1>2, <1>3 DEF Artifacts, PackageOf

\* Rows, files and provided keys are only added, so what is done stays done.
LEMMA LedgerStays ==
  ASSUME BroadcastInv, Kept, rows \subseteq rows', files \subseteq files', provided \subseteq provided',
         UNCHANGED ledger, \A b \in BuildIds : Artifacts(b)' = Artifacts(b)
  PROVE  LedgerOK'
  BY DEF BroadcastInv, LedgerOK, Kept, Done

\* What is known while one artifact is worked on.
LEMMA AtWork ==
  ASSUME BroadcastInv, recording.step \in {"row", "file", "provide", "broadcast"}
  PROVE  /\ recording.build \in BuildIds /\ Used(recording.build)
         /\ recording.artifact \in Artifacts(recording.build)
         /\ recording.artifact \in Nat
         /\ NumArtifacts[PackageOf(recording.build)] \in Nat \ {0}
<1>1. recording.build \in BuildIds /\ Used(recording.build)
  BY DEF BroadcastInv, RecordingOK, At
<1>2. build[recording.build].request \in Requests
  BY <1>1 DEF BroadcastInv, BuildsOK
<1>3. NumArtifacts[PackageOf(recording.build)] \in Nat \ {0}
  BY <1>2, BuildsAssumption DEF PackageOf
<1> QED BY <1>1, <1>3 DEF BroadcastInv, RecordingOK

\* add_artifact, then put_artifact_from_build_result.
LEMMA RowAndFileStep == ASSUME BroadcastInv, AddArtifact \/ PutArtifact PROVE BroadcastInv'
<1>1. recording.step \in {"row", "file"}
  BY DEF AddArtifact, PutArtifact, At
<1>2. /\ recording.build \in BuildIds /\ Used(recording.build)
      /\ recording.artifact \in Artifacts(recording.build) /\ recording.artifact \in Nat
  BY <1>1, AtWork
<1>3. PICK step \in {"file", "provide"} : GoOn(recording.artifact, step)
  BY DEF AddArtifact, PutArtifact
<1>4. /\ BuildsOK' /\ EventsOK' /\ Kept
      /\ recording' = [build |-> recording.build, artifact |-> recording.artifact, step |-> step]
      /\ \A b \in BuildIds : Artifacts(b)' = Artifacts(b)
  BY <1>2, <1>3, GoOnStep DEF Steps
<1>5. LedgerOK'
  BY <1>4, LedgerStays DEF AddArtifact, PutArtifact
<1>6. \A k \in 1 .. recording.artifact - 1 : Done(recording.build, k)'
  BY <1>1, <1>4 DEF BroadcastInv, RecordingOK, Done, AddArtifact, PutArtifact
<1>7. RecordingOK'
  <2>1. CASE AddArtifact
    <3>1. recording' = [build |-> recording.build, artifact |-> recording.artifact, step |-> "file"]
      BY <2>1, <1>2, GoOnStep DEF AddArtifact, Steps
    <3>2. Item' = Item /\ Item \in rows'
      BY <2>1, <3>1 DEF AddArtifact, Item
    <3> QED BY <1>2, <1>4, <1>6, <3>1, <3>2 DEF RecordingOK, At, Steps, Kept
  <2>2. CASE PutArtifact
    <3>1. recording' = [build |-> recording.build, artifact |-> recording.artifact, step |-> "provide"]
      BY <2>2, <1>2, GoOnStep DEF PutArtifact, Steps
    <3>2. Item' = Item /\ Item \in files' /\ Item \in rows'
      BY <2>2, <3>1 DEF PutArtifact, Item, At, BroadcastInv, RecordingOK
    <3> QED BY <1>2, <1>4, <1>6, <3>1, <3>2 DEF RecordingOK, At, Steps, Kept
  <2> QED BY <2>1, <2>2
<1> QED BY <1>4, <1>5, <1>7 DEF BroadcastInv

\* provide, then the next artifact or the broadcast.
LEMMA ProvideStep == ASSUME BroadcastInv, ProvideArtifact PROVE BroadcastInv'
<1>1. At("provide") /\ Item \in rows /\ Item \in files
  BY DEF ProvideArtifact, BroadcastInv, RecordingOK
<1> DEFINE b == recording.build  n == NumArtifacts[PackageOf(recording.build)]
<1>2. /\ b \in BuildIds /\ Used(b)
      /\ recording.artifact \in 1 .. n /\ recording.artifact \in Nat /\ n \in Nat \ {0}
  BY <1>1, AtWork DEF At, Artifacts
<1> DEFINE DoneNow(k) == <<b, k>> \in rows' /\ <<b, k>> \in files' /\ <<b, k>> \in provided'
<1>3. DoneNow(recording.artifact)
  BY <1>1 DEF ProvideArtifact, Item
<1>4. \A k \in 1 .. recording.artifact - 1 : DoneNow(k)
  BY <1>1 DEF BroadcastInv, RecordingOK, Done, ProvideArtifact, At
<1>5. CASE LastArtifact /\ GoOn(1, "broadcast")
  <2>1. /\ BuildsOK' /\ EventsOK' /\ Kept
        /\ recording' = [build |-> b, artifact |-> 1, step |-> "broadcast"]
        /\ \A c \in BuildIds : Artifacts(c)' = Artifacts(c)
    BY <1>5, GoOnStep DEF Steps
  <2>2. LedgerOK'
    BY <2>1, LedgerStays DEF ProvideArtifact
  <2>3. \A k \in 1 .. n : k = recording.artifact \/ k \in 1 .. recording.artifact - 1
    BY <1>2, <1>5, LastOrBefore DEF LastArtifact
  <2>4. \A k \in Artifacts(b) : DoneNow(k)
    BY <1>3, <1>4, <2>3 DEF Artifacts
  <2>5. 1 \in Artifacts(b)
    BY <1>2 DEF Artifacts
  <2>6. RecordingOK'
    BY <1>2, <2>1, <2>4, <2>5 DEF RecordingOK, At, Steps, Kept, Done
  <2> QED BY <2>1, <2>2, <2>6 DEF BroadcastInv
<1>6. CASE ~LastArtifact /\ GoOn(recording.artifact + 1, "row")
  <2>1. /\ BuildsOK' /\ EventsOK' /\ Kept
        /\ recording' = [build |-> b, artifact |-> recording.artifact + 1, step |-> "row"]
        /\ \A c \in BuildIds : Artifacts(c)' = Artifacts(c)
    BY <1>2, <1>6, GoOnStep DEF Steps
  <2>2. LedgerOK'
    BY <2>1, LedgerStays DEF ProvideArtifact
  <2>3. \A k \in 1 .. recording.artifact : k = recording.artifact \/ k \in 1 .. recording.artifact - 1
    BY <1>2, LastOrBefore
  <2>4. \A k \in 1 .. (recording.artifact + 1) - 1 : DoneNow(k)
    BY <1>2, <1>3, <1>4, <2>3
  <2>5. recording.artifact + 1 \in Artifacts(b)
    BY <1>2, <1>6 DEF Artifacts, LastArtifact
  <2>6. RecordingOK'
    BY <1>2, <2>1, <2>4, <2>5 DEF RecordingOK, At, Steps, Kept, Done
  <2> QED BY <2>1, <2>2, <2>6 DEF BroadcastInv
<1> QED BY <1>5, <1>6 DEF ProvideArtifact

\* One payload of the broadcast.
LEMMA BroadcastStep == ASSUME BroadcastInv, BroadcastArtifact PROVE BroadcastInv'
<1> DEFINE b == recording.build  step == IF LastArtifact THEN "clean" ELSE "broadcast"
<1>1. \A k \in Artifacts(b) : Done(b, k)
  BY DEF BroadcastArtifact, BroadcastInv, RecordingOK
<1>2. /\ b \in BuildIds /\ Used(b)
      /\ recording.artifact \in Artifacts(b) /\ recording.artifact \in Nat
      /\ NumArtifacts[PackageOf(b)] \in Nat \ {0}
  BY AtWork DEF At, BroadcastArtifact
<1>3. /\ BuildsOK' /\ EventsOK' /\ Kept
      /\ recording' = [build |-> b, artifact |-> recording.artifact + 1, step |-> step]
      /\ \A c \in BuildIds : Artifacts(c)' = Artifacts(c)
  BY <1>2, GoOnStep DEF Steps, BroadcastArtifact
<1>4. \A c, k : Done(c, k)' = Done(c, k)
  BY DEF Done, BroadcastArtifact
<1>5. LedgerOK'
  <2>1. Item[1] = b
    BY DEF Item
  <2> QED BY <1>1, <1>2, <1>3, <1>4, <2>1 DEF BroadcastArtifact, LedgerOK, BroadcastInv, Kept
<1>6. RecordingOK'
  <2>1. ~LastArtifact => recording.artifact + 1 \in Artifacts(b)
    BY <1>2 DEF LastArtifact, Artifacts
  <2>2. step \in Steps /\ recording.artifact + 1 \in Nat
    BY <1>2 DEF Steps
  <2> QED BY <1>1, <1>2, <1>3, <1>4, <2>1, <2>2 DEF RecordingOK, At, Kept
<1> QED BY <1>3, <1>5, <1>6 DEF BroadcastInv

\* handle_build_result ends early.
LEMMA AbortStep == ASSUME BroadcastInv, AbortRecording PROVE BroadcastInv'
<1>1. recording.step \in {"row", "file", "provide", "broadcast"}
  BY DEF AbortRecording, At
<1>2. recording.build \in BuildIds /\ Used(recording.build) /\ recording.artifact \in Nat
  BY <1>1, AtWork
<1>3. /\ BuildsOK' /\ EventsOK' /\ Kept
      /\ recording' = [build |-> recording.build, artifact |-> recording.artifact, step |-> "clean"]
      /\ \A c \in BuildIds : Artifacts(c)' = Artifacts(c)
  BY <1>2, GoOnStep DEF Steps, AbortRecording
<1>4. LedgerOK'
  BY <1>3, LedgerStays DEF AbortRecording, storeVars
<1>5. RecordingOK'
  BY <1>2, <1>3 DEF RecordingOK, At, Steps, Kept
<1> QED BY <1>3, <1>4, <1>5 DEF BroadcastInv

\* clean_up_build.
LEMMA CleanUpStep == ASSUME BroadcastInv, CleanUpBuild PROVE BroadcastInv'
<1>1. recording.build \in BuildIds /\ Used(recording.build)
  BY DEF CleanUpBuild, BroadcastInv, RecordingOK, At
<1>2. BuildsOK' /\ Kept
  <2>1. PICK d \in CleanedUp :
          build' = [build EXCEPT ![recording.build].stage = "recorded", ![recording.build].dir = d]
    BY Zenon DEF CleanUpBuild
  <2>2. d \in Dirs /\ "recorded" \in Stages \ {"unused"}
    BY CleanedUpFacts DEF Stages, Settled
  <2> QED BY <1>1, <2>1, <2>2, StageStep, Zenon DEF BroadcastInv
<1>3. EventsOK'
  BY <1>2 DEF CleanUpBuild, BroadcastInv, EventsOK, Kept
<1>4. \A b \in BuildIds : Used(b) => Artifacts(b)' = Artifacts(b)
  BY <1>2 DEF Kept, Artifacts, PackageOf
<1>5. LedgerOK'
  BY <1>2, <1>4 DEF CleanUpBuild, storeVars, BroadcastInv, LedgerOK, Kept, Done
<1>6. RecordingOK'
  BY DEF CleanUpBuild, RecordingOK, Idle, At, Steps
<1> QED BY <1>2, <1>3, <1>5, <1>6 DEF BroadcastInv

\* The process stops: what was being recorded stays as far as it had come.
LEMMA RestartStep == ASSUME BroadcastInv, Restart PROVE BroadcastInv'
<1>1. BuildsOK' /\ Kept
  BY DEF Restart, BroadcastInv, BuildsOK, Kept, Used, Stages, Settled
<1>2. EventsOK'
  BY DEF Restart, EventsOK
<1>3. \A b \in BuildIds : Used(b) => Artifacts(b)' = Artifacts(b)
  BY <1>1 DEF Kept, Artifacts, PackageOf
<1>4. LedgerOK'
  BY <1>1, <1>3 DEF Restart, storeVars, BroadcastInv, LedgerOK, Kept, Done
<1>5. RecordingOK'
  BY DEF Restart, RecordingOK, Idle, At, Steps
<1> QED BY <1>1, <1>2, <1>4, <1>5 DEF BroadcastInv

-----------------------------------------------------------------------------
LEMMA BroadcastInvHolds == Spec => []BroadcastInv
<1>1. Init => BroadcastInv
  <2> SUFFICES ASSUME Init PROVE BroadcastInv
    OBVIOUS
  <2>1. [request |-> "none", stage |-> "unused", dir |-> "none"]
          \in [request : Requests \cup {"none"}, stage : Stages, dir : Dirs]
    BY CleanedUpFacts DEF Stages
  <2>2. BuildsOK
    BY <2>1 DEF Init, BuildsOK, Used
  <2>3. EventsOK /\ RecordingOK /\ LedgerOK
    BY DEF Init, EventsOK, RecordingOK, LedgerOK, At, Idle, Steps
  <2> QED BY <2>2, <2>3 DEF BroadcastInv
<1>2. BroadcastInv /\ [Next]_vars => BroadcastInv'
  <2> SUFFICES ASSUME BroadcastInv, [Next]_vars PROVE BroadcastInv'
    OBVIOUS
  <2>1. CASE UNCHANGED vars
    BY <2>1 DEF vars, BroadcastInv, BuildsOK, EventsOK, RecordingOK, LedgerOK, Used, Done, At, Item,
                Artifacts, PackageOf
  <2>2. ASSUME NEW r \in Requests, RequestBuild(r) \/ StartBuild(r) PROVE BroadcastInv'
    BY <2>2, RequestSteps
  <2>3. ASSUME NEW r \in Requests, StartFails(r) \/ StartSucceeds(r) PROVE BroadcastInv'
    BY <2>3, RequestSteps, StartSucceedsStep
  <2>4. ASSUME NEW b \in BuildIds,
               DownloadFails(b) \/ Download(b) \/ HandleFailed(b) \/ HandleVerified(b) \/ HandleResult(b)
        PROVE  BroadcastInv'
    BY <2>4, LoopSteps, HandleResultStep
  <2>5. ASSUME NEW b \in BuildIds, Poll(b) PROVE BroadcastInv'
    BY <2>5, PollStep
  <2> QED BY <2>1, <2>2, <2>3, <2>4, <2>5, RowAndFileStep, ProvideStep, BroadcastStep, AbortStep,
             CleanUpStep, RestartStep DEF Next, LoopStep
<1> QED BY <1>1, <1>2, PTL DEF Spec

\* handle_build_result broadcasts only after its loop over the artifacts: for any
\* numbers of artifacts, and with every fault in every place, nothing of a package
\* is in the blockchain before all its artifacts are logged, stored and provided.
THEOREM BroadcastIsComplete == Spec => []BroadcastComplete
<1>1. BroadcastInv => BroadcastComplete
  BY Zenon DEF BroadcastInv, LedgerOK, BroadcastComplete, Done
<1> QED BY <1>1, BroadcastInvHolds, PTL

-----------------------------------------------------------------------------
(* Every build is waited for, and its directory removed                    *)

\* Per kind of event the stage of the build it is about.
StageAt == [Succeeded |-> "built", Failed |-> "failing", Result |-> "result"]

\* An event fits the stage of its build, and is the only one about it.
EventsFit ==
  /\ \A k \in 1 .. Len(events) :
       IF events[k][1] = "Start" THEN events[k][2] \in Requests
       ELSE build[events[k][2]].stage = StageAt[events[k][1]]
  /\ \A j, k \in 1 .. Len(events) :
       events[j][1] # "Start" /\ events[j][2] = events[k][2] => j = k

\* The build being recorded has its result, and no event is about it.
RecordingFits ==
  ~At("idle") =>
    /\ build[recording.build].stage = "result"
    /\ \A k \in 1 .. Len(events) : events[k][2] # recording.build

\* A build that has ended in the pipeline is being recorded, or there is its event.
EndedTracked ==
  \A b \in BuildIds :
    build[b].stage \in {"built", "failing", "result"} =>
      \/ ~At("idle") /\ recording.build = b
      \/ \E k \in 1 .. Len(events) : events[k][2] = b

\* BuildTracked is not inductive: it does not say which event waits, nor that the stage
\* of the build is the one the handler of that event expects.
TrackInv == EventsFit /\ RecordingFits /\ EndedTracked /\ DirectoriesRemoved

\* What the loop takes from its channel.
LEMMA TakenFacts ==
  ASSUME BroadcastInv, TrackInv, NEW kind \in Kinds, NEW id, LoopTakes(kind, id)
  PROVE  /\ At("idle")
         /\ events # <<>> /\ Len(events) \in Nat /\ 1 \in 1 .. Len(events)
         /\ events[1][1] = kind /\ events[1][2] = id
         /\ Tail(events) \in Seq(Kinds \X (Requests \cup BuildIds))
         /\ Len(Tail(events)) = Len(events) - 1
         /\ \A k \in 1 .. Len(events) - 1 :
              k + 1 \in 1 .. Len(events) /\ k + 1 # 1 /\ Tail(events)[k] = events[k + 1]
         /\ kind # "Start" => /\ id \in BuildIds
                              /\ build[id].stage = StageAt[kind]
                              /\ \A k \in 1 .. Len(events) - 1 : Tail(events)[k][2] # id
<1>1. /\ events \in Seq(Kinds \X (Requests \cup BuildIds)) /\ events # <<>>
      /\ Head(events) = <<kind, id>>
  BY DEF BroadcastInv, EventsOK, LoopTakes
<1>2. /\ Len(events) \in Nat /\ 1 \in 1 .. Len(events) /\ Head(events) = events[1]
      /\ Tail(events) \in Seq(Kinds \X (Requests \cup BuildIds))
      /\ Len(Tail(events)) = Len(events) - 1
      /\ \A k \in 1 .. Len(events) - 1 :
           k + 1 \in 1 .. Len(events) /\ k + 1 # 1 /\ Tail(events)[k] = events[k + 1]
  BY <1>1
<1>3. At("idle")
  BY DEF LoopTakes, Idle, At
<1>4. events[1][1] = kind /\ events[1][2] = id
  BY <1>1, <1>2
<1>5. ASSUME kind # "Start"
      PROVE  /\ id \in BuildIds
             /\ build[id].stage = StageAt[kind]
             /\ \A k \in 1 .. Len(events) - 1 : Tail(events)[k][2] # id
  <2>1. id \in BuildIds
    BY <1>2, <1>4, <1>5 DEF BroadcastInv, EventsOK
  <2>2. build[id].stage = StageAt[kind]
    BY <1>2, <1>4, <1>5 DEF TrackInv, EventsFit
  <2>3. \A k \in 1 .. Len(events) - 1 : Tail(events)[k][2] # id
    BY <1>2, <1>4, <1>5 DEF TrackInv, EventsFit
  <2> QED BY <2>1, <2>2, <2>3
<1> QED BY <1>1, <1>2, <1>3, <1>4, <1>5

\* The rest of the channel fits as before, when only build b has changed and none of the
\* events left is about it.
LEMMA TailFits ==
  ASSUME BroadcastInv, TrackInv, NEW kind \in Kinds, NEW id, LoopTakes(kind, id), NEW B \in SUBSET BuildIds,
         \A c \in BuildIds \ B : build'[c] = build[c],
         \A k \in 1 .. Len(events) - 1 : Tail(events)[k][2] \notin B,
         events' = Tail(events)
  PROVE  EventsFit'
<1>1. /\ Len(events) \in Nat /\ Len(events') = Len(events) - 1
      /\ \A k \in 1 .. Len(events') : k + 1 \in 1 .. Len(events) /\ events'[k] = events[k + 1]
                                      /\ events'[k][2] \notin B
  BY TakenFacts
<1>2. ASSUME NEW k \in 1 .. Len(events')
      PROVE  IF events'[k][1] = "Start" THEN events'[k][2] \in Requests
             ELSE build'[events'[k][2]].stage = StageAt[events'[k][1]]
  <2>1. k + 1 \in 1 .. Len(events) /\ events'[k] = events[k + 1] /\ events[k + 1][2] \notin B
    BY <1>1
  <2>2. IF events[k + 1][1] = "Start" THEN events[k + 1][2] \in Requests
        ELSE /\ events[k + 1][2] \in BuildIds
             /\ build[events[k + 1][2]].stage = StageAt[events[k + 1][1]]
    BY <2>1 DEF TrackInv, EventsFit, BroadcastInv, EventsOK
  <2> QED BY <2>1, <2>2
<1>3. ASSUME NEW j \in 1 .. Len(events'), NEW k \in 1 .. Len(events'),
             events'[j][1] # "Start", events'[j][2] = events'[k][2]
      PROVE  j = k
  <2>1. j + 1 = k + 1
    BY <1>1, <1>3 DEF TrackInv, EventsFit
  <2> QED BY <1>1, <2>1
<1> QED BY <1>2, <1>3, Zenon DEF EventsFit

\* The events of s fit the new stages of their builds, and none of them is about b.
FitBeside(s, b) ==
  /\ s \in Seq(Kinds \X (Requests \cup BuildIds))
  /\ \A k \in 1 .. Len(s) :
       /\ s[k][2] # b
       /\ IF s[k][1] = "Start" THEN s[k][2] \in Requests
          ELSE build'[s[k][2]].stage = StageAt[s[k][1]]
  /\ \A j, k \in 1 .. Len(s) : s[j][1] # "Start" /\ s[j][2] = s[k][2] => j = k

\* An event about b is added, when there was none about it.
LEMMA AddedFits ==
  ASSUME NEW s, NEW kind \in Kinds \ {"Start"}, NEW b \in BuildIds, FitBeside(s, b),
         build'[b].stage = StageAt[kind], events' = Append(s, <<kind, b>>)
  PROVE  EventsFit' /\ \E k \in 1 .. Len(events') : events'[k][2] = b
<1> USE DEF FitBeside
<1>1. <<kind, b>> \in Kinds \X (Requests \cup BuildIds)
  OBVIOUS
<1>2. /\ Len(s) \in Nat /\ Len(events') = Len(s) + 1 /\ Len(s) + 1 \in 1 .. Len(events')
      /\ \A k \in 1 .. Len(s) : events'[k] = s[k]
      /\ events'[Len(s) + 1] = <<kind, b>>
      /\ \A k \in 1 .. Len(events') : k \in 1 .. Len(s) \/ k = Len(s) + 1
  BY <1>1
<1>3. ASSUME NEW k \in 1 .. Len(events')
      PROVE  IF events'[k][1] = "Start" THEN events'[k][2] \in Requests
             ELSE build'[events'[k][2]].stage = StageAt[events'[k][1]]
  <2>1. CASE k = Len(s) + 1
    BY <1>2, <2>1
  <2>2. CASE k \in 1 .. Len(s)
    BY <1>2, <2>2
  <2> QED BY <1>2, <2>1, <2>2
<1>4. ASSUME NEW j \in 1 .. Len(events'), NEW k \in 1 .. Len(events'),
             events'[j][1] # "Start", events'[j][2] = events'[k][2]
      PROVE  j = k
  <2>1. CASE j \in 1 .. Len(s) /\ k \in 1 .. Len(s)
    BY <1>2, <1>4, <2>1
  <2>2. CASE j = Len(s) + 1 \/ k = Len(s) + 1
    BY <1>2, <1>4, <2>2
  <2> QED BY <1>2, <2>1, <2>2
<1> QED BY <1>2, <1>3, <1>4 DEF EventsFit

\* The loop takes the event of build b and settles it.
LEMMA SettleTracked ==
  ASSUME BroadcastInv, TrackInv, NEW kind \in Kinds \ {"Start"}, NEW b \in BuildIds, LoopTakes(kind, b),
         NEW s \in Settled, NEW d \in Dirs, d = "there" => build[b].dir = "there" /\ kind # "Result",
         build' = [build EXCEPT ![b].stage = s, ![b].dir = d],
         events' = Tail(events), UNCHANGED recording
  PROVE  TrackInv'
<1>1. /\ \A c \in BuildIds \ {b} : build'[c] = build[c]
      /\ build'[b].stage = s /\ build'[b].dir = d
  BY DEF BroadcastInv, BuildsOK
<1>2. At("idle") /\ At("idle")'
  BY TakenFacts DEF At
<1>3. EventsFit'
  <2>1. {b} \in SUBSET BuildIds /\ kind \in Kinds /\ \A c \in BuildIds \ {b} : build'[c] = build[c]
    BY <1>1, Zenon
  <2>2. \A k \in 1 .. Len(events) - 1 : Tail(events)[k][2] \notin {b}
    BY TakenFacts
  <2> QED BY <2>1, <2>2, TailFits, Zenon
<1>4. RecordingFits'
  BY <1>2 DEF RecordingFits
<1>5. EndedTracked'
  <2> SUFFICES ASSUME NEW c \in BuildIds, build'[c].stage \in {"built", "failing", "result"}
               PROVE  \E k \in 1 .. Len(events') : events'[k][2] = c
    BY <1>2 DEF EndedTracked
  <2>1. c # b /\ build[c].stage \in {"built", "failing", "result"}
    BY <1>1, Zenon DEF Settled
  <2>2. PICK k \in 1 .. Len(events) : events[k][2] = c
    BY <1>2, <2>1 DEF TrackInv, EndedTracked
  <2>3. k # 1 /\ k - 1 \in 1 .. Len(events')
    BY <2>1, <2>2, TakenFacts
  <2>4. events'[k - 1] = events[k]
    BY <2>3, TakenFacts
  <2> QED BY <2>2, <2>3, <2>4
<1>6. DirectoriesRemoved'
  <2>1. build[b].stage = StageAt[kind] /\ (build[b].dir = "there" => build[b].stage \in {"result", "lost"})
    BY TakenFacts DEF TrackInv, DirectoriesRemoved
  <2>2. kind # "Result" => StageAt[kind] \in {"built", "failing"}
    BY DEF StageAt, Kinds
  <2>3. d # "there"
    BY <2>1, <2>2
  <2> QED BY <1>1, <2>3, Zenon DEF TrackInv, DirectoriesRemoved
<1> QED BY <1>3, <1>4, <1>5, <1>6 DEF TrackInv

\* The loop takes the event of build b and sends itself the next one.
LEMMA ReplaceTracked ==
  ASSUME BroadcastInv, TrackInv, NEW b \in BuildIds, DownloadFails(b) \/ Download(b)
  PROVE  TrackInv'
<1>0. PICK kind \in {"Failed", "Result"} :
        /\ events' = Append(Tail(events), <<kind, b>>)
        /\ \A c \in BuildIds \ {b} : build'[c] = build[c]
        /\ build'[b].stage = StageAt[kind]
        /\ build'[b].dir = "there" => kind = "Result"
  <2>1. CASE DownloadFails(b)
    <3>1. PICK d \in CleanedUp : build' = [build EXCEPT ![b].stage = "failing", ![b].dir = d]
      BY <2>1, Zenon DEF DownloadFails
    <3>2. /\ \A c \in BuildIds \ {b} : build'[c] = build[c]
          /\ build'[b].stage = "failing" /\ build'[b].dir = d /\ d # "there"
      BY <3>1, CleanedUpFacts DEF BroadcastInv, BuildsOK
    <3> QED BY <2>1, <3>2, Zenon DEF DownloadFails, StageAt
  <2>2. CASE Download(b)
    <3>1. /\ \A c \in BuildIds \ {b} : build'[c] = build[c]
          /\ build'[b].stage = "result"
      BY <2>2 DEF Download, BroadcastInv, BuildsOK
    <3> QED BY <2>2, <3>1, Zenon DEF Download, StageAt
  <2> QED BY <2>1, <2>2
<1>1. LoopTakes("Succeeded", b) /\ UNCHANGED recording /\ "Succeeded" \in Kinds
  BY DEF DownloadFails, Download, Kinds
<1>2. At("idle") /\ At("idle")'
  BY <1>1, TakenFacts DEF At
<1>3. /\ Tail(events) \in Seq(Kinds \X (Requests \cup BuildIds)) /\ Len(events) \in Nat
      /\ Len(Tail(events)) = Len(events) - 1
      /\ \A k \in 1 .. Len(Tail(events)) :
           /\ k + 1 \in 1 .. Len(events) /\ k + 1 # 1 /\ Tail(events)[k] = events[k + 1]
           /\ Tail(events)[k][2] # b
      /\ build[b].stage = "built"
  BY <1>1, TakenFacts DEF StageAt
<1>4. ASSUME NEW k \in 1 .. Len(Tail(events))
      PROVE  IF Tail(events)[k][1] = "Start" THEN Tail(events)[k][2] \in Requests
             ELSE build'[Tail(events)[k][2]].stage = StageAt[Tail(events)[k][1]]
  <2>1. k + 1 \in 1 .. Len(events) /\ Tail(events)[k] = events[k + 1] /\ events[k + 1][2] # b
    BY <1>3
  <2>2. IF events[k + 1][1] = "Start" THEN events[k + 1][2] \in Requests
        ELSE /\ events[k + 1][2] \in BuildIds
             /\ build[events[k + 1][2]].stage = StageAt[events[k + 1][1]]
    BY <2>1 DEF TrackInv, EventsFit, BroadcastInv, EventsOK
  <2> QED BY <1>0, <2>1, <2>2
<1>5. ASSUME NEW j \in 1 .. Len(Tail(events)), NEW k \in 1 .. Len(Tail(events)),
             Tail(events)[j][1] # "Start", Tail(events)[j][2] = Tail(events)[k][2]
      PROVE  j = k
  <2>1. j + 1 = k + 1
    BY <1>3, <1>5 DEF TrackInv, EventsFit
  <2> QED BY <1>3, <2>1
<1>6. kind \in Kinds \ {"Start"}
  BY DEF Kinds
<1>7. EventsFit' /\ \E k \in 1 .. Len(events') : events'[k][2] = b
  <2>1. FitBeside(Tail(events), b)
    BY <1>3, <1>4, <1>5 DEF FitBeside
  <2>2. events' = Append(Tail(events), <<kind, b>>) /\ build'[b].stage = StageAt[kind]
    BY <1>0
  <2> QED BY <1>6, <2>1, <2>2, AddedFits, Zenon
<1>8. RecordingFits'
  BY <1>2 DEF RecordingFits
<1>9. EndedTracked'
  <2> SUFFICES ASSUME NEW c \in BuildIds, build'[c].stage \in {"built", "failing", "result"}
               PROVE  \E k \in 1 .. Len(events') : events'[k][2] = c
    BY <1>2 DEF EndedTracked
  <2>1. CASE c = b
    BY <1>7, <2>1
  <2>2. CASE c # b
    <3>1. build[c].stage \in {"built", "failing", "result"}
      BY <1>0, <2>2
    <3>2. PICK k \in 1 .. Len(events) : events[k][2] = c
      BY <1>2, <3>1 DEF TrackInv, EndedTracked
    <3>3. events[1][2] = b
      BY <1>1, TakenFacts
    <3>4. k - 1 \in 1 .. Len(Tail(events)) /\ Tail(events)[k - 1] = events[k]
      BY <1>3, <2>2, <3>2, <3>3
    <3>5. k - 1 \in 1 .. Len(events') /\ events'[k - 1] = events[k]
      BY <1>0, <1>3, <3>4
    <3> QED BY <3>2, <3>5
  <2> QED BY <2>1, <2>2
<1>10. DirectoriesRemoved'
  <2>1. build[b].dir # "there"
    BY <1>3 DEF TrackInv, DirectoriesRemoved
  <2>2. build'[b].dir = "there" => build'[b].stage = "result"
    BY <1>0, <2>1 DEF StageAt
  <2> QED BY <1>0, <2>2 DEF TrackInv, DirectoriesRemoved
<1> QED BY <1>7, <1>8, <1>9, <1>10 DEF TrackInv

\* Requests and pollers, and the start of a build.
LEMMA StartTracked ==
  ASSUME BroadcastInv, TrackInv, NEW r \in Requests,
         RequestBuild(r) \/ StartBuild(r) \/ StartFails(r) \/ StartSucceeds(r)
  PROVE  TrackInv'
<1>1. CASE RequestBuild(r)
  BY <1>1 DEF RequestBuild, TrackInv, EventsFit, RecordingFits, EndedTracked, DirectoriesRemoved, At
<1>2. CASE StartBuild(r)
  <2>1. /\ Len(events) \in Nat /\ Len(events') = Len(events) + 1
        /\ \A k \in 1 .. Len(events) : k \in 1 .. Len(events') /\ events'[k] = events[k]
        /\ events'[Len(events) + 1] = <<"Start", r>>
        /\ \A k \in 1 .. Len(events') : k \in 1 .. Len(events) \/ k = Len(events) + 1
    BY <1>2 DEF StartBuild, Put, BroadcastInv, EventsOK, Kinds
  <2>2. UNCHANGED build /\ UNCHANGED recording /\ r \notin BuildIds
    BY <1>2, BuildsAssumption DEF StartBuild
  <2>3. \A k \in 1 .. Len(events) : events[k][1] # "Start" => events[k][2] # r
    BY <2>2 DEF BroadcastInv, EventsOK
  <2>4. ASSUME NEW k \in 1 .. Len(events')
        PROVE  IF events'[k][1] = "Start" THEN events'[k][2] \in Requests
               ELSE build'[events'[k][2]].stage = StageAt[events'[k][1]]
    <3>1. CASE k = Len(events) + 1
      BY <2>1, <3>1
    <3>2. CASE k \in 1 .. Len(events)
      BY <2>1, <2>2, <3>2 DEF TrackInv, EventsFit
    <3> QED BY <2>1, <3>1, <3>2
  <2>5. ASSUME NEW j \in 1 .. Len(events'), NEW k \in 1 .. Len(events'),
               events'[j][1] # "Start", events'[j][2] = events'[k][2]
        PROVE  j = k
    <3>1. j \in 1 .. Len(events)
      BY <2>1, <2>5
    <3>2. CASE k \in 1 .. Len(events)
      BY <2>1, <2>5, <3>1, <3>2 DEF TrackInv, EventsFit
    <3>3. CASE k = Len(events) + 1
      BY <2>1, <2>3, <2>5, <3>1, <3>3
    <3> QED BY <2>1, <3>2, <3>3
  <2>6. RecordingFits'
    <3>1. ~At("idle") => recording.build # r
      BY <2>2 DEF BroadcastInv, RecordingOK
    <3> QED BY <2>1, <2>2, <3>1 DEF TrackInv, RecordingFits, At
  <2>7. EndedTracked' /\ DirectoriesRemoved'
    BY <2>1, <2>2 DEF TrackInv, EndedTracked, DirectoriesRemoved, At
  <2> QED BY <2>4, <2>5, <2>6, <2>7 DEF TrackInv, EventsFit
<1>3. CASE StartFails(r) \/ StartSucceeds(r)
  <2>1. LoopTakes("Start", r) /\ events' = Tail(events) /\ UNCHANGED recording /\ "Start" \in Kinds
    BY <1>3 DEF StartFails, StartSucceeds, Kinds
  <2>2. PICK B \in SUBSET BuildIds :
          /\ \A c \in BuildIds \ B : build'[c] = build[c]
          /\ \A c \in B : build[c].stage = "unused" /\ build'[c].stage = "running" /\ build'[c].dir # "there"
    <3>1. CASE StartFails(r)
      <4>1. {} \in SUBSET BuildIds /\ UNCHANGED build
        BY <3>1 DEF StartFails
      <4> QED BY <4>1, Zenon
    <3>2. CASE StartSucceeds(r)
      <4>1. PICK b \in BuildIds :
              /\ build[b].stage = "unused"
              /\ build' = [build EXCEPT ![b] = [request |-> r, stage |-> "running", dir |-> "none"]]
        BY <3>2, Zenon DEF StartSucceeds
      <4>2. {b} \in SUBSET BuildIds /\ build'[b].stage = "running" /\ build'[b].dir # "there"
            /\ \A c \in BuildIds \ {b} : build'[c] = build[c]
        BY <4>1 DEF BroadcastInv, BuildsOK
      <4> QED BY <4>1, <4>2, Zenon
    <3> QED BY <1>3, <3>1, <3>2
  <2>3. /\ At("idle") /\ At("idle")' /\ Len(events) \in Nat
        /\ events[1][2] = r /\ r \notin BuildIds
        /\ Len(events') = Len(events) - 1
        /\ \A k \in 1 .. Len(events') : k + 1 \in 1 .. Len(events) /\ events'[k] = events[k + 1]
    BY <2>1, TakenFacts, BuildsAssumption DEF At
  <2>4. \A k \in 1 .. Len(events) : events[k][2] \notin B
    <3> SUFFICES ASSUME NEW k \in 1 .. Len(events), events[k][2] \in B PROVE FALSE
      OBVIOUS
    <3>1. events[k][2] \in BuildIds /\ build[events[k][2]].stage = "unused"
      BY <2>2
    <3>2. CASE events[k][1] = "Start"
      BY <3>1, <3>2, BuildsAssumption, ZenonT(30) DEF TrackInv, EventsFit
    <3>3. CASE events[k][1] # "Start"
      BY <3>1, <3>3 DEF BroadcastInv, EventsOK, Used
    <3> QED BY <3>2, <3>3
  <2>5. EventsFit'
    <3>1. \A k \in 1 .. Len(events) - 1 : Tail(events)[k][2] \notin B
      BY <2>1, <2>3, <2>4
    <3> QED BY <2>1, <2>2, <3>1, TailFits, ZenonT(30)
  <2>6. RecordingFits'
    BY <2>3 DEF RecordingFits
  <2>7. EndedTracked'
    <3> SUFFICES ASSUME NEW c \in BuildIds, build'[c].stage \in {"built", "failing", "result"}
                 PROVE  \E k \in 1 .. Len(events') : events'[k][2] = c
      BY <2>3 DEF EndedTracked
    <3>1. build[c].stage \in {"built", "failing", "result"}
      BY <2>2
    <3>2. PICK k \in 1 .. Len(events) : events[k][2] = c
      BY <2>3, <3>1 DEF TrackInv, EndedTracked
    <3>3. k - 1 \in 1 .. Len(events') /\ events'[k - 1] = events[k]
      BY <2>3, <3>2
    <3> QED BY <3>2, <3>3
  <2>8. DirectoriesRemoved'
    BY <2>2 DEF TrackInv, DirectoriesRemoved
  <2> QED BY <2>5, <2>6, <2>7, <2>8 DEF TrackInv
<1> QED BY <1>1, <1>2, <1>3

\* A poller sends the only event about its build.
LEMMA PollTracked == ASSUME BroadcastInv, TrackInv, NEW b \in BuildIds, Poll(b) PROVE TrackInv'
<1>1. PICK kind \in {"Succeeded", "Failed"} :
        /\ build[b].stage = "running"
        /\ build' = [build EXCEPT ![b].stage = StageAt[kind]]
        /\ events' = Append(events, <<kind, b>>)
        /\ UNCHANGED recording
  BY DEF Poll, PollSuccess, PollFailure, SetStage, Put, StageAt
<1>2. /\ build'[b].stage = StageAt[kind] /\ build'[b].dir = build[b].dir
      /\ \A c \in BuildIds \ {b} : build'[c] = build[c]
  BY <1>1 DEF BroadcastInv, BuildsOK
<1>3. events \in Seq(Kinds \X (Requests \cup BuildIds)) /\ kind \in Kinds \ {"Start"}
  BY DEF BroadcastInv, EventsOK, Kinds
<1>4. ASSUME NEW k \in 1 .. Len(events)
      PROVE  /\ events[k][2] # b
             /\ IF events[k][1] = "Start" THEN events[k][2] \in Requests
                ELSE build'[events[k][2]].stage = StageAt[events[k][1]]
  <2>1. CASE events[k][1] = "Start"
    BY <2>1, BuildsAssumption DEF TrackInv, EventsFit
  <2>2. CASE events[k][1] # "Start"
    <3>1. events[k][2] \in BuildIds /\ build[events[k][2]].stage = StageAt[events[k][1]]
          /\ events[k][1] \in Kinds \ {"Start"}
      BY <1>3, <2>2 DEF TrackInv, EventsFit, BroadcastInv, EventsOK
    <3>2. StageAt[events[k][1]] # "running"
      BY <3>1 DEF StageAt, Kinds
    <3> QED BY <1>1, <1>2, <2>2, <3>1, <3>2
  <2> QED BY <2>1, <2>2
<1>5. \A j, k \in 1 .. Len(events) : events[j][1] # "Start" /\ events[j][2] = events[k][2] => j = k
  BY DEF TrackInv, EventsFit
<1>6. EventsFit' /\ \E k \in 1 .. Len(events') : events'[k][2] = b
  <2>1. FitBeside(events, b)
    BY <1>3, <1>4, <1>5, Zenon DEF FitBeside
  <2>2. events' = Append(events, <<kind, b>>) /\ build'[b].stage = StageAt[kind]
    BY <1>1, <1>2
  <2> QED BY <1>3, <2>1, <2>2, AddedFits, ZenonT(30)
<1>7. /\ Len(events) \in Nat /\ Len(events') = Len(events) + 1
      /\ \A k \in 1 .. Len(events) : k \in 1 .. Len(events') /\ events'[k] = events[k]
      /\ events'[Len(events) + 1][2] = b
      /\ \A k \in 1 .. Len(events') : k \in 1 .. Len(events) \/ k = Len(events) + 1
  BY <1>1, <1>3
<1>8. RecordingFits'
  <2>1. ~At("idle") => recording.build \in BuildIds \ {b}
    BY <1>1 DEF BroadcastInv, RecordingOK, TrackInv, RecordingFits
  <2> QED BY <1>1, <1>2, <1>7, <2>1 DEF TrackInv, RecordingFits, At
<1>9. EndedTracked'
  BY <1>1, <1>2, <1>6, <1>7 DEF TrackInv, EndedTracked, At
<1>10. DirectoriesRemoved'
  BY <1>1, <1>2 DEF TrackInv, DirectoriesRemoved
<1> QED BY <1>6, <1>8, <1>9, <1>10 DEF TrackInv

\* handle_build_result begins: the event gives way to the recording.
LEMMA ResultTracked == ASSUME BroadcastInv, TrackInv, NEW b \in BuildIds, HandleResult(b) PROVE TrackInv'
<1>1. /\ LoopTakes("Result", b) /\ events' = Tail(events) /\ UNCHANGED build /\ "Result" \in Kinds
      /\ ~At("idle")' /\ recording'.build = b
  BY DEF HandleResult, At, Kinds
<1>2. /\ At("idle") /\ Len(events) \in Nat /\ Len(events') = Len(events) - 1
      /\ events[1][2] = b
      /\ build[b].stage = "result"
      /\ \A k \in 1 .. Len(events') : events'[k][2] # b
      /\ \A k \in 1 .. Len(events') : k + 1 \in 1 .. Len(events) /\ events'[k] = events[k + 1]
  BY <1>1, TakenFacts, ZenonT(30) DEF StageAt
<1>3. EventsFit'
  <2>1. {} \in SUBSET BuildIds /\ \A k \in 1 .. Len(events) - 1 : Tail(events)[k][2] \notin {}
    OBVIOUS
  <2>2. \A c \in BuildIds \ {} : build'[c] = build[c]
    BY <1>1
  <2> QED BY <1>1, <2>1, <2>2, TailFits, Zenon
<1>4. RecordingFits'
  BY <1>1, <1>2 DEF RecordingFits
<1>5. EndedTracked'
  <2> SUFFICES ASSUME NEW c \in BuildIds \ {b}, build[c].stage \in {"built", "failing", "result"}
               PROVE  \E k \in 1 .. Len(events') : events'[k][2] = c
    BY <1>1 DEF EndedTracked
  <2>1. PICK k \in 1 .. Len(events) : events[k][2] = c
    BY <1>2 DEF TrackInv, EndedTracked
  <2>2. k - 1 \in 1 .. Len(events') /\ events'[k - 1] = events[k]
    BY <1>2, <2>1
  <2> QED BY <2>1, <2>2
<1>6. DirectoriesRemoved'
  BY <1>1 DEF TrackInv, DirectoriesRemoved
<1> QED BY <1>3, <1>4, <1>5, <1>6 DEF TrackInv

\* The recording goes on, and is cleaned up.
LEMMA RecordingTracked ==
  ASSUME BroadcastInv, TrackInv,
         \/ AddArtifact \/ PutArtifact \/ ProvideArtifact \/ BroadcastArtifact \/ AbortRecording
         \/ CleanUpBuild
  PROVE  TrackInv'
<1>1. CASE AddArtifact \/ PutArtifact \/ ProvideArtifact \/ BroadcastArtifact \/ AbortRecording
  <2>1. /\ ~At("idle") /\ UNCHANGED events /\ UNCHANGED build
        /\ ~At("idle")' /\ recording'.build = recording.build
    BY <1>1, Zenon DEF AddArtifact, PutArtifact, ProvideArtifact, BroadcastArtifact, AbortRecording,
       GoOn, At, BroadcastInv, RecordingOK
  <2> QED BY <2>1 DEF TrackInv, EventsFit, RecordingFits, EndedTracked, DirectoriesRemoved
<1>2. CASE CleanUpBuild
  <2> DEFINE b == recording.build
  <2>1. /\ ~At("idle") /\ b \in BuildIds /\ UNCHANGED events /\ At("idle")'
    BY <1>2 DEF CleanUpBuild, At, Idle, BroadcastInv, RecordingOK
  <2>2. /\ build'[b].stage = "recorded" /\ build'[b].dir # "there"
        /\ \A c \in BuildIds \ {b} : build'[c] = build[c]
    <3>1. PICK d \in CleanedUp : build' = [build EXCEPT ![b].stage = "recorded", ![b].dir = d]
      BY <1>2, Zenon DEF CleanUpBuild
    <3> HIDE DEF b
    <3> QED BY <2>1, <3>1, CleanedUpFacts DEF BroadcastInv, BuildsOK
  <2>3. \A k \in 1 .. Len(events) : events[k][2] # b
    BY <2>1 DEF TrackInv, RecordingFits
  <2>4. \A k \in 1 .. Len(events) : events[k][1] # "Start" => events[k][2] \in BuildIds \ {b}
    BY <2>3 DEF BroadcastInv, EventsOK
  <2>5. EventsFit'
    BY <2>1, <2>2, <2>4 DEF TrackInv, EventsFit
  <2>6. RecordingFits'
    BY <2>1 DEF RecordingFits
  <2>7. EndedTracked'
    BY <2>1, <2>2 DEF TrackInv, EndedTracked
  <2>8. DirectoriesRemoved'
    BY <2>2 DEF TrackInv, DirectoriesRemoved
  <2> QED BY <2>5, <2>6, <2>7, <2>8 DEF TrackInv
<1> QED BY <1>1, <1>2

\* The process stops: the events are gone, and the builds they were about are lost.
LEMMA RestartTracked == ASSUME BroadcastInv, TrackInv, Restart PROVE TrackInv'
<1>1. Len(events') = 0 /\ At("idle")'
  BY DEF Restart, At, Idle
<1>2. \A b \in BuildIds :
        IF build[b].stage \in {"running", "built", "failing", "result"}
        THEN build'[b].stage = "lost" ELSE build'[b] = build[b]
  BY DEF Restart, BroadcastInv, BuildsOK
<1>3. \A b \in BuildIds : build'[b].stage \notin {"built", "failing", "result"}
  BY <1>2
<1>4. DirectoriesRemoved'
  BY <1>2 DEF TrackInv, DirectoriesRemoved
<1> QED BY <1>1, <1>3, <1>4 DEF TrackInv, EventsFit, RecordingFits, EndedTracked

LEMMA TrackInvHolds == Spec => []TrackInv
<1>1. Init => TrackInv
  <2> SUFFICES ASSUME Init PROVE TrackInv
    OBVIOUS
  <2>1. Len(events) = 0 /\ At("idle") /\ \A b \in BuildIds : build[b].stage = "unused" /\ build[b].dir # "there"
    BY DEF Init, At, Idle
  <2> QED BY <2>1 DEF TrackInv, EventsFit, RecordingFits, EndedTracked, DirectoriesRemoved
<1>2. BroadcastInv /\ TrackInv /\ [Next]_vars => TrackInv'
  <2> SUFFICES ASSUME BroadcastInv, TrackInv, [Next]_vars PROVE TrackInv'
    OBVIOUS
  <2>1. CASE UNCHANGED vars
    BY <2>1 DEF vars, TrackInv, EventsFit, RecordingFits, EndedTracked, DirectoriesRemoved, At
  <2>2. ASSUME NEW b \in BuildIds, HandleFailed(b) \/ HandleVerified(b) PROVE TrackInv'
    <3>1. CASE HandleFailed(b)
      <4>1. build' = [build EXCEPT ![b].stage = "failed", ![b].dir = build[b].dir]
        BY <3>1, Zenon DEF HandleFailed, SetStage, BroadcastInv, BuildsOK
      <4>2. build[b].dir \in Dirs
        BY DEF BroadcastInv, BuildsOK
      <4>3. /\ LoopTakes("Failed", b) /\ events' = Tail(events) /\ UNCHANGED recording
            /\ "Failed" \in Kinds \ {"Start"} /\ "failed" \in Settled
        BY <3>1 DEF HandleFailed, Settled, Kinds
      <4>4. build[b].dir = "there" => build[b].dir = "there" /\ "Failed" # "Result"
        OBVIOUS
      <4> QED BY <4>1, <4>2, <4>3, <4>4, SettleTracked, Zenon
    <3>2. CASE HandleVerified(b)
      <4>1. PICK d \in CleanedUp : build' = [build EXCEPT ![b].stage = "verified", ![b].dir = d]
        BY <3>2, Zenon DEF HandleVerified
      <4>2. d \in Dirs /\ d # "there"
        BY CleanedUpFacts
      <4>3. /\ LoopTakes("Result", b) /\ events' = Tail(events) /\ UNCHANGED recording
            /\ "Result" \in Kinds \ {"Start"} /\ "verified" \in Settled
        BY <3>2 DEF HandleVerified, Settled, Kinds
      <4> QED BY <4>1, <4>2, <4>3, SettleTracked, Zenon
    <3> QED BY <2>2, <3>1, <3>2
  <2> QED BY <2>1, <2>2, StartTracked, PollTracked, ReplaceTracked, ResultTracked, RecordingTracked,
             RestartTracked DEF Next, LoopStep
<1> QED BY <1>1, <1>2, BroadcastInvHolds, PTL DEF Spec

\* clean_up_build is reached on every path through handle_successful_build and the
\* handlers of its result: for any requests and faults, a build that ends leaves no
\* directory behind, unless the process stops or the removal itself fails.
THEOREM DirectoriesAreRemoved == Spec => []DirectoriesRemoved
<1>1. TrackInv => DirectoriesRemoved
  BY DEF TrackInv
<1> QED BY <1>1, TrackInvHolds, PTL

\* The pollers and handlers of the build loop send one event each: for any requests and
\* faults, a build that has ended in the pipeline has exactly one event in the channel,
\* or is being recorded.
THEOREM BuildsAreTracked == Spec => []BuildTracked
<1>1. BroadcastInv /\ TrackInv => BuildTracked
  <2> SUFFICES ASSUME BroadcastInv, TrackInv, NEW b \in BuildIds,
                      build[b].stage \in {"built", "failing", "result"}, recording.build # b
               PROVE  Cardinality({k \in 1 .. Len(events) : events[k][2] = b}) = 1
    BY DEF BuildTracked
  <2>1. PICK j \in 1 .. Len(events) : events[j][2] = b
    BY DEF TrackInv, EndedTracked
  <2>2. events[j][1] # "Start"
    BY <2>1, BuildsAssumption DEF TrackInv, EventsFit
  <2>3. {k \in 1 .. Len(events) : events[k][2] = b} = {j}
    BY <2>1, <2>2 DEF TrackInv, EventsFit
  <2> QED BY <2>3, FS_Singleton, Zenon
<1> QED BY <1>1, BroadcastInvHolds, TrackInvHolds, PTL
=============================================================================
