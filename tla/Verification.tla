---------------------------- MODULE Verification ----------------------------
(***************************************************************************)
(* The verification service of an authorized node: it collects the          *)
(* transactions of a package, one per artifact, has the package built again *)
(* and answers each transaction with what the build gave.                   *)
(*                                                                         *)
(* The build event client and the builds themselves are external here: a    *)
(* build starts or not, and ends in a result or in an error.                *)
(***************************************************************************)
EXTENDS Naturals, Sequences, FiniteSets, Functions

CONSTANTS
  Packages,
  Artifacts,      \* artifact ids; each package has the same ones
  Hashes,
  Submissions,    \* calls of verify_transaction
  Transaction,    \* per call its transaction: package, artifact, hash, num, kind
  BuildIds,       \* bound: the builds that can be started
  CanRefuse       \* whether the build event client may return an error

\* Kinds of payloads: what the service can verify, another operation, and what
\* does not parse.
Kinds == {"AddArtifact", "OtherOperation", "Garbage"}

\* What the proofs assume of the constants.
Transactions ==
  Transaction \in [Submissions -> [package : Packages, artifact : Artifacts, hash : Hashes,
                                   num : Nat \ {0}, kind : Kinds]]

VARIABLES
  answer,     \* per call the state of its sender, or the answer
  pending,    \* pending_info: per package the calls collected
  verifying,  \* verifying_info: per active build the calls it is to verify
  result      \* per build what it gave: a hash per artifact it made

vars == <<answer, pending, verifying, result>>

Nothing == <<>>
Answers == {"ok", "non_matching_hash", "not_found", "build_failed", "refused", "dropped"}

Init ==
  /\ answer = [s \in Submissions |-> "unsent"]
  /\ pending = [p \in Packages |-> <<>>]
  /\ verifying = <<>>
  /\ result = <<>>

Free == BuildIds \ (DOMAIN verifying \cup DOMAIN result)

\* The senders of the calls of a sequence get an answer, or are dropped.
AnswerAll(infos, verdict) ==
  answer' = [s \in Submissions |-> IF s \in Range(infos) THEN verdict[s] ELSE answer[s]]

\* verify_transaction of another payload: an error, and the sender is dropped.
RefuseTransaction(s) ==
  /\ answer[s] = "unsent"
  /\ Transaction[s].kind # "AddArtifact"
  /\ answer' = [answer EXCEPT ![s] = "refused"]
  /\ UNCHANGED <<pending, verifying, result>>

Collected(s) == Append(pending[Transaction[s].package], s)

IsLast(s) == Len(Collected(s)) = Transaction[s].num

\* The first part of verify_add_artifact.
CollectTransaction(s) ==
  /\ answer[s] = "unsent"
  /\ Transaction[s].kind = "AddArtifact"
  /\ ~IsLast(s)
  /\ answer' = [answer EXCEPT ![s] = "waiting"]
  /\ pending' = [pending EXCEPT ![Transaction[s].package] = Collected(s)]
  /\ UNCHANGED <<verifying, result>>

\* The last transaction of a package: its build is started, and the collected
\* transactions move to verifying_info under the id of the build.
StartVerification(s) ==
  /\ answer[s] = "unsent"
  /\ Transaction[s].kind = "AddArtifact"
  /\ IsLast(s)
  /\ \E b \in Free : verifying' = [x \in DOMAIN verifying \cup {b} |->
                                    IF x = b THEN Collected(s) ELSE verifying[x]]
  /\ answer' = [answer EXCEPT ![s] = "waiting"]
  /\ pending' = [pending EXCEPT ![Transaction[s].package] = <<>>]
  /\ UNCHANGED result

\* The ? after verify_build: what was collected is removed and dropped.
StartRefused(s) ==
  /\ CanRefuse
  /\ answer[s] = "unsent"
  /\ Transaction[s].kind = "AddArtifact"
  /\ IsLast(s)
  /\ AnswerAll(Collected(s), [t \in Submissions |-> "dropped"])
  /\ pending' = [pending EXCEPT ![Transaction[s].package] = <<>>]
  /\ UNCHANGED <<verifying, result>>

\* verifying_info.remove
Forget(b) == verifying' = Restrict(verifying, DOMAIN verifying \ {b})

\* handle_build_failed.
HandleBuildFailed(b) ==
  /\ b \in DOMAIN verifying
  /\ AnswerAll(verifying[b], [s \in Submissions |-> "build_failed"])
  /\ Forget(b)
  /\ result' = [x \in DOMAIN result \cup {b} |-> IF x = b THEN Nothing ELSE result[x]]
  /\ UNCHANGED pending

\* The answer to a transaction when the build gave the artifacts made.
Verdict(s, made) ==
  IF Transaction[s].artifact \notin DOMAIN made THEN "not_found"
  ELSE IF made[Transaction[s].artifact] = Transaction[s].hash THEN "ok"
  ELSE "non_matching_hash"

\* handle_build_result, for a build that gave some artifacts with some hashes.
HandleBuildResult(b) ==
  /\ b \in DOMAIN verifying
  /\ \E as \in SUBSET Artifacts : \E made \in [as -> Hashes] :
       /\ AnswerAll(verifying[b], [s \in Submissions |-> Verdict(s, made)])
       /\ result' = [x \in DOMAIN result \cup {b} |-> IF x = b THEN made ELSE result[x]]
  /\ Forget(b)
  /\ UNCHANGED pending

Verify(s) == RefuseTransaction(s) \/ CollectTransaction(s) \/ StartVerification(s) \/ StartRefused(s)
BuildEnds(b) == HandleBuildFailed(b) \/ HandleBuildResult(b)

Next == (\E s \in Submissions : Verify(s)) \/ (\E b \in BuildIds : BuildEnds(b))

Spec == Init /\ [][Next]_vars

\* Every build ends: the pipeline ends it, or its poller gets an error.
FairSpec == Spec /\ \A b \in BuildIds : WF_vars(BuildEnds(b))

-----------------------------------------------------------------------------
(* Properties                                                              *)

TypeOK ==
  /\ answer \in [Submissions -> {"unsent", "waiting"} \cup Answers]
  /\ pending \in [Packages -> Seq(Submissions)]
  /\ \A b \in DOMAIN verifying : b \in BuildIds /\ verifying[b] \in Seq(Submissions)
  /\ \A b \in DOMAIN result : DOMAIN result[b] \subseteq Artifacts /\ b \notin DOMAIN verifying

\* A sender is dropped by no accident: a call that waits is kept exactly once,
\* in pending_info or for one active build, and no other call is kept.
WaitingKeptOnce ==
  \A s \in Submissions :
    Cardinality({p \in Packages : s \in Range(pending[p])})
      + Cardinality({b \in DOMAIN verifying : s \in Range(verifying[b])})
    = IF answer[s] = "waiting" THEN 1 ELSE 0

\* The oneshot sender of a call is used once: a call that was answered, refused or
\* dropped is never answered again, whatever is collected or built afterwards.
AnsweredOnce ==
  [][\A s \in Submissions : answer[s] \in Answers => answer'[s] = answer[s]]_vars

\* A transaction is confirmed only when some finished build gave its artifact
\* with its hash.
ConfirmedWasBuilt ==
  \A s \in Submissions : answer[s] = "ok" =>
    \E b \in DOMAIN result :
      /\ Transaction[s].artifact \in DOMAIN result[b]
      /\ result[b][Transaction[s].artifact] = Transaction[s].hash

\* "When all verification info for a single package has been collected, a build
\* will be started": a build verifies all artifacts of its package.
VerifiesWholePackage ==
  \A b \in DOMAIN verifying : \A s \in Range(verifying[b]) :
    Cardinality({Transaction[t].artifact : t \in Range(verifying[b])}) = Transaction[s].num

\* Every transaction whose build was started is answered.
StartedIsAnswered ==
  \A s \in Submissions :
    (\E b \in DOMAIN verifying : s \in Range(verifying[b])) ~> answer[s] \in Answers
=============================================================================
