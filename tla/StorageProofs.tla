--------------------------- MODULE StorageProofs ----------------------------
(***************************************************************************)
(* Proofs about what is read back as it was stored or sent: the artifacts  *)
(* of a node (Artifacts) and, as instances with variables of their own, the*)
(* configuration file of the command line client (CliConfig), the messages *)
(* of the request-response protocols (Codecs) and the key file of a node   *)
(* (NodeStart).                                                            *)
(***************************************************************************)
EXTENDS Artifacts, Sequences, Integers, TLAPS

\* A leaf without a pragma is tried with Z3, then with Zenon.
USE SMTT(30), ZenonT(30)

-----------------------------------------------------------------------------
(***************************************************************************)
(* Artifacts: for any nodes, loads and concurrent calls, and whatever      *)
(* requests and copies fail and nodes stop.                                *)
(***************************************************************************)

-----------------------------------------------------------------------------
(* The invariant                                                           *)

CallStages ==
  {"new", "find", "choose", "request", "put", "write", "reread", "verify", "served", "error"}

Calls == [stage : CallStages, asked : SUBSET Nodes, idle : SUBSET Nodes, peer : Nodes \cup {"none"},
          data : {"none", "part", "whole"}]

TypeInv ==
  /\ file \in [Nodes -> {"none", "part", "whole"}]
  /\ building \in {"create", "write", "provide", "done", "failed"}
  /\ providers \subseteq Nodes
  /\ get \in [Gets -> Calls]

\* What is known of a call by itself.
CallOK(c) ==
  /\ c.stage = "request" =>
       /\ c.peer \in Nodes
       /\ \/ Load[c.peer] < Threshold
          \/ c.asked = {} /\ \A x \in c.idle : Load[c.peer] <= Load[x]
  /\ c.stage \in {"put", "write", "verify"} => c.data # "none"
  /\ \A x \in c.idle : Threshold <= Load[x]

\* A call that has found no provider.
EarlyCall(c) ==
  /\ c.stage \in {"new", "find", "choose", "verify", "served", "error"}
  /\ c.asked = {} /\ c.idle = {}

\* A file is written by one call, and only after that call created it.
WriteInv ==
  /\ \A t \in Gets : get[t].stage = "write" => file[Home[t]] = "part"
  /\ \A t \in Gets : get[t].stage = "reread" => file[Home[t]] # "none"
  /\ \A t, u \in Gets :
       get[t].stage = "write" /\ get[u].stage = "write" /\ Home[t] = Home[u] => t = u

\* Before the builder has stored the artifact there is nothing of it elsewhere.
EarlyInv ==
  building \in {"create", "write"} =>
    /\ providers = {}
    /\ \A t \in Gets : EarlyCall(get[t])
    /\ \A n \in Nodes : file[n] = (IF n = Builder /\ building = "write" THEN "part" ELSE "none")

LateInv == building \in {"provide", "done"} => file[Builder] = "whole"

ProviderInv ==
  /\ providers \subseteq stopped \cup {Builder}
  /\ Builder \in providers => building = "done" \/ Builder \in stopped

ArtInv ==
  TypeInv /\ (\A t \in Gets : CallOK(get[t])) /\ WriteInv /\ EarlyInv /\ LateInv /\ ProviderInv

-----------------------------------------------------------------------------
(* Moves of one call                                                       *)

\* Call t alone has become c.
Becomes(t, c) == get' = [get EXCEPT ![t] = c]

LEMMA BecomesFacts ==
  ASSUME TypeInv, NEW t \in Gets, NEW c \in Calls, Becomes(t, c)
  PROVE  /\ get' \in [Gets -> Calls]
         /\ get'[t] = c
         /\ \A u \in Gets : u # t => get'[u] = get[u]
BY DEF TypeInv, Becomes

LEMMA GotoFacts ==
  ASSUME TypeInv, NEW t \in Gets, NEW s \in CallStages, Goto(t, s)
  PROVE  \E c \in Calls : /\ Becomes(t, c) /\ c.stage = s
                          /\ c.asked = get[t].asked /\ c.idle = get[t].idle
                          /\ c.peer = get[t].peer /\ c.data = get[t].data
<1> DEFINE c == [get[t] EXCEPT !.stage = s]
<1>1. get[t] \in Calls
  BY DEF TypeInv
<1>2. /\ c \in Calls /\ c.stage = s
      /\ c.asked = get[t].asked /\ c.idle = get[t].idle
      /\ c.peer = get[t].peer /\ c.data = get[t].data
  BY <1>1 DEF Calls
<1>3. Becomes(t, c)
  BY DEF Goto, Becomes
<1> QED BY <1>2, <1>3, Zenon

LEMMA GotoWithFacts ==
  ASSUME TypeInv, NEW t \in Gets, NEW s \in CallStages, NEW d \in {"none", "part", "whole"},
         GotoWith(t, s, d)
  PROVE  \E c \in Calls : /\ Becomes(t, c) /\ c.stage = s
                          /\ c.asked = get[t].asked /\ c.idle = get[t].idle
                          /\ c.peer = get[t].peer /\ c.data = d
<1> DEFINE c == [get[t] EXCEPT !.stage = s, !.data = d]
<1>1. get[t] \in Calls
  BY DEF TypeInv
<1>2. /\ c \in Calls /\ c.stage = s
      /\ c.asked = get[t].asked /\ c.idle = get[t].idle
      /\ c.peer = get[t].peer /\ c.data = d
  BY <1>1, Zenon DEF Calls
<1>3. Becomes(t, c)
  BY Zenon DEF GotoWith, Becomes
<1> QED BY <1>2, <1>3, Zenon

LEMMA FreshFacts ==
  /\ Fresh \in Calls /\ CallOK(Fresh) /\ EarlyCall(Fresh) /\ Fresh.stage = "new"
  /\ Fresh.asked = {} /\ Fresh.idle = {}
<1>1. Fresh \in Calls /\ Fresh.stage = "new" /\ Fresh.asked = {} /\ Fresh.idle = {}
  BY DEF Fresh, Calls, CallStages
<1> QED BY <1>1 DEF CallOK, EarlyCall

\* A call that moves on while the files and the providers stay as they are.
LEMMA QuietMove ==
  ASSUME ArtInv, NEW t \in Gets, NEW c \in Calls, Becomes(t, c),
         UNCHANGED <<file, building, providers, stopped>>,
         CallOK(c), c.stage \notin {"write", "reread"},
         building \in {"create", "write"} => EarlyCall(c)
  PROVE  ArtInv'
<1>1. /\ get' \in [Gets -> Calls]
      /\ get'[t] = c
      /\ \A u \in Gets : u # t => get'[u] = get[u]
  BY BecomesFacts DEF ArtInv
<1>2. TypeInv'
  BY <1>1 DEF ArtInv, TypeInv
<1>3. \A u \in Gets : CallOK(get'[u])
  BY <1>1 DEF ArtInv
<1>4. WriteInv'
  BY <1>1 DEF ArtInv, WriteInv
<1>5. EarlyInv'
  BY <1>1 DEF ArtInv, EarlyInv
<1>6. LateInv' /\ ProviderInv'
  BY DEF ArtInv, LateInv, ProviderInv
<1>7. (\A u \in Gets : CallOK(get[u]))'
  BY <1>3 DEF CallOK
<1> QED BY <1>2, <1>4, <1>5, <1>6, <1>7 DEF ArtInv

\* An error ends a call at any stage.
LEMMA ErrorMove ==
  ASSUME ArtInv, NEW t \in Gets, Goto(t, "error"), UNCHANGED <<file, building, providers, stopped>>
  PROVE  ArtInv'
<1>1. PICK c \in Calls : /\ Becomes(t, c) /\ c.stage = "error"
                         /\ c.asked = get[t].asked /\ c.idle = get[t].idle
  BY GotoFacts DEF ArtInv, CallStages
<1>2. CallOK(get[t]) /\ (building \in {"create", "write"} => EarlyCall(get[t]))
  BY DEF ArtInv, EarlyInv
<1>3. CallOK(c)
  BY <1>1, <1>2 DEF CallOK
<1>4. building \in {"create", "write"} => EarlyCall(c)
  BY <1>1, <1>2 DEF EarlyCall
<1> QED BY <1>1, <1>3, <1>4, QuietMove

-----------------------------------------------------------------------------
(* The actions of a call                                                   *)

LEMMA ReadLocallyKeeps ==
  ASSUME ArtInv, NEW t \in Gets, ReadLocally(t)
  PROVE  ArtInv'
<1>1. CallOK(get[t]) /\ (building \in {"create", "write"} => EarlyCall(get[t]))
  BY DEF ArtInv, EarlyInv
<1>2. file[Home[t]] \in {"none", "part", "whole"}
  BY ArtifactsAssumption DEF ArtInv, TypeInv
<1>3. UNCHANGED <<file, building, providers, stopped>>
  BY DEF ReadLocally
<1>4. CASE file[Home[t]] = "none"
  <2>1. PICK c \in Calls : /\ Becomes(t, c) /\ c.stage = "find"
                           /\ c.asked = get[t].asked /\ c.idle = get[t].idle
    BY <1>4, GotoFacts DEF ReadLocally, ArtInv, CallStages
  <2>2. CallOK(c)
    BY <1>1, <2>1 DEF CallOK
  <2>3. building \in {"create", "write"} => EarlyCall(c)
    BY <1>1, <2>1 DEF EarlyCall
  <2> QED BY <1>3, <2>1, <2>2, <2>3, QuietMove
<1>5. CASE file[Home[t]] # "none"
  <2>1. PICK c \in Calls : /\ Becomes(t, c) /\ c.stage = "verify" /\ c.data = file[Home[t]]
                           /\ c.asked = get[t].asked /\ c.idle = get[t].idle
    BY <1>2, <1>5, GotoWithFacts DEF ReadLocally, ArtInv, CallStages
  <2>2. CallOK(c)
    BY <1>1, <1>5, <2>1 DEF CallOK
  <2>3. building \in {"create", "write"} => EarlyCall(c)
    BY <1>1, <2>1 DEF EarlyCall
  <2> QED BY <1>3, <2>1, <2>2, <2>3, QuietMove
<1> QED BY <1>4, <1>5

LEMMA ListProvidersKeeps ==
  ASSUME ArtInv, NEW t \in Gets, ListProviders(t)
  PROVE  ArtInv'
<1>1. PICK S \in SUBSET providers : get' = [get EXCEPT ![t].stage = "choose", ![t].asked = S]
  BY Zenon DEF ListProviders
<1> DEFINE c == [get[t] EXCEPT !.stage = "choose", !.asked = S]
<1>2. get[t] \in Calls /\ S \subseteq Nodes
  BY DEF ArtInv, TypeInv
<1>3. c \in Calls /\ c.stage = "choose" /\ c.asked = S /\ c.idle = get[t].idle
  BY <1>2, Zenon DEF Calls, CallStages
<1>4. Becomes(t, c)
  BY <1>1, Zenon DEF Becomes
<1> HIDE DEF c
<1>5. CallOK(get[t]) /\ (building \in {"create", "write"} => EarlyCall(get[t]) /\ providers = {})
  BY DEF ArtInv, EarlyInv
<1>6. CallOK(c)
  BY <1>3, <1>5 DEF CallOK
<1>7. building \in {"create", "write"} => EarlyCall(c)
  BY <1>1, <1>3, <1>5 DEF EarlyCall
<1>8. UNCHANGED <<file, building, providers, stopped>>
  BY DEF ListProviders
<1> QED BY <1>3, <1>4, <1>6, <1>7, <1>8, QuietMove

LEMMA AskIdleKeeps ==
  ASSUME ArtInv, NEW t \in Gets, AskIdle(t)
  PROVE  ArtInv'
<1>1. PICK x \in get[t].asked :
         IF Load[x] < Threshold
         THEN get' = [get EXCEPT ![t].stage = "request", ![t].asked = @ \ {x}, ![t].peer = x]
         ELSE get' = [get EXCEPT ![t].asked = @ \ {x}, ![t].idle = @ \cup {x}]
  BY Zenon DEF AskIdle
<1>2. get[t] \in Calls /\ get[t].stage = "choose"
  BY DEF ArtInv, TypeInv, AskIdle
<1>3. get[t].asked \subseteq Nodes /\ get[t].idle \subseteq Nodes /\ x \in Nodes
  BY <1>2 DEF Calls
<1>4. CallOK(get[t]) /\ building \notin {"create", "write"}
  BY <1>1 DEF ArtInv, EarlyInv, EarlyCall
<1>5. UNCHANGED <<file, building, providers, stopped>>
  BY DEF AskIdle
<1>6. CASE Load[x] < Threshold
  <2> DEFINE c == [get[t] EXCEPT !.stage = "request", !.asked = @ \ {x}, !.peer = x]
  <2>1. c \in Calls /\ c.stage = "request" /\ c.peer = x /\ c.idle = get[t].idle
    BY <1>2, <1>3, Zenon DEF Calls, CallStages
  <2>2. Becomes(t, c)
    BY <1>1, <1>6, Zenon DEF Becomes
  <2> HIDE DEF c
  <2>3. CallOK(c)
    BY <1>3, <1>4, <1>6, <2>1 DEF CallOK
  <2> QED BY <1>4, <1>5, <2>1, <2>2, <2>3, QuietMove
<1>7. CASE ~(Load[x] < Threshold)
  <2> DEFINE c == [get[t] EXCEPT !.asked = @ \ {x}, !.idle = @ \cup {x}]
  <2>1. c \in Calls /\ c.stage = "choose" /\ c.idle = get[t].idle \cup {x}
    BY <1>2, <1>3, Zenon DEF Calls
  <2>2. Becomes(t, c)
    BY <1>1, <1>7, Zenon DEF Becomes
  <2> HIDE DEF c
  <2>3. Threshold <= Load[x]
    BY <1>3, <1>7, ArtifactsAssumption
  <2>4. CallOK(c)
    BY <1>4, <2>1, <2>3 DEF CallOK
  <2> QED BY <1>4, <1>5, <2>1, <2>2, <2>4, QuietMove
<1> QED BY <1>6, <1>7

LEMMA AskFailsKeeps ==
  ASSUME ArtInv, NEW t \in Gets, AskFails(t)
  PROVE  ArtInv'
<1>1. PICK x \in get[t].asked : get' = [get EXCEPT ![t].asked = @ \ {x}]
  BY Zenon DEF AskFails
<1> DEFINE c == [get[t] EXCEPT !.asked = @ \ {x}]
<1>2. get[t] \in Calls /\ get[t].stage = "choose"
  BY DEF ArtInv, TypeInv, AskFails
<1>3. c \in Calls /\ c.stage = "choose" /\ c.idle = get[t].idle
  BY <1>2 DEF Calls
<1>4. Becomes(t, c)
  BY <1>1 DEF Becomes
<1> HIDE DEF c
<1>5. CallOK(get[t]) /\ building \notin {"create", "write"}
  BY <1>1 DEF ArtInv, EarlyInv, EarlyCall
<1>6. CallOK(c)
  BY <1>3, <1>5 DEF CallOK
<1>7. UNCHANGED <<file, building, providers, stopped>>
  BY DEF AskFails
<1> QED BY <1>3, <1>4, <1>5, <1>6, <1>7, QuietMove

LEMMA ChoosePeerKeeps ==
  ASSUME ArtInv, NEW t \in Gets, ChoosePeer(t)
  PROVE  ArtInv'
<1>1. UNCHANGED <<file, building, providers, stopped>> /\ get[t].asked = {}
  BY DEF ChoosePeer
<1>2. CASE get[t].idle = {}
  <2>1. Goto(t, "error")
    BY <1>2 DEF ChoosePeer
  <2> QED BY <1>1, <2>1, ErrorMove
<1>3. CASE get[t].idle # {}
  <2>1. PICK x \in FirstOfSorted(get[t].idle) :
           get' = [get EXCEPT ![t].stage = "request", ![t].peer = x]
    BY <1>3 DEF ChoosePeer
  <2>2. get[t] \in Calls /\ get[t].idle \subseteq Nodes
    BY DEF ArtInv, TypeInv, Calls
  <2>3. x \in Nodes /\ \A y \in get[t].idle : Load[x] <= Load[y]
    BY <2>2 DEF FirstOfSorted
  <2> DEFINE c == [get[t] EXCEPT !.stage = "request", !.peer = x]
  <2>4. c \in Calls /\ c.stage = "request" /\ c.peer = x /\ c.idle = get[t].idle /\ c.asked = {}
    BY <1>1, <2>2, <2>3, Zenon DEF Calls, CallStages
  <2>5. Becomes(t, c)
    BY <2>1, Zenon DEF Becomes
  <2> HIDE DEF c
  <2>6. CallOK(get[t]) /\ building \notin {"create", "write"}
    BY <1>3 DEF ArtInv, EarlyInv, EarlyCall
  <2>7. CallOK(c)
    BY <2>3, <2>4, <2>6 DEF CallOK
  <2> QED BY <1>1, <2>4, <2>5, <2>6, <2>7, QuietMove
<1> QED BY <1>2, <1>3

LEMMA RequestKeeps ==
  ASSUME ArtInv, NEW t \in Gets, RequestArtifact(t) \/ RequestFails(t)
  PROVE  ArtInv'
<1>1. UNCHANGED <<file, building, providers, stopped>> /\ get[t].stage = "request"
  BY DEF RequestArtifact, RequestFails
<1>2. CallOK(get[t]) /\ building \notin {"create", "write"}
  BY <1>1 DEF ArtInv, EarlyInv, EarlyCall
<1>3. CASE Goto(t, "error")
  BY <1>1, <1>3, ErrorMove
<1>4. CASE file[get[t].peer] # "none" /\ GotoWith(t, "put", file[get[t].peer])
  <2>1. file[get[t].peer] \in {"none", "part", "whole"}
    BY <1>1, <1>2 DEF ArtInv, TypeInv, CallOK
  <2>2. PICK c \in Calls : /\ Becomes(t, c) /\ c.stage = "put" /\ c.data = file[get[t].peer]
                           /\ c.idle = get[t].idle
    BY <1>4, <2>1, GotoWithFacts DEF ArtInv, CallStages
  <2>3. CallOK(c)
    BY <1>2, <1>4, <2>2 DEF CallOK
  <2> QED BY <1>1, <1>2, <2>2, <2>3, QuietMove
<1> QED BY <1>3, <1>4 DEF RequestArtifact, RequestFails

LEMMA ReadAgainKeeps ==
  ASSUME ArtInv, NEW t \in Gets, ReadAgain(t)
  PROVE  ArtInv'
<1>1. /\ UNCHANGED <<file, building, providers, stopped>> /\ get[t].stage = "reread"
      /\ GotoWith(t, "verify", file[Home[t]])
  BY DEF ReadAgain
<1>2. CallOK(get[t]) /\ building \notin {"create", "write"}
  BY <1>1 DEF ArtInv, EarlyInv, EarlyCall
<1>3. file[Home[t]] \in {"part", "whole"}
  BY <1>1, ArtifactsAssumption DEF ArtInv, TypeInv, WriteInv
<1>4. PICK c \in Calls : /\ Becomes(t, c) /\ c.stage = "verify" /\ c.data = file[Home[t]]
                         /\ c.idle = get[t].idle
  BY <1>1, <1>3, GotoWithFacts DEF ArtInv, CallStages
<1>5. CallOK(c)
  BY <1>2, <1>3, <1>4 DEF CallOK
<1> QED BY <1>1, <1>2, <1>4, <1>5, QuietMove

LEMMA VerifyKeeps ==
  ASSUME ArtInv, NEW t \in Gets, VerifyArtifact(t)
  PROVE  ArtInv'
<1>1. UNCHANGED <<file, building, providers, stopped>>
  BY DEF VerifyArtifact
<1>2. CASE Goto(t, "error")
  BY <1>1, <1>2, ErrorMove
<1>3. CASE Goto(t, "served")
  <2>1. CallOK(get[t]) /\ (building \in {"create", "write"} => EarlyCall(get[t]))
    BY DEF ArtInv, EarlyInv
  <2>2. PICK c \in Calls : /\ Becomes(t, c) /\ c.stage = "served"
                           /\ c.asked = get[t].asked /\ c.idle = get[t].idle
    BY <1>3, GotoFacts DEF ArtInv, CallStages
  <2>3. CallOK(c)
    BY <2>1, <2>2 DEF CallOK
  <2>4. building \in {"create", "write"} => EarlyCall(c)
    BY <2>1, <2>2 DEF EarlyCall
  <2> QED BY <1>1, <2>2, <2>3, <2>4, QuietMove
<1> QED BY <1>2, <1>3 DEF VerifyArtifact

LEMMA RetryKeeps ==
  ASSUME ArtInv, NEW t \in Gets, Retry(t)
  PROVE  ArtInv'
<1>1. UNCHANGED <<file, building, providers, stopped>> /\ Becomes(t, Fresh)
  BY DEF Retry, Becomes
<1> QED BY <1>1, FreshFacts, QuietMove

LEMMA CreateFileKeeps ==
  ASSUME ArtInv, NEW t \in Gets, CreateFile(t)
  PROVE  ArtInv' /\ \A n \in Nodes : file[n] = "whole" => file'[n] = "whole"
<1>1. /\ UNCHANGED <<building, providers, stopped>> /\ get[t].stage = "put"
      /\ Home[t] \in Nodes
  BY ArtifactsAssumption DEF CreateFile
<1>2. CASE Goto(t, "error") /\ UNCHANGED file
  BY <1>1, <1>2, ErrorMove
<1>3. CASE file[Home[t]] = "none" /\ file' = [file EXCEPT ![Home[t]] = "part"] /\ Goto(t, "write")
  <2>1. PICK c \in Calls : /\ Becomes(t, c) /\ c.stage = "write" /\ c.data = get[t].data
                           /\ c.idle = get[t].idle
    BY <1>3, GotoFacts DEF ArtInv, CallStages
  <2>2. /\ get' \in [Gets -> Calls] /\ get'[t] = c
        /\ \A u \in Gets : u # t => get'[u] = get[u]
    BY <2>1, BecomesFacts DEF ArtInv
  <2>3. /\ file' \in [Nodes -> {"none", "part", "whole"}] /\ file'[Home[t]] = "part"
        /\ \A n \in Nodes : n # Home[t] => file'[n] = file[n]
    BY <1>1, <1>3 DEF ArtInv, TypeInv
  <2>4. CallOK(get[t]) /\ building \notin {"create", "write"}
    BY <1>1 DEF ArtInv, EarlyInv, EarlyCall
  <2>5. CallOK(c)
    BY <1>1, <2>1, <2>4 DEF CallOK
  <2>6. TypeInv'
    BY <1>1, <2>2, <2>3 DEF ArtInv, TypeInv
  <2>7. (\A u \in Gets : CallOK(get[u]))'
    BY <2>2, <2>5 DEF ArtInv, CallOK
  <2>8. \A u \in Gets : get[u].stage = "write" => Home[u] # Home[t]
    BY <1>3 DEF ArtInv, WriteInv
  <2>9. WriteInv'
    <3>1. \A u \in Gets : get'[u].stage = "write" => file'[Home[u]] = "part"
      BY <2>1, <2>2, <2>3, ArtifactsAssumption DEF ArtInv, WriteInv
    <3>2. \A u \in Gets : get'[u].stage = "reread" => file'[Home[u]] # "none"
      BY <2>1, <2>2, <2>3, ArtifactsAssumption DEF ArtInv, WriteInv
    <3>3. \A u, v \in Gets :
            get'[u].stage = "write" /\ get'[v].stage = "write" /\ Home[u] = Home[v] => u = v
      BY <2>2, <2>8 DEF ArtInv, WriteInv
    <3> QED BY <3>1, <3>2, <3>3 DEF WriteInv
  <2>10. EarlyInv' /\ LateInv' /\ ProviderInv'
    <3>1. EarlyInv'
      BY <1>1, <2>4 DEF EarlyInv
    <3>2. LateInv'
      BY <1>1, <1>3, <2>3, ArtifactsAssumption DEF ArtInv, LateInv
    <3>3. ProviderInv'
      BY <1>1 DEF ArtInv, ProviderInv
    <3> QED BY <3>1, <3>2, <3>3
  <2>11. \A n \in Nodes : file[n] = "whole" => file'[n] = "whole"
    BY <1>3, <2>3
  <2> QED BY <2>6, <2>7, <2>9, <2>10, <2>11 DEF ArtInv
<1> QED BY <1>2, <1>3 DEF CreateFile

LEMMA WriteFileKeeps ==
  ASSUME ArtInv, NEW t \in Gets, WriteFile(t)
  PROVE  ArtInv' /\ \A n \in Nodes : file[n] = "whole" => file'[n] = "whole"
<1>1. /\ UNCHANGED <<building, providers, stopped>> /\ get[t].stage = "write"
      /\ Home[t] \in Nodes /\ file' = [file EXCEPT ![Home[t]] = get[t].data]
      /\ Goto(t, "reread")
  BY ArtifactsAssumption DEF WriteFile
<1>2. CallOK(get[t]) /\ building \notin {"create", "write"} /\ file[Home[t]] = "part"
  BY <1>1 DEF ArtInv, EarlyInv, EarlyCall, WriteInv
<1>3. get[t].data \in {"part", "whole"}
  BY <1>1, <1>2 DEF ArtInv, TypeInv, Calls, CallOK
<1>4. PICK c \in Calls : Becomes(t, c) /\ c.stage = "reread" /\ c.idle = get[t].idle
  BY <1>1, GotoFacts DEF ArtInv, CallStages
<1>5. /\ get' \in [Gets -> Calls] /\ get'[t] = c
      /\ \A u \in Gets : u # t => get'[u] = get[u]
  BY <1>4, BecomesFacts DEF ArtInv
<1>6. /\ file' \in [Nodes -> {"none", "part", "whole"}] /\ file'[Home[t]] # "none"
      /\ \A n \in Nodes : n # Home[t] => file'[n] = file[n]
  BY <1>1, <1>3 DEF ArtInv, TypeInv
<1>7. CallOK(c)
  BY <1>2, <1>4 DEF CallOK
<1>8. TypeInv'
  BY <1>1, <1>5, <1>6 DEF ArtInv, TypeInv
<1>9. (\A u \in Gets : CallOK(get[u]))'
  BY <1>5, <1>7 DEF ArtInv, CallOK
<1>10. WriteInv'
  <2>1. \A u \in Gets : u # t /\ get[u].stage = "write" => Home[u] # Home[t]
    BY <1>1 DEF ArtInv, WriteInv
  <2>2. \A u \in Gets : get'[u].stage = "write" => file'[Home[u]] = "part"
    BY <1>4, <1>5, <1>6, <2>1, ArtifactsAssumption DEF ArtInv, WriteInv
  <2>3. \A u \in Gets : get'[u].stage = "reread" => file'[Home[u]] # "none"
    BY <1>4, <1>5, <1>6, ArtifactsAssumption DEF ArtInv, WriteInv
  <2>4. \A u, v \in Gets :
          get'[u].stage = "write" /\ get'[v].stage = "write" /\ Home[u] = Home[v] => u = v
    BY <1>4, <1>5 DEF ArtInv, WriteInv
  <2> QED BY <2>2, <2>3, <2>4 DEF WriteInv
<1>11. EarlyInv'
  BY <1>1, <1>2 DEF EarlyInv
<1>12. LateInv'
  BY <1>1, <1>2, <1>6, ArtifactsAssumption DEF ArtInv, LateInv
<1>13. ProviderInv'
  BY <1>1 DEF ArtInv, ProviderInv
<1>14. \A n \in Nodes : file[n] = "whole" => file'[n] = "whole"
  BY <1>2, <1>6
<1> QED BY <1>8, <1>9, <1>10, <1>11, <1>12, <1>13, <1>14 DEF ArtInv

-----------------------------------------------------------------------------
(* The builder, and nodes that stop                                        *)

LEMMA BuildKeeps ==
  ASSUME ArtInv, Build
  PROVE  ArtInv' /\ \A n \in Nodes : file[n] = "whole" => file'[n] = "whole"
<1>0. Builder \in Nodes /\ get' = get /\ stopped' = stopped
  BY ArtifactsAssumption DEF Build, BuildCreate, BuildWrite, BuildWriteFails, BuildProvide
<1>1. (\A t \in Gets : CallOK(get[t]))'
  BY <1>0 DEF ArtInv, CallOK
<1>2. CASE BuildCreate
  <2>1. /\ building = "create" /\ building' = "write" /\ providers' = providers
        /\ file' = [file EXCEPT ![Builder] = "part"]
    BY <1>2 DEF BuildCreate
  <2>2. /\ file' \in [Nodes -> {"none", "part", "whole"}] /\ file'[Builder] = "part"
        /\ \A n \in Nodes : n # Builder => file'[n] = file[n]
    BY <1>0, <2>1 DEF ArtInv, TypeInv
  <2>3. /\ providers = {} /\ \A t \in Gets : EarlyCall(get[t])
        /\ \A n \in Nodes : file[n] = "none"
    BY <2>1 DEF ArtInv, EarlyInv
  <2>4. TypeInv'
    BY <1>0, <2>1, <2>2 DEF ArtInv, TypeInv
  <2>5. WriteInv'
    BY <1>0, <2>3 DEF WriteInv, EarlyCall
  <2>6. EarlyInv'
    <3>1. \A n \in Nodes :
            file'[n] = (IF n = Builder /\ building' = "write" THEN "part" ELSE "none")
      BY <2>1, <2>2, <2>3
    <3>2. \A t \in Gets : EarlyCall(get[t])'
      BY <1>0, <2>3 DEF EarlyCall
    <3> QED BY <2>1, <2>3, <3>1, <3>2 DEF EarlyInv
  <2>7. LateInv' /\ ProviderInv'
    BY <1>0, <2>1, <2>3 DEF LateInv, ProviderInv
  <2> QED BY <1>1, <2>3, <2>4, <2>5, <2>6, <2>7 DEF ArtInv
<1>3. CASE BuildWrite
  <2>1. /\ building = "write" /\ building' = "provide" /\ providers' = providers
        /\ file' = [file EXCEPT ![Builder] = "whole"]
    BY <1>3 DEF BuildWrite
  <2>2. /\ file' \in [Nodes -> {"none", "part", "whole"}] /\ file'[Builder] = "whole"
        /\ \A n \in Nodes : n # Builder => file'[n] = file[n]
    BY <1>0, <2>1 DEF ArtInv, TypeInv
  <2>3. /\ providers = {} /\ \A t \in Gets : EarlyCall(get[t])
    BY <2>1 DEF ArtInv, EarlyInv
  <2>4. TypeInv'
    BY <1>0, <2>1, <2>2 DEF ArtInv, TypeInv
  <2>5. WriteInv'
    BY <1>0, <2>3 DEF WriteInv, EarlyCall
  <2>6. EarlyInv' /\ LateInv' /\ ProviderInv'
    BY <1>0, <2>1, <2>2, <2>3 DEF EarlyInv, LateInv, ProviderInv
  <2>7. \A n \in Nodes : file[n] = "whole" => file'[n] = "whole"
    BY <2>2
  <2> QED BY <1>1, <2>4, <2>5, <2>6, <2>7 DEF ArtInv
<1>5. CASE BuildWriteFails
  <2>1. building = "write" /\ building' = "failed" /\ providers' = providers /\ file' = file
    BY <1>5 DEF BuildWriteFails
  <2>2. TypeInv'
    BY <1>0, <2>1 DEF ArtInv, TypeInv
  <2>3. WriteInv'
    BY <1>0, <2>1 DEF ArtInv, WriteInv
  <2>4. EarlyInv' /\ LateInv' /\ ProviderInv'
    BY <1>0, <2>1 DEF ArtInv, EarlyInv, LateInv, ProviderInv
  <2> QED BY <1>1, <2>1, <2>2, <2>3, <2>4 DEF ArtInv
<1>4. CASE BuildProvide
  <2>1. /\ building = "provide" /\ building' = "done" /\ providers' = providers \cup {Builder}
        /\ file' = file
    BY <1>4 DEF BuildProvide
  <2>2. TypeInv'
    BY <1>0, <2>1 DEF ArtInv, TypeInv
  <2>3. WriteInv'
    BY <1>0, <2>1 DEF ArtInv, WriteInv
  <2>4. EarlyInv' /\ LateInv' /\ ProviderInv'
    BY <1>0, <2>1 DEF ArtInv, EarlyInv, LateInv, ProviderInv
  <2> QED BY <1>1, <2>1, <2>2, <2>3, <2>4 DEF ArtInv
<1> QED BY <1>2, <1>3, <1>4, <1>5 DEF Build

LEMMA RestartKeeps ==
  ASSUME ArtInv, NEW n \in Nodes, Restart(n)
  PROVE  ArtInv'
<1> DEFINE c == [Fresh EXCEPT !.stage = "error"]
<1>1. /\ c \in Calls /\ c.stage = "error" /\ c.asked = {} /\ c.idle = {}
  BY DEF Fresh, Calls, CallStages
<1>2. CallOK(c) /\ EarlyCall(c)
  BY <1>1 DEF CallOK, EarlyCall
<1>3. /\ file' = file /\ building' = building /\ stopped' = stopped \cup {n}
      /\ n # Builder \/ building \in {"done", "failed"}
      /\ get' = [t \in Gets |-> IF Home[t] = n /\ get[t].stage # "served" THEN c ELSE get[t]]
      /\ providers' = (IF file[n] = "none" THEN providers ELSE providers \cup {n})
  BY DEF Restart
<1> HIDE DEF c
<1>4. get' \in [Gets -> Calls] /\ \A t \in Gets : get'[t] = c \/ get'[t] = get[t]
  BY <1>1, <1>3 DEF ArtInv, TypeInv
<1>5. TypeInv'
  BY <1>3, <1>4 DEF ArtInv, TypeInv
<1>6. (\A t \in Gets : CallOK(get[t]))'
  <2> SUFFICES ASSUME NEW t \in Gets PROVE CallOK(get[t])'
    OBVIOUS
  <2>1. CallOK(get'[t])
    BY <1>2, <1>4 DEF ArtInv
  <2> QED BY <2>1 DEF CallOK
<1>7. WriteInv'
  BY <1>1, <1>3, <1>4 DEF ArtInv, WriteInv
<1>8. EarlyInv'
  <2> SUFFICES ASSUME building \in {"create", "write"} PROVE EarlyInv'
    BY <1>3 DEF EarlyInv
  <2>1. /\ providers = {} /\ \A t \in Gets : EarlyCall(get[t])
        /\ \A m \in Nodes : file[m] = (IF m = Builder /\ building = "write" THEN "part" ELSE "none")
    BY DEF ArtInv, EarlyInv
  <2>2. file[n] = "none"
    BY <1>3, <2>1
  <2>3. \A t \in Gets : EarlyCall(get'[t])
    BY <1>2, <1>4, <2>1
  <2>4. \A t \in Gets : EarlyCall(get[t])'
    BY <2>3 DEF EarlyCall
  <2> QED BY <1>3, <2>1, <2>2, <2>4 DEF EarlyInv
<1>9. LateInv' /\ ProviderInv'
  BY <1>3 DEF ArtInv, LateInv, ProviderInv
<1> QED BY <1>5, <1>6, <1>7, <1>8, <1>9 DEF ArtInv

-----------------------------------------------------------------------------
(* The theorems                                                            *)

LEMMA ArtNext ==
  ASSUME ArtInv, [Next]_vars
  PROVE  ArtInv' /\ \A n \in Nodes : file[n] = "whole" => file'[n] = "whole"
<1>1. CASE Build
  BY <1>1, BuildKeeps
<1>2. ASSUME NEW t \in Gets, Get(t)
      PROVE  ArtInv' /\ \A n \in Nodes : file[n] = "whole" => file'[n] = "whole"
  <2>1. CASE CreateFile(t)
    BY <2>1, CreateFileKeeps
  <2>2. CASE WriteFile(t)
    BY <2>2, WriteFileKeeps
  <2>3. CASE ReadLocally(t)
    BY <2>3, ReadLocallyKeeps DEF ReadLocally
  <2>4. CASE ListProviders(t)
    BY <2>4, ListProvidersKeeps, Zenon DEF ListProviders
  <2>5. CASE AskIdle(t)
    BY <2>5, AskIdleKeeps, Zenon DEF AskIdle
  <2>6. CASE AskFails(t)
    BY <2>6, AskFailsKeeps, Zenon DEF AskFails
  <2>7. CASE ChoosePeer(t)
    BY <2>7, ChoosePeerKeeps DEF ChoosePeer
  <2>8. CASE RequestArtifact(t) \/ RequestFails(t)
    BY <2>8, RequestKeeps DEF RequestArtifact, RequestFails
  <2>12. CASE WriteFails(t)
    BY <2>12, ErrorMove DEF WriteFails
  <2>9. CASE ReadAgain(t)
    BY <2>9, ReadAgainKeeps DEF ReadAgain
  <2>10. CASE VerifyArtifact(t)
    BY <2>10, VerifyKeeps DEF VerifyArtifact
  <2>11. CASE Retry(t)
    BY <2>11, RetryKeeps, Zenon DEF Retry
  <2> QED BY <1>2, <2>1, <2>2, <2>3, <2>4, <2>5, <2>6, <2>7, <2>8, <2>9, <2>10, <2>11, <2>12,
             Zenon DEF Get
<1>3. CASE \E n \in Nodes : Restart(n)
  BY <1>3, RestartKeeps DEF Restart
<1>4. CASE UNCHANGED vars
  <2>1. /\ file' = file /\ building' = building /\ providers' = providers /\ get' = get
        /\ stopped' = stopped
    BY <1>4 DEF vars
  <2>2. TypeInv' /\ WriteInv' /\ EarlyInv' /\ LateInv' /\ ProviderInv'
    BY <2>1, Zenon DEF ArtInv, TypeInv, WriteInv, EarlyInv, EarlyCall, LateInv, ProviderInv
  <2>3. (\A t \in Gets : CallOK(get[t]))'
    BY <2>1 DEF ArtInv, CallOK
  <2> QED BY <2>1, <2>2, <2>3 DEF ArtInv
<1> QED BY <1>1, <1>2, <1>3, <1>4 DEF Next

LEMMA ArtInit ==
  ASSUME Init
  PROVE  ArtInv
<1>1. /\ file = [n \in Nodes |-> "none"] /\ building = "create" /\ providers = {}
      /\ get = [t \in Gets |-> Fresh] /\ stopped = {}
  BY DEF Init
<1>2. TypeInv
  BY <1>1, FreshFacts DEF TypeInv
<1>3. \A t \in Gets : CallOK(get[t]) /\ EarlyCall(get[t]) /\ get[t].stage = "new"
  BY <1>1, FreshFacts
<1>4. WriteInv
  BY <1>3 DEF WriteInv
<1>5. EarlyInv
  BY <1>1, <1>3 DEF EarlyInv
<1>6. LateInv /\ ProviderInv
  BY <1>1 DEF LateInv, ProviderInv
<1> QED BY <1>2, <1>3, <1>4, <1>5, <1>6 DEF ArtInv

LEMMA ArtAlways == Spec => []ArtInv
<1>1. Init => ArtInv
  BY ArtInit
<1>2. ArtInv /\ [Next]_vars => ArtInv'
  BY ArtNext
<1> QED BY <1>1, <1>2, PTL DEF Spec

\* A node provides after it has stored the artifact: a provider that never stopped has the
\* whole of it.
THEOREM ProvidersAlwaysHaveIt ==
  Spec => []ProvidersHaveIt
<1>1. ArtInv => ProvidersHaveIt
  BY DEF ArtInv, LateInv, ProviderInv, ProvidersHaveIt
<1> QED BY <1>1, ArtAlways, PTL

\* get_idle_peer: the peer of a download is below the threshold, or everybody was asked and
\* it is the least loaded of those that answered.
THEOREM PeerIsIdleOrLowest ==
  Spec => []IdleOrLowest
<1>1. ArtInv => IdleOrLowest
  BY DEF ArtInv, CallOK, IdleOrLowest
<1> QED BY <1>1, ArtAlways, PTL

\* create_artifact_file refuses a file that exists, so that a file has one writer, and nobody
\* downloads before the builder has stored its own: a whole file is never touched again.
THEOREM WholeFilesStay ==
  Spec => WholeStays
<1>1. ArtInv /\ [Next]_vars
        => [\A n \in Nodes : file[n] = "whole" => file'[n] = "whole"]_vars
  BY ArtNext
<1> QED BY <1>1, ArtAlways, PTL DEF Spec, WholeStays

-----------------------------------------------------------------------------
(***************************************************************************)
(* CliConfig: for any number of client processes and any values the users  *)
(* enter, what is in the file is valid or not a configuration at all.      *)
(***************************************************************************)

CONSTANTS Processes, Hosts, Ports, Disks, ValidHosts, MayCrash
VARIABLES configFile, proc

Config == INSTANCE CliConfig WITH file <- configFile

PortNumbers == {n \in Int : Config!valid_port(n)}
DiskSpaces == {n \in Int : Config!valid_disk_space(n)}
Configs == [host : ValidHosts, port : PortNumbers, disk : DiskSpaces]
Procs == [stage : {"idle", "add", "open", "store"}, cfg : Configs, before : Configs,
          linked : BOOLEAN, given : Config!Given]

\* StoredIsValid says nothing of what the processes have in hand.
ConfigInv ==
  /\ configFile \notin {Config!Absent, Config!Torn} => configFile \in Configs
  /\ proc \in [Processes -> Procs]

LEMMA DefaultInRange == ASSUME Config!Entries PROVE Config!Default \in Configs
<1>1. 7888 \in PortNumbers /\ 10 \in DiskSpaces
  BY DEF PortNumbers, DiskSpaces, Config!valid_port, Config!valid_disk_space
<1> QED BY <1>1, Config!Entries DEF Configs, Config!Default, Config!Entries

LEMMA IdleInRange == ASSUME Config!Entries PROVE Config!Idle \in Procs
<1>1. [host |-> Config!None, port |-> Config!None, disk |-> Config!None] \in Config!Given
  BY DEF Config!Given, Config!Option
<1> QED BY <1>1, Config!Entries, DefaultInRange DEF Config!Idle, Procs

\* A configuration in range, with valid fields, is in range.
LEMMA WithInRange ==
  ASSUME Config!Entries, NEW cfg \in Configs, NEW given \in Config!Given, Config!AllValid(given)
  PROVE  Config!With(cfg, given) \in Configs
<1>1. /\ given.host # Config!None => Config!valid_host_name(given.host[1])
      /\ given.port # Config!None => Config!valid_port(given.port[1])
      /\ given.disk # Config!None => Config!valid_disk_space(given.disk[1])
  BY DEF Config!AllValid, Config!Valid, Config!Fields
<1>2. given.port \in Config!Option(Ports) /\ given.disk \in Config!Option(Disks)
  BY DEF Config!Given
<1>3. cfg.host \in ValidHosts /\ cfg.port \in PortNumbers /\ cfg.disk \in DiskSpaces
  BY DEF Configs
<1>4. given.port # Config!None => given.port[1] \in PortNumbers
  BY <1>1, <1>2, Config!Entries DEF Config!Entries, Config!Option, PortNumbers
<1>5. given.disk # Config!None => given.disk[1] \in DiskSpaces
  BY <1>1, <1>2, Config!Entries DEF Config!Entries, Config!Option, DiskSpaces
<1>6. /\ Config!Entered(given.host, cfg.host) \in ValidHosts
      /\ Config!Entered(given.port, cfg.port) \in PortNumbers
      /\ Config!Entered(given.disk, cfg.disk) \in DiskSpaces
  BY <1>1, <1>3, <1>4, <1>5 DEF Config!Entered, Config!valid_host_name
<1> QED BY <1>6 DEF Config!With, Configs

\* What is loaded is in range, unless the file is torn.
LEMMA LoadedInRange ==
  ASSUME Config!Entries, ConfigInv
  PROVE  Config!Loaded \notin {Config!Absent, Config!Torn} => Config!Loaded \in Configs
  BY Config!Entries, DefaultInRange DEF ConfigInv, Config!Loaded

LEMMA BeginStep ==
  ASSUME Config!Entries, ConfigInv, NEW p \in Processes, NEW given \in Config!Given,
         Config!AllValid(given),
         NEW before \in Configs, Config!Begin(p, given, before, Config!With(before, given))
  PROVE  proc' \in [Processes -> Procs]
<1>1. Config!With(before, given) \in Configs
  BY Config!Entries, WithInRange
<1>2. [stage |-> "add", given |-> given, before |-> before, cfg |-> Config!With(before, given),
       linked |-> FALSE] \in Procs
  BY <1>1 DEF Procs
<1> QED BY <1>2 DEF Config!Begin, ConfigInv

LEMMA ConfigStep ==
  ASSUME Config!Entries, ConfigInv, NEW p \in Processes, Config!config(p)
  PROVE  ConfigInv'
<1>1. ASSUME NEW given \in Config!Given, Config!Edit(p, given) PROVE ConfigInv'
  <2>1. configFile' = Config!Loaded /\ configFile # Config!Torn
    BY <1>1 DEF Config!Edit
  <2>2. Config!Loaded \in Configs
    BY <2>1, Config!Entries, DefaultInRange DEF Config!Loaded, ConfigInv
  <2>3. proc' \in [Processes -> Procs]
    BY <1>1, <2>2, Config!Entries, BeginStep DEF Config!Edit, ConfigInv
  <2> QED BY <2>1, <2>2, <2>3 DEF ConfigInv
<1>2. ASSUME NEW given \in Config!Given, Config!Add(p, given) PROVE ConfigInv'
  <2>1. proc' \in [Processes -> Procs]
    BY <1>2, Config!Entries, DefaultInRange, BeginStep DEF Config!Add
  <2> QED BY <1>2, <2>1 DEF Config!Add, ConfigInv
<1>3. CASE Config!config_remove(p)
  BY <1>3, ZenonT(30) DEF Config!config_remove, ConfigInv, Procs
<1>4. CASE Config!get_config(p)
  BY <1>4, Config!Entries, LoadedInRange DEF Config!get_config, ConfigInv
<1> QED BY <1>1, <1>2, <1>3, <1>4 DEF Config!config

LEMMA ProcessStep ==
  ASSUME Config!Entries, ConfigInv, NEW p \in Processes,
         Config!LoadAgain(p) \/ Config!Open(p) \/ Config!Store(p) \/ Config!Kill(p)
  PROVE  ConfigInv'
<1>0. proc[p] \in Procs
  BY DEF ConfigInv
<1>1. CASE Config!LoadAgain(p)
  <2>1. [proc[p] EXCEPT !.stage = "open"] \in Procs
    BY <1>0 DEF Procs
  <2>2. proc' \in [Processes -> Procs]
    BY <1>1, <2>1, Config!Entries, IdleInRange DEF Config!LoadAgain, ConfigInv
  <2> QED BY <1>1, <2>2, Config!Entries, LoadedInRange DEF Config!LoadAgain, ConfigInv
<1>2. CASE Config!Open(p)
  <2>1. [proc[p] EXCEPT !.stage = "store", !.linked = TRUE] \in Procs
    BY <1>0, Zenon DEF Procs
  <2> QED BY <1>2, <2>1 DEF Config!Open, ConfigInv
<1>3. CASE Config!Store(p)
  <2>1. proc' \in [Processes -> Procs]
    BY <1>3, Config!Entries, IdleInRange DEF Config!Store, ConfigInv
  <2>2. proc[p].cfg \in Configs
    BY <1>0 DEF Procs
  <2>3. configFile' \notin {Config!Absent, Config!Torn} => configFile' \in Configs
    BY <1>3, <2>2 DEF Config!Store, ConfigInv
  <2> QED BY <2>1, <2>3 DEF ConfigInv
<1>4. CASE Config!Kill(p)
  BY <1>4, Config!Entries, IdleInRange DEF Config!Kill, ConfigInv
<1> QED BY <1>1, <1>2, <1>3, <1>4

\* The validation before a configuration is stored: for any processes and entered
\* values, a file that holds a configuration holds one in range, although processes
\* overlap, remove the file or are killed while they write.
THEOREM StoredConfigValid == ASSUME Config!Entries PROVE Config!Spec => []Config!StoredIsValid
<1>1. Config!Init => ConfigInv
  BY Config!Entries, IdleInRange DEF Config!Init, ConfigInv
<1>2. ConfigInv /\ [Config!Next]_(Config!vars) => ConfigInv'
  <2> SUFFICES ASSUME ConfigInv, [Config!Next]_(Config!vars) PROVE ConfigInv'
    OBVIOUS
  <2>1. CASE UNCHANGED Config!vars
    BY <2>1 DEF Config!vars, ConfigInv
  <2> QED BY <2>1, Config!Entries, ConfigStep, ProcessStep DEF Config!Next
<1>3. ConfigInv => Config!StoredIsValid
  BY DEF ConfigInv, Config!StoredIsValid, Configs, PortNumbers, DiskSpaces, Config!valid_port,
         Config!valid_disk_space
<1> QED BY <1>1, <1>2, <1>3, PTL DEF Config!Spec

-----------------------------------------------------------------------------
(***************************************************************************)
(* Codecs: for messages and pieces of any size, what a reader gives is what*)
(* was written.                                                            *)
(***************************************************************************)

CONSTANTS Messages, IdLimit, DataLimit, BlockLimit, MetricSize
VARIABLES message, wire, inbox, cut, left, got, outcome

Codec == INSTANCE Codecs

\* The length of a field, and where the field starts in what was written.
Length(f) == message.fields[f]
Offset(f) == IF f = 1 THEN 1 ELSE IF f = 2 THEN Length(1) + 2 ELSE Length(1) + Length(2) + 3
Stream == Codec!Written(message)

\* How many units of the stream the reader has taken.
Taken ==
  IF left = Codec!Between THEN Offset(Len(got) + 1) - 1
  ELSE Offset(Len(got)) + Length(Len(got)) - left

\* The first n bytes of a field.
Bytes(f, n) == [i \in 1 .. n |-> [byte |-> <<f, i>>]]

Units == {[length |-> n] : n \in Nat} \cup {[byte |-> <<f, i>>] : f \in Nat, i \in Nat}

\* The fields that were read are those of the message, the last one as far as
\* it was read.
ReadSoFar ==
  /\ left = Codec!Between \/ (Len(got) # 0 /\ left \in 0 .. Length(Len(got)))
  /\ \A f \in 1 .. Len(got) :
       got[f] = Bytes(f, IF f = Len(got) /\ left # Codec!Between THEN Length(f) - left ELSE Length(f))

\* What was not read is there or on its way, in order.
RestComes ==
  /\ Taken + Len(inbox) + Len(wire) = Len(Stream)
  /\ \A i \in 1 .. Len(inbox) : inbox[i] = Stream[Taken + i]
  /\ \A i \in 1 .. Len(wire) : wire[i] = Stream[Taken + Len(inbox) + i]

StreamTypes ==
  /\ message \in Messages
  /\ inbox \in Seq(Units) /\ wire \in Seq(Units) /\ got \in Seq(Seq(Units))
  /\ outcome \in {"none", "message", "error"}

CodecInv ==
  /\ StreamTypes
  /\ outcome # "error" => Len(got) <= Codec!Format.count /\ ReadSoFar /\ RestComes
  /\ outcome = "message" => left = Codec!Between /\ Len(got) = Codec!Format.count
  /\ outcome = "error" => cut \/ ~Codec!InLimits \/ Codec!Format.exact

LEMMA ConcatFacts ==
  ASSUME NEW S, NEW s \in Seq(S), NEW t \in Seq(S)
  PROVE  /\ s \o t \in Seq(S)
         /\ Len(s \o t) = Len(s) + Len(t)
         /\ \A i \in 1 .. Len(s) : (s \o t)[i] = s[i]
         /\ \A i \in 1 .. Len(t) : (s \o t)[Len(s) + i] = t[i]
PROOF
  OBVIOUS

\* The first n elements of a sequence, and the others.
LEMMA SplitFacts ==
  ASSUME NEW S, NEW s \in Seq(S), NEW n \in 0 .. Len(s)
  PROVE  /\ SubSeq(s, 1, n) \in Seq(S) /\ Len(SubSeq(s, 1, n)) = n
         /\ \A i \in 1 .. n : SubSeq(s, 1, n)[i] = s[i]
         /\ SubSeq(s, n + 1, Len(s)) \in Seq(S) /\ Len(SubSeq(s, n + 1, Len(s))) = Len(s) - n
         /\ \A i \in 1 .. Len(s) - n : SubSeq(s, n + 1, Len(s))[i] = s[n + i]
PROOF
  OBVIOUS

LEMMA FieldLayout ==
  ASSUME NEW f \in Nat, NEW n \in Nat
  PROVE  /\ Codec!Field(f, n) \in Seq(Units)
         /\ Len(Codec!Field(f, n)) = n + 1
         /\ Codec!Field(f, n)[1] = [length |-> n]
         /\ \A i \in 1 .. n : Codec!Field(f, n)[1 + i] = [byte |-> <<f, i>>]
PROOF
<1> DEFINE bytes == [i \in 1 .. n |-> [byte |-> <<f, i>>]]
           head == <<[length |-> n]>>
<1>1. bytes \in Seq(Units) /\ Len(bytes) = n /\ \A i \in 1 .. n : bytes[i] = [byte |-> <<f, i>>]
  <2>1. \A i \in 1 .. n : [byte |-> <<f, i>>] \in Units
    BY DEF Units
  <2> QED BY <2>1
<1>2. head \in Seq(Units) /\ Len(head) = 1 /\ head[1] = [length |-> n]
  BY DEF Units
<1>3. Codec!Field(f, n) = head \o bytes
  BY DEF Codec!Field
<1> HIDE DEF bytes, head
<1>4. /\ head \o bytes \in Seq(Units) /\ Len(head \o bytes) = Len(head) + Len(bytes)
      /\ \A i \in 1 .. Len(head) : (head \o bytes)[i] = head[i]
      /\ \A i \in 1 .. Len(bytes) : (head \o bytes)[Len(head) + i] = bytes[i]
  <2>1. head \in Seq(Units) /\ bytes \in Seq(Units)
    BY <1>1, <1>2
  <2> QED BY <2>1
<1> DEFINE field == head \o bytes
<1>5. /\ field \in Seq(Units) /\ Len(field) = 1 + n
      /\ \A i \in 1 .. 1 : field[i] = head[i]
      /\ \A i \in 1 .. n : field[1 + i] = bytes[i]
  BY <1>1, <1>2, <1>4, Zenon
<1>6. Codec!Field(f, n) = field
  BY <1>3
<1> HIDE DEF field
<1>7. field[1] = [length |-> n] /\ Len(field) = n + 1
  BY <1>2, <1>5
<1>8. \A i \in 1 .. n : field[1 + i] = [byte |-> <<f, i>>]
  BY <1>1, <1>5, Zenon
<1> QED BY <1>5, <1>6, <1>7, <1>8, Zenon

\* What a message is made of, and how it is read: the formats of the writer and
\* of the reader of a codec agree.
LEMMA MessageFormat ==
  ASSUME Codec!WellFormed, message \in Messages
  PROVE  /\ Codec!Format.count \in 0 .. 2 /\ Codec!Format.limit \in Nat
         /\ Codec!Format.exact = TRUE \/ Codec!Format.exact = FALSE
         /\ message.fields \in Seq(Nat) /\ Len(message.fields) = Codec!Format.count
         /\ Codec!Format.exact => Length(1) = Codec!Format.limit
         /\ Codec!Format.count = 0 => Stream = <<>>
         /\ Codec!Format.count = 1 => Stream = Codec!Field(1, Length(1))
         /\ Codec!Format.count = 2 => Stream = Codec!Field(1, Length(1)) \o Codec!Field(2, Length(2))
PROOF
<1> DEFINE F == Codec!Format
           m == message
<1>1. /\ m.codec \in Codec!Names /\ m.fields \in Seq(Nat) /\ Len(m.fields) = F.count
      /\ m.codec = "IdleMetricResponse" => Length(1) = MetricSize
      /\ IdLimit \in Nat /\ DataLimit \in Nat /\ BlockLimit \in Nat /\ MetricSize \in Nat
  BY DEF Codec!WellFormed, Codec!Format, Length
<1>2. CASE m.codec \in {"ArtifactRequest", "ArtifactResponse", "BuildResponse", "BuildStatusRequest",
                        "BuildStatusResponse", "BlockchainRequest", "BlockchainResponse"}
  <2>1. F.count = 1 /\ F.exact = FALSE /\ F.limit \in {IdLimit, DataLimit, BlockLimit}
    BY <1>2, Zenon DEF Codec!Format, Codec!Reader, Codec!Prefixed,
         Codec!ReadArtifactRequest, Codec!ReadArtifactResponse, Codec!ReadBuildResponse,
         Codec!ReadBuildStatusRequest, Codec!ReadBuildStatusResponse,
         Codec!ReadBlockchainRequest, Codec!ReadBlockchainResponse
  <2>2. Stream = Codec!Field(1, Length(1))
    BY <1>2 DEF Stream, Length, Codec!Written,
         Codec!WriteArtifactRequest, Codec!WriteArtifactResponse, Codec!WriteBuildResponse,
         Codec!WriteBuildStatusRequest, Codec!WriteBuildStatusResponse,
         Codec!WriteBlockchainRequest, Codec!WriteBlockchainResponse
  <2> HIDE DEF F
  <2>3. F.limit \in Nat
    BY <1>1, <2>1
  <2> QED BY <1>1, <2>1, <2>2, <2>3 DEF F
<1>3. CASE m.codec = "BuildRequest"
  <2>1. F.count = 2 /\ F.exact = FALSE /\ F.limit = IdLimit
    BY <1>3 DEF Codec!Format, Codec!Reader, Codec!Prefixed, Codec!ReadBuildRequest
  <2>2. Stream = Codec!Field(1, Length(1)) \o Codec!Field(2, Length(2))
    BY <1>3 DEF Stream, Length, Codec!Written, Codec!WriteBuildRequest
  <2> QED BY <1>1, <2>1, <2>2
<1>4. CASE m.codec = "IdleMetricRequest"
  <2>1. F.count = 0 /\ F.exact = FALSE /\ F.limit = 0
    BY <1>4 DEF Codec!Format, Codec!Reader, Codec!Prefixed, Codec!ReadIdleMetricRequest
  <2>2. Stream = <<>>
    BY <1>4 DEF Stream, Codec!Written, Codec!WriteIdleMetricRequest
  <2> QED BY <1>1, <2>1, <2>2
<1>5. CASE m.codec = "IdleMetricResponse"
  <2>1. F.count = 1 /\ F.exact = TRUE /\ F.limit = MetricSize
    BY <1>5 DEF Codec!Format, Codec!Reader, Codec!Single, Codec!ReadIdleMetricResponse
  <2>2. Stream = Codec!Field(1, Length(1))
    BY <1>1, <1>5 DEF Stream, Codec!Written, Codec!WriteIdleMetricResponse
  <2> QED BY <1>1, <1>5, <2>1, <2>2
<1> QED BY <1>1, <1>2, <1>3, <1>4, <1>5, Zenon DEF Codec!Names

\* Where the lengths and the bytes of the fields are in the stream.
LEMMA StreamLayout ==
  ASSUME Codec!WellFormed, message \in Messages
  PROVE  /\ \A f \in 1 .. Codec!Format.count : Length(f) \in Nat
         /\ \A f \in 1 .. Codec!Format.count + 1 : Offset(f) \in Nat
         /\ \A f \in 1 .. Codec!Format.count : Offset(f + 1) = Offset(f) + Length(f) + 1
         /\ Stream \in Seq(Units) /\ Len(Stream) = Offset(Codec!Format.count + 1) - 1
         /\ \A f \in 1 .. Codec!Format.count :
              /\ Stream[Offset(f)] = [length |-> Length(f)]
              /\ \A i \in 1 .. Length(f) : Stream[Offset(f) + i] = [byte |-> <<f, i>>]
PROOF
<1> DEFINE count == Codec!Format.count
<1>0. /\ count \in 0 .. 2 /\ message.fields \in Seq(Nat) /\ Len(message.fields) = count
      /\ count = 0 => Stream = <<>>
      /\ count = 1 => Stream = Codec!Field(1, Length(1))
      /\ count = 2 => Stream = Codec!Field(1, Length(1)) \o Codec!Field(2, Length(2))
  BY MessageFormat
<1> HIDE DEF count
<1>1. \A f \in 1 .. count : Length(f) \in Nat
  BY <1>0 DEF Length
<1>2. CASE count = 0
  <2>1. Stream = <<>> /\ Len(Stream) = 0 /\ Stream \in Seq(Units)
    BY <1>0, <1>2
  <2> QED BY <1>1, <1>2, <2>1 DEF Offset, count
<1>3. CASE count = 1
  <2>1. Length(1) \in Nat
    BY <1>1, <1>3
  <2>2. Stream = Codec!Field(1, Length(1))
    BY <1>0, <1>3
  <2>3. /\ Stream \in Seq(Units) /\ Len(Stream) = Length(1) + 1
        /\ Stream[1] = [length |-> Length(1)]
        /\ \A i \in 1 .. Length(1) : Stream[1 + i] = [byte |-> <<1, i>>]
    BY <2>1, <2>2, FieldLayout
  <2> QED BY <1>3, <2>1, <2>3 DEF Offset, count
<1>4. CASE count = 2
  <2> DEFINE A == Codec!Field(1, Length(1))
             B == Codec!Field(2, Length(2))
             a == Length(1)
             b == Length(2)
  <2>1. a \in Nat /\ b \in Nat
    BY <1>1, <1>4
  <2>2. Stream = A \o B
    BY <1>0, <1>4
  <2>3. /\ A \in Seq(Units) /\ Len(A) = a + 1
        /\ A[1] = [length |-> a]
        /\ \A i \in 1 .. a : A[1 + i] = [byte |-> <<1, i>>]
    BY <2>1, FieldLayout
  <2>4. /\ B \in Seq(Units) /\ Len(B) = b + 1
        /\ B[1] = [length |-> b]
        /\ \A i \in 1 .. b : B[1 + i] = [byte |-> <<2, i>>]
    BY <2>1, FieldLayout
  <2> HIDE DEF A, B
  <2>5. /\ Stream \in Seq(Units) /\ Len(Stream) = a + b + 2
        /\ \A i \in 1 .. a + 1 : Stream[i] = A[i]
        /\ \A i \in 1 .. b + 1 : Stream[a + 1 + i] = B[i]
    <3> HIDE DEF a, b
    <3>1. /\ A \o B \in Seq(Units) /\ Len(A \o B) = Len(A) + Len(B)
          /\ \A i \in 1 .. Len(A) : (A \o B)[i] = A[i]
          /\ \A i \in 1 .. Len(B) : (A \o B)[Len(A) + i] = B[i]
      <4>1. A \in Seq(Units) /\ B \in Seq(Units)
        BY <2>3, <2>4
      <4> QED BY <4>1
    <3> QED BY <2>1, <2>2, <2>3, <2>4, <3>1
  <2>6. Offset(1) = 1 /\ Offset(2) = a + 2 /\ Offset(3) = a + b + 3
    BY DEF Offset
  <2> HIDE DEF a, b
  <2>7. Stream[1] = [length |-> a] /\ Stream[a + 2] = [length |-> b]
    <3>1. 1 \in 1 .. a + 1 /\ 1 \in 1 .. b + 1 /\ a + 1 + 1 = a + 2
      BY <2>1
    <3>2. Stream[1] = A[1] /\ Stream[a + 1 + 1] = B[1]
      BY <2>5, <3>1, ZenonT(30)
    <3> QED BY <2>3, <2>4, <3>1, <3>2, Zenon
  <2>8. \A i \in 1 .. a : Stream[1 + i] = [byte |-> <<1, i>>]
    <3> SUFFICES ASSUME NEW i \in 1 .. a PROVE Stream[1 + i] = [byte |-> <<1, i>>]
      OBVIOUS
    <3>1. 1 + i \in 1 .. a + 1
      BY <2>1
    <3> QED BY <2>3, <2>5, <3>1
  <2>9. \A i \in 1 .. b : Stream[a + 2 + i] = [byte |-> <<2, i>>]
    <3> SUFFICES ASSUME NEW i \in 1 .. b PROVE Stream[a + 2 + i] = [byte |-> <<2, i>>]
      OBVIOUS
    <3>1. Stream[a + 1 + (1 + i)] = B[1 + i] /\ a + 1 + (1 + i) = a + 2 + i
      BY <2>1, <2>5
    <3> QED BY <2>4, <3>1
  <2>10. /\ \A f \in 1 .. 2 : Length(f) \in Nat
         /\ \A f \in 1 .. 3 : Offset(f) \in Nat
         /\ \A f \in 1 .. 2 : Offset(f + 1) = Offset(f) + Length(f) + 1
    BY <2>1, <2>6 DEF a, b
  <2>11. \A f \in 1 .. 2 :
           /\ Stream[Offset(f)] = [length |-> Length(f)]
           /\ \A i \in 1 .. Length(f) : Stream[Offset(f) + i] = [byte |-> <<f, i>>]
    <3>1. /\ Stream[Offset(1)] = [length |-> Length(1)]
          /\ \A i \in 1 .. Length(1) : Stream[Offset(1) + i] = [byte |-> <<1, i>>]
      BY <2>6, <2>7, <2>8 DEF a
    <3>2. /\ Stream[Offset(2)] = [length |-> Length(2)]
          /\ \A i \in 1 .. Length(2) : Stream[Offset(2) + i] = [byte |-> <<2, i>>]
      BY <2>6, <2>7, <2>9 DEF b
    <3>3. \A f \in 1 .. 2 : f = 1 \/ f = 2
      OBVIOUS
    <3> QED BY <3>1, <3>2, <3>3, Zenon
  <2>12. Codec!Format.count = 2
    BY <1>4 DEF count
  <2>13. Len(Stream) = Offset(2 + 1) - 1 /\ \A f \in 1 .. 2 + 1 : Offset(f) \in Nat
    BY <2>1, <2>5, <2>6, <2>10
  <2> QED BY <2>5, <2>10, <2>11, <2>12, <2>13, Zenon
<1> QED BY <1>0, <1>2, <1>3, <1>4

-----------------------------------------------------------------------------
(* The steps of the transport and of the reader                            *)

LEMMA CodecInit == ASSUME Codec!WellFormed PROVE Codec!Init => CodecInv
PROOF
<1> SUFFICES ASSUME Codec!Init PROVE CodecInv
  OBVIOUS
<1>1. /\ message \in Messages /\ wire = Stream /\ inbox = <<>>
      /\ left = Codec!Between /\ got = <<>> /\ outcome = "none"
  BY DEF Codec!Init, Stream
<1>2. Stream \in Seq(Units) /\ Codec!Format.count \in 0 .. 2
  BY <1>1, StreamLayout, MessageFormat
<1>3. StreamTypes
  BY <1>1, <1>2 DEF StreamTypes
<1>4. Len(got) = 0 /\ Len(inbox) = 0 /\ Taken = 0
  BY <1>1 DEF Taken, Offset
<1>5. ReadSoFar
  BY <1>1, <1>4 DEF ReadSoFar
<1>6. RestComes
  BY <1>1, <1>2, <1>4 DEF RestComes
<1> QED BY <1>1, <1>2, <1>3, <1>4, <1>5, <1>6 DEF CodecInv

\* A step that takes nothing from the stream.
LEMMA NothingTaken ==
  ASSUME CodecInv, UNCHANGED <<message, inbox, wire, got, left>>
  PROVE  /\ (outcome' \in {"none", "message", "error"}) => StreamTypes'
         /\ ReadSoFar' <=> ReadSoFar
         /\ RestComes' <=> RestComes
         /\ Codec!Format' = Codec!Format
         /\ Codec!InLimits' <=> Codec!InLimits
PROOF
<1>1. (outcome' \in {"none", "message", "error"}) => StreamTypes'
  BY DEF CodecInv, StreamTypes
<1>2. ReadSoFar' <=> ReadSoFar
  BY DEF ReadSoFar, Length
<1>3. RestComes' <=> RestComes
  BY DEF RestComes, Taken, Offset, Length, Stream
<1>4. Codec!Format' = Codec!Format
  BY DEF Codec!Format
<1>5. Codec!InLimits' <=> Codec!InLimits
  BY <1>4 DEF Codec!InLimits
<1> QED BY <1>1, <1>2, <1>3, <1>4, <1>5

\* The reader is somewhere in the stream.
LEMMA TakenIsNatural ==
  ASSUME Codec!WellFormed, CodecInv, outcome # "error"
  PROVE  Taken \in Nat
PROOF
<1> DEFINE k == Len(got)
<1>1. k \in Nat /\ k <= Codec!Format.count /\ message \in Messages /\ ReadSoFar
  BY DEF CodecInv, StreamTypes
<1>2. Codec!Format.count \in 0 .. 2
  BY <1>1, MessageFormat
<1> HIDE DEF k
<1>3. CASE left = Codec!Between
  <2>1. k + 1 \in 1 .. Codec!Format.count + 1
    BY <1>1, <1>2
  <2>2. Offset(k + 1) \in Nat /\ Offset(k + 1) >= 1
    BY <1>1, <1>2, <2>1, StreamLayout DEF Offset
  <2> QED BY <1>3, <2>2 DEF Taken, k
<1>4. CASE left # Codec!Between
  <2>1. k \in 1 .. Codec!Format.count /\ left \in 0 .. Length(k)
    BY <1>1, <1>2, <1>4 DEF ReadSoFar, k
  <2>2. Offset(k) \in Nat /\ Length(k) \in Nat
    BY <1>1, <1>2, <2>1, StreamLayout
  <2> QED BY <1>4, <2>1, <2>2 DEF Taken, k
<1> QED BY <1>3, <1>4

\* A piece of the wire is handed over.
LEMMA DeliverKeeps ==
  ASSUME Codec!WellFormed, CodecInv, NEW n \in 1 .. Len(wire), Codec!Deliver(n)
  PROVE  CodecInv'
PROOF
<1> DEFINE piece == SubSeq(wire, 1, n)
           rest == SubSeq(wire, n + 1, Len(wire))
<1>1. /\ inbox' = inbox \o piece /\ wire' = rest
      /\ UNCHANGED <<message, cut, left, got, outcome>>
  BY DEF Codec!Deliver
<1>2. wire \in Seq(Units) /\ inbox \in Seq(Units) /\ Len(wire) \in Nat /\ Len(inbox) \in Nat
  BY DEF CodecInv, StreamTypes
<1>3. /\ piece \in Seq(Units) /\ Len(piece) = n /\ \A i \in 1 .. n : piece[i] = wire[i]
      /\ rest \in Seq(Units) /\ Len(rest) = Len(wire) - n
      /\ \A i \in 1 .. Len(wire) - n : rest[i] = wire[n + i]
  BY <1>2
<1> HIDE DEF piece, rest
<1>4. /\ inbox' \in Seq(Units) /\ Len(inbox') = Len(inbox) + n
      /\ \A i \in 1 .. Len(inbox) : inbox'[i] = inbox[i]
      /\ \A i \in 1 .. n : inbox'[Len(inbox) + i] = piece[i]
  <2>1. inbox \in Seq(Units) /\ piece \in Seq(Units)
    BY <1>2, <1>3
  <2>2. /\ inbox \o piece \in Seq(Units) /\ Len(inbox \o piece) = Len(inbox) + Len(piece)
        /\ \A i \in 1 .. Len(inbox) : (inbox \o piece)[i] = inbox[i]
        /\ \A i \in 1 .. Len(piece) : (inbox \o piece)[Len(inbox) + i] = piece[i]
    BY <2>1
  <2> QED BY <1>1, <1>3, <2>2, Zenon
<1>5. StreamTypes'
  BY <1>1, <1>3, <1>4 DEF CodecInv, StreamTypes
<1>6. /\ Codec!Format' = Codec!Format /\ Taken' = Taken /\ Stream' = Stream
      /\ Codec!InLimits' <=> Codec!InLimits
      /\ ReadSoFar' <=> ReadSoFar
  BY <1>1 DEF Codec!Format, Codec!InLimits, Taken, Offset, Length, Stream, ReadSoFar
<1>7. ASSUME outcome # "error" PROVE RestComes'
  <2>1. RestComes /\ message \in Messages
    BY <1>7 DEF CodecInv, StreamTypes
  <2>2. Taken \in Int
    BY <1>7, TakenIsNatural
  <2>3. Taken + Len(inbox') + Len(wire') = Len(Stream)
    <3>1. Taken + Len(inbox) + Len(wire) = Len(Stream)
      BY <2>1 DEF RestComes
    <3>2. Len(inbox') = Len(inbox) + n /\ Len(wire') = Len(wire) - n
      BY <1>1, <1>3, <1>4
    <3> QED BY <1>2, <2>2, <3>1, <3>2
  <2>4. \A i \in 1 .. Len(inbox') : inbox'[i] = Stream[Taken + i]
    <3> SUFFICES ASSUME NEW i \in 1 .. Len(inbox') PROVE inbox'[i] = Stream[Taken + i]
      OBVIOUS
    <3>1. CASE i <= Len(inbox)
      BY <1>2, <1>4, <2>1, <3>1 DEF RestComes
    <3>2. CASE i > Len(inbox)
      <4> DEFINE j == i - Len(inbox)
      <4>1. j \in 1 .. n /\ i = Len(inbox) + j /\ Taken + i = Taken + Len(inbox) + j
        BY <1>2, <1>4, <2>2, <3>2
      <4> HIDE DEF j
      <4>2. inbox'[i] = piece[j] /\ piece[j] = wire[j] /\ j \in 1 .. Len(wire)
        BY <1>2, <1>3, <1>4, <4>1
      <4> QED BY <2>1, <4>1, <4>2 DEF RestComes
    <3> QED BY <1>2, <1>4, <3>1, <3>2
  <2>5. \A i \in 1 .. Len(wire') : wire'[i] = Stream[Taken + Len(inbox') + i]
    <3> SUFFICES ASSUME NEW i \in 1 .. Len(wire') PROVE wire'[i] = Stream[Taken + Len(inbox') + i]
      OBVIOUS
    <3>1. /\ n + i \in 1 .. Len(wire)
          /\ Taken + Len(inbox') + i = Taken + Len(inbox) + (n + i)
      BY <1>1, <1>2, <1>3, <1>4, <2>2
    <3>2. wire'[i] = wire[n + i]
      BY <1>1, <1>3
    <3> QED BY <2>1, <3>1, <3>2 DEF RestComes
  <2> QED BY <1>6, <2>3, <2>4, <2>5 DEF RestComes
<1> QED BY <1>1, <1>5, <1>6, <1>7 DEF CodecInv

\* A field that starts, or goes on, starts where the reader is.
LEMMA ReadLengthKeeps ==
  ASSUME Codec!WellFormed, CodecInv, Codec!ReadLength
  PROVE  CodecInv'
PROOF
<1> DEFINE k == Len(got)
           length == Head(inbox).length
           F == Codec!Format
<1>1. /\ outcome = "none" /\ left = Codec!Between /\ Len(got) < F.count /\ inbox # <<>>
      /\ inbox' = Tail(inbox) /\ UNCHANGED <<message, wire, cut>>
  BY DEF Codec!ReadLength, Codec!Reading
<1>2. /\ message \in Messages /\ inbox \in Seq(Units) /\ wire \in Seq(Units) /\ got \in Seq(Seq(Units))
      /\ k \in Nat /\ ReadSoFar /\ RestComes
  BY <1>1 DEF CodecInv, StreamTypes
<1>3. F.count \in 0 .. 2 /\ F.limit \in Nat /\ (F.exact = TRUE \/ F.exact = FALSE)
      /\ Len(message.fields) = F.count /\ (F.exact => Length(1) = F.limit)
  BY <1>2, MessageFormat
<1>4. k + 1 \in 1 .. F.count
  <2> HIDE DEF k, F
  <2> QED BY <1>1, <1>2, <1>3 DEF k
<1>5. Taken = Offset(k + 1) - 1
  BY <1>1 DEF Taken
<1>6. /\ Offset(k + 1) \in Nat /\ Length(k + 1) \in Nat
      /\ Stream[Offset(k + 1)] = [length |-> Length(k + 1)]
  <2>1. /\ \A f \in 1 .. F.count + 1 : Offset(f) \in Nat
        /\ \A f \in 1 .. F.count : Length(f) \in Nat /\ Stream[Offset(f)] = [length |-> Length(f)]
    BY <1>2, StreamLayout
  <2>2. k + 1 \in 1 .. F.count + 1
    BY <1>3, <1>4
  <2> QED BY <1>4, <2>1, <2>2, ZenonT(30)
<1>7. Head(inbox) = inbox[1] /\ Len(inbox) \in Nat \ {0}
      /\ Len(inbox') = Len(inbox) - 1 /\ inbox' \in Seq(Units)
      /\ \A i \in 1 .. Len(inbox) - 1 : inbox'[i] = inbox[i + 1]
  BY <1>1, <1>2
<1>8. length = Length(k + 1)
  <2>1. 1 \in 1 .. Len(inbox)
    BY <1>7
  <2>2. inbox[1] = Stream[Taken + 1]
    BY <1>2, <2>1 DEF RestComes
  <2>3. Taken + 1 = Offset(k + 1)
    <3> HIDE DEF k
    <3> QED BY <1>5, <1>6
  <2> QED BY <1>6, <1>7, <2>2, <2>3
<1> HIDE DEF k, length
<1>9. F' = F
  BY <1>1 DEF Codec!Format
<1> HIDE DEF F
<1>10. CASE IF F.exact THEN length # F.limit ELSE length > F.limit
  <2>1. outcome' = "error" /\ UNCHANGED <<left, got>>
    BY <1>10 DEF Codec!ReadLength, length, F
  <2>2. StreamTypes'
    BY <1>1, <1>2, <1>7, <2>1 DEF StreamTypes
  <2>3. F.exact = TRUE \/ ~Codec!InLimits
    BY <1>3, <1>4, <1>6, <1>8, <1>10 DEF Codec!InLimits, Length, F
  <2>4. Codec!InLimits' <=> Codec!InLimits
    BY <1>1, <1>9 DEF Codec!InLimits, F
  <2> QED BY <2>1, <2>2, <2>3, <2>4, <1>9 DEF CodecInv, F
<1>11. CASE ~(IF F.exact THEN length # F.limit ELSE length > F.limit)
  <2>1. left' = length /\ got' = Append(got, <<>>) /\ outcome' = "none"
    BY <1>1, <1>11 DEF Codec!ReadLength, length, F
  <2>2. /\ got' \in Seq(Seq(Units)) /\ Len(got') = k + 1 /\ got'[k + 1] = <<>>
        /\ \A f \in 1 .. k : got'[f] = got[f]
    BY <1>2, <2>1 DEF k
  <2>3. StreamTypes'
    BY <1>1, <1>2, <1>7, <2>1, <2>2 DEF StreamTypes
  <2>4. left' \in Nat /\ left' = Length(k + 1) /\ left' # Codec!Between
    BY <1>6, <1>8, <2>1 DEF Codec!Between
  <2>5. \A f : Length(f)' = Length(f) /\ Offset(f)' = Offset(f)
    BY <1>1 DEF Length, Offset
  <2>6. ReadSoFar'
    <3>1. Len(got') # 0 /\ left' \in 0 .. Length(Len(got'))
      BY <1>2, <2>2, <2>4
    <3>2. ASSUME NEW f \in 1 .. Len(got')
          PROVE  got'[f] = Bytes(f, IF f = Len(got') THEN Length(f) - left' ELSE Length(f))
      <4>1. CASE f = k + 1
        <5>1. Length(f) - left' = 0
          BY <1>6, <2>4, <4>1
        <5>2. Bytes(f, 0) = <<>>
          BY DEF Bytes
        <5> QED BY <2>2, <4>1, <5>1, <5>2
      <4>2. CASE f # k + 1
        <5>1. f \in 1 .. k
          BY <1>2, <2>2, <4>2
        <5>2. got[f] = Bytes(f, Length(f))
          BY <1>1, <1>2, <5>1 DEF ReadSoFar, k
        <5> QED BY <2>2, <4>2, <5>1, <5>2
      <4> QED BY <4>1, <4>2
    <3> QED BY <1>1, <2>4, <3>1, <3>2, ZenonT(30) DEF ReadSoFar, Length
  <2>7. RestComes'
    <3>1. Taken' = Taken + 1 /\ Taken \in Int
      <4>1. Taken' = Offset(k + 1) + Length(k + 1) - left'
        BY <2>2, <2>4, <2>5 DEF Taken
      <4> QED BY <1>5, <1>6, <2>4, <4>1
    <3>2. Stream' = Stream
      BY <1>1 DEF Stream
    <3>3. Len(wire) \in Nat
      BY <1>2
    <3>4. Taken + Len(inbox) + Len(wire) = Len(Stream)
      BY <1>2 DEF RestComes
    <3>5. Taken' + Len(inbox') + Len(wire') = Len(Stream')
      BY <1>1, <1>7, <3>1, <3>2, <3>3, <3>4
    <3>6. ASSUME NEW i \in 1 .. Len(inbox') PROVE inbox'[i] = Stream'[Taken' + i]
      <4>1. i + 1 \in 1 .. Len(inbox) /\ inbox'[i] = inbox[i + 1] /\ Taken' + i = Taken + (i + 1)
        <5>1. i \in Nat /\ i >= 1 /\ i <= Len(inbox) - 1
          BY <1>7
        <5>2. i \in 1 .. Len(inbox) - 1
          BY <1>7
        <5>3. inbox'[i] = inbox[i + 1]
          BY <1>7, <5>2, ZenonT(30)
        <5>4. Len(inbox) \in Nat
          BY <1>7
        <5>5. i + 1 \in 1 .. Len(inbox)
          BY <5>1, <5>4
        <5>6. Taken' + i = Taken + (i + 1)
          BY <3>1, <5>1
        <5> QED BY <5>3, <5>5, <5>6, ZenonT(30)
      <4> QED BY <1>2, <3>2, <4>1 DEF RestComes
    <3>7. ASSUME NEW i \in 1 .. Len(wire') PROVE wire'[i] = Stream'[Taken' + Len(inbox') + i]
      <4>1. wire' = wire /\ Taken' + Len(inbox') + i = Taken + Len(inbox) + i
        BY <1>1, <1>7, <3>1, <3>3
      <4> QED BY <1>2, <3>2, <4>1 DEF RestComes
    <3> QED BY <3>5, <3>6, <3>7 DEF RestComes
  <2>8. Len(got') <= Codec!Format'.count
    BY <1>3, <1>4, <1>9, <2>2 DEF F
  <2> QED BY <2>1, <2>3, <2>6, <2>7, <2>8 DEF CodecInv
<1> QED BY <1>10, <1>11

\* In a field: the reader is behind the bytes it has of it.
LEMMA InField ==
  ASSUME Codec!WellFormed, CodecInv, outcome = "none", left # Codec!Between
  PROVE  /\ Len(got) \in 1 .. Codec!Format.count /\ Length(Len(got)) \in Nat
         /\ left \in 0 .. Length(Len(got)) /\ Offset(Len(got)) \in Nat
         /\ Taken = Offset(Len(got)) + Length(Len(got)) - left /\ Taken \in Nat
         /\ got[Len(got)] = Bytes(Len(got), Length(Len(got)) - left)
         /\ \A i \in 1 .. Length(Len(got)) :
              Stream[Offset(Len(got)) + i] = [byte |-> <<Len(got), i>>]
         /\ Offset(Len(got) + 1) = Offset(Len(got)) + Length(Len(got)) + 1
PROOF
<1> DEFINE k == Len(got)
           count == Codec!Format.count
<1>1. /\ k \in Nat /\ k # 0 /\ k <= count /\ left \in 0 .. Length(k)
      /\ message \in Messages /\ ReadSoFar
  BY DEF CodecInv, StreamTypes, ReadSoFar
<1>2. count \in 0 .. 2
  BY <1>1, MessageFormat
<1>3. /\ \A f \in 1 .. count : Length(f) \in Nat /\ Offset(f + 1) = Offset(f) + Length(f) + 1
      /\ \A f \in 1 .. count + 1 : Offset(f) \in Nat
      /\ \A f \in 1 .. count : \A i \in 1 .. Length(f) : Stream[Offset(f) + i] = [byte |-> <<f, i>>]
  BY <1>1, StreamLayout, Zenon
<1>4. Taken = Offset(k) + Length(k) - left
  BY DEF Taken
<1>5. k \in 1 .. k => got[k] = Bytes(k, Length(k) - left)
  BY <1>1 DEF ReadSoFar
<1> HIDE DEF k, count
<1>6. k \in 1 .. count /\ k \in 1 .. count + 1 /\ k \in 1 .. k
  BY <1>1, <1>2
<1>7. Length(k) \in Nat /\ Offset(k) \in Nat /\ Offset(k + 1) = Offset(k) + Length(k) + 1
  BY <1>3, <1>6, Zenon
<1>8. \A i \in 1 .. Length(k) : Stream[Offset(k) + i] = [byte |-> <<k, i>>]
  BY <1>3, <1>6, ZenonT(30)
<1>9. Taken \in Nat
  BY <1>1, <1>4, <1>7
<1> QED BY <1>1, <1>4, <1>5, <1>6, <1>7, <1>8, <1>9, ZenonT(30) DEF k, count

\* As much of the field is read as there is.
LEMMA ReadBytesKeeps ==
  ASSUME Codec!WellFormed, CodecInv, Codec!ReadBytes
  PROVE  CodecInv'
PROOF
<1> DEFINE k == Len(got)
           a == Codec!Available
           piece == SubSeq(inbox, 1, a)
           field == got[k]
           have == Length(k) - left
<1>1. /\ outcome = "none" /\ left > 0 /\ inbox # <<>>
      /\ got' = [got EXCEPT ![k] = @ \o piece] /\ inbox' = SubSeq(inbox, a + 1, Len(inbox))
      /\ left' = left - a /\ UNCHANGED <<message, wire, cut>>
      /\ outcome' = IF Codec!Format.exact /\ a < left THEN "error" ELSE outcome
  BY DEF Codec!ReadBytes, Codec!Reading
<1>2. left # Codec!Between
  BY <1>1 DEF Codec!Between
<1>3. /\ k \in 1 .. Codec!Format.count /\ Length(k) \in Nat /\ left \in 0 .. Length(k)
      /\ Offset(k) \in Nat /\ Taken = Offset(k) + Length(k) - left /\ Taken \in Nat
      /\ field = Bytes(k, have)
  BY <1>1, <1>2, InField
<1>4. \A i \in 1 .. Length(k) : Stream[Offset(k) + i] = [byte |-> <<k, i>>]
  BY <1>1, <1>2, InField
<1>5. /\ message \in Messages /\ inbox \in Seq(Units) /\ wire \in Seq(Units) /\ got \in Seq(Seq(Units))
      /\ k \in Nat /\ Len(inbox) \in Nat /\ Len(wire) \in Nat /\ ReadSoFar /\ RestComes
  BY <1>1 DEF CodecInv, StreamTypes
<1>6. Codec!Format.count \in 0 .. 2
  BY <1>5, MessageFormat
<1>7. Len(inbox) # 0
  BY <1>1, <1>5
<1>8. a \in 1 .. left /\ a \in 1 .. Len(inbox)
  BY <1>1, <1>3, <1>5, <1>7 DEF Codec!Available
<1> HIDE DEF a, have
<1>9. /\ piece \in Seq(Units) /\ Len(piece) = a /\ \A i \in 1 .. a : piece[i] = inbox[i]
      /\ inbox' \in Seq(Units) /\ Len(inbox') = Len(inbox) - a
      /\ \A i \in 1 .. Len(inbox) - a : inbox'[i] = inbox[a + i]
  BY <1>1, <1>5, <1>8
<1> HIDE DEF piece
<1>10. have \in Nat /\ left \in Nat /\ have + left = Length(k) /\ have + a \in 0 .. Length(k)
       /\ left' \in 0 .. Length(k) /\ Length(k) - left' = have + a /\ left' # Codec!Between
  <2> HIDE DEF k, field
  <2>1. Length(k) \in Nat /\ left \in 0 .. Length(k) /\ have = Length(k) - left
    BY <1>3 DEF have
  <2>2. left' = left - a /\ a \in 1 .. left
    BY <1>1, <1>8
  <2>3. have \in Nat /\ left \in Nat /\ have + left = Length(k)
    BY <2>1
  <2>4. /\ have + a \in 0 .. Length(k) /\ left' \in 0 .. Length(k)
        /\ Length(k) - left' = have + a /\ left' # -1
    BY <2>1, <2>2, <2>3
  <2> QED BY <2>3, <2>4 DEF Codec!Between
<1>11. \A i \in 1 .. a : piece[i] = [byte |-> <<k, have + i>>]
  <2> SUFFICES ASSUME NEW i \in 1 .. a PROVE piece[i] = [byte |-> <<k, have + i>>]
    OBVIOUS
  <2>1. i \in 1 .. Len(inbox) /\ have + i \in 1 .. Length(k)
    <3>1. Length(k) \in Nat /\ left \in Nat /\ a \in 1 .. left /\ a \in 1 .. Len(inbox)
      BY <1>3, <1>8, <1>10
    <3>2. have \in Nat /\ have + left = Length(k) /\ Len(inbox) \in Nat
      BY <1>5, <1>10
    <3> HIDE DEF k, field
    <3> QED BY <3>1, <3>2
  <2>2. inbox[i] = Stream[Taken + i]
    BY <1>5, <2>1 DEF RestComes
  <2>3. Taken + i = Offset(k) + (have + i)
    <3> HIDE DEF k, field
    <3>1. Offset(k) \in Nat /\ Length(k) \in Nat /\ Taken = Offset(k) + Length(k) - left
      BY <1>3
    <3>2. have \in Nat /\ left \in Nat /\ have + left = Length(k) /\ a \in Nat
      BY <1>8, <1>10
    <3> QED BY <3>1, <3>2
  <2>4. Stream[Offset(k) + (have + i)] = [byte |-> <<k, have + i>>]
    BY <1>4, <2>1
  <2> QED BY <1>9, <2>2, <2>3, <2>4
<1> HIDE DEF field
<1>12. field \in Seq(Units) /\ Len(field) = have /\ \A i \in 1 .. have : field[i] = [byte |-> <<k, i>>]
  <2>1. field \in Seq(Units)
    BY <1>3, <1>5 DEF field
  <2> QED BY <1>3, <1>10, <2>1 DEF Bytes
<1>13. field \o piece = Bytes(k, have + a)
  <2>1. piece \in Seq(Units) /\ field \in Seq(Units)
    BY <1>9, <1>12
  <2>2. /\ field \o piece \in Seq(Units) /\ Len(field \o piece) = Len(field) + Len(piece)
        /\ \A i \in 1 .. Len(field) : (field \o piece)[i] = field[i]
        /\ \A i \in 1 .. Len(piece) : (field \o piece)[Len(field) + i] = piece[i]
    BY <2>1
  <2> DEFINE both == field \o piece
  <2>3. /\ both \in Seq(Units) /\ Len(both) = have + a
        /\ \A i \in 1 .. have : both[i] = field[i]
        /\ \A i \in 1 .. a : both[have + i] = piece[i]
    BY <1>9, <1>12, <2>2, ZenonT(30)
  <2> HIDE DEF both
  <2>4. ASSUME NEW i \in 1 .. have + a PROVE both[i] = [byte |-> <<k, i>>]
    <3>1. CASE i <= have
      <4>1. i \in 1 .. have
        BY <1>10, <3>1
      <4> QED BY <1>12, <2>3, <4>1
    <3>2. CASE i > have
      <4>1. i - have \in 1 .. a /\ have + (i - have) = i
        BY <1>8, <1>10, <3>2
      <4>2. both[have + (i - have)] = piece[i - have] /\ piece[i - have] = [byte |-> <<k, have + (i - have)>>]
        BY <1>11, <2>3, <4>1, ZenonT(30)
      <4> QED BY <4>1, <4>2
    <3> QED BY <1>10, <3>1, <3>2
  <2>5. both = Bytes(k, have + a)
    BY <1>8, <1>10, <2>3, <2>4 DEF Bytes
  <2> QED BY <2>5 DEF both
<1> HIDE DEF k
<1>14. /\ got' \in Seq(Seq(Units)) /\ Len(got') = k /\ got'[k] = field \o piece
       /\ \A f \in 1 .. k : f # k => got'[f] = got[f]
  <2>1. field \o piece \in Seq(Units)
    BY <1>9, <1>12
  <2>2. got' = [got EXCEPT ![k] = field \o piece] /\ k \in 1 .. Len(got) /\ k = Len(got)
    BY <1>1, <1>3, <1>5 DEF k, field
  <2> QED BY <1>5, <2>1, <2>2
<1>15. StreamTypes'
  BY <1>1, <1>5, <1>9, <1>14 DEF StreamTypes
<1>16. Codec!Format' = Codec!Format
  BY <1>1 DEF Codec!Format
<1>17. ReadSoFar'
  <2>1. Len(got') # 0 /\ left' \in 0 .. Length(Len(got'))
    BY <1>3, <1>10, <1>14
  <2>2. ASSUME NEW f \in 1 .. Len(got')
        PROVE  got'[f] = Bytes(f, IF f = Len(got') THEN Length(f) - left' ELSE Length(f))
    <3>1. CASE f = k
      BY <1>10, <1>13, <1>14, <3>1
    <3>2. CASE f # k
      <4>1. got[f] = Bytes(f, Length(f))
        BY <1>5, <1>14, <3>2 DEF ReadSoFar, k
      <4> QED BY <1>14, <3>2, <4>1
    <3> QED BY <3>1, <3>2
  <2> QED BY <1>1, <1>10, <2>1, <2>2, ZenonT(30) DEF ReadSoFar, Length
<1>18. RestComes'
  <2>1. Taken' = Taken + a
    <3>1. Taken' = Offset(k) + Length(k) - left'
      BY <1>1, <1>10, <1>14, ZenonT(30) DEF Taken, Offset, Length
    <3>2. Offset(k) \in Nat /\ Length(k) \in Nat /\ Taken = Offset(k) + Length(k) - left
      BY <1>3
    <3>3. left \in Nat /\ a \in Nat /\ left' = left - a
      BY <1>1, <1>8, <1>10
    <3> QED BY <3>1, <3>2, <3>3
  <2>2. Stream' = Stream /\ wire' = wire
    BY <1>1 DEF Stream
  <2>3. Taken + Len(inbox) + Len(wire) = Len(Stream)
    BY <1>5 DEF RestComes
  <2>4. Taken' + Len(inbox') + Len(wire') = Len(Stream')
    <3>1. Taken \in Nat /\ a \in Nat /\ Len(inbox) \in Nat /\ Len(wire) \in Nat
      BY <1>3, <1>5, <1>8
    <3>2. Len(inbox') = Len(inbox) - a /\ Len(wire') = Len(wire) /\ Len(Stream') = Len(Stream)
      BY <1>9, <2>2
    <3> QED BY <2>1, <2>3, <3>1, <3>2
  <2>5. ASSUME NEW i \in 1 .. Len(inbox') PROVE inbox'[i] = Stream'[Taken' + i]
    <3>1. i \in 1 .. Len(inbox) - a
      BY <1>9
    <3>2. a + i \in 1 .. Len(inbox) /\ Taken' + i = Taken + (a + i)
      BY <1>3, <1>5, <1>8, <2>1, <3>1
    <3>3. inbox'[i] = inbox[a + i]
      BY <1>9, <3>1, ZenonT(30)
    <3>4. inbox[a + i] = Stream[Taken + (a + i)]
      BY <1>5, <3>2 DEF RestComes
    <3> QED BY <2>2, <3>2, <3>3, <3>4
  <2>6. ASSUME NEW i \in 1 .. Len(wire') PROVE wire'[i] = Stream'[Taken' + Len(inbox') + i]
    <3>1. Taken' + Len(inbox') + i = Taken + Len(inbox) + i
      BY <1>3, <1>5, <1>8, <1>9, <2>1, <2>2
    <3>2. i \in 1 .. Len(wire)
      BY <2>2
    <3>3. wire[i] = Stream[Taken + Len(inbox) + i]
      BY <1>5, <3>2 DEF RestComes
    <3> QED BY <2>2, <3>1, <3>3
  <2> QED BY <2>4, <2>5, <2>6 DEF RestComes
<1>19. Len(got') <= Codec!Format'.count
  BY <1>3, <1>6, <1>14, <1>16
<1>20. outcome' \in {"none", "error"} /\ (outcome' = "error" => Codec!Format'.exact)
  BY <1>1, <1>16
<1> QED BY <1>15, <1>17, <1>18, <1>19, <1>20 DEF CodecInv

\* The end of a field, of the message, or of the stream.
LEMMA EndFieldKeeps ==
  ASSUME Codec!WellFormed, CodecInv, Codec!EndField
  PROVE  CodecInv'
PROOF
<1> DEFINE k == Len(got)
<1>1. /\ outcome = "none" /\ left = 0 /\ left' = Codec!Between
      /\ UNCHANGED <<message, wire, inbox, cut, got>>
      /\ outcome' = IF got[k] = <<>> THEN "error" ELSE outcome
  BY DEF Codec!EndField, Codec!Reading
<1>2. left # Codec!Between
  BY <1>1 DEF Codec!Between
<1>3. /\ k \in 1 .. Codec!Format.count /\ Length(k) \in Nat /\ Offset(k) \in Nat
      /\ Taken = Offset(k) + Length(k) - left /\ got[k] = Bytes(k, Length(k) - left)
      /\ Offset(k + 1) = Offset(k) + Length(k) + 1
  BY <1>1, <1>2, InField
<1>4. got[k] = Bytes(k, Length(k))
  <2>1. Length(k) - left = Length(k)
    BY <1>1, <1>3
  <2> QED BY <1>3, <2>1
<1>5. ReadSoFar /\ RestComes /\ Len(got) <= Codec!Format.count /\ StreamTypes
  BY <1>1 DEF CodecInv
<1>6. /\ Codec!Format' = Codec!Format /\ Stream' = Stream /\ (Codec!InLimits' <=> Codec!InLimits)
      /\ \A f : Length(f)' = Length(f)
  BY <1>1 DEF Codec!Format, Stream, Codec!InLimits, Length
<1>7. StreamTypes'
  BY <1>1, <1>5 DEF StreamTypes
<1>8. ReadSoFar'
  <2>1. \A f \in 1 .. Len(got) : got[f] = Bytes(f, Length(f))
    BY <1>4, <1>5 DEF ReadSoFar
  <2> QED BY <1>1, <1>6, <2>1 DEF ReadSoFar
<1>9. Taken' = Taken
  <2>1. Taken' = Offset(k + 1) - 1
    BY <1>1 DEF Taken, Offset, Length
  <2>2. Taken = Offset(k) + Length(k) - 0
    BY <1>1, <1>3
  <2> HIDE DEF k
  <2> QED BY <1>3, <2>1, <2>2
<1>10. RestComes'
  BY <1>1, <1>5, <1>6, <1>9 DEF RestComes
<1>11. outcome' = "error" => ~Codec!InLimits
  <2> SUFFICES ASSUME got[k] = <<>> PROVE ~Codec!InLimits
    BY <1>1
  <2>1. DOMAIN Bytes(k, Length(k)) = {}
    BY <1>4
  <2>2. Length(k) = 0
    <3>1. 1 .. Length(k) = {}
      BY <2>1, ZenonT(30) DEF Bytes
    <3> HIDE DEF k
    <3> QED BY <1>3, <3>1
  <2>3. Len(message.fields) = Codec!Format.count
    BY <1>5, MessageFormat DEF StreamTypes
  <2> QED BY <1>3, <2>2, <2>3 DEF Codec!InLimits, Length
<1>12. outcome' \in {"none", "error"}
  BY <1>1
<1> QED BY <1>1, <1>5, <1>6, <1>7, <1>8, <1>10, <1>11, <1>12 DEF CodecInv

LEMMA EndMessageKeeps ==
  ASSUME CodecInv, Codec!EndMessage
  PROVE  CodecInv'
PROOF
<1>1. /\ outcome = "none" /\ left = Codec!Between /\ Len(got) = Codec!Format.count
      /\ outcome' = "message" /\ UNCHANGED <<message, wire, inbox, cut, left, got>>
  BY DEF Codec!EndMessage, Codec!Reading
<1>2. StreamTypes' /\ (ReadSoFar' <=> ReadSoFar) /\ (RestComes' <=> RestComes)
      /\ Codec!Format' = Codec!Format
  BY <1>1, NothingTaken
<1> QED BY <1>1, <1>2 DEF CodecInv

\* At the end of a stream that was not cut off the whole message has been read.
LEMMA UnexpectedEofKeeps ==
  ASSUME Codec!WellFormed, CodecInv, Codec!UnexpectedEof
  PROVE  CodecInv'
PROOF
<1> DEFINE k == Len(got)
           count == Codec!Format.count
<1>1. /\ outcome = "none" /\ inbox = <<>> /\ (cut \/ wire = <<>>)
      /\ IF left = Codec!Between THEN k < count ELSE left # 0
      /\ outcome' = "error" /\ UNCHANGED <<message, wire, inbox, cut, left, got>>
  BY DEF Codec!UnexpectedEof, Codec!Reading, Codec!AtEnd
<1>2. StreamTypes' /\ Codec!Format' = Codec!Format
  BY <1>1, NothingTaken
<1>3. /\ message \in Messages /\ k \in Nat /\ Taken + Len(inbox) + Len(wire) = Len(Stream)
      /\ Len(inbox) = 0 /\ Taken \in Nat
  BY <1>1, TakenIsNatural DEF CodecInv, StreamTypes, RestComes
<1>4. /\ count \in 0 .. 2 /\ Len(Stream) = Offset(count + 1) - 1
      /\ \A f \in 1 .. count : Length(f) \in Nat
  BY <1>3, MessageFormat, StreamLayout
<1>5. ASSUME wire = <<>> PROVE FALSE
  <2>1. Taken = Offset(count + 1) - 1
    BY <1>3, <1>4, <1>5
  <2>2. CASE left = Codec!Between
    <3>1. Taken = Offset(k + 1) - 1 /\ k < count
      BY <1>1, <2>2 DEF Taken
    <3> HIDE DEF k, count
    <3>2. \/ k = 0 /\ count = 1
          \/ k = 0 /\ count = 2
          \/ k = 1 /\ count = 2
      BY <1>3, <1>4, <3>1
    <3>3. Length(1) \in Nat /\ (count = 2 => Length(2) \in Nat)
      BY <1>4, <3>2
    <3>4. Offset(1) = 1 /\ Offset(2) = Length(1) + 2 /\ Offset(3) = Length(1) + Length(2) + 3
      BY DEF Offset
    <3>5. Offset(k + 1) # Offset(count + 1)
      BY <3>2, <3>3, <3>4
    <3>6. Offset(k + 1) \in Nat /\ Offset(count + 1) \in Nat
      BY <3>2, <3>3, <3>4
    <3> QED BY <2>1, <3>1, <3>5, <3>6
  <2>3. CASE left # Codec!Between
    <3>1. /\ k \in 1 .. count /\ Length(k) \in Nat /\ left \in 0 .. Length(k) /\ Offset(k) \in Nat
          /\ Taken = Offset(k) + Length(k) - left
          /\ Offset(k + 1) = Offset(k) + Length(k) + 1
      BY <1>1, <2>3, InField
    <3>2. left # 0
      BY <1>1, <2>3
    <3> HIDE DEF k, count
    <3>3. Taken < Offset(k + 1) - 1 /\ Offset(k + 1) \in Nat
      BY <3>1, <3>2
    <3>4. \/ k = count
          \/ k = 1 /\ count = 2
      BY <1>4, <3>1
    <3>5. CASE k = count
      BY <1>3, <2>1, <3>3, <3>5
    <3>6. CASE k = 1 /\ count = 2
      <4>1. Length(1) \in Nat /\ Length(2) \in Nat
        BY <1>4, <3>6
      <4>2. Offset(2) = Length(1) + 2 /\ Offset(3) = Length(1) + Length(2) + 3
        BY DEF Offset
      <4> QED BY <1>3, <2>1, <3>3, <3>6, <4>1, <4>2
    <3> QED BY <3>4, <3>5, <3>6
  <2> QED BY <2>2, <2>3
<1> QED BY <1>1, <1>2, <1>5 DEF CodecInv

LEMMA CodecStep == ASSUME Codec!WellFormed PROVE CodecInv /\ [Codec!Next]_(Codec!vars) => CodecInv'
PROOF
<1> SUFFICES ASSUME CodecInv, [Codec!Next]_(Codec!vars) PROVE CodecInv'
  OBVIOUS
<1>1. CASE UNCHANGED Codec!vars
  <2>1. UNCHANGED <<message, wire, inbox, cut, left, got, outcome>>
    BY <1>1 DEF Codec!vars
  <2>2. /\ outcome' \in {"none", "message", "error"} => StreamTypes'
        /\ (ReadSoFar' <=> ReadSoFar) /\ (RestComes' <=> RestComes)
        /\ Codec!Format' = Codec!Format /\ (Codec!InLimits' <=> Codec!InLimits)
    BY <2>1, NothingTaken
  <2> QED BY <2>1, <2>2 DEF CodecInv, StreamTypes
<1>2. CASE Codec!Cut
  <2>1. cut' = TRUE /\ UNCHANGED <<message, wire, inbox, left, got, outcome>>
    BY <1>2 DEF Codec!Cut
  <2>2. /\ outcome' \in {"none", "message", "error"} => StreamTypes'
        /\ (ReadSoFar' <=> ReadSoFar) /\ (RestComes' <=> RestComes)
        /\ Codec!Format' = Codec!Format
    BY <2>1, NothingTaken
  <2> QED BY <2>1, <2>2 DEF CodecInv, StreamTypes
<1> QED BY <1>1, <1>2, DeliverKeeps, ReadLengthKeeps, ReadBytesKeeps, EndFieldKeeps,
           EndMessageKeeps, UnexpectedEofKeeps DEF Codec!Next

LEMMA CodecInvariant == ASSUME Codec!WellFormed PROVE Codec!Spec => []CodecInv
PROOF
<1>1. Codec!Init => CodecInv
  BY CodecInit
<1>2. CodecInv /\ [Codec!Next]_(Codec!vars) => CodecInv'
  BY CodecStep
<1> QED BY <1>1, <1>2, PTL DEF Codec!Spec

\* Whatever the sizes of the fields and of the pieces the transport hands over,
\* and wherever it is cut off, the codec of each of the five protocols returns
\* the message that was written or an error, never a part of it.
THEOREM MessagesReadWhole ==
  ASSUME Codec!WellFormed
  PROVE  Codec!Spec => []Codec!ReadIsWritten
PROOF
<1>1. CodecInv => Codec!ReadIsWritten
  <2> SUFFICES ASSUME CodecInv, outcome = "message" PROVE got = Codec!Fields(message)
    BY DEF Codec!ReadIsWritten
  <2>1. /\ left = Codec!Between /\ Len(got) = Codec!Format.count /\ ReadSoFar
        /\ message \in Messages /\ got \in Seq(Seq(Units))
    BY DEF CodecInv, StreamTypes
  <2>2. Len(message.fields) = Codec!Format.count
    BY <2>1, MessageFormat
  <2>3. \A f \in 1 .. Len(got) : got[f] = Bytes(f, Length(f))
    BY <2>1 DEF ReadSoFar
  <2>4. got = [f \in 1 .. Len(got) |-> Bytes(f, Length(f))]
    BY <2>1, <2>3
  <2>5. Codec!Fields(message) = [f \in 1 .. Len(message.fields) |-> Bytes(f, Length(f))]
    BY DEF Codec!Fields, Bytes, Length
  <2> QED BY <2>1, <2>2, <2>4, <2>5
<1> QED BY <1>1, CodecInvariant, PTL

\* No response of the idle metric protocol, whose codec reads only once.
Repeating == \A m \in Messages : ~Codec!Reader(m.codec).exact

\* read_length_prefixed and read_exact wait for all of a message: one within the
\* limits, whose connection is not lost, is never refused, in however many pieces
\* it arrives.
THEOREM ArrivedMessagesRead ==
  ASSUME Codec!WellFormed, Repeating
  PROVE  Codec!Spec => []Codec!ArrivedIsRead
PROOF
<1>1. CodecInv => Codec!ArrivedIsRead
  BY DEF CodecInv, StreamTypes, Codec!ArrivedIsRead, Codec!Format, Repeating
<1> QED BY <1>1, CodecInvariant, PTL

-----------------------------------------------------------------------------
(***************************************************************************)
(* NodeStart: for any number of starts, stops, failures of the set-up and  *)
(* kills in the middle of writing the key file, a node keeps its identity, *)
(* as long as reading and writing the file do not fail.                    *)
(***************************************************************************)

CONSTANTS FirstNode, MaxKeys, StartFaults
VARIABLES keyFile, stage, key, peerKey, genesis, fresh, past

Start == INSTANCE NodeStart WITH file <- keyFile, Faults <- StartFaults

\* The actions of NodeStart, which the proofs expand together.
USE DEF Start!Absent, Start!Torn, Start!Keys

-----------------------------------------------------------------------------
(* Types                                                                   *)

\* What is known of the key in hand at each stage; TypeOK alone is not inductive.
KeyInHand ==
  /\ stage \notin {"down", "get_chain_key"} => key \in Start!Keys
  /\ stage \in {"get_chain_key", "saving_chain_key", "create_blockchain", "create_services", "listen"}
       => peerKey \in Start!Keys
  /\ fresh \in 0 .. MaxKeys

\* From the moment the swarm is created a node has a peer id, whatever fails.
THEOREM StartTypes == ASSUME Start!Bounded PROVE Start!Spec => []Start!TypeOK
<1> DEFINE IInv == Start!TypeOK /\ KeyInHand
<1>1. Start!Init => IInv
  BY Start!Bounded DEF Start!Bounded, Start!Init, Start!TypeOK, KeyInHand
<1>2. IInv /\ [Start!Next]_(Start!vars) => IInv'
  <2> SUFFICES ASSUME Start!TypeOK, KeyInHand, [Start!Next]_(Start!vars)
               PROVE  Start!TypeOK' /\ KeyInHand'
    OBVIOUS
  <2> USE Start!Bounded DEF Start!Bounded, Start!TypeOK, KeyInHand
  <2>1. CASE Start!GetPeerKey
    <3>1. CASE Start!Load("down", "create_swarm")
      BY <3>1 DEF Start!Load
    <3>2. CASE Start!Generate("down", "saving_peer_key")
      BY <3>2 DEF Start!Generate
    <3>3. CASE Start!Save("saving_peer_key", "create_swarm")
      BY <3>3 DEF Start!Save
    <3> QED BY <2>1, <3>1, <3>2, <3>3 DEF Start!GetPeerKey, Start!LoadOrGenerate
  <2>2. CASE Start!CreateSwarm
    BY <2>2 DEF Start!CreateSwarm
  <2>3. CASE Start!GetChainKey
    <3>1. CASE Start!Load("get_chain_key", "create_blockchain")
      BY <3>1 DEF Start!Load
    <3>2. CASE Start!Generate("get_chain_key", "saving_chain_key")
      BY <3>2 DEF Start!Generate
    <3>3. CASE Start!Save("saving_chain_key", "create_blockchain")
      BY <3>3 DEF Start!Save
    <3> QED BY <2>3, <3>1, <3>2, <3>3 DEF Start!GetChainKey, Start!LoadOrGenerate
  <2>4. CASE Start!CreateBlockchain
    BY <2>4 DEF Start!CreateBlockchain
  <2>5. CASE Start!CreateServices
    BY <2>5, ZenonT(30) DEF Start!CreateServices
  <2>6. CASE Start!End
    BY <2>6 DEF Start!End
  <2>7. CASE UNCHANGED Start!vars
    BY <2>7 DEF Start!vars
  <2> QED BY <2>1, <2>2, <2>3, <2>4, <2>5, <2>6, <2>7 DEF Start!Next
<1> QED BY <1>1, <1>2, PTL DEF Start!Spec

-----------------------------------------------------------------------------
(* One identity                                                            *)

\* Reading and writing the file with the key pair do not fail.
FileWorks == "read" \notin StartFaults /\ "write" \notin StartFaults

\* Once the peer key is loaded or saved the file holds it until the end of the process,
\* so the second load_or_generate_ed25519 of the first node finds the same key pair and
\* never generates one; and whoever has seen the node, or its genesis block, has seen
\* the key pair that is in the file.
FileIsIdentity ==
  /\ keyFile \in Int
  /\ stage = "create_swarm" => key = keyFile /\ keyFile > Start!Torn
  /\ stage \in {"get_chain_key", "create_blockchain", "create_services", "listen"}
       => peerKey = keyFile /\ keyFile > Start!Torn
  /\ stage = "create_blockchain" => key = keyFile
  /\ stage # "saving_chain_key"
  /\ genesis # Start!Absent => genesis = keyFile /\ keyFile > Start!Torn
  /\ \A k \in past : k = keyFile /\ keyFile > Start!Torn
  /\ fresh \in Nat
  /\ stage = "saving_peer_key" => key \in Nat /\ key > Start!Torn /\ keyFile = Start!Torn

LEMMA FileKept == ASSUME FileWorks PROVE Start!Spec => []FileIsIdentity
<1>1. Start!Init => FileIsIdentity
  BY DEF Start!Init, FileIsIdentity
<1>2. FileIsIdentity /\ [Start!Next]_(Start!vars) => FileIsIdentity'
  <2> SUFFICES ASSUME FileIsIdentity, [Start!Next]_(Start!vars)
               PROVE  FileIsIdentity'
    OBVIOUS
  <2> USE FileWorks DEF FileIsIdentity, FileWorks
  <2>1. CASE Start!GetPeerKey
    <3>1. CASE Start!Load("down", "create_swarm")
      BY <3>1 DEF Start!Load
    <3>2. CASE Start!Generate("down", "saving_peer_key")
      <4>1. keyFile \in {Start!Absent, Start!Torn}
        BY <3>2 DEF Start!Generate, Start!CannotLoad
      <4>2. ~(keyFile > Start!Torn)
        BY <4>1
      <4>3. genesis = Start!Absent /\ past = {}
        BY <4>2
      <4> QED BY <3>2, <4>3 DEF Start!Generate
    <3>3. CASE Start!Save("saving_peer_key", "create_swarm")
      BY <3>3 DEF Start!Save
    <3> QED BY <2>1, <3>1, <3>2, <3>3 DEF Start!GetPeerKey, Start!LoadOrGenerate
  <2>2. CASE Start!CreateSwarm
    BY <2>2 DEF Start!CreateSwarm
  <2>3. CASE Start!GetChainKey
    <3>1. CASE Start!Load("get_chain_key", "create_blockchain")
      BY <3>1 DEF Start!Load
    <3>2. ~Start!Generate("get_chain_key", "saving_chain_key")
      <4>1. keyFile > Start!Torn => keyFile \notin {Start!Absent, Start!Torn}
        BY DEF Start!Absent, Start!Torn
      <4> QED BY <4>1 DEF Start!Generate, Start!CannotLoad
    <3>3. ~Start!Save("saving_chain_key", "create_blockchain")
      BY DEF Start!Save
    <3> QED BY <2>3, <3>1, <3>2, <3>3, ZenonT(30) DEF Start!GetChainKey, Start!LoadOrGenerate
  <2>4. CASE Start!CreateBlockchain
    BY <2>4 DEF Start!CreateBlockchain
  <2>5. CASE Start!CreateServices
    BY <2>5 DEF Start!CreateServices
  <2>6. CASE Start!End
    BY <2>6 DEF Start!End
  <2>7. CASE UNCHANGED Start!vars
    BY <2>7 DEF Start!vars
  <2> QED BY <2>1, <2>2, <2>3, <2>4, <2>5, <2>6, <2>7 DEF Start!Next
<1> QED BY <1>1, <1>2, PTL DEF Start!Spec

\* A node that other nodes have seen has the same peer id at every later start, whenever
\* it is killed: load_or_generate_ed25519 generates a key pair only while nobody has seen
\* one.
THEOREM SameIdentity == ASSUME FileWorks PROVE Start!Spec => []Start!IdentityKept
<1>1. FileIsIdentity => Start!IdentityKept
  BY DEF FileIsIdentity, Start!IdentityKept
<1> QED BY <1>1, FileKept, PTL

\* The genesis block is signed with the key pair of the node's peer id, although main
\* loads the key pair a second time for it.
THEOREM GenesisByPeer == ASSUME FileWorks PROVE Start!Spec => []Start!CommitterIsPeer
<1>1. FileIsIdentity => Start!CommitterIsPeer
  BY DEF FileIsIdentity, Start!CommitterIsPeer
<1> QED BY <1>1, FileKept, PTL

==============================================================================
