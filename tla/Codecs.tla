------------------------------- MODULE Codecs -------------------------------
(***************************************************************************)
(* The codecs of the five request-response protocols: what one peer writes  *)
(* on a stream and what the other reads from it, while the transport hands  *)
(* the bytes over in pieces of any size and may be cut off.                 *)
(*                                                                         *)
(* A message is a sequence of fields; a field is written as its length and  *)
(* then its bytes.  One unit of length stands for many bytes.               *)
(***************************************************************************)
EXTENDS Integers, Sequences

CONSTANTS
  Messages,     \* what is sent: [codec |-> ..., fields |-> lengths of the fields]
  IdLimit,      \* 1_000_000 bytes: ids, build ids, build status
  DataLimit,    \* 100_000_000 bytes: an artifact
  BlockLimit,   \* BLOCKCHAIN_MAX_SIZE_PER_MESSAGE: blocks
  MetricSize    \* 8 bytes: a float

\* How a message is read: the number of fields and their limit, with
\* read_length_prefixed, or the one field of the metric, with a single read.
Prefixed(count, limit) == [count |-> count, limit |-> limit, exact |-> FALSE]
Single(size) == [count |-> 1, limit |-> size, exact |-> TRUE]

ReadArtifactRequest == Prefixed(1, IdLimit)
ReadArtifactResponse == Prefixed(1, DataLimit)
ReadBuildRequest == Prefixed(2, IdLimit)
ReadBuildResponse == Prefixed(1, IdLimit)
ReadBuildStatusRequest == Prefixed(1, IdLimit)
ReadBuildStatusResponse == Prefixed(1, IdLimit)
ReadBlockchainRequest == Prefixed(1, BlockLimit)
ReadBlockchainResponse == Prefixed(1, BlockLimit)
ReadIdleMetricRequest == Prefixed(0, 0)
ReadIdleMetricResponse == Single(MetricSize)

Reader(codec) ==
  CASE codec = "ArtifactRequest" -> ReadArtifactRequest
    [] codec = "ArtifactResponse" -> ReadArtifactResponse
    [] codec = "BuildRequest" -> ReadBuildRequest
    [] codec = "BuildResponse" -> ReadBuildResponse
    [] codec = "BuildStatusRequest" -> ReadBuildStatusRequest
    [] codec = "BuildStatusResponse" -> ReadBuildStatusResponse
    [] codec = "BlockchainRequest" -> ReadBlockchainRequest
    [] codec = "BlockchainResponse" -> ReadBlockchainResponse
    [] codec = "IdleMetricRequest" -> ReadIdleMetricRequest
    [] codec = "IdleMetricResponse" -> ReadIdleMetricResponse

Names == {"ArtifactRequest", "ArtifactResponse", "BuildRequest", "BuildResponse",
          "BuildStatusRequest", "BuildStatusResponse", "BlockchainRequest",
          "BlockchainResponse", "IdleMetricRequest", "IdleMetricResponse"}

\* A message has the fields of its type; a metric is a float.
WellFormed ==
  /\ {IdLimit, DataLimit, BlockLimit, MetricSize} \subseteq Nat \ {0}
  /\ \A m \in Messages :
       /\ m.codec \in Names
       /\ m.fields \in Seq(Nat) /\ Len(m.fields) = Reader(m.codec).count
       /\ m.codec = "IdleMetricResponse" => m.fields[1] = MetricSize

ASSUME CodecsAssumption == WellFormed

VARIABLES
  message,   \* the message on its way
  wire,      \* what is written and not yet delivered
  inbox,     \* what is delivered and not yet read
  cut,       \* whether the connection was lost
  left,      \* bytes of the current field still to read, or Between
  got,       \* the fields read so far
  outcome    \* none, message or error

vars == <<message, wire, inbox, cut, left, got, outcome>>

Between == -1

Field(f, length) == <<[length |-> length]>> \o [i \in 1 .. length |-> [byte |-> <<f, i>>]]

\* The write_ functions: write_length_prefixed for each field.
WriteArtifactRequest(fields) == Field(1, fields[1])
WriteArtifactResponse(fields) == Field(1, fields[1])
WriteBuildRequest(fields) == Field(1, fields[1]) \o Field(2, fields[2])
WriteBuildResponse(fields) == Field(1, fields[1])
WriteBuildStatusRequest(fields) == Field(1, fields[1])
WriteBuildStatusResponse(fields) == Field(1, fields[1])
WriteBlockchainRequest(fields) == Field(1, fields[1])
WriteBlockchainResponse(fields) == Field(1, fields[1])
WriteIdleMetricRequest(fields) == <<>>
WriteIdleMetricResponse(fields) == Field(1, MetricSize)

Written(m) ==
  CASE m.codec = "ArtifactRequest" -> WriteArtifactRequest(m.fields)
    [] m.codec = "ArtifactResponse" -> WriteArtifactResponse(m.fields)
    [] m.codec = "BuildRequest" -> WriteBuildRequest(m.fields)
    [] m.codec = "BuildResponse" -> WriteBuildResponse(m.fields)
    [] m.codec = "BuildStatusRequest" -> WriteBuildStatusRequest(m.fields)
    [] m.codec = "BuildStatusResponse" -> WriteBuildStatusResponse(m.fields)
    [] m.codec = "BlockchainRequest" -> WriteBlockchainRequest(m.fields)
    [] m.codec = "BlockchainResponse" -> WriteBlockchainResponse(m.fields)
    [] m.codec = "IdleMetricRequest" -> WriteIdleMetricRequest(m.fields)
    [] m.codec = "IdleMetricResponse" -> WriteIdleMetricResponse(m.fields)

Init ==
  /\ message \in Messages
  /\ wire = Written(message)
  /\ inbox = <<>>
  /\ cut = FALSE
  /\ left = Between
  /\ got = <<>>
  /\ outcome = "none"

-----------------------------------------------------------------------------
(* The transport                                                           *)

Deliver(n) ==
  /\ ~cut
  /\ n \in 1 .. Len(wire)
  /\ inbox' = inbox \o SubSeq(wire, 1, n)
  /\ wire' = SubSeq(wire, n + 1, Len(wire))
  /\ UNCHANGED <<message, cut, left, got, outcome>>

Cut ==
  /\ ~cut
  /\ wire # <<>>
  /\ cut' = TRUE
  /\ UNCHANGED <<message, wire, inbox, left, got, outcome>>

-----------------------------------------------------------------------------
(* The reader                                                              *)

Reading == outcome = "none"
Format == Reader(message.codec)
AtEnd == inbox = <<>> /\ (cut \/ wire = <<>>)

\* Mutant: a length at the limit is refused.
ReadLengthBelow ==
  /\ Reading
  /\ left = Between
  /\ Len(got) < Format.count
  /\ inbox # <<>>
  /\ IF Head(inbox).length >= Format.limit THEN outcome' = "error" /\ UNCHANGED <<left, got>>
     ELSE left' = Head(inbox).length /\ got' = Append(got, <<>>) /\ UNCHANGED outcome
  /\ inbox' = Tail(inbox)
  /\ UNCHANGED <<message, wire, cut>>

\* The varint of the length is read byte by byte; a length beyond the limit, or
\* another one than that of the metric, is an error.
ReadLength ==
  /\ Reading
  /\ left = Between
  /\ Len(got) < Format.count
  /\ inbox # <<>>
  /\ LET length == Head(inbox).length
         bad == IF Format.exact THEN length # Format.limit ELSE length > Format.limit
     IN  IF bad THEN outcome' = "error" /\ UNCHANGED <<left, got>>
         ELSE left' = length /\ got' = Append(got, <<>>) /\ UNCHANGED outcome
  /\ inbox' = Tail(inbox)
  /\ UNCHANGED <<message, wire, cut>>

Available == IF Len(inbox) < left THEN Len(inbox) ELSE left

\* Mutant: what is there is taken for the whole field.
ReadBytesOnce ==
  /\ Reading
  /\ left > 0
  /\ inbox # <<>>
  /\ got' = [got EXCEPT ![Len(got)] = @ \o SubSeq(inbox, 1, Available)]
  /\ inbox' = SubSeq(inbox, Available + 1, Len(inbox))
  /\ left' = 0
  /\ UNCHANGED <<message, wire, cut, outcome>>

\* read_exact: again and again until the field is complete.  The codec of the
\* metric calls read once, and gives up when that is not all of it.
ReadBytes ==
  /\ Reading
  /\ left > 0
  /\ inbox # <<>>
  /\ got' = [got EXCEPT ![Len(got)] = @ \o SubSeq(inbox, 1, Available)]
  /\ inbox' = SubSeq(inbox, Available + 1, Len(inbox))
  /\ left' = left - Available
  /\ outcome' = IF Format.exact /\ Available < left THEN "error" ELSE outcome
  /\ UNCHANGED <<message, wire, cut>>

\* A field is complete.  An empty one is taken for the end of the stream.
EndField ==
  /\ Reading
  /\ left = 0
  /\ left' = Between
  /\ outcome' = IF got[Len(got)] = <<>> THEN "error" ELSE outcome
  /\ UNCHANGED <<message, wire, inbox, cut, got>>

EndMessage ==
  /\ Reading
  /\ left = Between
  /\ Len(got) = Format.count
  /\ outcome' = "message"
  /\ UNCHANGED <<message, wire, inbox, cut, left, got>>

\* Mutant: the end of the stream is noticed between fields only.
UnexpectedEofBetween ==
  /\ Reading
  /\ AtEnd
  /\ left = Between
  /\ Len(got) < Format.count
  /\ outcome' = "error"
  /\ UNCHANGED <<message, wire, inbox, cut, left, got>>

\* The stream ends before the message does.
UnexpectedEof ==
  /\ Reading
  /\ AtEnd
  /\ IF left = Between THEN Len(got) < Format.count ELSE left # 0
  /\ outcome' = "error"
  /\ UNCHANGED <<message, wire, inbox, cut, left, got>>

Next ==
  \/ \E n \in 1 .. Len(wire) : Deliver(n)
  \/ Cut
  \/ ReadLength \/ ReadBytes \/ EndField \/ EndMessage \/ UnexpectedEof

Spec == Init /\ [][Next]_vars
FairSpec ==
  /\ Spec
  /\ WF_vars(\E n \in 1 .. Len(wire) : Deliver(n))
  /\ WF_vars(ReadLength \/ ReadBytes \/ EndField \/ EndMessage \/ UnexpectedEof)

-----------------------------------------------------------------------------
(* Properties                                                              *)

TypeOK ==
  /\ message \in Messages
  /\ left \in Nat \cup {Between}
  /\ outcome \in {"none", "message", "error"}
  /\ Len(got) <= Format.count

Fields(m) == [f \in 1 .. Len(m.fields) |-> [i \in 1 .. m.fields[f] |-> [byte |-> <<f, i>>]]]

\* What is read is what was written, whole: no message is cut short or mixed up
\* however the transport hands it over.
ReadIsWritten == outcome = "message" => got = Fields(message)

InLimits == \A f \in 1 .. Len(message.fields) : message.fields[f] \in 1 .. Format.limit

\* "This method reads the ... from the peer": a message within the limits that
\* arrives is read, whatever pieces it arrives in.
ArrivedIsRead == outcome = "error" => cut \/ ~InLimits

\* The reader comes to an end, also on a message it refuses or a lost connection.
ReaderEnds == <>(outcome # "none")
=============================================================================
