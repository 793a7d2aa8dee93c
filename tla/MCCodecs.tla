------------------------------ MODULE MCCodecs ------------------------------
(* Instances of Codecs for TLC: limits of a few units, and messages with     *)
(* empty fields, fields within, at and beyond the limit.                     *)
EXTENDS Codecs

OneField == {"ArtifactRequest", "ArtifactResponse", "BuildResponse", "BuildStatusRequest",
             "BuildStatusResponse", "BlockchainRequest", "BlockchainResponse"}

AllButMetric ==
  [codec : OneField, fields : {<<n>> : n \in 0 .. 5}]
  \cup [codec : {"BuildRequest"}, fields : {<<n, k>> : n \in 0 .. 3, k \in 0 .. 3}]
  \cup {[codec |-> "IdleMetricRequest", fields |-> <<>>]}

Metric == {[codec |-> "IdleMetricResponse", fields |-> <<MetricSize>>]}
=============================================================================
