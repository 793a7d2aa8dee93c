--------------------------- MODULE TransparencyLog ---------------------------
(***************************************************************************)
(* The transparency log service of one node: the table of its SQLite        *)
(* database, the calls that write it, and the queries over it.              *)
(*                                                                         *)
(* Rows come from builds of this node, from blocks with logs of other nodes *)
(* and from the addition of authorized nodes.  Timestamps are in seconds,   *)
(* so rows may share one.  A query with ORDER BY timestamp gives one of      *)
(* several results then; the operators here give the set of all of them.    *)
(***************************************************************************)
EXTENDS Naturals, FiniteSets, FiniteSetsExt

CONSTANTS
  Builds,        \* recorded builds
  Local,         \* those of this node; the others come in blocks
  PackageOf,     \* per build its package
  NumArtifacts,  \* artifacts of a build
  Additions,     \* calls of add_authorized_node, here or on another node
  NodeOf,        \* per call the node to add
  MaxTime,       \* bound: the clock, in seconds
  CanFail        \* whether the blockchain may refuse a block

ASSUME TransparencyLogAssumption ==
  /\ Local \subseteq Builds
  /\ DOMAIN PackageOf = Builds /\ DOMAIN NodeOf = Additions
  /\ NumArtifacts \in Nat \ {0}
  /\ MaxTime \in Nat \ {0}
  /\ CanFail \in BOOLEAN

VARIABLES
  clock,      \* SystemTime::now, in seconds
  rows,       \* the table TRANSPARENCYLOG
  addition    \* per call of add_authorized_node its stage and timestamp

vars == <<clock, rows, addition>>

Packages == {PackageOf[b] : b \in Builds}
NodeIds == {NodeOf[c] : c \in Additions}

Init ==
  /\ clock = 1
  /\ rows = {}
  /\ addition = [c \in Additions |-> [stage |-> "new", timestamp |-> 0]]

-----------------------------------------------------------------------------
(* Queries                                                                 *)

\* ORDER BY timestamp DESC LIMIT n.
Newest(S, n) ==
  {T \in kSubset(IF n < Cardinality(S) THEN n ELSE Cardinality(S), S) :
     \A x \in T, y \in S \ T : x.timestamp >= y.timestamp}

ArtifactRows(p) == {x \in rows : x.operation \in {"AddArtifact", "RemoveArtifact"} /\ x.package = p}
NodeRows(n) == {x \in rows : x.operation \in {"AddNode", "RemoveNode"} /\ x.node = n}

\* Mutant: the query for the other rows does not leave out the newest one.
ReadLastTwice(p) ==
  UNION {{[first |-> x, rest |-> T, ok |-> Cardinality(T) = x.num - 1] :
            T \in Newest(ArtifactRows(p), x.num - 1)} : x \in UNION Newest(ArtifactRows(p), 1)}

\* read_last_transparency_log: the newest row and, when its package has more
\* artifacts, as many of the next newest; an error when there are fewer.
ReadLast(p) ==
  LET newest == {x \in ArtifactRows(p) : {x} \in Newest(ArtifactRows(p), 1)}
      more(x) == x.operation = "AddArtifact" /\ x.num > 1
      others(x) == {y \in rows : y.operation = "AddArtifact" /\ y.package = p} \ {x}
  IN  UNION {{[first |-> x, rest |-> T, ok |-> more(x) => Cardinality(T) = x.num - 1] :
                T \in IF more(x) THEN Newest(others(x), x.num - 1) ELSE {{}}} : x \in newest}

\* Mutant: a package that cannot be read counts as one that is not there.
CanBeAddedUnread(p) == \A r \in ReadLast(p) : ~r.ok \/ r.first.operation # "AddArtifact"

\* verify_package_can_be_added_to_transparency_logs: also an error of the query
\* counts as a package that is there.
CanBeAdded(p) == \A r \in ReadLast(p) : r.ok /\ r.first.operation # "AddArtifact"

\* read_transparency_log: sorted by timestamp, the first.
GetArtifact(p, a) ==
  LET found == {x \in ArtifactRows(p) : x.artifact = a}
  IN  {x \in found : \A y \in found : x.timestamp < y.timestamp \/ (x.timestamp = y.timestamp /\ x.rowid <= y.rowid)}

\* Mutant: without the GROUP BY.
FindAddedNodesAll == {{x \in rows : x.operation = "AddNode"}}

\* find_added_nodes: per node the row with the greatest timestamp, if it adds.
FindAddedNodes ==
  {T \in SUBSET {x \in rows : x.operation = "AddNode"} :
     \A n \in NodeIds :
       \E S \in Newest(NodeRows(n), 1) : {x \in T : x.node = n} = {x \in S : x.operation = "AddNode"}}

\* get_authorized_nodes: their ids; also what ArtifactService picks a node from.
get_authorized_nodes == {{x.node : x \in T} : T \in FindAddedNodes}

\* verify_node_does_not_exist.
NodeExists(n) == \E S \in Newest(NodeRows(n), 1) : \E x \in S : x.operation = "AddNode"

-----------------------------------------------------------------------------
(* Writes                                                                  *)

HasLog(id) == \E x \in rows : x.id = id

\* write_transparency_log, and write_if_not_exists, which comes to the same: id
\* is the primary key.
Write(log) ==
  rows' = IF HasLog(log.id) THEN rows
          ELSE rows \cup {[id |-> log.id, operation |-> log.operation, package |-> log.package,
                           artifact |-> log.artifact, num |-> log.num, node |-> log.node,
                           timestamp |-> log.timestamp, rowid |-> Cardinality(rows) + 1]}

ArtifactLog(b, k, time) ==
  [id |-> <<b, k>>, operation |-> "AddArtifact", package |-> PackageOf[b], artifact |-> k,
   num |-> NumArtifacts, node |-> "none", timestamp |-> time]

NodeLog(c, time) ==
  [id |-> <<c, 0>>, operation |-> "AddNode", package |-> "none", artifact |-> 0,
   num |-> 0, node |-> NodeOf[c], timestamp |-> time]

\* The next artifact of a build whose earlier artifacts are there.
IsNext(b, k) == ~HasLog(<<b, k>>) /\ \A j \in 1 .. k - 1 : HasLog(<<b, j>>)

Tick == clock < MaxTime /\ clock' = clock + 1 /\ UNCHANGED <<rows, addition>>

\* add_artifact: the log gets the time of the call.  The build loop records one
\* build after the other.
AddArtifact(b, k) ==
  /\ b \in Local
  /\ IsNext(b, k)
  /\ \A d \in Local \ {b} : ~HasLog(<<d, 1>>) \/ HasLog(<<d, NumArtifacts>>)
  /\ Write(ArtifactLog(b, k, clock))
  /\ UNCHANGED <<clock, addition>>

\* handle_block_added: the log of another node, made at a time of that node.
BlockAdded(b, k, time) ==
  /\ b \notin Local
  /\ IsNext(b, k)
  /\ Write(ArtifactLog(b, k, time))
  /\ UNCHANGED <<clock, addition>>

\* add_authorized_node: the check, and the log with its timestamp.
AddNode(c) ==
  /\ addition[c].stage = "new"
  /\ addition' = [addition EXCEPT ![c] =
       IF NodeExists(NodeOf[c]) THEN [stage |-> "exists", timestamp |-> 0]
       ELSE [stage |-> "committing", timestamp |-> clock]]
  /\ UNCHANGED <<clock, rows>>

\* The answer of the blockchain loop, then the write of the row.
NodeCommitted(c) ==
  /\ addition[c].stage = "committing"
  /\ Write(NodeLog(c, addition[c].timestamp))
  /\ addition' = [addition EXCEPT ![c].stage = "added"]
  /\ UNCHANGED clock

\* handle_block_added: an addition on another node, which made its own check and its
\* own timestamp.
NodeBlockAdded(c, time) ==
  /\ addition[c].stage = "new"
  /\ Write(NodeLog(c, time))
  /\ addition' = [addition EXCEPT ![c] = [stage |-> "added", timestamp |-> time]]
  /\ UNCHANGED clock

NodeRefused(c) ==
  /\ CanFail
  /\ addition[c].stage = "committing"
  /\ addition' = [addition EXCEPT ![c].stage = "error"]
  /\ UNCHANGED <<clock, rows>>

Next ==
  \/ Tick
  \/ \E b \in Builds, k \in 1 .. NumArtifacts :
       AddArtifact(b, k) \/ \E time \in 1 .. MaxTime : BlockAdded(b, k, time)
  \/ \E c \in Additions :
       \/ AddNode(c) \/ NodeCommitted(c) \/ NodeRefused(c)
       \/ \E time \in 1 .. MaxTime : NodeBlockAdded(c, time)

Spec == Init /\ [][Next]_vars

-----------------------------------------------------------------------------
(* Properties                                                              *)

TypeOK ==
  /\ clock \in 1 .. MaxTime
  /\ \A x \in rows : x.timestamp \in 1 .. MaxTime /\ x.rowid \in 1 .. Cardinality(rows)
  /\ \A x, y \in rows : x.id = y.id \/ x.rowid = y.rowid => x = y
  /\ \A c \in Additions : addition[c].stage \in {"new", "exists", "committing", "added", "error"}

RowsOf(b) == {x \in rows : x.operation = "AddArtifact" /\ x.id[1] = b}

\* "then we try to get all records": a package that was built again, here or on another
\* node, is read as its newest build, whole and with no row of an older build, as soon as
\* all rows of that build are there and newer than the others.
NewestBuildIsWhole ==
  \A b \in Builds :
    /\ \A k \in 1 .. NumArtifacts : HasLog(<<b, k>>)
    /\ \A x \in RowsOf(b), y \in ArtifactRows(PackageOf[b]) \ RowsOf(b) : x.timestamp > y.timestamp
    => \A r \in ReadLast(PackageOf[b]) : r.ok /\ {r.first} \cup r.rest = RowsOf(b)

\* The same for every answer of read_last_transparency_log: each artifact of the package
\* once, or an error.
LastIsWhole ==
  \A p \in Packages : \A r \in ReadLast(p) :
    r.ok => {x.artifact : x \in {r.first} \cup r.rest} = 1 .. r.first.num

\* However the additions of a node interleave, the list of authorized nodes has
\* it at most once, and has it as soon as one of them is done.
AuthorizedOnce ==
  /\ \A T \in FindAddedNodes : \A x, y \in T : x.node = y.node => x = y
  /\ \A N \in get_authorized_nodes : \A c \in Additions :
       addition[c].stage = "added" => NodeOf[c] \in N

\* A package is open for another build exactly until something of it is logged.
OpenUntilLogged == \A p \in Packages : CanBeAdded(p) <=> ArtifactRows(p) = {}

\* "Gets the latest transparency log for the specified package".
GetsLatest ==
  \A p \in Packages : \A a \in 1 .. NumArtifacts : \A x \in GetArtifact(p, a) :
    \A y \in ArtifactRows(p) : y.artifact = a => x.timestamp >= y.timestamp

\* "Verifies that the database does not contain the node yet": no node is added
\* twice.
NodeAddedOnce ==
  \A x, y \in rows : x.operation = "AddNode" /\ y.operation = "AddNode" /\ x.node = y.node => x = y
=============================================================================
