----------------------------- MODULE LogProofs ------------------------------
(***************************************************************************)
(* Proofs about the transparency log and, as instances with variables of   *)
(* their own, the verification service that says what may be recorded in it*)
(* and the authorities that sign.                                          *)
(***************************************************************************)
EXTENDS TransparencyLog, Sequences, FiniteSetTheorems, TLAPS

\* A leaf without a pragma is tried with Z3, then with Zenon.
USE SMTT(30), ZenonT(30)

-----------------------------------------------------------------------------
(***************************************************************************)
(* TransparencyLog: what the queries of the log answer, for any number of  *)
(* builds, artifacts, additions and rows.                                  *)
(***************************************************************************)

-----------------------------------------------------------------------------
(* The rows a query with ORDER BY timestamp DESC LIMIT n may give          *)

\* The clock of a node, and so every timestamp, is a number of seconds.
Stamped(S) == \A x \in S : x.timestamp \in 1 .. MaxTime

\* A set of naturals with an element has a least one.
LEMMA LeastNatural ==
  ASSUME NEW S \in SUBSET Nat, S # {}
  PROVE  \E m \in S : \A n \in S : m <= n
PROOF
<1>1. PICK m \in S : \A n \in S : ~ (<<n, m>> \in OpToRel(<, Nat))
  BY NatLessThanWellFounded, WFMin, Zenon
<1>2. \A n \in S : m <= n
  <2> SUFFICES ASSUME NEW n \in S, n < m PROVE FALSE
    OBVIOUS
  <2>1. <<n, m>> \in OpToRel(<, Nat)
    BY DEF OpToRel
  <2> QED BY <1>1, <2>1, Zenon
<1> QED BY <1>2

\* Rows with timestamps have a newest one.
LEMMA NewestRow ==
  ASSUME NEW S, Stamped(S), S # {}
  PROVE  \E x \in S : \A y \in S : x.timestamp >= y.timestamp
PROOF
<1> USE TransparencyLogAssumption
<1> DEFINE ages == {MaxTime - x.timestamp : x \in S}
<1>1. ages \in SUBSET Nat /\ ages # {}
  BY DEF Stamped
<1>2. PICK m \in ages : \A n \in ages : m <= n
  <2> HIDE DEF ages
  <2> QED BY <1>1, LeastNatural
<1>3. PICK x \in S : m = MaxTime - x.timestamp
  BY <1>2
<1>4. ASSUME NEW y \in S PROVE x.timestamp >= y.timestamp
  <2>1. MaxTime - x.timestamp <= MaxTime - y.timestamp
    BY <1>2, <1>3
  <2> QED BY <2>1, <1>3 DEF Stamped
<1> QED BY <1>4

\* The n newest of the rows S.
IsTop(S, n, T) ==
  /\ T \in SUBSET S
  /\ Cardinality(T) = n
  /\ \A x \in T, y \in S \ T : x.timestamp >= y.timestamp

LEMMA NewestIsTop ==
  ASSUME NEW S, NEW n \in Nat, IsFiniteSet(S), NEW T
  PROVE  /\ T \in Newest(S, n) =>
              IsTop(S, IF n < Cardinality(S) THEN n ELSE Cardinality(S), T)
         /\ IsTop(S, IF n < Cardinality(S) THEN n ELSE Cardinality(S), T) => T \in Newest(S, n)
PROOF
  BY DEF Newest, kSubset, IsTop

\* A finite set of rows has n newest ones, for every n up to its size: a least
\* n without them would have the newest of the other rows to add to n - 1.
LEMMA TopExists ==
  ASSUME NEW S, IsFiniteSet(S), Stamped(S), NEW n \in 0 .. Cardinality(S)
  PROVE  \E T : IsTop(S, n, T)
PROOF
<1> DEFINE missing == {k \in Nat : k <= Cardinality(S) /\ ~ \E T : IsTop(S, k, T)}
<1>0. Cardinality(S) \in Nat
  BY FS_CardinalityType
<1>1. SUFFICES ASSUME missing # {} PROVE FALSE
  BY <1>0
<1>2. PICK k \in missing : \A j \in missing : k <= j
  <2>1. missing \in SUBSET Nat
    OBVIOUS
  <2> HIDE DEF missing
  <2> QED BY <1>1, <2>1, LeastNatural
<1>3. k \in Nat /\ k <= Cardinality(S) /\ ~ \E T : IsTop(S, k, T)
  BY <1>2
<1>4. k # 0
  BY <1>3, FS_EmptySet DEF IsTop
<1>5. k - 1 \notin missing
  BY <1>2, <1>3
<1>6. PICK T : IsTop(S, k - 1, T)
  BY <1>0, <1>3, <1>4, <1>5
<1>7. IsFiniteSet(T)
  BY <1>6, FS_Subset DEF IsTop
<1>8. S \ T # {}
  BY <1>0, <1>3, <1>4, <1>6 DEF IsTop
<1>9. PICK x \in S \ T : \A y \in S \ T : x.timestamp >= y.timestamp
  <2>1. Stamped(S \ T)
    BY DEF Stamped
  <2> QED BY <1>8, <2>1, NewestRow
<1>10. Cardinality(T \cup {x}) = k
  <2>1. Cardinality(T) = k - 1
    BY <1>6 DEF IsTop
  <2>2. Cardinality(T \cup {x}) = Cardinality(T) + 1
    BY <1>7, <1>9, FS_AddElement, Zenon
  <2> QED BY <1>3, <2>1, <2>2
<1>11. IsTop(S, k, T \cup {x})
  BY <1>6, <1>9, <1>10 DEF IsTop
<1> QED BY <1>3, <1>11

\* So a query always has an answer.
LEMMA NewestExists ==
  ASSUME NEW S, IsFiniteSet(S), Stamped(S), NEW n \in Nat
  PROVE  \E T : T \in Newest(S, n)
PROOF
<1> DEFINE m == IF n < Cardinality(S) THEN n ELSE Cardinality(S)
<1>1. m \in 0 .. Cardinality(S)
  BY FS_CardinalityType
<1>2. PICK T : IsTop(S, m, T)
  <2> HIDE DEF m
  <2> QED BY <1>1, TopExists
<1> QED BY <1>2, NewestIsTop

\* The answer to LIMIT 1 is one row, unless there is none.
LEMMA NewestOne ==
  ASSUME NEW S, IsFiniteSet(S), NEW T \in Newest(S, 1), S # {}
  PROVE  \E x \in S : T = {x}
PROOF
<1>1. Cardinality(S) \in Nat /\ Cardinality(S) # 0
  BY FS_CardinalityType, FS_EmptySet
<1>2. IsTop(S, 1, T)
  BY <1>1, NewestIsTop
<1>3. IsFiniteSet(T) /\ Cardinality(T) = 1
  BY <1>2, FS_Subset DEF IsTop
<1>4. PICK x : T = {x}
  BY <1>3, FS_Singleton, Zenon
<1> QED BY <1>2, <1>4 DEF IsTop

-----------------------------------------------------------------------------
(* The table                                                               *)

\* A row of an artifact, and a row of an added node, as their calls write them.
IsArtifactRow(x) ==
  \E b \in Builds, k \in 1 .. NumArtifacts :
    /\ x.id = <<b, k>>
    /\ x.operation = "AddArtifact"
    /\ x.package = PackageOf[b]
    /\ x.artifact = k
    /\ x.num = NumArtifacts

IsNodeRow(x) ==
  \E c \in Additions :
    /\ x.id = <<c, 0>>
    /\ x.operation = "AddNode"
    /\ x.node = NodeOf[c]

Stages == {"new", "exists", "committing", "added", "error"}

RowsOK ==
  /\ IsFiniteSet(rows)
  /\ Stamped(rows)
  /\ \A x \in rows : IsArtifactRow(x) \/ IsNodeRow(x)
  /\ \A x, y \in rows : x.id = y.id => x = y

AdditionsOK ==
  /\ addition \in [Additions -> [stage : Stages, timestamp : 0 .. MaxTime]]
  /\ \A c \in Additions : addition[c].stage = "committing" => addition[c].timestamp \in 1 .. MaxTime
  /\ \A c \in Additions : addition[c].stage = "added" => HasLog(<<c, 0>>)

\* The inductive invariant: rows are what the writes make them, ids are unique,
\* and an addition that is done has its row.
LogInv == clock \in 1 .. MaxTime /\ RowsOK /\ AdditionsOK

LEMMA LogInit == Init => LogInv
PROOF
<1> SUFFICES ASSUME Init PROVE LogInv
  OBVIOUS
<1> USE TransparencyLogAssumption
<1>1. clock \in 1 .. MaxTime
  BY DEF Init
<1>2. RowsOK
  BY FS_EmptySet DEF Init, RowsOK, Stamped
<1>3. AdditionsOK
  BY DEF Init, AdditionsOK, Stages
<1> QED BY <1>1, <1>2, <1>3 DEF LogInv

\* A write keeps every row, and adds at most the one it is given.
LEMMA WriteKeepsRows ==
  ASSUME RowsOK, NEW log, Write(log), log.timestamp \in 1 .. MaxTime,
         IsArtifactRow(log) \/ IsNodeRow(log)
  PROVE  RowsOK' /\ rows \subseteq rows' /\ HasLog(log.id)'
PROOF
<1> DEFINE row == [id |-> log.id, operation |-> log.operation, package |-> log.package,
                   artifact |-> log.artifact, num |-> log.num, node |-> log.node,
                   timestamp |-> log.timestamp, rowid |-> Cardinality(rows) + 1]
<1>1. CASE HasLog(log.id)
  <2>1. rows' = rows
    BY <1>1 DEF Write
  <2>2. RowsOK'
    BY <2>1 DEF RowsOK, Stamped, IsArtifactRow, IsNodeRow
  <2> QED BY <1>1, <2>1, <2>2 DEF HasLog
<1>2. CASE ~HasLog(log.id)
  <2>1. rows' = rows \cup {row}
    BY <1>2 DEF Write
  <2>2. /\ row.id = log.id
        /\ row.timestamp \in 1 .. MaxTime
        /\ IsArtifactRow(row) \/ IsNodeRow(row)
    BY DEF IsArtifactRow, IsNodeRow
  <2> HIDE DEF row
  <2>3. IsFiniteSet(rows')
    BY <2>1, FS_AddElement DEF RowsOK
  <2>4. Stamped(rows')
    BY <2>1, <2>2 DEF RowsOK, Stamped
  <2>5. \A x \in rows' : IsArtifactRow(x) \/ IsNodeRow(x)
    BY <2>1, <2>2 DEF RowsOK
  <2>6. \A x, y \in rows' : x.id = y.id => x = y
    BY <1>2, <2>1, <2>2 DEF RowsOK, HasLog
  <2>7. RowsOK'
    BY <2>3, <2>4, <2>5, <2>6 DEF RowsOK, Stamped, IsArtifactRow, IsNodeRow
  <2> QED BY <2>1, <2>2, <2>7 DEF HasLog
<1> QED BY <1>1, <1>2

LEMMA LogStep == LogInv /\ [Next]_vars => LogInv'
PROOF
<1> SUFFICES ASSUME LogInv, [Next]_vars PROVE LogInv'
  OBVIOUS
<1> USE TransparencyLogAssumption
<1>1. CASE UNCHANGED vars
  BY <1>1 DEF LogInv, RowsOK, AdditionsOK, Stamped, HasLog, IsArtifactRow, IsNodeRow, vars
<1>2. CASE Tick
  <2>1. (clock \in 1 .. MaxTime)'
    BY <1>2 DEF LogInv, Tick
  <2>2. RowsOK' /\ AdditionsOK'
    BY <1>2 DEF LogInv, RowsOK, AdditionsOK, Stamped, HasLog, IsArtifactRow, IsNodeRow, Tick
  <2> QED BY <2>1, <2>2 DEF LogInv
<1>3. ASSUME NEW b \in Builds, NEW k \in 1 .. NumArtifacts, NEW time \in 1 .. MaxTime,
             Write(ArtifactLog(b, k, time)), UNCHANGED <<clock, addition>>
      PROVE  LogInv'
  <2> DEFINE log == ArtifactLog(b, k, time)
  <2>1. log.timestamp \in 1 .. MaxTime /\ IsArtifactRow(log)
    BY DEF ArtifactLog, IsArtifactRow
  <2>2. Write(log)
    BY <1>3
  <2> HIDE DEF log
  <2>3. RowsOK' /\ rows \subseteq rows'
    BY <2>1, <2>2, WriteKeepsRows DEF LogInv
  <2>4. AdditionsOK'
    BY <1>3, <2>3, Zenon DEF LogInv, AdditionsOK, HasLog
  <2> QED BY <1>3, <2>3, <2>4 DEF LogInv
<1>4. CASE \E b \in Builds, k \in 1 .. NumArtifacts :
             AddArtifact(b, k) \/ \E time \in 1 .. MaxTime : BlockAdded(b, k, time)
  BY <1>3, <1>4 DEF LogInv, AddArtifact, BlockAdded
<1>5. ASSUME NEW c \in Additions, AddNode(c) PROVE LogInv'
  <2>1. RowsOK'
    BY <1>5 DEF AddNode, LogInv, RowsOK, Stamped, IsArtifactRow, IsNodeRow
  <2>2. \/ addition' = [addition EXCEPT ![c] = [stage |-> "exists", timestamp |-> 0]]
        \/ addition' = [addition EXCEPT ![c] = [stage |-> "committing", timestamp |-> clock]]
    BY <1>5, Zenon DEF AddNode
  <2>3. /\ addition' \in [Additions -> [stage : Stages, timestamp : 0 .. MaxTime]]
        /\ addition'[c].stage \in {"exists", "committing"}
        /\ addition'[c].stage = "committing" => addition'[c].timestamp \in 1 .. MaxTime
        /\ \A d \in Additions \ {c} : addition'[d] = addition[d]
    BY <2>2 DEF LogInv, AdditionsOK, Stages
  <2>4. AdditionsOK'
    BY <1>5, <2>3, Zenon DEF AddNode, LogInv, AdditionsOK, HasLog
  <2> QED BY <1>5, <2>1, <2>4 DEF LogInv, AddNode
<1>6. ASSUME NEW c \in Additions, NodeCommitted(c) PROVE LogInv'
  <2>0. PICK time \in 1 .. MaxTime : time = addition[c].timestamp
    BY <1>6 DEF NodeCommitted, LogInv, AdditionsOK
  <2> DEFINE log == NodeLog(c, time)
  <2>1. log.timestamp \in 1 .. MaxTime /\ IsNodeRow(log) /\ log.id = <<c, 0>>
    BY DEF NodeLog, IsNodeRow
  <2>2. Write(log)
    BY <1>6, <2>0 DEF NodeCommitted
  <2> HIDE DEF log
  <2>3. RowsOK' /\ rows \subseteq rows' /\ HasLog(log.id)'
    BY <2>1, <2>2, WriteKeepsRows DEF LogInv
  <2>4. HasLog(<<c, 0>>)'
    BY <2>1, <2>3 DEF HasLog
  <2>5. \A d \in Additions : HasLog(<<d, 0>>) => HasLog(<<d, 0>>)'
    BY <2>3 DEF HasLog
  <2>6. AdditionsOK'
    BY <1>6, <2>4, <2>5 DEF NodeCommitted, LogInv, AdditionsOK, Stages
  <2> QED BY <1>6, <2>3, <2>6 DEF LogInv, NodeCommitted
<1>8. ASSUME NEW c \in Additions, NEW time \in 1 .. MaxTime, NodeBlockAdded(c, time) PROVE LogInv'
  <2> DEFINE log == NodeLog(c, time)
  <2>1. log.timestamp \in 1 .. MaxTime /\ IsNodeRow(log) /\ log.id = <<c, 0>>
    BY DEF NodeLog, IsNodeRow
  <2>2. Write(log)
    BY <1>8 DEF NodeBlockAdded
  <2> HIDE DEF log
  <2>3. RowsOK' /\ rows \subseteq rows' /\ HasLog(log.id)'
    BY <2>1, <2>2, WriteKeepsRows DEF LogInv
  <2>4. HasLog(<<c, 0>>)'
    BY <2>1, <2>3 DEF HasLog
  <2>5. \A d \in Additions : HasLog(<<d, 0>>) => HasLog(<<d, 0>>)'
    BY <2>3 DEF HasLog
  <2>6. /\ addition' \in [Additions -> [stage : Stages, timestamp : 0 .. MaxTime]]
        /\ addition'[c].stage = "added"
        /\ \A d \in Additions \ {c} : addition'[d] = addition[d]
    BY <1>8 DEF NodeBlockAdded, LogInv, AdditionsOK, Stages
  <2>7. AdditionsOK'
    BY <2>4, <2>5, <2>6 DEF LogInv, AdditionsOK
  <2> QED BY <1>8, <2>3, <2>7 DEF LogInv, NodeBlockAdded
<1>7. ASSUME NEW c \in Additions, NodeRefused(c) PROVE LogInv'
  <2>1. RowsOK'
    BY <1>7 DEF NodeRefused, LogInv, RowsOK, Stamped, IsArtifactRow, IsNodeRow
  <2>2. AdditionsOK'
    BY <1>7, Zenon DEF NodeRefused, LogInv, AdditionsOK, Stages, HasLog
  <2> QED BY <1>7, <2>1, <2>2 DEF LogInv, NodeRefused
<1> QED BY <1>1, <1>2, <1>4, <1>5, <1>6, <1>7, <1>8 DEF Next

LEMMA LogInvariant == Spec => []LogInv
PROOF
  BY LogInit, LogStep, PTL DEF Spec

-----------------------------------------------------------------------------
(* The queries                                                             *)

LEMMA ArtifactRowFacts ==
  ASSUME RowsOK, NEW p
  PROVE  /\ ArtifactRows(p) \subseteq rows
         /\ IsFiniteSet(ArtifactRows(p)) /\ Stamped(ArtifactRows(p))
         /\ \A x \in ArtifactRows(p) : IsArtifactRow(x) /\ x.package = p
PROOF
<1>1. ArtifactRows(p) \in SUBSET rows
  BY DEF ArtifactRows
<1>2. IsFiniteSet(ArtifactRows(p))
  BY <1>1, FS_Subset DEF RowsOK
<1>3. Stamped(ArtifactRows(p))
  BY <1>1 DEF RowsOK, Stamped
<1>4. ASSUME NEW x \in ArtifactRows(p) PROVE IsArtifactRow(x) /\ x.package = p
  <2>1. x \in rows /\ x.operation # "AddNode" /\ x.package = p
    BY <1>4 DEF ArtifactRows
  <2>2. ~IsNodeRow(x)
    BY <2>1 DEF IsNodeRow
  <2> QED BY <2>1, <2>2 DEF RowsOK
<1> QED BY <1>1, <1>2, <1>3, <1>4

\* The rows the second query of read_last_transparency_log is over.
Others(p, x) == {y \in rows : y.operation = "AddArtifact" /\ y.package = p} \ {x}

\* The table never has a row that removes, so the others are all the rest.
LEMMA OthersFacts ==
  ASSUME RowsOK, NEW p, NEW x
  PROVE  Others(p, x) = ArtifactRows(p) \ {x}
PROOF
<1>1. \A y \in ArtifactRows(p) : y.operation = "AddArtifact" /\ y.package = p /\ y \in rows
  BY ArtifactRowFacts DEF IsArtifactRow
<1> QED BY <1>1 DEF Others, ArtifactRows

\* What an answer of read_last_transparency_log is made of.
LEMMA LastFacts ==
  ASSUME RowsOK, NEW p, NEW r \in ReadLast(p)
  PROVE  /\ r.first \in ArtifactRows(p)
         /\ {r.first} \in Newest(ArtifactRows(p), 1)
         /\ NumArtifacts = 1 => r.rest = {} /\ r.ok = TRUE
         /\ NumArtifacts # 1 => /\ r.rest \in Newest(Others(p, r.first), NumArtifacts - 1)
                                /\ r.ok = (Cardinality(r.rest) = NumArtifacts - 1)
PROOF
<1> USE TransparencyLogAssumption
<1> DEFINE more(x) == x.operation = "AddArtifact" /\ x.num > 1
           answers(x) == IF more(x) THEN Newest(Others(p, x), x.num - 1) ELSE {{}}
<1>0. PICK x \in ArtifactRows(p) : \E T \in answers(x) :
        /\ {x} \in Newest(ArtifactRows(p), 1)
        /\ r = [first |-> x, rest |-> T, ok |-> more(x) => Cardinality(T) = x.num - 1]
  BY ZenonT(30) DEF ReadLast, Others
<1>1. PICK T \in answers(x) :
        /\ {x} \in Newest(ArtifactRows(p), 1)
        /\ r = [first |-> x, rest |-> T, ok |-> more(x) => Cardinality(T) = x.num - 1]
  BY <1>0
<1>2. x.operation = "AddArtifact" /\ x.num = NumArtifacts
  BY ArtifactRowFacts DEF IsArtifactRow
<1>3. CASE NumArtifacts = 1
  <2>1. more(x) = FALSE /\ answers(x) = {{}}
    BY <1>2, <1>3
  <2> HIDE DEF more, answers
  <2>2. T = {} /\ r.ok = TRUE
    BY <1>1, <2>1, Zenon
  <2> QED BY <1>1, <1>3, <2>2
<1>4. CASE NumArtifacts # 1
  <2>1. more(x) = TRUE /\ answers(x) = Newest(Others(p, x), NumArtifacts - 1)
    BY <1>2, <1>4
  <2> HIDE DEF more, answers
  <2>2. r.ok = (Cardinality(T) = NumArtifacts - 1)
    BY <1>1, <1>2, <2>1
  <2> QED BY <1>1, <1>4, <2>1, <2>2
<1> QED BY <1>3, <1>4, Zenon

\* A package with a row has an answer.
LEMMA LastExists ==
  ASSUME RowsOK, NEW p, ArtifactRows(p) # {}
  PROVE  ReadLast(p) # {}
PROOF
<1> USE TransparencyLogAssumption
<1> DEFINE more(x) == x.operation = "AddArtifact" /\ x.num > 1
           answers(x) == IF more(x) THEN Newest(Others(p, x), x.num - 1) ELSE {{}}
<1>1. PICK S : S \in Newest(ArtifactRows(p), 1)
  BY ArtifactRowFacts, NewestExists
<1>2. PICK x \in ArtifactRows(p) : S = {x}
  BY <1>1, ArtifactRowFacts, NewestOne
<1>3. x.operation = "AddArtifact" /\ x.num = NumArtifacts
  BY ArtifactRowFacts DEF IsArtifactRow
<1>4. IsFiniteSet(Others(p, x)) /\ Stamped(Others(p, x))
  <2>1. Others(p, x) \in SUBSET rows
    BY DEF Others
  <2> QED BY <2>1, FS_Subset DEF RowsOK, Stamped
<1>5. PICK T : T \in answers(x)
  <2>1. CASE more(x)
    <3>1. x.num - 1 \in Nat
      BY <1>3
    <3> QED BY <1>4, <2>1, <3>1, NewestExists
  <2>2. CASE ~more(x)
    BY <2>2, Zenon
  <2> QED BY <2>1, <2>2
<1>6. [first |-> x, rest |-> T, ok |-> more(x) => Cardinality(T) = x.num - 1] \in ReadLast(p)
  <2> DEFINE newest == {y \in ArtifactRows(p) : {y} \in Newest(ArtifactRows(p), 1)}
             given(y) == {[first |-> y, rest |-> U, ok |-> more(y) => Cardinality(U) = y.num - 1] :
                            U \in answers(y)}
  <2>1. ReadLast(p) = UNION {given(y) : y \in newest}
    BY DEF ReadLast, Others
  <2>2. x \in newest
    BY <1>1, <1>2
  <2>3. [first |-> x, rest |-> T, ok |-> more(x) => Cardinality(T) = x.num - 1] \in given(x)
    BY <1>5
  <2> HIDE DEF newest, given
  <2> QED BY <2>1, <2>2, <2>3
<1> QED BY <1>6

LEMMA RowsCloseThePackage == RowsOK => OpenUntilLogged
PROOF
<1> SUFFICES ASSUME RowsOK, NEW p \in Packages
             PROVE  CanBeAdded(p) <=> ArtifactRows(p) = {}
  BY DEF OpenUntilLogged
<1>1. ASSUME ArtifactRows(p) = {} PROVE CanBeAdded(p)
  <2>1. ReadLast(p) = {}
    BY <1>1, LastFacts, Zenon
  <2> QED BY <2>1 DEF CanBeAdded
<1>2. ASSUME ArtifactRows(p) # {} PROVE ~CanBeAdded(p)
  <2>1. PICK r : r \in ReadLast(p)
    BY <1>2, LastExists
  <2>2. r.first.operation = "AddArtifact"
    <3>1. r.first \in ArtifactRows(p)
      BY <2>1, LastFacts, Zenon
    <3> QED BY <3>1, ArtifactRowFacts DEF IsArtifactRow
  <2> QED BY <2>1, <2>2 DEF CanBeAdded
<1> QED BY <1>1, <1>2

\* verify_package_can_be_added_to_transparency_logs lets a package be built
\* exactly while the table has no row of it, for any number of its artifacts
\* and any order of the writes.
THEOREM PackageOpenUntilLogged == Spec => []OpenUntilLogged
PROOF
<1>1. LogInv => OpenUntilLogged
  BY RowsCloseThePackage DEF LogInv
<1> QED BY <1>1, LogInvariant, PTL

LEMMA NodeRowFacts ==
  ASSUME RowsOK
  PROVE  /\ \A n : IsFiniteSet(NodeRows(n))
         /\ \A n : \A x \in NodeRows(n) : x.operation = "AddNode" /\ x.node = n
         /\ \A x \in rows : x.operation = "AddNode" => x.node \in NodeIds /\ x \in NodeRows(x.node)
PROOF
<1>1. ASSUME NEW n PROVE IsFiniteSet(NodeRows(n))
  <2>1. NodeRows(n) \in SUBSET rows
    BY DEF NodeRows
  <2> QED BY <2>1, FS_Subset DEF RowsOK
<1>2. ASSUME NEW n, NEW x \in NodeRows(n) PROVE x.operation = "AddNode" /\ x.node = n
  <2>1. x \in rows /\ x.operation \in {"AddNode", "RemoveNode"} /\ x.node = n
    BY <1>2 DEF NodeRows
  <2>2. ~IsArtifactRow(x)
    BY <2>1 DEF IsArtifactRow
  <2> QED BY <2>1, <2>2 DEF RowsOK, IsNodeRow
<1>3. ASSUME NEW x \in rows, x.operation = "AddNode"
      PROVE  x.node \in NodeIds /\ x \in NodeRows(x.node)
  <2>1. ~IsArtifactRow(x)
    BY <1>3 DEF IsArtifactRow
  <2>2. IsNodeRow(x)
    BY <2>1 DEF RowsOK
  <2> QED BY <1>3, <2>2 DEF IsNodeRow, NodeIds, NodeRows
<1> QED BY <1>1, <1>2, <1>3

\* GROUP BY node: what find_added_nodes gives of a node with rows is one of them.
LEMMA OneRowPerNode ==
  ASSUME RowsOK, NEW T \in FindAddedNodes, NEW n \in NodeIds, NodeRows(n) # {}
  PROVE  \E s \in NodeRows(n) : {x \in T : x.node = n} = {s}
PROOF
<1>1. PICK S \in Newest(NodeRows(n), 1) :
        {x \in T : x.node = n} = {x \in S : x.operation = "AddNode"}
  BY DEF FindAddedNodes
<1>2. PICK s \in NodeRows(n) : S = {s}
  BY NodeRowFacts, NewestOne
<1>3. s.operation = "AddNode"
  BY NodeRowFacts
<1> QED BY <1>1, <1>2, <1>3

LEMMA RowsAuthorizeOnce == RowsOK /\ AdditionsOK => AuthorizedOnce
PROOF
<1> SUFFICES ASSUME RowsOK, AdditionsOK PROVE AuthorizedOnce
  OBVIOUS
<1>1. ASSUME NEW T \in FindAddedNodes, NEW x \in T, NEW y \in T, x.node = y.node
      PROVE  x = y
  <2>1. x \in rows /\ x.operation = "AddNode"
    BY DEF FindAddedNodes
  <2>2. x.node \in NodeIds /\ NodeRows(x.node) # {}
    BY <2>1, NodeRowFacts
  <2>3. PICK s : {z \in T : z.node = x.node} = {s}
    BY <2>2, OneRowPerNode, Zenon
  <2> QED BY <1>1, <2>3
<1>2. ASSUME NEW N \in get_authorized_nodes, NEW c \in Additions, addition[c].stage = "added"
      PROVE  NodeOf[c] \in N
  <2>1. PICK T \in FindAddedNodes : N = {x.node : x \in T}
    BY DEF get_authorized_nodes
  <2>2. PICK x \in rows : x.id = <<c, 0>>
    BY <1>2 DEF AdditionsOK, HasLog
  <2>3. ~IsArtifactRow(x)
    BY <2>2, TransparencyLogAssumption DEF IsArtifactRow
  <2>4. x.operation = "AddNode" /\ x.node = NodeOf[c]
    BY <2>2, <2>3 DEF RowsOK, IsNodeRow
  <2>5. NodeOf[c] \in NodeIds /\ NodeRows(NodeOf[c]) # {}
    BY <2>4, NodeRowFacts
  <2>6. PICK s : {z \in T : z.node = NodeOf[c]} = {s}
    BY <2>5, OneRowPerNode, Zenon
  <2>7. s \in T /\ s.node = NodeOf[c]
    BY <2>6
  <2> QED BY <2>1, <2>7
<1> QED BY <1>1, <1>2 DEF AuthorizedOnce

\* However calls of add_authorized_node for one node interleave, and whichever
\* of them write, get_authorized_nodes lists a node at most once, and lists it
\* from the write of the first row on.
THEOREM NodesListedOnce == Spec => []AuthorizedOnce
PROOF
<1>1. LogInv => AuthorizedOnce
  BY RowsAuthorizeOnce DEF LogInv
<1> QED BY <1>1, LogInvariant, PTL

-----------------------------------------------------------------------------
(* Packages that are built again                                           *)

\* A build all of whose rows are there has num_artifacts of them.
LEMMA RowsOfBuild ==
  ASSUME RowsOK, NEW b \in Builds, \A k \in 1 .. NumArtifacts : HasLog(<<b, k>>)
  PROVE  /\ RowsOf(b) \subseteq ArtifactRows(PackageOf[b])
         /\ IsFiniteSet(RowsOf(b)) /\ Cardinality(RowsOf(b)) = NumArtifacts
PROOF
<1> USE TransparencyLogAssumption
<1>1. ASSUME NEW x \in RowsOf(b)
      PROVE  x \in rows /\ x.artifact \in 1 .. NumArtifacts /\ x.id = <<b, x.artifact>>
             /\ x.operation = "AddArtifact" /\ x.package = PackageOf[b]
  <2>1. x \in rows /\ x.operation = "AddArtifact" /\ x.id[1] = b
    BY DEF RowsOf
  <2>2. ~IsNodeRow(x)
    BY <2>1 DEF IsNodeRow
  <2>3. PICK d \in Builds, k \in 1 .. NumArtifacts :
          x.id = <<d, k>> /\ x.package = PackageOf[d] /\ x.artifact = k
    BY <2>1, <2>2 DEF RowsOK, IsArtifactRow
  <2>4. d = b
    BY <2>1, <2>3
  <2> QED BY <2>1, <2>3, <2>4
<1>2. RowsOf(b) \subseteq ArtifactRows(PackageOf[b])
  BY <1>1 DEF ArtifactRows
<1>3. IsFiniteSet(RowsOf(b))
  <2>1. RowsOf(b) \in SUBSET rows
    BY DEF RowsOf
  <2> QED BY <2>1, FS_Subset DEF RowsOK
<1>4. ASSUME NEW k \in 1 .. NumArtifacts
      PROVE  \E x \in RowsOf(b) : x.artifact = k
  <2>1. PICK x \in rows : x.id = <<b, k>>
    BY Zenon DEF HasLog
  <2>2. ~IsNodeRow(x)
    BY <2>1 DEF IsNodeRow
  <2>3. x.operation = "AddArtifact" /\ x.artifact = k
    BY <2>1, <2>2 DEF RowsOK, IsArtifactRow
  <2> QED BY <2>1, <2>3 DEF RowsOf
<1> DEFINE artifact == [x \in RowsOf(b) |-> x.artifact]
<1>5. artifact \in [RowsOf(b) -> 1 .. NumArtifacts]
  BY <1>1
<1>6. \A x, y \in RowsOf(b) : x.artifact = y.artifact => x = y
  BY <1>1 DEF RowsOK
<1>7. artifact \in Injection(RowsOf(b), 1 .. NumArtifacts)
  BY <1>5, <1>6 DEF Injection, IsInjective
<1>8. artifact \in Surjection(RowsOf(b), 1 .. NumArtifacts)
  BY <1>4, <1>5 DEF Surjection
<1>9. artifact \in Bijection(RowsOf(b), 1 .. NumArtifacts)
  <2> HIDE DEF artifact
  <2> QED BY <1>7, <1>8 DEF Bijection
<1>10. IsFiniteSet(1 .. NumArtifacts) /\ Cardinality(1 .. NumArtifacts) = NumArtifacts
  BY FS_Interval
<1>11. Cardinality(RowsOf(b)) = Cardinality(1 .. NumArtifacts)
  <2> HIDE DEF artifact
  <2>1. ExistsBijection(RowsOf(b), 1 .. NumArtifacts)
    BY <1>9, Zenon DEF ExistsBijection
  <2> QED BY <1>3, <2>1, FS_Bijection, Zenon
<1> QED BY <1>2, <1>3, <1>10, <1>11

\* Of rows that are newer than all others, the newest ones are taken first.
Newer(S, N) == \A x \in N, y \in S \ N : x.timestamp > y.timestamp

LEMMA TopAreNewer ==
  ASSUME NEW S, IsFiniteSet(S), Stamped(S), NEW N \in SUBSET S, Newer(S, N),
         NEW T \in Newest(S, Cardinality(N))
  PROVE  T = N
PROOF
<1>1. IsFiniteSet(N) /\ Cardinality(N) \in Nat /\ Cardinality(S) \in Nat
      /\ Cardinality(N) <= Cardinality(S)
  BY FS_Subset, FS_CardinalityType
<1>2. IsTop(S, Cardinality(N), T)
  <2>1. IsTop(S, IF Cardinality(N) < Cardinality(S) THEN Cardinality(N) ELSE Cardinality(S), T)
    BY <1>1, NewestIsTop
  <2>2. (IF Cardinality(N) < Cardinality(S) THEN Cardinality(N) ELSE Cardinality(S)) = Cardinality(N)
    BY <1>1
  <2> QED BY <2>1, <2>2
<1>3. T \in SUBSET S /\ IsFiniteSet(T) /\ Cardinality(T) = Cardinality(N)
  BY <1>2, FS_Subset DEF IsTop
<1>4. T \subseteq N \/ N \subseteq T
  <2> SUFFICES ASSUME NEW t \in T \ N, NEW x \in N \ T PROVE FALSE
    OBVIOUS
  <2>1. t.timestamp >= x.timestamp
    BY <1>2 DEF IsTop
  <2>2. x.timestamp > t.timestamp
    BY <1>3 DEF Newer
  <2>3. x.timestamp \in Nat /\ t.timestamp \in Nat
    BY <1>3, TransparencyLogAssumption DEF Stamped
  <2> QED BY <2>1, <2>2, <2>3
<1>5. CASE T \subseteq N
  <2>1. T \in SUBSET N
    BY <1>5
  <2> QED BY <1>1, <1>3, <2>1, FS_Subset
<1>6. CASE N \subseteq T
  <2>1. N \in SUBSET T
    BY <1>6
  <2> QED BY <1>1, <1>3, <2>1, FS_Subset
<1> QED BY <1>4, <1>5, <1>6

\* The first query gives a row of the newest build, the second the others of it.
LEMMA RowsGiveNewestBuild == RowsOK => NewestBuildIsWhole
PROOF
<1> USE TransparencyLogAssumption
<1> SUFFICES ASSUME RowsOK, NEW b \in Builds, \A k \in 1 .. NumArtifacts : HasLog(<<b, k>>),
                    \A x \in RowsOf(b), y \in ArtifactRows(PackageOf[b]) \ RowsOf(b) :
                      x.timestamp > y.timestamp,
                    NEW r \in ReadLast(PackageOf[b])
             PROVE  r.ok /\ {r.first} \cup r.rest = RowsOf(b)
  BY DEF NewestBuildIsWhole
<1> DEFINE all == ArtifactRows(PackageOf[b])
           own == RowsOf(b)
<1>1. own \in SUBSET all /\ IsFiniteSet(own) /\ Cardinality(own) = NumArtifacts
  BY RowsOfBuild
<1>2. IsFiniteSet(all) /\ Stamped(all)
  BY ArtifactRowFacts
<1>3. r.first \in all /\ {r.first} \in Newest(all, 1)
  BY LastFacts, Zenon
<1>4. \A x \in own, y \in all \ own : x.timestamp > y.timestamp
  OBVIOUS
<1> HIDE DEF all, own
<1>5. r.first \in own
  <2> SUFFICES ASSUME r.first \notin own PROVE FALSE
    OBVIOUS
  <2>1. PICK x \in own : TRUE
    BY <1>1, FS_EmptySet
  <2>2. x \in all \ {r.first}
    BY <1>1, <2>1
  <2>3. r.first.timestamp >= x.timestamp
    BY <1>3, <2>2 DEF Newest
  <2>4. x.timestamp > r.first.timestamp
    BY <1>3, <1>4, <2>1
  <2>5. x.timestamp \in Nat /\ r.first.timestamp \in Nat
    BY <1>2, <1>3, <2>2 DEF Stamped
  <2> QED BY <2>3, <2>4, <2>5
<1>6. CASE NumArtifacts = 1
  <2>1. r.rest = {} /\ r.ok
    BY <1>6, LastFacts, Zenon
  <2>2. PICK x : own = {x}
    BY <1>1, <1>6, FS_Singleton, Zenon
  <2> QED BY <1>5, <2>1, <2>2 DEF own
<1>7. CASE NumArtifacts # 1
  <2> DEFINE others == own \ {r.first}
             rest == all \ {r.first}
  <2>1. r.rest \in Newest(rest, NumArtifacts - 1) /\ r.ok = (Cardinality(r.rest) = NumArtifacts - 1)
    <3>1. r.rest \in Newest(Others(PackageOf[b], r.first), NumArtifacts - 1)
          /\ r.ok = (Cardinality(r.rest) = NumArtifacts - 1)
      BY <1>7, LastFacts, Zenon
    <3>2. Others(PackageOf[b], r.first) = rest
      BY OthersFacts, Zenon DEF all
    <3> QED BY <3>1, <3>2, Zenon
  <2>2. IsFiniteSet(others) /\ Cardinality(others) = NumArtifacts - 1
    BY <1>1, <1>5, FS_RemoveElement
  <2>3. others \in SUBSET rest /\ IsFiniteSet(rest) /\ Stamped(rest)
    <3>1. rest \in SUBSET all
      OBVIOUS
    <3>2. IsFiniteSet(rest)
      BY <1>2, <3>1, FS_Subset
    <3> QED BY <1>1, <1>2, <3>2 DEF Stamped
  <2>4. \A x \in others, y \in rest \ others : x.timestamp > y.timestamp
    BY <1>4
  <2> HIDE DEF others, rest
  <2>5. r.rest = others
    <3>1. r.rest \in Newest(rest, Cardinality(others))
      BY <2>1, <2>2, Zenon
    <3>2. IsFiniteSet(rest) /\ Stamped(rest) /\ others \in SUBSET rest /\ Newer(rest, others)
      BY <2>3, <2>4, Zenon DEF Newer
    <3> QED BY <3>1, <3>2, TopAreNewer, Zenon
  <2>6. r.ok
    BY <2>1, <2>2, <2>5, Zenon
  <2>7. {r.first} \cup others = own
    BY <1>5, Zenon DEF others
  <2> QED BY <2>5, <2>6, <2>7, Zenon DEF own
<1> QED BY <1>6, <1>7

\* "then we try to get all records": for any number of builds, of this node and of others,
\* of artifacts and of rows with the same timestamp, read_last_transparency_log gives the
\* rows of the newest build of a package and no others, once they are all there.
THEOREM NewestBuildIsRead == Spec => []NewestBuildIsWhole
PROOF
<1>1. LogInv => NewestBuildIsWhole
  BY RowsGiveNewestBuild DEF LogInv
<1> QED BY <1>1, LogInvariant, PTL

-----------------------------------------------------------------------------
(***************************************************************************)
(* Verification: for every number of packages, calls and builds.           *)
(***************************************************************************)

CONSTANTS Requested, Artifacts, Hashes, Submissions, Transaction, BuildIds, CanRefuse
VARIABLES answer, pending, verifying, result

Verif == INSTANCE Verification WITH Packages <- Requested

\* The calls collected are of their package and wait for an answer, as do those
\* an active build verifies; no call is kept in two places.  A build that has
\* ended is active no more.
Kept ==
  /\ answer \in [Submissions -> {"unsent", "waiting"} \cup Verif!Answers]
  /\ pending \in [Requested -> Seq(Submissions)]
  /\ \A b \in DOMAIN verifying : verifying[b] \in Seq(Submissions) /\ b \notin DOMAIN result
  /\ \A p \in Requested : \A s \in Verif!Range(pending[p]) :
       answer[s] = "waiting" /\ Transaction[s].package = p
  /\ \A b \in DOMAIN verifying : \A s \in Verif!Range(verifying[b]) :
       /\ answer[s] = "waiting"
       /\ \A p \in Requested : s \notin Verif!Range(pending[p])
       /\ \A c \in DOMAIN verifying \ {b} : s \notin Verif!Range(verifying[c])

LEMMA SetOfSeq ==
  ASSUME NEW S, NEW q \in Seq(S), NEW s \in S
  PROVE  /\ Verif!Range(q) \subseteq S
         /\ Append(q, s) \in Seq(S)
         /\ Verif!Range(Append(q, s)) = Verif!Range(q) \cup {s}
         /\ Verif!Range(<<>>) = {}
<1>1. Verif!Range(q) \subseteq S /\ Verif!Range(<<>>) = {} /\ Append(q, s) \in Seq(S)
  BY DEF Verif!Range
<1>2. Verif!Range(Append(q, s)) = Verif!Range(q) \cup {s}
  <2>1. DOMAIN Append(q, s) = DOMAIN q \cup {Len(q) + 1}
    OBVIOUS
  <2>2. \A i \in DOMAIN q : Append(q, s)[i] = q[i]
    OBVIOUS
  <2>3. Append(q, s)[Len(q) + 1] = s
    OBVIOUS
  <2> QED
    BY <2>1, <2>2, <2>3 DEF Verif!Range
<1> QED
  BY <1>1, <1>2

LEMMA KeptInit == ASSUME Verif!Transactions, Verif!Init PROVE Kept
  BY DEF Verif!Init, Kept, Verif!Range, Verif!Answers

\* What a call finds collected for its package, and itself.
LEMMA CollectedCalls ==
  ASSUME Verif!Transactions, Kept, NEW s \in Submissions
  PROVE  /\ Transaction[s].package \in Requested
         /\ Verif!Collected(s) \in Seq(Submissions)
         /\ Verif!Range(Verif!Collected(s)) = Verif!Range(pending[Transaction[s].package]) \cup {s}
         /\ Verif!Range(<<>>) = {}
<1>1. Transaction[s].package \in Requested
  BY DEF Verif!Transactions
<1>2. pending[Transaction[s].package] \in Seq(Submissions)
  BY <1>1 DEF Kept
<1> QED
  BY <1>1, <1>2, SetOfSeq DEF Verif!Collected

\* A call that is still unsent is kept nowhere.
LEMMA UnsentIsNowhere ==
  ASSUME Kept, NEW s \in Submissions, answer[s] = "unsent"
  PROVE  /\ \A p \in Requested : s \notin Verif!Range(pending[p])
         /\ \A b \in DOMAIN verifying : s \notin Verif!Range(verifying[b])
  BY DEF Kept

\* A build ends: its calls are answered and it is no longer active.
LEMMA KeptEnd ==
  ASSUME Kept, NEW b \in DOMAIN verifying,
         Verif!Forget(b), UNCHANGED pending,
         DOMAIN result' = DOMAIN result \cup {b},
         answer' \in [Submissions -> {"unsent", "waiting"} \cup Verif!Answers],
         \A s \in Submissions \ Verif!Range(verifying[b]) : answer'[s] = answer[s]
  PROVE  Kept'
<1>1. DOMAIN verifying' = DOMAIN verifying \ {b} /\ \A c \in DOMAIN verifying' : verifying'[c] = verifying[c]
  BY DEF Verif!Forget, Verif!Restrict
<1>2. ASSUME NEW p \in Requested, NEW s \in Verif!Range(pending[p])
      PROVE  answer'[s] = "waiting" /\ Transaction[s].package = p
  <2>1. s \in Submissions
    BY SetOfSeq DEF Kept, Verif!Range
  <2> QED
    BY <1>2, <2>1 DEF Kept
<1>3. ASSUME NEW c \in DOMAIN verifying', NEW s \in Verif!Range(verifying[c])
      PROVE  /\ answer'[s] = "waiting"
             /\ \A p \in Requested : s \notin Verif!Range(pending[p])
             /\ \A d \in DOMAIN verifying' \ {c} : s \notin Verif!Range(verifying[d])
  <2>1. s \in Submissions
    BY <1>1, SetOfSeq DEF Kept, Verif!Range
  <2> QED
    BY <1>1, <1>3, <2>1 DEF Kept
<1> QED
  BY <1>1, <1>2, <1>3 DEF Kept

LEMMA KeptStep == ASSUME Verif!Transactions, Kept, [Verif!Next]_(Verif!vars) PROVE Kept'
<1>1. ASSUME NEW s \in Submissions, Verif!RefuseTransaction(s) PROVE Kept'
  <2>1. answer' \in [Submissions -> {"unsent", "waiting"} \cup Verif!Answers]
    BY <1>1 DEF Verif!RefuseTransaction, Kept, Verif!Answers
  <2>2. \A t \in Submissions : answer[t] = "waiting" => answer'[t] = "waiting"
    BY <1>1 DEF Verif!RefuseTransaction, Kept
  <2>3. /\ \A p \in Requested : Verif!Range(pending[p]) \subseteq Submissions
        /\ \A b \in DOMAIN verifying : Verif!Range(verifying[b]) \subseteq Submissions
    BY DEF Kept, Verif!Range
  <2> QED
    BY <1>1, <2>1, <2>2, <2>3 DEF Verif!RefuseTransaction, Kept
<1>2. ASSUME NEW s \in Submissions, Verif!CollectTransaction(s) PROVE Kept'
  <2> DEFINE P == Transaction[s].package
  <2>1. answer' = [answer EXCEPT ![s] = "waiting"] /\ answer[s] = "unsent"
        /\ pending' = [pending EXCEPT ![P] = Verif!Collected(s)] /\ UNCHANGED <<verifying, result>>
    BY <1>2 DEF Verif!CollectTransaction
  <2>2. P \in Requested /\ Verif!Collected(s) \in Seq(Submissions)
        /\ Verif!Range(Verif!Collected(s)) = Verif!Range(pending[P]) \cup {s}
    BY CollectedCalls
  <2>3. /\ \A p \in Requested : Verif!Range(pending[p]) \subseteq Submissions
        /\ \A b \in DOMAIN verifying : Verif!Range(verifying[b]) \subseteq Submissions
    BY DEF Kept, Verif!Range
  <2>4. \A p \in Requested : pending'[p] = IF p = P THEN Verif!Collected(s) ELSE pending[p]
    BY <2>1, <2>2 DEF Kept
  <2>5. \A t \in Submissions : answer'[t] = IF t = s THEN "waiting" ELSE answer[t]
    BY <2>1 DEF Kept
  <2>6. answer' \in [Submissions -> {"unsent", "waiting"} \cup Verif!Answers]
        /\ pending' \in [Requested -> Seq(Submissions)]
    BY <2>1, <2>2 DEF Kept
  <2>7. /\ \A p \in Requested : s \notin Verif!Range(pending[p])
        /\ \A b \in DOMAIN verifying : s \notin Verif!Range(verifying[b])
    BY <2>1, UnsentIsNowhere
  <2>8. ASSUME NEW p \in Requested, NEW t \in Verif!Range(pending'[p])
        PROVE  answer'[t] = "waiting" /\ Transaction[t].package = p
    <3>1. CASE t = s
      BY <2>2, <2>4, <2>5, <2>7, <3>1
    <3>2. CASE t # s
      <4>1. t \in Verif!Range(pending[p])
        BY <2>2, <2>4, <3>2
      <4> QED
        BY <2>3, <2>5, <3>2, <4>1 DEF Kept
    <3> QED
      BY <3>1, <3>2
  <2>9. ASSUME NEW b \in DOMAIN verifying, NEW t \in Verif!Range(verifying[b])
        PROVE  /\ answer'[t] = "waiting"
               /\ \A p \in Requested : t \notin Verif!Range(pending'[p])
    <3>1. t \in Submissions /\ t # s
      BY <2>3, <2>7
    <3>2. answer'[t] = "waiting"
      BY <2>5, <3>1 DEF Kept
    <3>3. \A p \in Requested : t \notin Verif!Range(pending[p])
      BY DEF Kept
    <3> QED
      BY <2>2, <2>4, <3>1, <3>2, <3>3
  <2> QED
    BY <2>1, <2>6, <2>8, <2>9 DEF Kept
<1>3. ASSUME NEW s \in Submissions, Verif!StartVerification(s) PROVE Kept'
  <2> DEFINE P == Transaction[s].package
  <2>1. answer' = [answer EXCEPT ![s] = "waiting"] /\ answer[s] = "unsent"
        /\ pending' = [pending EXCEPT ![P] = <<>>] /\ UNCHANGED result
    BY <1>3 DEF Verif!StartVerification
  <2>2. PICK b \in Verif!Free : verifying' = [x \in DOMAIN verifying \cup {b} |->
                                         IF x = b THEN Verif!Collected(s) ELSE verifying[x]]
    BY <1>3 DEF Verif!StartVerification
  <2>3. P \in Requested /\ Verif!Collected(s) \in Seq(Submissions)
        /\ Verif!Range(Verif!Collected(s)) = Verif!Range(pending[P]) \cup {s} /\ Verif!Range(<<>>) = {}
    BY CollectedCalls
  <2>4. /\ \A p \in Requested : Verif!Range(pending[p]) \subseteq Submissions
        /\ \A c \in DOMAIN verifying : Verif!Range(verifying[c]) \subseteq Submissions
    BY DEF Kept, Verif!Range
  <2>5. \A p \in Requested : pending'[p] = IF p = P THEN <<>> ELSE pending[p]
    BY <2>1, <2>3 DEF Kept
  <2>6. \A t \in Submissions : answer'[t] = IF t = s THEN "waiting" ELSE answer[t]
    BY <2>1 DEF Kept
  <2>7. answer' \in [Submissions -> {"unsent", "waiting"} \cup Verif!Answers]
        /\ pending' \in [Requested -> Seq(Submissions)]
    <3>1. <<>> \in Seq(Submissions)
      OBVIOUS
    <3> QED
      BY <2>1, <3>1, Zenon DEF Kept
  <2>8. b \notin DOMAIN verifying /\ b \notin DOMAIN result
        /\ DOMAIN verifying' = DOMAIN verifying \cup {b}
        /\ verifying'[b] = Verif!Collected(s)
        /\ \A c \in DOMAIN verifying : verifying'[c] = verifying[c]
    BY <2>2 DEF Verif!Free
  <2>9. /\ \A p \in Requested : s \notin Verif!Range(pending[p])
        /\ \A c \in DOMAIN verifying : s \notin Verif!Range(verifying[c])
    BY <2>1, UnsentIsNowhere
  <2>10. ASSUME NEW p \in Requested, NEW t \in Verif!Range(pending'[p])
         PROVE  answer'[t] = "waiting" /\ Transaction[t].package = p
    BY <2>3, <2>4, <2>5, <2>6 DEF Kept
  <2>11. ASSUME NEW c \in DOMAIN verifying', NEW t \in Verif!Range(verifying'[c])
         PROVE  answer'[t] = "waiting"
    BY <2>3, <2>4, <2>6, <2>8 DEF Kept
  <2>12. ASSUME NEW c \in DOMAIN verifying', NEW t \in Verif!Range(verifying'[c]), NEW p \in Requested
         PROVE  t \notin Verif!Range(pending'[p])
    <3>1. CASE c = b
      <4>1. t = s \/ t \in Verif!Range(pending[P])
        BY <2>3, <2>8, <3>1
      <4>2. p = P => pending'[p] = <<>>
        BY <2>5
      <4>3. ASSUME p # P PROVE pending'[p] = pending[p] /\ t \notin Verif!Range(pending[p])
        <5>1. pending'[p] = pending[p]
          BY <2>5, <4>3
        <5>2. t \in Verif!Range(pending[P]) => Transaction[t].package = P
          BY <2>3 DEF Kept
        <5>3. t \in Verif!Range(pending[p]) => Transaction[t].package = p
          BY DEF Kept
        <5> QED
          BY <2>9, <4>1, <4>3, <5>1, <5>2, <5>3
      <4> QED
        BY <2>3, <4>2, <4>3
    <3>2. CASE c # b
      BY <2>3, <2>5, <2>8, <3>2 DEF Kept
    <3> QED
      BY <3>1, <3>2
  <2>13. ASSUME NEW c \in DOMAIN verifying', NEW t \in Verif!Range(verifying'[c]),
                NEW d \in DOMAIN verifying' \ {c}
         PROVE  t \notin Verif!Range(verifying'[d])
    <3>1. CASE c = b
      <4>1. t = s \/ t \in Verif!Range(pending[P])
        BY <2>3, <2>8, <3>1
      <4>2. d \in DOMAIN verifying /\ verifying'[d] = verifying[d]
        BY <2>8, <3>1
      <4> QED
        BY <2>3, <2>9, <4>1, <4>2 DEF Kept
    <3>2. CASE d = b
      BY <2>3, <2>8, <2>9, <3>2 DEF Kept
    <3>3. CASE c # b /\ d # b
      BY <2>8, <3>3 DEF Kept
    <3> QED
      BY <3>1, <3>2, <3>3
  <2>14. \A c \in DOMAIN verifying' : verifying'[c] \in Seq(Submissions) /\ c \notin DOMAIN result'
    BY <2>1, <2>3, <2>8 DEF Kept
  <2> QED
    BY <2>7, <2>10, <2>11, <2>12, <2>13, <2>14 DEF Kept
<1>4. ASSUME NEW s \in Submissions, Verif!StartRefused(s) PROVE Kept'
  <2> DEFINE P == Transaction[s].package
  <2>1. /\ answer' = [t \in Submissions |-> IF t \in Verif!Range(Verif!Collected(s)) THEN "dropped" ELSE answer[t]]
        /\ answer[s] = "unsent"
        /\ pending' = [pending EXCEPT ![P] = <<>>]
        /\ UNCHANGED <<verifying, result>>
    BY <1>4 DEF Verif!StartRefused, Verif!AnswerAll
  <2>2. P \in Requested /\ Verif!Range(Verif!Collected(s)) = Verif!Range(pending[P]) \cup {s} /\ Verif!Range(<<>>) = {}
    BY CollectedCalls
  <2>3. /\ \A p \in Requested : Verif!Range(pending[p]) \subseteq Submissions
        /\ \A c \in DOMAIN verifying : Verif!Range(verifying[c]) \subseteq Submissions
    BY DEF Kept, Verif!Range
  <2>4. \A p \in Requested : pending'[p] = IF p = P THEN <<>> ELSE pending[p]
    BY <2>1, <2>2 DEF Kept
  <2>5. answer' \in [Submissions -> {"unsent", "waiting"} \cup Verif!Answers]
        /\ pending' \in [Requested -> Seq(Submissions)]
    <3>1. <<>> \in Seq(Submissions)
      OBVIOUS
    <3> QED
      BY <2>1, <3>1, Zenon DEF Kept, Verif!Answers
  <2>6. /\ \A p \in Requested : s \notin Verif!Range(pending[p])
        /\ \A c \in DOMAIN verifying : s \notin Verif!Range(verifying[c])
    BY <2>1, UnsentIsNowhere
  <2>7. ASSUME NEW p \in Requested, NEW t \in Verif!Range(pending'[p])
        PROVE  answer'[t] = "waiting" /\ Transaction[t].package = p
    <3>1. p # P /\ t \in Verif!Range(pending[p])
      BY <2>2, <2>4
    <3>2. t \notin Verif!Range(Verif!Collected(s))
      BY <2>2, <2>6, <3>1 DEF Kept
    <3> QED
      BY <2>1, <2>3, <3>1, <3>2 DEF Kept
  <2>8. ASSUME NEW c \in DOMAIN verifying, NEW t \in Verif!Range(verifying[c])
        PROVE  /\ answer'[t] = "waiting"
               /\ \A p \in Requested : t \notin Verif!Range(pending'[p])
    <3>1. t \notin Verif!Range(Verif!Collected(s))
      BY <2>2, <2>6 DEF Kept
    <3> QED
      BY <2>1, <2>2, <2>3, <2>4, <3>1 DEF Kept
  <2> QED
    <3>1. verifying' = verifying /\ result' = result
      BY <2>1
    <3> QED
      BY <2>5, <2>7, <2>8, <3>1 DEF Kept
<1>5. ASSUME NEW b \in BuildIds, Verif!HandleBuildFailed(b) PROVE Kept'
  <2>1. answer' = [s \in Submissions |-> IF s \in Verif!Range(verifying[b]) THEN "build_failed" ELSE answer[s]]
    BY <1>5 DEF Verif!HandleBuildFailed, Verif!AnswerAll
  <2>2. answer' \in [Submissions -> {"unsent", "waiting"} \cup Verif!Answers]
    BY <2>1 DEF Kept, Verif!Answers
  <2> QED
    BY <1>5, <2>1, <2>2, KeptEnd DEF Verif!HandleBuildFailed
<1>6. ASSUME NEW b \in BuildIds, Verif!HandleBuildResult(b) PROVE Kept'
  <2>1. PICK made : /\ Verif!AnswerAll(verifying[b], [s \in Submissions |-> Verif!Verdict(s, made)])
                    /\ result' = [x \in DOMAIN result \cup {b} |-> IF x = b THEN made ELSE result[x]]
    BY <1>6 DEF Verif!HandleBuildResult
  <2>2. answer' = [s \in Submissions |-> IF s \in Verif!Range(verifying[b]) THEN Verif!Verdict(s, made) ELSE answer[s]]
    BY <2>1 DEF Verif!AnswerAll
  <2>3. answer' \in [Submissions -> {"unsent", "waiting"} \cup Verif!Answers]
    BY <2>2 DEF Kept, Verif!Answers, Verif!Verdict
  <2> QED
    BY <1>6, <2>1, <2>2, <2>3, KeptEnd, ZenonT(30) DEF Verif!HandleBuildResult
<1>7. CASE UNCHANGED Verif!vars
  BY <1>7 DEF Verif!vars, Kept
<1> QED
  BY <1>1, <1>2, <1>3, <1>4, <1>5, <1>6, <1>7 DEF Verif!Next, Verif!Verify, Verif!BuildEnds

\* A build's result is kept: an active build has none, and gets one when it ends.
LEMMA ConfirmedStep ==
  ASSUME Verif!Transactions, Kept, Verif!ConfirmedWasBuilt, [Verif!Next]_(Verif!vars)
  PROVE  Verif!ConfirmedWasBuilt'
<1>1. ASSUME NEW s \in Submissions, Verif!Verify(s) PROVE Verif!ConfirmedWasBuilt'
  <2>1. result' = result
    BY <1>1 DEF Verif!Verify, Verif!RefuseTransaction, Verif!CollectTransaction,
                Verif!StartVerification, Verif!StartRefused
  <2>2. \A t \in Submissions : answer'[t] = "ok" => answer[t] = "ok"
    BY <1>1 DEF Verif!Verify, Verif!RefuseTransaction, Verif!CollectTransaction,
                Verif!StartVerification, Verif!StartRefused,
                Verif!AnswerAll, Kept
  <2> QED
    BY <2>1, <2>2 DEF Verif!ConfirmedWasBuilt
<1>2. ASSUME NEW b \in BuildIds, Verif!BuildEnds(b) PROVE Verif!ConfirmedWasBuilt'
  <2>1. PICK made :
          /\ result' = [x \in DOMAIN result \cup {b} |-> IF x = b THEN made ELSE result[x]]
          /\ \A s \in Submissions : answer'[s] = "ok" =>
               answer[s] = "ok" \/ Verif!Verdict(s, made) = "ok"
    <3>1. CASE Verif!HandleBuildFailed(b)
      BY <3>1 DEF Verif!HandleBuildFailed, Verif!AnswerAll, Kept
    <3>2. CASE Verif!HandleBuildResult(b)
      <4>1. PICK made :
              /\ Verif!AnswerAll(verifying[b], [s \in Submissions |-> Verif!Verdict(s, made)])
              /\ result' = [x \in DOMAIN result \cup {b} |-> IF x = b THEN made ELSE result[x]]
        BY <3>2, Zenon DEF Verif!HandleBuildResult
      <4>2. \A s \in Submissions : answer'[s] = "ok" =>
              answer[s] = "ok" \/ Verif!Verdict(s, made) = "ok"
        BY <4>1, ZenonT(30) DEF Verif!AnswerAll
      <4> QED
        BY <4>1, <4>2, Zenon
    <3> QED
      BY <1>2, <3>1, <3>2 DEF Verif!BuildEnds
  <2>2. b \notin DOMAIN result
    BY <1>2 DEF Verif!BuildEnds, Verif!HandleBuildFailed, Verif!HandleBuildResult, Kept
  <2>3. /\ DOMAIN result' = DOMAIN result \cup {b} /\ result'[b] = made
        /\ \A c \in DOMAIN result : result'[c] = result[c]
    BY <2>1, <2>2
  <2>4. ASSUME NEW s \in Submissions, answer'[s] = "ok"
        PROVE  \E c \in DOMAIN result' :
                 /\ Transaction[s].artifact \in DOMAIN result'[c]
                 /\ result'[c][Transaction[s].artifact] = Transaction[s].hash
    <3>1. CASE answer[s] = "ok"
      BY <2>3, <3>1 DEF Verif!ConfirmedWasBuilt
    <3>2. CASE Verif!Verdict(s, made) = "ok"
      BY <2>3, <3>2 DEF Verif!Verdict
    <3> QED
      BY <2>1, <2>4, <3>1, <3>2, ZenonT(30)
  <2> QED
    BY <2>4 DEF Verif!ConfirmedWasBuilt
<1>3. CASE UNCHANGED Verif!vars
  BY <1>3 DEF Verif!vars, Verif!ConfirmedWasBuilt
<1> QED
  BY <1>1, <1>2, <1>3 DEF Verif!Next

\* Whatever is submitted, refused, collected and built in whatever order,
\* handle_build_result confirms a transaction only from a build that gave its
\* artifact with its hash.
THEOREM ConfirmationIsBuilt == ASSUME Verif!Transactions
  PROVE Verif!Spec => []Verif!ConfirmedWasBuilt
<1>1. Verif!Init => Kept /\ Verif!ConfirmedWasBuilt
  BY KeptInit DEF Verif!Init, Verif!ConfirmedWasBuilt
<1>2. Kept /\ Verif!ConfirmedWasBuilt /\ [Verif!Next]_(Verif!vars) => Kept' /\ Verif!ConfirmedWasBuilt'
  BY KeptStep, ConfirmedStep
<1> QED
  BY <1>1, <1>2, PTL DEF Verif!Spec

\* An answer is final: the calls that pending_info and verifying_info hold all
\* wait, so no oneshot sender is used or dropped twice.
THEOREM AnswersFinal == ASSUME Verif!Transactions PROVE Verif!Spec => Verif!AnsweredOnce
<1>1. Verif!Init => Kept
  BY KeptInit
<1>2. Kept /\ [Verif!Next]_(Verif!vars) => Kept'
  BY KeptStep
<1>3. Kept /\ [Verif!Next]_(Verif!vars) =>
        [\A s \in Submissions : answer[s] \in Verif!Answers => answer'[s] = answer[s]]_(Verif!vars)
  <2> SUFFICES ASSUME Kept, Verif!Next, NEW s \in Submissions, answer[s] \in Verif!Answers
               PROVE  answer'[s] = answer[s]
    BY DEF Verif!vars
  <2>0. answer[s] \notin {"unsent", "waiting"}
    BY DEF Verif!Answers
  <2>1. ASSUME NEW t \in Submissions, Verif!Verify(t) PROVE answer'[s] = answer[s]
    <3>1. t # s
      BY <2>0, <2>1 DEF Verif!Verify, Verif!RefuseTransaction, Verif!CollectTransaction,
                        Verif!StartVerification, Verif!StartRefused
    <3>2. CASE Verif!StartRefused(t)
      <4>1. s \notin Verif!Range(Verif!Collected(t))
        <5>1. /\ Transaction[t].package \in Requested
              /\ Verif!Range(Verif!Collected(t)) = Verif!Range(pending[Transaction[t].package]) \cup {t}
          BY CollectedCalls, Zenon
        <5>2. s \notin Verif!Range(pending[Transaction[t].package])
          BY <2>0, <5>1, ZenonT(30) DEF Kept
        <5> QED
          BY <3>1, <5>1, <5>2, Zenon
      <4> QED
        BY <3>2, <4>1 DEF Verif!StartRefused, Verif!AnswerAll
    <3>3. CASE ~Verif!StartRefused(t)
      BY <2>1, <3>1, <3>3 DEF Verif!Verify, Verif!RefuseTransaction, Verif!CollectTransaction,
                              Verif!StartVerification, Kept
    <3> QED
      BY <3>2, <3>3
  <2>2. ASSUME NEW b \in BuildIds, Verif!BuildEnds(b) PROVE answer'[s] = answer[s]
    <3>1. s \notin Verif!Range(verifying[b])
      BY <2>0, <2>2, Zenon DEF Verif!BuildEnds, Verif!HandleBuildFailed, Verif!HandleBuildResult, Kept
    <3> QED
      BY <2>2, <3>1 DEF Verif!BuildEnds, Verif!HandleBuildFailed, Verif!HandleBuildResult,
                        Verif!AnswerAll
  <2> QED
    BY <2>1, <2>2 DEF Verif!Next
<1> QED
  BY <1>1, <1>2, <1>3, PTL DEF Verif!Spec, Verif!AnsweredOnce

-----------------------------------------------------------------------------
(***************************************************************************)
(* Authority: for any finite set of authorities, completeness of a         *)
(* multi-signature means more than two thirds, and two complete messages   *)
(* are one.                                                                *)
(***************************************************************************)

CONSTANTS Authorities, Messages, Honest
VARIABLES known, signed

Auth == INSTANCE Authority

\* The instance has operators of its own for those of FiniteSets; they are the same.
LEMMA SameFinite == ASSUME NEW S PROVE Auth!IsFiniteSet(S) = IsFiniteSet(S)
  BY Zenon DEF Auth!IsFiniteSet, IsFiniteSet

LEMMA SameCardinality == ASSUME NEW S PROVE Auth!Cardinality(S) = Cardinality(S)
  BY Zenon DEF Auth!Cardinality, Cardinality

LEMMA FiniteAuthorities ==
  ASSUME Auth!FinitelyMany
  PROVE  IsFiniteSet(Authorities) /\ Honest \subseteq Authorities
  BY SameFinite, Zenon DEF Auth!FinitelyMany

-----------------------------------------------------------------------------
(* Thresholds and quorums                                                  *)

\* AuthorityVerifier::Auth!threshold is the least number above two thirds.
LEMMA ThresholdAboveTwoThirds ==
  ASSUME NEW n \in Nat, NEW k \in Nat, k >= Auth!threshold(n)
  PROVE  3 * k > 2 * n
  BY DEF Auth!threshold

\* Two sets of signers, each of more than two thirds, and the honest authorities have
\* a member in common.
LEMMA QuorumsMeet ==
  ASSUME NEW A, IsFiniteSet(A),
         NEW S \in SUBSET A, NEW T \in SUBSET A, NEW H \in SUBSET A,
         3 * Cardinality(S) > 2 * Cardinality(A),
         3 * Cardinality(T) > 2 * Cardinality(A),
         3 * Cardinality(H) > 2 * Cardinality(A)
  PROVE  \E x \in H : x \in S /\ x \in T
<1> DEFINE B == S \cap T
<1>1. /\ IsFiniteSet(S) /\ IsFiniteSet(T) /\ IsFiniteSet(H)
      /\ IsFiniteSet(B)
  <2>1. B \in SUBSET A
    OBVIOUS
  <2> HIDE DEF B
  <2> QED BY <2>1, FS_Subset
<1>2. /\ Cardinality(A) \in Nat /\ Cardinality(S) \in Nat /\ Cardinality(T) \in Nat
      /\ Cardinality(H) \in Nat /\ Cardinality(B) \in Nat
  <2> HIDE DEF B
  <2> QED BY <1>1, FS_CardinalityType
<1>3. 3 * Cardinality(B) > Cardinality(A)
  <2>1. Cardinality(S \cup T) = Cardinality(S) + Cardinality(T) - Cardinality(B)
    BY <1>1, FS_Union
  <2>2. S \cup T \in SUBSET A
    OBVIOUS
  <2>3. Cardinality(S \cup T) <= Cardinality(A)
    BY <2>2, FS_Subset
  <2> QED BY <1>2, <2>1, <2>3
<1>4. Cardinality(B) + Cardinality(H) > Cardinality(A)
  <2> HIDE DEF B
  <2> QED BY <1>2, <1>3
<1>5. B \cap H # {}
  <2>1. B \subseteq A
    OBVIOUS
  <2> HIDE DEF B
  <2> QED BY <1>4, <2>1, FS_MajoritiesIntersect
<1> QED BY <1>5

-----------------------------------------------------------------------------
(* Types                                                                   *)

\* Every box holds authorities only, and always its own (KeyBox::new).
THEOREM AuthorityTypes == Auth!Spec => []Auth!TypeOK
<1>1. Auth!Init => Auth!TypeOK
  BY DEF Auth!Init, Auth!TypeOK
<1>2. Auth!TypeOK /\ [Auth!Next]_(Auth!vars) => Auth!TypeOK'
  <2> SUFFICES ASSUME Auth!TypeOK, [Auth!Next]_(Auth!vars)
               PROVE  Auth!TypeOK'
    OBVIOUS
  <2>1. CASE \E a, b \in Authorities : Auth!record_authority(a, b)
    BY <2>1 DEF Auth!TypeOK, Auth!record_authority
  <2>2. CASE \E a \in Authorities, m \in Messages : Auth!sign(a, m)
    BY <2>2 DEF Auth!TypeOK, Auth!sign
  <2>3. CASE UNCHANGED Auth!vars
    BY <2>3 DEF Auth!TypeOK, Auth!vars
  <2> QED BY <2>1, <2>2, <2>3 DEF Auth!Next
<1> QED BY <1>1, <1>2, PTL DEF Auth!Spec

-----------------------------------------------------------------------------
(* A complete message                                                      *)

\* What AuthorityVerifier::Auth!is_complete accepts is signed by more than two thirds of
\* the authorities the box knows.
LEMMA CompleteIsMost ==
  ASSUME Auth!FinitelyMany, Auth!TypeOK, NEW a \in Authorities, NEW m \in Messages, Auth!Complete(a, m)
  PROVE  \E S \in SUBSET (signed[m] \cap known[a]) : 3 * Cardinality(S) > 2 * Cardinality(known[a])
<1>1. PICK S \in SUBSET signed[m] : Auth!is_complete(a, S)
  BY DEF Auth!Complete
<1>2. S \in SUBSET (signed[m] \cap known[a])
  BY <1>1 DEF Auth!is_complete
<1>3. known[a] \in SUBSET Authorities
  BY DEF Auth!TypeOK
<1>4. IsFiniteSet(known[a])
  BY <1>3, FS_Subset, FiniteAuthorities
<1>5. IsFiniteSet(S)
  BY <1>2, <1>4, FS_Subset
<1>6. Cardinality(S) \in Nat /\ Cardinality(known[a]) \in Nat
  BY <1>4, <1>5, FS_CardinalityType
<1>7. Cardinality(S) >= Auth!threshold(Cardinality(known[a]))
  BY <1>1, SameCardinality, ZenonT(30) DEF Auth!is_complete
<1>8. 3 * Cardinality(S) > 2 * Cardinality(known[a])
  BY <1>6, <1>7, ThresholdAboveTwoThirds
<1> QED BY <1>2, <1>8

\* For any authorities and boxes, also boxes that know only a part of them: a message
\* Auth!is_complete accepts is signed by more than two thirds of those the box knows.
THEOREM CompletenessRequiresMost == ASSUME Auth!FinitelyMany PROVE Auth!Spec => []Auth!CompleteByMost
<1>1. Auth!TypeOK => Auth!CompleteByMost
  <2> SUFFICES ASSUME Auth!TypeOK, NEW a \in Authorities, NEW m \in Messages, Auth!Complete(a, m)
               PROVE  3 * Cardinality(signed[m] \cap known[a]) > 2 * Cardinality(known[a])
    BY SameCardinality, ZenonT(30) DEF Auth!CompleteByMost
  <2>1. PICK S \in SUBSET (signed[m] \cap known[a]) : 3 * Cardinality(S) > 2 * Cardinality(known[a])
    BY CompleteIsMost, Auth!FinitelyMany
  <2>2. known[a] \in SUBSET Authorities
    BY DEF Auth!TypeOK
  <2>3. IsFiniteSet(known[a])
    BY <2>2, FS_Subset, FiniteAuthorities
  <2>4. IsFiniteSet(signed[m] \cap known[a])
    BY <2>3, FS_Intersection, ZenonT(30)
  <2>5. IsFiniteSet(S) /\ Cardinality(S) <= Cardinality(signed[m] \cap known[a])
    BY <2>4, FS_Subset
  <2>6. /\ Cardinality(S) \in Nat /\ Cardinality(known[a]) \in Nat
        /\ Cardinality(signed[m] \cap known[a]) \in Nat
    BY <2>3, <2>4, <2>5, FS_CardinalityType
  <2> QED BY <2>1, <2>5, <2>6
<1> QED BY <1>1, AuthorityTypes, PTL

-----------------------------------------------------------------------------
(* One complete message                                                    *)

\* An honest authority has signed one message at most.
HonestOnce == \A h \in Honest : \A m, o \in Messages : h \in signed[m] /\ h \in signed[o] => m = o

\* Auth!sign keeps it: the guard of an honest authority.
LEMMA HonestSignOnce == Auth!Spec => []HonestOnce
<1>1. Auth!Init => HonestOnce
  BY DEF Auth!Init, HonestOnce
<1>2. Auth!TypeOK /\ HonestOnce /\ [Auth!Next]_(Auth!vars) => HonestOnce'
  <2> SUFFICES ASSUME Auth!TypeOK, HonestOnce, [Auth!Next]_(Auth!vars)
               PROVE  HonestOnce'
    OBVIOUS
  <2>1. CASE \E a, b \in Authorities : Auth!record_authority(a, b)
    BY <2>1 DEF HonestOnce, Auth!record_authority
  <2>2. CASE \E a \in Authorities, m \in Messages : Auth!sign(a, m)
    BY <2>2 DEF HonestOnce, Auth!TypeOK, Auth!sign
  <2>3. CASE UNCHANGED Auth!vars
    BY <2>3 DEF HonestOnce, Auth!vars
  <2> QED BY <2>1, <2>2, <2>3 DEF Auth!Next
<1> QED BY <1>1, <1>2, AuthorityTypes, PTL DEF Auth!Spec

\* With more than two thirds of the authorities honest, the Auth!threshold of
\* AuthorityVerifier admits no two complete messages, for any number of authorities:
\* the signers of both include an honest one.
THEOREM OneMessageComplete == ASSUME Auth!FinitelyMany, Auth!MostHonest PROVE Auth!Spec => []Auth!OneComplete
<1>1. Auth!TypeOK /\ HonestOnce => Auth!OneComplete
  <2> SUFFICES ASSUME Auth!TypeOK, HonestOnce,
                      NEW a \in Authorities, NEW b \in Authorities,
                      NEW m \in Messages, NEW o \in Messages,
                      known[a] = Authorities, known[b] = Authorities,
                      Auth!Complete(a, m), Auth!Complete(b, o)
               PROVE  m = o
    BY DEF Auth!OneComplete
  <2>1. PICK S \in SUBSET (signed[m] \cap known[a]) : 3 * Cardinality(S) > 2 * Cardinality(known[a])
    BY CompleteIsMost, Auth!FinitelyMany
  <2>2. PICK T \in SUBSET (signed[o] \cap known[b]) : 3 * Cardinality(T) > 2 * Cardinality(known[b])
    BY CompleteIsMost, Auth!FinitelyMany
  <2>3. S \in SUBSET Authorities /\ T \in SUBSET Authorities /\ Honest \in SUBSET Authorities
    BY FiniteAuthorities
  <2>4. 3 * Cardinality(Honest) > 2 * Cardinality(Authorities)
    BY SameCardinality, Auth!MostHonest, ZenonT(30) DEF Auth!MostHonest
  <2>5. PICK x \in Honest : x \in S /\ x \in T
    BY <2>1, <2>2, <2>3, <2>4, QuorumsMeet, FiniteAuthorities
  <2> QED BY <2>5 DEF HonestOnce
<1> QED BY <1>1, AuthorityTypes, HonestSignOnce, PTL

==============================================================================
