---------------------------- MODULE IngestProofs ----------------------------
(***************************************************************************)
(* Theorems about Ingest: each part behaves in the company of the other    *)
(* as its own specification says, so what is proved of either holds of     *)
(* both together.                                                          *)
(***************************************************************************)
EXTENDS Ingest, FiniteSetTheorems, TLAPS

-----------------------------------------------------------------------------
(* The steps *)

\* What the two parts say of a hash is about the same ones.
LEMMA Shared == Watcher!Contents = Hashes
  BY DEF Watcher!Contents, Hashes

\* What Landing proves of its parameters holds of these, ...
LEMMA WatcherKeeps ==
    /\ Watcher!Init => Watcher!IInv
    /\ Watcher!IInv /\ [Watcher!Next]_Watcher!vars => Watcher!IInv'
<1>1. None \notin Watcher!Paths
  BY NoneAssumption DEF Watcher!Paths
<1> QED
  BY <1>1, Watcher!InvInit, Watcher!InvStep, NameAssumption, VersionAssumption,
     TimeAssumption, BoundAssumption, NoneAssumption

\* ... and so does what Pipeline proves.
LEMMA QueueKeeps ==
    /\ Queue!Init => Queue!IInv
    /\ Queue!IInv /\ [Queue!Next]_Queue!vars => Queue!IInv'
    /\ Queue!IInv /\ Queue!Internal => Queue!RowsStay
<1>1. None \notin Queue!Graphs
  BY NoneAssumption DEF Queue!Graphs, Queue!Headers
<1> QED
  BY <1>1, Queue!InvInit, Queue!InvStep, Queue!NamesKept, NameAssumption, TextsAssumption,
     ProcessAssumption, BoundAssumption, NoneAssumption

LEMMA InvInit == Init => IInv
<1>1. Init => Named
  BY DEF Init, Named, Queue!Init, Queue!AbsentRow
<1> QED  BY <1>1, WatcherKeeps, QueueKeeps DEF Init, IInv

\* A hash the watcher may land is one without a row.
LEMMA Conflict ==
    ASSUME IInv, InsertRow
    PROVE  /\ scan.data \in Hashes /\ scan.path \in Names /\ scan.path # None
           /\ OriginalFilename[scan.data] # None <=> row[scan.data].state # "absent"
<1>1. scan.data \in Hashes
  BY Shared DEF IInv, Watcher!IInv, Watcher!TypeOK, Watcher!Scans
<1>2. scan.path \in Names /\ scan.path # None
  BY NoneAssumption DEF IInv, Watcher!IInv, Watcher!Walking, InsertRow, Watcher!Paths
<1> QED  BY <1>1, <1>2 DEF IInv, Named, OriginalFilename

\* To the queue the insert is an arrival, or it is nothing: ON CONFLICT finds the row
\* exactly where the queue has a document.
LEMMA InsertIsLand ==
    ASSUME IInv, InsertRow
    PROVE  (\E d \in Hashes, f \in Names : Queue!Land(d, f)) \/ UNCHANGED Queue!vars
<1>1. CASE row[scan.data].state # "absent" \/ scan.path \in UnstorableNames
  BY <1>1 DEF InsertRow, Queue!vars
<1>2. CASE ~(row[scan.data].state # "absent" \/ scan.path \in UnstorableNames)
  <2>1. Queue!Land(scan.data, scan.path)
    BY <1>2 DEF InsertRow, Landed, Queue!Land
  <2> QED  BY <2>1, Conflict
<1> QED  BY <1>1, <1>2

\* To the watcher it is Insert: its ON CONFLICT is about hashes with a filename.
LEMMA InsertIsInsert ==
    ASSUME IInv, InsertRow
    PROVE  Watcher!Insert
<1> DEFINE c == scan.data
           taken == scan.path \in UnstorableNames \/ OriginalFilename[c] # None
<1>1. /\ scan.step = "insert" /\ Watcher!NextFile
      /\ UNCHANGED <<Watcher!files, object, scanFaults>>
  BY DEF InsertRow, Watcher!files
<1>2. row \in [Hashes -> Queue!Rows]
  BY DEF IInv, Queue!IInv, Queue!TypeOK
<1>3. OriginalFilename' = IF taken THEN OriginalFilename
                          ELSE [OriginalFilename EXCEPT ![c] = scan.path]
  <2>1. CASE taken
    BY <2>1, Conflict DEF InsertRow, OriginalFilename
  <2>2. CASE ~taken
    <3>1. row' = [row EXCEPT ![c] = Landed(scan.path)]
      BY <2>2, Conflict DEF InsertRow
    <3>2. Landed(scan.path).filename = scan.path
      BY DEF Landed, Queue!AbsentRow
    <3> QED  BY <1>2, <2>2, <3>1, <3>2, Conflict DEF OriginalFilename
  <2> QED  BY <2>1, <2>2
<1> QED  BY <1>1, <1>3 DEF Watcher!Insert

\* The insert of a row is a step of both.
LEMMA InsertIsBoth ==
    IInv /\ InsertRow => Watcher!Next /\ [Queue!Next]_Queue!vars
<1> SUFFICES ASSUME IInv, InsertRow PROVE Watcher!Next /\ [Queue!Next]_Queue!vars
  OBVIOUS
<1>1. [Queue!Next]_Queue!vars
  BY InsertIsLand DEF Queue!Next
<1>2. Watcher!Next
  BY InsertIsInsert DEF Watcher!Next, Watcher!Scan
<1> QED  BY <1>1, <1>2

\* A step of the watcher is none of the queue, ...
LEMMA WatchIsOne == Watch => Watcher!Next /\ UNCHANGED Queue!vars
  BY DEF Watch, Watcher!Next, Watcher!Scan, queued, Queue!vars

\* ... and one of the queue none of the watcher.
LEMMA ProcessIsOne ==
    IInv /\ Process => Queue!Next /\ UNCHANGED Watcher!vars
<1> SUFFICES ASSUME IInv, Process PROVE Queue!Next /\ UNCHANGED Watcher!vars
  OBVIOUS
<1>1. Queue!Next
  BY DEF Process, Queue!Next
<1>2. \A d \in Hashes : row'[d].filename = row[d].filename
  BY QueueKeeps DEF IInv, Process, Queue!RowsStay
<1>3. OriginalFilename' = OriginalFilename
  BY <1>2 DEF OriginalFilename
<1>4. UNCHANGED Watcher!vars
  BY <1>3 DEF Process, watched, Watcher!vars
<1> QED  BY <1>1, <1>4

\* Every step is one of each part, or none of it.
LEMMA StepMaps ==
    IInv /\ [Next]_vars => [Watcher!Next]_Watcher!vars /\ [Queue!Next]_Queue!vars
<1>1. UNCHANGED vars => UNCHANGED Watcher!vars /\ UNCHANGED Queue!vars
  BY DEF vars, watched, queued, Watcher!vars, Queue!vars, OriginalFilename
<1> QED  BY <1>1, InsertIsBoth, WatchIsOne, ProcessIsOne DEF Next

LEMMA NamedStep == IInv /\ [Next]_vars => Named'
<1> SUFFICES ASSUME IInv, [Next]_vars PROVE Named'
  OBVIOUS
<1>1. CASE InsertRow
  <2>1. CASE UNCHANGED row
    BY <2>1 DEF IInv, Named
  <2>2. CASE row' = [row EXCEPT ![scan.data] = Landed(scan.path)]
    <3>1. row \in [Hashes -> Queue!Rows]
      BY DEF IInv, Queue!IInv, Queue!TypeOK
    <3>2. Landed(scan.path).filename # None /\ Landed(scan.path).state # "absent"
      BY <1>1, Conflict DEF Landed, Queue!AbsentRow
    <3> QED  BY <2>2, <3>1, <3>2 DEF IInv, Named
  <2> QED  BY <1>1, <2>1, <2>2 DEF InsertRow
<1>2. CASE Process
  BY <1>2, QueueKeeps DEF IInv, Named, Process, Queue!RowsStay
<1>3. CASE Watch \/ UNCHANGED vars
  BY <1>3 DEF IInv, Named, Watch, queued, vars
<1> QED  BY <1>1, <1>2, <1>3 DEF Next

LEMMA InvStep == IInv /\ [Next]_vars => IInv'
  BY StepMaps, WatcherKeeps, QueueKeeps, NamedStep DEF IInv

-----------------------------------------------------------------------------
(* The theorems *)

\* The invariants of watcher and queue hold of the two at work on one table.
THEOREM Invariant == Spec => []IInv
  BY InvInit, InvStep, PTL DEF Spec

\* The queue leaves documents as the watcher has to find it, so every theorem
\* about scan() holds next to the workers and reviewers.
THEOREM Watched == Spec => ImplementsLanding
<1>1. Init => Watcher!Init
  BY DEF Init
<1>2. IInv /\ [Next]_vars => [Watcher!Next]_Watcher!vars
  BY StepMaps
<1> QED  BY <1>1, <1>2, Invariant, PTL DEF Spec, ImplementsLanding, Watcher!Spec

\* The INSERT of scan() is an arrival the queue expects or leaves every column alone,
\* whatever the state of the row it conflicts with, so every safety theorem about the
\* workers and reviewers holds of the documents that come out of the directory.
THEOREM Queued == Spec => ImplementsPipeline
<1>1. Init => Queue!Init
  BY DEF Init
<1>2. IInv /\ [Next]_vars => [Queue!Next]_Queue!vars
  BY StepMaps
<1> QED  BY <1>1, <1>2, Invariant, PTL DEF Spec, ImplementsPipeline, Queue!Spec

\* A row stands for a finished version of the file of its name, and its object.
LEMMA RowIsVersion ==
    IInv => \A d \in Hashes : row[d].state # "absent" =>
        /\ object[d] = "intact"
        /\ row[d].filename \in Names
        /\ \E v \in Versions : /\ d = Watcher!Whole(v)
                              /\ <<row[d].filename, v>> \in saved
                              /\ (row[d].filename \in TextNames => v \notin Binary)
<1> SUFFICES ASSUME IInv, NEW d \in Hashes, row[d].state # "absent"
    PROVE  /\ object[d] = "intact"
           /\ row[d].filename \in Names
           /\ \E v \in Versions : /\ d = Watcher!Whole(v)
                                 /\ <<row[d].filename, v>> \in saved
                                 /\ (row[d].filename \in TextNames => v \notin Binary)
  OBVIOUS
<1>1. OriginalFilename[d] = row[d].filename /\ row[d].filename # None
  BY DEF OriginalFilename, IInv, Named
<1>2. d \in Watcher!Contents
  BY Shared
<1>3. object[d] = "intact"
  BY <1>1, <1>2 DEF IInv, Watcher!IInv, Watcher!Acknowledged, Watcher!RowHasObject
<1>4. \E v \in Versions : /\ d = Watcher!Whole(v)
                         /\ <<row[d].filename, v>> \in saved
                         /\ Watcher!Landable(row[d].filename, v)
  BY <1>1, <1>2 DEF IInv, Watcher!IInv, Watcher!WholeVersions
<1> QED  BY <1>3, <1>4 DEF Watcher!Landable

\* A document with a Reviewed Source has landed.
LEMMA SourceLanded ==
    IInv => \A x \in reviewed : x.doc \in Hashes /\ row[x.doc].state # "absent"
<1> SUFFICES ASSUME IInv, NEW x \in reviewed
    PROVE  x.doc \in Hashes /\ row[x.doc].state # "absent"
  OBVIOUS
<1>1. x.doc \in Hashes
  BY DEF IInv, Queue!IInv, Queue!TypeOK, Queue!Sources
<1>2. x \in Queue!SourcesOf(x.doc)
  BY DEF Queue!SourcesOf
<1> QED  BY <1>1, <1>2 DEF IInv, Queue!IInv, Queue!Sourced

\* From a compiled graph back to the file: approve(), extract_pending(), put() and
\* iter_landable() each hand on what the one before them had.
THEOREM EvidenceRooted == Spec => []Rooted
<1>1. IInv => Rooted
  <2> SUFFICES ASSUME IInv, NEW d \in Hashes, row[d].graph # None
      PROVE  /\ object[d] = "intact"
             /\ \E x \in reviewed : /\ x.doc = d
                                    /\ x.version = row[d].graph.source
                                    /\ x.text = row[d].graph.text
             /\ \E v \in Versions : d = Watcher!Whole(v) /\ <<row[d].filename, v>> \in saved
    BY DEF Rooted
  <2>1. PICK x \in Queue!SourcesOf(d) : /\ x.version = row[d].graph.source
                                       /\ x.text = row[d].graph.text
    BY DEF IInv, Queue!IInv, Queue!Sourced
  <2>2. x \in reviewed /\ x.doc = d
    BY DEF Queue!SourcesOf
  <2> QED  BY <2>1, <2>2, SourceLanded, RowIsVersion
<1> QED  BY <1>1, Invariant, PTL

\* extract_pending() never meets a document that get() does not return, whose
\* extension it does not know or whose text it cannot decode.
THEOREM ExtractableRows == Spec => []Extractable
<1>1. IInv => Extractable
  <2> SUFFICES ASSUME IInv, NEW p \in Queue!Processes, Queue!Busy(p)
      PROVE  LET d == job[p].doc
             IN  /\ object[d] = "intact"
                 /\ row[d].filename \in Names
                 /\ row[d].filename \in TextNames => \A k \in DOMAIN d : d[k] \notin Binary
    BY DEF Extractable
  <2>1. job[p].doc \in Hashes /\ row[job[p].doc].state # "absent"
    BY DEF Queue!Busy, IInv, Queue!IInv, Queue!TypeOK, Queue!Jobs, Queue!Fenced
  <2>2. PICK v \in Versions : /\ job[p].doc = Watcher!Whole(v)
                             /\ (row[job[p].doc].filename \in TextNames => v \notin Binary)
    BY <2>1, RowIsVersion
  <2>3. \A k \in DOMAIN Watcher!Whole(v) : Watcher!Whole(v)[k] = v
    BY DEF Watcher!Whole
  <2> QED  BY <2>1, <2>2, <2>3, RowIsVersion
<1> QED  BY <1>1, Invariant, PTL

\* Version n of a filename is the n-th of as many finished contents at least
\* (approve(), scan()).
THEOREM VersionsRooted == Spec => []VersionsSaved
<1>1. IInv => VersionsSaved
  <2> SUFFICES ASSUME IInv, NEW x \in reviewed
      PROVE  x.version <= Cardinality(HistoryOf(row[x.doc].filename))
    BY DEF VersionsSaved
  <2> DEFINE f == row[x.doc].filename
             n == x.version
             Version(i) == CHOOSE y \in reviewed : row[y.doc].filename = f /\ y.version = i
             Saved(i) == CHOOSE v \in Versions :
                            Version(i).doc = Watcher!Whole(v) /\ <<f, v>> \in saved
             g == [i \in 1..n |-> Saved(i)]
  <2>1. f \in Names /\ n \in Nat
    BY SourceLanded, RowIsVersion DEF IInv, Queue!IInv, Queue!TypeOK, Queue!Sources
  <2>2. ASSUME NEW i \in 1..n
        PROVE  \E y \in reviewed : row[y.doc].filename = f /\ y.version = i
    <3>1. Queue!LatestVersion(f) \in Nat /\ Queue!VersionsOf(f) = 1..Queue!LatestVersion(f)
      BY <2>1 DEF IInv, Queue!IInv, Queue!Numbered
    <3>2. n \in Queue!VersionsOf(f)
      BY DEF Queue!VersionsOf
    <3>3. i \in Queue!VersionsOf(f)
      BY <2>1, <3>1, <3>2
    <3> QED  BY <3>3 DEF Queue!VersionsOf
  <2>3. ASSUME NEW i \in 1..n
        PROVE  /\ Version(i) \in reviewed
               /\ row[Version(i).doc].filename = f /\ Version(i).version = i
    BY <2>2
  <2>4. ASSUME NEW i \in 1..n
        PROVE  /\ Saved(i) \in Versions
               /\ Version(i).doc = Watcher!Whole(Saved(i)) /\ <<f, Saved(i)>> \in saved
    <3>1. PICK y \in reviewed : y = Version(i) /\ row[y.doc].filename = f
      BY <2>3
    <3>2. y.doc \in Hashes /\ row[y.doc].state # "absent"
      BY SourceLanded
    <3>3. \E v \in Versions : y.doc = Watcher!Whole(v) /\ <<f, v>> \in saved
      BY <3>1, <3>2, RowIsVersion
    <3>4. \E v \in Versions : Version(i).doc = Watcher!Whole(v) /\ <<f, v>> \in saved
      BY <3>1, <3>3
    <3> HIDE DEF Version
    <3> QED  BY <3>4
  <2>5. ASSUME NEW i \in 1..n, NEW j \in 1..n, Saved(i) = Saved(j)
        PROVE  i = j
    <3>1. Version(i).doc = Version(j).doc
      BY <2>4, <2>5
    <3>2. Version(i) = Version(j)
      BY <2>3, <3>1 DEF IInv, Queue!IInv, Queue!Sourced
    <3> QED  BY <2>3, <3>2
  <2>6. g \in Injection(1..n, HistoryOf(f))
    <3> HIDE DEF Saved
    <3>1. g \in [1..n -> HistoryOf(f)]
      BY <2>4 DEF HistoryOf
    <3> QED  BY <2>5, <3>1 DEF Injection, IsInjective
  <2>7. IsFiniteSet(HistoryOf(f))
    BY VersionAssumption, FS_Subset DEF HistoryOf
  <2>8. Cardinality(1..n) = n
    BY <2>1, FS_Interval
  <2> HIDE DEF g
  <2> QED  BY <2>6, <2>7, <2>8, FS_Injection
<1> QED  BY <1>1, Invariant, PTL
=============================================================================
