------------------------------- MODULE Ingest -------------------------------
(***************************************************************************)
(* The watcher and the queue joined at the table they share.  The watcher  *)
(* knows of nuron_ai.documents which hash has a row and under which name;  *)
(* every other column is the queue's.  One statement writes what both go   *)
(* by, the INSERT of scan(), and it is written out here.  What either does *)
(* besides, it does without the other, between any two steps of it.        *)
(***************************************************************************)
EXTENDS Naturals, FiniteSets

CONSTANTS
    PathCount, FormatOf, UnstorableNames, Versions, LengthOf, MaxLength, Binary,
    Inodes, Window, Limit, Pause, Mtimes, MaxTime, MaxChanges, MaxScanFaults,
    Texts, Blank, UnstorableTexts, Workers, Role, Reviewers, Person,
    MaxAttempts, MaxFaults, None

\* Files with an extension both sides know, in the order of the walk.
Names == DOMAIN FormatOf

\* What iter_landable() decodes is what extract_markdown() will decode.
TextNames == {p \in Names : FormatOf[p] = "text"}

\* A content hash stands for the content.
Hashes == UNION {[1..n -> Versions] : n \in 0..MaxLength}

ASSUME NameAssumption ==
    /\ PathCount \in Nat /\ Names \subseteq 1..PathCount
    /\ FormatOf \in [Names -> {"text", "docx", "pdf"}]
ASSUME VersionAssumption ==
    /\ IsFiniteSet(Versions)
    /\ MaxLength \in Nat /\ Limit \in Nat /\ LengthOf \in [Versions -> 1..MaxLength]
ASSUME TimeAssumption ==
    Window \in Nat \ {0} /\ Pause \in Nat /\ Pause < Window /\ Mtimes \subseteq Nat
ASSUME TextsAssumption ==
    Blank \in Texts /\ None \notin Texts /\ UnstorableTexts \subseteq Texts \ {Blank}
ASSUME ProcessAssumption ==
    /\ Workers \cap Reviewers = {}
    /\ Role \in [Workers -> {"extract", "promote", "compile", "persist"}]
    /\ \A r \in Reviewers : Person[r] \notin Workers \cup {None}
    /\ None \notin Workers
ASSUME BoundAssumption ==
    /\ MaxTime \in Nat /\ MaxChanges \in Nat /\ MaxScanFaults \in Nat
    /\ MaxAttempts \in Nat \ {0} /\ MaxFaults \in Nat
ASSUME NoneAssumption ==
    /\ None \notin Inodes /\ None \notin 1..PathCount /\ None \notin Versions
    /\ None \notin Hashes
    /\ None \notin [text : Texts, header : {"complete", "incomplete"}, source : Nat]

VARIABLES
    clock, at, disk, object, scan, saved, changes, scanFaults, \* of Landing
    row, landings, reviewed, job, txn, faults                  \* of Pipeline

watched == <<clock, at, disk, object, scan, saved, changes, scanFaults>>

queued == <<row, landings, reviewed, job, txn, faults>>

vars == <<watched, queued>>

\* The watcher's view of documents.
OriginalFilename == [c \in Hashes |-> row[c].filename]

Watcher == INSTANCE LandingProofs WITH
    Supported  <- Names,
    TextPaths  <- TextNames,
    Unstorable <- UnstorableNames,
    MaxFaults  <- MaxScanFaults,
    faults     <- scanFaults,
    landed     <- OriginalFilename

Queue == INSTANCE PipelineProofs WITH
    Docs       <- Hashes,
    Files      <- Names,
    Unstorable <- UnstorableTexts

-----------------------------------------------------------------------------
Init == Queue!Init /\ Watcher!Init

\* A new row: the columns the statement names, and the defaults of the others.
Landed(name) == [Queue!AbsentRow EXCEPT !.state = "landed", !.filename = name,
                                        !.created = landings + 1]

\* Bug: ON CONFLICT DO UPDATE SET state = 'landed'.
InsertRowAgain ==
    /\ scan.step = "insert"
    /\ IF scan.path \in UnstorableNames
       THEN UNCHANGED <<row, landings>>
       ELSE IF row[scan.data].state # "absent"
       THEN /\ row' = [row EXCEPT ![scan.data].state = "landed"]
            /\ UNCHANGED landings
       ELSE /\ row' = [row EXCEPT ![scan.data] = Landed(scan.path)]
            /\ landings' = landings + 1
    /\ Watcher!NextFile
    /\ UNCHANGED <<clock, at, disk, object, saved, changes, scanFaults>>
    /\ UNCHANGED <<reviewed, job, txn, faults>>

\* INSERT INTO nuron_ai.documents ... ON CONFLICT (content_hash) DO NOTHING, of
\* whatever the scan holds: the database looks for the key, the scan for nothing.
InsertRow ==
    /\ scan.step = "insert"
    /\ IF row[scan.data].state # "absent" \/ scan.path \in UnstorableNames
       THEN UNCHANGED <<row, landings>>
       ELSE /\ row' = [row EXCEPT ![scan.data] = Landed(scan.path)]
            /\ landings' = landings + 1
    /\ Watcher!NextFile
    /\ UNCHANGED <<clock, at, disk, object, saved, changes, scanFaults>>
    /\ UNCHANGED <<reviewed, job, txn, faults>>

\* Every other step of the watcher and of the programs around it.
Watch == /\ UNCHANGED queued
         /\ Watcher!Environment \/ Watcher!Walk \/ Watcher!CallFails \/ Watcher!Crash

Process == /\ UNCHANGED watched
           /\ Queue!Internal

Next == InsertRow \/ Watch \/ Process

Spec == Init /\ [][Next]_vars

-----------------------------------------------------------------------------
(* Correctness *)

\* Neither side breaks what the other takes for granted: to the watcher, all the
\* queue does to a row is nothing (no UPDATE of it touches original_filename and
\* none of it removes a row), and the hash it conflicts with is one it landed, ...
ImplementsLanding == Watcher!Spec

\* ... and to the queue, the statement is an arrival or nothing: a scan that finds
\* a file again, in whatever state its row has got to and whoever holds it, changes
\* no column of it, and the row of a new hash is one a worker can claim.
ImplementsPipeline == Queue!Spec

\* The Evidence root, down to the bytes (CONTEXT.md): a compiled graph cites a
\* Reviewed Source with the text it was compiled from, frozen from a document whose
\* object get() returns, and whose bytes are all of a version that a program
\* finished under the very filename that numbers its lineage.
Rooted ==
    \A d \in Hashes : row[d].graph # None =>
        /\ object[d] = "intact"
        /\ \E x \in reviewed : /\ x.doc = d
                               /\ x.version = row[d].graph.source
                               /\ x.text = row[d].graph.text
        /\ \E v \in Versions : d = Watcher!Whole(v) /\ <<row[d].filename, v>> \in saved

\* The versions ever finished under a filename.
HistoryOf(p) == {v \in Versions : <<p, v>> \in saved}

\* approve() gives the n-th version of a filename only when the file has had n
\* different finished contents: no torn read, second file of one content, retry or
\* concurrent approval makes a version out of nothing.
VersionsSaved ==
    \A x \in reviewed : x.version <= Cardinality(HistoryOf(row[x.doc].filename))

\* A claimed document is one extract_markdown() can read: get() returns it, its
\* extension is supported, and what it decodes as UTF-8 is UTF-8.
Extractable ==
    \A p \in Queue!Processes : Queue!Busy(p) =>
        LET d == job[p].doc
        IN  /\ object[d] = "intact"
            /\ row[d].filename \in Names
            /\ row[d].filename \in TextNames => \A k \in DOMAIN d : d[k] \notin Binary

-----------------------------------------------------------------------------
(* The inductive invariant *)

\* What the queue takes for a document the watcher takes for landed.
Named == \A d \in Hashes : row[d].filename = None <=> row[d].state = "absent"

\* The invariants of the two parts hold together or not at all: the watcher tells
\* the queue which hashes and names arrive, the queue keeps the names it was told.
IInv == Watcher!IInv /\ Queue!IInv /\ Named
=============================================================================
