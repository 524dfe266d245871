--------------------------- MODULE PersistProofs ---------------------------
(***************************************************************************)
(* Theorems about Persist: types, the version lineage, and that no persist *)
(* releases the ref of a document other than the one it replaces.          *)
(***************************************************************************)
EXTENDS Persist, TLAPS

\* None is no document, worker or property value, and no content either.
LEMMA NoneIsNothing ==
    /\ None \notin Docs /\ None \notin Workers /\ None \notin Values
    /\ None \notin Contents
  BY NoneAssumption DEF Contents

\* The records nodes and jobs start from are a node and a job.
LEMMA BlankTypes == Gone \in Nodes /\ NoJob \in Jobs
<1>1. NoContent \in Contents
  BY DEF NoContent, Contents
<1>2. Gone \in Nodes
  BY <1>1 DEF Gone, Nodes
<1>3. [k \in Keys |-> Gone] \in [Keys -> Nodes]
  BY <1>2
<1> QED  BY <1>2, <1>3 DEF NoJob, Jobs

\* An upsert makes a node of anything, and touches no ref.
LEMMA UpsertedType ==
    ASSUME NEW n \in Nodes, NEW c \in Contents, NEW m \in Models
    PROVE  /\ Upserted(n, c, m) \in Nodes
           /\ Upserted(n, c, m).refs = n.refs
           /\ Upserted(n, c, m).alive
<1>1. [p \in Props |-> IF c[p] # None THEN c[p] ELSE n.content[p]] \in Contents
  BY DEF Contents, Nodes
<1> QED  BY <1>1 DEF Upserted, Nodes

\* What the release UPDATEs make of a row is a row; its version stays, and it
\* is not an unapproved one if it was not.
LEMMA RowTypes ==
    ASSUME NEW x \in Rows, NEW y,
           \/ y = Retried(x)
           \/ y = [Freed(x) EXCEPT !.state = "persisted", !.attempts = 0, !.retryAt = "null"]
           \/ y = [Freed(x) EXCEPT !.state = "failed"]
    PROVE  /\ y \in Rows /\ y.version = x.version
           /\ x.state # "parsed" => y.state # "parsed"
<1>1. CASE y = Retried(x)
  <2> DEFINE n == x.attempts + 1
             s == IF n >= MaxAttempts THEN "failed" ELSE x.state
  <2>1. n \in Nat /\ s \in {"parsed", "approved", "awaiting_merge_confirm", "persisted", "failed"}
        /\ (x.state # "parsed" => s # "parsed")
    BY DEF Rows
  <2>2. y = [x EXCEPT !.claimedBy = None, !.lease = "none", !.attempts = n,
                      !.retryAt = "future", !.state = s]
    BY <1>1 DEF Retried, Freed, Rows
  <2> HIDE DEF n, s
  <2> QED  BY <2>1, <2>2 DEF Rows
<1>2. CASE y = [Freed(x) EXCEPT !.state = "persisted", !.attempts = 0, !.retryAt = "null"]
  BY <1>2 DEF Freed, Rows
<1>3. CASE y = [Freed(x) EXCEPT !.state = "failed"]
  BY <1>3 DEF Freed, Rows
<1> QED  BY <1>1, <1>2, <1>3

\* A step that puts a row, and nothing else, into the table.
LEMMA RowStep ==
    ASSUME TypeOK, NEW d \in Docs, NEW y \in Rows,
           row' = [row EXCEPT ![d] = y],
           provenance' = provenance, nodes' = nodes, model' = model, early' = early,
           faults' \in Nat, job' = job
    PROVE  TypeOK'
  BY DEF TypeOK

\* A step that gives a worker a new job, or takes its job.
LEMMA JobStep ==
    ASSUME TypeOK, NEW w \in Workers, NEW x \in Jobs, x.at = "idle" <=> x.doc = None,
           job' = [job EXCEPT ![w] = x],
           row' \in [Docs -> Rows], provenance' \subseteq Keys \X Docs,
           nodes' \in [Keys -> Nodes], model' \in [Workers -> Models],
           early' \subseteq Docs, faults' \in Nat
    PROVE  TypeOK'
  BY DEF TypeOK

\* A job that is not idle is on a document.
LEMMA AtWork ==
    ASSUME TypeOK, NEW w \in Workers, job[w].at # "idle"
    PROVE  job[w].doc \in Docs /\ job[w] \in Jobs /\ row[job[w].doc] \in Rows
<1>1. job[w] \in Jobs /\ job[w].doc # None
  BY DEF TypeOK
<1>2. job[w].doc \in Docs
  BY <1>1 DEF Jobs
<1> QED  BY <1>1, <1>2 DEF TypeOK

\* The node a step works on is one of the snapshot.
LEMMA NextKeysTyped ==
    ASSUME TypeOK, NEW w \in Workers, NEW k \in NextKeys(w)
    PROVE  k \in Keys /\ job[w].existing[k] \in Nodes
<1>1. job[w] \in Jobs
  BY DEF TypeOK
<1>2. k \in job[w].todo
  BY DEF NextKeys
<1> QED  BY <1>1, <1>2 DEF Jobs

-----------------------------------------------------------------------------
(* What a worker's step may do *)

\* Only w's job changes; a predecessor is kept from before or just looked up.
JobMoves(w) ==
    \E x \in Jobs :
        /\ job' = [job EXCEPT ![w] = x]
        /\ x.at = "idle" <=> x.doc = None
        /\ x.previous # None =>
              /\ x.doc # None /\ x.doc = job[w].doc
              /\ x.previous = job[w].previous \/ x.previous \in Predecessors(x.doc)

\* A row keeps its version, and does not become unapproved.
RowMoves ==
    \/ row' = row
    \/ \E d \in Docs, y \in Rows :
         /\ row' = [row EXCEPT ![d] = y]
         /\ y.version = row[d].version
         /\ row[d].state # "parsed" => y.state # "parsed"

\* A node loses no ref but that of w's predecessor, and dies only without refs.
NodeMoves(w) ==
    \/ nodes' = nodes
    \/ \E k \in Keys, n \in Nodes :
         /\ nodes' = [nodes EXCEPT ![k] = n]
         /\ \A d \in nodes[k].refs \ n.refs : d = job[w].previous /\ job[w].doc # None
         /\ ~n.alive => n.refs = {}

\* The rest of the state keeps its type.
RestMoves == /\ provenance' \subseteq Keys \X Docs
             /\ model' = model
             /\ early' \subseteq Docs
             /\ faults' = faults

WorkerMoves(w) == JobMoves(w) /\ RowMoves /\ NodeMoves(w) /\ RestMoves

\* A job whose program counter alone moved.
LEMMA JobAt ==
    ASSUME NEW w \in Workers, job[w] \in Jobs, job[w].doc # None,
           NEW at \in {"claimed", "lineage", "snapshot", "apply", "stale", "ref",
                       "mismatch", "booked"},
           job' = [job EXCEPT ![w] = [job[w] EXCEPT !.at = at]]
    PROVE  JobMoves(w)
<1> DEFINE x == [job[w] EXCEPT !.at = at]
<1>1. x \in Jobs /\ x.at = at /\ x.doc = job[w].doc /\ x.previous = job[w].previous
  BY DEF Jobs
<1> HIDE DEF x
<1>2. job' = [job EXCEPT ![w] = x]
  BY DEF x
<1> QED  BY <1>1, <1>2 DEF JobMoves

\* A worker that lets go of its row.
LEMMA JobEnds ==
    ASSUME NEW w \in Workers, job' = [job EXCEPT ![w] = NoJob]
    PROVE  JobMoves(w)
<1>1. NoJob \in Jobs /\ NoJob.at = "idle" /\ NoJob.doc = None /\ NoJob.previous = None
  BY BlankTypes DEF NoJob
<1> QED  BY <1>1 DEF JobMoves

\* db.claim() starts a job without a predecessor and changes no version.
LEMMA ClaimMoves ==
    ASSUME TypeOK, NEW w \in Workers, Claim(w)
    PROVE  WorkerMoves(w)
<1>1. PICK d \in Claimable :
         /\ row' = [row EXCEPT ![d].claimedBy = w, ![d].lease = "live", ![d].token = @ + 1]
         /\ job' = [job EXCEPT ![w] = [NoJob EXCEPT !.doc = d, !.at = "claimed",
                                                    !.token = row[d].token + 1]]
  BY DEF Claim
<1>2. d \in Docs /\ d # None /\ row[d] \in Rows
  BY NoneIsNothing DEF Claimable, TypeOK
<1> DEFINE t == row[d].token + 1
           x == [NoJob EXCEPT !.doc = d, !.at = "claimed", !.token = t]
           y == [row[d] EXCEPT !.claimedBy = w, !.lease = "live", !.token = t]
<1>3. t \in Nat
  BY <1>2 DEF Rows
<1>4. /\ x \in Jobs /\ x.at = "claimed" /\ x.doc = d /\ x.previous = None
      /\ y \in Rows /\ y.version = row[d].version /\ y.state = row[d].state
  <2> HIDE DEF t
  <2>1. x \in Jobs /\ x.at = "claimed" /\ x.doc = d /\ x.previous = None
    <3>1. NoJob \in Jobs /\ NoJob.previous = None
      BY BlankTypes DEF NoJob
    <3> QED  BY <1>2, <1>3, <3>1 DEF Jobs
  <2>2. y \in Rows /\ y.version = row[d].version /\ y.state = row[d].state
    BY <1>2, <1>3 DEF Rows
  <2> QED  BY <2>1, <2>2
<1>5. row' = [row EXCEPT ![d] = y]
  BY <1>1, <1>2 DEF TypeOK
<1>6. job' = [job EXCEPT ![w] = x]
  BY <1>1
<1> HIDE DEF x, y
<1>7. JobMoves(w)
  BY <1>2, <1>4, <1>6 DEF JobMoves
<1>8. RowMoves
  BY <1>2, <1>4, <1>5 DEF RowMoves
<1>9. NodeMoves(w) /\ RestMoves
  BY DEF Claim, NodeMoves, RestMoves, TypeOK
<1> QED  BY <1>7, <1>8, <1>9 DEF WorkerMoves

\* The reads before the writes, and a node found done, change only the job.
LEMMA ReadMoves ==
    ASSUME TypeOK, NEW w \in Workers,
           ReadLineage(w) \/ ReadProvenance(w) \/ Snapshot(w) \/ SkipNode(w)
    PROVE  WorkerMoves(w)
<1>1. job[w].at # "idle" /\ UNCHANGED <<row, provenance, nodes, model, faults>>
  BY DEF ReadLineage, ReadProvenance, Snapshot, SkipNode
<1>2. job[w].doc \in Docs /\ job[w] \in Jobs /\ job[w].doc # None
  BY <1>1, AtWork, NoneIsNothing
<1>3. JobMoves(w) /\ early' \subseteq Docs
  <2>1. CASE ReadLineage(w)
    <3>1. CASE Predecessors(job[w].doc) = {} /\ job' = [job EXCEPT ![w].at = "snapshot"]
               /\ UNCHANGED early
      <4>1. job' = [job EXCEPT ![w] = [job[w] EXCEPT !.at = "snapshot"]]
        BY <3>1 DEF TypeOK
      <4> QED  BY <1>2, <3>1, <4>1, JobAt DEF TypeOK
    <3>2. CASE \E e \in Predecessors(job[w].doc) :
                  /\ job' = [job EXCEPT ![w].at = "lineage", ![w].previous = e]
                  /\ early' = IF row[e].state = "persisted" THEN early
                              ELSE early \cup {job[w].doc}
      <4>1. PICK e \in Predecessors(job[w].doc) :
                  /\ job' = [job EXCEPT ![w].at = "lineage", ![w].previous = e]
                  /\ early' = IF row[e].state = "persisted" THEN early
                              ELSE early \cup {job[w].doc}
        BY <3>2
      <4>2. e \in Docs
        BY DEF Predecessors, Siblings
      <4> DEFINE x == [job[w] EXCEPT !.at = "lineage", !.previous = e]
      <4>3. x \in Jobs /\ x.at = "lineage" /\ x.doc = job[w].doc /\ x.previous = e
        BY <1>2, <4>2 DEF Jobs
      <4>4. job' = [job EXCEPT ![w] = x]
        BY <4>1 DEF TypeOK
      <4> HIDE DEF x
      <4>5. JobMoves(w)
        BY <1>2, <4>1, <4>3, <4>4 DEF JobMoves
      <4> QED  BY <1>2, <4>1, <4>5 DEF TypeOK
    <3> QED  BY <2>1, <3>1, <3>2 DEF ReadLineage
  <2>2. CASE ReadProvenance(w)
    <3> DEFINE S == BookedKeys(job[w].previous)
               x == [job[w] EXCEPT !.at = "snapshot", !.previousKeys = S]
    <3>1. S \subseteq Keys
      BY DEF BookedKeys
    <3>2. job' = [job EXCEPT ![w] = x]
      BY <2>2 DEF ReadProvenance, TypeOK
    <3>3. x \in Jobs /\ x.at = "snapshot" /\ x.doc = job[w].doc /\ x.previous = job[w].previous
      <4> HIDE DEF S
      <4> QED  BY <1>2, <3>1 DEF Jobs
    <3> HIDE DEF x
    <3>4. JobMoves(w)
      BY <1>2, <3>2, <3>3 DEF JobMoves
    <3> QED  BY <2>2, <3>4 DEF ReadProvenance, TypeOK
  <2>3. CASE Snapshot(w)
    <3> DEFINE a == IF ModelMatches(w) THEN "apply" ELSE "mismatch"
               E == [k \in Keys |-> IF k \in LookupKeys(w) THEN nodes[k] ELSE Gone]
               T == KeysOf(job[w].doc) \cup {k \in job[w].previousKeys : nodes[k].alive}
               x == [job[w] EXCEPT !.at = a, !.existing = E, !.todo = T]
    <3>1. E \in [Keys -> Nodes]
      BY BlankTypes DEF TypeOK
    <3>2. T \subseteq Keys
      BY <1>2 DEF KeysOf, Jobs
    <3>3. a \in {"apply", "mismatch"}
      OBVIOUS
    <3>4. job' = [job EXCEPT ![w] = x]
      BY <2>3 DEF Snapshot, TypeOK
    <3>5. x \in Jobs /\ x.at # "idle" /\ x.doc = job[w].doc /\ x.previous = job[w].previous
      <4> HIDE DEF a, E, T
      <4> QED  BY <1>2, <3>1, <3>2, <3>3 DEF Jobs
    <3> HIDE DEF x
    <3>6. JobMoves(w)
      BY <1>2, <3>4, <3>5 DEF JobMoves
    <3> QED  BY <2>3, <3>6 DEF Snapshot, TypeOK
  <2>4. CASE SkipNode(w)
    <3>1. PICK k \in NextKeys(w) : Done(w, k)
      BY <2>4 DEF SkipNode
    <3> DEFINE x == [job[w] EXCEPT !.at = "apply", !.todo = @ \ {k}]
    <3>2. job' = [job EXCEPT ![w] = x]
      BY <3>1 DEF Done, TypeOK
    <3>3. x \in Jobs /\ x.at = "apply" /\ x.doc = job[w].doc /\ x.previous = job[w].previous
      BY <1>2 DEF Jobs
    <3> HIDE DEF x
    <3>4. JobMoves(w)
      BY <1>2, <3>2, <3>3 DEF JobMoves
    <3> QED  BY <2>4, <3>4 DEF SkipNode, TypeOK
  <2> QED  BY <2>1, <2>2, <2>3, <2>4
<1> QED  BY <1>1, <1>3 DEF WorkerMoves, RowMoves, NodeMoves, RestMoves, TypeOK

\* The queries of _apply_node_delta() take away no ref but the predecessor's.
LEMMA QueryMoves ==
    ASSUME TypeOK, Lineage, NEW w \in Workers,
           Upsert(w) \/ RemoveStale(w) \/ AddRef(w) \/ DropRef(w)
    PROVE  WorkerMoves(w)
<1>1. /\ job[w].at \in {"apply", "stale", "ref"}
      /\ UNCHANGED <<row, provenance, model, early, faults>>
  BY DEF Upsert, RemoveStale, AddRef, DropRef
<1>2. job[w].doc \in Docs /\ job[w] \in Jobs /\ job[w].doc # None /\ row[job[w].doc] \in Rows
  BY <1>1, AtWork, NoneIsNothing
<1>3. ASSUME NEW k \in NextKeys(w), Done(w, k)
      PROVE  JobMoves(w)
  <2> DEFINE x == [job[w] EXCEPT !.at = "apply", !.todo = @ \ {k}]
  <2>1. job' = [job EXCEPT ![w] = x]
    BY <1>3 DEF Done, TypeOK
  <2>2. x \in Jobs /\ x.at = "apply" /\ x.doc = job[w].doc /\ x.previous = job[w].previous
    BY <1>2 DEF Jobs
  <2> HIDE DEF x
  <2> QED  BY <1>2, <2>1, <2>2 DEF JobMoves
<1>4. ASSUME NEW k \in Keys, NEW n \in Nodes, nodes' = [nodes EXCEPT ![k] = n],
             nodes[k].refs \subseteq n.refs, n.alive \/ n.refs = {}
      PROVE  NodeMoves(w)
  BY <1>4 DEF NodeMoves
<1>5. CASE Upsert(w)
  <2>1. PICK k \in NextKeys(w) :
          /\ Action(w, k) \in {"add", "update"}
          /\ nodes' = [nodes EXCEPT ![k] = Upserted(@, row[job[w].doc].graph[k], model[w])]
          /\ job' = [job EXCEPT ![w].at = IF Action(w, k) = "update" /\ StaleProps(w, k) # {}
                                          THEN "stale" ELSE "ref"]
    BY <1>5 DEF Upsert
  <2>2. k \in Keys /\ nodes[k] \in Nodes
    BY NextKeysTyped DEF TypeOK
  <2>3. k \in KeysOf(job[w].doc)
    BY <2>1 DEF Action
  <2>4. row[job[w].doc].graph[k] \in Contents
    BY <1>2, <2>2, <2>3 DEF KeysOf, Rows, Graphs
  <2>5. model[w] \in Models
    BY DEF TypeOK
  <2> DEFINE n == Upserted(nodes[k], row[job[w].doc].graph[k], model[w])
  <2>6. n \in Nodes /\ n.refs = nodes[k].refs /\ n.alive
    BY <2>2, <2>4, <2>5, UpsertedType
  <2>7. nodes' = [nodes EXCEPT ![k] = n]
    BY <2>1, <2>2 DEF TypeOK
  <2>8. NodeMoves(w)
    <3> HIDE DEF n
    <3> QED  BY <1>4, <2>2, <2>6, <2>7
  <2>9. PICK at \in {"stale", "ref"} : job' = [job EXCEPT ![w] = [job[w] EXCEPT !.at = at]]
    BY <2>1 DEF TypeOK
  <2>10. JobMoves(w)
    BY <1>2, <2>9, JobAt
  <2> QED  BY <1>1, <2>8, <2>10 DEF WorkerMoves, RowMoves, RestMoves, TypeOK
<1>6. CASE RemoveStale(w)
  <2>1. PICK k \in NextKeys(w) :
          /\ nodes' = [nodes EXCEPT ![k] = Cleaned(@, StaleProps(w, k))]
          /\ job' = [job EXCEPT ![w].at = "ref"]
    BY <1>6 DEF RemoveStale
  <2>2. k \in Keys /\ nodes[k] \in Nodes /\ StaleProps(w, k) \in SUBSET Props
    BY NextKeysTyped DEF TypeOK, StaleProps
  <2> DEFINE n == Cleaned(nodes[k], StaleProps(w, k))
  <2>3. n \in Nodes /\ n.refs = nodes[k].refs /\ n.alive = nodes[k].alive
    <3> DEFINE S == StaleProps(w, k)
    <3>1. Cleaned(nodes[k], S) \in Nodes /\ Cleaned(nodes[k], S).refs = nodes[k].refs
          /\ Cleaned(nodes[k], S).alive = nodes[k].alive
      <4>1. S \in SUBSET Props
        BY <2>2
      <4> HIDE DEF S
      <4>2. [p \in Props |-> IF p \in S THEN None ELSE nodes[k].content[p]] \in Contents
        BY <2>2 DEF Contents, Nodes
      <4> QED  BY <2>2, <4>2 DEF Cleaned, Nodes
    <3> QED  BY <3>1
  <2>4. ~nodes[k].alive => nodes[k].refs = {}
    BY <2>2 DEF Lineage
  <2>5. nodes' = [nodes EXCEPT ![k] = n]
    BY <2>1, <2>2 DEF TypeOK
  <2>6. NodeMoves(w)
    <3> HIDE DEF n
    <3> QED  BY <1>4, <2>2, <2>3, <2>4, <2>5
  <2>7. job' = [job EXCEPT ![w] = [job[w] EXCEPT !.at = "ref"]]
    BY <2>1 DEF TypeOK
  <2>8. JobMoves(w)
    BY <1>2, <2>7, JobAt
  <2> QED  BY <1>1, <2>6, <2>8 DEF WorkerMoves, RowMoves, RestMoves, TypeOK
<1>7. CASE AddRef(w)
  <2>1. PICK k \in NextKeys(w) :
          /\ nodes' = [nodes EXCEPT ![k] = RefAdded(@, job[w].doc, RefToRemove(w, k))]
          /\ Done(w, k)
    BY <1>7 DEF AddRef
  <2>2. k \in Keys /\ nodes[k] \in Nodes
    BY NextKeysTyped DEF TypeOK
  <2>3. RefToRemove(w, k) \in {job[w].previous, None} /\ RefToRemove(w, k) \in Docs \cup {None}
    BY <1>2 DEF RefToRemove, Jobs
  <2> DEFINE old == RefToRemove(w, k)
             n == RefAdded(nodes[k], job[w].doc, old)
  <2>4. /\ n \in Nodes /\ nodes[k].refs \ {old} \subseteq n.refs
        /\ n.alive = nodes[k].alive /\ (~nodes[k].alive => n.refs = nodes[k].refs)
    <3>1. old \in Docs \cup {None}
      BY <2>3
    <3> HIDE DEF old
    <3> QED  BY <1>2, <2>2, <3>1 DEF RefAdded, Nodes
  <2>5. ~nodes[k].alive => nodes[k].refs = {}
    BY <2>2 DEF Lineage
  <2>6. nodes' = [nodes EXCEPT ![k] = n]
    BY <2>1, <2>2 DEF TypeOK
  <2>7. \A d \in nodes[k].refs \ n.refs : d = job[w].previous
    <3>1. \A d \in nodes[k].refs : d # None
      BY <2>2, NoneIsNothing DEF Nodes
    <3> QED  BY <2>3, <2>4, <3>1
  <2>8. NodeMoves(w)
    <3> HIDE DEF n, old
    <3> QED  BY <1>2, <2>2, <2>4, <2>5, <2>6, <2>7 DEF NodeMoves
  <2> QED  BY <1>1, <1>3, <2>1, <2>8 DEF WorkerMoves, RowMoves, RestMoves, TypeOK
<1>8. CASE DropRef(w)
  <2>1. PICK k \in NextKeys(w) :
          /\ job[w].previous \in job[w].existing[k].refs
          /\ nodes' = [nodes EXCEPT ![k] = RefReleased(@, job[w].previous)]
          /\ Done(w, k)
    BY <1>8 DEF DropRef
  <2>2. k \in Keys /\ nodes[k] \in Nodes /\ job[w].previous \in Docs
    BY <2>1, NextKeysTyped DEF TypeOK, Nodes
  <2> DEFINE n == RefReleased(nodes[k], job[w].previous)
  <2>3. /\ n \in Nodes
        /\ nodes[k].alive => nodes[k].refs \ {job[w].previous} \subseteq n.refs
        /\ ~n.alive => n.refs = {}
    <3>1. n \in Nodes
      BY <2>2, BlankTypes DEF RefReleased, Nodes
    <3>2. /\ nodes[k].alive => nodes[k].refs \ {job[w].previous} \subseteq n.refs
          /\ ~n.alive => n.refs = {}
      BY <2>2 DEF RefReleased, Nodes, Gone
    <3> QED  BY <3>1, <3>2
  <2>4. ~nodes[k].alive => nodes[k].refs = {}
    BY <2>2 DEF Lineage
  <2>5. nodes' = [nodes EXCEPT ![k] = n]
    BY <2>1, <2>2 DEF TypeOK
  <2>6. \A d \in nodes[k].refs \ n.refs : d = job[w].previous
    <3> HIDE DEF n
    <3>1. CASE nodes[k].alive
      BY <2>3, <3>1
    <3>2. CASE ~nodes[k].alive
      BY <2>4, <3>2
    <3> QED  BY <3>1, <3>2
  <2>7. NodeMoves(w)
    <3> HIDE DEF n
    <3> QED  BY <1>2, <2>2, <2>3, <2>5, <2>6 DEF NodeMoves
  <2> QED  BY <1>1, <1>3, <2>1, <2>7 DEF WorkerMoves, RowMoves, RestMoves, TypeOK
<1> QED  BY <1>5, <1>6, <1>7, <1>8

\* The bookkeeping and the releases leave the nodes alone.
LEMMA EndMoves ==
    ASSUME TypeOK, NEW w \in Workers,
           Book(w) \/ Persisted(w) \/ SoftFail(w) \/ HardFail(w) \/ LostLease(w)
    PROVE  WorkerMoves(w)
<1>1. job[w].at # "idle" /\ UNCHANGED <<nodes, model, early, faults>>
  BY DEF Book, Persisted, SoftFail, HardFail, LostLease, Release
<1>2. job[w].doc \in Docs /\ job[w] \in Jobs /\ job[w].doc # None /\ row[job[w].doc] \in Rows
  BY <1>1, AtWork, NoneIsNothing
<1>3. CASE Book(w)
  <2>1. provenance' \subseteq Keys \X Docs /\ row' = row
    BY <1>2, <1>3 DEF Book, Rebooked, KeysOf, TypeOK
  <2> DEFINE x == [NoJob EXCEPT !.doc = job[w].doc, !.at = "booked", !.token = job[w].token]
  <2>2. job' = [job EXCEPT ![w] = x]
    BY <1>3 DEF Book
  <2>3. x \in Jobs /\ x.at = "booked" /\ x.doc = job[w].doc /\ x.previous = None
    <3>1. NoJob \in Jobs /\ NoJob.previous = None
      BY BlankTypes DEF NoJob
    <3> QED  BY <1>2, <3>1 DEF Jobs
  <2> HIDE DEF x
  <2>4. JobMoves(w)
    BY <1>2, <2>2, <2>3 DEF JobMoves
  <2> QED  BY <1>1, <2>1, <2>4 DEF WorkerMoves, RowMoves, NodeMoves, RestMoves, TypeOK
<1>4. CASE Persisted(w) \/ SoftFail(w) \/ HardFail(w)
  <2> DEFINE d == job[w].doc
  <2>1. PICK y : /\ \/ y = Retried(row[d])
                    \/ y = [Freed(row[d]) EXCEPT !.state = "persisted", !.attempts = 0,
                                                 !.retryAt = "null"]
                    \/ y = [Freed(row[d]) EXCEPT !.state = "failed"]
                 /\ Release(w, y)
    BY <1>4 DEF Persisted, SoftFail, HardFail
  <2>2. y \in Rows /\ y.version = row[d].version /\ (row[d].state # "parsed" => y.state # "parsed")
    BY <1>2, <2>1, RowTypes
  <2>3. RowMoves
    BY <1>2, <2>1, <2>2 DEF Release, RowMoves
  <2>4. JobMoves(w)
    BY <2>1, JobEnds DEF Release
  <2> QED  BY <1>1, <2>1, <2>3, <2>4 DEF Release, WorkerMoves, NodeMoves, RestMoves, TypeOK
<1>5. CASE LostLease(w)
  <2>1. JobMoves(w)
    BY <1>5, JobEnds DEF LostLease
  <2> QED  BY <1>1, <1>5, <2>1 DEF LostLease, WorkerMoves, RowMoves, NodeMoves, RestMoves, TypeOK
<1> QED  BY <1>3, <1>4, <1>5

\* Every step of a worker is of that kind.
LEMMA WorkMoves ==
    ASSUME TypeOK, Lineage, NEW w \in Workers, Work(w)
    PROVE  WorkerMoves(w)
  BY ClaimMoves, ReadMoves, QueryMoves, EndMoves DEF Work

-----------------------------------------------------------------------------
(* The invariant *)

\* Init establishes it.
LEMMA InitInvariant == Init => IInv
<1> SUFFICES ASSUME Init PROVE IInv
  OBVIOUS
<1>1. NoGraph \in Graphs
  BY DEF NoGraph, Graphs
<1>2. \A d \in Docs : row[d] \in Rows /\ row[d].version = 0
  BY <1>1 DEF Init, Rows
<1>3. \A w \in Workers : job[w] \in Jobs /\ job[w].at = "idle" /\ job[w].doc = None
                         /\ job[w].previous = None
  BY BlankTypes DEF Init, NoJob
<1>4. TypeOK
  BY <1>2, <1>3, BlankTypes DEF Init, TypeOK
<1>5. ASSUME NEW d \in Docs
      PROVE  LatestVersion(d) \in Nat /\ VersionsOf(d) = 1..LatestVersion(d)
  <2>1. VersionsOf(d) = {}
    BY <1>2 DEF VersionsOf, Siblings
  <2>2. LatestVersion(d) = 0
    BY <2>1 DEF LatestVersion, Max
  <2> QED  BY <2>1, <2>2
<1>6. \A k \in Keys : nodes[k].refs = {}
  BY DEF Init, Gone
<1> QED  BY <1>2, <1>3, <1>4, <1>5, <1>6 DEF IInv, Lineage

\* The versions of every filename stay what they were if no row's version moves.
LEMMA SameVersions ==
    ASSUME \A d \in Docs : row'[d].version = row[d].version, NEW d \in Docs
    PROVE  /\ Siblings(d)' = Siblings(d)
           /\ VersionsOf(d)' = VersionsOf(d)
           /\ LatestVersion(d)' = LatestVersion(d)
<1>1. Siblings(d)' = Siblings(d)
  BY DEF Siblings
<1>2. VersionsOf(d)' = VersionsOf(d)
  BY <1>1 DEF VersionsOf, Siblings
<1> QED  BY <1>1, <1>2 DEF LatestVersion

\* A worker's step keeps the types.
LEMMA WorkerType ==
    ASSUME TypeOK, NEW w \in Workers, WorkerMoves(w)
    PROVE  TypeOK'
<1>1. row' \in [Docs -> Rows]
  BY DEF WorkerMoves, RowMoves, TypeOK
<1>2. nodes' \in [Keys -> Nodes]
  BY DEF WorkerMoves, NodeMoves, TypeOK
<1>3. PICK x \in Jobs : job' = [job EXCEPT ![w] = x] /\ (x.at = "idle" <=> x.doc = None)
  BY DEF WorkerMoves, JobMoves
<1> QED  BY <1>1, <1>2, <1>3, JobStep DEF WorkerMoves, RestMoves, TypeOK

\* A worker's step keeps the lineage.
LEMMA WorkerLineage ==
    ASSUME TypeOK, Lineage, NEW w \in Workers, WorkerMoves(w)
    PROVE  Lineage'
<1>1. \A d \in Docs : /\ row'[d].version = row[d].version
                      /\ row[d].state # "parsed" => row'[d].state # "parsed"
  BY DEF WorkerMoves, RowMoves, TypeOK
<1>2. \A d \in Docs : /\ (row[d].state = "parsed" => row[d].version = 0)'
                      /\ LatestVersion(d)' \in Nat
                      /\ VersionsOf(d)' = 1..LatestVersion(d)'
  BY <1>1, SameVersions DEF Lineage
<1>3. \A k \in Keys : ~nodes'[k].alive => nodes'[k].refs = {}
  BY DEF WorkerMoves, NodeMoves, Lineage, TypeOK
<1>4. ASSUME NEW v \in Workers, job'[v].previous # None
      PROVE  /\ job'[v].doc # None
             /\ FileOf[job'[v].previous] = FileOf[job'[v].doc]
             /\ row'[job'[v].previous].version # 0
             /\ row'[job'[v].doc].version = row'[job'[v].previous].version + 1
  <2>1. PICK x \in Jobs :
           /\ job' = [job EXCEPT ![w] = x]
           /\ x.previous # None =>
                /\ x.doc # None /\ x.doc = job[w].doc
                /\ x.previous = job[w].previous \/ x.previous \in Predecessors(x.doc)
    BY DEF WorkerMoves, JobMoves
  <2>2. CASE v # w
    <3>1. job'[v] = job[v] /\ job[v] \in Jobs
      BY <2>1, <2>2 DEF TypeOK
    <3>2. job[v].doc \in Docs /\ job[v].previous \in Docs
      BY <1>4, <3>1 DEF Lineage, Jobs
    <3> QED  BY <1>1, <1>4, <3>1, <3>2 DEF Lineage
  <2>3. CASE v = w
    <3>1. job'[v] = x
      BY <2>1, <2>3 DEF TypeOK
    <3>2. x.doc \in Docs /\ x.previous \in Docs
      BY <1>4, <2>1, <3>1 DEF Jobs
    <3>3. CASE x.previous = job[w].previous
      <4>1. /\ job[w].doc = x.doc /\ job[w].previous = x.previous /\ x.previous # None
        BY <1>4, <2>1, <3>1, <3>3
      <4>2. /\ FileOf[x.previous] = FileOf[x.doc]
            /\ row[x.previous].version # 0
            /\ row[x.doc].version = row[x.previous].version + 1
        BY <4>1 DEF Lineage
      <4> QED  BY <1>1, <2>1, <3>1, <3>2, <4>1, <4>2
    <3>4. CASE x.previous \in Predecessors(x.doc)
      BY <1>1, <1>4, <2>1, <3>1, <3>2, <3>4 DEF Predecessors, Siblings
    <3> QED  BY <1>4, <2>1, <3>1, <3>3, <3>4
  <2> QED  BY <2>2, <2>3
<1> QED  BY <1>2, <1>3, <1>4 DEF Lineage

\* approve() numbers a document one above the versions of its filename.
LEMMA ApproveLineage ==
    ASSUME TypeOK, Lineage, NEW d \in Docs, Approve(d)
    PROVE  TypeOK' /\ Lineage'
<1> DEFINE n == LatestVersion(d)
           m == n + 1
           y == [row[d] EXCEPT !.state = "approved", !.version = m]
<1>1. /\ row[d] \in Rows /\ row[d].state = "parsed" /\ row[d].version = 0
      /\ n \in Nat /\ VersionsOf(d) = 1..n
      /\ UNCHANGED <<provenance, nodes, job, model, early, faults>>
  BY DEF Approve, Lineage, TypeOK
<1>2. row' = [row EXCEPT ![d] = y]
  BY <1>1 DEF Approve, TypeOK
<1>3. y \in Rows /\ y.state = "approved" /\ y.version = n + 1
  <2>1. m \in Nat /\ m = n + 1
    BY <1>1
  <2>2. y \in Rows /\ y.state = "approved" /\ y.version = m
    <3> HIDE DEF m
    <3> QED  BY <1>1, <2>1 DEF Rows
  <2> QED  BY <2>1, <2>2
<1> HIDE DEF y
<1>4. TypeOK'
  BY <1>1, <1>2, <1>3, RowStep DEF TypeOK
<1>5. \A e \in Docs \ {d} : row'[e] = row[e]
  BY <1>2 DEF TypeOK
<1>6. row'[d] = y
  BY <1>2 DEF TypeOK
<1>7. ASSUME NEW e \in Docs
      PROVE  LatestVersion(e)' \in Nat /\ VersionsOf(e)' = 1..LatestVersion(e)'
  <2>1. CASE FileOf[e] = FileOf[d]
    <3>1. Siblings(e)' = Siblings(d) \cup {d} /\ d \notin Siblings(d)
      BY <1>1, <1>3, <1>5, <1>6, <2>1 DEF Siblings
    <3>2. VersionsOf(e)' = VersionsOf(d) \cup {n + 1}
      <4>1. \A s \in Siblings(d) : row'[s].version = row[s].version
        BY <1>5, <3>1 DEF Siblings
      <4>2. row'[d].version = n + 1
        BY <1>3, <1>6
      <4> QED  BY <3>1, <4>1, <4>2 DEF VersionsOf
    <3> HIDE DEF n
    <3>3. VersionsOf(e)' = 1..(n + 1)
      BY <1>1, <3>2
    <3>4. LatestVersion(e)' = n + 1
      <4>1. {0} \cup VersionsOf(e)' = 0..(n + 1)
        BY <1>1, <3>3
      <4>2. n + 1 \in 0..(n + 1) /\ \A u \in 0..(n + 1) : n + 1 >= u
        BY <1>1
      <4>3. \A v \in 0..(n + 1) : (\A u \in 0..(n + 1) : v >= u) => v = n + 1
        BY <1>1, <4>2
      <4>4. Max(0..(n + 1)) = n + 1
        BY <4>2, <4>3 DEF Max
      <4> QED  BY <4>1, <4>4 DEF LatestVersion
    <3> QED  BY <1>1, <3>3, <3>4
  <2>2. CASE FileOf[e] # FileOf[d]
    <3>1. Siblings(e)' = Siblings(e) /\ d \notin Siblings(e)
      BY <1>5, <2>2 DEF Siblings
    <3>2. VersionsOf(e)' = VersionsOf(e)
      <4>1. \A s \in Siblings(e) : row'[s] = row[s]
        BY <1>5, <3>1 DEF Siblings
      <4> QED  BY <3>1, <4>1 DEF VersionsOf
    <3>3. LatestVersion(e)' = LatestVersion(e)
      BY <3>2 DEF LatestVersion
    <3> QED  BY <3>2, <3>3 DEF Lineage
  <2> QED  BY <2>1, <2>2
<1>8. \A e \in Docs : row'[e].state = "parsed" => row'[e].version = 0
  BY <1>3, <1>5, <1>6 DEF Lineage
<1>9. ASSUME NEW w \in Workers, job[w].previous # None
      PROVE  /\ job[w].doc # None
             /\ FileOf[job[w].previous] = FileOf[job[w].doc]
             /\ row'[job[w].previous].version # 0
             /\ row'[job[w].doc].version = row'[job[w].previous].version + 1
  <2>1. /\ job[w].doc # None
        /\ FileOf[job[w].previous] = FileOf[job[w].doc]
        /\ row[job[w].previous].version # 0
        /\ row[job[w].doc].version = row[job[w].previous].version + 1
    BY <1>9 DEF Lineage
  <2>2. job[w].doc \in Docs /\ job[w].previous \in Docs
    BY <1>9, <2>1 DEF TypeOK, Jobs
  <2>3. row[job[w].previous].version \in Nat
    BY <2>2 DEF TypeOK, Rows
  <2>4. job[w].previous # d /\ job[w].doc # d
    BY <1>1, <2>1, <2>3
  <2>5. row'[job[w].previous] = row[job[w].previous] /\ row'[job[w].doc] = row[job[w].doc]
    BY <1>5, <2>2, <2>4
  <2> QED  BY <2>1, <2>5
<1> QED  BY <1>1, <1>4, <1>7, <1>8, <1>9 DEF Lineage

\* The other steps of a document change no version.
LEMMA DocumentStep ==
    ASSUME TypeOK, Lineage, NEW d \in Docs,
           \/ \E g \in Graphs : Compile(d, g)
           \/ CompileFails(d) \/ Expire(d) \/ BackoffElapses(d)
    PROVE  TypeOK' /\ Lineage'
<1>1. row[d] \in Rows /\ faults \in Nat
  BY DEF TypeOK
<1>2. PICK y \in Rows :
        /\ row' = [row EXCEPT ![d] = y]
        /\ y.version = row[d].version
        /\ row[d].state # "parsed" => y.state # "parsed"
  <2>1. CASE \E g \in Graphs : Compile(d, g)
    <3>1. PICK g \in Graphs : Compile(d, g)
      BY <2>1
    <3> DEFINE y == [row[d] EXCEPT !.state = "awaiting_merge_confirm", !.graph = g]
    <3>2. y \in Rows /\ y.version = row[d].version /\ y.state = "awaiting_merge_confirm"
      BY <1>1 DEF Rows
    <3>3. row' = [row EXCEPT ![d] = y]
      BY <3>1 DEF Compile, TypeOK
    <3> QED  BY <3>2, <3>3
  <2>2. CASE CompileFails(d)
    <3> DEFINE y == [row[d] EXCEPT !.state = "failed"]
    <3>1. y \in Rows /\ y.version = row[d].version /\ y.state = "failed"
      BY <1>1 DEF Rows
    <3>2. row' = [row EXCEPT ![d] = y]
      BY <2>2 DEF CompileFails, TypeOK
    <3> QED  BY <3>1, <3>2
  <2>3. CASE Expire(d)
    <3> DEFINE y == [row[d] EXCEPT !.lease = "expired"]
    <3>1. y \in Rows /\ y.version = row[d].version /\ y.state = row[d].state
      BY <1>1 DEF Rows
    <3>2. row' = [row EXCEPT ![d] = y]
      BY <2>3 DEF Expire, TypeOK
    <3> QED  BY <3>1, <3>2
  <2>4. CASE BackoffElapses(d)
    <3> DEFINE y == [row[d] EXCEPT !.retryAt = "past"]
    <3>1. y \in Rows /\ y.version = row[d].version /\ y.state = row[d].state
      BY <1>1 DEF Rows
    <3>2. row' = [row EXCEPT ![d] = y]
      BY <2>4 DEF BackoffElapses, TypeOK
    <3> QED  BY <3>1, <3>2
  <2> QED  BY <2>1, <2>2, <2>3, <2>4
<1>3. UNCHANGED <<provenance, nodes, job, model, early>> /\ faults' \in Nat
  BY <1>1 DEF Compile, CompileFails, Expire, BackoffElapses
<1>4. TypeOK'
  BY <1>2, <1>3, RowStep
<1>5. \A e \in Docs : /\ row'[e].version = row[e].version
                      /\ row[e].state # "parsed" => row'[e].state # "parsed"
  BY <1>2 DEF TypeOK
<1>6. \A e \in Docs : /\ (row[e].state = "parsed" => row[e].version = 0)'
                      /\ LatestVersion(e)' \in Nat
                      /\ VersionsOf(e)' = 1..LatestVersion(e)'
  BY <1>5, SameVersions DEF Lineage
<1>7. \A w \in Workers : job[w].previous # None =>
        job[w].doc \in Docs /\ job[w].previous \in Docs
  BY DEF TypeOK, Jobs, Lineage
<1> QED  BY <1>3, <1>4, <1>5, <1>6, <1>7 DEF Lineage

\* A crash takes the worker's job and nothing else.
LEMMA CrashStep ==
    ASSUME TypeOK, Lineage, NEW w \in Workers, NEW m \in Models, Crash(w, m)
    PROVE  TypeOK' /\ Lineage'
<1>1. /\ job' = [job EXCEPT ![w] = NoJob] /\ model' = [model EXCEPT ![w] = m]
      /\ faults' = faults + 1 /\ UNCHANGED <<row, provenance, nodes, early>>
  BY DEF Crash
<1>2. NoJob \in Jobs /\ NoJob.at = "idle" /\ NoJob.doc = None /\ NoJob.previous = None
  BY BlankTypes DEF NoJob
<1>3. model' \in [Workers -> Models] /\ faults' \in Nat
  BY <1>1 DEF TypeOK
<1>4. TypeOK'
  BY <1>1, <1>2, <1>3, JobStep DEF TypeOK
<1>5. \A e \in Docs : LatestVersion(e)' = LatestVersion(e) /\ VersionsOf(e)' = VersionsOf(e)
  BY <1>1, SameVersions
<1>6. \A v \in Workers : job'[v] = job[v] \/ job'[v].previous = None
  BY <1>1, <1>2 DEF TypeOK
<1> QED  BY <1>1, <1>4, <1>5, <1>6 DEF Lineage

\* A stuttering step.
LEMMA StutterStep == IInv /\ UNCHANGED vars => IInv'
<1> SUFFICES ASSUME IInv, UNCHANGED vars  PROVE IInv'
  OBVIOUS
<1>1. UNCHANGED <<row, provenance, nodes, job, model, early, faults>>
  BY DEF vars
<1>2. TypeOK'
  BY <1>1 DEF IInv, TypeOK
<1>3. \A e \in Docs : LatestVersion(e)' = LatestVersion(e) /\ VersionsOf(e)' = VersionsOf(e)
  BY <1>1, SameVersions
<1> QED  BY <1>1, <1>2, <1>3 DEF IInv, Lineage

\* Every step keeps the invariant.
LEMMA StepInvariant == IInv /\ [Next]_vars => IInv'
<1> SUFFICES ASSUME TypeOK, Lineage, [Next]_vars
             PROVE  TypeOK' /\ Lineage'
  BY DEF IInv
<1>1. ASSUME NEW d \in Docs, Upstream(d)  PROVE TypeOK' /\ Lineage'
  <2>1. GraphsOf[d] \subseteq Graphs
    BY GraphAssumption
  <2> QED  BY <1>1, <2>1, ApproveLineage, DocumentStep DEF Upstream
<1>2. ASSUME NEW w \in Workers, Work(w)  PROVE TypeOK' /\ Lineage'
  BY <1>2, WorkMoves, WorkerType, WorkerLineage
<1>3. ASSUME NEW w \in Workers, NEW m \in Models, Crash(w, m)  PROVE TypeOK' /\ Lineage'
  BY <1>3, CrashStep
<1>4. ASSUME NEW d \in Docs, Expire(d) \/ BackoffElapses(d)  PROVE TypeOK' /\ Lineage'
  BY <1>4, DocumentStep
<1>5. CASE UNCHANGED vars
  BY <1>5, StutterStep DEF IInv
<1> QED  BY <1>1, <1>2, <1>3, <1>4, <1>5 DEF Next

-----------------------------------------------------------------------------
(* Theorems *)

\* Types, version numbers and the predecessor of every job, under any number
\* of workers, crashes, retries and lost leases.
THEOREM Invariant == Spec => []IInv
<1>1. Init => IInv
  BY InitInvariant
<1>2. IInv /\ [Next]_vars => IInv'
  BY StepInvariant
<1> QED  BY <1>1, <1>2, PTL DEF Spec

\* Every variable keeps its type.
THEOREM TypeCorrect == Spec => []TypeOK
<1>1. IInv => TypeOK
  BY DEF IInv
<1> QED  BY <1>1, Invariant, PTL

\* No persist takes away a ref or a row of node_provenance of a document other than
\* the one it replaces, whatever the other workers, alive or zombie, do meanwhile.
THEOREM Superseded == Spec => OnlySuperseded
<1> DEFINE Step == /\ \A k \in Keys : \A d \in nodes[k].refs \ nodes'[k].refs : Replacing(d)
                   /\ \A x \in provenance \ provenance' : Replacing(x[2])
<1>1. ASSUME IInv, Next  PROVE Step
  <2>0. TypeOK /\ Lineage
    BY <1>1 DEF IInv
  <2>1. CASE UNCHANGED <<nodes, provenance>>
    BY <2>1
  <2>2. ASSUME NEW w \in Workers, NEW d \in Docs, d = job[w].previous
        PROVE  Replacing(d)
    <3>1. d # None
      BY <2>2, NoneIsNothing
    <3> QED  BY <2>0, <2>2, <3>1 DEF Lineage, Replacing
  <2>3. ASSUME NEW w \in Workers, Work(w)  PROVE Step
    <3>1. NodeMoves(w)
      BY <2>0, <2>3, WorkMoves DEF WorkerMoves
    <3>2. ASSUME NEW k \in Keys, NEW d \in nodes[k].refs \ nodes'[k].refs
          PROVE  Replacing(d)
      <4>1. d = job[w].previous
        BY <2>0, <3>1, <3>2 DEF NodeMoves, TypeOK
      <4>2. d \in Docs
        BY <2>0, <3>2 DEF TypeOK, Nodes
      <4> QED  BY <2>2, <4>1, <4>2
    <3>3. ASSUME NEW x \in provenance \ provenance'
          PROVE  Replacing(x[2])
      <4>1. x[2] = job[w].previous
        BY <2>3, <3>3 DEF Work, Claim, ReadLineage, ReadProvenance, Snapshot, Upsert, RemoveStale,
                      AddRef, DropRef, SkipNode, Done, Book, Rebooked, Persisted, SoftFail,
                      HardFail, LostLease, Release
      <4>2. x[2] \in Docs
        BY <2>0, <3>3 DEF TypeOK
      <4> QED  BY <2>2, <4>1, <4>2
    <3> QED  BY <3>2, <3>3
  <2>4. CASE \E d \in Docs : Upstream(d) \/ Expire(d) \/ BackoffElapses(d)
    BY <2>1, <2>4 DEF Upstream, Approve, Compile, CompileFails, Expire, BackoffElapses
  <2>5. CASE \E w \in Workers, m \in Models : Crash(w, m)
    BY <2>1, <2>5 DEF Crash
  <2> QED  BY <1>1, <2>3, <2>4, <2>5 DEF Next
<1>2. IInv /\ [Next]_vars => [Step]_vars
  BY <1>1
<1> QED  BY <1>2, Invariant, PTL DEF Spec, OnlySuperseded

-----------------------------------------------------------------------------
(* One worker at a time: no vector is replaced by one of another model *)

\* The nodes a worker has yet to do are of the model it was started with.
TodoMatches ==
    \A w \in Workers : job[w].at \in {"apply", "stale", "ref"} =>
        \A k \in job[w].todo : nodes[k].alive => nodes[k].model = model[w]

\* A query changes one node of those to do, and gives it no model but the worker's.
LEMMA QueryModel ==
    ASSUME TypeOK, NEW w \in Workers,
           Upsert(w) \/ RemoveStale(w) \/ AddRef(w) \/ DropRef(w)
    PROVE  \E k \in job[w].todo, n \in {nodes'[x] : x \in Keys} :
              /\ nodes' = [nodes EXCEPT ![k] = n]
              /\ n.alive => \/ n.model = model[w]
                            \/ nodes[k].alive /\ n.model = nodes[k].model
<1>1. \A k \in NextKeys(w) : k \in job[w].todo /\ k \in Keys /\ nodes[k] \in Nodes
  BY NextKeysTyped DEF NextKeys, TypeOK
<1>2. nodes \in [Keys -> Nodes]
  BY DEF TypeOK
<1>3. CASE Upsert(w)
  <2>1. PICK k \in NextKeys(w) :
           nodes' = [nodes EXCEPT ![k] = Upserted(nodes[k], row[job[w].doc].graph[k], model[w])]
    BY <1>1, <1>3 DEF Upsert, TypeOK
  <2>2. \A c : Upserted(nodes[k], c, model[w]).model = model[w]
    BY <1>1, <2>1 DEF Upserted, Nodes
  <2> QED  BY <1>1, <1>2, <2>1, <2>2
<1>4. CASE RemoveStale(w)
  <2>1. PICK k \in NextKeys(w) :
           nodes' = [nodes EXCEPT ![k] = Cleaned(nodes[k], StaleProps(w, k))]
    BY <1>1, <1>4 DEF RemoveStale, TypeOK
  <2>2. /\ Cleaned(nodes[k], StaleProps(w, k)).model = nodes[k].model
        /\ Cleaned(nodes[k], StaleProps(w, k)).alive = nodes[k].alive
    BY <1>1, <2>1 DEF Cleaned, Nodes
  <2> QED  BY <1>1, <1>2, <2>1, <2>2
<1>5. CASE AddRef(w)
  <2>1. PICK k \in NextKeys(w) :
           nodes' = [nodes EXCEPT ![k] = RefAdded(nodes[k], job[w].doc, RefToRemove(w, k))]
    BY <1>1, <1>5 DEF AddRef, TypeOK
  <2> DEFINE n == RefAdded(nodes[k], job[w].doc, RefToRemove(w, k))
  <2>2. n.model = nodes[k].model /\ n.alive = nodes[k].alive
    BY <1>1, <2>1 DEF RefAdded, Nodes
  <2>3. nodes' = [nodes EXCEPT ![k] = n] /\ k \in Keys /\ k \in job[w].todo
    BY <1>1, <2>1
  <2> HIDE DEF n
  <2> QED  BY <1>2, <2>2, <2>3
<1>6. CASE DropRef(w)
  <2>1. PICK k \in NextKeys(w) :
           nodes' = [nodes EXCEPT ![k] = RefReleased(nodes[k], job[w].previous)]
    BY <1>1, <1>6 DEF DropRef, TypeOK
  <2>2. RefReleased(nodes[k], job[w].previous).alive =>
            /\ nodes[k].alive
            /\ RefReleased(nodes[k], job[w].previous).model = nodes[k].model
    <3> DEFINE n == nodes[k]
               r == job[w].previous
    <3>1. n \in Nodes /\ ~Gone.alive
      BY <1>1, <2>1 DEF Gone
    <3> HIDE DEF n, r
    <3>2. [n EXCEPT !.refs = n.refs \ {r}].model = n.model
      BY <3>1 DEF Nodes
    <3>3. RefReleased(n, r).alive => n.alive /\ RefReleased(n, r).model = n.model
      BY <3>1, <3>2 DEF RefReleased
    <3> QED  BY <3>3 DEF n, r
  <2> QED  BY <1>1, <1>2, <2>1, <2>2
<1> QED  BY <1>3, <1>4, <1>5, <1>6

\* A query leaves the worker's list of nodes, or takes one off it.
LEMMA QueryTodo ==
    ASSUME TypeOK, NEW w \in Workers,
           \/ Upsert(w) \/ RemoveStale(w) \/ AddRef(w) \/ DropRef(w) \/ SkipNode(w)
    PROVE  /\ job[w].at \in {"apply", "stale", "ref"}
           /\ job'[w].todo \subseteq job[w].todo
           /\ model' = model
<1>1. job \in [Workers -> Jobs] /\ job[w] \in Jobs
  BY DEF TypeOK
<1>2. CASE Upsert(w) \/ RemoveStale(w)
  BY <1>1, <1>2 DEF Upsert, RemoveStale, Jobs
<1>3. CASE AddRef(w) \/ DropRef(w) \/ SkipNode(w)
  <2>1. /\ job[w].at \in {"apply", "stale", "ref"} /\ model' = model
        /\ \E k : job' = [job EXCEPT ![w].at = "apply", ![w].todo = @ \ {k}]
    BY <1>3 DEF AddRef, DropRef, SkipNode, Done
  <2> QED  BY <1>1, <2>1 DEF Jobs
<1> QED  BY <1>2, <1>3

\* No step of the only worker breaks it.
LEMMA TodoStep ==
    ASSUME \A v, w \in Workers : v = w, TypeOK, TodoMatches, [Next]_vars
    PROVE  TodoMatches'
<1>1. ASSUME NEW w \in Workers, job'[w].at \notin {"apply", "stale", "ref"}
      PROVE  TodoMatches'
  BY <1>1 DEF TodoMatches
<1>2. job \in [Workers -> Jobs]
  BY DEF TypeOK
<1>3. ASSUME NEW w \in Workers, Upsert(w) \/ RemoveStale(w) \/ AddRef(w) \/ DropRef(w)
      PROVE  TodoMatches'
  <2>1. /\ job[w].at \in {"apply", "stale", "ref"} /\ job'[w].todo \subseteq job[w].todo
        /\ model' = model
    BY <1>3, QueryTodo
  <2>2. PICK k \in job[w].todo, n \in {nodes'[x] : x \in Keys} :
            /\ nodes' = [nodes EXCEPT ![k] = n]
            /\ n.alive => \/ n.model = model[w]
                          \/ nodes[k].alive /\ n.model = nodes[k].model
    BY <1>3, QueryModel
  <2>3. nodes \in [Keys -> Nodes] /\ job[w].todo \subseteq Keys
    BY <1>2 DEF TypeOK, Jobs
  <2>4. ASSUME NEW x \in job[w].todo, nodes'[x].alive PROVE nodes'[x].model = model[w]
    BY <2>1, <2>2, <2>3, <2>4 DEF TodoMatches
  <2> QED  BY <2>1, <2>4 DEF TodoMatches
<1>4. ASSUME NEW w \in Workers, SkipNode(w) PROVE TodoMatches'
  <2>1. /\ job[w].at \in {"apply", "stale", "ref"} /\ job'[w].todo \subseteq job[w].todo
        /\ model' = model /\ nodes' = nodes
    BY <1>4, QueryTodo DEF SkipNode
  <2> QED  BY <2>1 DEF TodoMatches
<1>5. ASSUME NEW w \in Workers, Snapshot(w) PROVE TodoMatches'
  <2>1. CASE ~ModelMatches(w)
    <3>1. job'[w].at = "mismatch"
      BY <1>2, <1>5, <2>1 DEF Snapshot, Jobs
    <3> QED  BY <1>1, <3>1
  <2>2. CASE ModelMatches(w)
    <3>1. /\ job'[w].todo = KeysOf(job[w].doc)
                               \cup {k \in job[w].previousKeys : nodes[k].alive}
          /\ nodes' = nodes /\ model' = model
      BY <1>2, <1>5 DEF Snapshot, Jobs
    <3>2. job'[w].todo \subseteq LookupKeys(w)
      BY <3>1 DEF LookupKeys
    <3> QED  BY <2>2, <3>1, <3>2 DEF TodoMatches, ModelMatches
  <2> QED  BY <2>1, <2>2
<1>6. ASSUME NEW w \in Workers,
             \/ Claim(w) \/ ReadLineage(w) \/ ReadProvenance(w) \/ Book(w)
             \/ Persisted(w) \/ SoftFail(w) \/ HardFail(w) \/ LostLease(w)
             \/ \E m \in Models : Crash(w, m)
      PROVE  TodoMatches'
  <2>1. job'[w].at \in {"idle", "claimed", "lineage", "snapshot", "booked"}
    <3>1. CASE Claim(w)
      BY <1>2, <3>1 DEF Claim, NoJob
    <3>2. CASE ReadLineage(w) \/ ReadProvenance(w)
      BY <1>2, <3>2 DEF ReadLineage, ReadProvenance, Jobs
    <3>3. CASE Book(w)
      BY <1>2, <3>3 DEF Book, NoJob
    <3>4. CASE \/ Persisted(w) \/ SoftFail(w) \/ HardFail(w) \/ LostLease(w)
               \/ \E m \in Models : Crash(w, m)
      BY <1>2, <3>4 DEF Persisted, SoftFail, HardFail, LostLease, Crash, Release, NoJob
    <3> QED  BY <1>6, <3>1, <3>2, <3>3, <3>4
  <2> QED  BY <1>1, <2>1
<1>7. ASSUME NEW d \in Docs, Upstream(d) \/ Expire(d) \/ BackoffElapses(d)
      PROVE  TodoMatches'
  <2>1. UNCHANGED <<job, nodes, model>>
    BY <1>7 DEF Upstream, Approve, Compile, CompileFails, Expire, BackoffElapses
  <2> QED  BY <2>1 DEF TodoMatches
<1>8. CASE UNCHANGED vars
  BY <1>8 DEF vars, TodoMatches
<1> QED  BY <1>3, <1>4, <1>5, <1>6, <1>7, <1>8 DEF Next, Work

\* "Re-embedding is a migration, not a write": with one worker no step gives a
\* node that lives on a vector of another model, however often the worker is
\* restarted with another one.
THEOREM Pinned ==
    ASSUME \A v, w \in Workers : v = w
    PROVE  Spec => EmbeddingPinned
<1> DEFINE Step == \A k \in Keys : nodes[k].alive /\ nodes'[k].alive =>
                                      nodes'[k].model = nodes[k].model
<1>1. Init => TodoMatches
  BY DEF Init, NoJob, TodoMatches
<1>2. TypeOK /\ TodoMatches /\ [Next]_vars => TodoMatches'
  BY TodoStep
<1>3. ASSUME TypeOK, TodoMatches, Next PROVE Step
  <2>1. CASE nodes' = nodes
    BY <2>1
  <2>2. ASSUME NEW w \in Workers,
               Upsert(w) \/ RemoveStale(w) \/ AddRef(w) \/ DropRef(w)
        PROVE  Step
    <3>1. PICK k \in job[w].todo, n \in {nodes'[x] : x \in Keys} :
              /\ nodes' = [nodes EXCEPT ![k] = n]
              /\ n.alive => \/ n.model = model[w]
                            \/ nodes[k].alive /\ n.model = nodes[k].model
      BY <1>3, <2>2, QueryModel
    <3>2. job[w].at \in {"apply", "stale", "ref"}
      BY <1>3, <2>2, QueryTodo
    <3>3. nodes \in [Keys -> Nodes]
      BY <1>3 DEF TypeOK
    <3>4. ASSUME NEW x \in Keys, nodes[x].alive, nodes'[x].alive
          PROVE  nodes'[x].model = nodes[x].model
      BY <1>3, <3>1, <3>2, <3>3, <3>4 DEF TodoMatches
    <3> QED  BY <3>4
  <2>3. ASSUME NEW w \in Workers,
               \/ Claim(w) \/ ReadLineage(w) \/ ReadProvenance(w) \/ Snapshot(w)
               \/ SkipNode(w) \/ Book(w) \/ Persisted(w) \/ SoftFail(w)
               \/ HardFail(w) \/ LostLease(w) \/ \E m \in Models : Crash(w, m)
        PROVE  nodes' = nodes
    BY <2>3 DEF Claim, ReadLineage, ReadProvenance, Snapshot, SkipNode, Book, Persisted,
                SoftFail, HardFail, LostLease, Crash, Release
  <2>4. ASSUME NEW d \in Docs, Upstream(d) \/ Expire(d) \/ BackoffElapses(d)
        PROVE  nodes' = nodes
    BY <2>4 DEF Upstream, Approve, Compile, CompileFails, Expire, BackoffElapses
  <2> QED  BY <1>3, <2>1, <2>2, <2>3, <2>4 DEF Next, Work
<1>4. TypeOK /\ TodoMatches /\ [Next]_vars => [Step]_vars
  BY <1>3
<1> QED  BY <1>1, <1>2, <1>4, TypeCorrect, PTL DEF Spec, EmbeddingPinned
=============================================================================
