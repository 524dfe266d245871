------------------------------ MODULE Persist ------------------------------
(***************************************************************************)
(* The persist worker (persist.py): it takes a compiled document from the  *)
(* queue, finds the version of the same filename it succeeds, takes a      *)
(* snapshot of the Neo4j nodes both contribute to, and applies the         *)
(* difference node by node, each node in up to three queries of their own, *)
(* before it writes node_provenance and releases the row.  PostgreSQL and  *)
(* Neo4j share no transaction, and the lease fences only the row: a worker *)
(* may die, fail or be overtaken between any two of these steps.           *)
(*                                                                         *)
(* Everything before the queue (approval, compilation) is reduced to the   *)
(* version a document gets and the graph it arrives with.  Relations, the  *)
(* embedding vectors and aliases, which no code writes, are left out.      *)
(***************************************************************************)
EXTENDS Naturals, FiniteSetsExt

CONSTANTS
    Docs,        \* documents, numbered by created_at
    FileOf,      \* original_filename of each
    Keys,        \* node keys, numbered in sorted order
    Props,       \* property names a node may carry, display name included
    Values,      \* their values
    GraphsOf,    \* the compiled graphs each document may arrive with
    Models,      \* embedding model ids
    Workers,     \* persist processes; the uuid of each is its worker_id
    MaxAttempts, \* _MAX_ATTEMPTS
    MaxFaults,   \* bound on crashes and on leases that expire under a holder
    None

ASSUME NumberAssumption == Docs \subseteq Nat /\ Keys \subseteq Nat
ASSUME NoneAssumption ==
    /\ None \notin Values /\ None \notin Workers /\ None \notin Docs
    /\ None \notin [Props -> Values \cup {None}]
ASSUME BudgetAssumption == MaxAttempts \in Nat \ {0} /\ MaxFaults \in Nat

VARIABLES
    row,        \* documents and reviewed_sources, by content_hash
    provenance, \* node_provenance: pairs of a node key and a content hash
    nodes,      \* the nodes of the Neo4j store, by id
    job,        \* what each worker keeps of the row it claimed
    model,      \* the embedding model each worker was started with
    early,      \* documents persisted, or tried, before their predecessor was
    faults      \* crashes and expiries so far, bounded by MaxFaults

vars == <<row, provenance, nodes, job, model, early, faults>>

-----------------------------------------------------------------------------
(* Vocabulary *)

\* A node's comparable content; None is a property it does not carry.
Contents == [Props -> Values \cup {None}]

\* A compiled_graph: the content of each node key, None where it has no node.
Graphs == [Keys -> Contents \cup {None}]

ASSUME GraphAssumption == GraphsOf \in [Docs -> SUBSET Graphs]

NoGraph == [k \in Keys |-> None]

Nodes == [alive : BOOLEAN, content : Contents, refs : SUBSET Docs, model : Models \cup {None}]

NoContent == [p \in Props |-> None]

Gone == [alive |-> FALSE, content |-> NoContent, refs |-> {}, model |-> None]

Rows == [state : {"parsed", "approved", "awaiting_merge_confirm", "persisted", "failed"},
         version : Nat, graph : Graphs,
         claimedBy : Workers \cup {None}, lease : {"none", "live", "expired"},
         token : Nat, attempts : Nat, retryAt : {"null", "future", "past"}]

Jobs == [doc : Docs \cup {None}, token : Nat,
         at : {"idle", "claimed", "lineage", "snapshot", "apply", "stale", "ref",
               "mismatch", "booked"},
         previous : Docs \cup {None}, previousKeys : SUBSET Keys,
         existing : [Keys -> Nodes], todo : SUBSET Keys]

NoJob == [doc |-> None, token |-> 0, at |-> "idle", previous |-> None,
          previousKeys |-> {}, existing |-> [k \in Keys |-> Gone], todo |-> {}]

\* Bug: the join on original_filename is forgotten.
SiblingsOfAnyFile(d) == {e \in Docs : row[e].version # 0}

\* Approved documents of one filename.
Siblings(d) == {e \in Docs : FileOf[e] = FileOf[d] /\ row[e].version # 0}

VersionsOf(d) == {row[e].version : e \in Siblings(d)}

\* COALESCE(MAX(version), 0)
LatestVersion(d) == Max({0} \cup VersionsOf(d))

\* _PREVIOUS_CONTENT_HASH_QUERY.
Predecessors(d) == {e \in Siblings(d) : row[e].version + 1 = row[d].version}

KeysOf(d) == {k \in Keys : row[d].graph[k] # None}

\* node_provenance rows of a document.
BookedKeys(d) == {k \in Keys : <<k, d>> \in provenance}

Claimable == {d \in Docs : /\ row[d].state = "awaiting_merge_confirm"
                           /\ row[d].lease # "live"
                           /\ row[d].retryAt # "future"}

\* The fence of db.release().
Holds(w) == /\ row[job[w].doc].claimedBy = w
            /\ row[job[w].doc].token = job[w].token

Freed(x) == [x EXCEPT !.claimedBy = None, !.lease = "none"]

\* _RETRY_SET_SQL
Retried(x) ==
    [Freed(x) EXCEPT !.attempts = @ + 1, !.retryAt = "future",
                     !.state = IF x.attempts + 1 >= MaxAttempts THEN "failed" ELSE @]

-----------------------------------------------------------------------------
(* plan_delta() and the three queries of _apply_node_delta() *)

\* The classification of one key against the snapshot.
Action(w, k) ==
    LET d == job[w].doc
        x == job[w].existing[k]
    IN  CASE k \notin KeysOf(d) -> "drop_ref"
          [] k \in KeysOf(d) /\ ~x.alive -> "add"
          [] k \in KeysOf(d) /\ x.alive /\ x.content # row[d].graph[k] -> "update"
          [] OTHER -> "unchanged"

\* plan_delta() lists the document's own keys in order, then the dropped ones.
NextKeys(w) ==
    LET own == KeysOf(job[w].doc)
    IN  {k \in job[w].todo :
            /\ k \in own \/ job[w].todo \cap own = {}
            /\ \A j \in job[w].todo : (j \in own <=> k \in own) => k <= j}

\* The predecessor's ref goes when the predecessor contributed to the node.
RefToRemove(w, k) == IF k \in job[w].previousKeys THEN job[w].previous ELSE None

\* Properties of the snapshot that the new content no longer carries.
StaleProps(w, k) ==
    {p \in Props : /\ job[w].existing[k].content[p] # None
                   /\ row[job[w].doc].graph[k][p] = None}

\* upsert_nodes(): MERGE on the id, then SET +=, which clears no property.
Upserted(n, c, m) ==
    [n EXCEPT !.alive = TRUE, !.model = m,
              !.content = [p \in Props |-> IF c[p] # None THEN c[p] ELSE @[p]]]

\* Bug: the properties the new version dropped stay.
CleanedNever(n, S) == n

\* _REMOVE_STALE_PROPERTIES_QUERY; MATCH finds nothing if the node is gone.
Cleaned(n, S) ==
    [n EXCEPT !.content = [p \in Props |-> IF p \in S THEN None ELSE @[p]]]

\* Bug: the two refs are swapped.
RefAddedSwapped(n, ref, old) ==
    IF n.alive THEN [n EXCEPT !.refs = (@ \ {ref}) \cup {old}] ELSE n

\* _ADD_REF_QUERY
RefAdded(n, ref, old) ==
    IF n.alive THEN [n EXCEPT !.refs = (@ \ {old}) \cup {ref}] ELSE n

\* Bug: the node goes with the predecessor's ref, whoever else holds one.
RefReleasedDeleting(n, ref) == Gone

\* _RELEASE_REF_QUERY: the node goes with its last ref.
RefReleased(n, ref) ==
    IF n.alive /\ n.refs \ {ref} # {} THEN [n EXCEPT !.refs = @ \ {ref}] ELSE Gone

\* The snapshot says the ref is there and the predecessor's is not.
AlreadyReferenced(w, k) ==
    /\ job[w].doc \in job[w].existing[k].refs
    /\ RefToRemove(w, k) \notin job[w].existing[k].refs

-----------------------------------------------------------------------------
Init == /\ row = [d \in Docs |->
                    [state |-> "parsed", version |-> 0, graph |-> NoGraph,
                     claimedBy |-> None, lease |-> "none", token |-> 0,
                     attempts |-> 0, retryAt |-> "null"]]
        /\ provenance = {}
        /\ nodes = [k \in Keys |-> Gone]
        /\ job = [w \in Workers |-> NoJob]
        /\ model \in [Workers -> Models]
        /\ \A v, w \in Workers : model[v] = model[w]
        /\ early = {}
        /\ faults = 0

\* A reviewer approves a document; the order of approval is the version order.
Approve(d) ==
    /\ row[d].state = "parsed"
    /\ row' = [row EXCEPT ![d].state = "approved", ![d].version = LatestVersion(d) + 1]
    /\ UNCHANGED <<provenance, nodes, job, model, early, faults>>

\* compile_pending() and merge_gate_pending(): the document arrives with its graph.
Compile(d, g) ==
    /\ row[d].state = "approved"
    /\ row' = [row EXCEPT ![d].state = "awaiting_merge_confirm", ![d].graph = g]
    /\ UNCHANGED <<provenance, nodes, job, model, early, faults>>

\* The Compiler runs out of attempts: the version is there, its graph never.
CompileFails(d) ==
    /\ row[d].state = "approved"
    /\ row' = [row EXCEPT ![d].state = "failed"]
    /\ UNCHANGED <<provenance, nodes, job, model, early, faults>>

\* db.claim(): the oldest claimable row.
Claim(w) ==
    /\ job[w].doc = None
    /\ \E d \in Claimable :
         /\ \A e \in Claimable : d <= e
         /\ row' = [row EXCEPT ![d].claimedBy = w, ![d].lease = "live",
                               ![d].token = @ + 1]
         /\ job' = [job EXCEPT ![w] = [NoJob EXCEPT !.doc = d, !.at = "claimed",
                                                    !.token = row[d].token + 1]]
    /\ UNCHANGED <<provenance, nodes, model, early, faults>>

-----------------------------------------------------------------------------
(* persist_pending() before the Neo4j writes *)

\* The transaction that reads compiled_graph, which no later UPDATE changes,
\* and the content hash of the predecessor.
ReadLineage(w) ==
    LET d == job[w].doc
    IN  /\ job[w].at = "claimed"
        /\ \/ /\ Predecessors(d) = {}
              /\ job' = [job EXCEPT ![w].at = "snapshot"]
              /\ UNCHANGED early
           \/ \E e \in Predecessors(d) :
                /\ job' = [job EXCEPT ![w].at = "lineage", ![w].previous = e]
                /\ early' = IF row[e].state = "persisted" THEN early
                            ELSE early \cup {d}
        /\ UNCHANGED <<row, provenance, nodes, model, faults>>

\* A transaction of its own reads the predecessor's node_provenance.
ReadProvenance(w) ==
    /\ job[w].at = "lineage"
    /\ job' = [job EXCEPT ![w].at = "snapshot",
                          ![w].previousKeys = BookedKeys(job[w].previous)]
    /\ UNCHANGED <<row, provenance, nodes, model, early, faults>>

\* store.get(): every node the document or its predecessor touches.
LookupKeys(w) == KeysOf(job[w].doc) \cup job[w].previousKeys

\* Bug: nodes of another embedding model are taken for one's own.
AnyModel(w) == TRUE

\* EmbeddingConfigurationMismatchError otherwise.
ModelMatches(w) ==
    \A k \in LookupKeys(w) : nodes[k].alive => nodes[k].model = model[w]

Snapshot(w) ==
    /\ job[w].at = "snapshot"
    /\ job' = [job EXCEPT
                 ![w].at = IF ModelMatches(w) THEN "apply" ELSE "mismatch",
                 ![w].existing = [k \in Keys |-> IF k \in LookupKeys(w) THEN nodes[k]
                                                                      ELSE Gone],
                 ![w].todo = KeysOf(job[w].doc)
                               \cup {k \in job[w].previousKeys : nodes[k].alive}]
    /\ UNCHANGED <<row, provenance, nodes, model, early, faults>>

-----------------------------------------------------------------------------
(* _apply_node_delta(), one query a step *)

\* The node is done; the next one is taken up.
Done(w, k) == job' = [job EXCEPT ![w].at = "apply", ![w].todo = @ \ {k}]

\* add or update: content, embedding and its model.
Upsert(w) ==
    \E k \in NextKeys(w) :
        /\ job[w].at = "apply"
        /\ Action(w, k) \in {"add", "update"}
        /\ nodes' = [nodes EXCEPT ![k] = Upserted(@, row[job[w].doc].graph[k], model[w])]
        /\ job' = [job EXCEPT ![w].at = IF Action(w, k) = "update" /\ StaleProps(w, k) # {}
                                        THEN "stale" ELSE "ref"]
        /\ UNCHANGED <<row, provenance, model, early, faults>>

RemoveStale(w) ==
    \E k \in NextKeys(w) :
        /\ job[w].at = "stale"
        /\ nodes' = [nodes EXCEPT ![k] = Cleaned(@, StaleProps(w, k))]
        /\ job' = [job EXCEPT ![w].at = "ref"]
        /\ UNCHANGED <<row, provenance, model, early, faults>>

\* The last query of add and update, and the only one of unchanged.
AddRef(w) ==
    \E k \in NextKeys(w) :
        /\ \/ job[w].at = "ref"
           \/ /\ job[w].at = "apply"
              /\ Action(w, k) = "unchanged"
              /\ ~AlreadyReferenced(w, k)
        /\ nodes' = [nodes EXCEPT ![k] = RefAdded(@, job[w].doc, RefToRemove(w, k))]
        /\ Done(w, k)
        /\ UNCHANGED <<row, provenance, model, early, faults>>

DropRef(w) ==
    \E k \in NextKeys(w) :
        /\ job[w].at = "apply"
        /\ Action(w, k) = "drop_ref"
        /\ job[w].previous \in job[w].existing[k].refs
        /\ nodes' = [nodes EXCEPT ![k] = RefReleased(@, job[w].previous)]
        /\ Done(w, k)
        /\ UNCHANGED <<row, provenance, model, early, faults>>

\* An earlier attempt did this node already, says the snapshot.
SkipNode(w) ==
    \E k \in NextKeys(w) :
        /\ job[w].at = "apply"
        /\ \/ Action(w, k) = "unchanged" /\ AlreadyReferenced(w, k)
           \/ Action(w, k) = "drop_ref" /\ job[w].previous \notin job[w].existing[k].refs
        /\ Done(w, k)
        /\ UNCHANGED <<row, provenance, nodes, model, early, faults>>

-----------------------------------------------------------------------------
(* persist_pending() after the Neo4j writes *)

\* Bug: the predecessor's rows are left behind.
RebookedOver(w) == provenance \cup (KeysOf(job[w].doc) \X {job[w].doc})

\* DELETE the predecessor's rows, INSERT the document's, in one transaction,
\* which asks for no lease.
Rebooked(w) == {x \in provenance : x[2] # job[w].previous}
                 \cup (KeysOf(job[w].doc) \X {job[w].doc})

Book(w) ==
    /\ job[w].at = "apply"
    /\ job[w].todo = {}
    /\ provenance' = Rebooked(w)
    /\ job' = [job EXCEPT ![w] = [NoJob EXCEPT !.doc = job[w].doc, !.at = "booked",
                                               !.token = job[w].token]]
    /\ UNCHANGED <<row, nodes, model, early, faults>>

\* db.release(): one fenced UPDATE, after which the worker forgets the row.
Release(w, x) == /\ Holds(w)
                 /\ row' = [row EXCEPT ![job[w].doc] = x]
                 /\ job' = [job EXCEPT ![w] = NoJob]
                 /\ UNCHANGED <<provenance, nodes, model, early, faults>>

Persisted(w) ==
    /\ job[w].at = "booked"
    /\ Release(w, [Freed(row[job[w].doc]) EXCEPT !.state = "persisted",
                                                 !.attempts = 0, !.retryAt = "null"])

\* A Neo4j or embedding call raised.
SoftFail(w) ==
    /\ job[w].at \in {"snapshot", "apply", "stale", "ref"}
    /\ Release(w, Retried(row[job[w].doc]))

\* _FAILED_SET_SQL, after EmbeddingConfigurationMismatchError.
HardFail(w) ==
    /\ job[w].at = "mismatch"
    /\ Release(w, [Freed(row[job[w].doc]) EXCEPT !.state = "failed"])

\* The fenced UPDATE matched no row.
LostLease(w) ==
    /\ job[w].at \in {"snapshot", "apply", "stale", "ref", "mismatch", "booked"}
    /\ ~Holds(w)
    /\ job' = [job EXCEPT ![w] = NoJob]
    /\ UNCHANGED <<row, provenance, nodes, model, early, faults>>

-----------------------------------------------------------------------------
(* Failures and the clock *)

\* The process dies and is started again, perhaps with another model.
Crash(w, m) ==
    /\ job[w].doc # None
    /\ faults < MaxFaults
    /\ faults' = faults + 1
    /\ job' = [job EXCEPT ![w] = NoJob]
    /\ model' = [model EXCEPT ![w] = m]
    /\ UNCHANGED <<row, provenance, nodes, early>>

Expire(d) ==
    /\ row[d].lease = "live"
    /\ row' = [row EXCEPT ![d].lease = "expired"]
    /\ IF \E w \in Workers : job[w].doc = d /\ Holds(w)
       THEN faults < MaxFaults /\ faults' = faults + 1
       ELSE UNCHANGED faults
    /\ UNCHANGED <<provenance, nodes, job, model, early>>

BackoffElapses(d) ==
    /\ row[d].retryAt = "future"
    /\ row' = [row EXCEPT ![d].retryAt = "past"]
    /\ UNCHANGED <<provenance, nodes, job, model, early, faults>>

Upstream(d) == \/ Approve(d)
               \/ \E g \in GraphsOf[d] : Compile(d, g)
               \/ CompileFails(d)

Work(w) == \/ Claim(w)
           \/ ReadLineage(w)
           \/ ReadProvenance(w)
           \/ Snapshot(w)
           \/ Upsert(w)
           \/ RemoveStale(w)
           \/ AddRef(w)
           \/ DropRef(w)
           \/ SkipNode(w)
           \/ Book(w)
           \/ Persisted(w)
           \/ SoftFail(w)
           \/ HardFail(w)
           \/ LostLease(w)

Next ==
    \/ \E d \in Docs : Upstream(d)
    \/ \E w \in Workers : Work(w)
    \/ \E w \in Workers, m \in Models : Crash(w, m)
    \/ \E d \in Docs : Expire(d) \/ BackoffElapses(d)

Spec == Init /\ [][Next]_vars

-----------------------------------------------------------------------------
(* Correctness *)

\* Every column, node and job keeps its type; a job is on a document exactly
\* when it is under way.
TypeOK ==
    /\ row \in [Docs -> Rows]
    /\ provenance \subseteq Keys \X Docs
    /\ nodes \in [Keys -> Nodes]
    /\ job \in [Workers -> Jobs]
    /\ model \in [Workers -> Models]
    /\ early \subseteq Docs
    /\ faults \in Nat
    /\ \A w \in Workers : job[w].at = "idle" <=> job[w].doc = None

\* A worker is about to put the next version of the filename in d's place.
Replacing(d) == \E w \in Workers : /\ job[w].doc # None
                                   /\ FileOf[job[w].doc] = FileOf[d]
                                   /\ row[job[w].doc].version = row[d].version + 1

\* A document loses a ref or a row of node_provenance only to a worker that persists
\* the next version of its filename: no other document's persist, however many run
\* at once or outlive their lease, takes away what somebody else contributes.
OnlySuperseded ==
    [][/\ \A k \in Keys : \A d \in nodes[k].refs \ nodes'[k].refs : Replacing(d)
       /\ \A x \in provenance \ provenance' : Replacing(x[2])]_vars

\* d and its earlier versions were persisted, or tried, in version order.
InTurn(d) == \A e \in Siblings(d) : row[e].version <= row[d].version => e \notin early

\* d was persisted in its turn, and nobody has begun to persist a later version.
Current(d) ==
    /\ row[d].state = "persisted"
    /\ InTurn(d)
    /\ \A e \in Siblings(d) : row[e].version > row[d].version => row[e].token = 0

\* With one worker at a time, crashes and retries leave no trace: of all the
\* versions of a filename exactly the current one has refs, on exactly the
\* nodes of its graph, in Neo4j and in node_provenance alike.
SliceExact ==
    \A d \in Docs : Current(d) =>
        \A e \in Siblings(d), k \in Keys :
            LET contributes == e = d /\ k \in KeysOf(d)
            IN  (e \in nodes[k].refs <=> contributes) /\ (<<k, e>> \in provenance <=> contributes)

\* With one worker at a time, a document is persisted only once every node of
\* its graph carries the content it compiled, nothing left of an older one,
\* although other documents write the same nodes between its attempts.
PersistedAsCompiled ==
    [][\A d \in Docs :
          row[d].state # "persisted" /\ row'[d].state = "persisted" =>
              \A k \in KeysOf(d) : /\ nodes[k].alive
                                   /\ nodes[k].content = row[d].graph[k]
                                   /\ d \in nodes[k].refs]_vars

\* "re-embedding is a migration, not a write" (ADR-0004): no step replaces a
\* node's vector by one of another model, even if the model changes between
\* two attempts on a document.
EmbeddingPinned ==
    [][\A k \in Keys : nodes[k].alive /\ nodes'[k].alive =>
          nodes'[k].model = nodes[k].model]_vars

\* Versions of a filename are 1, 2, 3, ...; a worker's predecessor is the document
\* it replaces in that lineage, and stays so until the worker is done; a node
\* that is gone is referenced by nobody.
Lineage ==
    /\ \A d \in Docs : /\ row[d].state = "parsed" => row[d].version = 0
                      /\ LatestVersion(d) \in Nat
                      /\ VersionsOf(d) = 1..LatestVersion(d)
    /\ \A w \in Workers : job[w].previous # None =>
          /\ job[w].doc # None
          /\ FileOf[job[w].previous] = FileOf[job[w].doc]
          /\ row[job[w].previous].version # 0
          /\ row[job[w].doc].version = row[job[w].previous].version + 1
    /\ \A k \in Keys : ~nodes[k].alive => nodes[k].refs = {}

IInv == TypeOK /\ Lineage

-----------------------------------------------------------------------------
(* One worker at a time: how far a persist that was interrupted has come *)

\* The nodes with a ref of d.
RefKeys(d) == {k \in Keys : d \in nodes[k].refs}

\* No two documents of a filename share a version.
Distinct ==
    \A d, e \in Docs :
        /\ FileOf[d] = FileOf[e]
        /\ row[d].version = row[e].version
        /\ row[d].version # 0
        => d = e

\* Nothing is left of a document no worker has claimed, a document has refs and
\* rows for nodes of its graph only, and a node that is gone left nothing.
Contributed ==
    /\ \A d \in Docs :
          /\ row[d].state \in {"parsed", "approved"} => row[d].token = 0
          /\ row[d].token = 0 => RefKeys(d) \cup BookedKeys(d) = {} /\ d \notin early
          /\ RefKeys(d) \cup BookedKeys(d) \subseteq KeysOf(d)
    /\ \A k \in Keys : ~nodes[k].alive => nodes[k] = Gone

\* A persisted document is on every node of its graph until the persist of its
\* successor begins, and node_provenance tells that one about every ref it has
\* left; persisted in its turn, it has left its predecessors none.
HandedOver ==
    \A d \in Docs : row[d].state = "persisted" =>
        /\ RefKeys(d) \subseteq BookedKeys(d)
        /\ (\A s \in Docs : d \in Predecessors(s) => row[s].token = 0) =>
              RefKeys(d) = KeysOf(d) /\ BookedKeys(d) = KeysOf(d)
        /\ InTurn(d) => \A e \in Siblings(d) : row[e].version < row[d].version =>
              row[e].state = "persisted" /\ RefKeys(e) \cup BookedKeys(e) = {}

\* Node k is as w's persist leaves it; a predecessor that was never persisted
\* may keep a ref that no row mentions.
Applied(w, k) ==
    LET d == job[w].doc
    IN  /\ k \in KeysOf(d) => /\ nodes[k].alive
                              /\ nodes[k].content = row[d].graph[k]
                              /\ d \in nodes[k].refs
        /\ \A e \in Predecessors(d) : row[e].state = "persisted" => e \notin nodes[k].refs

\* Between the queries on node k: the content is merged, then cleaned, and the
\* refs are still those of the snapshot.
Halfway(w, k) ==
    LET g == row[job[w].doc].graph[k]
    IN  /\ k \in KeysOf(job[w].doc)
        /\ nodes[k].alive
        /\ nodes[k].refs = job[w].existing[k].refs
        /\ \A p \in Props : nodes[k].content[p] =
              IF job[w].at = "stale" /\ g[p] = None THEN job[w].existing[k].content[p] ELSE g[p]

Underway(w) == job[w].at \in {"apply", "stale", "ref"}

\* What the worker knows of its row, the predecessor and the nodes is still so.
Informed(w) ==
    LET d == job[w].doc
    IN  /\ d # None => row[d].state = "awaiting_merge_confirm" /\ row[d].token # 0
        /\ job[w].at = "claimed" => job[w].previous = None /\ job[w].previousKeys = {}
        /\ job[w].at \notin {"idle", "claimed"} => \A e \in Predecessors(d) :
              /\ job[w].at # "booked" => e = job[w].previous
              /\ d \notin early => row[e].state = "persisted"
        /\ job[w].at = "snapshot" \/ Underway(w) =>
              job[w].previousKeys = BookedKeys(job[w].previous)

\* How far the worker has come.
Progressed(w) ==
    /\ Underway(w) => \A k \in Keys :
          IF k \notin job[w].todo THEN Applied(w, k)
          ELSE IF job[w].at = "apply" \/ k \notin NextKeys(w) THEN nodes[k] = job[w].existing[k]
          ELSE Halfway(w, k)
    /\ job[w].at = "booked" =>
          /\ \A k \in Keys : Applied(w, k)
          /\ BookedKeys(job[w].doc) = KeysOf(job[w].doc)
          /\ \A e \in Predecessors(job[w].doc) : BookedKeys(e) = {}

\* With one worker, inductive together with IInv.
SoleIInv ==
    /\ Distinct
    /\ Contributed
    /\ HandedOver
    /\ \A w \in Workers : Informed(w) /\ Progressed(w)

-----------------------------------------------------------------------------
(* Three promises of the documents and comments the code does not keep *)

\* Nothing is being persisted or waits for another attempt.
Quiet == /\ \A w \in Workers : job[w].doc = None
         /\ \A d \in Docs : row[d].state = "awaiting_merge_confirm" => row[d].token = 0

\* "A node's refcount is the number of rows for its node_key" (schema.sql): a
\* document that fails for good leaves refs without rows.
RefcountIsRows ==
    Quiet => \A k \in Keys : nodes[k].refs = {d \in Docs : <<k, d>> \in provenance}

\* "Re-approve replaces the document's provenance slice" (docs/tracer-bullet-01.md,
\* decision 14): not if the second version is persisted before the first, which
\* the queue's order (created_at, backoff) allows.
SliceReplaced ==
    Quiet => \A d \in Docs :
        (\A e \in Siblings(d) : /\ row[e].state = "persisted"
                               /\ row[e].version <= row[d].version) =>
            \A e \in Siblings(d) \ {d}, k \in Keys : e \notin nodes[k].refs

\* "Two documents racing to touch the same auto-joined node" each apply their change
\* to the graph's current state, "so it can't be lost to a lost update", and a skipped
\* write "never loses a ref" (comments of persist.py): a document that was persisted
\* has its ref on every node of its graph.  But what to do with a node is decided
\* by the snapshot, and the query that adds the ref finds no node if the last
\* other ref was released since.
RefNeverLost == \A d \in Docs : Current(d) => KeysOf(d) \subseteq RefKeys(d)
=============================================================================
