------------------------------ MODULE Pipeline ------------------------------
(***************************************************************************)
(* nuron_ai.documents as a work queue.  The extraction, promotion,         *)
(* compiler and persist workers claim rows under a lease, do their stage   *)
(* outside any transaction, and release the row with an UPDATE fenced by   *)
(* (claimed_by, lease_token); reviewers claim, edit and approve rows of    *)
(* the same table through the same contract.  Processes crash, leases      *)
(* expire under slow holders, stages soft-fail and back off, and two       *)
(* re-ingested files of one name are approved concurrently.                *)
(*                                                                         *)
(* One action is one committed database step; a stage's computation is the *)
(* nondeterministic choice of its result in the step that releases the     *)
(* row.  The clock is abstracted: Expire is `lease_until` passing,         *)
(* BackoffElapses is `next_attempt_at` passing.                            *)
(***************************************************************************)
EXTENDS Naturals, FiniteSetsExt

CONSTANTS
    Docs,        \* content hashes: the primary key of documents
    Files,       \* original filenames; several documents may share one
    FormatOf,    \* extension of each filename
    Texts,       \* extracted or edited bodies
    Blank,       \* the body with nothing but whitespace
    Unstorable,  \* bodies with a NUL character, which PostgreSQL refuses
    Workers,     \* worker processes; the uuid of each is its worker_id
    Role,        \* which worker loop a process runs
    Reviewers,   \* review sessions
    Person,      \* the worker_id a session passes; sessions may share one
    MaxAttempts, \* _MAX_ATTEMPTS
    MaxFaults,   \* bound on crashes and on leases that expire under a holder
    None

ASSUME TextsAssumption ==
    Blank \in Texts /\ None \notin Texts /\ Unstorable \subseteq Texts \ {Blank}
ASSUME ProcessAssumption ==
    /\ Workers \cap Reviewers = {}
    /\ Role \in [Workers -> {"extract", "promote", "compile", "persist"}]
    /\ \A r \in Reviewers : Person[r] \notin Workers \cup {None}
    /\ None \notin Workers
ASSUME FileAssumption ==
    FormatOf \in [Files -> {"text", "docx", "pdf"}] /\ None \notin Docs
ASSUME BudgetAssumption == MaxAttempts \in Nat \ {0} /\ MaxFaults \in Nat

VARIABLES
    row,       \* nuron_ai.documents, by content_hash
    landings,  \* how many rows were inserted: the source of created_at
    reviewed,  \* nuron_ai.reviewed_sources
    job,       \* what each process keeps of the row it claimed
    txn,       \* the open transaction of each session's approve()
    faults     \* crashes and expiries so far, bounded by MaxFaults

vars == <<row, landings, reviewed, job, txn, faults>>

-----------------------------------------------------------------------------
(* Vocabulary *)

Processes == Workers \cup Reviewers

IdOf(p) == IF p \in Reviewers THEN Person[p] ELSE p

Ids == {IdOf(p) : p \in Processes}

\* The Content Header: complete once title and author are filled in.
Headers == {"complete", "incomplete"}

\* The states each loop polls.
StagesOf(p) ==
    IF p \in Reviewers THEN {"awaiting_review"}
    ELSE CASE Role[p] = "extract" -> {"landed", "extracted"}
           [] Role[p] = "promote" -> {"parsed"}
           [] Role[p] = "compile" -> {"content_approved"}
           [] Role[p] = "persist" -> {"compiled", "awaiting_merge_confirm"}

PipelineStates ==
    {"landed", "extracted", "parsed", "awaiting_review", "content_approved",
     "compiled", "awaiting_merge_confirm", "persisted", "failed"}

\* compiled_graph, down to what it was compiled from.
Graphs == [text : Texts, header : Headers, source : Nat]

ASSUME NoneAssumption == None \notin Graphs

Rows ==
    [state : PipelineStates \cup {"absent"}, filename : Files \cup {None},
     created : Nat, claimedBy : Ids \cup {None},
     lease : {"none", "live", "expired"}, token : Nat,
     attempts : Nat, retryAt : {"null", "future", "past"},
     body : Texts \cup {None}, header : Headers, graph : Graphs \cup {None}]

\* A content hash nobody has inserted yet.
AbsentRow ==
    [state |-> "absent", filename |-> None, created |-> 0,
     claimedBy |-> None, lease |-> "none", token |-> 0,
     attempts |-> 0, retryAt |-> "null",
     body |-> None, header |-> "incomplete", graph |-> None]

Sources == [doc : Docs, version : Nat \ {0}, text : Texts, header : Headers]

Jobs == [doc : Docs \cup {None}, stage : PipelineStates \cup {None}, token : Nat,
         text : Texts \cup {None}, header : Headers, source : Nat]

NoJob == [doc |-> None, stage |-> None, token |-> 0,
          text |-> None, header |-> "incomplete", source |-> 0]

Txns == [phase : {"none", "row", "locked", "numbered"}, version : Nat,
         text : Texts \cup {None}, header : Headers]

NoTxn == [phase |-> "none", version |-> 0, text |-> None, header |-> "incomplete"]

Busy(p) == job[p].doc # None

\* Rows under FOR UPDATE in an open approve().
RowLocked == {job[r].doc : r \in {q \in Reviewers : txn[q].phase # "none"}}

\* Bug: a lease that ran out is never taken over.
ClaimableUnleased(s) == {d \in Docs : /\ row[d].state = s
                                      /\ row[d].lease = "none"
                                      /\ row[d].retryAt # "future"}

\* The predicate of claim()'s inner SELECT.
Claimable(s) == {d \in Docs : /\ row[d].state = s
                              /\ row[d].lease # "live"
                              /\ row[d].retryAt # "future"}

\* What claim()'s UPDATE sets.
ClaimedKeepingToken(x, p) == [x EXCEPT !.claimedBy = IdOf(p), !.lease = "live"]

Claimed(x, p) ==
    [x EXCEPT !.claimedBy = IdOf(p), !.lease = "live", !.token = @ + 1]

\* Bug: any claimed row may be released.
HoldsAnyClaim(p) == row[job[p].doc].claimedBy # None

\* The fence in the WHERE of every UPDATE that ends a claim.
Holds(p) == /\ row[job[p].doc].claimedBy = IdOf(p)
            /\ row[job[p].doc].token = job[p].token

\* Bug: the token is not compared.
HoldsLiveByName(r) == /\ row[job[r].doc].claimedBy = IdOf(r)
                      /\ row[job[r].doc].state = "awaiting_review"
                      /\ row[job[r].doc].lease = "live"

\* The stricter fence of save_edit() and approve().
HoldsLive(r) == /\ Holds(r)
                /\ row[job[r].doc].state = "awaiting_review"
                /\ row[job[r].doc].lease = "live"

\* Bug: lease_until is left behind.
FreedNameOnly(x) == [x EXCEPT !.claimedBy = None]

\* What release() and its SET fragments leave of a row.
Freed(x) == [x EXCEPT !.claimedBy = None, !.lease = "none"]

\* Bug: the next stage inherits the attempts of this one.
AdvancedSpent(x, s) == [Freed(x) EXCEPT !.state = s, !.retryAt = "null"]

Advanced(x, s) ==
    [Freed(x) EXCEPT !.state = s, !.attempts = 0, !.retryAt = "null"]

\* Bug: the attempt is not counted.
RetriedForFree(x) == [Freed(x) EXCEPT !.retryAt = "future"]

\* Bug: one attempt too many.
RetriedOnceMore(x) ==
    [Freed(x) EXCEPT !.attempts = @ + 1, !.retryAt = "future",
                     !.state = IF x.attempts + 1 > MaxAttempts THEN "failed" ELSE @]

Retried(x) ==
    [Freed(x) EXCEPT !.attempts = @ + 1, !.retryAt = "future",
                     !.state = IF x.attempts + 1 >= MaxAttempts THEN "failed" ELSE @]

\* Versions of a filename, whatever content hash they were approved under.
VersionsOf(f) == {x.version : x \in {y \in reviewed : row[y.doc].filename = f}}

\* COALESCE(MAX(...), 0)
MaxOrZero(S) == IF S = {} THEN 0 ELSE Max(S)

\* Bug: the versions of every filename are counted.
LatestVersionAnyFile(f) == MaxOrZero({x.version : x \in reviewed})

LatestVersion(f) == MaxOrZero(VersionsOf(f))

SourcesOf(d) == {x \in reviewed : x.doc = d}

\* Bug: the latest version of the filename, which may be another document.
LatestOfFile(d) ==
    CHOOSE x \in reviewed : /\ row[x.doc].filename = row[d].filename
                            /\ x.version = LatestVersion(row[d].filename)

\* ORDER BY version DESC LIMIT 1.
LatestSource(d) ==
    CHOOSE x \in SourcesOf(d) : \A y \in SourcesOf(d) : y.version <= x.version

-----------------------------------------------------------------------------
Init == /\ row = [d \in Docs |-> AbsentRow]
        /\ landings = 0
        /\ reviewed = {}
        /\ job = [p \in Processes |-> NoJob]
        /\ txn = [r \in Reviewers |-> NoTxn]
        /\ faults = 0

\* scan() inserts the row of a stored file; a hash already there is left
\* alone, filename included (ON CONFLICT DO NOTHING).
Land(d, f) ==
    /\ row[d].state = "absent"
    /\ row' = [row EXCEPT ![d] = [AbsentRow EXCEPT !.state = "landed", !.filename = f,
                                                   !.created = landings + 1]]
    /\ landings' = landings + 1
    /\ UNCHANGED <<reviewed, job, txn, faults>>

\* db.claim(): the oldest claimable row that no transaction has locked.
Claim(p, s) ==
    /\ ~Busy(p)
    /\ s \in StagesOf(p)
    /\ \E d \in Claimable(s) \ RowLocked :
         /\ \A e \in Claimable(s) \ RowLocked : row[d].created <= row[e].created
         /\ row' = [row EXCEPT ![d] = Claimed(@, p)]
         /\ job' = [job EXCEPT ![p] =
                      [doc |-> d, stage |-> s, token |-> Claimed(row[d], p).token,
                       text |-> row[d].body, header |-> row[d].header, source |-> 0]]
    /\ UNCHANGED <<landings, reviewed, txn, faults>>

-----------------------------------------------------------------------------
(* Workers *)

\* db.release(): one fenced UPDATE, after which the worker forgets the row.
Release(w, x) == /\ Busy(w)
                 /\ Holds(w)
                 /\ row' = [row EXCEPT ![job[w].doc] = x]
                 /\ job' = [job EXCEPT ![w] = NoJob]
                 /\ UNCHANGED <<landings, reviewed, txn, faults>>

\* The bodies extract_markdown() returns: only its .pdf branch refuses blank
\* ones, and only XML, of which a .docx is made, knows no NUL.
BodiesOf(f) == CASE FormatOf[f] = "pdf" -> Texts \ {Blank}
                 [] FormatOf[f] = "docx" -> Texts \ Unstorable
                 [] OTHER -> Texts

Extracted(w, t) ==
    LET x == row[job[w].doc]
    IN  /\ job[w].stage = "landed"
        /\ t \in BodiesOf(x.filename) \ Unstorable
        /\ Release(w, [Advanced(x, "extracted") EXCEPT !.body = t])

\* The UPDATE of release() raises, outside the try of extract_pending() and of
\* compile_pending(), of a body with a NUL or of a graph in which the LLM put one:
\* no attempt is charged, the row keeps its lease.  Nothing in the code limits how
\* often; the bounds on the token do (compilation is the fifth claim of a row).
Refused(w) ==
    /\ \/ /\ job[w].stage = "landed"
          /\ BodiesOf(row[job[w].doc].filename) \cap Unstorable # {}
          /\ row[job[w].doc].token <= MaxFaults
       \/ /\ job[w].stage = "content_approved"
          /\ job[w].source # 0
          /\ Unstorable # {}
          /\ row[job[w].doc].token <= MaxFaults + 4
    /\ job' = [job EXCEPT ![w] = NoJob]
    /\ UNCHANGED <<row, landings, reviewed, txn, faults>>

Parsed(w, h) ==
    /\ job[w].stage = "extracted"
    /\ Release(w, [Advanced(row[job[w].doc], "parsed") EXCEPT !.header = h])

\* promote_parsed() has an UPDATE of its own, which resets no attempt counter.
Promoted(w) ==
    /\ job[w].stage = "parsed"
    /\ Release(w, [Freed(row[job[w].doc]) EXCEPT !.state = "awaiting_review"])

\* compile_pending() and persist_pending() look up the Reviewed Source in a
\* second transaction, after the claim committed.
ReadSource(w) ==
    /\ Busy(w)
    /\ job[w].stage \in {"content_approved", "awaiting_merge_confirm"}
    /\ job[w].source = 0
    /\ SourcesOf(job[w].doc) # {}
    /\ job' = [job EXCEPT ![w].source = LatestSource(job[w].doc).version]
    /\ UNCHANGED <<row, landings, reviewed, txn, faults>>

\* The graph is built from the body and header the claim returned.
Compiled(w) ==
    /\ job[w].stage = "content_approved"
    /\ job[w].source # 0
    /\ Release(w, [Advanced(row[job[w].doc], "compiled") EXCEPT
                     !.graph = [text |-> job[w].text, header |-> job[w].header,
                                source |-> job[w].source]])

\* merge_gate_pending(): every compiled row passes.
Gated(w) ==
    /\ job[w].stage = "compiled"
    /\ Release(w, Advanced(row[job[w].doc], "awaiting_merge_confirm"))

Persisted(w) ==
    /\ job[w].stage = "awaiting_merge_confirm"
    /\ job[w].source # 0
    /\ Release(w, Advanced(row[job[w].doc], "persisted"))

\* A stage that raised, was deferred, or found no Reviewed Source.
SoftFail(w) ==
    /\ \/ job[w].stage \in {"landed", "extracted"}
       \/ /\ job[w].stage \in {"content_approved", "awaiting_merge_confirm"}
          /\ job[w].source # 0 \/ SourcesOf(job[w].doc) = {}
    /\ Release(w, Retried(row[job[w].doc]))

\* Bug: the row is deleted.
HardFailDeleting(w) ==
    /\ job[w].stage = "landed"
    /\ Release(w, AbsentRow)

\* PermanentExtractionError and EmbeddingConfigurationMismatchError.
HardFail(w) ==
    /\ \/ job[w].stage = "landed"
       \/ job[w].stage = "awaiting_merge_confirm" /\ job[w].source # 0
    /\ Release(w, [Freed(row[job[w].doc]) EXCEPT !.state = "failed"])

\* The fenced UPDATE matched no row: the result is thrown away.
LostLease(w) ==
    /\ Busy(w)
    /\ ~Holds(w)
    /\ job' = [job EXCEPT ![w] = NoJob]
    /\ UNCHANGED <<row, landings, reviewed, txn, faults>>

Work(w) == \/ \E t \in Texts : Extracted(w, t)
           \/ Refused(w)
           \/ \E h \in Headers : Parsed(w, h)
           \/ Promoted(w)
           \/ ReadSource(w)
           \/ Compiled(w)
           \/ Gated(w)
           \/ Persisted(w)
           \/ SoftFail(w)
           \/ HardFail(w)
           \/ LostLease(w)

-----------------------------------------------------------------------------
(* Review gate 1 *)

\* save_edit() overwrites header and body; the session then knows what it saved.
\* It raises, and changes nothing, if the body cannot be stored.
SaveEdit(r, t, h) ==
    /\ Busy(r)
    /\ t \notin Unstorable
    /\ txn[r].phase = "none"
    /\ HoldsLive(r)
    /\ row' = [row EXCEPT ![job[r].doc].body = t, ![job[r].doc].header = h]
    /\ job' = [job EXCEPT ![r].text = t, ![r].header = h]
    /\ UNCHANGED <<landings, reviewed, txn, faults>>

\* save_edit() or approve() reported a lost lease; the session is over.
TurnedAway(r) ==
    /\ Busy(r)
    /\ txn[r].phase = "none"
    /\ ~HoldsLive(r)
    /\ job' = [job EXCEPT ![r] = NoJob]
    /\ UNCHANGED <<row, landings, reviewed, txn, faults>>

\* approve(), SELECT ... FOR UPDATE: reads what will be frozen.
ApproveBegin(r) ==
    /\ Busy(r)
    /\ txn[r].phase = "none"
    /\ HoldsLive(r)
    /\ txn' = [txn EXCEPT ![r] = [phase |-> "row", version |-> 0,
                                  text |-> row[job[r].doc].body,
                                  header |-> row[job[r].doc].header]]
    /\ UNCHANGED <<row, landings, reviewed, job, faults>>

\* Bug: the advisory lock is forgotten.
LineageUnguarded(f) == TRUE

\* pg_advisory_xact_lock on a filename: no other approval of it is past the lock.
LineageFree(f) ==
    \A q \in Reviewers :
        txn[q].phase \in {"locked", "numbered"} => row[job[q].doc].filename # f

\* approve(), the lock on the filename, held until the transaction ends.
ApproveLock(r) ==
    /\ txn[r].phase = "row"
    /\ LineageFree(row[job[r].doc].filename)
    /\ txn' = [txn EXCEPT ![r].phase = "locked"]
    /\ UNCHANGED <<row, landings, reviewed, job, faults>>

\* approve(), MAX(version) + 1 over the committed rows, and the INSERT, which
\* nobody else sees before the commit.
ApproveNumber(r) ==
    /\ txn[r].phase = "locked"
    /\ txn' = [txn EXCEPT ![r].phase = "numbered",
                          ![r].version = LatestVersion(row[job[r].doc].filename) + 1]
    /\ UNCHANGED <<row, landings, reviewed, job, faults>>

EndSession(r) == /\ job' = [job EXCEPT ![r] = NoJob]
                 /\ txn' = [txn EXCEPT ![r] = NoTxn]

\* approve(), the final UPDATE, which checks the lease again, and the commit.
ApproveCommit(r) ==
    /\ txn[r].phase = "numbered"
    /\ HoldsLive(r)
    /\ reviewed' = reviewed \cup {[doc |-> job[r].doc, version |-> txn[r].version,
                                   text |-> txn[r].text, header |-> txn[r].header]}
    /\ row' = [row EXCEPT ![job[r].doc] = [Freed(@) EXCEPT !.state = "content_approved"]]
    /\ EndSession(r)
    /\ UNCHANGED <<landings, faults>>

\* Bug: the final UPDATE is rolled back only when another session took the row.
ApproveRollbackIfTaken(r) ==
    /\ txn[r].phase = "numbered"
    /\ ~Holds(r)
    /\ EndSession(r)
    /\ UNCHANGED <<row, landings, reviewed, faults>>

\* The lease ran out during approve(): the snapshot is rolled back.
ApproveRollback(r) ==
    /\ txn[r].phase = "numbered"
    /\ ~HoldsLive(r)
    /\ EndSession(r)
    /\ UNCHANGED <<row, landings, reviewed, faults>>

Approve(r) == \/ ApproveLock(r)
              \/ ApproveNumber(r)
              \/ ApproveCommit(r)
              \/ ApproveRollback(r)

-----------------------------------------------------------------------------
(* Failures and the clock *)

\* A worker dies or loses its connection, or a session is abandoned: the row
\* keeps its lease, an open transaction is rolled back.
Crash(p) ==
    /\ Busy(p)
    /\ faults < MaxFaults
    /\ faults' = faults + 1
    /\ job' = [job EXCEPT ![p] = NoJob]
    /\ txn' = [r \in Reviewers |-> IF r = p THEN NoTxn ELSE txn[r]]
    /\ UNCHANGED <<row, landings, reviewed>>

\* A lease runs out.  Under a holder still at work it counts as a fault.
Expire(d) ==
    /\ row[d].lease = "live"
    /\ row' = [row EXCEPT ![d].lease = "expired"]
    /\ IF \E p \in Processes : job[p].doc = d /\ Holds(p)
       THEN faults < MaxFaults /\ faults' = faults + 1
       ELSE UNCHANGED faults
    /\ UNCHANGED <<landings, reviewed, job, txn>>

BackoffElapses(d) ==
    /\ row[d].retryAt = "future"
    /\ row' = [row EXCEPT ![d].retryAt = "past"]
    /\ UNCHANGED <<landings, reviewed, job, txn, faults>>

\* Everything but an arrival.
Internal ==
    \/ \E p \in Processes : \E s \in StagesOf(p) : Claim(p, s)
    \/ \E w \in Workers : Work(w)
    \/ \E r \in Reviewers, t \in Texts, h \in Headers : SaveEdit(r, t, h)
    \/ \E r \in Reviewers : TurnedAway(r) \/ ApproveBegin(r) \/ Approve(r)
    \/ \E p \in Processes : Crash(p)
    \/ \E d \in Docs : Expire(d) \/ BackoffElapses(d)

Next == (\E d \in Docs, f \in Files : Land(d, f)) \/ Internal

Spec == Init /\ [][Next]_vars

\* The worker loops never stop polling, a call once made runs on, and time
\* passes.  A reviewer need not come, and nothing need land.
Fairness ==
    /\ \A w \in Workers : WF_vars(Work(w))
    /\ \A w \in Workers : \A s \in StagesOf(w) : WF_vars(Claim(w, s))
    /\ \A r \in Reviewers : WF_vars(Approve(r))
    /\ \A d \in Docs : WF_vars(Expire(d)) /\ WF_vars(BackoffElapses(d))

FairSpec == Spec /\ Fairness

-----------------------------------------------------------------------------
(* Correctness *)

\* Every column and every process keeps its type, and a row names a claimer
\* exactly when it has a lease (the CHECK of documents).
TypeOK ==
    /\ row \in [Docs -> Rows]
    /\ landings \in Nat
    /\ reviewed \subseteq Sources
    /\ job \in [Processes -> Jobs]
    /\ txn \in [Reviewers -> Txns]
    /\ faults \in Nat
    /\ \A d \in Docs : row[d].claimedBy = None <=> row[d].lease = "none"

\* lease_token makes every claim distinguishable: no two processes, not even
\* two sessions of one person, can pass the fence of the same row.  A unit
\* test sees one expiry; this is every sequence of claims, expiries and crashes.
FenceUnique ==
    \A p, q \in Processes :
        p # q /\ Busy(p) /\ job[p].doc = job[q].doc => ~(Holds(p) /\ Holds(q))

\* A claimable row has attempts left, and a row waiting for a person or for
\* promotion, whose UPDATEs reset nothing, carries no used budget.
RetryBudget ==
    \A d \in Docs :
        /\ row[d].state # "failed" => row[d].attempts < MaxAttempts
        /\ row[d].attempts <= MaxAttempts
        /\ row[d].state \in {"parsed", "awaiting_review"} =>
               row[d].attempts = 0 /\ row[d].retryAt = "null"

\* "Reset to 0 / NULL whenever the row advances to a new state" (schema.sql):
\* whichever UPDATE moves a row forward, its next stage has the whole budget.
FreshBudget ==
    [][\A d \in Docs :
          row'[d].state \notin {row[d].state, "failed"} =>
              row'[d].attempts = 0 /\ row'[d].retryAt = "null"]_vars

\* approve() numbers the versions of a filename 1, 2, 3, ... without a gap and
\* without giving a number twice, although UNIQUE (content_hash, version)
\* cannot stop two documents of one name from both becoming version 1.
LineageVersions ==
    /\ \A x, y \in reviewed :
          /\ row[x.doc].filename = row[y.doc].filename
          /\ x.version = y.version
          => x = y
    /\ \A x \in reviewed :
          x.version > 1 =>
              \E y \in reviewed : /\ row[y.doc].filename = row[x.doc].filename
                                  /\ y.version = x.version - 1

\* A document past review gate 1 has one Reviewed Source, equal to the body and
\* header still in its row, which the compiler reads instead of the snapshot;
\* and a compiled graph cites the very version it was compiled from.
EvidenceRoot ==
    \A d \in Docs :
        /\ row[d].state \in {"content_approved", "compiled",
                             "awaiting_merge_confirm", "persisted"} =>
              \E x \in reviewed :
                  /\ SourcesOf(d) = {x}
                  /\ x.text = row[d].body /\ x.header = row[d].header
        /\ row[d].graph # None =>
              \E x \in SourcesOf(d) :
                  /\ x.version = row[d].graph.source
                  /\ x.text = row[d].graph.text /\ x.header = row[d].graph.header

\* What approve() freezes is what the approving session was shown, or saved
\* itself: no other session's edit gets in between.
ApprovedAsSeen ==
    [][\A x \in reviewed' \ reviewed :
          \E r \in Reviewers :
              /\ txn[r].phase = "numbered" /\ txn'[r].phase = "none"
              /\ job[r].doc = x.doc
              /\ job[r].text = x.text /\ job[r].header = x.header]_vars

-----------------------------------------------------------------------------
(* The inductive invariant: why the properties above hold *)

\* A process works on a row that exists, in a stage of its own, with a token
\* no newer than the row's and unlike that of any other process.
Fenced ==
    \A p \in Processes : Busy(p) =>
        /\ job[p].stage \in StagesOf(p)
        /\ row[job[p].doc].state # "absent"
        /\ job[p].token <= row[job[p].doc].token
        /\ \A q \in Processes :
              q # p /\ job[q].doc = job[p].doc => job[q].token # job[p].token

\* While a process holds its row, what the claim returned is still in it.
Viewed ==
    \A p \in Processes : Busy(p) /\ Holds(p) =>
        /\ row[job[p].doc].state = job[p].stage
        /\ row[job[p].doc].body = job[p].text
        /\ row[job[p].doc].header = job[p].header

\* Extraction filled the body before any later stage reads it.
Bodied ==
    \A d \in Docs :
        row[d].state \notin {"absent", "landed", "failed"} => row[d].body # None

\* The row lock keeps the claim and the snapshot of an open approve() valid.
Transacted ==
    \A r \in Reviewers : txn[r].phase # "none" =>
        /\ Busy(r) /\ Holds(r)
        /\ row[job[r].doc].body = txn[r].text
        /\ row[job[r].doc].header = txn[r].header

\* The filename lock keeps a number that was read the next one.
Numbered ==
    /\ \A f \in Files \cup {None} :
          LatestVersion(f) \in Nat /\ VersionsOf(f) = 1..LatestVersion(f)
    /\ \A x, y \in reviewed :
          /\ row[x.doc].filename = row[y.doc].filename
          /\ x.version = y.version
          => x = y
    /\ \A q, r \in Reviewers :
          /\ q # r
          /\ txn[q].phase \in {"locked", "numbered"}
          /\ txn[r].phase \in {"locked", "numbered"}
          => row[job[q].doc].filename # row[job[r].doc].filename
    /\ \A r \in Reviewers : txn[r].phase = "numbered" =>
          txn[r].version = LatestVersion(row[job[r].doc].filename) + 1

\* A document has no Reviewed Source before review gate 1 and one, still equal
\* to its row, after it; every reference to a version is to that one.
Sourced ==
    /\ \A x, y \in reviewed : x.doc = y.doc => x = y
    /\ \A d \in Docs :
          /\ row[d].state \in {"absent", "landed", "extracted", "parsed",
                               "awaiting_review"} =>
                SourcesOf(d) = {} /\ row[d].graph = None
          /\ row[d].state \in {"content_approved", "compiled",
                               "awaiting_merge_confirm", "persisted"} =>
                \E x \in SourcesOf(d) :
                    x.text = row[d].body /\ x.header = row[d].header
          /\ row[d].graph # None =>
                \E x \in SourcesOf(d) :
                    /\ x.version = row[d].graph.source
                    /\ x.text = row[d].graph.text
                    /\ x.header = row[d].graph.header
    /\ \A p \in Processes : job[p].source # 0 =>
          \E x \in SourcesOf(job[p].doc) : x.version = job[p].source

IInv == /\ TypeOK
        /\ Fenced
        /\ Viewed
        /\ Bodied
        /\ Transacted
        /\ Numbered
        /\ Sourced
        /\ RetryBudget

-----------------------------------------------------------------------------
(* Refinement *)

Content(x) == [text |-> x.text, header |-> x.header]

Stage == [d \in Docs |-> row[d].state]

Frozen == [d \in Docs |-> IF SourcesOf(d) = {} THEN None ELSE Content(LatestSource(d))]

Known == [d \in Docs |-> IF row[d].graph = None THEN None ELSE Content(row[d].graph)]

Abstract == INSTANCE Lifecycle WITH Evidence <- [text : Texts, header : Headers],
                                    stage <- Stage, evidence <- Frozen,
                                    knowledge <- Known

\* The queue keeps the promise of Lifecycle: no zombie, retry or crash moves a
\* document backwards or past a stage, changes what was approved, or compiles
\* anything else.
ImplementsLifecycle == Abstract!Spec

-----------------------------------------------------------------------------
(* Liveness, and two promises of the documents the code keeps only in part *)

\* A document in the hands of the workers reaches a person, persisted or
\* failed, whatever crashes on the way: the row is the checkpoint.
Progress ==
    \A d \in Docs :
        row[d].state \in Abstract!Automated ~>
            row[d].state \in {"awaiting_review", "persisted", "failed"}

\* An approve() call returns, even when two of them queue for one filename and
\* the lease runs out meanwhile.
ApproveReturns ==
    \A r \in Reviewers : txn[r].phase # "none" ~> txn[r].phase = "none"

\* "Compilation must not start until Content Header and body are present on
\* the approved version" (docs/tracer-bullet-01.md): only the .pdf branch of the
\* extraction refuses a blank body, and approve() looks at neither.
PresentBeforeCompile ==
    \A w \in Workers : job[w].stage = "content_approved" =>
        job[w].header = "complete" /\ job[w].text # Blank

\* "Enough failed attempts move it to failed" (docs/tracer-bullet-01.md): lease_token
\* counts the claims, and every one of them but the last was charged to
\* attempt_count or ended by a crash or an expiry - if the database takes the body.
AttemptsCharged ==
    \A d \in Docs :
        row[d].state = "landed" => row[d].token <= row[d].attempts + faults + 1
=============================================================================
