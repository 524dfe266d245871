--------------------------- MODULE PipelineProofs ---------------------------
(***************************************************************************)
(* Theorems of Pipeline, for every set of documents, processes and bodies  *)
(* and every bound on attempts and faults.                                 *)
(***************************************************************************)
EXTENDS Pipeline, TLAPS

-----------------------------------------------------------------------------
(* The helpers that rewrite one row *)

\* A freed row has no claimer and no lease; every other field is kept.
LEMMA FreedFields ==
    ASSUME NEW x \in Rows
    PROVE  /\ Freed(x) \in Rows
           /\ Freed(x).claimedBy = None
           /\ Freed(x).lease = "none"
           /\ Freed(x).state = x.state
           /\ Freed(x).filename = x.filename
           /\ Freed(x).token = x.token
           /\ Freed(x).attempts = x.attempts
           /\ Freed(x).retryAt = x.retryAt
           /\ Freed(x).body = x.body
           /\ Freed(x).header = x.header
           /\ Freed(x).graph = x.graph
BY DEF Freed, Rows


\* An advanced row is freed, in its new state, with a whole retry budget.
LEMMA AdvancedFields ==
    ASSUME NEW x \in Rows, NEW s \in PipelineStates
    PROVE  /\ Advanced(x, s) \in Rows
           /\ Advanced(x, s).claimedBy = None
           /\ Advanced(x, s).lease = "none"
           /\ Advanced(x, s).state = s
           /\ Advanced(x, s).filename = x.filename
           /\ Advanced(x, s).token = x.token
           /\ Advanced(x, s).attempts = 0
           /\ Advanced(x, s).retryAt = "null"
           /\ Advanced(x, s).body = x.body
           /\ Advanced(x, s).header = x.header
           /\ Advanced(x, s).graph = x.graph
BY DEF Advanced, Freed, Rows

\* A row that soft-failed is freed with one attempt more, and fails at the
\* last one; its content is kept.
LEMMA RetriedFields ==
    ASSUME NEW x \in Rows
    PROVE  /\ Retried(x) \in Rows
           /\ Retried(x).claimedBy = None
           /\ Retried(x).lease = "none"
           /\ Retried(x).state = IF x.attempts + 1 >= MaxAttempts THEN "failed" ELSE x.state
           /\ Retried(x).filename = x.filename
           /\ Retried(x).token = x.token
           /\ Retried(x).attempts = x.attempts + 1
           /\ Retried(x).body = x.body
           /\ Retried(x).header = x.header
           /\ Retried(x).graph = x.graph
<1>1. Retried(x) \in Rows
  <2> DEFINE n == x.attempts + 1
             s == IF n >= MaxAttempts THEN "failed" ELSE x.state
  <2>1. n \in Nat /\ s \in PipelineStates \cup {"absent"}
    BY DEF Rows, PipelineStates
  <2>2. Retried(x) = [x EXCEPT !.claimedBy = None, !.lease = "none", !.attempts = n,
                               !.retryAt = "future", !.state = s]
    BY DEF Retried, Freed, Rows
  <2> HIDE DEF n, s
  <2> QED  BY <2>1, <2>2 DEF Rows
<1>2. Retried(x).state = IF x.attempts + 1 >= MaxAttempts THEN "failed" ELSE x.state
  BY DEF Retried, Freed, Rows
<1>3. /\ Retried(x).claimedBy = None
      /\ Retried(x).lease = "none"
      /\ Retried(x).filename = x.filename
      /\ Retried(x).token = x.token
      /\ Retried(x).attempts = x.attempts + 1
      /\ Retried(x).body = x.body
      /\ Retried(x).header = x.header
      /\ Retried(x).graph = x.graph
  BY DEF Retried, Freed, Rows
<1> QED  BY <1>1, <1>2, <1>3

\* A claim writes the claimer, a live lease and the next token, and nothing else.
LEMMA ClaimedFields ==
    ASSUME NEW x \in Rows, NEW p \in Processes
    PROVE  /\ Claimed(x, p) \in Rows
           /\ Claimed(x, p).claimedBy = IdOf(p)
           /\ Claimed(x, p).lease = "live"
           /\ Claimed(x, p).token = x.token + 1
           /\ Claimed(x, p).state = x.state
           /\ Claimed(x, p).filename = x.filename
           /\ Claimed(x, p).attempts = x.attempts
           /\ Claimed(x, p).retryAt = x.retryAt
           /\ Claimed(x, p).body = x.body
           /\ Claimed(x, p).header = x.header
           /\ Claimed(x, p).graph = x.graph
<1>1. IdOf(p) \in Ids
  BY DEF Ids
<1>2. Claimed(x, p) \in Rows
  <2> DEFINE n == x.token + 1
             i == IdOf(p)
  <2>1. n \in Nat /\ i \in Ids
    BY <1>1 DEF Rows
  <2>2. Claimed(x, p) = [x EXCEPT !.claimedBy = i, !.lease = "live", !.token = n]
    BY DEF Claimed
  <2> HIDE DEF n, i
  <2> QED  BY <2>1, <2>2 DEF Rows
<1>3. /\ Claimed(x, p).claimedBy = IdOf(p)
      /\ Claimed(x, p).lease = "live"
      /\ Claimed(x, p).token = x.token + 1
  BY DEF Claimed, Rows
<1>4. /\ Claimed(x, p).state = x.state
      /\ Claimed(x, p).filename = x.filename
      /\ Claimed(x, p).attempts = x.attempts
      /\ Claimed(x, p).retryAt = x.retryAt
      /\ Claimed(x, p).body = x.body
      /\ Claimed(x, p).header = x.header
      /\ Claimed(x, p).graph = x.graph
  BY DEF Claimed, Rows
<1> QED  BY <1>2, <1>3, <1>4

\* Every process claims under a name: claimed_by is never NULL after a claim.
LEMMA IdNotNone ==
    ASSUME NEW p \in Processes
    PROVE  IdOf(p) # None
BY ProcessAssumption DEF IdOf, Processes

-----------------------------------------------------------------------------
(* What the workers' releases have in common *)

\* The row x that worker w may leave behind, by the stage it claimed.
Outcome(w, x) ==
    LET y == row[job[w].doc]
        s == job[w].stage
    IN  /\ x.claimedBy = None /\ x.lease = "none"
        /\ x.filename = y.filename /\ x.token = y.token
        /\ \/ /\ s = "landed" /\ x.state = "extracted"
              /\ x.body # None /\ x.graph = y.graph
              /\ x.attempts = 0 /\ x.retryAt = "null"
           \/ /\ s = "extracted" /\ x.state = "parsed"
              /\ x.body = y.body /\ x.graph = y.graph
              /\ x.attempts = 0 /\ x.retryAt = "null"
           \/ /\ s = "parsed" /\ x.state = "awaiting_review"
              /\ x.body = y.body /\ x.header = y.header /\ x.graph = y.graph
              /\ x.attempts = y.attempts /\ x.retryAt = y.retryAt
           \/ /\ s = "content_approved" /\ x.state = "compiled"
              /\ x.body = y.body /\ x.header = y.header
              /\ x.graph = [text |-> job[w].text, header |-> job[w].header,
                            source |-> job[w].source]
              /\ job[w].source # 0
              /\ x.attempts = 0 /\ x.retryAt = "null"
           \/ /\ \/ s = "compiled" /\ x.state = "awaiting_merge_confirm"
                 \/ s = "awaiting_merge_confirm" /\ x.state = "persisted"
              /\ x.body = y.body /\ x.header = y.header /\ x.graph = y.graph
              /\ x.attempts = 0 /\ x.retryAt = "null"
           \/ /\ s \in {"landed", "extracted", "content_approved",
                        "awaiting_merge_confirm"}
              /\ x.body = y.body /\ x.header = y.header /\ x.graph = y.graph
              /\ \/ /\ x.attempts = y.attempts + 1
                    /\ x.state = IF y.attempts + 1 >= MaxAttempts
                                 THEN "failed" ELSE y.state
                 \/ /\ x.attempts = y.attempts
                    /\ x.state = "failed"

\* A worker forgets its row and leaves it as it is.
GivesUp(w) == LostLease(w) \/ Refused(w)

\* A worker's step reads the Reviewed Source, gives its row up, or releases
\* it in one of the ways Outcome lists.
LEMMA WorkCases ==
    ASSUME TypeOK, Viewed, Bodied, NEW w \in Workers, Work(w)
    PROVE  \/ ReadSource(w)
           \/ GivesUp(w)
           \/ \E x \in Rows : Release(w, x) /\ Outcome(w, x)
<1> DEFINE y == row[job[w].doc]
<1>1. ASSUME Busy(w) PROVE y \in Rows
  BY <1>1 DEF TypeOK, Jobs, Busy, Processes
<1>2. ASSUME NEW t \in Texts, Extracted(w, t)
      PROVE  \E x \in Rows : Release(w, x) /\ Outcome(w, x)
  <2> DEFINE a == Advanced(y, "extracted")
             x == [a EXCEPT !.body = t]
  <2>1. Busy(w) /\ job[w].stage = "landed" /\ Release(w, x)
    BY <1>2 DEF Extracted, Release
  <2>2. a \in Rows /\ "extracted" \in PipelineStates
    BY <1>1, <2>1, AdvancedFields DEF PipelineStates
  <2>3. x \in Rows
    BY <2>2 DEF Rows
  <2>4. Outcome(w, x)
    BY <1>1, <2>1, <2>2, AdvancedFields, TextsAssumption DEF Outcome, Rows
  <2> QED  BY <2>1, <2>3, <2>4
<1>3. ASSUME NEW h \in Headers, Parsed(w, h)
      PROVE  \E x \in Rows : Release(w, x) /\ Outcome(w, x)
  <2> DEFINE a == Advanced(y, "parsed")
             x == [a EXCEPT !.header = h]
  <2>1. Busy(w) /\ job[w].stage = "extracted" /\ Release(w, x)
    BY <1>3 DEF Parsed, Release
  <2>2. a \in Rows /\ "parsed" \in PipelineStates
    BY <1>1, <2>1, AdvancedFields DEF PipelineStates
  <2>3. x \in Rows
    BY <2>2 DEF Rows
  <2>4. Outcome(w, x)
    BY <1>1, <2>1, <2>2, AdvancedFields DEF Outcome, Rows
  <2> QED  BY <2>1, <2>3, <2>4
<1>4. ASSUME Promoted(w)
      PROVE  \E x \in Rows : Release(w, x) /\ Outcome(w, x)
  <2> DEFINE a == Freed(y)
             x == [a EXCEPT !.state = "awaiting_review"]
  <2>1. Busy(w) /\ job[w].stage = "parsed" /\ Release(w, x)
    BY <1>4 DEF Promoted, Release
  <2>2. a \in Rows
    BY <1>1, <2>1, FreedFields
  <2>3. x \in Rows
    BY <2>2 DEF Rows, PipelineStates
  <2>4. Outcome(w, x)
    BY <1>1, <2>1, <2>2, FreedFields DEF Outcome, Rows
  <2> QED  BY <2>1, <2>3, <2>4
<1>5. ASSUME Compiled(w)
      PROVE  \E x \in Rows : Release(w, x) /\ Outcome(w, x)
  <2> DEFINE a == Advanced(y, "compiled")
             g == [text |-> job[w].text, header |-> job[w].header,
                   source |-> job[w].source]
             x == [a EXCEPT !.graph = g]
  <2>1. /\ Busy(w) /\ Holds(w) /\ job[w].stage = "content_approved"
        /\ job[w].source # 0 /\ Release(w, x)
    BY <1>5 DEF Compiled, Release
  <2>2. a \in Rows /\ "compiled" \in PipelineStates
    BY <1>1, <2>1, AdvancedFields DEF PipelineStates
  <2>3. g \in Graphs
    <3>1. job[w] \in Jobs /\ w \in Processes /\ job[w].doc \in Docs
      BY <2>1 DEF TypeOK, Processes, Jobs, Busy
    <3>2. y.state = job[w].stage /\ y.body = job[w].text
      BY <2>1, <3>1 DEF Viewed
    <3>3. y.body # None
      BY <2>1, <3>1, <3>2 DEF Bodied
    <3> QED  BY <3>1, <3>2, <3>3 DEF Jobs, Graphs
  <2>4. x \in Rows
    BY <2>2, <2>3 DEF Rows
  <2>5. Outcome(w, x)
    BY <1>1, <2>1, <2>2, AdvancedFields DEF Outcome, Rows
  <2> QED  BY <2>1, <2>4, <2>5
<1>6. ASSUME Gated(w) \/ Persisted(w)
      PROVE  \E x \in Rows : Release(w, x) /\ Outcome(w, x)
  <2>1. PICK s \in {"awaiting_merge_confirm", "persisted"} :
            /\ Busy(w) /\ Release(w, Advanced(y, s))
            /\ \/ s = "awaiting_merge_confirm" /\ job[w].stage = "compiled"
               \/ s = "persisted" /\ job[w].stage = "awaiting_merge_confirm"
    BY <1>6 DEF Gated, Persisted, Release
  <2>2. s \in PipelineStates
    BY DEF PipelineStates
  <2>3. Advanced(y, s) \in Rows
    BY <1>1, <2>1, <2>2, AdvancedFields
  <2>4. Outcome(w, Advanced(y, s))
    BY <1>1, <2>1, <2>2, AdvancedFields DEF Outcome
  <2> QED  BY <2>1, <2>3, <2>4
<1>7. ASSUME SoftFail(w)
      PROVE  \E x \in Rows : Release(w, x) /\ Outcome(w, x)
  <2>1. /\ Busy(w) /\ Release(w, Retried(y))
        /\ job[w].stage \in {"landed", "extracted", "content_approved",
                             "awaiting_merge_confirm"}
    BY <1>7 DEF SoftFail, Release
  <2>2. Retried(y) \in Rows
    BY <1>1, <2>1, RetriedFields
  <2>3. Outcome(w, Retried(y))
    BY <1>1, <2>1, RetriedFields DEF Outcome
  <2> QED  BY <2>1, <2>2, <2>3
<1>8. ASSUME HardFail(w)
      PROVE  \E x \in Rows : Release(w, x) /\ Outcome(w, x)
  <2> DEFINE a == Freed(y)
             x == [a EXCEPT !.state = "failed"]
  <2>1. /\ Busy(w) /\ Release(w, x)
        /\ job[w].stage \in {"landed", "awaiting_merge_confirm"}
    BY <1>8 DEF HardFail, Release
  <2>2. a \in Rows
    BY <1>1, <2>1, FreedFields
  <2>3. x \in Rows
    BY <2>2 DEF Rows, PipelineStates
  <2>4. Outcome(w, x)
    BY <1>1, <2>1, <2>2, FreedFields DEF Outcome, Rows
  <2> QED  BY <2>1, <2>3, <2>4
<1> QED  BY <1>2, <1>3, <1>4, <1>5, <1>6, <1>7, <1>8 DEF Work, GivesUp

-----------------------------------------------------------------------------
(* Writes of one entry of row and job *)

\* An UPDATE by primary key writes one row and leaves the others.
LEMMA RowWrite ==
    ASSUME TypeOK, NEW d \in Docs, NEW x \in Rows, row' = [row EXCEPT ![d] = x]
    PROVE  /\ row' \in [Docs -> Rows]
           /\ row'[d] = x
           /\ \A e \in Docs : e # d => row'[e] = row[e]
BY DEF TypeOK

\* An UPDATE that respects the lease CHECK keeps the table typed.
LEMMA RowWriteTyped ==
    ASSUME TypeOK, NEW d \in Docs, NEW x \in Rows, row' = [row EXCEPT ![d] = x],
           x.claimedBy = None <=> x.lease = "none"
    PROVE  /\ row' \in [Docs -> Rows]
           /\ \A e \in Docs : row'[e].claimedBy = None <=> row'[e].lease = "none"
<1>1. /\ row' \in [Docs -> Rows]
      /\ row'[d] = x
      /\ \A e \in Docs : e # d => row'[e] = row[e]
  BY RowWrite
<1>2. \A e \in Docs : row[e].claimedBy = None <=> row[e].lease = "none"
  BY DEF TypeOK
<1> QED  BY <1>1, <1>2

\* A step of one process writes the job of that process alone.
LEMMA JobWrite ==
    ASSUME TypeOK, NEW p \in Processes, NEW j \in Jobs, job' = [job EXCEPT ![p] = j]
    PROVE  /\ job' \in [Processes -> Jobs]
           /\ job'[p] = j
           /\ \A q \in Processes : q # p => job'[q] = job[q]
BY DEF TypeOK

\* A step of one session writes the transaction of that session alone.
LEMMA TxnWrite ==
    ASSUME TypeOK, NEW r \in Reviewers, NEW t \in Txns, txn' = [txn EXCEPT ![r] = t]
    PROVE  /\ txn' \in [Reviewers -> Txns]
           /\ txn'[r] = t
           /\ \A q \in Reviewers : q # r => txn'[q] = txn[q]
BY DEF TypeOK

\* The empty job and transaction are of their types.
LEMMA NoJobTyped == NoJob \in Jobs /\ NoTxn \in Txns
BY DEF NoJob, Jobs, Headers, NoTxn, Txns

\* A busy process works on an existing content hash.
LEMMA BusyTyped ==
    ASSUME TypeOK, NEW p \in Processes, Busy(p)
    PROVE  job[p].doc \in Docs /\ job[p] \in Jobs /\ row[job[p].doc] \in Rows
BY DEF TypeOK, Busy, Jobs

-----------------------------------------------------------------------------
(* What each of the other actions writes, entry by entry *)

\* A landing fills an absent row with an unclaimed, unattempted document.
LEMMA LandEffect ==
    ASSUME TypeOK, NEW d \in Docs, NEW f \in Files, Land(d, f)
    PROVE  \E x \in Rows :
             /\ row[d].state = "absent"
             /\ row' = [row EXCEPT ![d] = x]
             /\ x.state = "landed" /\ x.filename = f
             /\ x.claimedBy = None /\ x.lease = "none" /\ x.token = 0
             /\ x.attempts = 0 /\ x.retryAt = "null" /\ x.graph = None
<1> DEFINE n == landings + 1
           x == [AbsentRow EXCEPT !.state = "landed", !.filename = f, !.created = n]
<1>1. n \in Nat
  BY DEF TypeOK
<1>2. AbsentRow \in Rows
  BY DEF AbsentRow, Rows, Headers
<1>3. row[d].state = "absent" /\ row' = [row EXCEPT ![d] = x]
  BY DEF Land
<1> HIDE DEF n
<1>4. x \in Rows
  BY <1>1, <1>2 DEF Rows, PipelineStates
<1>5. /\ x.state = "landed" /\ x.filename = f
      /\ x.claimedBy = None /\ x.lease = "none" /\ x.token = 0
      /\ x.attempts = 0 /\ x.retryAt = "null" /\ x.graph = None
  BY DEF AbsentRow
<1> QED  BY <1>3, <1>4, <1>5

\* A claim writes one unlocked row and remembers what it returned.
LEMMA ClaimEffect ==
    ASSUME TypeOK, NEW p \in Processes, NEW s \in StagesOf(p), Claim(p, s)
    PROVE  \E d \in Docs : \E j \in Jobs :
             /\ d \notin RowLocked
             /\ row[d].state = s
             /\ Claimed(row[d], p) \in Rows
             /\ row' = [row EXCEPT ![d] = Claimed(row[d], p)]
             /\ job' = [job EXCEPT ![p] = j]
             /\ j.doc = d /\ j.stage = s /\ j.token = row[d].token + 1
             /\ j.text = row[d].body /\ j.header = row[d].header /\ j.source = 0
<1>1. PICK d \in Claimable(s) \ RowLocked :
          /\ row' = [row EXCEPT ![d] = Claimed(row[d], p)]
          /\ job' = [job EXCEPT ![p] =
                       [doc |-> d, stage |-> s, token |-> Claimed(row[d], p).token,
                        text |-> row[d].body, header |-> row[d].header, source |-> 0]]
  BY DEF Claim
<1>2. d \in Docs /\ row[d].state = s /\ row[d] \in Rows
  BY <1>1 DEF Claimable, TypeOK
<1> DEFINE n == Claimed(row[d], p).token
           j == [doc |-> d, stage |-> s, token |-> n,
                 text |-> row[d].body, header |-> row[d].header, source |-> 0]
<1>3. /\ Claimed(row[d], p) \in Rows
      /\ n = row[d].token + 1 /\ n \in Nat
  BY <1>2, ClaimedFields DEF Rows
<1>4. s \in PipelineStates
  BY ProcessAssumption DEF StagesOf, PipelineStates, Processes
<1>5. j.doc = d /\ j.stage = s /\ j.token = n
      /\ j.text = row[d].body /\ j.header = row[d].header /\ j.source = 0
  OBVIOUS
<1> HIDE DEF n
<1>6. j \in Jobs
  BY <1>2, <1>3, <1>4 DEF Jobs, Rows
<1> QED  BY <1>1, <1>2, <1>3, <1>5, <1>6 DEF n

\* An edit writes body and header of the session's row and of its memory.
LEMMA SaveEffect ==
    ASSUME TypeOK, NEW r \in Reviewers, NEW t \in Texts, NEW h \in Headers,
           SaveEdit(r, t, h)
    PROVE  \E x \in Rows : \E j \in Jobs :
             LET d == job[r].doc IN
             /\ d \in Docs
             /\ row' = [row EXCEPT ![d] = x]
             /\ x.state = row[d].state /\ x.filename = row[d].filename
             /\ x.claimedBy = row[d].claimedBy /\ x.lease = row[d].lease
             /\ x.token = row[d].token /\ x.graph = row[d].graph
             /\ x.attempts = row[d].attempts /\ x.retryAt = row[d].retryAt
             /\ x.body = t /\ x.header = h
             /\ job' = [job EXCEPT ![r] = j]
             /\ j.doc = d /\ j.stage = job[r].stage /\ j.token = job[r].token
             /\ j.source = job[r].source /\ j.text = t /\ j.header = h
<1> DEFINE d == job[r].doc
           x == [row[d] EXCEPT !.body = t, !.header = h]
           j == [job[r] EXCEPT !.text = t, !.header = h]
<1>1. r \in Processes /\ d \in Docs /\ job[r] \in Jobs /\ row[d] \in Rows
  BY BusyTyped DEF SaveEdit, Processes
<1>2. row' = [row EXCEPT ![d] = x]
  BY <1>1 DEF SaveEdit, TypeOK
<1>3. job' = [job EXCEPT ![r] = j]
  BY <1>1 DEF SaveEdit, TypeOK
<1>4. x \in Rows
  BY <1>1 DEF Rows
<1>5. j \in Jobs
  BY <1>1 DEF Jobs
<1>6. /\ x.state = row[d].state /\ x.filename = row[d].filename
      /\ x.claimedBy = row[d].claimedBy /\ x.lease = row[d].lease
      /\ x.token = row[d].token /\ x.graph = row[d].graph
      /\ x.attempts = row[d].attempts /\ x.retryAt = row[d].retryAt
      /\ x.body = t /\ x.header = h
  BY <1>1 DEF Rows
<1>7. /\ j.doc = d /\ j.stage = job[r].stage /\ j.token = job[r].token
      /\ j.source = job[r].source /\ j.text = t /\ j.header = h
  BY <1>1 DEF Jobs
<1> QED  BY <1>1, <1>2, <1>3, <1>4, <1>5, <1>6, <1>7

\* approve() first reads body and header under the row lock.
LEMMA BeginEffect ==
    ASSUME TypeOK, NEW r \in Reviewers, ApproveBegin(r)
    PROVE  \E t \in Txns :
             /\ job[r].doc \in Docs
             /\ txn' = [txn EXCEPT ![r] = t]
             /\ t.phase = "row" /\ t.version = 0
             /\ t.text = row[job[r].doc].body
             /\ t.header = row[job[r].doc].header
<1> DEFINE d == job[r].doc
           t == [phase |-> "row", version |-> 0,
                 text |-> row[d].body, header |-> row[d].header]
<1>1. d \in Docs /\ row[d] \in Rows
  BY BusyTyped DEF ApproveBegin, Processes
<1>2. txn' = [txn EXCEPT ![r] = t]
  BY DEF ApproveBegin
<1>3. t \in Txns
  BY <1>1 DEF Txns, Rows
<1> QED  BY <1>1, <1>2, <1>3

\* Taking the filename lock changes the phase of the transaction only.
LEMMA LockEffect ==
    ASSUME TypeOK, NEW r \in Reviewers, ApproveLock(r)
    PROVE  \E t \in Txns :
             /\ txn[r].phase = "row"
             /\ txn' = [txn EXCEPT ![r] = t]
             /\ t.phase = "locked" /\ t.version = txn[r].version
             /\ t.text = txn[r].text /\ t.header = txn[r].header
<1> DEFINE t == [txn[r] EXCEPT !.phase = "locked"]
<1>1. txn[r] \in Txns /\ txn' = [txn EXCEPT ![r] = t]
  BY DEF ApproveLock, TypeOK
<1>2. t \in Txns
  BY <1>1 DEF Txns
<1>3. /\ t.phase = "locked" /\ t.version = txn[r].version
      /\ t.text = txn[r].text /\ t.header = txn[r].header
  BY <1>1 DEF Txns
<1> QED  BY <1>1, <1>2, <1>3 DEF ApproveLock

\* The number read under the lock is the next one of the filename.
LEMMA NumberEffect ==
    ASSUME TypeOK, Transacted, Numbered, NEW r \in Reviewers, ApproveNumber(r)
    PROVE  \E t \in Txns :
             /\ txn[r].phase = "locked"
             /\ txn' = [txn EXCEPT ![r] = t]
             /\ t.phase = "numbered"
             /\ t.version = LatestVersion(row[job[r].doc].filename) + 1
             /\ t.text = txn[r].text /\ t.header = txn[r].header
<1> DEFINE f == row[job[r].doc].filename
           n == LatestVersion(f) + 1
           t == [txn[r] EXCEPT !.phase = "numbered", !.version = n]
<1>1. Busy(r) /\ r \in Processes /\ txn[r].phase = "locked"
  BY DEF ApproveNumber, Transacted, Processes
<1>2. f \in Files \cup {None}
  BY <1>1, BusyTyped DEF Rows
<1>3. n \in Nat
  BY <1>2 DEF Numbered
<1>4. txn[r] \in Txns /\ txn' = [txn EXCEPT ![r] = t]
  BY DEF ApproveNumber, TypeOK
<1> HIDE DEF n
<1>5. t \in Txns
  BY <1>3, <1>4 DEF Txns
<1>6. /\ t.phase = "numbered" /\ t.version = n
      /\ t.text = txn[r].text /\ t.header = txn[r].header
  BY <1>4 DEF Txns
<1> QED  BY <1>1, <1>4, <1>5, <1>6 DEF n

\* The commit of approve() adds one Reviewed Source, equal to the row, with the
\* next number of the filename, and frees the row.
LEMMA CommitEffect ==
    ASSUME TypeOK, Transacted, Numbered, Bodied, NEW r \in Reviewers, ApproveCommit(r)
    PROVE  \E x \in Rows : \E z \in Sources :
             LET d == job[r].doc IN
             /\ d \in Docs
             /\ txn[r].phase = "numbered"
             /\ row[d].state = "awaiting_review"
             /\ row' = [row EXCEPT ![d] = x]
             /\ x.state = "content_approved" /\ x.filename = row[d].filename
             /\ x.claimedBy = None /\ x.lease = "none"
             /\ x.token = row[d].token /\ x.graph = row[d].graph
             /\ x.attempts = row[d].attempts /\ x.retryAt = row[d].retryAt
             /\ x.body = row[d].body /\ x.header = row[d].header
             /\ reviewed' = reviewed \cup {z}
             /\ z.doc = d /\ z.version = txn[r].version
             /\ z.text = row[d].body /\ z.header = row[d].header
             /\ z.version = LatestVersion(row[d].filename) + 1
<1> DEFINE d == job[r].doc
           a == Freed(row[d])
           x == [a EXCEPT !.state = "content_approved"]
           z == [doc |-> d, version |-> txn[r].version,
                 text |-> txn[r].text, header |-> txn[r].header]
<1>1. /\ r \in Processes /\ Busy(r) /\ txn[r].phase = "numbered"
      /\ row[d].state = "awaiting_review"
  BY DEF ApproveCommit, HoldsLive, Transacted, Processes
<1>2. d \in Docs /\ row[d] \in Rows /\ txn[r] \in Txns
  BY <1>1, BusyTyped DEF TypeOK
<1>3. a \in Rows
  BY <1>2, FreedFields
<1>4. row' = [row EXCEPT ![d] = x]
  BY <1>2 DEF ApproveCommit, TypeOK
<1>5. x \in Rows
  BY <1>3 DEF Rows, PipelineStates
<1>6. /\ x.state = "content_approved" /\ x.filename = row[d].filename
      /\ x.claimedBy = None /\ x.lease = "none"
      /\ x.token = row[d].token /\ x.graph = row[d].graph
      /\ x.attempts = row[d].attempts /\ x.retryAt = row[d].retryAt
      /\ x.body = row[d].body /\ x.header = row[d].header
  BY <1>2, <1>3, FreedFields DEF Rows
<1>7. txn[r].text = row[d].body /\ txn[r].header = row[d].header
  BY <1>1 DEF Transacted
<1>8. /\ row[d].filename \in Files \cup {None}
      /\ txn[r].version = LatestVersion(row[d].filename) + 1
      /\ txn[r].version \in Nat \ {0}
  BY <1>1, <1>2 DEF Numbered, Rows
<1>9. row[d].body \in Texts
  BY <1>1, <1>2 DEF Bodied, Rows
<1>10. z \in Sources
  BY <1>2, <1>7, <1>8, <1>9 DEF Sources, Txns
<1>11. reviewed' = reviewed \cup {z}
  BY DEF ApproveCommit
<1> QED  BY <1>1, <1>2, <1>4, <1>5, <1>6, <1>7, <1>8, <1>10, <1>11

\* Time touches one row, and neither its state nor its claim.
LEMMA ClockEffect ==
    ASSUME TypeOK, NEW d \in Docs, Expire(d) \/ BackoffElapses(d)
    PROVE  \E x \in Rows :
             /\ row' = [row EXCEPT ![d] = x]
             /\ x.state = row[d].state /\ x.filename = row[d].filename
             /\ x.claimedBy = row[d].claimedBy /\ x.token = row[d].token
             /\ \/ x.lease = row[d].lease
                \/ row[d].lease = "live" /\ x.lease = "expired"
             /\ x.attempts = row[d].attempts
             /\ \/ x.retryAt = row[d].retryAt
                \/ row[d].retryAt = "future"
             /\ x.body = row[d].body /\ x.header = row[d].header
             /\ x.graph = row[d].graph
<1>1. row[d] \in Rows
  BY DEF TypeOK
<1>2. CASE Expire(d)
  <2> DEFINE x == [row[d] EXCEPT !.lease = "expired"]
  <2>1. row' = [row EXCEPT ![d] = x] /\ row[d].lease = "live"
    BY <1>2 DEF Expire, TypeOK
  <2>2. x \in Rows
    BY <1>1 DEF Rows
  <2>3. /\ x.state = row[d].state /\ x.filename = row[d].filename
        /\ x.claimedBy = row[d].claimedBy /\ x.token = row[d].token
        /\ x.lease = "expired" /\ x.retryAt = row[d].retryAt
        /\ x.attempts = row[d].attempts
        /\ x.body = row[d].body /\ x.header = row[d].header
        /\ x.graph = row[d].graph
    BY <1>1 DEF Rows
  <2> QED  BY <2>1, <2>2, <2>3
<1>3. CASE BackoffElapses(d)
  <2> DEFINE x == [row[d] EXCEPT !.retryAt = "past"]
  <2>1. row' = [row EXCEPT ![d] = x] /\ row[d].retryAt = "future"
    BY <1>3 DEF BackoffElapses, TypeOK
  <2>2. x \in Rows
    BY <1>1 DEF Rows
  <2>3. /\ x.state = row[d].state /\ x.filename = row[d].filename
        /\ x.claimedBy = row[d].claimedBy /\ x.token = row[d].token
        /\ x.lease = row[d].lease
        /\ x.attempts = row[d].attempts
        /\ x.body = row[d].body /\ x.header = row[d].header
        /\ x.graph = row[d].graph
    BY <1>1 DEF Rows
  <2> QED  BY <2>1, <2>2, <2>3
<1> QED  BY <1>2, <1>3

\* Giving a row up, being turned away and crashing only drop a job, and with it
\* an open transaction.
LEMMA DropEffect ==
    ASSUME TypeOK, NEW p \in Processes,
           \/ p \in Workers /\ GivesUp(p)
           \/ p \in Reviewers /\ (TurnedAway(p) \/ ApproveRollback(p))
           \/ Crash(p)
    PROVE  /\ job' = [job EXCEPT ![p] = NoJob]
           /\ row' = row /\ reviewed' = reviewed
           /\ txn' \in [Reviewers -> Txns]
           /\ \A r \in Reviewers : \/ txn'[r] = NoTxn
                                   \/ r # p /\ txn'[r] = txn[r]
                                   \/ txn'[r] = txn[r] /\ txn[r].phase = "none"
<1>1. CASE p \in Workers /\ GivesUp(p)
  BY <1>1, ProcessAssumption DEF GivesUp, LostLease, Refused, TypeOK
<1>2. CASE p \in Reviewers /\ TurnedAway(p)
  BY <1>2 DEF TurnedAway, TypeOK
<1>3. CASE p \in Reviewers /\ ApproveRollback(p)
  BY <1>3, NoJobTyped DEF ApproveRollback, EndSession, TypeOK
<1>4. CASE Crash(p)
  BY <1>4, NoJobTyped DEF Crash, TypeOK
<1> QED  BY <1>1, <1>2, <1>3, <1>4

-----------------------------------------------------------------------------
(* Types *)

\* The empty table is typed.
LEMMA TypeInit == Init => TypeOK
<1> SUFFICES ASSUME Init PROVE TypeOK
  OBVIOUS
<1>1. AbsentRow \in Rows /\ AbsentRow.claimedBy = None /\ AbsentRow.lease = "none"
  BY DEF AbsentRow, Rows, Headers
<1> QED  BY <1>1, NoJobTyped DEF Init, TypeOK, Sources

\* Every step keeps the types.
LEMMA TypeStep == IInv /\ [Next]_vars => TypeOK'
<1> SUFFICES ASSUME IInv, [Next]_vars PROVE TypeOK'
  OBVIOUS
<1> USE DEF IInv
<1>1. ASSUME NEW d \in Docs, NEW f \in Files, Land(d, f) PROVE TypeOK'
  <2>1. PICK x \in Rows : /\ row' = [row EXCEPT ![d] = x]
                          /\ x.claimedBy = None /\ x.lease = "none"
    BY <1>1, LandEffect
  <2>2. /\ landings' \in Nat /\ reviewed' = reviewed
        /\ job' = job /\ txn' = txn /\ faults' = faults
    BY <1>1 DEF Land, TypeOK
  <2> QED  BY <2>1, <2>2, RowWriteTyped DEF TypeOK
<1>2. ASSUME NEW p \in Processes, NEW s \in StagesOf(p), Claim(p, s) PROVE TypeOK'
  <2>1. PICK d \in Docs, j \in Jobs :
            /\ Claimed(row[d], p) \in Rows
            /\ row' = [row EXCEPT ![d] = Claimed(row[d], p)]
            /\ job' = [job EXCEPT ![p] = j]
    BY <1>2, ClaimEffect
  <2>2. row[d] \in Rows
    BY DEF TypeOK
  <2>3. Claimed(row[d], p).claimedBy # None /\ Claimed(row[d], p).lease # "none"
    BY <2>2, ClaimedFields, IdNotNone
  <2> QED  BY <1>2, <2>1, <2>3, RowWriteTyped, JobWrite DEF Claim, TypeOK
<1>3. ASSUME NEW w \in Workers, ReadSource(w) PROVE TypeOK'
  <2> DEFINE n == LatestSource(job[w].doc).version
             j == [job[w] EXCEPT !.source = n]
  <2>1. w \in Processes /\ job[w] \in Jobs /\ job' = [job EXCEPT ![w] = j]
    BY <1>3 DEF Processes, TypeOK, ReadSource
  <2>2. PICK x \in reviewed : SourcesOf(job[w].doc) = {x}
    BY <1>3 DEF ReadSource, SourcesOf, Sourced
  <2>3. LatestSource(job[w].doc) = x /\ x \in Sources
    BY <2>2 DEF LatestSource, TypeOK, Sources
  <2>4. n \in Nat
    BY <2>3 DEF Sources
  <2> HIDE DEF n
  <2>5. j \in Jobs
    BY <2>1, <2>4 DEF Jobs
  <2> QED  BY <1>3, <2>1, <2>5, JobWrite DEF ReadSource, TypeOK
<1>4. ASSUME NEW w \in Workers, NEW x \in Rows, Release(w, x), Outcome(w, x)
      PROVE  TypeOK'
  <2>1. w \in Processes /\ job[w].doc \in Docs
    BY <1>4, BusyTyped DEF Release, Processes
  <2> QED  BY <1>4, <2>1, RowWriteTyped, JobWrite, NoJobTyped DEF Release, Outcome, TypeOK
<1>5. ASSUME NEW r \in Reviewers, NEW t \in Texts, NEW h \in Headers, SaveEdit(r, t, h)
      PROVE  TypeOK'
  <2>1. PICK x \in Rows, j \in Jobs :
          /\ job[r].doc \in Docs
          /\ row' = [row EXCEPT ![job[r].doc] = x]
          /\ x.claimedBy = row[job[r].doc].claimedBy
          /\ x.lease = row[job[r].doc].lease
          /\ job' = [job EXCEPT ![r] = j]
    BY <1>5, SaveEffect
  <2>2. x.claimedBy = None <=> x.lease = "none"
    BY <2>1 DEF TypeOK
  <2> QED  BY <1>5, <2>1, <2>2, RowWriteTyped, JobWrite DEF SaveEdit, TypeOK, Processes
<1>6. ASSUME NEW r \in Reviewers, ApproveBegin(r) \/ ApproveLock(r) \/ ApproveNumber(r)
      PROVE  TypeOK'
  <2>1. PICK t \in Txns : txn' = [txn EXCEPT ![r] = t]
    BY <1>6, BeginEffect, LockEffect, NumberEffect
  <2>2. /\ row' = row /\ landings' = landings /\ reviewed' = reviewed
        /\ job' = job /\ faults' = faults
    BY <1>6 DEF ApproveBegin, ApproveLock, ApproveNumber
  <2> QED  BY <2>1, <2>2, TxnWrite DEF TypeOK
<1>7. ASSUME NEW r \in Reviewers, ApproveCommit(r) PROVE TypeOK'
  <2>1. PICK x \in Rows, z \in Sources :
          /\ job[r].doc \in Docs
          /\ row' = [row EXCEPT ![job[r].doc] = x]
          /\ x.claimedBy = None /\ x.lease = "none"
          /\ reviewed' = reviewed \cup {z}
    BY <1>7, CommitEffect
  <2>2. /\ row' \in [Docs -> Rows]
        /\ \A e \in Docs : row'[e].claimedBy = None <=> row'[e].lease = "none"
    BY <2>1, RowWriteTyped
  <2>3. /\ job' = [job EXCEPT ![r] = NoJob] /\ txn' = [txn EXCEPT ![r] = NoTxn]
        /\ landings' = landings /\ faults' = faults
    BY <1>7 DEF ApproveCommit, EndSession
  <2>4. job' \in [Processes -> Jobs] /\ txn' \in [Reviewers -> Txns]
    BY <2>3, NoJobTyped, JobWrite, TxnWrite DEF Processes
  <2>5. reviewed' \subseteq Sources
    BY <2>1 DEF TypeOK
  <2> QED  BY <2>2, <2>3, <2>4, <2>5 DEF TypeOK
<1>8. ASSUME NEW p \in Processes,
             \/ p \in Workers /\ GivesUp(p)
             \/ p \in Reviewers /\ (TurnedAway(p) \/ ApproveRollback(p))
             \/ Crash(p)
      PROVE  TypeOK'
  <2>1. landings' = landings /\ faults' \in Nat
    BY <1>8 DEF GivesUp, LostLease, Refused, TurnedAway, ApproveRollback, Crash, TypeOK
  <2> QED  BY <1>8, <2>1, DropEffect, JobWrite, NoJobTyped DEF TypeOK
<1>9. ASSUME NEW d \in Docs, Expire(d) \/ BackoffElapses(d) PROVE TypeOK'
  <2>1. PICK x \in Rows :
          /\ row' = [row EXCEPT ![d] = x]
          /\ x.claimedBy = row[d].claimedBy
          /\ \/ x.lease = row[d].lease
             \/ row[d].lease = "live" /\ x.lease = "expired"
    BY <1>9, ClockEffect
  <2>2. x.claimedBy = None <=> x.lease = "none"
    BY <2>1 DEF TypeOK
  <2>3. /\ landings' = landings /\ reviewed' = reviewed
        /\ job' = job /\ txn' = txn /\ faults' \in Nat
    BY <1>9 DEF Expire, BackoffElapses, TypeOK
  <2> QED  BY <2>1, <2>2, <2>3, RowWriteTyped DEF TypeOK
<1>10. CASE UNCHANGED vars
  BY <1>10 DEF vars, TypeOK
<1> QED
  BY <1>1, <1>2, <1>3, <1>4, <1>5, <1>6, <1>7, <1>8, <1>9, <1>10, WorkCases
     DEF Next, Internal, Approve, Processes

-----------------------------------------------------------------------------
(* Fences *)

\* Fenced needs nothing but that tokens and states of rows in use are kept.
LEMMA FencedKept ==
    ASSUME TypeOK, Fenced,
           \A p \in Processes : \/ ~Busy(p)'
                                \/ /\ job'[p].doc = job[p].doc
                                   /\ job'[p].stage = job[p].stage
                                   /\ job'[p].token = job[p].token,
           \A p \in Processes : Busy(p) =>
               /\ row'[job[p].doc].state # "absent"
               /\ row'[job[p].doc].token = row[job[p].doc].token
    PROVE  Fenced'
<1>1. ASSUME NEW p \in Processes, Busy(p)'
      PROVE  /\ Busy(p)
             /\ job'[p].doc = job[p].doc
             /\ job'[p].stage = job[p].stage
             /\ job'[p].token = job[p].token
  BY <1>1 DEF Busy
<1>2. ASSUME NEW p \in Processes, Busy(p)'
      PROVE  /\ job'[p].stage \in StagesOf(p)
             /\ row'[job'[p].doc].state # "absent"
             /\ job'[p].token <= row'[job'[p].doc].token
  BY <1>1, <1>2 DEF Fenced
<1>3. ASSUME NEW p \in Processes, NEW q \in Processes, Busy(p)', q # p,
             job'[q].doc = job'[p].doc
      PROVE  job'[q].token # job'[p].token
  <2>1. Busy(q)'
    BY <1>3 DEF Busy
  <2> QED  BY <1>1, <1>3, <2>1 DEF Fenced
<1> QED  BY <1>2, <1>3 DEF Fenced, StagesOf

\* Every step keeps tokens apart: a claim's token is newer than all others.
LEMMA FencedStep == IInv /\ [Next]_vars => Fenced'
<1> SUFFICES ASSUME IInv, [Next]_vars PROVE Fenced'
  OBVIOUS
<1> USE DEF IInv
<1>1. ASSUME NEW d \in Docs, NEW f \in Files, Land(d, f) PROVE Fenced'
  <2>1. PICK x \in Rows : row[d].state = "absent" /\ row' = [row EXCEPT ![d] = x]
    BY <1>1, LandEffect
  <2>2. \A p \in Processes : Busy(p) =>
            job[p].doc \in Docs /\ job[p].doc # d /\ row'[job[p].doc] = row[job[p].doc]
    BY <2>1, BusyTyped, RowWrite DEF Fenced
  <2>3. job' = job
    BY <1>1 DEF Land
  <2> QED  BY <2>2, <2>3, FencedKept DEF Fenced, Busy
<1>2. ASSUME NEW p \in Processes, NEW s \in StagesOf(p), Claim(p, s) PROVE Fenced'
  <2>1. PICK d \in Docs, j \in Jobs :
            /\ row[d].state = s
            /\ Claimed(row[d], p) \in Rows
            /\ row' = [row EXCEPT ![d] = Claimed(row[d], p)]
            /\ job' = [job EXCEPT ![p] = j]
            /\ j.doc = d /\ j.stage = s /\ j.token = row[d].token + 1
    BY <1>2, ClaimEffect
  <2>2. row[d] \in Rows /\ row[d].token \in Nat
    BY DEF TypeOK, Rows
  <2>3. /\ row'[d].token = row[d].token + 1 /\ row'[d].state = s
        /\ \A e \in Docs : e # d => row'[e] = row[e]
    <3>1. /\ Claimed(row[d], p).token = row[d].token + 1
          /\ Claimed(row[d], p).state = row[d].state
      BY <2>2, ClaimedFields
    <3>2. /\ row'[d] = Claimed(row[d], p)
          /\ \A e \in Docs : e # d => row'[e] = row[e]
      BY <2>1, RowWrite
    <3> QED  BY <2>1, <3>1, <3>2
  <2>4. job'[p] = j /\ \A q \in Processes : q # p => job'[q] = job[q]
    BY <2>1, JobWrite
  <2>5. s # "absent"
    BY ProcessAssumption DEF StagesOf, Processes
  <2>6. ASSUME NEW q \in Processes, Busy(q)
        PROVE  /\ job[q].doc \in Docs
               /\ job[q].token \in Nat
               /\ job[q].token <= row[job[q].doc].token
    <3>1. job[q].doc \in Docs /\ job[q] \in Jobs
      BY <2>6, BusyTyped
    <3> QED  BY <2>6, <3>1 DEF Fenced, Jobs
  <2>7. ASSUME NEW q \in Processes, Busy(q)'
        PROVE  /\ job'[q].stage \in StagesOf(q)
               /\ row'[job'[q].doc].state # "absent"
               /\ job'[q].token <= row'[job'[q].doc].token
    <3>1. CASE q = p
      BY <3>1, <2>1, <2>2, <2>3, <2>4, <2>5
    <3>2. CASE q # p
      <4>1. Busy(q) /\ job'[q] = job[q]
        BY <3>2, <2>4, <2>7 DEF Busy
      <4> QED  BY <4>1, <2>1, <2>2, <2>3, <2>5, <2>6 DEF Fenced
    <3> QED  BY <3>1, <3>2
  <2>8. ASSUME NEW q \in Processes, NEW r \in Processes, Busy(q)', r # q,
               job'[r].doc = job'[q].doc
        PROVE  job'[r].token # job'[q].token
    <3>1. Busy(r)'
      BY <2>8 DEF Busy
    <3>2. CASE q = p
      BY <3>1, <3>2, <2>1, <2>2, <2>4, <2>6, <2>8 DEF Busy
    <3>3. CASE r = p
      BY <3>1, <3>3, <2>1, <2>2, <2>4, <2>6, <2>8 DEF Busy
    <3>4. CASE q # p /\ r # p
      BY <3>1, <3>4, <2>4, <2>8 DEF Busy, Fenced
    <3> QED  BY <3>2, <3>3, <3>4
  <2> QED  BY <2>7, <2>8 DEF Fenced, StagesOf
<1>3. ASSUME NEW w \in Workers, ReadSource(w) PROVE Fenced'
  <2> DEFINE n == LatestSource(job[w].doc).version
  <2>1. job[w] \in Jobs /\ w \in Processes
    BY DEF TypeOK, Processes
  <2>2. /\ job' = [job EXCEPT ![w] = [job[w] EXCEPT !.source = n]]
        /\ row' = row
    BY <1>3, <2>1 DEF ReadSource, TypeOK
  <2> HIDE DEF n
  <2>3. \A p \in Processes : /\ job'[p].doc = job[p].doc
                             /\ job'[p].stage = job[p].stage
                             /\ job'[p].token = job[p].token
    BY <2>1, <2>2 DEF TypeOK, Jobs
  <2> QED  BY <2>2, <2>3, FencedKept DEF Fenced
<1>4. ASSUME NEW w \in Workers, NEW x \in Rows, Release(w, x), Outcome(w, x)
      PROVE  Fenced'
  <2> DEFINE d == job[w].doc
  <2>1. w \in Processes /\ d \in Docs /\ Busy(w)
    BY <1>4, BusyTyped DEF Release, Processes
  <2>2. x.token = row[d].token /\ x.state # "absent"
    BY <1>4, <2>1 DEF Outcome, Fenced
  <2>3. row'[d] = x /\ \A e \in Docs : e # d => row'[e] = row[e]
    BY <1>4, <2>1, RowWrite DEF Release
  <2>4. /\ job'[w] = NoJob
        /\ \A q \in Processes : q # w => job'[q] = job[q]
    BY <1>4, <2>1, JobWrite, NoJobTyped DEF Release
  <2>5. ~Busy(w)'
    BY <2>4 DEF Busy, NoJob
  <2>6. \A p \in Processes : Busy(p) =>
               /\ row'[job[p].doc].state # "absent"
               /\ row'[job[p].doc].token = row[job[p].doc].token
    BY <2>2, <2>3, BusyTyped DEF Fenced
  <2> QED  BY <2>4, <2>5, <2>6, FencedKept
<1>5. ASSUME NEW r \in Reviewers, NEW t \in Texts, NEW h \in Headers, SaveEdit(r, t, h)
      PROVE  Fenced'
  <2> DEFINE d == job[r].doc
  <2>1. PICK x \in Rows, j \in Jobs :
          /\ d \in Docs
          /\ row' = [row EXCEPT ![d] = x]
          /\ x.state = row[d].state /\ x.token = row[d].token
          /\ job' = [job EXCEPT ![r] = j]
          /\ j.doc = d /\ j.stage = job[r].stage /\ j.token = job[r].token
    BY <1>5, SaveEffect
  <2>2. r \in Processes
    BY DEF Processes
  <2>3. row'[d] = x /\ \A e \in Docs : e # d => row'[e] = row[e]
    BY <2>1, RowWrite
  <2>4. job'[r] = j /\ \A q \in Processes : q # r => job'[q] = job[q]
    BY <2>1, <2>2, JobWrite
  <2>5. \A p \in Processes : Busy(p) =>
               /\ row'[job[p].doc].state # "absent"
               /\ row'[job[p].doc].token = row[job[p].doc].token
    BY <2>1, <2>3, BusyTyped DEF Fenced
  <2>6. \A p \in Processes : /\ job'[p].doc = job[p].doc
                             /\ job'[p].stage = job[p].stage
                             /\ job'[p].token = job[p].token
    BY <2>1, <2>4
  <2> QED  BY <2>5, <2>6, FencedKept
<1>6. ASSUME NEW r \in Reviewers, ApproveBegin(r) \/ ApproveLock(r) \/ ApproveNumber(r)
      PROVE  Fenced'
  BY <1>6, FencedKept DEF ApproveBegin, ApproveLock, ApproveNumber, Fenced
<1>7. ASSUME NEW r \in Reviewers, ApproveCommit(r) PROVE Fenced'
  <2> DEFINE d == job[r].doc
  <2>1. PICK x \in Rows :
          /\ d \in Docs
          /\ row' = [row EXCEPT ![d] = x]
          /\ x.state = "content_approved" /\ x.token = row[d].token
    BY <1>7, CommitEffect
  <2>2. r \in Processes /\ job' = [job EXCEPT ![r] = NoJob]
    BY <1>7 DEF Processes, ApproveCommit, EndSession
  <2>3. row'[d] = x /\ \A e \in Docs : e # d => row'[e] = row[e]
    BY <2>1, RowWrite
  <2>4. /\ job'[r] = NoJob
        /\ \A q \in Processes : q # r => job'[q] = job[q]
    BY <2>2, JobWrite, NoJobTyped
  <2>5. ~Busy(r)'
    BY <2>4 DEF Busy, NoJob
  <2>6. \A p \in Processes : Busy(p) =>
               /\ row'[job[p].doc].state # "absent"
               /\ row'[job[p].doc].token = row[job[p].doc].token
    BY <2>1, <2>3, BusyTyped DEF Fenced
  <2> QED  BY <2>4, <2>5, <2>6, FencedKept
<1>8. ASSUME NEW p \in Processes,
             \/ p \in Workers /\ GivesUp(p)
             \/ p \in Reviewers /\ (TurnedAway(p) \/ ApproveRollback(p))
             \/ Crash(p)
      PROVE  Fenced'
  <2>1. job' = [job EXCEPT ![p] = NoJob] /\ row' = row
    BY <1>8, DropEffect
  <2>2. /\ job'[p] = NoJob
        /\ \A q \in Processes : q # p => job'[q] = job[q]
    BY <2>1, JobWrite, NoJobTyped
  <2>3. ~Busy(p)'
    BY <2>2 DEF Busy, NoJob
  <2> QED  BY <2>1, <2>2, <2>3, FencedKept DEF Fenced
<1>9. ASSUME NEW d \in Docs, Expire(d) \/ BackoffElapses(d) PROVE Fenced'
  <2>1. PICK x \in Rows :
          /\ row' = [row EXCEPT ![d] = x]
          /\ x.state = row[d].state /\ x.token = row[d].token
    BY <1>9, ClockEffect
  <2>2. row'[d] = x /\ \A e \in Docs : e # d => row'[e] = row[e]
    BY <2>1, RowWrite
  <2>3. job' = job
    BY <1>9 DEF Expire, BackoffElapses
  <2> QED  BY <2>1, <2>2, <2>3, FencedKept, BusyTyped DEF Fenced, Busy
<1>10. CASE UNCHANGED vars
  BY <1>10, FencedKept DEF vars, Fenced
<1> QED
  BY <1>1, <1>2, <1>3, <1>4, <1>5, <1>6, <1>7, <1>8, <1>9, <1>10, WorkCases
     DEF Next, Internal, Approve, Processes

\* The fence is exclusive: this is what Fenced is for.
LEMMA OneHolder ==
    ASSUME Fenced, NEW p \in Processes, NEW q \in Processes, p # q,
           Busy(p), job[q].doc = job[p].doc
    PROVE  ~(Holds(p) /\ Holds(q))
BY DEF Fenced, Holds

-----------------------------------------------------------------------------
(* Views *)

\* Viewed needs that holders keep their job and that their row keeps its content.
LEMMA ViewedKept ==
    ASSUME Viewed,
           \A p \in Processes :
               \/ ~Busy(p)'
               \/ ~Holds(p)'
               \/ /\ job'[p].doc = job[p].doc
                  /\ job'[p].stage = job[p].stage
                  /\ job'[p].token = job[p].token
                  /\ job'[p].text = job[p].text
                  /\ job'[p].header = job[p].header
                  /\ row'[job[p].doc].claimedBy = row[job[p].doc].claimedBy
                  /\ row'[job[p].doc].token = row[job[p].doc].token
                  /\ row'[job[p].doc].state = row[job[p].doc].state
                  /\ row'[job[p].doc].body = row[job[p].doc].body
                  /\ row'[job[p].doc].header = row[job[p].doc].header
    PROVE  Viewed'
<1>1. ASSUME NEW p \in Processes, Busy(p)', Holds(p)'
      PROVE  /\ row'[job'[p].doc].state = job'[p].stage
             /\ row'[job'[p].doc].body = job'[p].text
             /\ row'[job'[p].doc].header = job'[p].header
  <2>1. Busy(p) /\ Holds(p)
    BY <1>1 DEF Busy, Holds, IdOf
  <2> QED  BY <1>1, <2>1 DEF Viewed
<1> QED  BY <1>1 DEF Viewed

\* Every step keeps a holder's view of its row true.
LEMMA ViewedStep == IInv /\ [Next]_vars => Viewed'
<1> SUFFICES ASSUME IInv, [Next]_vars PROVE Viewed'
  OBVIOUS
<1> USE DEF IInv
<1>1. ASSUME NEW d \in Docs, NEW f \in Files, Land(d, f) PROVE Viewed'
  <2>1. PICK x \in Rows : row[d].state = "absent" /\ row' = [row EXCEPT ![d] = x]
    BY <1>1, LandEffect
  <2>2. \A p \in Processes : Busy(p) => row'[job[p].doc] = row[job[p].doc]
    BY <2>1, BusyTyped, RowWrite DEF Fenced
  <2>3. job' = job
    BY <1>1 DEF Land
  <2> QED  BY <2>2, <2>3, ViewedKept DEF Busy
<1>2. ASSUME NEW p \in Processes, NEW s \in StagesOf(p), Claim(p, s) PROVE Viewed'
  <2>1. PICK d \in Docs, j \in Jobs :
            /\ row[d].state = s
            /\ Claimed(row[d], p) \in Rows
            /\ row' = [row EXCEPT ![d] = Claimed(row[d], p)]
            /\ job' = [job EXCEPT ![p] = j]
            /\ j.doc = d /\ j.stage = s /\ j.token = row[d].token + 1
            /\ j.text = row[d].body /\ j.header = row[d].header
    BY <1>2, ClaimEffect
  <2>2. row[d] \in Rows /\ row[d].token \in Nat
    BY DEF TypeOK, Rows
  <2>3. /\ row'[d].token = row[d].token + 1
        /\ row'[d].state = s
        /\ row'[d].body = row[d].body
        /\ row'[d].header = row[d].header
        /\ \A e \in Docs : e # d => row'[e] = row[e]
    <3>1. /\ Claimed(row[d], p).token = row[d].token + 1
          /\ Claimed(row[d], p).state = row[d].state
          /\ Claimed(row[d], p).body = row[d].body
          /\ Claimed(row[d], p).header = row[d].header
      BY <2>2, ClaimedFields
    <3>2. /\ row'[d] = Claimed(row[d], p)
          /\ \A e \in Docs : e # d => row'[e] = row[e]
      BY <2>1, RowWrite
    <3> QED  BY <2>1, <3>1, <3>2
  <2>4. job'[p] = j /\ \A q \in Processes : q # p => job'[q] = job[q]
    BY <2>1, JobWrite
  <2>5. ASSUME NEW q \in Processes, Busy(q)', Holds(q)'
        PROVE  /\ row'[job'[q].doc].state = job'[q].stage
               /\ row'[job'[q].doc].body = job'[q].text
               /\ row'[job'[q].doc].header = job'[q].header
    <3>1. CASE q = p
      BY <3>1, <2>1, <2>3, <2>4
    <3>2. CASE q # p
      <4>1. Busy(q) /\ job'[q] = job[q]
        BY <3>2, <2>4, <2>5 DEF Busy
      <4>2. /\ job[q].doc \in Docs /\ job[q].token \in Nat
            /\ job[q].token <= row[job[q].doc].token
        BY <4>1, BusyTyped DEF Fenced, Jobs
      <4>3. job[q].doc # d
        BY <2>2, <2>3, <2>5, <4>1, <4>2 DEF Holds
      <4>4. Holds(q)
        BY <2>3, <2>5, <4>1, <4>2, <4>3 DEF Holds, IdOf
      <4> QED  BY <2>3, <4>1, <4>2, <4>3, <4>4 DEF Viewed
    <3> QED  BY <3>1, <3>2
  <2> QED  BY <2>5 DEF Viewed
<1>3. ASSUME NEW w \in Workers, ReadSource(w) PROVE Viewed'
  <2> DEFINE n == LatestSource(job[w].doc).version
  <2>1. job[w] \in Jobs /\ w \in Processes
    BY DEF TypeOK, Processes
  <2>2. /\ job' = [job EXCEPT ![w] = [job[w] EXCEPT !.source = n]]
        /\ row' = row
    BY <1>3, <2>1 DEF ReadSource, TypeOK
  <2> HIDE DEF n
  <2>3. \A p \in Processes : /\ job'[p].doc = job[p].doc
                             /\ job'[p].stage = job[p].stage
                             /\ job'[p].token = job[p].token
                             /\ job'[p].text = job[p].text
                             /\ job'[p].header = job[p].header
    BY <2>1, <2>2 DEF TypeOK, Jobs
  <2> QED  BY <2>2, <2>3, ViewedKept
<1>4. ASSUME NEW p \in Processes, NEW x \in Rows, Busy(p), x.claimedBy = None,
             row' = [row EXCEPT ![job[p].doc] = x], job' = [job EXCEPT ![p] = NoJob]
      PROVE  Viewed'
  <2> DEFINE d == job[p].doc
  <2>1. d \in Docs
    BY <1>4, BusyTyped
  <2>2. row'[d] = x /\ \A e \in Docs : e # d => row'[e] = row[e]
    BY <1>4, <2>1, RowWrite
  <2>3. /\ job'[p] = NoJob
        /\ \A q \in Processes : q # p => job'[q] = job[q]
    BY <1>4, JobWrite, NoJobTyped
  <2>4. ASSUME NEW q \in Processes, Busy(q)', Holds(q)'
        PROVE  q # p /\ Busy(q) /\ job[q].doc \in Docs /\ job[q].doc # d
    <3>1. q # p
      BY <2>3, <2>4 DEF Busy, NoJob
    <3>2. Busy(q) /\ job'[q] = job[q]
      BY <2>3, <2>4, <3>1 DEF Busy
    <3>3. IdOf(q) # None /\ job[q].doc \in Docs
      BY <3>2, IdNotNone, BusyTyped
    <3>4. row'[job[q].doc].claimedBy = IdOf(q)
      BY <2>4, <3>2 DEF Holds, IdOf
    <3>5. job[q].doc # d
      BY <1>4, <2>2, <3>3, <3>4
    <3> QED  BY <3>1, <3>2, <3>3, <3>5
  <2> QED  BY <2>2, <2>3, <2>4, ViewedKept
<1>5. ASSUME NEW r \in Reviewers, NEW t \in Texts, NEW h \in Headers, SaveEdit(r, t, h)
      PROVE  Viewed'
  <2> DEFINE d == job[r].doc
  <2>1. PICK x \in Rows, j \in Jobs :
          /\ d \in Docs
          /\ row' = [row EXCEPT ![d] = x]
          /\ x.state = row[d].state /\ x.token = row[d].token
          /\ x.claimedBy = row[d].claimedBy
          /\ x.body = t /\ x.header = h
          /\ job' = [job EXCEPT ![r] = j]
          /\ j.doc = d /\ j.stage = job[r].stage /\ j.token = job[r].token
          /\ j.text = t /\ j.header = h
    BY <1>5, SaveEffect
  <2>2. r \in Processes /\ Busy(r) /\ Holds(r)
    BY <1>5 DEF Processes, SaveEdit, HoldsLive
  <2>3. row'[d] = x /\ \A e \in Docs : e # d => row'[e] = row[e]
    BY <2>1, RowWrite
  <2>4. job'[r] = j /\ \A q \in Processes : q # r => job'[q] = job[q]
    BY <2>1, <2>2, JobWrite
  <2>5. ASSUME NEW q \in Processes, Busy(q)', Holds(q)'
        PROVE  /\ row'[job'[q].doc].state = job'[q].stage
               /\ row'[job'[q].doc].body = job'[q].text
               /\ row'[job'[q].doc].header = job'[q].header
    <3>1. CASE q = r
      BY <3>1, <2>1, <2>2, <2>3, <2>4 DEF Viewed
    <3>2. CASE q # r
      <4>1. Busy(q) /\ job'[q] = job[q]
        BY <3>2, <2>4, <2>5 DEF Busy
      <4>2. job[q].doc \in Docs
        BY <4>1, BusyTyped
      <4>3. Holds(q)
        BY <2>1, <2>3, <2>5, <4>1, <4>2 DEF Holds, IdOf
      <4>4. job[q].doc # d
        BY <3>2, <4>1, <4>3, <2>2, OneHolder
      <4> QED  BY <2>3, <4>1, <4>2, <4>3, <4>4 DEF Viewed
    <3> QED  BY <3>1, <3>2
  <2> QED  BY <2>5 DEF Viewed
<1>6. ASSUME NEW r \in Reviewers, ApproveBegin(r) \/ ApproveLock(r) \/ ApproveNumber(r)
      PROVE  Viewed'
  BY <1>6, ViewedKept DEF ApproveBegin, ApproveLock, ApproveNumber
<1>7. ASSUME NEW r \in Reviewers, ApproveCommit(r) PROVE Viewed'
  <2>1. PICK x \in Rows :
          /\ row' = [row EXCEPT ![job[r].doc] = x]
          /\ x.claimedBy = None
    BY <1>7, CommitEffect
  <2>2. r \in Processes /\ Busy(r) /\ job' = [job EXCEPT ![r] = NoJob]
    BY <1>7 DEF Processes, ApproveCommit, EndSession, Transacted
  <2> QED  BY <2>1, <2>2, <1>4
<1>8. ASSUME NEW p \in Processes,
             \/ p \in Workers /\ GivesUp(p)
             \/ p \in Reviewers /\ (TurnedAway(p) \/ ApproveRollback(p))
             \/ Crash(p)
      PROVE  Viewed'
  <2>1. job' = [job EXCEPT ![p] = NoJob] /\ row' = row
    BY <1>8, DropEffect
  <2>2. /\ job'[p] = NoJob
        /\ \A q \in Processes : q # p => job'[q] = job[q]
    BY <2>1, JobWrite, NoJobTyped
  <2>3. ~Busy(p)'
    BY <2>2 DEF Busy, NoJob
  <2> QED  BY <2>1, <2>2, <2>3, ViewedKept
<1>9. ASSUME NEW d \in Docs, Expire(d) \/ BackoffElapses(d) PROVE Viewed'
  <2>1. PICK x \in Rows :
          /\ row' = [row EXCEPT ![d] = x]
          /\ x.state = row[d].state /\ x.token = row[d].token
          /\ x.claimedBy = row[d].claimedBy
          /\ x.body = row[d].body /\ x.header = row[d].header
    BY <1>9, ClockEffect
  <2>2. row'[d] = x /\ \A e \in Docs : e # d => row'[e] = row[e]
    BY <2>1, RowWrite
  <2>3. job' = job
    BY <1>9 DEF Expire, BackoffElapses
  <2>4. \A p \in Processes : Busy(p)' => Busy(p) /\ job[p].doc \in Docs
    BY <2>3, BusyTyped DEF Busy
  <2> QED  BY <2>1, <2>2, <2>3, <2>4, ViewedKept
<1>10. CASE UNCHANGED vars
  BY <1>10, ViewedKept DEF vars
<1>11. ASSUME NEW w \in Workers, NEW x \in Rows, Release(w, x), Outcome(w, x)
       PROVE  Viewed'
  BY <1>11, <1>4 DEF Release, Outcome, Processes
<1> QED
  BY <1>1, <1>2, <1>3, <1>5, <1>6, <1>7, <1>8, <1>9, <1>10, <1>11, WorkCases
     DEF Next, Internal, Approve, Processes

-----------------------------------------------------------------------------
(* Bodies *)

\* Bodied needs that no row loses its body or moves on without one.
LEMMA BodiedKept ==
    ASSUME Bodied, NEW d \in Docs, NEW x \in Rows,
           /\ row'[d] = x
           /\ \A e \in Docs : e # d => row'[e] = row[e],
           \/ x.state \in {"landed", "failed"}
           \/ x.body # None
           \/ x.state = row[d].state /\ x.body = row[d].body
    PROVE  Bodied'
BY DEF Bodied

\* Every step keeps the body of a row past extraction.
LEMMA BodiedStep == IInv /\ [Next]_vars => Bodied'
<1> SUFFICES ASSUME IInv, [Next]_vars PROVE Bodied'
  OBVIOUS
<1> USE DEF IInv
<1>1. ASSUME NEW d \in Docs, NEW f \in Files, Land(d, f) PROVE Bodied'
  BY <1>1, LandEffect, RowWrite, BodiedKept
<1>2. ASSUME NEW p \in Processes, NEW s \in StagesOf(p), Claim(p, s) PROVE Bodied'
  <2>1. PICK d \in Docs : /\ Claimed(row[d], p) \in Rows
                          /\ row' = [row EXCEPT ![d] = Claimed(row[d], p)]
    BY <1>2, ClaimEffect
  <2>2. row[d] \in Rows
    BY DEF TypeOK
  <2>3. /\ Claimed(row[d], p).state = row[d].state
        /\ Claimed(row[d], p).body = row[d].body
    BY <2>2, ClaimedFields
  <2>4. /\ row'[d] = Claimed(row[d], p)
        /\ \A e \in Docs : e # d => row'[e] = row[e]
    BY <2>1, RowWrite
  <2> QED  BY <2>1, <2>3, <2>4, BodiedKept
<1>3. ASSUME NEW w \in Workers, NEW x \in Rows, Release(w, x), Outcome(w, x)
      PROVE  Bodied'
  <2>1. w \in Processes /\ Busy(w) /\ Holds(w) /\ job[w].doc \in Docs
    BY <1>3, BusyTyped DEF Release, Processes
  <2>2. row[job[w].doc].state = job[w].stage
    BY <2>1 DEF Viewed
  <2>3. /\ row'[job[w].doc] = x
        /\ \A e \in Docs : e # job[w].doc => row'[e] = row[e]
    BY <1>3, <2>1, RowWrite DEF Release
  <2>4. job[w].stage \notin {"absent", "landed", "failed"} => row[job[w].doc].body # None
    BY <2>1, <2>2 DEF Bodied
  <2>5. \/ x.state \in {"landed", "failed"}
        \/ x.body # None
        \/ x.state = row[job[w].doc].state /\ x.body = row[job[w].doc].body
    BY <1>3, <2>2, <2>4 DEF Outcome
  <2> QED  BY <2>1, <2>3, <2>5, BodiedKept
<1>4. ASSUME NEW r \in Reviewers, NEW t \in Texts, NEW h \in Headers, SaveEdit(r, t, h)
      PROVE  Bodied'
  BY <1>4, SaveEffect, RowWrite, BodiedKept, TextsAssumption
<1>5. ASSUME NEW r \in Reviewers, ApproveCommit(r) PROVE Bodied'
  <2>1. PICK x \in Rows :
          /\ job[r].doc \in Docs
          /\ row[job[r].doc].state = "awaiting_review"
          /\ row' = [row EXCEPT ![job[r].doc] = x]
          /\ x.body = row[job[r].doc].body
    BY <1>5, CommitEffect
  <2>2. x.body # None
    BY <2>1 DEF Bodied
  <2> QED  BY <2>1, <2>2, RowWrite, BodiedKept
<1>6. ASSUME NEW d \in Docs, Expire(d) \/ BackoffElapses(d) PROVE Bodied'
  BY <1>6, ClockEffect, RowWrite, BodiedKept
<1>7. ASSUME NEW p \in Processes,
             \/ p \in Workers /\ GivesUp(p)
             \/ p \in Reviewers /\ (TurnedAway(p) \/ ApproveRollback(p))
             \/ Crash(p)
      PROVE  Bodied'
  BY <1>7, DropEffect DEF Bodied
<1>8. ASSUME \/ \E w \in Workers : ReadSource(w)
             \/ \E r \in Reviewers : ApproveBegin(r) \/ ApproveLock(r) \/ ApproveNumber(r)
             \/ UNCHANGED vars
      PROVE  Bodied'
  BY <1>8 DEF ReadSource, ApproveBegin, ApproveLock, ApproveNumber, vars, Bodied
<1> QED
  BY <1>1, <1>2, <1>3, <1>4, <1>5, <1>6, <1>7, <1>8, WorkCases
     DEF Next, Internal, Approve, Processes

-----------------------------------------------------------------------------
(* Open transactions *)

\* Transacted needs that the row of an open approve() is left alone.
LEMMA TransactedKept ==
    ASSUME Transacted,
           \A r \in Reviewers :
               \/ txn'[r].phase = "none"
               \/ /\ txn[r].phase # "none"
                  /\ txn'[r].text = txn[r].text
                  /\ txn'[r].header = txn[r].header
                  /\ job'[r].doc = job[r].doc
                  /\ job'[r].token = job[r].token
                  /\ row'[job[r].doc].claimedBy = row[job[r].doc].claimedBy
                  /\ row'[job[r].doc].token = row[job[r].doc].token
                  /\ row'[job[r].doc].body = row[job[r].doc].body
                  /\ row'[job[r].doc].header = row[job[r].doc].header
    PROVE  Transacted'
<1>1. ASSUME NEW r \in Reviewers, txn'[r].phase # "none"
      PROVE  /\ Busy(r)' /\ Holds(r)'
             /\ row'[job'[r].doc].body = txn'[r].text
             /\ row'[job'[r].doc].header = txn'[r].header
  <2>1. Busy(r) /\ Holds(r)
    BY <1>1 DEF Transacted
  <2> QED  BY <1>1, <2>1 DEF Transacted, Busy, Holds, IdOf
<1> QED  BY <1>1 DEF Transacted

\* A write to the row of a process that holds it leaves the rows of the other
\* open transactions alone.
LEMMA TransactedElsewhere ==
    ASSUME TypeOK, Fenced, Transacted, NEW p \in Processes, Busy(p), Holds(p),
           NEW x \in Rows, NEW j \in Jobs,
           row' = [row EXCEPT ![job[p].doc] = x], job' = [job EXCEPT ![p] = j],
           \A r \in Reviewers : txn'[r].phase = "none" \/ (r # p /\ txn'[r] = txn[r])
    PROVE  Transacted'
<1>1. job[p].doc \in Docs
  BY BusyTyped
<1>2. \A e \in Docs : e # job[p].doc => row'[e] = row[e]
  BY <1>1, RowWrite
<1>3. \A q \in Processes : q # p => job'[q] = job[q]
  BY JobWrite
<1>4. ASSUME NEW r \in Reviewers, txn'[r].phase # "none"
      PROVE  /\ txn'[r] = txn[r] /\ job'[r] = job[r]
             /\ row'[job[r].doc] = row[job[r].doc]
  <2>1. r \in Processes /\ r # p /\ txn'[r] = txn[r] /\ job'[r] = job[r]
    BY <1>3, <1>4 DEF Processes
  <2>2. Busy(r) /\ Holds(r)
    BY <1>4, <2>1 DEF Transacted
  <2>3. job[r].doc \in Docs /\ job[r].doc # job[p].doc
    BY <2>1, <2>2, OneHolder, BusyTyped
  <2> QED  BY <1>2, <2>1, <2>3
<1> QED  BY <1>4, TransactedKept

\* Every step respects the row lock of an open approve().
LEMMA TransactedStep == IInv /\ [Next]_vars => Transacted'
<1> SUFFICES ASSUME IInv, [Next]_vars PROVE Transacted'
  OBVIOUS
<1> USE DEF IInv
<1>0. \A r \in Reviewers : txn[r].phase # "none" =>
          r \in Processes /\ Busy(r) /\ Holds(r) /\ job[r].doc \in Docs
  BY BusyTyped DEF Transacted, Processes
<1>1. ASSUME NEW d \in Docs, NEW f \in Files, Land(d, f) PROVE Transacted'
  <2>1. PICK x \in Rows : row[d].state = "absent" /\ row' = [row EXCEPT ![d] = x]
    BY <1>1, LandEffect
  <2>2. \A p \in Processes : Busy(p) => row'[job[p].doc] = row[job[p].doc]
    BY <2>1, BusyTyped, RowWrite DEF Fenced
  <2>3. job' = job /\ txn' = txn
    BY <1>1 DEF Land
  <2> QED  BY <1>0, <2>2, <2>3, TransactedKept
<1>2. ASSUME NEW p \in Processes, NEW s \in StagesOf(p), Claim(p, s) PROVE Transacted'
  <2>1. PICK d \in Docs, j \in Jobs :
            /\ d \notin RowLocked
            /\ Claimed(row[d], p) \in Rows
            /\ row' = [row EXCEPT ![d] = Claimed(row[d], p)]
            /\ job' = [job EXCEPT ![p] = j]
    BY <1>2, ClaimEffect
  <2>2. \A e \in Docs : e # d => row'[e] = row[e]
    BY <2>1, RowWrite
  <2>3. \A q \in Processes : q # p => job'[q] = job[q]
    BY <2>1, JobWrite
  <2>4. ~Busy(p) /\ txn' = txn
    BY <1>2 DEF Claim
  <2>5. \A r \in Reviewers : txn[r].phase # "none" => r # p /\ job[r].doc # d
    BY <1>0, <2>1, <2>4 DEF RowLocked
  <2> QED  BY <1>0, <2>2, <2>3, <2>4, <2>5, TransactedKept
<1>3. ASSUME NEW w \in Workers, ReadSource(w) PROVE Transacted'
  <2>1. \A r \in Reviewers : r # w
    BY ProcessAssumption
  <2>2. row' = row /\ txn' = txn /\ \A r \in Reviewers : job'[r] = job[r]
    BY <1>3, <2>1 DEF ReadSource, TypeOK, Processes
  <2> QED  BY <2>2, TransactedKept
<1>4. ASSUME NEW w \in Workers, NEW x \in Rows, Release(w, x), Outcome(w, x)
      PROVE  Transacted'
  <2>1. w \in Processes /\ \A r \in Reviewers : r # w
    BY ProcessAssumption DEF Processes
  <2> QED  BY <1>4, <2>1, TransactedElsewhere, NoJobTyped DEF Release
<1>5. ASSUME NEW r \in Reviewers, NEW t \in Texts, NEW h \in Headers, SaveEdit(r, t, h)
      PROVE  Transacted'
  <2>1. PICK x \in Rows, j \in Jobs :
          /\ row' = [row EXCEPT ![job[r].doc] = x]
          /\ job' = [job EXCEPT ![r] = j]
    BY <1>5, SaveEffect
  <2>2. r \in Processes /\ Busy(r) /\ Holds(r) /\ txn[r].phase = "none" /\ txn' = txn
    BY <1>5 DEF SaveEdit, HoldsLive, Processes
  <2> QED  BY <2>1, <2>2, TransactedElsewhere
<1>6. ASSUME NEW r \in Reviewers, ApproveBegin(r) PROVE Transacted'
  <2>1. PICK t \in Txns :
          /\ txn' = [txn EXCEPT ![r] = t]
          /\ t.text = row[job[r].doc].body
          /\ t.header = row[job[r].doc].header
    BY <1>6, BeginEffect
  <2>2. txn'[r] = t /\ \A q \in Reviewers : q # r => txn'[q] = txn[q]
    BY <2>1, TxnWrite
  <2>3. row' = row /\ job' = job /\ Busy(r) /\ Holds(r)
    BY <1>6 DEF ApproveBegin, HoldsLive
  <2> QED  BY <2>1, <2>2, <2>3 DEF Transacted, Busy, Holds, IdOf
<1>7. ASSUME NEW r \in Reviewers, ApproveLock(r) \/ ApproveNumber(r) PROVE Transacted'
  <2>1. PICK t \in Txns :
          /\ txn[r].phase # "none"
          /\ txn' = [txn EXCEPT ![r] = t]
          /\ t.text = txn[r].text /\ t.header = txn[r].header
    BY <1>7, LockEffect, NumberEffect
  <2>2. txn'[r] = t /\ \A q \in Reviewers : q # r => txn'[q] = txn[q]
    BY <2>1, TxnWrite
  <2>3. row' = row /\ job' = job
    BY <1>7 DEF ApproveLock, ApproveNumber
  <2> QED  BY <2>1, <2>2, <2>3, TransactedKept
<1>8. ASSUME NEW r \in Reviewers, ApproveCommit(r) PROVE Transacted'
  <2>1. PICK x \in Rows :
          /\ txn[r].phase = "numbered"
          /\ row' = [row EXCEPT ![job[r].doc] = x]
    BY <1>8, CommitEffect
  <2>2. job' = [job EXCEPT ![r] = NoJob] /\ txn' = [txn EXCEPT ![r] = NoTxn]
    BY <1>8 DEF ApproveCommit, EndSession
  <2>3. txn'[r] = NoTxn /\ \A q \in Reviewers : q # r => txn'[q] = txn[q]
    BY <2>2, TxnWrite, NoJobTyped
  <2>4. NoTxn.phase = "none"
    BY DEF NoTxn
  <2>5. r \in Processes /\ Busy(r) /\ Holds(r)
    BY <1>0, <2>1
  <2>6. \A q \in Reviewers : txn'[q].phase = "none" \/ (q # r /\ txn'[q] = txn[q])
    BY <2>3, <2>4
  <2>7. NoJob \in Jobs
    BY NoJobTyped
  <2> QED  BY <2>1, <2>2, <2>5, <2>6, <2>7, TransactedElsewhere
<1>9. ASSUME NEW p \in Processes,
             \/ p \in Workers /\ GivesUp(p)
             \/ p \in Reviewers /\ (TurnedAway(p) \/ ApproveRollback(p))
             \/ Crash(p)
      PROVE  Transacted'
  <2>1. /\ job' = [job EXCEPT ![p] = NoJob] /\ row' = row
        /\ \A r \in Reviewers : \/ txn'[r] = NoTxn
                                \/ r # p /\ txn'[r] = txn[r]
                                \/ txn'[r] = txn[r] /\ txn[r].phase = "none"
    BY <1>9, DropEffect
  <2>2. \A q \in Processes : q # p => job'[q] = job[q]
    BY <2>1, JobWrite, NoJobTyped
  <2>3. NoTxn.phase = "none"
    BY DEF NoTxn
  <2> QED  BY <1>0, <2>1, <2>2, <2>3, TransactedKept
<1>10. ASSUME NEW d \in Docs, Expire(d) \/ BackoffElapses(d) PROVE Transacted'
  <2>1. PICK x \in Rows :
          /\ row' = [row EXCEPT ![d] = x]
          /\ x.token = row[d].token /\ x.claimedBy = row[d].claimedBy
          /\ x.body = row[d].body /\ x.header = row[d].header
    BY <1>10, ClockEffect
  <2>2. row'[d] = x /\ \A e \in Docs : e # d => row'[e] = row[e]
    BY <2>1, RowWrite
  <2>3. job' = job /\ txn' = txn
    BY <1>10 DEF Expire, BackoffElapses
  <2> QED  BY <1>0, <2>1, <2>2, <2>3, TransactedKept
<1>11. CASE UNCHANGED vars
  BY <1>11, TransactedKept DEF vars
<1> QED
  BY <1>1, <1>2, <1>3, <1>4, <1>5, <1>6, <1>7, <1>8, <1>9, <1>10, <1>11, WorkCases
     DEF Next, Internal, Approve, Processes

-----------------------------------------------------------------------------
(* Version numbers *)

\* The largest of 1..n is n, also when there is none.
LEMMA MaxUpTo ==
    ASSUME NEW n \in Nat
    PROVE  MaxOrZero(1..n) = n
<1>1. CASE n = 0
  BY <1>1 DEF MaxOrZero
<1>2. CASE n # 0
  <2>1. n \in 1..n /\ \A u \in 1..n : n >= u
    BY <1>2
  <2>2. \A v \in 1..n : (\A u \in 1..n : v >= u) => v = n
    BY <2>1
  <2>3. Max(1..n) = n
    BY <2>1, <2>2 DEF Max
  <2> QED  BY <2>1, <2>3 DEF MaxOrZero
<1> QED  BY <1>1, <1>2

\* As long as nothing is approved, Numbered needs that filenames in use stay,
\* that the filename lock is taken only when free, and that numbers are fresh.
LEMMA NumberedKept ==
    ASSUME TypeOK, Numbered, reviewed' = reviewed,
           \A x \in reviewed : row'[x.doc].filename = row[x.doc].filename,
           \A r \in Reviewers : txn'[r].phase \in {"locked", "numbered"} =>
               /\ job'[r].doc = job[r].doc
               /\ row'[job[r].doc].filename = row[job[r].doc].filename,
           \A r \in Reviewers : txn'[r].phase \in {"locked", "numbered"} =>
               \/ txn[r].phase \in {"locked", "numbered"}
               \/ /\ LineageFree(row[job[r].doc].filename)
                  /\ \A q \in Reviewers : q # r => txn'[q] = txn[q],
           \A r \in Reviewers : txn'[r].phase = "numbered" =>
               \/ txn'[r] = txn[r]
               \/ txn'[r].version = LatestVersion(row[job[r].doc].filename) + 1
    PROVE  Numbered'
<1>1. ASSUME NEW f
      PROVE  /\ VersionsOf(f)' = VersionsOf(f)
             /\ LatestVersion(f)' = LatestVersion(f)
  BY DEF VersionsOf, LatestVersion
<1>3. ASSUME NEW f \in Files \cup {None}
      PROVE  /\ LatestVersion(f)' \in Nat
             /\ VersionsOf(f)' = 1..LatestVersion(f)'
  BY <1>1 DEF Numbered
<1>4. \A x, y \in reviewed' :
          /\ row'[x.doc].filename = row'[y.doc].filename
          /\ x.version = y.version
          => x = y
  BY DEF Numbered
<1>5. ASSUME NEW q \in Reviewers, NEW r \in Reviewers, q # r,
             txn'[q].phase \in {"locked", "numbered"},
             txn'[r].phase \in {"locked", "numbered"}
      PROVE  row'[job'[q].doc].filename # row'[job'[r].doc].filename
  <2>1. /\ row'[job'[q].doc].filename = row[job[q].doc].filename
        /\ row'[job'[r].doc].filename = row[job[r].doc].filename
    BY <1>5
  <2>2. CASE txn[q].phase \in {"locked", "numbered"} /\ txn[r].phase \in {"locked", "numbered"}
    BY <1>5, <2>1, <2>2 DEF Numbered
  <2>3. CASE txn[q].phase \notin {"locked", "numbered"}
    BY <1>5, <2>1, <2>3 DEF LineageFree
  <2>4. CASE txn[r].phase \notin {"locked", "numbered"}
    BY <1>5, <2>1, <2>4 DEF LineageFree
  <2> QED  BY <2>2, <2>3, <2>4
<1>6. ASSUME NEW r \in Reviewers, txn'[r].phase = "numbered"
      PROVE  (txn[r].version = LatestVersion(row[job[r].doc].filename) + 1)'
  <2> DEFINE f == row[job[r].doc].filename
  <2>1. f' = f
    BY <1>6
  <2>2. txn'[r].version = LatestVersion(f) + 1
    BY <1>6 DEF Numbered
  <2>3. LatestVersion(f)' = LatestVersion(f)
    BY <2>1 DEF VersionsOf, LatestVersion
  <2> QED  BY <2>2, <2>3
<1> QED  BY <1>3, <1>4, <1>5, <1>6 DEF Numbered

\* Most steps number nothing: they keep filenames, versions and locks.
LEMMA NumberedSame ==
    ASSUME TypeOK, Transacted, Numbered, reviewed' = reviewed,
           NEW d \in Docs, NEW x \in Rows, row' = [row EXCEPT ![d] = x],
           x.filename = row[d].filename,
           \A r \in Reviewers : \/ txn'[r].phase = "none"
                                \/ txn'[r] = txn[r] /\ job'[r].doc = job[r].doc
    PROVE  Numbered'
<1>1. \A e \in Docs : row'[e].filename = row[e].filename
  BY RowWrite
<1>2. \A y \in reviewed : y.doc \in Docs
  BY DEF TypeOK, Sources
<1>3. ASSUME NEW r \in Reviewers, txn'[r].phase # "none"
      PROVE  /\ txn'[r] = txn[r] /\ job'[r].doc = job[r].doc
             /\ row'[job[r].doc].filename = row[job[r].doc].filename
  BY <1>1, <1>3, BusyTyped DEF Transacted, Processes
<1> QED  BY <1>1, <1>2, <1>3, NumberedKept

\* A commit adds the next number of its filename while it holds that lock.
LEMMA CommitNumbered ==
    ASSUME IInv, NEW r \in Reviewers, ApproveCommit(r)
    PROVE  Numbered'
<1> USE DEF IInv
<1>0. PICK d, g, n : /\ d = job[r].doc /\ g = row[d].filename
                     /\ n = LatestVersion(g)
  OBVIOUS
<1>1. PICK x \in Rows, z \in Sources :
        /\ d \in Docs
        /\ txn[r].phase = "numbered"
        /\ row' = [row EXCEPT ![d] = x]
        /\ x.filename = g
        /\ reviewed' = reviewed \cup {z}
        /\ z.doc = d /\ z.version = n + 1
  BY <1>0, CommitEffect
<1>2. \A e \in Docs : row'[e].filename = row[e].filename
  BY <1>0, <1>1, RowWrite
<1>3. /\ g \in Files \cup {None} /\ n \in Nat
      /\ VersionsOf(g) = 1..n
  BY <1>0, <1>1 DEF TypeOK, Rows, Numbered
<1>4. \A y \in reviewed' : y.doc \in Docs
  BY <1>1 DEF TypeOK, Sources
<1>5. VersionsOf(g)' = 1..(n + 1)
  <2>1. VersionsOf(g)' = VersionsOf(g) \cup {n + 1}
    BY <1>0, <1>1, <1>2, <1>4 DEF VersionsOf
  <2> QED  BY <1>3, <2>1
<1>6. LatestVersion(g)' = n + 1
  BY <1>3, <1>5, MaxUpTo DEF LatestVersion
<1>7. ASSUME NEW f, f # g
      PROVE  VersionsOf(f)' = VersionsOf(f) /\ LatestVersion(f)' = LatestVersion(f)
  <2>1. VersionsOf(f)' = VersionsOf(f)
    BY <1>0, <1>1, <1>2, <1>4, <1>7 DEF VersionsOf
  <2> QED  BY <2>1 DEF LatestVersion
<1>8. ASSUME NEW f \in Files \cup {None}
      PROVE  /\ LatestVersion(f)' \in Nat
             /\ VersionsOf(f)' = 1..LatestVersion(f)'
  BY <1>3, <1>5, <1>6, <1>7 DEF Numbered
<1>9. ASSUME NEW y \in reviewed', NEW w \in reviewed',
             row'[y.doc].filename = row'[w.doc].filename, y.version = w.version
      PROVE  y = w
  <2>1. row[y.doc].filename = row[w.doc].filename
    BY <1>2, <1>4, <1>9
  <2>2. \A u \in reviewed : row[u.doc].filename = g => u.version \in 1..n
    BY <1>3 DEF VersionsOf
  <2>3. \A u \in reviewed : row[u.doc].filename = g => u.version # n + 1
    BY <1>3, <2>2
  <2> QED  BY <1>0, <1>1, <1>9, <2>1, <2>3 DEF Numbered
<1>10. /\ txn'[r].phase = "none"
       /\ \A q \in Reviewers : q # r => txn'[q] = txn[q] /\ job'[q] = job[q]
  <2>1. txn' = [txn EXCEPT ![r] = NoTxn] /\ job' = [job EXCEPT ![r] = NoJob]
    BY DEF ApproveCommit, EndSession
  <2> QED  BY <2>1, TxnWrite, JobWrite, NoJobTyped DEF NoTxn, Processes
<1>11. ASSUME NEW q \in Reviewers, txn'[q].phase # "none"
       PROVE  /\ q # r /\ txn'[q] = txn[q] /\ job'[q] = job[q]
              /\ job[q].doc \in Docs
              /\ row'[job[q].doc].filename = row[job[q].doc].filename
  BY <1>2, <1>10, <1>11, BusyTyped DEF Transacted, Processes
<1>12. ASSUME NEW q \in Reviewers, NEW s \in Reviewers, q # s,
              txn'[q].phase \in {"locked", "numbered"},
              txn'[s].phase \in {"locked", "numbered"}
       PROVE  row'[job'[q].doc].filename # row'[job'[s].doc].filename
  BY <1>11, <1>12 DEF Numbered
<1>13. ASSUME NEW q \in Reviewers, txn'[q].phase = "numbered"
       PROVE  (txn[q].version = LatestVersion(row[job[q].doc].filename) + 1)'
  <2>1. PICK f : f = row[job[q].doc].filename
    OBVIOUS
  <2>2. f = row'[job'[q].doc].filename
    BY <1>11, <1>13, <2>1
  <2>3. f # g
    BY <1>0, <1>1, <1>11, <1>13, <2>1 DEF Numbered
  <2>4. LatestVersion(f)' = LatestVersion(f)
    BY <2>3, <1>7
  <2>5. txn'[q].version = LatestVersion(f) + 1
    BY <1>11, <1>13, <2>1 DEF Numbered
  <2> QED  BY <2>2, <2>4, <2>5
<1> QED  BY <1>8, <1>9, <1>12, <1>13 DEF Numbered

\* Every step keeps the numbering of every filename.
LEMMA NumberedStep == IInv /\ [Next]_vars => Numbered'
<1> SUFFICES ASSUME IInv, [Next]_vars PROVE Numbered'
  OBVIOUS
<1> USE DEF IInv
<1>0. ASSUME NEW r \in Reviewers, txn[r].phase # "none"
      PROVE  r \in Processes /\ Busy(r) /\ Holds(r) /\ job[r].doc \in Docs
  BY <1>0, BusyTyped DEF Transacted, Processes
<1>1. ASSUME NEW d \in Docs, NEW f \in Files, Land(d, f) PROVE Numbered'
  <2>1. PICK x \in Rows : row[d].state = "absent" /\ row' = [row EXCEPT ![d] = x]
    BY <1>1, LandEffect
  <2>2. \A e \in Docs : e # d => row'[e] = row[e]
    BY <2>1, RowWrite
  <2>3. \A y \in reviewed : y.doc \in Docs /\ y.doc # d
    BY <2>1 DEF Sourced, SourcesOf, TypeOK, Sources
  <2>4. \A r \in Reviewers : txn[r].phase # "none" => job[r].doc # d
    BY <1>0, <2>1 DEF Fenced
  <2>5. job' = job /\ txn' = txn /\ reviewed' = reviewed
    BY <1>1 DEF Land
  <2> QED  BY <1>0, <2>2, <2>3, <2>4, <2>5, NumberedKept
<1>2. ASSUME NEW p \in Processes, NEW s \in StagesOf(p), Claim(p, s) PROVE Numbered'
  <2>1. PICK d \in Docs, j \in Jobs :
            /\ Claimed(row[d], p) \in Rows
            /\ row' = [row EXCEPT ![d] = Claimed(row[d], p)]
            /\ job' = [job EXCEPT ![p] = j]
    BY <1>2, ClaimEffect
  <2>2. Claimed(row[d], p).filename = row[d].filename
    BY ClaimedFields DEF TypeOK
  <2>3. \A q \in Processes : q # p => job'[q] = job[q]
    BY <2>1, JobWrite
  <2>4. ~Busy(p) /\ txn' = txn /\ reviewed' = reviewed
    BY <1>2 DEF Claim
  <2>5. \A r \in Reviewers : \/ txn'[r].phase = "none"
                             \/ txn'[r] = txn[r] /\ job'[r].doc = job[r].doc
    BY <1>0, <2>3, <2>4
  <2> QED  BY <2>1, <2>2, <2>4, <2>5, NumberedSame
<1>3. ASSUME NEW w \in Workers, ReadSource(w) PROVE Numbered'
  <2>1. \A r \in Reviewers : r # w
    BY ProcessAssumption
  <2>2. /\ row' = row /\ txn' = txn /\ reviewed' = reviewed
        /\ \A r \in Reviewers : job'[r] = job[r]
    BY <1>3, <2>1 DEF ReadSource, TypeOK, Processes
  <2> QED  BY <2>2, NumberedKept
<1>4. ASSUME NEW w \in Workers, NEW x \in Rows, Release(w, x), Outcome(w, x)
      PROVE  Numbered'
  <2>1. w \in Processes /\ \A r \in Reviewers : r # w /\ r \in Processes
    BY ProcessAssumption DEF Processes
  <2>2. /\ Busy(w) /\ reviewed' = reviewed /\ txn' = txn
        /\ row' = [row EXCEPT ![job[w].doc] = x]
        /\ job' = [job EXCEPT ![w] = NoJob]
    BY <1>4 DEF Release
  <2>3. job[w].doc \in Docs /\ x.filename = row[job[w].doc].filename
    BY <1>4, <2>1, <2>2, BusyTyped DEF Outcome
  <2>4. \A r \in Reviewers : job'[r] = job[r]
    BY <2>1, <2>2, JobWrite, NoJobTyped
  <2> QED  BY <2>2, <2>3, <2>4, NumberedSame
<1>5. ASSUME NEW r \in Reviewers, NEW t \in Texts, NEW h \in Headers, SaveEdit(r, t, h)
      PROVE  Numbered'
  <2>1. PICK x \in Rows, j \in Jobs :
          /\ job[r].doc \in Docs
          /\ row' = [row EXCEPT ![job[r].doc] = x]
          /\ x.filename = row[job[r].doc].filename
          /\ job' = [job EXCEPT ![r] = j] /\ j.doc = job[r].doc
    BY <1>5, SaveEffect
  <2>2. \A q \in Reviewers : job'[q].doc = job[q].doc
    BY <2>1, JobWrite DEF Processes
  <2>3. txn' = txn /\ reviewed' = reviewed
    BY <1>5 DEF SaveEdit
  <2> QED  BY <2>1, <2>2, <2>3, NumberedSame
<1>6. ASSUME NEW r \in Reviewers, ApproveBegin(r) \/ ApproveLock(r) \/ ApproveNumber(r)
      PROVE  Numbered'
  <2>1. PICK t \in Txns :
          /\ txn' = [txn EXCEPT ![r] = t]
          /\ \/ t.phase = "row"
             \/ /\ t.phase = "locked"
                /\ LineageFree(row[job[r].doc].filename)
             \/ /\ t.phase = "numbered" /\ txn[r].phase = "locked"
                /\ t.version = LatestVersion(row[job[r].doc].filename) + 1
    BY <1>6, BeginEffect, LockEffect, NumberEffect DEF ApproveLock
  <2>2. txn'[r] = t /\ \A q \in Reviewers : q # r => txn'[q] = txn[q]
    BY <2>1, TxnWrite
  <2>3. row' = row /\ job' = job /\ reviewed' = reviewed
    BY <1>6 DEF ApproveBegin, ApproveLock, ApproveNumber
  <2> QED  BY <2>1, <2>2, <2>3, NumberedKept
<1>7. ASSUME NEW p \in Processes,
             \/ p \in Workers /\ GivesUp(p)
             \/ p \in Reviewers /\ (TurnedAway(p) \/ ApproveRollback(p))
             \/ Crash(p)
      PROVE  Numbered'
  <2>1. /\ job' = [job EXCEPT ![p] = NoJob] /\ row' = row /\ reviewed' = reviewed
        /\ \A r \in Reviewers : \/ txn'[r] = NoTxn
                                \/ r # p /\ txn'[r] = txn[r]
                                \/ txn'[r] = txn[r] /\ txn[r].phase = "none"
    BY <1>7, DropEffect
  <2>2. \A q \in Processes : q # p => job'[q] = job[q]
    BY <2>1, JobWrite, NoJobTyped
  <2>3. ASSUME NEW r \in Reviewers, txn'[r].phase # "none"
        PROVE  txn'[r] = txn[r] /\ job'[r] = job[r]
    BY <2>1, <2>2, <2>3 DEF NoTxn, Processes
  <2> QED  BY <2>1, <2>3, NumberedKept
<1>8. ASSUME NEW d \in Docs, Expire(d) \/ BackoffElapses(d) PROVE Numbered'
  <2>1. PICK x \in Rows : /\ row' = [row EXCEPT ![d] = x]
                          /\ x.filename = row[d].filename
    BY <1>8, ClockEffect
  <2>2. job' = job /\ txn' = txn /\ reviewed' = reviewed
    BY <1>8 DEF Expire, BackoffElapses
  <2> QED  BY <2>1, <2>2, NumberedSame
<1>9. CASE UNCHANGED vars
  BY <1>9, NumberedKept DEF vars
<1> QED
  BY <1>1, <1>2, <1>3, <1>4, <1>5, <1>6, <1>7, <1>8, <1>9, CommitNumbered, WorkCases
     DEF Next, Internal, Approve, Processes

-----------------------------------------------------------------------------
(* Evidence *)

\* The states before review gate 1, and those after it.
PreGate == {"absent", "landed", "extracted", "parsed", "awaiting_review"}

PostGate == {"content_approved", "compiled", "awaiting_merge_confirm", "persisted"}

\* As long as nothing is approved, Sourced needs that no row crosses the gate,
\* that an approved row keeps its content, and that a new graph or a newly read
\* version cites a Reviewed Source.
LEMMA SourcedKept ==
    ASSUME TypeOK, Sourced, reviewed' = reviewed,
           \A d \in Docs :
               /\ row'[d].state \in PreGate =>
                     row[d].state \in PreGate /\ row'[d].graph = row[d].graph
               /\ row'[d].state \in PostGate =>
                     /\ row[d].state \in PostGate
                     /\ row'[d].body = row[d].body
                     /\ row'[d].header = row[d].header
               /\ \/ row'[d].graph = row[d].graph
                  \/ \E x \in SourcesOf(d) : /\ x.version = row'[d].graph.source
                                             /\ x.text = row'[d].graph.text
                                             /\ x.header = row'[d].graph.header,
           \A p \in Processes :
               \/ job'[p].source = 0
               \/ job'[p].doc = job[p].doc /\ job'[p].source = job[p].source
               \/ \E x \in SourcesOf(job'[p].doc) : x.version = job'[p].source
    PROVE  Sourced'
<1>1. \A d : SourcesOf(d)' = SourcesOf(d)
  BY DEF SourcesOf
<1>2. ASSUME NEW d \in Docs
      PROVE  /\ row'[d].state \in PreGate =>
                   SourcesOf(d)' = {} /\ row'[d].graph = None
             /\ row'[d].state \in PostGate =>
                   \E x \in SourcesOf(d)' :
                       x.text = row'[d].body /\ x.header = row'[d].header
             /\ row'[d].graph # None =>
                   \E x \in SourcesOf(d)' :
                       /\ x.version = row'[d].graph.source
                       /\ x.text = row'[d].graph.text
                       /\ x.header = row'[d].graph.header
  BY <1>1 DEF Sourced, PreGate, PostGate
<1>3. ASSUME NEW p \in Processes, job'[p].source # 0
      PROVE  \E x \in reviewed' : x.doc = job'[p].doc /\ x.version = job'[p].source
  BY <1>3 DEF Sourced, SourcesOf
<1> QED  BY <1>2, <1>3 DEF Sourced, PreGate, PostGate, SourcesOf


\* The version an approval freezes is the document's only one.
LEMMA CommitSourced ==
    ASSUME IInv, NEW r \in Reviewers, ApproveCommit(r)
    PROVE  Sourced'
<1> USE DEF IInv
<1>0. PICK d : d = job[r].doc
  OBVIOUS
<1>1. PICK x \in Rows, z \in Sources :
        /\ d \in Docs
        /\ row[d].state = "awaiting_review"
        /\ row' = [row EXCEPT ![d] = x]
        /\ x.state = "content_approved" /\ x.graph = row[d].graph
        /\ x.body = row[d].body /\ x.header = row[d].header
        /\ reviewed' = reviewed \cup {z}
        /\ z.doc = d
        /\ z.text = row[d].body /\ z.header = row[d].header
  BY <1>0, CommitEffect
<1>2. row'[d] = x /\ \A e \in Docs : e # d => row'[e] = row[e]
  BY <1>1, RowWrite
<1>3. SourcesOf(d) = {} /\ row[d].graph = None
  BY <1>1 DEF Sourced
<1>4. SourcesOf(d)' = {z}
  BY <1>1, <1>3 DEF SourcesOf
<1>5. ASSUME NEW e, e # d PROVE SourcesOf(e)' = SourcesOf(e)
  BY <1>1, <1>5 DEF SourcesOf
<1>6. \A y, w \in reviewed' : y.doc = w.doc => y = w
  BY <1>1, <1>3 DEF Sourced, SourcesOf
<1>7. ASSUME NEW e \in Docs
      PROVE  /\ row'[e].state \in PreGate =>
                   SourcesOf(e)' = {} /\ row'[e].graph = None
             /\ row'[e].state \in PostGate =>
                   \E y \in SourcesOf(e)' :
                       y.text = row'[e].body /\ y.header = row'[e].header
             /\ row'[e].graph # None =>
                   \E y \in SourcesOf(e)' :
                       /\ y.version = row'[e].graph.source
                       /\ y.text = row'[e].graph.text
                       /\ y.header = row'[e].graph.header
  <2>1. CASE e = d
    BY <2>1, <1>1, <1>2, <1>3, <1>4 DEF PreGate, PostGate
  <2>2. CASE e # d
    BY <2>2, <1>2, <1>5 DEF Sourced, PreGate, PostGate
  <2> QED  BY <2>1, <2>2
<1>8. ASSUME NEW p \in Processes, job'[p].source # 0
      PROVE  \E y \in reviewed' : y.doc = job'[p].doc /\ y.version = job'[p].source
  <2>1. job' = [job EXCEPT ![r] = NoJob] /\ r \in Processes
    BY DEF ApproveCommit, EndSession, Processes
  <2>2. p # r /\ job'[p] = job[p]
    BY <2>1, <1>8, JobWrite, NoJobTyped DEF NoJob
  <2> QED  BY <2>2, <1>1, <1>8 DEF Sourced, SourcesOf
<1> QED  BY <1>6, <1>7, <1>8 DEF Sourced, PreGate, PostGate, SourcesOf

\* Every step keeps a document's Reviewed Source unique and true.
LEMMA SourcedStep == IInv /\ [Next]_vars => Sourced'
<1> SUFFICES ASSUME IInv, [Next]_vars PROVE Sourced'
  OBVIOUS
<1> USE DEF IInv
<1>1. ASSUME NEW d \in Docs, NEW f \in Files, Land(d, f) PROVE Sourced'
  <2>1. PICK x \in Rows :
          /\ row[d].state = "absent"
          /\ row' = [row EXCEPT ![d] = x]
          /\ x.state = "landed" /\ x.graph = None
    BY <1>1, LandEffect
  <2>2. row'[d] = x /\ \A e \in Docs : e # d => row'[e] = row[e]
    BY <2>1, RowWrite
  <2>3. row[d].graph = None
    BY <2>1 DEF Sourced
  <2>4. job' = job /\ reviewed' = reviewed
    BY <1>1 DEF Land
  <2> QED  BY <2>1, <2>2, <2>3, <2>4, SourcedKept DEF PreGate, PostGate
<1>2. ASSUME NEW p \in Processes, NEW s \in StagesOf(p), Claim(p, s) PROVE Sourced'
  <2>1. PICK d \in Docs, j \in Jobs :
            /\ Claimed(row[d], p) \in Rows
            /\ row' = [row EXCEPT ![d] = Claimed(row[d], p)]
            /\ job' = [job EXCEPT ![p] = j] /\ j.source = 0
    BY <1>2, ClaimEffect
  <2>2. /\ Claimed(row[d], p).state = row[d].state
        /\ Claimed(row[d], p).graph = row[d].graph
        /\ Claimed(row[d], p).body = row[d].body
        /\ Claimed(row[d], p).header = row[d].header
    BY ClaimedFields DEF TypeOK
  <2>3. /\ row'[d] = Claimed(row[d], p)
        /\ \A e \in Docs : e # d => row'[e] = row[e]
    BY <2>1, RowWrite
  <2>4. job'[p] = j /\ \A q \in Processes : q # p => job'[q] = job[q]
    BY <2>1, JobWrite
  <2>5. reviewed' = reviewed
    BY <1>2 DEF Claim
  <2> QED  BY <2>1, <2>2, <2>3, <2>4, <2>5, SourcedKept
<1>3. ASSUME NEW w \in Workers, ReadSource(w) PROVE Sourced'
  <2>1. job[w] \in Jobs /\ w \in Processes /\ row' = row /\ reviewed' = reviewed
    BY <1>3 DEF TypeOK, Processes, ReadSource
  <2>2. PICK x \in reviewed : SourcesOf(job[w].doc) = {x}
    BY <1>3 DEF ReadSource, SourcesOf, Sourced
  <2>3. LatestSource(job[w].doc) = x
    BY <2>2 DEF LatestSource, TypeOK, Sources
  <2>4. job' = [job EXCEPT ![w] = [job[w] EXCEPT !.source = x.version]]
    BY <1>3, <2>1, <2>3 DEF ReadSource, TypeOK
  <2>5. /\ job'[w].doc = job[w].doc /\ job'[w].source = x.version
        /\ \A q \in Processes : q # w => job'[q] = job[q]
    BY <2>1, <2>4 DEF TypeOK, Jobs
  <2> QED  BY <2>1, <2>2, <2>5, SourcedKept
<1>4. ASSUME NEW w \in Workers, NEW x \in Rows, Release(w, x), Outcome(w, x)
      PROVE  Sourced'
  <2>0. PICK d : d = job[w].doc
    OBVIOUS
  <2>1. w \in Processes /\ d \in Docs /\ Busy(w) /\ Holds(w)
    BY <1>4, <2>0, BusyTyped DEF Release, Processes
  <2>2. /\ row' = [row EXCEPT ![d] = x]
        /\ job' = [job EXCEPT ![w] = NoJob]
        /\ reviewed' = reviewed
    BY <1>4, <2>0 DEF Release
  <2>3. row'[d] = x /\ \A e \in Docs : e # d => row'[e] = row[e]
    BY <2>1, <2>2, RowWrite
  <2>4. \A q \in Processes : job'[q].source = 0 \/ job'[q] = job[q]
    BY <2>1, <2>2, JobWrite, NoJobTyped DEF NoJob
  <2>5. /\ row[d].state = job[w].stage
        /\ row[d].body = job[w].text /\ row[d].header = job[w].header
    BY <2>0, <2>1 DEF Viewed
  <2>6. /\ x.state \in PreGate => row[d].state \in PreGate /\ x.graph = row[d].graph
        /\ x.state \in PostGate => /\ row[d].state \in PostGate
                                   /\ x.body = row[d].body
                                   /\ x.header = row[d].header
    BY <1>4, <2>0, <2>5 DEF Outcome, PreGate, PostGate
  <2>7. \/ x.graph = row[d].graph
        \/ \E y \in SourcesOf(d) : /\ y.version = x.graph.source
                                   /\ y.text = x.graph.text
                                   /\ y.header = x.graph.header
    <3>1. CASE x.graph # row[d].graph
      <4>1. /\ row[d].state = "content_approved"
            /\ x.graph = [text |-> job[w].text, header |-> job[w].header,
                          source |-> job[w].source]
            /\ job[w].source # 0
        BY <1>4, <3>1, <2>0, <2>5 DEF Outcome
      <4>2. PICK y \in SourcesOf(d) : y.text = row[d].body /\ y.header = row[d].header
        BY <2>1, <4>1 DEF Sourced
      <4>3. PICK z \in SourcesOf(d) : z.version = job[w].source
        BY <2>0, <2>1, <4>1 DEF Sourced
      <4>4. y = z
        BY <4>2, <4>3 DEF Sourced, SourcesOf
      <4> QED  BY <4>1, <4>2, <4>3, <4>4, <2>5
    <3> QED  BY <3>1
  <2> QED  BY <2>2, <2>3, <2>4, <2>6, <2>7, SourcedKept
<1>5. ASSUME NEW r \in Reviewers, NEW t \in Texts, NEW h \in Headers, SaveEdit(r, t, h)
      PROVE  Sourced'
  <2>0. PICK d : d = job[r].doc
    OBVIOUS
  <2>1. PICK x \in Rows, j \in Jobs :
          /\ d \in Docs
          /\ row' = [row EXCEPT ![d] = x]
          /\ x.state = row[d].state /\ x.graph = row[d].graph
          /\ job' = [job EXCEPT ![r] = j] /\ j.doc = d /\ j.source = job[r].source
    BY <1>5, <2>0, SaveEffect
  <2>2. row'[d] = x /\ \A e \in Docs : e # d => row'[e] = row[e]
    BY <2>1, RowWrite
  <2>3. \A q \in Processes : job'[q].doc = job[q].doc /\ job'[q].source = job[q].source
    BY <2>0, <2>1, JobWrite DEF Processes
  <2>4. row[d].state = "awaiting_review" /\ reviewed' = reviewed
    BY <1>5, <2>0 DEF SaveEdit, HoldsLive
  <2> QED  BY <2>1, <2>2, <2>3, <2>4, SourcedKept DEF PostGate
<1>6. ASSUME NEW r \in Reviewers, ApproveBegin(r) \/ ApproveLock(r) \/ ApproveNumber(r)
      PROVE  Sourced'
  <2>1. row' = row /\ job' = job /\ reviewed' = reviewed
    BY <1>6 DEF ApproveBegin, ApproveLock, ApproveNumber
  <2> QED  BY <2>1, SourcedKept
<1>7. ASSUME NEW p \in Processes,
             \/ p \in Workers /\ GivesUp(p)
             \/ p \in Reviewers /\ (TurnedAway(p) \/ ApproveRollback(p))
             \/ Crash(p)
      PROVE  Sourced'
  <2>1. /\ job' = [job EXCEPT ![p] = NoJob] /\ row' = row /\ reviewed' = reviewed
    BY <1>7, DropEffect
  <2>2. \A q \in Processes : job'[q].source = 0 \/ job'[q] = job[q]
    BY <2>1, JobWrite, NoJobTyped DEF NoJob
  <2> QED  BY <2>1, <2>2, SourcedKept
<1>8. ASSUME NEW d \in Docs, Expire(d) \/ BackoffElapses(d) PROVE Sourced'
  <2>1. PICK x \in Rows :
          /\ row' = [row EXCEPT ![d] = x]
          /\ x.state = row[d].state /\ x.graph = row[d].graph
          /\ x.body = row[d].body /\ x.header = row[d].header
    BY <1>8, ClockEffect
  <2>2. row'[d] = x /\ \A e \in Docs : e # d => row'[e] = row[e]
    BY <2>1, RowWrite
  <2>3. job' = job /\ reviewed' = reviewed
    BY <1>8 DEF Expire, BackoffElapses
  <2> QED  BY <2>1, <2>2, <2>3, SourcedKept
<1>9. CASE UNCHANGED vars
  BY <1>9, SourcedKept DEF vars
<1> QED
  BY <1>1, <1>2, <1>3, <1>4, <1>5, <1>6, <1>7, <1>8, <1>9, CommitSourced, WorkCases
     DEF Next, Internal, Approve, Processes

-----------------------------------------------------------------------------
(* Attempts *)

\* RetryBudget of one row.
InBudget(x) ==
    /\ x.state # "failed" => x.attempts < MaxAttempts
    /\ x.attempts <= MaxAttempts
    /\ x.state \in {"parsed", "awaiting_review"} =>
           x.attempts = 0 /\ x.retryAt = "null"

\* Writing a row that is in budget keeps every row in budget.
LEMMA BudgetKept ==
    ASSUME TypeOK, RetryBudget, NEW d \in Docs, NEW x \in Rows,
           row' = [row EXCEPT ![d] = x], InBudget(x)
    PROVE  RetryBudget'
<1>1. \A e \in Docs : InBudget(row'[e])
  BY RowWrite DEF RetryBudget, InBudget
<1> QED  BY <1>1 DEF RetryBudget, InBudget

\* Every step keeps every row in budget.
LEMMA BudgetStep == IInv /\ [Next]_vars => RetryBudget'
<1> SUFFICES ASSUME IInv, [Next]_vars PROVE RetryBudget'
  OBVIOUS
<1> USE DEF IInv
<1>0. \A d \in Docs : InBudget(row[d]) /\ row[d].attempts \in Nat
  BY DEF RetryBudget, InBudget, TypeOK, Rows
<1>1. ASSUME NEW d \in Docs, NEW f \in Files, Land(d, f) PROVE RetryBudget'
  <2>1. PICK x \in Rows :
          /\ row' = [row EXCEPT ![d] = x]
          /\ x.attempts = 0 /\ x.retryAt = "null"
    BY <1>1, LandEffect
  <2>2. InBudget(x)
    BY <2>1, BudgetAssumption DEF InBudget
  <2> QED  BY <2>1, <2>2, BudgetKept
<1>2. ASSUME NEW p \in Processes, NEW s \in StagesOf(p), Claim(p, s) PROVE RetryBudget'
  <2>1. PICK d \in Docs :
            /\ Claimed(row[d], p) \in Rows
            /\ row' = [row EXCEPT ![d] = Claimed(row[d], p)]
    BY <1>2, ClaimEffect
  <2>2. /\ Claimed(row[d], p).state = row[d].state
        /\ Claimed(row[d], p).attempts = row[d].attempts
        /\ Claimed(row[d], p).retryAt = row[d].retryAt
    BY ClaimedFields DEF TypeOK
  <2>3. InBudget(Claimed(row[d], p))
    BY <1>0, <2>2 DEF InBudget
  <2> QED  BY <2>1, <2>3, BudgetKept
<1>3. ASSUME NEW w \in Workers, NEW x \in Rows, Release(w, x), Outcome(w, x)
      PROVE  RetryBudget'
  <2>0. PICK d : d = job[w].doc
    OBVIOUS
  <2>1. /\ d \in Docs
        /\ row' = [row EXCEPT ![d] = x]
        /\ row[d].state = job[w].stage
    BY <1>3, <2>0, BusyTyped DEF Release, Viewed, Processes
  <2>2. InBudget(row[d]) /\ row[d].attempts \in Nat
    BY <1>0, <2>1
  <2>3. InBudget(x)
    BY <1>3, <2>0, <2>1, <2>2, BudgetAssumption DEF Outcome, InBudget
  <2> QED  BY <2>1, <2>3, BudgetKept
<1>4. ASSUME NEW r \in Reviewers, NEW t \in Texts, NEW h \in Headers, SaveEdit(r, t, h)
      PROVE  RetryBudget'
  <2>0. PICK d : d = job[r].doc
    OBVIOUS
  <2>1. PICK x \in Rows :
          /\ d \in Docs
          /\ row' = [row EXCEPT ![d] = x]
          /\ x.state = row[d].state
          /\ x.attempts = row[d].attempts /\ x.retryAt = row[d].retryAt
    BY <1>4, <2>0, SaveEffect
  <2>2. InBudget(x)
    BY <1>0, <2>1 DEF InBudget
  <2> QED  BY <2>1, <2>2, BudgetKept
<1>5. ASSUME NEW r \in Reviewers, ApproveCommit(r) PROVE RetryBudget'
  <2>0. PICK d : d = job[r].doc
    OBVIOUS
  <2>1. PICK x \in Rows :
          /\ d \in Docs
          /\ row[d].state = "awaiting_review"
          /\ row' = [row EXCEPT ![d] = x]
          /\ x.state = "content_approved"
          /\ x.attempts = row[d].attempts
    BY <1>5, <2>0, CommitEffect
  <2>2. InBudget(x)
    BY <1>0, <2>1 DEF InBudget
  <2> QED  BY <2>1, <2>2, BudgetKept
<1>6. ASSUME NEW d \in Docs, Expire(d) \/ BackoffElapses(d) PROVE RetryBudget'
  <2>1. PICK x \in Rows :
          /\ row' = [row EXCEPT ![d] = x]
          /\ x.state = row[d].state /\ x.attempts = row[d].attempts
          /\ x.retryAt = row[d].retryAt \/ row[d].retryAt = "future"
    BY <1>6, ClockEffect
  <2>2. InBudget(x)
    BY <1>0, <2>1 DEF InBudget
  <2> QED  BY <2>1, <2>2, BudgetKept
<1>7. CASE row' = row
  BY <1>7 DEF RetryBudget
<1>8. ASSUME NEW w \in Workers, ReadSource(w) \/ GivesUp(w) PROVE row' = row
  BY <1>8 DEF ReadSource, GivesUp, LostLease, Refused
<1>9. ASSUME NEW r \in Reviewers,
             \/ TurnedAway(r) \/ ApproveBegin(r) \/ ApproveLock(r)
             \/ ApproveNumber(r) \/ ApproveRollback(r)
      PROVE  row' = row
  BY <1>9 DEF TurnedAway, ApproveBegin, ApproveLock, ApproveNumber, ApproveRollback
<1>10. ASSUME NEW p \in Processes, Crash(p) PROVE row' = row
  BY <1>10 DEF Crash
<1>11. CASE UNCHANGED vars
  BY <1>7, <1>11 DEF vars
<1> QED
  BY <1>1, <1>2, <1>3, <1>4, <1>5, <1>6, <1>7, <1>8, <1>9, <1>10, <1>11, WorkCases
     DEF Next, Internal, Approve

-----------------------------------------------------------------------------
(* The invariant *)

\* Nothing is claimed, approved or compiled before the first landing.
LEMMA InvInit == Init => IInv
<1> SUFFICES ASSUME Init PROVE IInv
  OBVIOUS
<1>1. TypeOK
  BY TypeInit
<1>2. \A p \in Processes : ~Busy(p) /\ job[p].source = 0
  BY DEF Init, Busy, NoJob
<1>3. \A r \in Reviewers : txn[r].phase = "none"
  BY DEF Init, NoTxn
<1>4. Fenced /\ Viewed /\ Transacted
  BY <1>2, <1>3 DEF Fenced, Viewed, Transacted
<1>5. \A d \in Docs : row[d] = AbsentRow
  BY DEF Init
<1>6. Bodied /\ RetryBudget
  BY <1>5, BudgetAssumption DEF Bodied, RetryBudget, AbsentRow
<1>7. Sourced
  BY <1>2, <1>5 DEF Sourced, SourcesOf, AbsentRow, Init
<1>8. \A f : VersionsOf(f) = {} /\ LatestVersion(f) = 0
  BY DEF Init, VersionsOf, LatestVersion, MaxOrZero
<1>9. Numbered
  <2>1. {} = 1..0
    OBVIOUS
  <2>2. \A f : LatestVersion(f) \in Nat /\ VersionsOf(f) = 1..LatestVersion(f)
    BY <1>8, <2>1
  <2> QED  BY <1>3, <2>2 DEF Numbered, Init
<1> QED  BY <1>1, <1>4, <1>6, <1>7, <1>9 DEF IInv

\* Every step keeps the invariant.
LEMMA InvStep == IInv /\ [Next]_vars => IInv'
BY TypeStep, FencedStep, ViewedStep, BodiedStep, TransactedStep, NumberedStep,
   SourcedStep, BudgetStep DEF IInv

\* Nothing but an arrival gives a row a filename or makes one.
RowsStay == \A e \in Docs : /\ row'[e].filename = row[e].filename
                            /\ row[e].state = "absent" <=> row'[e].state = "absent"

\* Whatever happens to a row, it stays and keeps its filename.
LEMMA NamesKept == IInv /\ Internal => RowsStay
<1> SUFFICES ASSUME IInv, Internal PROVE RowsStay
  OBVIOUS
<1> USE DEF IInv
<1>1. ASSUME NEW d \in Docs, NEW x \in Rows, row' = [row EXCEPT ![d] = x],
             x.filename = row[d].filename, row[d].state = "absent" <=> x.state = "absent"
      PROVE  RowsStay
  BY <1>1, RowWrite DEF RowsStay
<1>2. ASSUME NEW p \in Processes, Busy(p)
      PROVE  job[p].doc \in Docs /\ row[job[p].doc].state # "absent"
  BY <1>2, BusyTyped DEF Fenced
<1>3. ASSUME NEW p \in Processes, NEW s \in StagesOf(p), Claim(p, s)
      PROVE  RowsStay
  <2>1. PICK d \in Docs : /\ Claimed(row[d], p) \in Rows
                         /\ row' = [row EXCEPT ![d] = Claimed(row[d], p)]
    BY <1>3, ClaimEffect
  <2>2. /\ Claimed(row[d], p).filename = row[d].filename
        /\ Claimed(row[d], p).state = row[d].state
    BY ClaimedFields DEF TypeOK
  <2> QED  BY <1>1, <2>1, <2>2
<1>4. ASSUME NEW w \in Workers, NEW x \in Rows, Release(w, x), Outcome(w, x)
      PROVE  RowsStay
  <2>1. w \in Processes /\ Busy(w) /\ row' = [row EXCEPT ![job[w].doc] = x]
    BY <1>4 DEF Release, Processes
  <2>2. x.filename = row[job[w].doc].filename /\ x.state # "absent"
    BY <1>2, <1>4, <2>1 DEF Outcome
  <2> QED  BY <1>1, <1>2, <2>1, <2>2
<1>5. ASSUME NEW r \in Reviewers, NEW t \in Texts, NEW h \in Headers, SaveEdit(r, t, h)
      PROVE  RowsStay
  BY <1>1, <1>5, SaveEffect
<1>6. ASSUME NEW r \in Reviewers, ApproveCommit(r)
      PROVE  RowsStay
  BY <1>1, <1>6, CommitEffect
<1>7. ASSUME NEW d \in Docs, Expire(d) \/ BackoffElapses(d)
      PROVE  RowsStay
  BY <1>1, <1>7, ClockEffect
<1>8. ASSUME row' = row
      PROVE  RowsStay
  BY <1>8 DEF RowsStay
<1>9. ASSUME NEW w \in Workers, Work(w)
      PROVE  RowsStay
  BY <1>4, <1>8, <1>9, WorkCases DEF ReadSource, GivesUp, LostLease, Refused
<1>10. ASSUME NEW r \in Reviewers,
              \/ TurnedAway(r) \/ ApproveBegin(r)
              \/ ApproveLock(r) \/ ApproveNumber(r) \/ ApproveRollback(r)
       PROVE  row' = row
  BY <1>10 DEF TurnedAway, ApproveBegin, ApproveLock, ApproveNumber, ApproveRollback
<1>11. ASSUME NEW p \in Processes, Crash(p)
       PROVE  row' = row
  BY <1>11 DEF Crash
<1> QED
  BY <1>3, <1>5, <1>6, <1>7, <1>8, <1>9, <1>10, <1>11 DEF Internal, Approve

\* The inductive invariant holds in every reachable state.
THEOREM Invariant == Spec => []IInv
BY InvInit, InvStep, PTL DEF Spec

\* Every column and every process keeps its type (the CHECK constraints of
\* schema.sql included).
THEOREM TypeCorrect == Spec => []TypeOK
<1>1. IInv => TypeOK
  BY DEF IInv
<1> QED  BY <1>1, Invariant, PTL

\* The lease token tells every claim from every other: no two processes pass
\* the fence of one row, however leases expire and sessions share a worker_id.
THEOREM Fencing == Spec => []FenceUnique
<1>1. IInv => FenceUnique
  <2> SUFFICES ASSUME IInv, NEW p \in Processes, NEW q \in Processes, p # q,
                      Busy(p), job[p].doc = job[q].doc, Holds(p), Holds(q)
               PROVE  FALSE
    BY DEF FenceUnique
  <2> QED  BY DEF IInv, Fenced, Holds
<1> QED  BY <1>1, Invariant, PTL

\* No document is retried beyond MAX_ATTEMPTS, and the stages that neither
\* count nor reset attempts never carry any.
THEOREM Budget == Spec => []RetryBudget
<1>1. IInv => RetryBudget
  BY DEF IInv
<1> QED  BY <1>1, Invariant, PTL

\* Concurrent approvals of one filename number its versions without gap or
\* duplicate.
THEOREM Lineage == Spec => []LineageVersions
<1>1. IInv => LineageVersions
  <2> SUFFICES ASSUME IInv PROVE LineageVersions
    OBVIOUS
  <2> USE DEF IInv
  <2>1. ASSUME NEW x \in reviewed, x.version > 1
        PROVE  \E y \in reviewed : /\ row[y.doc].filename = row[x.doc].filename
                                   /\ y.version = x.version - 1
    <3>1. PICK f, n : f = row[x.doc].filename /\ n = LatestVersion(f)
      OBVIOUS
    <3>2. /\ x.doc \in Docs /\ x.version \in Nat
          /\ f \in Files \cup {None}
      BY <3>1 DEF TypeOK, Sources, Rows
    <3>3. VersionsOf(f) = 1..n /\ n \in Nat
      BY <3>1, <3>2 DEF Numbered
    <3>4. x.version \in VersionsOf(f)
      BY <3>1 DEF VersionsOf
    <3>5. x.version - 1 \in VersionsOf(f)
      BY <2>1, <3>2, <3>3, <3>4
    <3> QED  BY <3>1, <3>5 DEF VersionsOf
  <2> QED  BY <2>1 DEF LineageVersions, Numbered
<1> QED  BY <1>1, Invariant, PTL

\* A document past review has one Reviewed Source, equal to its row, and its
\* compiled graph cites it.
THEOREM Evidence == Spec => []EvidenceRoot
<1>1. IInv => EvidenceRoot
  <2> SUFFICES ASSUME IInv, NEW d \in Docs
               PROVE  /\ row[d].state \in PostGate =>
                            \E x \in reviewed :
                                /\ SourcesOf(d) = {x}
                                /\ x.text = row[d].body /\ x.header = row[d].header
                      /\ row[d].graph # None =>
                            \E x \in SourcesOf(d) :
                                /\ x.version = row[d].graph.source
                                /\ x.text = row[d].graph.text
                                /\ x.header = row[d].graph.header
    BY DEF EvidenceRoot, PostGate
  <2> USE DEF IInv
  <2>1. ASSUME NEW x \in SourcesOf(d) PROVE SourcesOf(d) = {x}
    BY DEF Sourced, SourcesOf
  <2> QED  BY <2>1 DEF Sourced, PostGate, SourcesOf
<1> QED  BY <1>1, Invariant, PTL

-----------------------------------------------------------------------------
(* Action properties *)

\* Only a release, a commit and a landing change the state of a row, and each
\* leaves the row failed or with a whole budget.
THEOREM Fresh == Spec => FreshBudget
<1> DEFINE A == \A d \in Docs :
                   row'[d].state \notin {row[d].state, "failed"} =>
                       row'[d].attempts = 0 /\ row'[d].retryAt = "null"
<1>1. IInv /\ [Next]_vars => [A]_vars
  <2> SUFFICES ASSUME IInv, [Next]_vars PROVE A \/ UNCHANGED vars
    OBVIOUS
  <2> USE DEF IInv
  <2>1. ASSUME NEW d \in Docs, NEW x \in Rows, row' = [row EXCEPT ![d] = x],
               \/ x.state \in {row[d].state, "failed"}
               \/ x.attempts = 0 /\ x.retryAt = "null"
        PROVE  A
    BY <2>1, RowWrite
  <2>2. ASSUME NEW d \in Docs, NEW f \in Files, Land(d, f) PROVE A
    BY <2>1, <2>2, LandEffect
  <2>3. ASSUME NEW p \in Processes, NEW s \in StagesOf(p), Claim(p, s) PROVE A
    <3>1. PICK d \in Docs : /\ Claimed(row[d], p) \in Rows
                            /\ row' = [row EXCEPT ![d] = Claimed(row[d], p)]
      BY <2>3, ClaimEffect
    <3>2. Claimed(row[d], p).state = row[d].state
      BY ClaimedFields DEF TypeOK
    <3> QED  BY <2>1, <3>1, <3>2
  <2>4. ASSUME NEW w \in Workers, NEW x \in Rows, Release(w, x), Outcome(w, x) PROVE A
    <3>1. PICK d \in Docs : d = job[w].doc /\ row' = [row EXCEPT ![d] = x]
                            /\ row[d].state = job[w].stage
      BY <2>4, BusyTyped DEF Release, Viewed, Processes
    <3>2. row[d].state = "parsed" => row[d].attempts = 0 /\ row[d].retryAt = "null"
      BY DEF RetryBudget
    <3>3. \/ x.state \in {row[d].state, "failed"}
          \/ x.attempts = 0 /\ x.retryAt = "null"
      BY <2>4, <3>1, <3>2 DEF Outcome
    <3> QED  BY <2>1, <3>1, <3>3
  <2>5. ASSUME NEW r \in Reviewers, NEW t \in Texts, NEW h \in Headers, SaveEdit(r, t, h)
        PROVE  A
    BY <2>1, <2>5, SaveEffect
  <2>6. ASSUME NEW r \in Reviewers, ApproveCommit(r) PROVE A
    <3>1. PICK d \in Docs, x \in Rows :
            /\ row[d].state = "awaiting_review"
            /\ row' = [row EXCEPT ![d] = x]
            /\ x.attempts = row[d].attempts /\ x.retryAt = row[d].retryAt
      BY <2>6, CommitEffect
    <3>2. x.attempts = 0 /\ x.retryAt = "null"
      BY <3>1 DEF RetryBudget
    <3> QED  BY <2>1, <3>1, <3>2
  <2>7. ASSUME NEW d \in Docs, Expire(d) \/ BackoffElapses(d) PROVE A
    BY <2>1, <2>7, ClockEffect
  <2>8. CASE row' = row
    BY <2>8
  <2>9. ASSUME NEW w \in Workers, ReadSource(w) \/ GivesUp(w) PROVE row' = row
    BY <2>9 DEF ReadSource, GivesUp, LostLease, Refused
  <2>10. ASSUME NEW r \in Reviewers,
                \/ TurnedAway(r) \/ ApproveBegin(r) \/ ApproveLock(r)
                \/ ApproveNumber(r) \/ ApproveRollback(r)
         PROVE  row' = row
    BY <2>10 DEF TurnedAway, ApproveBegin, ApproveLock, ApproveNumber, ApproveRollback
  <2>11. ASSUME NEW p \in Processes, Crash(p) PROVE row' = row
    BY <2>11 DEF Crash
  <2> QED
    BY <2>2, <2>3, <2>4, <2>5, <2>6, <2>7, <2>8, <2>9, <2>10, <2>11, WorkCases
       DEF Next, Internal, Approve
<1> QED  BY <1>1, Invariant, PTL DEF Spec, FreshBudget

\* An approval freezes what its session was shown or saved: the row lock and
\* the fence leave no other session a chance to edit in between.
THEOREM AsSeen == Spec => ApprovedAsSeen
<1> DEFINE A == \A x \in reviewed' \ reviewed :
                   \E r \in Reviewers :
                      /\ txn[r].phase = "numbered" /\ txn'[r].phase = "none"
                      /\ job[r].doc = x.doc
                      /\ job[r].text = x.text /\ job[r].header = x.header
<1>1. IInv /\ [Next]_vars => [A]_vars
  <2> SUFFICES ASSUME IInv, [Next]_vars PROVE A \/ UNCHANGED vars
    OBVIOUS
  <2> USE DEF IInv
  <2>1. CASE reviewed' = reviewed
    BY <2>1
  <2>2. ASSUME NEW r \in Reviewers, ApproveCommit(r) PROVE A
    <3>1. PICK z \in Sources :
            /\ txn[r].phase = "numbered"
            /\ reviewed' = reviewed \cup {z}
            /\ z.doc = job[r].doc
            /\ z.text = row[job[r].doc].body /\ z.header = row[job[r].doc].header
      BY <2>2, CommitEffect
    <3>2. /\ job[r].text = row[job[r].doc].body
          /\ job[r].header = row[job[r].doc].header
      BY <3>1 DEF Transacted, Viewed, Processes
    <3>3. txn'[r].phase = "none"
      BY <2>2, NoJobTyped, TxnWrite DEF ApproveCommit, EndSession, NoTxn
    <3> QED  BY <3>1, <3>2, <3>3
  <2>3. ASSUME NEW w \in Workers, Work(w) PROVE reviewed' = reviewed
    BY <2>3, WorkCases DEF ReadSource, GivesUp, LostLease, Refused, Release
  <2>4. ASSUME NEW r \in Reviewers,
               \/ TurnedAway(r) \/ ApproveBegin(r) \/ ApproveLock(r)
               \/ ApproveNumber(r) \/ ApproveRollback(r)
               \/ \E t \in Texts, h \in Headers : SaveEdit(r, t, h)
        PROVE  reviewed' = reviewed
    BY <2>4 DEF TurnedAway, ApproveBegin, ApproveLock, ApproveNumber, ApproveRollback,
                SaveEdit
  <2>5. ASSUME \/ \E d \in Docs, f \in Files : Land(d, f)
               \/ \E p \in Processes : \E s \in StagesOf(p) : Claim(p, s)
               \/ \E p \in Processes : Crash(p)
               \/ \E d \in Docs : Expire(d) \/ BackoffElapses(d)
        PROVE  reviewed' = reviewed
    BY <2>5 DEF Land, Claim, Crash, Expire, BackoffElapses
  <2> QED  BY <2>1, <2>2, <2>3, <2>4, <2>5 DEF Next, Internal, Approve
<1> QED  BY <1>1, Invariant, PTL DEF Spec, ApprovedAsSeen

-----------------------------------------------------------------------------
(* Every claim is charged *)

\* Somebody works on the row under a lease that has not run out: a claim that
\* may still be charged.
UnderWay(d) == /\ row[d].lease = "live"
               /\ \E p \in Processes : job[p].doc = d /\ Holds(p)

\* The other claims were.
Charge(d) ==
    row[d].state = "landed" =>
        row[d].token <= row[d].attempts + faults + (IF UnderWay(d) THEN 1 ELSE 0)

\* A step that leaves the claim of a landed row alone, and its holder with it,
\* leaves its account right.
LEMMA ChargeKept ==
    ASSUME TypeOK, NEW d \in Docs, Charge(d), faults' \in Nat, faults' >= faults,
           row'[d] = row[d],
           row[d].state = "landed" =>
              \A p \in Processes : job[p].doc = d /\ Holds(p) => job'[p] = job[p]
    PROVE  Charge(d)'
<1> SUFFICES ASSUME row[d].state = "landed" PROVE Charge(d)'
  BY DEF Charge
<1>1. row[d].token \in Nat /\ row[d].attempts \in Nat /\ faults \in Nat
  BY DEF TypeOK, Rows
<1>2. UnderWay(d) => UnderWay(d)'
  BY DEF UnderWay, Holds
<1> QED  BY <1>1, <1>2 DEF Charge

\* A landed row is held by no session: sessions claim rows of a later state.
LEMMA LandedHolder ==
    ASSUME IInv, NEW p \in Processes, NEW d \in Docs, row[d].state = "landed",
           job[p].doc = d, Holds(p)
    PROVE  p \notin Reviewers
<1>1. Busy(p)
  BY FileAssumption DEF Busy
<1>2. job[p].stage \in StagesOf(p) /\ job[p].stage = "landed"
  BY <1>1 DEF IInv, Fenced, Viewed
<1> QED  BY <1>2 DEF StagesOf

\* Without bodies the database refuses, every step keeps the account.
LEMMA ChargeStep ==
    ASSUME Unstorable = {}, IInv, [Next]_vars, \A d \in Docs : Charge(d), NEW d \in Docs
    PROVE  Charge(d)'
<1> USE DEF IInv
<1>0. /\ faults \in Nat /\ Charge(d)
      /\ \A x \in Rows : x.token \in Nat /\ x.attempts \in Nat
      /\ \A e \in Docs : row[e] \in Rows
  BY DEF TypeOK, Rows
<1>1. ASSUME NEW e \in Docs, NEW f \in Files, Land(e, f) PROVE Charge(d)'
  <2>1. faults' = faults /\ job' = job
    BY <1>1 DEF Land
  <2>2. PICK x \in Rows :
            row' = [row EXCEPT ![e] = x] /\ x.token = 0 /\ x.attempts = 0
    BY <1>1, LandEffect
  <2>3. CASE e = d
    <3>1. row'[d] = x
      BY <2>2, <2>3, RowWrite
    <3> QED  BY <1>0, <2>1, <2>2, <3>1 DEF Charge
  <2>4. CASE e # d
    <3>1. row'[d] = row[d]
      BY <2>2, <2>4, RowWrite
    <3> QED  BY <1>0, <2>1, <3>1, ChargeKept
  <2> QED  BY <2>3, <2>4
<1>2. ASSUME NEW p \in Processes, NEW s \in StagesOf(p), Claim(p, s) PROVE Charge(d)'
  <2>1. faults' = faults /\ ~Busy(p)
    BY <1>2 DEF Claim
  <2>2. PICK e \in Docs, j \in Jobs :
            /\ Claimed(row[e], p) \in Rows
            /\ row' = [row EXCEPT ![e] = Claimed(row[e], p)]
            /\ job' = [job EXCEPT ![p] = j]
            /\ j.doc = e /\ j.token = row[e].token + 1
    BY <1>2, ClaimEffect
  <2>3. job'[p] = j /\ \A q \in Processes : q # p => job'[q] = job[q]
    BY <2>2, JobWrite
  <2>4. CASE e = d
    <3>1. row[d].lease # "live"
      <4>1. PICK c \in Claimable(s) \ RowLocked : row' = [row EXCEPT ![c] = Claimed(row[c], p)]
        BY <1>2 DEF Claim
      <4>2. c \in Docs /\ row[c].lease # "live"
        BY <4>1 DEF Claimable
      <4>3. CASE c = d
        BY <4>2, <4>3
      <4>4. CASE c # d
        <5>1. row'[d] = row[d] /\ row'[d] = Claimed(row[d], p)
          BY <2>2, <2>4, <4>1, <4>4 DEF TypeOK
        <5>2. row'[d].token = row[d].token + 1
          BY <1>0, <5>1, ClaimedFields
        <5>3. row'[d].token = row[d].token
          BY <5>1
        <5>4. row[d].token \in Nat
          BY <1>0
        <5> QED  BY <5>2, <5>3, <5>4
      <4> QED  BY <4>3, <4>4
    <3>2. row'[d] = Claimed(row[d], p)
      BY <2>2, <2>4, RowWrite
    <3>3. /\ row'[d].state = row[d].state /\ row'[d].attempts = row[d].attempts
          /\ row'[d].token = row[d].token + 1
          /\ row'[d].lease = "live" /\ row'[d].claimedBy = IdOf(p)
      BY <1>0, <3>2, ClaimedFields
    <3>4. UnderWay(d)'
      <4>1. job'[p].doc = d /\ job'[p].token = row'[d].token
        BY <2>2, <2>3, <2>4, <3>3
      <4> QED  BY <3>3, <4>1 DEF UnderWay, Holds
    <3> QED  BY <1>0, <2>1, <3>1, <3>3, <3>4 DEF Charge, UnderWay
  <2>5. CASE e # d
    <3>1. row'[d] = row[d]
      BY <2>2, <2>5, RowWrite
    <3>2. job[p].doc # d
      BY <2>1, FileAssumption DEF Busy
    <3> QED  BY <1>0, <2>1, <2>3, <3>1, <3>2, ChargeKept
  <2> QED  BY <2>4, <2>5
<1>3. ASSUME NEW w \in Workers, NEW x \in Rows, Release(w, x), Outcome(w, x)
      PROVE  Charge(d)'
  <2>0. w \in Processes
    BY DEF Processes
  <2>1. /\ faults' = faults /\ Busy(w) /\ job[w].doc \in Docs
        /\ row' = [row EXCEPT ![job[w].doc] = x]
        /\ job' = [job EXCEPT ![w] = NoJob]
        /\ row[job[w].doc].state = job[w].stage
    BY <1>3, <2>0, BusyTyped DEF Release, Viewed
  <2>2. CASE job[w].doc = d
    <3>1. row'[d] = x
      BY <2>1, <2>2, RowWrite
    <3>2. x.state = "landed" => /\ row[d].state = "landed"
                                /\ x.attempts = row[d].attempts + 1
      BY <1>3, <2>1, <2>2 DEF Outcome
    <3>3. x.token = row[d].token
      BY <1>3, <2>2 DEF Outcome
    <3> QED  BY <1>0, <2>1, <3>1, <3>2, <3>3 DEF Charge
  <2>3. CASE job[w].doc # d
    <3>1. row'[d] = row[d]
      BY <2>1, <2>3, RowWrite
    <3>2. \A q \in Processes : q # w => job'[q] = job[q]
      BY <2>0, <2>1, JobWrite, NoJobTyped
    <3> QED  BY <1>0, <2>1, <2>3, <3>1, <3>2, ChargeKept
  <2> QED  BY <2>2, <2>3
<1>4. ASSUME NEW r \in Reviewers, NEW t \in Texts, NEW h \in Headers, SaveEdit(r, t, h)
      PROVE  Charge(d)'
  <2>0. r \in Processes
    BY DEF Processes
  <2>1. faults' = faults /\ row[job[r].doc].state = "awaiting_review"
    BY <1>4 DEF SaveEdit, HoldsLive
  <2>2. PICK x \in Rows, j \in Jobs :
          /\ job[r].doc \in Docs
          /\ row' = [row EXCEPT ![job[r].doc] = x]
          /\ x.state = row[job[r].doc].state
          /\ job' = [job EXCEPT ![r] = j]
    BY <1>4, SaveEffect
  <2>3. CASE job[r].doc = d
    <3>1. row'[d].state = "awaiting_review"
      BY <2>1, <2>2, <2>3, RowWrite
    <3> QED  BY <3>1 DEF Charge
  <2>4. CASE job[r].doc # d
    <3>1. row'[d] = row[d]
      BY <2>2, <2>4, RowWrite
    <3>2. \A q \in Processes : q # r => job'[q] = job[q]
      BY <2>0, <2>2, JobWrite
    <3> QED  BY <1>0, <2>1, <2>4, <3>1, <3>2, ChargeKept
  <2> QED  BY <2>3, <2>4
<1>5. ASSUME NEW r \in Reviewers, ApproveCommit(r) PROVE Charge(d)'
  <2>0. r \in Processes
    BY DEF Processes
  <2>1. faults' = faults /\ job' = [job EXCEPT ![r] = NoJob]
    BY <1>5 DEF ApproveCommit, EndSession
  <2>2. PICK x \in Rows :
          /\ job[r].doc \in Docs
          /\ row' = [row EXCEPT ![job[r].doc] = x]
          /\ x.state = "content_approved"
    BY <1>5, CommitEffect
  <2>3. CASE job[r].doc = d
    <3>1. row'[d].state = "content_approved"
      BY <2>2, <2>3, RowWrite
    <3> QED  BY <3>1 DEF Charge
  <2>4. CASE job[r].doc # d
    <3>1. row'[d] = row[d]
      BY <2>2, <2>4, RowWrite
    <3>2. \A q \in Processes : q # r => job'[q] = job[q]
      BY <2>0, <2>1, JobWrite, NoJobTyped
    <3> QED  BY <1>0, <2>1, <2>4, <3>1, <3>2, ChargeKept
  <2> QED  BY <2>3, <2>4
<1>6. ASSUME NEW e \in Docs, Expire(e) \/ BackoffElapses(e) PROVE Charge(d)'
  <2>1. PICK x \in Rows :
          /\ row' = [row EXCEPT ![e] = x]
          /\ x.state = row[e].state /\ x.claimedBy = row[e].claimedBy
          /\ x.token = row[e].token /\ x.attempts = row[e].attempts
    BY <1>6, ClockEffect
  <2>2. job' = job /\ faults' \in Nat /\ faults' >= faults
    BY <1>0, <1>6 DEF Expire, BackoffElapses
  <2>3. CASE e # d
    <3>1. row'[d] = row[d]
      BY <2>1, <2>3, RowWrite
    <3> QED  BY <1>0, <2>2, <3>1, ChargeKept
  <2>4. CASE e = d /\ Expire(e)
    <3>1. row'[d] = x
      BY <2>1, <2>4, RowWrite
    <3>2. UnderWay(d) => faults' = faults + 1
      BY <2>4 DEF Expire, UnderWay
    <3> QED  BY <1>0, <2>1, <2>2, <2>4, <3>1, <3>2 DEF Charge
  <2>5. CASE e = d /\ BackoffElapses(e)
    <3>1. row'[d] = x /\ row'[d] = [row[d] EXCEPT !.retryAt = "past"]
      BY <2>1, <2>5, RowWrite DEF BackoffElapses, TypeOK
    <3>2. row'[d].lease = row[d].lease
      BY <1>0, <3>1 DEF Rows
    <3>3. UnderWay(d) => UnderWay(d)'
      BY <2>1, <2>2, <2>5, <3>1, <3>2 DEF UnderWay, Holds
    <3>4. faults' = faults
      BY <2>5 DEF BackoffElapses
    <3> QED  BY <1>0, <2>1, <2>5, <3>1, <3>3, <3>4 DEF Charge
  <2> QED  BY <1>6, <2>3, <2>4, <2>5
<1>7. ASSUME NEW p \in Processes, Crash(p) PROVE Charge(d)'
  <2>1. row' = row /\ faults' = faults + 1
    BY <1>7 DEF Crash
  <2> QED  BY <1>0, <2>1 DEF Charge
<1>8. ASSUME NEW w \in Workers, GivesUp(w) PROVE Charge(d)'
  <2>0. w \in Processes
    BY DEF Processes
  <2>1. LostLease(w)
    BY <1>8 DEF GivesUp, Refused
  <2>2. /\ row' = row /\ faults' = faults /\ ~Holds(w)
        /\ job' = [job EXCEPT ![w] = NoJob]
    BY <2>1 DEF LostLease
  <2>3. \A q \in Processes : q # w => job'[q] = job[q]
    BY <2>0, <2>2, JobWrite, NoJobTyped
  <2> QED  BY <1>0, <2>2, <2>3, ChargeKept
<1>9. ASSUME NEW r \in Reviewers, TurnedAway(r) \/ ApproveRollback(r) PROVE Charge(d)'
  <2>0. r \in Processes
    BY DEF Processes
  <2>1. /\ row' = row /\ faults' = faults
        /\ job' = [job EXCEPT ![r] = NoJob]
    BY <1>9 DEF TurnedAway, ApproveRollback, EndSession
  <2>2. \A q \in Processes : q # r => job'[q] = job[q]
    BY <2>0, <2>1, JobWrite, NoJobTyped
  <2>3. row[d].state = "landed" => ~(job[r].doc = d /\ Holds(r))
    BY <2>0, LandedHolder
  <2> QED  BY <1>0, <2>1, <2>2, <2>3, ChargeKept
<1>10. ASSUME NEW w \in Workers, ReadSource(w) PROVE Charge(d)'
  <2>0. w \in Processes
    BY DEF Processes
  <2>1. /\ row' = row /\ faults' = faults /\ Busy(w)
        /\ job[w].stage \in {"content_approved", "awaiting_merge_confirm"}
        /\ job' = [job EXCEPT ![w].source = LatestSource(job[w].doc).version]
    BY <1>10 DEF ReadSource
  <2>2. \A q \in Processes : q # w => job'[q] = job[q]
    BY <2>0, <2>1 DEF TypeOK
  <2>3. row[d].state = "landed" => ~(job[w].doc = d /\ Holds(w))
    BY <2>0, <2>1 DEF Viewed
  <2> QED  BY <1>0, <2>1, <2>2, <2>3, ChargeKept
<1>11. ASSUME row' = row, job' = job, faults' = faults PROVE Charge(d)'
  BY <1>0, <1>11, ChargeKept
<1>12. ASSUME NEW r \in Reviewers, ApproveBegin(r) \/ ApproveLock(r) \/ ApproveNumber(r)
       PROVE  row' = row /\ job' = job /\ faults' = faults
  BY <1>12 DEF ApproveBegin, ApproveLock, ApproveNumber
<1>13. CASE UNCHANGED vars
  BY <1>11, <1>13 DEF vars
<1> QED
  BY <1>1, <1>2, <1>3, <1>4, <1>5, <1>6, <1>7, <1>8, <1>9, <1>10, <1>11, <1>12, <1>13,
     WorkCases DEF Next, Internal, Approve

\* Where the database takes every body the extraction returns, each claim of a
\* landed document but the last was charged to attempt_count or ended by a
\* crash or an expired lease, so that failing attempts do lead to failed.
THEOREM Charged == ASSUME Unstorable = {} PROVE Spec => []AttemptsCharged
<1> DEFINE Account == IInv /\ \A d \in Docs : Charge(d)
<1>1. Init => Account
  <2> SUFFICES ASSUME Init, NEW d \in Docs PROVE Charge(d)
    BY InvInit
  <2>1. row[d] = AbsentRow
    BY DEF Init
  <2> QED  BY <2>1 DEF Charge, AbsentRow
<1>2. Account /\ [Next]_vars => Account'
  <2> SUFFICES ASSUME Account, [Next]_vars PROVE Account'
    OBVIOUS
  <2>1. IInv'
    BY InvStep
  <2>2. \A d \in Docs : Charge(d)'
    BY ChargeStep
  <2> QED  BY <2>1, <2>2
<1>3. Account => AttemptsCharged
  <2> SUFFICES ASSUME Account, NEW d \in Docs, row[d].state = "landed"
               PROVE  row[d].token <= row[d].attempts + faults + 1
    BY DEF AttemptsCharged
  <2>1. row[d].token \in Nat /\ row[d].attempts \in Nat /\ faults \in Nat
    BY DEF IInv, TypeOK, Rows
  <2> QED  BY <2>1 DEF Charge
<1> HIDE DEF Account
<1> QED  BY <1>1, <1>2, <1>3, PTL DEF Spec

-----------------------------------------------------------------------------
(* Refinement *)

\* Steps that keep states, graphs and Reviewed Sources stutter.
LEMMA Stutter ==
    ASSUME reviewed' = reviewed,
           \A d \in Docs : row'[d].state = row[d].state /\ row'[d].graph = row[d].graph
    PROVE  Stage' = Stage /\ Frozen' = Frozen /\ Known' = Known
<1>1. Stage' = Stage
  BY DEF Stage
<1>2. Frozen' = Frozen
  BY DEF Frozen, SourcesOf, LatestSource, Content
<1>3. Known' = Known
  BY DEF Known, Content
<1> QED  BY <1>1, <1>2, <1>3

\* Writing one row writes one entry of the abstract stage; the rest follows
\* from what the row keeps.
LEMMA OneStage ==
    ASSUME TypeOK, NEW d \in Docs, NEW x \in Rows, row' = [row EXCEPT ![d] = x]
    PROVE  /\ Stage' = [Stage EXCEPT ![d] = x.state]
           /\ Stage[d] = row[d].state
           /\ x.state = row[d].state => Stage' = Stage
           /\ x.graph = row[d].graph => Known' = Known
           /\ reviewed' = reviewed => Frozen' = Frozen
<1>1. row'[d] = x /\ \A e \in Docs : e # d => row'[e] = row[e]
  BY RowWrite
<1>2. Stage' = [Stage EXCEPT ![d] = x.state] /\ Stage[d] = row[d].state
  <2>1. \A e \in Docs : /\ Stage[e] = row[e].state
                        /\ Stage'[e] = IF e = d THEN x.state ELSE row[e].state
    BY <1>1 DEF Stage
  <2>2. Stage = [e \in Docs |-> Stage[e]] /\ Stage' = [e \in Docs |-> Stage'[e]]
    BY DEF Stage
  <2> QED  BY <2>1, <2>2
<1>3. ASSUME x.state = row[d].state PROVE Stage' = Stage
  BY <1>1, <1>3 DEF Stage
<1>4. ASSUME x.graph = row[d].graph PROVE Known' = Known
  BY <1>1, <1>4 DEF Known, Content
<1>5. ASSUME reviewed' = reviewed PROVE Frozen' = Frozen
  BY <1>5 DEF Frozen, SourcesOf, LatestSource, Content
<1> QED  BY <1>2, <1>3, <1>4, <1>5

\* Extraction, parsing, promotion, the merge gate and persist advance a
\* document; a stage that gives up fails it; compilation takes its knowledge
\* from the frozen evidence; a retry stutters.
LEMMA ReleaseRefines ==
    ASSUME IInv, NEW w \in Workers, NEW x \in Rows, Release(w, x), Outcome(w, x)
    PROVE  Abstract!Next \/ UNCHANGED Abstract!vars
<1> USE DEF IInv
<1>0. PICK d : d = job[w].doc
  OBVIOUS
<1>1. w \in Processes /\ d \in Docs /\ Busy(w) /\ Holds(w)
  BY <1>0, BusyTyped DEF Release, Processes
<1>2. row' = [row EXCEPT ![d] = x] /\ reviewed' = reviewed
  BY <1>0 DEF Release
<1>3. /\ row[d].state = job[w].stage
      /\ row[d].body = job[w].text /\ row[d].header = job[w].header
  BY <1>0, <1>1 DEF Viewed
<1>4. /\ Stage' = [Stage EXCEPT ![d] = x.state]
      /\ Stage[d] = row[d].state
      /\ x.state = row[d].state => Stage' = Stage
      /\ x.graph = row[d].graph => Known' = Known
      /\ Frozen' = Frozen
  BY <1>1, <1>2, OneStage
<1>5. CASE /\ x.graph = row[d].graph
           /\ \/ row[d].state = "landed" /\ x.state = "extracted"
              \/ row[d].state = "extracted" /\ x.state = "parsed"
              \/ row[d].state = "parsed" /\ x.state = "awaiting_review"
              \/ row[d].state = "compiled" /\ x.state = "awaiting_merge_confirm"
              \/ row[d].state = "awaiting_merge_confirm" /\ x.state = "persisted"
  <2>1. Stage[d] \in Abstract!Automated \ {"content_approved"}
    BY <1>4, <1>5 DEF Abstract!Automated, Abstract!Successor
  <2>2. Abstract!Successor[Stage[d]] = x.state
    BY <1>4, <1>5 DEF Abstract!Successor
  <2>3. Abstract!Advance(d)
    BY <1>4, <1>5, <2>1, <2>2 DEF Abstract!Advance
  <2> QED  BY <1>1, <2>3 DEF Abstract!Next
<1>6. CASE /\ x.graph = row[d].graph /\ x.state = "failed"
           /\ row[d].state \in {"landed", "extracted", "content_approved",
                                "awaiting_merge_confirm"}
  <2>1. Abstract!Fail(d)
    BY <1>4, <1>6 DEF Abstract!Fail, Abstract!Automated, Abstract!Successor
  <2> QED  BY <1>1, <2>1 DEF Abstract!Next
<1>7. CASE x.graph = row[d].graph /\ x.state = row[d].state
  BY <1>4, <1>7 DEF Abstract!vars
<1>8. CASE /\ row[d].state = "content_approved" /\ x.state = "compiled"
           /\ x.graph = [text |-> job[w].text, header |-> job[w].header,
                         source |-> job[w].source]
  <2>1. PICK y \in SourcesOf(d) : y.text = row[d].body /\ y.header = row[d].header
    BY <1>1, <1>8 DEF Sourced
  <2>2. SourcesOf(d) = {y}
    BY <2>1 DEF Sourced, SourcesOf
  <2>3. LatestSource(d) = y
    <3>1. y.version <= y.version
      BY <2>1 DEF TypeOK, Sources, SourcesOf
    <3> QED  BY <2>2, <3>1 DEF LatestSource
  <2>4. Frozen[d] = [text |-> row[d].body, header |-> row[d].header]
    BY <1>1, <2>1, <2>2, <2>3 DEF Frozen, Content
  <2>5. job[w] \in Jobs
    BY <1>1 DEF TypeOK
  <2>6. x.graph # None
    <3>1. row[d].body \in Texts
      BY <1>1, <1>8 DEF Bodied, TypeOK, Rows
    <3> QED  BY <1>3, <1>8, <2>5, <3>1, NoneAssumption DEF Graphs, Jobs
  <2>7. Content(x.graph) = Frozen[d]
    BY <1>3, <1>8, <2>4 DEF Content
  <2>8. Known' = [Known EXCEPT ![d] = Frozen[d]]
    <3>1. row'[d] = x /\ \A e \in Docs : e # d => row'[e] = row[e]
      BY <1>1, <1>2, RowWrite
    <3>2. \A e \in Docs : Known'[e] = IF e = d THEN Frozen[d] ELSE Known[e]
      BY <2>6, <2>7, <3>1 DEF Known, Content
    <3>3. Known' = [e \in Docs |-> Known'[e]] /\ Known = [e \in Docs |-> Known[e]]
      BY DEF Known
    <3> QED  BY <3>2, <3>3
  <2>9. Abstract!Compile(d)
    BY <1>4, <1>8, <2>8 DEF Abstract!Compile
  <2> QED  BY <1>1, <2>9 DEF Abstract!Next
<1> QED  BY <1>0, <1>3, <1>5, <1>6, <1>7, <1>8 DEF Outcome

\* The commit of approve() freezes the evidence.
LEMMA CommitRefines ==
    ASSUME IInv, NEW r \in Reviewers, ApproveCommit(r)
    PROVE  Abstract!Next
<1> USE DEF IInv
<1>1. PICK d \in Docs, x \in Rows, z \in Sources :
        /\ row[d].state = "awaiting_review"
        /\ row' = [row EXCEPT ![d] = x]
        /\ x.state = "content_approved" /\ x.graph = row[d].graph
        /\ reviewed' = reviewed \cup {z}
        /\ z.doc = d
  BY CommitEffect
<1>2. /\ Stage' = [Stage EXCEPT ![d] = "content_approved"]
      /\ Stage[d] = "awaiting_review"
      /\ Known' = Known
  BY <1>1, OneStage
<1>3. SourcesOf(d)' = {z} /\ \A e : e # d => SourcesOf(e)' = SourcesOf(e)
  BY <1>1 DEF Sourced, SourcesOf
<1>4. LatestSource(d)' = z
  <2>1. z.version <= z.version
    BY DEF Sources
  <2> QED  BY <1>3, <2>1 DEF LatestSource
<1>5. ASSUME NEW e \in Docs
      PROVE  Frozen'[e] = IF e = d THEN Content(z) ELSE Frozen[e]
  <2>1. CASE e = d
    BY <1>3, <1>4, <2>1 DEF Frozen, Content
  <2>2. CASE e # d
    <3>1. SourcesOf(e)' = SourcesOf(e) /\ LatestSource(e)' = LatestSource(e)
      BY <1>3, <2>2 DEF LatestSource
    <3> QED  BY <2>2, <3>1 DEF Frozen, Content
  <2> QED  BY <2>1, <2>2
<1>6. Frozen' = [Frozen EXCEPT ![d] = Content(z)]
  <2>1. Frozen' = [e \in Docs |-> Frozen'[e]] /\ Frozen = [e \in Docs |-> Frozen[e]]
    BY DEF Frozen
  <2> QED  BY <1>5, <2>1
<1>7. Content(z) \in [text : Texts, header : Headers]
  BY DEF Content, Sources
<1>8. Abstract!Approve(d)
  BY <1>2, <1>6, <1>7 DEF Abstract!Approve
<1> QED  BY <1>8 DEF Abstract!Next

\* Every step of the queue is a step of the lifecycle or a stutter.
LEMMA StepRefines == IInv /\ [Next]_vars => [Abstract!Next]_Abstract!vars
<1> SUFFICES ASSUME IInv, [Next]_vars PROVE Abstract!Next \/ UNCHANGED Abstract!vars
  OBVIOUS
<1> USE DEF IInv
<1>1. ASSUME NEW d \in Docs, NEW f \in Files, Land(d, f) PROVE Abstract!Next
  <2>1. PICK x \in Rows :
          /\ row[d].state = "absent"
          /\ row' = [row EXCEPT ![d] = x]
          /\ x.state = "landed" /\ x.graph = None
    BY <1>1, LandEffect
  <2>2. row[d].graph = None /\ reviewed' = reviewed
    BY <1>1, <2>1 DEF Sourced, Land
  <2>3. Abstract!Land(d)
    BY <2>1, <2>2, OneStage DEF Abstract!Land
  <2> QED  BY <2>3 DEF Abstract!Next
<1>2. ASSUME NEW p \in Processes, NEW s \in StagesOf(p), Claim(p, s)
      PROVE  UNCHANGED Abstract!vars
  <2>1. PICK d \in Docs : /\ Claimed(row[d], p) \in Rows
                          /\ row' = [row EXCEPT ![d] = Claimed(row[d], p)]
    BY <1>2, ClaimEffect
  <2>2. /\ Claimed(row[d], p).state = row[d].state
        /\ Claimed(row[d], p).graph = row[d].graph
    BY ClaimedFields DEF TypeOK
  <2>3. reviewed' = reviewed
    BY <1>2 DEF Claim
  <2> QED  BY <2>1, <2>2, <2>3, OneStage DEF Abstract!vars
<1>3. ASSUME NEW r \in Reviewers, NEW t \in Texts, NEW h \in Headers, SaveEdit(r, t, h)
      PROVE  UNCHANGED Abstract!vars
  <2>1. PICK d \in Docs, x \in Rows :
          /\ row' = [row EXCEPT ![d] = x]
          /\ x.state = row[d].state /\ x.graph = row[d].graph
    BY <1>3, SaveEffect
  <2>2. reviewed' = reviewed
    BY <1>3 DEF SaveEdit
  <2> QED  BY <2>1, <2>2, OneStage DEF Abstract!vars
<1>4. ASSUME NEW d \in Docs, Expire(d) \/ BackoffElapses(d)
      PROVE  UNCHANGED Abstract!vars
  <2>1. PICK x \in Rows :
          /\ row' = [row EXCEPT ![d] = x]
          /\ x.state = row[d].state /\ x.graph = row[d].graph
    BY <1>4, ClockEffect
  <2>2. reviewed' = reviewed
    BY <1>4 DEF Expire, BackoffElapses
  <2> QED  BY <2>1, <2>2, OneStage DEF Abstract!vars
<1>5. CASE row' = row /\ reviewed' = reviewed
  BY <1>5, Stutter DEF Abstract!vars
<1>6. ASSUME NEW w \in Workers, ReadSource(w) \/ GivesUp(w)
      PROVE  row' = row /\ reviewed' = reviewed
  BY <1>6 DEF ReadSource, GivesUp, LostLease, Refused
<1>7. ASSUME NEW r \in Reviewers,
             \/ TurnedAway(r) \/ ApproveBegin(r) \/ ApproveLock(r)
             \/ ApproveNumber(r) \/ ApproveRollback(r)
      PROVE  row' = row /\ reviewed' = reviewed
  BY <1>7 DEF TurnedAway, ApproveBegin, ApproveLock, ApproveNumber, ApproveRollback
<1>8. ASSUME NEW p \in Processes, Crash(p) PROVE row' = row /\ reviewed' = reviewed
  BY <1>8 DEF Crash
<1>9. CASE UNCHANGED vars
  BY <1>5, <1>9 DEF vars
<1> QED
  BY <1>1, <1>2, <1>3, <1>4, <1>5, <1>6, <1>7, <1>8, <1>9, ReleaseRefines,
     CommitRefines, WorkCases DEF Next, Internal, Approve

\* The queue implements Lifecycle: no zombie, retry, crash or concurrent
\* approval moves a document backwards or past a stage, changes what was
\* approved, or compiles anything else.
THEOREM Refinement == Spec => ImplementsLifecycle
<1>1. Init => Abstract!Init
  <2> SUFFICES ASSUME Init PROVE Abstract!Init
    OBVIOUS
  <2>1. Stage = [d \in Docs |-> "absent"]
    BY DEF Init, Stage, AbsentRow
  <2>2. Frozen = [d \in Docs |-> None]
    BY DEF Init, Frozen, SourcesOf
  <2>3. Known = [d \in Docs |-> None]
    BY DEF Init, Known, AbsentRow
  <2> QED  BY <2>1, <2>2, <2>3 DEF Abstract!Init
<1> QED  BY <1>1, StepRefines, Invariant, PTL DEF Spec, ImplementsLifecycle, Abstract!Spec

=============================================================================
