------------------------------ MODULE Lifecycle ------------------------------
(***************************************************************************)
(* What the ingest pipeline promises about one document, without leases,   *)
(* tokens, workers or retries: a document moves forward one stage at a     *)
(* time, leaves the chain only by failing out of an automated stage, what  *)
(* the reviewer approved is frozen at approval, and the compiled knowledge *)
(* is computed from what was frozen.                                       *)
(***************************************************************************)
CONSTANTS Docs,      \* content hashes
          Evidence,  \* what a reviewer can approve: body and Content Header
          None

VARIABLES stage,     \* pipeline_state of each document, "absent" before landing
          evidence,  \* the frozen Reviewed Source, None before approval
          knowledge  \* the evidence the compiled graph was computed from

vars == <<stage, evidence, knowledge>>

\* The order of the states of schema.sql's enum, `failed` aside.
Successor ==
    [landed           |-> "extracted",
     extracted        |-> "parsed",
     parsed           |-> "awaiting_review",
     awaiting_review  |-> "content_approved",
     content_approved |-> "compiled",
     compiled         |-> "awaiting_merge_confirm",
     awaiting_merge_confirm |-> "persisted"]

\* States left by a worker, without a person.
Automated == DOMAIN Successor \ {"awaiting_review"}

Stages == DOMAIN Successor \cup {"absent", "persisted", "failed"}

Init == /\ stage = [d \in Docs |-> "absent"]
        /\ evidence = [d \in Docs |-> None]
        /\ knowledge = [d \in Docs |-> None]

Land(d) == /\ stage[d] = "absent"
           /\ stage' = [stage EXCEPT ![d] = "landed"]
           /\ UNCHANGED <<evidence, knowledge>>

Advance(d) == /\ stage[d] \in Automated \ {"content_approved"}
              /\ stage' = [stage EXCEPT ![d] = Successor[stage[d]]]
              /\ UNCHANGED <<evidence, knowledge>>

Approve(d) == /\ stage[d] = "awaiting_review"
              /\ stage' = [stage EXCEPT ![d] = "content_approved"]
              /\ \E e \in Evidence : evidence' = [evidence EXCEPT ![d] = e]
              /\ UNCHANGED knowledge

Compile(d) == /\ stage[d] = "content_approved"
              /\ stage' = [stage EXCEPT ![d] = "compiled"]
              /\ knowledge' = [knowledge EXCEPT ![d] = evidence[d]]
              /\ UNCHANGED evidence

Fail(d) == /\ stage[d] \in Automated
           /\ stage' = [stage EXCEPT ![d] = "failed"]
           /\ UNCHANGED <<evidence, knowledge>>

Next == \E d \in Docs : \/ Land(d)
                        \/ Advance(d)
                        \/ Approve(d)
                        \/ Compile(d)
                        \/ Fail(d)

Spec == Init /\ [][Next]_vars
=============================================================================
