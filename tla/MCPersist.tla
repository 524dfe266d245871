----------------------------- MODULE MCPersist ------------------------------
(***************************************************************************)
(* Instances of Persist for TLC: documents 1 and 2 are versions of one     *)
(* file, document 3 is another file that shares node keys with it.         *)
(***************************************************************************)
EXTENDS Persist, TLC

CONSTANTS persist1, persist2, model1, model2

MCFileOf == [d \in Docs |-> IF d = 3 THEN "b.md" ELSE "a.md"]

MCGraphs == [d \in Docs |-> Graphs]

\* The first version makes one node; the second drops it or its status and makes
\* another; the other file has both.
Full == [k \in Keys |-> [p \in Props |-> CHOOSE v \in Values : TRUE]]
Without(k) == [Full EXCEPT ![k] = None]
Bare(k) == [Full EXCEPT ![k] = NoContent]

MCFewGraphs == [d \in Docs |-> CASE d = 1 -> {Without(2)}
                                [] d = 2 -> {Without(1), Bare(1)}
                                [] d = 3 -> {Bare(1)}]

\* Workers and models are interchangeable.
Symmetric == Permutations(Workers) \cup Permutations(Models)
=============================================================================
