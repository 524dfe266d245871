------------------------------ MODULE Compiler ------------------------------
(***************************************************************************)
(* From the triplets of the extractor to the edges of one document:        *)
(* enrich_and_serialize() (compiler.py) folds the entity nodes, two for    *)
(* each triplet, onto their natural keys and rewrites the relations from   *)
(* node ids to those keys; persist_compiled_graph() (persist.py) resolves  *)
(* the keys through the aliases and upserts the relations between the      *)
(* resulting nodes.                                                        *)
(*                                                                         *)
(* An entity goes by three identities on the way.  Its name is what the    *)
(* model wrote; its id is that name with the quotes flattened, which is    *)
(* all a relation refers to; its natural key is the normalised name with   *)
(* the label.  Two names may share an id, a normalised name, both or none. *)
(* What is stamped on a node (author, timestamp, span) is left out.        *)
(***************************************************************************)
EXTENDS Naturals, Sequences, Functions

CONSTANTS
    Names,       \* entity names the extractor may return
    Ids,         \* EntityNode ids
    IdOf,        \* EntityNode.id of each name
    Normal,      \* normalised names
    NormOf,      \* normalize() of each name
    Tables,      \* contents entity_aliases may have
    MaxTriplets, \* bound on the triplets of a document
    None

\* _KG_VALIDATION_SCHEMA; strict=True prunes every other triplet.
Schema ==
    {<<"DECISION", "SUPERSEDES", "DECISION">>, <<"DECISION", "EVIDENCED_BY", "EVIDENCE">>,
     <<"DECISION", "AFFECTS", "ENTITY">>, <<"DECISION", "DEPENDS_ON", "ENTITY">>,
     <<"ENTITY", "AFFECTS", "ENTITY">>, <<"ENTITY", "DEPENDS_ON", "ENTITY">>,
     <<"ENTITY", "PART_OF", "ENTITY">>, <<"ENTITY", "EVIDENCED_BY", "EVIDENCE">>}

\* _PossibleEntities and _PossibleRelations.
Labels == {"DECISION", "ENTITY", "EVIDENCE"}
RelationLabels == {"SUPERSEDES", "EVIDENCED_BY", "AFFECTS", "DEPENDS_ON", "PART_OF"}

Keys == [name : Normal, label : Labels]

ASSUME NameAssumption == IdOf \in [Names -> Ids] /\ NormOf \in [Names -> Normal]
\* merge_alias() gives the survivor the label of its alias.
ASSUME AliasAssumption ==
    \A a \in Tables : /\ DOMAIN a \subseteq Keys
                      /\ \A k \in DOMAIN a : a[k] \in Keys /\ a[k].label = k.label
ASSUME NoneAssumption == None \notin Keys /\ None \notin Names
ASSUME BoundAssumption == MaxTriplets \in Nat

VARIABLES
    triplets,   \* what the extractor returned
    aliases,    \* the alias table persist_pending() reads
    at,         \* the loop under way, or how it ended
    i,          \* the triplet the loop is at
    idToKey,    \* id_to_key
    nodes,      \* nodes_by_key: the name of the first node of a key
    decisions,
    relations,  \* relations_by_id, whose values follow from its keys
    resolved,   \* resolved_by_natural_key
    edges       \* the relations upserted in Neo4j

vars == <<triplets, aliases, at, i, idToKey, nodes, decisions, relations, resolved, edges>>

-----------------------------------------------------------------------------
(* Vocabulary *)

Triplets == [subject : Names, rule : Schema, object : Names]

Entities == [name : Names, label : Labels]

Subject(t) == [name |-> t.subject, label |-> t.rule[1]]
Object(t) == [name |-> t.object, label |-> t.rule[3]]

Id(e) == IdOf[e.name]

\* natural_key()
Key(e) == [name |-> NormOf[e.name], label |-> e.label]

Relations == [source : Keys, label : RelationLabels, target : Keys]

\* Bug: one id quietly becomes another node.
ConflictsNever(e) == FALSE

\* Bug: a repeated id is refused even if it is the same node.
ConflictsRepeated(e) == idToKey[Id(e)] # None

\* The id was given another natural key before: ValueError.
Conflicts(e) == idToKey[Id(e)] \notin {None, Key(e)}

\* Bug: the nodes are deduplicated by their names as written.
KnownAsWritten(e) == nodes[Key(e)] = e.name

Known(e) == nodes[Key(e)] # None

\* resolve_key() on a key: an alias stands for its survivor.
Survivor(k) == IF k \in DOMAIN aliases THEN aliases[k] ELSE k

\* Bug: the relation keeps the keys it was compiled with.
UpsertedUnresolved(r) == r

\* A relation between the nodes its ends resolved to.
Upserted(r) == [source |-> resolved[r.source], label |-> r.label,
                target |-> resolved[r.target]]

\* The keys the document contributes to, which persist_compiled_graph() returns.
Contributed == {resolved[k] : k \in {x \in Keys : resolved[x] # None}}

-----------------------------------------------------------------------------
Init == /\ triplets \in UNION {[1..n -> Triplets] : n \in 0..MaxTriplets}
        /\ aliases \in Tables
        /\ at = "subject"
        /\ i = 1
        /\ idToKey = [x \in Ids |-> None]
        /\ nodes = [k \in Keys |-> None]
        /\ decisions = <<>>
        /\ relations = {}
        /\ resolved = [k \in Keys |-> None]
        /\ edges = {}

\* One round of the loop over entity_nodes, for a node whose id is free or its own.
Take(e) ==
    /\ ~Conflicts(e)
    /\ idToKey' = [idToKey EXCEPT ![Id(e)] = Key(e)]
    /\ IF Known(e)
       THEN UNCHANGED <<nodes, decisions>>
       ELSE /\ nodes' = [nodes EXCEPT ![Key(e)] = e.name]
            /\ decisions' = IF e.label = "DECISION" THEN Append(decisions, Key(e))
                                                   ELSE decisions
    /\ UNCHANGED <<triplets, aliases, relations, resolved, edges>>

\* The extractor appends the subject of a triplet, then its object.
TakeSubject == /\ at = "subject" /\ i <= Len(triplets)
               /\ Take(Subject(triplets[i]))
               /\ at' = "object"
               /\ UNCHANGED i

TakeObject == /\ at = "object"
              /\ Take(Object(triplets[i]))
              /\ at' = "subject"
              /\ i' = i + 1

\* ValueError: the compile attempt fails.
Refuse == /\ \/ /\ at = "subject" /\ i <= Len(triplets)
                /\ Conflicts(Subject(triplets[i]))
             \/ /\ at = "object"
                /\ Conflicts(Object(triplets[i]))
          /\ at' = "refused"
          /\ UNCHANGED <<triplets, aliases, i, idToKey, nodes, decisions, relations,
                         resolved, edges>>

NodesTaken == /\ at = "subject" /\ i > Len(triplets)
              /\ at' = "relation"
              /\ i' = 1
              /\ UNCHANGED <<triplets, aliases, idToKey, nodes, decisions, relations,
                             resolved, edges>>

\* One round of the loop over relations, whose ends are node ids.
Relate ==
    /\ at = "relation" /\ i <= Len(triplets)
    /\ LET t == triplets[i]
       IN  relations' = relations \cup
               {[source |-> idToKey[Id(Subject(t))], label |-> t.rule[2],
                 target |-> idToKey[Id(Object(t))]]}
    /\ i' = i + 1
    /\ UNCHANGED <<triplets, aliases, at, idToKey, nodes, decisions, resolved, edges>>

\* persist_compiled_graph(), the loop over the compiled nodes: a node resolves
\* by its label and the name that came first.
Resolve ==
    /\ at = "relation" /\ i > Len(triplets)
    /\ resolved' = [k \in Keys |->
                      IF nodes[k] = None THEN None
                      ELSE Survivor(Key([name |-> nodes[k], label |-> k.label]))]
    /\ at' = "edges"
    /\ UNCHANGED <<triplets, aliases, i, idToKey, nodes, decisions, relations, edges>>

\* _apply_relations(): a relation an end of which is no node is skipped.
ApplyRelations ==
    /\ at = "edges"
    /\ edges' = {Upserted(r) : r \in {x \in relations : /\ resolved[x.source] # None
                                                       /\ resolved[x.target] # None}}
    /\ at' = "done"
    /\ UNCHANGED <<triplets, aliases, i, idToKey, nodes, decisions, relations, resolved>>

Next == \/ TakeSubject \/ TakeObject \/ Refuse \/ NodesTaken
        \/ Relate \/ Resolve \/ ApplyRelations

Spec == Init /\ [][Next]_vars

-----------------------------------------------------------------------------
(* Correctness *)

TypeOK ==
    /\ triplets \in Seq(Triplets)
    /\ aliases \in Tables
    /\ at \in {"subject", "object", "refused", "relation", "edges", "done"}
    /\ i \in 1..Len(triplets) + 1
    /\ at = "object" => i <= Len(triplets)
    /\ idToKey \in [Ids -> Keys \cup {None}]
    /\ nodes \in [Keys -> Names \cup {None}]
    /\ decisions \in Seq(Keys)
    /\ relations \subseteq Relations
    /\ resolved \in [Keys -> Keys \cup {None}]
    /\ edges \subseteq Relations

\* Everything the extractor named.
Named == UNION {{Subject(triplets[n]), Object(triplets[n])} : n \in DOMAIN triplets}

\* One id for two natural keys: no relation could tell which of them it means.
Ambiguous == \E e, f \in Named : Id(e) = Id(f) /\ Key(e) # Key(f)

\* An attempt is refused for such an id and for nothing else, in whatever order
\* the nodes came.
RefusedIffAmbiguous ==
    /\ at = "refused" => Ambiguous
    /\ at \in {"relation", "edges", "done"} => ~Ambiguous

NodeKeys == {k \in Keys : nodes[k] # None}

RelationOf(t) == [source |-> Key(Subject(t)), label |-> t.rule[2], target |-> Key(Object(t))]

\* Nothing is lost and nothing made up between the extractor and compiled_graph:
\* the nodes are those named, the relations those extracted, and every Decision
\* is listed once, however often and in whatever spelling it was named.  The
\* graph depends on the set of triplets, not on their order.
GraphOfTriplets ==
    at \in {"edges", "done"} =>
        /\ NodeKeys = {Key(e) : e \in Named}
        /\ relations = {RelationOf(triplets[n]) : n \in DOMAIN triplets}
        /\ Range(decisions) = {k \in NodeKeys : k.label = "DECISION"}
        /\ IsInjective(decisions)

\* "Decision 3's guardrail" (compiler.py) holds to the end: ids, keys, aliases
\* and the two loops that translate between them leave every relation, in
\* compiled_graph and in Neo4j, between labels the schema allows it.
SchemaKept ==
    \A r \in relations \cup edges : <<r.source.label, r.label, r.target.label>> \in Schema

\* Every relation of the document reaches Neo4j, between nodes the document
\* contributes to, also when an end was merged into its survivor: none is
\* skipped, and none resurrects a node without provenance.
EdgesContributed ==
    at = "done" =>
        /\ edges = {[source |-> Survivor(r.source), label |-> r.label,
                     target |-> Survivor(r.target)] : r \in relations}
        /\ \A r \in edges : {r.source, r.target} \subseteq Contributed

-----------------------------------------------------------------------------
(* The inductive invariant: why they hold *)

\* The entities the first loop has taken.
Taken ==
    LET all == at \in {"relation", "edges", "done"}
    IN  {Subject(triplets[n]) : n \in {m \in DOMAIN triplets :
                                          all \/ m < i \/ (m = i /\ at = "object")}}
          \cup {Object(triplets[n]) : n \in {m \in DOMAIN triplets : all \/ m < i}}

\* At a refusal the loop had got as far as some entity that conflicts.
Blamed == at = "refused" => Ambiguous

\* id_to_key and nodes_by_key hold what was taken and nothing else.
Mapped ==
    at # "refused" =>
        /\ \A e \in Taken : idToKey[Id(e)] = Key(e) /\ nodes[Key(e)] # None
        /\ \A x \in Ids : idToKey[x] # None => \E e \in Taken : Id(e) = x
        /\ \A k \in NodeKeys : /\ k \in {Key(e) : e \in Taken}
                               /\ NormOf[nodes[k]] = k.name

\* A Decision is listed when its node is made.
Listed == /\ Range(decisions) = {k \in NodeKeys : k.label = "DECISION"}
          /\ IsInjective(decisions)

\* The relations are those of the triplets the second loop has done.
Related ==
    relations = {RelationOf(triplets[n]) :
                    n \in {m \in DOMAIN triplets :
                           at \in {"edges", "done"} \/ (at = "relation" /\ m < i)}}

\* A node resolves to its own survivor, whichever spelling came first.
Resolved ==
    at \in {"edges", "done"} =>
        \A k \in Keys : resolved[k] = IF nodes[k] = None THEN None ELSE Survivor(k)

Applied == IF at = "done" THEN edges = {Upserted(r) : r \in relations} ELSE edges = {}

IInv == TypeOK /\ Blamed /\ Mapped /\ Listed /\ Related /\ Resolved /\ Applied
=============================================================================
