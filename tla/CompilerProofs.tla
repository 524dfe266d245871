--------------------------- MODULE CompilerProofs ---------------------------
(***************************************************************************)
(* Proofs about Compiler, for any names, ids and aliases and any number of *)
(* triplets.  The invariant says what the first loop has put in id_to_key  *)
(* and nodes_by_key at every point: exactly the keys of the entities taken *)
(* so far, one for each id.  Everything else is read off these two tables. *)
(***************************************************************************)
EXTENDS Compiler, TLAPS

-----------------------------------------------------------------------------
(* Vocabulary *)

\* The labels of a rule of the schema are among the Literals.
LEMMA RuleTyped ==
    ASSUME NEW t \in Triplets
    PROVE  /\ t.rule \in Schema
           /\ Subject(t) \in Entities /\ Object(t) \in Entities
           /\ t.rule[2] \in RelationLabels
           /\ Subject(t).label = t.rule[1] /\ Object(t).label = t.rule[3]
<1>1. t.rule \in Schema /\ t.subject \in Names /\ t.object \in Names
  BY DEF Triplets
<1>2. /\ t.rule[1] \in Labels /\ t.rule[3] \in Labels
      /\ t.rule[2] \in RelationLabels
  BY <1>1 DEF Schema, Labels, RelationLabels
<1> QED  BY <1>1, <1>2 DEF Subject, Object, Entities

\* Ids and natural keys are typed.
LEMMA KeyTyped ==
    ASSUME NEW e \in Entities
    PROVE  Id(e) \in Ids /\ Key(e) \in Keys /\ Key(e) # None
  BY NameAssumption, NoneAssumption DEF Entities, Id, Key, Keys

\* A survivor is a key, of the label of the key it stands for.
LEMMA SurvivorTyped ==
    ASSUME aliases \in Tables, NEW k \in Keys
    PROVE  Survivor(k) \in Keys /\ Survivor(k).label = k.label
  BY AliasAssumption DEF Survivor

\* An element of the sequence of triplets is a triplet.
LEMMA TripletTyped ==
    ASSUME TypeOK, NEW n \in DOMAIN triplets
    PROVE  triplets[n] \in Triplets
  BY DEF TypeOK

\* What was taken or named is an entity.
LEMMA TakenTyped ==
    ASSUME TypeOK
    PROVE  Taken \subseteq Named /\ Named \subseteq Entities
<1>1. \A n \in DOMAIN triplets :
          Subject(triplets[n]) \in Entities /\ Object(triplets[n]) \in Entities
  BY TripletTyped, RuleTyped
<1> QED  BY <1>1 DEF Taken, Named

\* At a subject that subject comes next.
LEMMA TakenSubject ==
    ASSUME TypeOK, at = "subject", i <= Len(triplets),
           at' = "object", i' = i, triplets' = triplets
    PROVE  Taken' = Taken \cup {Subject(triplets[i])}
<1>1. i \in DOMAIN triplets /\ i \in Nat
  BY DEF TypeOK
<1>2. {m \in DOMAIN triplets : m < i \/ m = i} = {m \in DOMAIN triplets : m < i} \cup {i}
  BY <1>1
<1> QED  BY <1>1, <1>2 DEF Taken

\* At an object that object comes next.
LEMMA TakenObject ==
    ASSUME TypeOK, at = "object",
           at' = "subject", i' = i + 1, triplets' = triplets
    PROVE  Taken' = Taken \cup {Object(triplets[i])}
<1>1. i \in DOMAIN triplets /\ i \in Nat /\ DOMAIN triplets \subseteq Nat
  BY DEF TypeOK
<1>2. /\ {m \in DOMAIN triplets : m < i + 1} = {m \in DOMAIN triplets : m < i \/ m = i}
      /\ {m \in DOMAIN triplets : m < i + 1} = {m \in DOMAIN triplets : m < i} \cup {i}
  BY <1>1
<1> QED  BY <1>1, <1>2 DEF Taken

\* Behind the first loop everything is taken.
LEMMA TakenAll ==
    ASSUME TypeOK,
           \/ at \in {"relation", "edges", "done"}
           \/ at = "subject" /\ i > Len(triplets)
    PROVE  Taken = Named
<1>1. DOMAIN triplets = 1..Len(triplets) /\ Len(triplets) \in Nat /\ i \in Nat
  BY DEF TypeOK
<1>2. CASE at \in {"relation", "edges", "done"}
  BY <1>2 DEF Taken, Named
<1>3. CASE at = "subject" /\ i > Len(triplets)
  <2>1. \A m \in DOMAIN triplets : m < i
    BY <1>1, <1>3
  <2> QED  BY <1>3, <2>1 DEF Taken, Named
<1> QED  BY <1>2, <1>3

\* Appending adds one element, which keeps a sequence without repetitions such
\* if it is new.
LEMMA AppendRange ==
    ASSUME NEW s \in Seq(Keys), NEW k \in Keys
    PROVE  /\ Append(s, k) \in Seq(Keys)
           /\ Range(Append(s, k)) = Range(s) \cup {k}
           /\ IsInjective(s) /\ k \notin Range(s) => IsInjective(Append(s, k))
<1> DEFINE a == Append(s, k)
<1>1. /\ a \in Seq(Keys) /\ Len(s) \in Nat
      /\ DOMAIN s = 1..Len(s) /\ DOMAIN a = 1..(Len(s) + 1)
      /\ \A n \in 1..Len(s) : a[n] = s[n]
      /\ a[Len(s) + 1] = k
  OBVIOUS
<1>2. DOMAIN a = DOMAIN s \cup {Len(s) + 1}
  BY <1>1
<1>3. Range(a) = Range(s) \cup {k}
  BY <1>1, <1>2 DEF Range
<1>4. ASSUME IsInjective(s), k \notin Range(s) PROVE IsInjective(a)
  BY <1>1, <1>2, <1>4 DEF IsInjective, Range
<1> QED  BY <1>1, <1>3, <1>4

-----------------------------------------------------------------------------
(* The initial state and the loop over the nodes *)

\* Nothing is taken and nothing is mapped.
LEMMA InvInit == Init => IInv
<1> SUFFICES ASSUME Init PROVE IInv
  OBVIOUS
<1>1. TypeOK
  <2>1. PICK n \in 0..MaxTriplets : triplets \in [1..n -> Triplets]
    BY DEF Init
  <2>2. triplets \in Seq(Triplets) /\ Len(triplets) \in Nat
    BY <2>1, BoundAssumption
  <2> QED  BY <2>2 DEF Init, TypeOK
<1>2. Taken = {}
  BY DEF Init, Taken, TypeOK
<1>3. NodeKeys = {}
  BY DEF Init, NodeKeys
<1>4. Range(decisions) = {} /\ IsInjective(decisions)
  BY DEF Init, Range, IsInjective
<1>5. Mapped
  BY <1>2, <1>3 DEF Init, Mapped
<1>6. Related
  BY DEF Init, Related, TypeOK
<1> QED  BY <1>1, <1>3, <1>4, <1>5, <1>6 DEF Init, IInv, Blamed, Listed, Resolved, Applied

\* A node that was taken has its id and its key in the tables.
LEMMA TakeMapped ==
    ASSUME TypeOK, Mapped, at # "refused", NEW e \in Entities, Take(e),
           Taken' = Taken \cup {e}
    PROVE  Mapped'
<1>1. Id(e) \in Ids /\ Key(e) \in Keys /\ Key(e) # None /\ e.name \in Names /\ e.name # None
  BY KeyTyped, NoneAssumption DEF Entities
<1>2. /\ idToKey \in [Ids -> Keys \cup {None}]
      /\ nodes \in [Keys -> Names \cup {None}]
      /\ Taken \subseteq Entities
  BY TakenTyped DEF TypeOK
<1>3. /\ idToKey' = [idToKey EXCEPT ![Id(e)] = Key(e)]
      /\ idToKey[Id(e)] \in {None, Key(e)}
      /\ \/ nodes[Key(e)] # None /\ nodes' = nodes
         \/ nodes[Key(e)] = None /\ nodes' = [nodes EXCEPT ![Key(e)] = e.name]
  BY DEF Take, Conflicts, Known
<1>4. ASSUME NEW f \in Taken'
      PROVE  idToKey'[Id(f)] = Key(f) /\ nodes'[Key(f)] # None
  <2>1. f \in Entities /\ Id(f) \in Ids /\ Key(f) \in Keys /\ Key(f) # None
    BY <1>2, <1>4, KeyTyped
  <2>2. CASE f = e
    BY <1>1, <1>2, <1>3, <2>2
  <2>3. CASE f # e
    <3>1. idToKey[Id(f)] = Key(f) /\ nodes[Key(f)] # None
      BY <1>4, <2>3 DEF Mapped
    <3> QED  BY <1>1, <1>2, <1>3, <2>1, <3>1
  <2> QED  BY <2>2, <2>3
<1>5. ASSUME NEW x \in Ids, idToKey'[x] # None
      PROVE  \E f \in Taken' : Id(f) = x
  BY <1>1, <1>2, <1>3, <1>5 DEF Mapped
<1>6. ASSUME NEW k \in NodeKeys'
      PROVE  k \in {Key(f) : f \in Taken'} /\ NormOf[nodes'[k]] = k.name
  <2>1. k \in Keys /\ nodes'[k] # None
    BY DEF NodeKeys
  <2>2. CASE nodes[k] # None
    <3>1. nodes'[k] = nodes[k] /\ k \in NodeKeys
      BY <1>1, <1>2, <1>3, <2>1, <2>2 DEF NodeKeys
    <3> QED  BY <3>1 DEF Mapped
  <2>3. CASE nodes[k] = None
    <3>1. k = Key(e) /\ nodes'[k] = e.name
      BY <1>1, <1>2, <1>3, <2>1, <2>3
    <3>2. NormOf[e.name] = k.name
      BY <3>1 DEF Key
    <3> QED  BY <3>1, <3>2
  <2> QED  BY <2>2, <2>3
<1> QED  BY <1>4, <1>5, <1>6 DEF Mapped, Id, Key

\* The tables stay typed, and a Decision is listed with its node.
LEMMA TakeListed ==
    ASSUME TypeOK, Listed, NEW e \in Entities, Take(e)
    PROVE  /\ Listed'
           /\ idToKey' \in [Ids -> Keys \cup {None}]
           /\ nodes' \in [Keys -> Names \cup {None}]
           /\ decisions' \in Seq(Keys)
<1>1. Key(e) \in Keys /\ e.name \in Names /\ e.name # None /\ Key(e).label = e.label
  BY KeyTyped, NoneAssumption DEF Entities, Key
<1>2. idToKey' \in [Ids -> Keys \cup {None}]
  BY <1>1, KeyTyped DEF Take, TypeOK
<1>3. nodes \in [Keys -> Names \cup {None}] /\ decisions \in Seq(Keys)
  BY DEF TypeOK
<1>4. CASE nodes[Key(e)] # None
  <2>1. nodes' = nodes /\ decisions' = decisions
    BY <1>4 DEF Take, Known
  <2>2. NodeKeys' = NodeKeys
    BY <2>1 DEF NodeKeys
  <2> QED  BY <1>2, <1>3, <2>1, <2>2 DEF Listed
<1>5. CASE nodes[Key(e)] = None
  <2>1. /\ nodes' = [nodes EXCEPT ![Key(e)] = e.name]
        /\ decisions' = IF e.label = "DECISION" THEN Append(decisions, Key(e))
                                               ELSE decisions
    BY <1>5 DEF Take, Known
  <2>2. nodes' \in [Keys -> Names \cup {None}]
    BY <1>1, <1>3, <2>1
  <2>3. NodeKeys' = NodeKeys \cup {Key(e)} /\ Key(e) \notin NodeKeys
    BY <1>1, <1>3, <1>5, <2>1 DEF NodeKeys
  <2>4. Range(decisions) = {k \in NodeKeys : k.label = "DECISION"}
    BY DEF Listed
  <2>5. CASE e.label = "DECISION"
    <3>1. decisions' = Append(decisions, Key(e))
      BY <2>1, <2>5
    <3>2. Key(e) \notin Range(decisions)
      BY <2>3, <2>4
    <3>3. /\ decisions' \in Seq(Keys)
          /\ Range(decisions') = Range(decisions) \cup {Key(e)}
          /\ IsInjective(decisions')
      BY <1>1, <1>3, <3>1, <3>2, AppendRange DEF Listed
    <3>4. Range(decisions') = {k \in NodeKeys' : k.label = "DECISION"}
      BY <1>1, <2>3, <2>4, <2>5, <3>3
    <3> QED  BY <1>2, <2>2, <3>3, <3>4 DEF Listed
  <2>6. CASE e.label # "DECISION"
    <3>1. decisions' = decisions
      BY <2>1, <2>6
    <3>2. {k \in NodeKeys' : k.label = "DECISION"} = {k \in NodeKeys : k.label = "DECISION"}
      BY <1>1, <2>3, <2>6
    <3> QED  BY <1>2, <1>3, <2>2, <2>4, <3>1, <3>2 DEF Listed
  <2> QED  BY <2>5, <2>6
<1> QED  BY <1>4, <1>5

\* A conflict is an ambiguity between the node at hand and one taken before.
LEMMA ConflictBlamed ==
    ASSUME TypeOK, Mapped, at # "refused", NEW e \in Named, Conflicts(e)
    PROVE  Ambiguous
<1>1. e \in Entities /\ Id(e) \in Ids
  BY TakenTyped, KeyTyped
<1>2. idToKey[Id(e)] # None /\ idToKey[Id(e)] # Key(e)
  BY DEF Conflicts
<1>3. PICK f \in Taken : Id(f) = Id(e)
  BY <1>1, <1>2 DEF Mapped
<1>4. idToKey[Id(e)] = Key(f) /\ f \in Named
  BY <1>3, TakenTyped DEF Mapped
<1> QED  BY <1>2, <1>3, <1>4 DEF Ambiguous

-----------------------------------------------------------------------------
(* Every step keeps the invariant *)

LEMMA InvStep == IInv /\ [Next]_vars => IInv'
<1> SUFFICES ASSUME IInv, [Next]_vars PROVE IInv'
  OBVIOUS
<1> USE DEF IInv
<1>0. /\ i \in Nat /\ Len(triplets) \in Nat /\ DOMAIN triplets = 1..Len(triplets)
      /\ 1 <= i /\ i <= Len(triplets) + 1
  BY DEF TypeOK
<1>1. CASE TakeSubject
  <2> DEFINE e == Subject(triplets[i])
  <2>1. /\ at = "subject" /\ i <= Len(triplets) /\ at' = "object" /\ i' = i /\ Take(e)
        /\ UNCHANGED <<triplets, aliases, relations, resolved, edges>>
    BY <1>1 DEF TakeSubject, Take
  <2>2. e \in Entities
    BY <1>0, <2>1, TripletTyped, RuleTyped
  <2>3. Taken' = Taken \cup {e}
    BY <2>1, TakenSubject
  <2>4. Mapped'
    BY <2>1, <2>2, <2>3, TakeMapped
  <2>5. TypeOK' /\ Listed'
    BY <2>1, <2>2, TakeListed DEF TypeOK
  <2>6. Related' /\ Resolved' /\ Applied' /\ Blamed'
    BY <2>1 DEF Related, Resolved, Applied, Blamed
  <2> QED  BY <2>4, <2>5, <2>6
<1>2. CASE TakeObject
  <2> DEFINE e == Object(triplets[i])
  <2>1. /\ at = "object" /\ i <= Len(triplets) /\ at' = "subject" /\ i' = i + 1 /\ Take(e)
        /\ UNCHANGED <<triplets, aliases, relations, resolved, edges>>
    BY <1>2 DEF TakeObject, Take, TypeOK
  <2>2. e \in Entities
    BY <1>0, <2>1, TripletTyped, RuleTyped
  <2>3. Taken' = Taken \cup {e}
    BY <2>1, TakenObject
  <2>4. Mapped'
    BY <2>1, <2>2, <2>3, TakeMapped
  <2>5. i' \in 1..Len(triplets') + 1
    BY <1>0, <2>1
  <2>6. TypeOK' /\ Listed'
    BY <2>1, <2>2, <2>5, TakeListed DEF TypeOK
  <2>7. Related' /\ Resolved' /\ Applied' /\ Blamed'
    BY <2>1 DEF Related, Resolved, Applied, Blamed
  <2> QED  BY <2>4, <2>6, <2>7
<1>3. CASE Refuse
  <2>1. /\ at' = "refused" /\ at \in {"subject", "object"} /\ i <= Len(triplets)
        /\ UNCHANGED <<triplets, aliases, i, idToKey, nodes, decisions, relations,
                       resolved, edges>>
        /\ Conflicts(Subject(triplets[i])) \/ Conflicts(Object(triplets[i]))
    BY <1>3 DEF Refuse, TypeOK
  <2>2. Subject(triplets[i]) \in Named /\ Object(triplets[i]) \in Named
    BY <1>0, <2>1 DEF Named
  <2>3. Ambiguous
    BY <2>1, <2>2, ConflictBlamed
  <2>4. Ambiguous'
    BY <2>1, <2>3 DEF Ambiguous, Named
  <2>5. TypeOK' /\ Listed'
    BY <2>1 DEF TypeOK, Listed, NodeKeys
  <2> QED  BY <2>1, <2>4, <2>5 DEF Blamed, Mapped, Related, Resolved, Applied
<1>4. CASE NodesTaken
  <2>1. /\ at = "subject" /\ i > Len(triplets) /\ at' = "relation" /\ i' = 1
        /\ UNCHANGED <<triplets, aliases, idToKey, nodes, decisions, relations,
                       resolved, edges>>
    BY <1>4 DEF NodesTaken
  <2>2. TypeOK'
    BY <1>0, <2>1 DEF TypeOK
  <2>3. Taken' = Taken
    <3>1. Taken = Named /\ Named' = Named
      BY <2>1, TakenAll DEF Named
    <3>2. Taken' = Named'
      BY <2>1 DEF Taken, Named
    <3> QED  BY <3>1, <3>2
  <2>4. Mapped' /\ Listed'
    BY <2>1, <2>3 DEF Mapped, Listed, NodeKeys
  <2>5. Related'
    <3>1. \A m \in DOMAIN triplets : ~(m < 1)
      BY <1>0
    <3> QED  BY <2>1, <3>1 DEF Related
  <2> QED  BY <2>1, <2>2, <2>4, <2>5 DEF Blamed, Resolved, Applied
<1>5. CASE Relate
  <2> DEFINE t == triplets[i]
             r == [source |-> idToKey[Id(Subject(t))], label |-> t.rule[2],
                   target |-> idToKey[Id(Object(t))]]
  <2>1. /\ at = "relation" /\ at' = at /\ i <= Len(triplets) /\ i' = i + 1
        /\ relations' = relations \cup {r}
        /\ UNCHANGED <<triplets, aliases, idToKey, nodes, decisions, resolved, edges>>
    BY <1>5 DEF Relate
  <2>2. i \in DOMAIN triplets /\ t \in Triplets
    BY <1>0, <2>1, TripletTyped
  <2>3. Subject(t) \in Taken /\ Object(t) \in Taken
    BY <2>1, <2>2 DEF Taken
  <2>4. r = RelationOf(t)
    BY <2>1, <2>3 DEF Mapped, RelationOf
  <2>5. r \in Relations
    BY <2>2, <2>4, RuleTyped, KeyTyped DEF RelationOf, Relations
  <2>6. TypeOK'
    BY <1>0, <2>1, <2>5 DEF TypeOK
  <2>7. Taken' = Taken
    BY <2>1 DEF Taken
  <2>8. Mapped' /\ Listed'
    BY <2>1, <2>7 DEF Mapped, Listed, NodeKeys
  <2>9. Related'
    <3>1. {m \in DOMAIN triplets : m < i + 1} = {m \in DOMAIN triplets : m < i} \cup {i}
      BY <1>0, <2>2
    <3>2. relations = {RelationOf(triplets[n]) : n \in {m \in DOMAIN triplets : m < i}}
      BY <2>1 DEF Related
    <3>3. relations' = {RelationOf(triplets[n]) :
                           n \in {m \in DOMAIN triplets : m < i + 1}}
      BY <2>1, <2>4, <3>1, <3>2
    <3>4. relations' = {RelationOf(triplets'[n]) :
                           n \in {m \in DOMAIN triplets' : m < i'}}
      BY <2>1, <3>3
    <3> QED  BY <2>1, <3>4 DEF Related, RelationOf, Key, Subject, Object
  <2> QED  BY <2>1, <2>6, <2>8, <2>9 DEF Blamed, Resolved, Applied
<1>6. CASE Resolve
  <2>1. /\ at = "relation" /\ i > Len(triplets) /\ at' = "edges"
        /\ resolved' = [k \in Keys |->
              IF nodes[k] = None THEN None
              ELSE Survivor(Key([name |-> nodes[k], label |-> k.label]))]
        /\ UNCHANGED <<triplets, aliases, i, idToKey, nodes, decisions, relations, edges>>
    BY <1>6 DEF Resolve
  <2>2. ASSUME NEW k \in Keys, nodes[k] # None
        PROVE  Key([name |-> nodes[k], label |-> k.label]) = k
    <3>1. NormOf[nodes[k]] = k.name
      BY <2>1, <2>2 DEF Mapped, NodeKeys
    <3> QED  BY <3>1 DEF Key, Keys
  <2>3. \A k \in Keys : resolved'[k] = IF nodes[k] = None THEN None ELSE Survivor(k)
    BY <2>1, <2>2
  <2>4. resolved' \in [Keys -> Keys \cup {None}]
    <3>1. aliases \in Tables
      BY DEF TypeOK
    <3> QED  BY <2>1, <2>2, <3>1, SurvivorTyped
  <2>5. Taken' = Taken
    BY <2>1 DEF Taken
  <2>6. TypeOK' /\ Mapped' /\ Listed'
    BY <2>1, <2>4, <2>5 DEF TypeOK, Mapped, Listed, NodeKeys
  <2>7. Related'
    <3>1. \A m \in DOMAIN triplets : m < i
      BY <1>0, <2>1
    <3> QED  BY <2>1, <3>1 DEF Related
  <2>8. Resolved'
    BY <2>1, <2>3 DEF Resolved, Survivor
  <2> QED  BY <2>1, <2>6, <2>7, <2>8 DEF Blamed, Applied
<1>7. CASE ApplyRelations
  <2>1. /\ at = "edges" /\ at' = "done"
        /\ edges' = {Upserted(r) : r \in {x \in relations : /\ resolved[x.source] # None
                                                           /\ resolved[x.target] # None}}
        /\ UNCHANGED <<triplets, aliases, i, idToKey, nodes, decisions, relations, resolved>>
    BY <1>7 DEF ApplyRelations
  <2>2. ASSUME NEW r \in relations
        PROVE  /\ r \in Relations
               /\ resolved[r.source] # None /\ resolved[r.target] # None
    <3>1. PICK n \in DOMAIN triplets : r = RelationOf(triplets[n])
      BY <2>1 DEF Related
    <3>2. Subject(triplets[n]) \in Taken /\ Object(triplets[n]) \in Taken
      BY <2>1 DEF Taken
    <3>3. r.source = Key(Subject(triplets[n])) /\ r.target = Key(Object(triplets[n]))
      BY <3>1 DEF RelationOf
    <3>4. nodes[r.source] # None /\ nodes[r.target] # None
      BY <2>1, <3>2, <3>3 DEF Mapped
    <3>5. r \in Relations /\ r.source \in Keys /\ r.target \in Keys
      BY DEF TypeOK, Relations
    <3>6. Survivor(r.source) # None /\ Survivor(r.target) # None
      BY <3>5, SurvivorTyped, NoneAssumption DEF TypeOK
    <3> QED  BY <2>1, <3>4, <3>5, <3>6 DEF Resolved
  <2>3. edges' = {Upserted(r) : r \in relations}
    BY <2>1, <2>2
  <2>4. edges' \subseteq Relations
    <3>1. ASSUME NEW r \in relations PROVE Upserted(r) \in Relations
      <4>1. r \in Relations /\ resolved \in [Keys -> Keys \cup {None}]
        BY DEF TypeOK
      <4> QED  BY <2>2, <4>1 DEF Upserted, Relations
    <3> QED  BY <2>3, <3>1
  <2>5. Taken' = Taken
    BY <2>1 DEF Taken
  <2>6. TypeOK' /\ Mapped' /\ Listed'
    BY <2>1, <2>4, <2>5 DEF TypeOK, Mapped, Listed, NodeKeys
  <2>7. Related' /\ Resolved' /\ Blamed'
    BY <2>1 DEF Related, Resolved, Blamed, Survivor
  <2>8. Applied'
    BY <2>1, <2>3 DEF Applied, Upserted
  <2> QED  BY <2>6, <2>7, <2>8
<1>8. CASE UNCHANGED vars
  <2>1. TypeOK' /\ Listed' /\ Related'
    BY <1>8 DEF vars, TypeOK, Listed, NodeKeys, Related
  <2>2. Taken' = Taken /\ Named' = Named
    BY <1>8 DEF vars, Taken, Named
  <2>3. Mapped' /\ Blamed'
    BY <1>8, <2>2 DEF vars, Mapped, NodeKeys, Blamed, Ambiguous
  <2>4. Resolved' /\ Applied'
    BY <1>8 DEF vars, Resolved, Survivor, Applied, Upserted
  <2> QED  BY <2>1, <2>3, <2>4
<1> QED  BY <1>1, <1>2, <1>3, <1>4, <1>5, <1>6, <1>7, <1>8 DEF Next

-----------------------------------------------------------------------------
(* The theorems *)

\* The two tables hold what was taken, the relations what was related: IInv is
\* inductive.
THEOREM Invariant == Spec => []IInv
<1> QED  BY InvInit, InvStep, PTL DEF Spec

\* A compile attempt is refused exactly for an id with two natural keys.
THEOREM Refusals == Spec => []RefusedIffAmbiguous
<1>1. ASSUME IInv, at \in {"relation", "edges", "done"} PROVE ~Ambiguous
  <2>1. Taken = Named
    BY <1>1, TakenAll DEF IInv
  <2>2. \A e \in Named : idToKey[Id(e)] = Key(e)
    BY <1>1, <2>1 DEF IInv, Mapped
  <2> QED  BY <2>2 DEF Ambiguous
<1>2. IInv => RefusedIffAmbiguous
  BY <1>1 DEF IInv, Blamed, RefusedIffAmbiguous
<1> QED  BY <1>2, Invariant, PTL

\* The compiled graph is that of the set of triplets, whatever their order.
THEOREM Faithful == Spec => []GraphOfTriplets
<1>1. ASSUME IInv, at \in {"edges", "done"} PROVE NodeKeys = {Key(e) : e \in Named}
  <2>1. Taken = Named /\ Named \subseteq Entities
    BY <1>1, TakenAll, TakenTyped DEF IInv
  <2>2. \A e \in Named : Key(e) \in Keys /\ nodes[Key(e)] # None
    BY <1>1, <2>1, KeyTyped DEF IInv, Mapped
  <2>3. \A k \in NodeKeys : k \in {Key(e) : e \in Named}
    BY <1>1, <2>1 DEF IInv, Mapped
  <2> QED  BY <2>2, <2>3 DEF NodeKeys
<1>2. IInv => GraphOfTriplets
  BY <1>1 DEF IInv, Related, Listed, GraphOfTriplets
<1> QED  BY <1>2, Invariant, PTL

\* Every relation, compiled or in Neo4j, is one the schema allows.
THEOREM Schematic == Spec => []SchemaKept
<1>1. ASSUME IInv, NEW r \in relations
      PROVE  <<r.source.label, r.label, r.target.label>> \in Schema
  <2>1. PICK n \in DOMAIN triplets : r = RelationOf(triplets[n])
    BY <1>1 DEF IInv, Related
  <2>2. triplets[n] \in Triplets
    BY <1>1, TripletTyped DEF IInv
  <2> DEFINE t == triplets[n]
  <2>3. /\ r.source.label = t.rule[1] /\ r.label = t.rule[2] /\ r.target.label = t.rule[3]
    BY <2>1, <2>2, RuleTyped DEF RelationOf, Key
  <2>4. <<t.rule[1], t.rule[2], t.rule[3]>> = t.rule /\ t.rule \in Schema
    BY <2>2, RuleTyped DEF Schema
  <2> QED  BY <2>3, <2>4
<1>2. ASSUME IInv, NEW x \in edges
      PROVE  <<x.source.label, x.label, x.target.label>> \in Schema
  <2>1. at = "done"
    BY <1>2 DEF IInv, Applied
  <2>2. PICK r \in relations : x = Upserted(r)
    BY <1>2, <2>1 DEF IInv, Applied
  <2>3. /\ x \in Relations /\ r \in Relations /\ aliases \in Tables
        /\ r.source \in Keys /\ r.target \in Keys
        /\ x.source = resolved[r.source] /\ x.target = resolved[r.target]
        /\ x.label = r.label /\ x.source \in Keys /\ x.target \in Keys
    BY <1>2, <2>2 DEF IInv, TypeOK, Upserted, Relations
  <2>4. x.source = Survivor(r.source) /\ x.target = Survivor(r.target)
    BY <1>2, <2>1, <2>3, NoneAssumption DEF IInv, Resolved
  <2>5. x.source.label = r.source.label /\ x.target.label = r.target.label
    BY <2>3, <2>4, SurvivorTyped
  <2> QED  BY <1>1, <1>2, <2>3, <2>5
<1>3. IInv => SchemaKept
  BY <1>1, <1>2 DEF SchemaKept
<1> QED  BY <1>3, Invariant, PTL

\* Every relation of a document reaches Neo4j, between nodes it contributes to.
THEOREM Contributes == Spec => []EdgesContributed
<1>1. ASSUME IInv, at = "done", NEW r \in relations
      PROVE  /\ r.source \in Keys /\ r.target \in Keys
             /\ resolved[r.source] = Survivor(r.source) /\ resolved[r.source] # None
             /\ resolved[r.target] = Survivor(r.target) /\ resolved[r.target] # None
  <2>1. PICK n \in DOMAIN triplets : r = RelationOf(triplets[n])
    BY <1>1 DEF IInv, Related
  <2>2. Subject(triplets[n]) \in Taken /\ Object(triplets[n]) \in Taken
    BY <1>1 DEF Taken
  <2>3. r.source \in Keys /\ r.target \in Keys
    BY <1>1 DEF IInv, TypeOK, Relations
  <2>4. nodes[r.source] # None /\ nodes[r.target] # None
    BY <1>1, <2>1, <2>2 DEF IInv, Mapped, RelationOf
  <2>5. Survivor(r.source) # None /\ Survivor(r.target) # None
    BY <1>1, <2>3, SurvivorTyped, NoneAssumption DEF IInv, TypeOK
  <2> QED  BY <1>1, <2>3, <2>4, <2>5 DEF IInv, Resolved
<1>2. ASSUME IInv, at = "done" PROVE EdgesContributed
  <2>1. edges = {Upserted(r) : r \in relations}
    BY <1>2 DEF IInv, Applied
  <2>2. \A r \in relations : Upserted(r) = [source |-> Survivor(r.source), label |-> r.label,
                                            target |-> Survivor(r.target)]
    BY <1>1, <1>2 DEF Upserted
  <2>3. \A r \in relations :
            Upserted(r).source \in Contributed /\ Upserted(r).target \in Contributed
    BY <1>1, <1>2 DEF Upserted, Contributed
  <2> QED  BY <2>1, <2>2, <2>3 DEF EdgesContributed
<1>3. IInv => EdgesContributed
  BY <1>2 DEF EdgesContributed
<1> QED  BY <1>3, Invariant, PTL
=============================================================================
