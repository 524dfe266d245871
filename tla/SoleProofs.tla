----------------------------- MODULE SoleProofs -----------------------------
(***************************************************************************)
(* Theorems about Persist with one worker at a time: a persist that dies,  *)
(* fails and is tried again, while other documents write the same nodes,   *)
(* leaves in the end what one that went through would have left.           *)
(***************************************************************************)
EXTENDS PersistProofs

\* There is one worker.
Sole == \A v, w \in Workers : v = w

\* The invariant's part about documents, nodes and rows.
Shared == Distinct /\ Contributed /\ HandedOver

-----------------------------------------------------------------------------
(* Documents, nodes and provenance *)

\* A step that touches neither nodes nor provenance, of a document that is not
\* persisted by it: a graph may arrive at a document nobody has claimed, a claim
\* may count, and a claimed document be found early.
LEMMA RowsKeep ==
    ASSUME TypeOK, Shared, UNCHANGED <<nodes, provenance>>,
           early \subseteq early', early' \subseteq Docs,
           \A d \in early' \ early : row'[d].token # 0,
           \A d \in Docs :
              /\ row'[d].version = row[d].version
              /\ row'[d].state = "persisted" <=> row[d].state = "persisted"
              /\ row'[d].state \in {"parsed", "approved"} => row'[d].token = 0
              /\ row'[d].token = 0 => row[d].token = 0
              /\ \/ row'[d].graph = row[d].graph
                 \/ row[d].token = 0 /\ row[d].state # "persisted"
    PROVE  Shared'
<1>1. \A d \in Docs : /\ RefKeys(d)' = RefKeys(d) /\ BookedKeys(d)' = BookedKeys(d)
                      /\ Siblings(d)' = Siblings(d)
  BY DEF RefKeys, BookedKeys, Siblings
<1>2. \A s \in Docs : Predecessors(s)' = Predecessors(s)
  BY <1>1 DEF Predecessors, Siblings
<1>3. \A d \in Docs : \/ KeysOf(d)' = KeysOf(d)
                      \/ row[d].token = 0 /\ row[d].state # "persisted"
  BY DEF KeysOf
<1>4. Distinct'
  BY DEF Shared, Distinct
<1>5. Contributed'
  <2>1. ASSUME NEW d \in Docs
        PROVE  /\ row'[d].token = 0 => RefKeys(d)' \cup BookedKeys(d)' = {} /\ d \notin early'
               /\ RefKeys(d)' \cup BookedKeys(d)' \subseteq KeysOf(d)'
    BY <1>1, <1>3 DEF Shared, Contributed
  <2> QED  BY <2>1 DEF Shared, Contributed
<1>6. HandedOver'
  <2> SUFFICES ASSUME NEW d \in Docs, row'[d].state = "persisted"
      PROVE /\ RefKeys(d)' \subseteq BookedKeys(d)'
            /\ (\A s \in Docs : d \in Predecessors(s)' => row'[s].token = 0) =>
                  RefKeys(d)' = KeysOf(d)' /\ BookedKeys(d)' = KeysOf(d)'
            /\ InTurn(d)' => \A e \in Siblings(d)' : row'[e].version < row'[d].version =>
                  row'[e].state = "persisted" /\ RefKeys(e)' \cup BookedKeys(e)' = {}
    BY DEF HandedOver
  <2>1. row[d].state = "persisted" /\ KeysOf(d)' = KeysOf(d)
    BY <1>3
  <2>2. InTurn(d)' => InTurn(d)
    BY <1>1 DEF InTurn, Siblings
  <2>3. \A e \in Siblings(d) : e \in Docs
    BY DEF Siblings
  <2> QED  BY <1>1, <1>2, <2>1, <2>2, <2>3 DEF Shared, HandedOver
<1> QED  BY <1>4, <1>5, <1>6 DEF Shared

\* A query of d's persist on node k gives a ref to none but d, on a node of its
\* graph, and takes one from none but its predecessor.
LEMMA RefsMove ==
    ASSUME TypeOK, Shared, UNCHANGED <<row, provenance, early>>,
           NEW d \in Docs, NEW prev \in Predecessors(d) \cup {None},
           row[d].state = "awaiting_merge_confirm", row[d].token # 0,
           NEW k \in Keys, \A j \in Keys \ {k} : nodes'[j] = nodes[j],
           nodes[k].refs \ {prev} \subseteq nodes'[k].refs,
           nodes'[k].refs \subseteq nodes[k].refs \cup {d},
           d \in nodes'[k].refs => d \in nodes[k].refs \/ k \in KeysOf(d),
           ~nodes'[k].alive => nodes'[k] = Gone
    PROVE  Shared'
<1>1. \A e \in Docs : /\ BookedKeys(e)' = BookedKeys(e) /\ Siblings(e)' = Siblings(e)
                      /\ Predecessors(e)' = Predecessors(e) /\ KeysOf(e)' = KeysOf(e)
  BY DEF BookedKeys, Siblings, Predecessors, KeysOf
<1>2. \A e \in Docs : e # d => RefKeys(e)' \subseteq RefKeys(e)
  BY DEF RefKeys, TypeOK
<1>3. \A e \in Docs : e # prev => RefKeys(e) \subseteq RefKeys(e)'
  BY DEF RefKeys, TypeOK
<1>4. RefKeys(d)' \subseteq RefKeys(d) \cup KeysOf(d)
  BY DEF RefKeys, TypeOK
<1>5. Contributed'
  <2>1. \A e \in Docs : /\ row[e].token = 0 => RefKeys(e)' = {}
                        /\ RefKeys(e)' \subseteq KeysOf(e)
    BY <1>2, <1>4 DEF Shared, Contributed
  <2>2. \A j \in Keys : ~nodes'[j].alive => nodes'[j] = Gone
    BY DEF Shared, Contributed, TypeOK
  <2> QED  BY <1>1, <2>1, <2>2 DEF Shared, Contributed
<1>6. HandedOver'
  <2> SUFFICES ASSUME NEW f \in Docs, row[f].state = "persisted"
      PROVE /\ RefKeys(f)' \subseteq BookedKeys(f)
            /\ (\A s \in Docs : f \in Predecessors(s) => row[s].token = 0) =>
                  RefKeys(f)' = KeysOf(f) /\ BookedKeys(f) = KeysOf(f)
            /\ InTurn(f) => \A e \in Siblings(f) : row[e].version < row[f].version =>
                  row[e].state = "persisted" /\ RefKeys(e)' \cup BookedKeys(e) = {}
    BY <1>1 DEF HandedOver, InTurn, Siblings
  <2>1. f # d
    OBVIOUS
  <2>2. RefKeys(f)' \subseteq BookedKeys(f)
    BY <1>2, <2>1 DEF Shared, HandedOver
  <2>3. ASSUME \A s \in Docs : f \in Predecessors(s) => row[s].token = 0
        PROVE  RefKeys(f)' = KeysOf(f) /\ BookedKeys(f) = KeysOf(f)
    <3>1. f # prev
      BY <2>3, NoneIsNothing
    <3>2. RefKeys(f) = KeysOf(f) /\ BookedKeys(f) = KeysOf(f)
      BY <2>3 DEF Shared, HandedOver
    <3>3. RefKeys(f)' = RefKeys(f)
      BY <1>2, <1>3, <2>1, <3>1
    <3> QED  BY <3>2, <3>3
  <2>4. ASSUME InTurn(f), NEW e \in Siblings(f), row[e].version < row[f].version
        PROVE  row[e].state = "persisted" /\ RefKeys(e)' \cup BookedKeys(e) = {}
    <3>1. e \in Docs /\ row[e].state = "persisted" /\ RefKeys(e) \cup BookedKeys(e) = {}
      BY <2>4 DEF Shared, HandedOver, Siblings
    <3> QED  BY <1>2, <3>1
  <2> QED  BY <2>2, <2>3, <2>4
<1> QED  BY <1>5, <1>6 DEF Shared, Distinct

\* The bookkeeping of d: its rows are those of its graph, and its predecessor,
\* which has no refs by then, has no rows.
LEMMA BookMoves ==
    ASSUME TypeOK, Shared, UNCHANGED <<row, nodes, early>>,
           NEW d \in Docs, NEW prev \in Predecessors(d) \cup {None},
           row[d].state = "awaiting_merge_confirm", row[d].token # 0,
           prev # None /\ row[prev].state = "persisted" => RefKeys(prev) = {},
           provenance' = {x \in provenance : x[2] # prev} \cup (KeysOf(d) \X {d})
    PROVE  Shared'
<1>1. \A e \in Docs : /\ RefKeys(e)' = RefKeys(e) /\ Siblings(e)' = Siblings(e)
                      /\ Predecessors(e)' = Predecessors(e) /\ KeysOf(e)' = KeysOf(e)
  BY DEF RefKeys, Siblings, Predecessors, KeysOf
<1>2. \A e \in Docs : e # d => BookedKeys(e)' \subseteq BookedKeys(e)
  BY DEF BookedKeys
<1>3. \A e \in Docs : e # prev => BookedKeys(e) \subseteq BookedKeys(e)'
  BY DEF BookedKeys
<1>4. BookedKeys(d)' \subseteq BookedKeys(d) \cup KeysOf(d)
  BY DEF BookedKeys
<1>5. Contributed'
  <2>1. \A e \in Docs : /\ row[e].token = 0 => BookedKeys(e)' = {}
                        /\ BookedKeys(e)' \subseteq KeysOf(e)
    BY <1>2, <1>4 DEF Shared, Contributed
  <2> QED  BY <1>1, <2>1 DEF Shared, Contributed
<1>6. HandedOver'
  <2> SUFFICES ASSUME NEW f \in Docs, row[f].state = "persisted"
      PROVE /\ RefKeys(f) \subseteq BookedKeys(f)'
            /\ (\A s \in Docs : f \in Predecessors(s) => row[s].token = 0) =>
                  RefKeys(f) = KeysOf(f) /\ BookedKeys(f)' = KeysOf(f)
            /\ InTurn(f) => \A e \in Siblings(f) : row[e].version < row[f].version =>
                  row[e].state = "persisted" /\ RefKeys(e) \cup BookedKeys(e)' = {}
    BY <1>1 DEF HandedOver, InTurn, Siblings
  <2>1. f # d
    OBVIOUS
  <2>2. RefKeys(f) \subseteq BookedKeys(f)'
    <3>1. CASE f = prev
      BY <3>1, NoneIsNothing
    <3>2. CASE f # prev
      BY <1>3, <3>2 DEF Shared, HandedOver
    <3> QED  BY <3>1, <3>2
  <2>3. ASSUME \A s \in Docs : f \in Predecessors(s) => row[s].token = 0
        PROVE  RefKeys(f) = KeysOf(f) /\ BookedKeys(f)' = KeysOf(f)
    <3>1. f # prev
      BY <2>3, NoneIsNothing
    <3>2. RefKeys(f) = KeysOf(f) /\ BookedKeys(f) = KeysOf(f)
      BY <2>3 DEF Shared, HandedOver
    <3>3. BookedKeys(f)' = BookedKeys(f)
      BY <1>2, <1>3, <2>1, <3>1
    <3> QED  BY <3>2, <3>3
  <2>4. ASSUME InTurn(f), NEW e \in Siblings(f), row[e].version < row[f].version
        PROVE  row[e].state = "persisted" /\ RefKeys(e) \cup BookedKeys(e)' = {}
    <3>1. e \in Docs /\ row[e].state = "persisted" /\ RefKeys(e) \cup BookedKeys(e) = {}
      BY <2>4 DEF Shared, HandedOver, Siblings
    <3> QED  BY <1>2, <3>1
  <2> QED  BY <2>2, <2>3, <2>4
<1> QED  BY <1>5, <1>6 DEF Shared, Distinct

\* A version above another of its filename has a predecessor, at least as high.
LEMMA PredecessorBelow ==
    ASSUME TypeOK, Lineage, NEW d \in Docs, NEW e \in Siblings(d),
           row[e].version < row[d].version
    PROVE  \E p \in Predecessors(d) : row[e].version <= row[p].version
<1> DEFINE n == row[d].version
           L == LatestVersion(d)
<1>1. /\ e \in Docs /\ row[e].version \in Nat /\ row[e].version # 0 /\ n \in Nat
      /\ L \in Nat /\ VersionsOf(d) = 1..L
  BY DEF Siblings, TypeOK, Rows, Lineage
<1>2. d \in Siblings(d)
  BY <1>1 DEF Siblings
<1>3. n \in VersionsOf(d)
  BY <1>2 DEF VersionsOf
<1>4. n - 1 \in VersionsOf(d)
  <2> HIDE DEF n, L
  <2> QED  BY <1>1, <1>3 DEF n
<1>5. PICK p \in Siblings(d) : row[p].version = n - 1
  BY <1>4 DEF VersionsOf
<1>6. p \in Predecessors(d)
  BY <1>1, <1>5 DEF Predecessors
<1> QED  BY <1>1, <1>5, <1>6

\* The release of a document whose refs and rows are all in place.
LEMMA PersistedMoves ==
    ASSUME TypeOK, Lineage, Shared, UNCHANGED <<nodes, provenance, early>>,
           NEW d \in Docs,
           \A e \in Docs : /\ row'[e].version = row[e].version /\ row'[e].graph = row[e].graph
                          /\ row'[e].token = row[e].token
                          /\ row'[e].state = IF e = d THEN "persisted" ELSE row[e].state,
           RefKeys(d) = KeysOf(d), BookedKeys(d) = KeysOf(d),
           \A p \in Predecessors(d) :
              /\ d \notin early => row[p].state = "persisted"
              /\ row[p].state = "persisted" => RefKeys(p) = {}
              /\ BookedKeys(p) = {}
    PROVE  Shared'
<1>1. \A e \in Docs : /\ row'[e].version = row[e].version /\ row'[e].graph = row[e].graph
                      /\ row'[e].token = row[e].token
                      /\ row'[e].state = IF e = d THEN "persisted" ELSE row[e].state
  OBVIOUS
<1>2. \A e \in Docs : /\ RefKeys(e)' = RefKeys(e) /\ BookedKeys(e)' = BookedKeys(e)
                      /\ Siblings(e)' = Siblings(e) /\ KeysOf(e)' = KeysOf(e)
  BY <1>1 DEF RefKeys, BookedKeys, Siblings, KeysOf
<1>3. \A s \in Docs : Predecessors(s)' = Predecessors(s)
  BY <1>1, <1>2 DEF Predecessors, Siblings
<1>4. Distinct'
  BY <1>1 DEF Shared, Distinct
<1>5. Contributed'
  BY <1>1, <1>2 DEF Shared, Contributed
<1>6. HandedOver'
  <2> SUFFICES ASSUME NEW f \in Docs, row'[f].state = "persisted"
      PROVE /\ RefKeys(f) \subseteq BookedKeys(f)
            /\ (\A s \in Docs : f \in Predecessors(s) => row[s].token = 0) =>
                  RefKeys(f) = KeysOf(f) /\ BookedKeys(f) = KeysOf(f)
            /\ InTurn(f) => \A e \in Siblings(f) : row[e].version < row[f].version =>
                  row'[e].state = "persisted" /\ RefKeys(e) \cup BookedKeys(e) = {}
    BY <1>1, <1>2, <1>3 DEF HandedOver, InTurn, Siblings
  <2>1. CASE f # d
    <3>1. row[f].state = "persisted"
      BY <1>1, <2>1
    <3>2. \A e \in Docs : row[e].state = "persisted" => row'[e].state = "persisted"
      BY <1>1
    <3> QED  BY <3>1, <3>2 DEF Shared, HandedOver, Siblings
  <2>2. CASE f = d
    <3>1. ASSUME InTurn(d), NEW e \in Siblings(d), row[e].version < row[d].version
          PROVE  row'[e].state = "persisted" /\ RefKeys(e) \cup BookedKeys(e) = {}
      <4>1. PICK p \in Predecessors(d) : row[e].version <= row[p].version
        BY <3>1, PredecessorBelow
      <4>2. /\ e \in Docs /\ p \in Docs /\ d \in Siblings(d) /\ p \in Siblings(d)
            /\ row[e].version \in Nat /\ row[p].version \in Nat /\ row[d].version \in Nat
            /\ row[e].version # 0 /\ FileOf[e] = FileOf[p] /\ row[p].version + 1 = row[d].version
        BY <3>1 DEF Siblings, Predecessors, TypeOK, Rows
      <4>3. d \notin early /\ row[p].state = "persisted"
        BY <3>1, <4>2 DEF InTurn
      <4>4. CASE e = p
        BY <1>1, <4>2, <4>3, <4>4
      <4>5. CASE e # p
        <5>1. row[e].version < row[p].version
          BY <4>1, <4>2, <4>5 DEF Shared, Distinct
        <5>2. e \in Siblings(p)
          BY <4>2 DEF Siblings
        <5>3. InTurn(p)
          <6>1. \A x \in Siblings(p) : x \in Siblings(d) /\ row[x].version \in Nat
            BY <4>2 DEF Siblings, TypeOK, Rows
          <6> QED  BY <3>1, <4>2, <6>1 DEF InTurn
        <5>4. row[e].state = "persisted" /\ RefKeys(e) \cup BookedKeys(e) = {}
          BY <4>2, <4>3, <5>1, <5>2, <5>3 DEF Shared, HandedOver
        <5> QED  BY <1>1, <4>2, <5>4
      <4> QED  BY <4>4, <4>5
    <3> QED  BY <2>2, <3>1
  <2> QED  BY <2>1, <2>2
<1> QED  BY <1>4, <1>5, <1>6 DEF Shared

\* What an approval makes of the table: the new version is above all others of
\* its filename, and nobody's predecessor.
LEMMA ApproveVersions ==
    ASSUME TypeOK, Lineage, NEW d \in Docs, Approve(d)
    PROVE  /\ row[d].state = "parsed" /\ row[d].version = 0
           /\ row'[d].state = "approved" /\ row'[d].token = row[d].token
           /\ row'[d].graph = row[d].graph
           /\ \A e \in Docs \ {d} : row'[e] = row[e]
           /\ \A e \in Docs \ {d} : FileOf[e] = FileOf[d] => row[e].version < row'[d].version
           /\ \A e \in Docs \ {d} : Predecessors(e)' = Predecessors(e)
<1> DEFINE L == LatestVersion(d)
           y == [row[d] EXCEPT !.state = "approved", !.version = L + 1]
<1>1. /\ row[d].state = "parsed" /\ row[d].version = 0 /\ L \in Nat /\ VersionsOf(d) = 1..L
      /\ row[d] \in Rows
  BY DEF Approve, Lineage, TypeOK
<1>2. row' = [row EXCEPT ![d] = y]
  BY <1>1 DEF Approve, TypeOK
<1>3. /\ row'[d].state = "approved" /\ row'[d].version = L + 1
      /\ row'[d].token = row[d].token /\ row'[d].graph = row[d].graph
  <2>1. row'[d] = y
    BY <1>2 DEF TypeOK
  <2> QED  BY <1>1, <2>1 DEF Rows
<1>4. \A e \in Docs \ {d} : row'[e] = row[e]
  BY <1>2 DEF TypeOK
<1>5. ASSUME NEW e \in Docs \ {d}, FileOf[e] = FileOf[d]
      PROVE  row[e].version < L + 1
  <2>1. row[e].version \in Nat
    BY DEF TypeOK, Rows
  <2>2. CASE row[e].version # 0
    <3>1. row[e].version \in VersionsOf(d)
      BY <1>5, <2>2 DEF VersionsOf, Siblings
    <3> HIDE DEF L
    <3> QED  BY <1>1, <3>1
  <2>3. CASE row[e].version = 0
    <3> HIDE DEF L
    <3> QED  BY <1>1, <2>3
  <2> QED  BY <2>2, <2>3
<1> HIDE DEF L
<1>6. ASSUME NEW e \in Docs \ {d}
      PROVE  Predecessors(e)' = Predecessors(e)
  <2>1. d \notin Siblings(e) /\ Siblings(e)' \subseteq Siblings(e) \cup {d}
        /\ Siblings(e) \subseteq Siblings(e)'
    BY <1>1, <1>4 DEF Siblings
  <2>2. d \notin Predecessors(e)'
    <3> SUFFICES ASSUME d \in Predecessors(e)' PROVE FALSE
      OBVIOUS
    <3>1. FileOf[d] = FileOf[e] /\ row[e].version = (L + 1) + 1
      BY <1>3, <1>4 DEF Predecessors, Siblings
    <3>2. row[e].version < L + 1 /\ row[e].version \in Nat
      BY <1>5, <3>1 DEF TypeOK, Rows
    <3> QED  BY <1>1, <3>1, <3>2
  <2>3. \A x \in Siblings(e) : row'[x] = row[x]
    BY <1>4, <2>1 DEF Siblings
  <2> QED  BY <1>4, <2>1, <2>2, <2>3 DEF Predecessors
<1> QED  BY <1>1, <1>3, <1>4, <1>5, <1>6

\* An approval touches no document that was ever claimed.
LEMMA ApproveMoves ==
    ASSUME TypeOK, Lineage, Shared, NEW d \in Docs, Approve(d)
    PROVE  Shared'
<1>1. UNCHANGED <<provenance, nodes, early>>
  BY DEF Approve
<1>2. /\ row[d].state = "parsed" /\ row[d].version = 0
      /\ row'[d].state = "approved" /\ row'[d].token = row[d].token
      /\ row'[d].graph = row[d].graph
      /\ \A e \in Docs \ {d} : row'[e] = row[e]
      /\ \A e \in Docs \ {d} : FileOf[e] = FileOf[d] => row[e].version < row'[d].version
      /\ \A e \in Docs \ {d} : Predecessors(e)' = Predecessors(e)
  BY ApproveVersions
<1>3. \A e \in Docs : /\ RefKeys(e)' = RefKeys(e) /\ BookedKeys(e)' = BookedKeys(e)
                      /\ KeysOf(e)' = KeysOf(e) /\ row'[e].version \in Nat
                      /\ row[e].version \in Nat
  <2>1. \A e \in Docs : row'[e].graph = row[e].graph
    BY <1>2
  <2>2. row' \in [Docs -> Rows]
    BY ApproveLineage DEF TypeOK
  <2> QED  BY <1>1, <2>1, <2>2 DEF RefKeys, BookedKeys, KeysOf, TypeOK, Rows
<1>4. Distinct'
  <2> SUFFICES ASSUME NEW e \in Docs, NEW f \in Docs, FileOf[e] = FileOf[f],
                      row'[e].version = row'[f].version, row'[e].version # 0
               PROVE  e = f
    BY DEF Distinct
  <2> QED  BY <1>2, <1>3 DEF Shared, Distinct
<1>5. Contributed'
  <2>1. row[d].token = 0
    BY <1>2 DEF Shared, Contributed
  <2>2. \A e \in Docs : /\ row'[e].token = row[e].token
                        /\ row'[e].state \in {"parsed", "approved"} => row'[e].token = 0
    BY <1>2, <2>1 DEF Shared, Contributed
  <2> QED  BY <1>1, <1>3, <2>2 DEF Shared, Contributed
<1>6. HandedOver'
  <2> SUFFICES ASSUME NEW f \in Docs, row'[f].state = "persisted"
      PROVE /\ RefKeys(f) \subseteq BookedKeys(f)
            /\ (\A s \in Docs : f \in Predecessors(s)' => row'[s].token = 0) =>
                  RefKeys(f) = KeysOf(f) /\ BookedKeys(f) = KeysOf(f)
            /\ InTurn(f)' => \A e \in Siblings(f)' : row'[e].version < row'[f].version =>
                  row'[e].state = "persisted" /\ RefKeys(e) \cup BookedKeys(e) = {}
    BY <1>3 DEF HandedOver, InTurn, Siblings
  <2>1. f # d /\ row'[f] = row[f] /\ row[d].token = 0
    BY <1>2 DEF Shared, Contributed
  <2>2. ASSUME \A s \in Docs : f \in Predecessors(s)' => row'[s].token = 0
        PROVE  RefKeys(f) = KeysOf(f) /\ BookedKeys(f) = KeysOf(f)
    <3>1. \A s \in Docs : f \in Predecessors(s) => row[s].token = 0
      BY <1>2, <2>1, <2>2
    <3> QED  BY <2>1, <3>1 DEF Shared, HandedOver
  <2>3. ASSUME InTurn(f)', NEW e \in Siblings(f)', row'[e].version < row'[f].version
        PROVE  row'[e].state = "persisted" /\ RefKeys(e) \cup BookedKeys(e) = {}
    <3>1. e \in Docs /\ FileOf[e] = FileOf[f] /\ row'[e].version # 0
      BY <2>3 DEF Siblings
    <3>2. e # d
      BY <1>2, <1>3, <2>1, <2>3, <3>1
    <3>3. InTurn(f)
      <4>1. \A x \in Siblings(f) : x \in Siblings(f)' /\ row'[x] = row[x]
        BY <1>2, <2>1 DEF Siblings
      <4> QED  BY <1>1, <2>1, <2>3, <4>1 DEF InTurn
    <3>4. e \in Siblings(f) /\ row'[e] = row[e]
      BY <1>2, <3>1, <3>2 DEF Siblings
    <3> QED  BY <2>1, <2>3, <3>3, <3>4 DEF Shared, HandedOver
  <2> QED  BY <2>1, <2>2, <2>3 DEF Shared, HandedOver
<1> QED  BY <1>4, <1>5, <1>6 DEF Shared

\* Nothing has happened yet.
LEMMA InitShared == Init => Shared
<1> SUFFICES ASSUME Init PROVE Shared
  OBVIOUS
<1>1. \A d \in Docs : /\ row[d].version = 0 /\ row[d].token = 0 /\ row[d].state = "parsed"
                      /\ RefKeys(d) = {} /\ BookedKeys(d) = {} /\ d \notin early
  BY DEF Init, Gone, RefKeys, BookedKeys
<1>2. \A k \in Keys : nodes[k] = Gone
  BY DEF Init
<1> QED  BY <1>1, <1>2 DEF Shared, Distinct, Contributed, HandedOver

-----------------------------------------------------------------------------
(* The worker *)

\* What the worker knows and has done.
Kept(w) == Informed(w) /\ Progressed(w)

\* The predecessor of a job is the predecessor of its document.
LEMMA PreviousIs ==
    ASSUME TypeOK, Lineage, NEW w \in Workers
    PROVE  /\ job[w].previous \in Predecessors(job[w].doc) \cup {None}
           /\ job[w].previous # None => job[w].previous # job[w].doc
<1>1. CASE job[w].previous # None
  <2>1. /\ job[w].doc \in Docs /\ job[w].previous \in Docs
        /\ FileOf[job[w].previous] = FileOf[job[w].doc]
        /\ row[job[w].previous].version # 0 /\ row[job[w].previous].version \in Nat
        /\ row[job[w].doc].version = row[job[w].previous].version + 1
    BY <1>1 DEF Lineage, TypeOK, Jobs, Rows
  <2> QED  BY <2>1 DEF Predecessors, Siblings
<1> QED  BY <1>1

\* One node at a time is next.
LEMMA OneNext ==
    ASSUME TypeOK, NEW w \in Workers, NEW j \in NextKeys(w), NEW k \in NextKeys(w)
    PROVE  j = k
<1>1. /\ j \in job[w].todo /\ k \in job[w].todo
      /\ (j \in KeysOf(job[w].doc)) <=> (k \in KeysOf(job[w].doc))
  BY DEF NextKeys
<1>2. j <= k /\ k <= j
  BY <1>1 DEF NextKeys
<1>3. j \in Nat /\ k \in Nat
  BY <1>1, NumberAssumption DEF TypeOK, Jobs
<1> QED  BY <1>2, <1>3

\* The classification, case by case.
LEMMA ActionCases ==
    ASSUME NEW w, NEW k
    PROVE  /\ Action(w, k) \in {"add", "update", "unchanged"} => k \in KeysOf(job[w].doc)
           /\ Action(w, k) = "drop_ref" => k \notin KeysOf(job[w].doc)
           /\ Action(w, k) = "add" => ~job[w].existing[k].alive
           /\ Action(w, k) = "update" => job[w].existing[k].alive
           /\ Action(w, k) = "unchanged" =>
                 /\ job[w].existing[k].alive
                 /\ job[w].existing[k].content = row[job[w].doc].graph[k]
  BY DEF Action

\* A worker that has let go of its row.
LEMMA IdleKept ==
    ASSUME TypeOK, NEW w \in Workers, job' = [job EXCEPT ![w] = NoJob]
    PROVE  Kept(w)'
<1>1. job'[w].at = "idle" /\ job'[w].doc = None
  BY DEF TypeOK, NoJob
<1> QED  BY <1>1 DEF Kept, Informed, Progressed, Underway

\* A step of some row leaves what a worker knows and has done as it was.
LEMMA RowKept ==
    ASSUME TypeOK, NEW w \in Workers, Kept(w), UNCHANGED <<job, nodes, provenance, early>>,
           job[w].doc \in Docs =>
              /\ row'[job[w].doc].state = row[job[w].doc].state
              /\ row'[job[w].doc].token = row[job[w].doc].token
              /\ row'[job[w].doc].graph = row[job[w].doc].graph
              /\ Predecessors(job[w].doc)' = Predecessors(job[w].doc)
              /\ \A e \in Predecessors(job[w].doc) :
                    row'[e].state = "persisted" <=> row[e].state = "persisted"
    PROVE  Kept(w)'
<1> DEFINE d == job[w].doc
<1>1. CASE d = None
  <2>1. job[w].at = "idle"
    BY <1>1 DEF TypeOK
  <2> QED  BY <1>1, <2>1 DEF Kept, Informed, Progressed, Underway
<1>2. CASE d # None
  <2>1. d \in Docs
    BY <1>2 DEF TypeOK, Jobs
  <2>2. KeysOf(d)' = KeysOf(d) /\ NextKeys(w)' = NextKeys(w)
    BY <2>1 DEF KeysOf, NextKeys
  <2>3. \A e : BookedKeys(e)' = BookedKeys(e)
    BY DEF BookedKeys
  <2>4. \A k \in Keys : Applied(w, k)' <=> Applied(w, k)
    BY <2>1, <2>2 DEF Applied
  <2>5. \A k \in Keys : Halfway(w, k)' <=> Halfway(w, k)
    BY <2>1, <2>2 DEF Halfway
  <2>6. Informed(w)'
    BY <2>1, <2>3 DEF Kept, Informed, Underway
  <2>7. Progressed(w)'
    BY <2>1, <2>2, <2>3, <2>4, <2>5 DEF Kept, Progressed, Underway
  <2> QED  BY <2>6, <2>7 DEF Kept
<1> QED  BY <1>1, <1>2

\* db.claim() takes a compiled document and knows nothing yet.
LEMMA ClaimKept ==
    ASSUME TypeOK, NEW w \in Workers, Claim(w)
    PROVE  Kept(w)'
<1>1. PICK d \in Claimable :
         /\ row' = [row EXCEPT ![d].claimedBy = w, ![d].lease = "live", ![d].token = @ + 1]
         /\ job' = [job EXCEPT ![w] = [NoJob EXCEPT !.doc = d, !.at = "claimed",
                                                    !.token = row[d].token + 1]]
  BY DEF Claim
<1>2. d \in Docs /\ row[d] \in Rows /\ row[d].state = "awaiting_merge_confirm"
  BY DEF Claimable, TypeOK
<1>3. row'[d].state = "awaiting_merge_confirm" /\ row'[d].token = row[d].token + 1
  BY <1>1, <1>2 DEF TypeOK, Rows
<1>4. row'[d].token # 0
  BY <1>2, <1>3 DEF Rows
<1>5. /\ job'[w].doc = d /\ job'[w].at = "claimed" /\ job'[w].previous = None
      /\ job'[w].previousKeys = {}
  BY <1>1 DEF TypeOK, NoJob
<1> QED  BY <1>3, <1>4, <1>5 DEF Kept, Informed, Progressed, Underway

\* The lookup finds the predecessor, or remembers that it was not persisted.
LEMMA LineageKept ==
    ASSUME TypeOK, Distinct, NEW w \in Workers, Kept(w), ReadLineage(w)
    PROVE  Kept(w)'
<1>1. PICK d \in Docs : d = job[w].doc /\ job[w] \in Jobs /\ d # None
  BY AtWork, NoneIsNothing DEF ReadLineage
<1>2. /\ row[d].state = "awaiting_merge_confirm" /\ row[d].token # 0
      /\ job[w].previous = None /\ job[w].previousKeys = {}
  BY <1>1 DEF Kept, Informed, ReadLineage
<1>3. /\ UNCHANGED <<row, provenance>>
      /\ Predecessors(d)' = Predecessors(d)
  BY DEF ReadLineage, Predecessors, Siblings
<1>4. CASE Predecessors(d) = {} /\ job' = [job EXCEPT ![w].at = "snapshot"]
  <2>1. /\ job'[w].doc = d /\ job'[w].at = "snapshot" /\ job'[w].previous = None
        /\ job'[w].previousKeys = {}
    BY <1>1, <1>2, <1>4 DEF TypeOK, Jobs
  <2>2. BookedKeys(None)' = {}
    BY <1>3, NoneIsNothing DEF BookedKeys, TypeOK
  <2> QED  BY <1>2, <1>3, <1>4, <2>1, <2>2 DEF Kept, Informed, Progressed, Underway
<1>5. CASE \E e \in Predecessors(d) :
              /\ job' = [job EXCEPT ![w].at = "lineage", ![w].previous = e]
              /\ early' = IF row[e].state = "persisted" THEN early ELSE early \cup {d}
  <2>1. PICK e \in Predecessors(d) :
              /\ job' = [job EXCEPT ![w].at = "lineage", ![w].previous = e]
              /\ early' = IF row[e].state = "persisted" THEN early ELSE early \cup {d}
    BY <1>5
  <2>2. job'[w].doc = d /\ job'[w].at = "lineage" /\ job'[w].previous = e
    BY <1>1, <2>1 DEF TypeOK, Jobs
  <2>3. \A p \in Predecessors(d) : p = e
    <3>1. \A p \in Predecessors(d) : /\ p \in Docs /\ FileOf[p] = FileOf[e]
                                     /\ row[p].version \in Nat /\ row[p].version # 0
                                     /\ row[p].version + 1 = row[e].version + 1
      BY DEF Predecessors, Siblings, TypeOK, Rows
    <3>2. \A p \in Predecessors(d) : row[p].version = row[e].version
      BY <3>1
    <3> QED  BY <3>1, <3>2 DEF Distinct
  <2>4. d \notin early' => row[e].state = "persisted"
    BY <2>1
  <2> QED  BY <1>2, <1>3, <2>2, <2>3, <2>4 DEF Kept, Informed, Progressed, Underway
<1> QED  BY <1>1, <1>4, <1>5 DEF ReadLineage

\* The predecessor's rows are read.
LEMMA ProvenanceKept ==
    ASSUME TypeOK, NEW w \in Workers, Kept(w), ReadProvenance(w)
    PROVE  Kept(w)'
<1>1. PICK d \in Docs : d = job[w].doc /\ job[w] \in Jobs /\ d # None
  BY AtWork, NoneIsNothing DEF ReadProvenance
<1>2. UNCHANGED <<row, provenance, early>> /\ job[w].at = "lineage"
  BY DEF ReadProvenance
<1>3. PICK prev, S : prev = job[w].previous /\ S = BookedKeys(prev)
  OBVIOUS
<1>4. /\ job'[w].doc = d /\ job'[w].at = "snapshot" /\ job'[w].previous = prev
      /\ job'[w].previousKeys = S
  BY <1>1, <1>3 DEF ReadProvenance, TypeOK, Jobs
<1>5. Predecessors(d)' = Predecessors(d) /\ BookedKeys(prev)' = S
  BY <1>2, <1>3 DEF Predecessors, Siblings, BookedKeys
<1> QED  BY <1>1, <1>2, <1>3, <1>4, <1>5 DEF Kept, Informed, Progressed, Underway

\* The snapshot covers all nodes the two documents are on.
LEMMA SnapshotKept ==
    ASSUME TypeOK, Shared, NEW w \in Workers, Kept(w), Snapshot(w)
    PROVE  Kept(w)'
<1>1. PICK d \in Docs : d = job[w].doc /\ job[w] \in Jobs /\ d # None
  BY AtWork, NoneIsNothing DEF Snapshot
<1>2. PICK prev, S, T, E :
         /\ prev = job[w].previous /\ S = job[w].previousKeys
         /\ T = KeysOf(d) \cup {k \in S : nodes[k].alive}
         /\ E = [k \in Keys |-> IF k \in LookupKeys(w) THEN nodes[k] ELSE Gone]
  OBVIOUS
<1>3. UNCHANGED <<row, provenance, nodes, early>> /\ job[w].at = "snapshot"
  BY DEF Snapshot
<1>4. /\ job'[w].doc = d /\ job'[w].previous = prev
      /\ job'[w].previousKeys = S
      /\ job'[w].at \in {"apply", "mismatch"}
      /\ job'[w].todo = T /\ job'[w].existing = E
  <2>1. job' = [job EXCEPT ![w].at = IF ModelMatches(w) THEN "apply" ELSE "mismatch",
                           ![w].existing = E, ![w].todo = T]
    BY <1>1, <1>2 DEF Snapshot
  <2> QED  BY <1>1, <1>2, <2>1 DEF TypeOK, Jobs
<1>5. /\ Predecessors(d)' = Predecessors(d) /\ KeysOf(d)' = KeysOf(d)
      /\ BookedKeys(prev)' = BookedKeys(prev)
  BY <1>3 DEF Predecessors, Siblings, BookedKeys, KeysOf
<1>6. Informed(w)'
  BY <1>1, <1>2, <1>3, <1>4, <1>5 DEF Kept, Informed, Underway
<1>7. ASSUME NEW k \in Keys, k \notin T
      PROVE  Applied(w, k)'
  <2>1. k \notin KeysOf(d) /\ (k \notin BookedKeys(prev) \/ ~nodes[k].alive)
    BY <1>1, <1>2, <1>3, <1>7 DEF Kept, Informed
  <2>2. ASSUME NEW e \in Predecessors(d), row[e].state = "persisted"
        PROVE  e \notin nodes[k].refs
    <3>1. e = prev /\ e \in Docs
      BY <1>1, <1>2, <1>3 DEF Kept, Informed, Predecessors, Siblings
    <3>2. RefKeys(e) \subseteq BookedKeys(e)
      BY <2>2, <3>1 DEF Shared, HandedOver
    <3>3. ~nodes[k].alive => nodes[k].refs = {}
      BY DEF Shared, Contributed, Gone
    <3> QED  BY <2>1, <3>1, <3>2, <3>3 DEF RefKeys
  <2> QED  BY <1>3, <1>4, <1>5, <2>1, <2>2 DEF Applied
<1>8. ASSUME NEW k \in Keys, k \in T
      PROVE  nodes'[k] = job'[w].existing[k]
  BY <1>1, <1>2, <1>3, <1>4, <1>8 DEF LookupKeys
<1>9. Progressed(w)'
  BY <1>4, <1>7, <1>8 DEF Progressed, Underway
<1> QED  BY <1>6, <1>9 DEF Kept

\* A predecessor that was persisted has no ref that its rows do not tell of.
LEMMA PreviousRef ==
    ASSUME TypeOK, Shared, NEW w \in Workers, Informed(w),
           job[w].at = "snapshot" \/ Underway(w),
           NEW e \in Predecessors(job[w].doc), row[e].state = "persisted",
           NEW k \in Keys, e \in nodes[k].refs
    PROVE  e = job[w].previous /\ k \in job[w].previousKeys /\ RefToRemove(w, k) = e
<1>1. e = job[w].previous /\ job[w].previousKeys = BookedKeys(e) /\ e \in Docs
  BY DEF Informed, Underway, Predecessors, Siblings
<1>2. RefKeys(e) \subseteq BookedKeys(e)
  BY <1>1 DEF Shared, HandedOver
<1> QED  BY <1>1, <1>2 DEF RefKeys, RefToRemove

\* Node k was the next, and is now as the persist leaves it.
LEMMA NodeDone ==
    ASSUME TypeOK, NEW w \in Workers, Kept(w), Underway(w),
           UNCHANGED <<row, provenance, early>>,
           NEW k \in NextKeys(w), Done(w, k),
           \A j \in Keys \ {k} : nodes'[j] = nodes[j],
           k \in KeysOf(job[w].doc) => /\ nodes'[k].alive
                                      /\ nodes'[k].content = row[job[w].doc].graph[k]
                                      /\ job[w].doc \in nodes'[k].refs,
           \A e \in Predecessors(job[w].doc) :
              row[e].state = "persisted" => e \notin nodes'[k].refs
    PROVE  Kept(w)'
<1>1. PICK d \in Docs : d = job[w].doc /\ job[w] \in Jobs /\ d # None
  BY AtWork, NoneIsNothing DEF Underway
<1>2. /\ job'[w].doc = d /\ job'[w].at = "apply" /\ job'[w].previous = job[w].previous
      /\ job'[w].previousKeys = job[w].previousKeys
      /\ job'[w].existing = job[w].existing /\ job'[w].todo = job[w].todo \ {k}
  BY <1>1 DEF Done, TypeOK, Jobs
<1>3. PICK prev : prev = job[w].previous
  OBVIOUS
<1>4. /\ Predecessors(d)' = Predecessors(d) /\ KeysOf(d)' = KeysOf(d)
      /\ BookedKeys(prev)' = BookedKeys(prev)
  BY DEF Predecessors, Siblings, BookedKeys, KeysOf
<1>5. Informed(w)'
  BY <1>1, <1>2, <1>3, <1>4 DEF Kept, Informed, Underway
<1>6. ASSUME NEW j \in Keys, j \notin job'[w].todo
      PROVE  Applied(w, j)'
  <2>1. CASE j = k
    BY <1>1, <1>2, <1>4, <2>1 DEF Applied
  <2>2. CASE j # k
    <3>1. Applied(w, j) /\ nodes'[j] = nodes[j]
      BY <1>2, <1>6, <2>2 DEF Kept, Progressed
    <3> QED  BY <1>1, <1>2, <1>4, <3>1 DEF Applied
  <2> QED  BY <2>1, <2>2
<1>7. ASSUME NEW j \in Keys, j \in job'[w].todo
      PROVE  nodes'[j] = job'[w].existing[j]
  <2>1. j # k /\ j \in job[w].todo
    BY <1>2, <1>7
  <2>2. j \notin NextKeys(w)
    BY <2>1, OneNext
  <2> QED  BY <1>2, <2>1, <2>2 DEF Kept, Progressed
<1>8. Progressed(w)'
  BY <1>2, <1>6, <1>7 DEF Progressed
<1> QED  BY <1>5, <1>8 DEF Kept

\* The next node is still as the snapshot has it, before its first query.
LEMMA NextUntouched ==
    ASSUME TypeOK, NEW w \in Workers, Kept(w), NEW k \in NextKeys(w), job[w].at = "apply"
    PROVE  k \in Keys /\ k \in job[w].todo /\ nodes[k] = job[w].existing[k] /\ nodes[k] \in Nodes
<1>1. k \in Keys /\ k \in job[w].todo
  BY NextKeysTyped DEF NextKeys
<1> QED  BY <1>1 DEF Kept, Progressed, Underway, TypeOK

\* Between the queries on the next node.
LEMMA NextHalfway ==
    ASSUME TypeOK, NEW w \in Workers, Kept(w), NEW k \in NextKeys(w),
           job[w].at \in {"stale", "ref"}
    PROVE  k \in Keys /\ k \in job[w].todo /\ Halfway(w, k) /\ nodes[k] \in Nodes
<1>1. k \in Keys /\ k \in job[w].todo
  BY NextKeysTyped DEF NextKeys
<1> QED  BY <1>1 DEF Kept, Progressed, Underway, TypeOK

\* A query that is not the last on its node.
LEMMA NodeTouched ==
    ASSUME TypeOK, NEW w \in Workers, Kept(w), Underway(w),
           UNCHANGED <<row, provenance, early>>,
           NEW k \in NextKeys(w), NEW at \in {"stale", "ref"},
           job' = [job EXCEPT ![w].at = at],
           \A j \in Keys \ {k} : nodes'[j] = nodes[j],
           k \in KeysOf(job[w].doc), nodes'[k].alive,
           nodes'[k].refs = job[w].existing[k].refs,
           \A p \in Props : nodes'[k].content[p] =
              IF at = "stale" /\ row[job[w].doc].graph[k][p] = None
              THEN job[w].existing[k].content[p] ELSE row[job[w].doc].graph[k][p]
    PROVE  Kept(w)'
<1>1. PICK d \in Docs : d = job[w].doc /\ job[w] \in Jobs /\ d # None
  BY AtWork, NoneIsNothing DEF Underway
<1>2. /\ job'[w].doc = d /\ job'[w].at = at /\ job'[w].previous = job[w].previous
      /\ job'[w].previousKeys = job[w].previousKeys
      /\ job'[w].existing = job[w].existing /\ job'[w].todo = job[w].todo
  BY <1>1 DEF TypeOK, Jobs
<1>3. PICK prev : prev = job[w].previous
  OBVIOUS
<1>4. /\ Predecessors(d)' = Predecessors(d) /\ KeysOf(d)' = KeysOf(d)
      /\ BookedKeys(prev)' = BookedKeys(prev)
  BY DEF Predecessors, Siblings, BookedKeys, KeysOf
<1>5. Informed(w)'
  BY <1>1, <1>2, <1>3, <1>4 DEF Kept, Informed, Underway
<1>6. NextKeys(w)' = NextKeys(w)
  BY <1>1, <1>2, <1>4 DEF NextKeys
<1>7. ASSUME NEW j \in Keys, j \notin job'[w].todo
      PROVE  Applied(w, j)'
  <2>1. Applied(w, j) /\ nodes'[j] = nodes[j]
    BY <1>2, <1>7 DEF Kept, Progressed, NextKeys
  <2> QED  BY <1>1, <1>2, <1>4, <2>1 DEF Applied
<1>8. ASSUME NEW j \in Keys, j \in job'[w].todo, j \notin NextKeys(w)
      PROVE  nodes'[j] = job'[w].existing[j]
  BY <1>2, <1>8 DEF Kept, Progressed
<1>9. ASSUME NEW j \in NextKeys(w)
      PROVE  Halfway(w, j)'
  <2>1. j = k
    BY OneNext
  <2> QED  BY <1>1, <1>2, <1>4, <2>1 DEF Halfway
<1>10. Progressed(w)'
  BY <1>2, <1>6, <1>7, <1>8, <1>9 DEF Progressed
<1> QED  BY <1>5, <1>10 DEF Kept

\* Content, embedding and model go first.
LEMMA UpsertStep ==
    ASSUME IInv, Shared, NEW w \in Workers, Kept(w), Upsert(w)
    PROVE  Shared' /\ Kept(w)'
<1>0. TypeOK /\ Lineage
  BY DEF IInv
<1>1. PICK d \in Docs : d = job[w].doc /\ job[w] \in Jobs /\ row[d] \in Rows /\ d # None
  BY <1>0, AtWork, NoneIsNothing DEF Upsert
<1>2. PICK k \in NextKeys(w) :
        /\ job[w].at = "apply" /\ Action(w, k) \in {"add", "update"}
        /\ nodes' = [nodes EXCEPT ![k] = Upserted(@, row[d].graph[k], model[w])]
        /\ job' = [job EXCEPT ![w].at = IF Action(w, k) = "update" /\ StaleProps(w, k) # {}
                                        THEN "stale" ELSE "ref"]
        /\ UNCHANGED <<row, provenance, model, early, faults>>
  BY <1>1 DEF Upsert
<1>3. /\ k \in Keys /\ k \in job[w].todo /\ nodes[k] = job[w].existing[k]
      /\ nodes[k] \in Nodes /\ k \in KeysOf(d)
  BY <1>0, <1>1, <1>2, NextUntouched, ActionCases
<1>4. PICK g \in Contents : g = row[d].graph[k]
  BY <1>1, <1>3 DEF KeysOf, Rows, Graphs
<1>5. PICK n : n = Upserted(nodes[k], g, model[w])
  OBVIOUS
<1>6. n \in Nodes /\ n.refs = nodes[k].refs /\ n.alive
  BY <1>0, <1>3, <1>5, UpsertedType DEF TypeOK
<1>7. nodes' = [nodes EXCEPT ![k] = n]
  BY <1>0, <1>2, <1>3, <1>4, <1>5 DEF TypeOK
<1>8. \A p \in Props : n.content[p] = IF g[p] # None THEN g[p] ELSE nodes[k].content[p]
  BY <1>3, <1>5 DEF Upserted, Nodes
<1>9. nodes'[k] = n /\ \A j \in Keys \ {k} : nodes'[j] = nodes[j]
  BY <1>0, <1>3, <1>7 DEF TypeOK
<1>10. Shared'
  <2>1. row[d].state = "awaiting_merge_confirm" /\ row[d].token # 0
    BY <1>1 DEF Kept, Informed
  <2>2. job[w].previous \in Predecessors(d) \cup {None}
    BY <1>0, <1>1, PreviousIs
  <2> QED  BY <1>0, <1>1, <1>2, <1>3, <1>6, <1>9, <2>1, <2>2, RefsMove
<1>11. Kept(w)'
  <2>1. PICK at \in {"stale", "ref"} :
          /\ job' = [job EXCEPT ![w].at = at]
          /\ at = "ref" => Action(w, k) = "add" \/ StaleProps(w, k) = {}
    BY <1>2
  <2>2. ASSUME NEW p \in Props
        PROVE  n.content[p] = IF at = "stale" /\ g[p] = None
                              THEN job[w].existing[k].content[p] ELSE g[p]
    <3>1. CASE at = "ref" /\ g[p] = None
      <4>1. CASE Action(w, k) = "add"
        <5>1. nodes[k] = Gone
          BY <1>3, <4>1, ActionCases DEF Shared, Contributed
        <5> QED  BY <1>8, <3>1, <5>1 DEF Gone, NoContent
      <4>2. CASE StaleProps(w, k) = {}
        <5>1. job[w].existing[k].content[p] = None
          BY <1>1, <1>4, <3>1, <4>2 DEF StaleProps
        <5> QED  BY <1>3, <1>8, <3>1, <5>1
      <4> QED  BY <2>1, <3>1, <4>1, <4>2
    <3>2. CASE ~(at = "ref" /\ g[p] = None)
      BY <1>3, <1>8, <3>2
    <3> QED  BY <3>1, <3>2
  <2>3. \A p \in Props : nodes'[k].content[p] =
           IF at = "stale" /\ row[job[w].doc].graph[k][p] = None
           THEN job[w].existing[k].content[p] ELSE row[job[w].doc].graph[k][p]
    BY <1>1, <1>4, <1>9, <2>2
  <2>4. /\ k \in KeysOf(job[w].doc) /\ nodes'[k].alive
        /\ nodes'[k].refs = job[w].existing[k].refs
    BY <1>1, <1>3, <1>6, <1>9
  <2> QED  BY <1>0, <1>2, <1>9, <2>1, <2>3, <2>4, NodeTouched DEF Underway
<1> QED  BY <1>10, <1>11

\* Then the properties the new version no longer carries.
LEMMA RemoveStaleStep ==
    ASSUME IInv, Shared, NEW w \in Workers, Kept(w), RemoveStale(w)
    PROVE  Shared' /\ Kept(w)'
<1>0. TypeOK /\ Lineage
  BY DEF IInv
<1>1. PICK d \in Docs : d = job[w].doc /\ job[w] \in Jobs /\ row[d] \in Rows /\ d # None
  BY <1>0, AtWork, NoneIsNothing DEF RemoveStale
<1>2. PICK k \in NextKeys(w) :
        /\ job[w].at = "stale"
        /\ nodes' = [nodes EXCEPT ![k] = Cleaned(@, StaleProps(w, k))]
        /\ job' = [job EXCEPT ![w].at = "ref"]
        /\ UNCHANGED <<row, provenance, model, early, faults>>
  BY DEF RemoveStale
<1>3. k \in Keys /\ k \in job[w].todo /\ Halfway(w, k) /\ nodes[k] \in Nodes
  BY <1>0, <1>2, NextHalfway
<1>4. PICK g, S : g = row[d].graph[k] /\ S = StaleProps(w, k)
  OBVIOUS
<1>5. PICK n : n = Cleaned(nodes[k], S)
  OBVIOUS
<1>6. /\ n \in Nodes /\ n.refs = nodes[k].refs /\ n.alive = nodes[k].alive
      /\ \A p \in Props : n.content[p] = IF p \in S THEN None ELSE nodes[k].content[p]
  <2>1. PICK c : c = [p \in Props |-> IF p \in S THEN None ELSE nodes[k].content[p]]
    OBVIOUS
  <2>2. c \in Contents
    BY <1>3, <2>1 DEF Contents, Nodes
  <2>3. n = [nodes[k] EXCEPT !.content = c]
    BY <1>5, <2>1 DEF Cleaned
  <2> QED  BY <1>3, <2>1, <2>2, <2>3 DEF Nodes
<1>7. nodes' = [nodes EXCEPT ![k] = n]
  BY <1>0, <1>2, <1>3, <1>4, <1>5 DEF TypeOK
<1>8. nodes'[k] = n /\ \A j \in Keys \ {k} : nodes'[j] = nodes[j]
  BY <1>0, <1>3, <1>7 DEF TypeOK
<1>9. Shared'
  <2>1. row[d].state = "awaiting_merge_confirm" /\ row[d].token # 0 /\ n.alive
    BY <1>1, <1>3, <1>6 DEF Kept, Informed, Halfway
  <2>2. job[w].previous \in Predecessors(d) \cup {None}
    BY <1>0, <1>1, PreviousIs
  <2> QED  BY <1>0, <1>1, <1>2, <1>3, <1>6, <1>8, <2>1, <2>2, RefsMove
<1>10. Kept(w)'
  <2>1. ASSUME NEW p \in Props
        PROVE  n.content[p] = g[p]
    <3>1. nodes[k].content[p] = IF g[p] = None THEN job[w].existing[k].content[p] ELSE g[p]
      BY <1>1, <1>2, <1>3, <1>4 DEF Halfway
    <3>2. p \in S <=> job[w].existing[k].content[p] # None /\ g[p] = None
      BY <1>1, <1>4 DEF StaleProps
    <3> QED  BY <1>6, <3>1, <3>2
  <2>2. PICK at \in {"stale", "ref"} : at = "ref"
    OBVIOUS
  <2>3. \A p \in Props :
          nodes'[k].content[p] = IF at = "stale" /\ row[job[w].doc].graph[k][p] = None
                                 THEN job[w].existing[k].content[p]
                                 ELSE row[job[w].doc].graph[k][p]
    BY <1>1, <1>4, <1>8, <2>1, <2>2
  <2>4. /\ k \in KeysOf(job[w].doc) /\ nodes'[k].alive
        /\ nodes'[k].refs = job[w].existing[k].refs
    BY <1>1, <1>3, <1>6, <1>8 DEF Halfway
  <2> QED  BY <1>0, <1>2, <1>8, <2>2, <2>3, <2>4, NodeTouched DEF Underway
<1> QED  BY <1>9, <1>10

\* A node whose content is compared property by property.
LEMMA SameContent ==
    ASSUME NEW c \in Contents, NEW g \in Contents, \A p \in Props : c[p] = g[p]
    PROVE  c = g
  BY DEF Contents

\* The document's ref takes the place of its predecessor's.
LEMMA AddRefStep ==
    ASSUME IInv, Shared, NEW w \in Workers, Kept(w), AddRef(w)
    PROVE  Shared' /\ Kept(w)'
<1>0. TypeOK /\ Lineage
  BY DEF IInv
<1>1. PICK d \in Docs : d = job[w].doc /\ job[w] \in Jobs /\ row[d] \in Rows /\ d # None
  BY <1>0, AtWork, NoneIsNothing DEF AddRef
<1>2. PICK k \in NextKeys(w) :
        /\ job[w].at = "ref" \/ (job[w].at = "apply" /\ Action(w, k) = "unchanged")
        /\ nodes' = [nodes EXCEPT ![k] = RefAdded(@, d, RefToRemove(w, k))]
        /\ Done(w, k)
        /\ UNCHANGED <<row, provenance, model, early, faults>>
  BY <1>1 DEF AddRef
<1>3. /\ k \in Keys /\ k \in job[w].todo /\ nodes[k] \in Nodes /\ k \in KeysOf(d)
      /\ nodes[k].alive /\ nodes[k].content = row[d].graph[k]
  <2>1. CASE job[w].at = "ref"
    <3>1. k \in Keys /\ k \in job[w].todo /\ Halfway(w, k) /\ nodes[k] \in Nodes
      BY <1>0, <2>1, NextHalfway
    <3>2. row[d].graph[k] \in Contents /\ nodes[k].content \in Contents
      BY <1>1, <3>1 DEF Halfway, KeysOf, Rows, Graphs, Nodes
    <3>3. \A p \in Props : nodes[k].content[p] = row[d].graph[k][p]
      BY <1>1, <2>1, <3>1 DEF Halfway
    <3> QED  BY <1>1, <3>1, <3>2, <3>3, SameContent DEF Halfway
  <2>2. CASE job[w].at = "apply" /\ Action(w, k) = "unchanged"
    BY <1>0, <1>1, <2>2, NextUntouched, ActionCases
  <2> QED  BY <1>2, <2>1, <2>2
<1>4. PICK old : old = RefToRemove(w, k)
  OBVIOUS
<1>5. old \in {job[w].previous, None} /\ old # d /\ old \in Docs \cup {None}
  BY <1>0, <1>1, <1>4, PreviousIs DEF RefToRemove, Jobs
<1>6. PICK n : n = RefAdded(nodes[k], d, old)
  OBVIOUS
<1>7. /\ n \in Nodes /\ n.refs = (nodes[k].refs \ {old}) \cup {d}
      /\ n.alive /\ n.content = nodes[k].content
  BY <1>3, <1>6 DEF RefAdded, Nodes
<1>8. nodes' = [nodes EXCEPT ![k] = n]
  BY <1>0, <1>2, <1>3, <1>4, <1>6 DEF TypeOK
<1>9. nodes'[k] = n /\ \A j \in Keys \ {k} : nodes'[j] = nodes[j]
  BY <1>0, <1>3, <1>8 DEF TypeOK
<1>10. Shared'
  <2>1. row[d].state = "awaiting_merge_confirm" /\ row[d].token # 0
    BY <1>1 DEF Kept, Informed
  <2>2. nodes[k].refs \ {job[w].previous} \subseteq n.refs
    BY <1>3, <1>5, <1>7, NoneIsNothing DEF Nodes
  <2>3. n.refs \subseteq nodes[k].refs \cup {d}
    BY <1>7
  <2>4. job[w].previous \in Predecessors(d) \cup {None}
    BY <1>0, <1>1, PreviousIs
  <2> QED  BY <1>0, <1>1, <1>2, <1>3, <1>7, <1>9, <2>1, <2>2, <2>3, <2>4, RefsMove
<1>11. Kept(w)'
  <2>1. ASSUME NEW e \in Predecessors(d), row[e].state = "persisted"
        PROVE  e \notin n.refs
    <3>1. e \in nodes[k].refs => e = old
      BY <1>0, <1>1, <1>2, <1>3, <1>4, <2>1, PreviousRef DEF Kept, Underway
    <3>2. e # d
      BY <2>1, <1>1 DEF Kept, Informed
    <3> QED  BY <1>7, <3>1, <3>2
  <2> QED  BY <1>0, <1>1, <1>2, <1>3, <1>7, <1>9, <2>1, NodeDone DEF Underway
<1> QED  BY <1>10, <1>11

\* The predecessor's ref goes, and the node with it if it was the last.
LEMMA DropRefStep ==
    ASSUME IInv, Shared, NEW w \in Workers, Kept(w), DropRef(w)
    PROVE  Shared' /\ Kept(w)'
<1>0. TypeOK /\ Lineage
  BY DEF IInv
<1>1. PICK d \in Docs : d = job[w].doc /\ job[w] \in Jobs /\ row[d] \in Rows /\ d # None
  BY <1>0, AtWork, NoneIsNothing DEF DropRef
<1>2. PICK k \in NextKeys(w), prev \in {job[w].previous} :
        /\ prev = job[w].previous
        /\ job[w].at = "apply" /\ Action(w, k) = "drop_ref"
        /\ nodes' = [nodes EXCEPT ![k] = RefReleased(@, prev)]
        /\ Done(w, k)
        /\ UNCHANGED <<row, provenance, model, early, faults>>
  BY DEF DropRef
<1>3. /\ k \in Keys /\ k \in job[w].todo /\ nodes[k] \in Nodes /\ k \notin KeysOf(d)
  BY <1>0, <1>1, <1>2, NextUntouched, ActionCases
<1>4. PICK n : n = RefReleased(nodes[k], prev)
  OBVIOUS
<1>5. n \in Nodes /\ n.refs = nodes[k].refs \ {prev} /\ (~n.alive => n = Gone)
  <2>1. ~nodes[k].alive => nodes[k].refs = {}
    BY <1>0, <1>3 DEF Lineage
  <2>2. CASE nodes[k].alive /\ nodes[k].refs \ {prev} # {}
    BY <1>3, <1>4, <2>2 DEF RefReleased, Nodes
  <2>3. CASE ~(nodes[k].alive /\ nodes[k].refs \ {prev} # {})
    <3>1. n = Gone
      BY <1>4, <2>3 DEF RefReleased
    <3>2. Gone \in Nodes /\ Gone.refs = {}
      BY BlankTypes DEF Gone
    <3> QED  BY <2>1, <2>3, <3>1, <3>2
  <2> QED  BY <2>2, <2>3
<1>6. nodes' = [nodes EXCEPT ![k] = n]
  BY <1>0, <1>2, <1>3, <1>4 DEF TypeOK
<1>7. nodes'[k] = n /\ \A j \in Keys \ {k} : nodes'[j] = nodes[j]
  BY <1>0, <1>3, <1>6 DEF TypeOK
<1>8. Shared'
  <2>1. row[d].state = "awaiting_merge_confirm" /\ row[d].token # 0
    BY <1>1 DEF Kept, Informed
  <2>2. prev \in Predecessors(d) \cup {None}
    BY <1>0, <1>1, <1>2, PreviousIs
  <2> QED  BY <1>0, <1>1, <1>2, <1>3, <1>5, <1>7, <2>1, <2>2, RefsMove
<1>9. Kept(w)'
  <2>1. ASSUME NEW e \in Predecessors(d), row[e].state = "persisted"
        PROVE  e \notin n.refs
    <3>1. e = prev
      BY <1>1, <1>2 DEF Kept, Informed
    <3> QED  BY <1>5, <3>1
  <2> QED  BY <1>0, <1>1, <1>2, <1>3, <1>7, <2>1, NodeDone DEF Underway
<1> QED  BY <1>8, <1>9

\* A node an earlier attempt had done.
LEMMA SkipStep ==
    ASSUME IInv, Shared, NEW w \in Workers, Kept(w), SkipNode(w)
    PROVE  Kept(w)'
<1>0. TypeOK /\ Lineage
  BY DEF IInv
<1>1. PICK d \in Docs : d = job[w].doc /\ job[w] \in Jobs /\ row[d] \in Rows /\ d # None
  BY <1>0, AtWork, NoneIsNothing DEF SkipNode
<1>2. PICK k \in NextKeys(w) :
        /\ job[w].at = "apply"
        /\ \/ Action(w, k) = "unchanged" /\ AlreadyReferenced(w, k)
           \/ Action(w, k) = "drop_ref" /\ job[w].previous \notin job[w].existing[k].refs
        /\ Done(w, k)
        /\ UNCHANGED <<row, provenance, nodes, model, early, faults>>
  BY DEF SkipNode
<1>3. k \in Keys /\ k \in job[w].todo /\ nodes[k] = job[w].existing[k] /\ nodes[k] \in Nodes
  BY <1>0, <1>2, NextUntouched
<1>4. k \in KeysOf(d) => /\ nodes[k].alive /\ nodes[k].content = row[d].graph[k]
                         /\ d \in nodes[k].refs
  BY <1>1, <1>2, <1>3, ActionCases DEF AlreadyReferenced
<1>5. ASSUME NEW e \in Predecessors(d), row[e].state = "persisted"
      PROVE  e \notin nodes[k].refs
  <2>1. e \in nodes[k].refs => e = job[w].previous /\ RefToRemove(w, k) = e
    BY <1>0, <1>1, <1>2, <1>3, <1>5, PreviousRef DEF Kept, Underway
  <2> QED  BY <1>2, <1>3, <2>1 DEF AlreadyReferenced
<1> QED  BY <1>0, <1>1, <1>2, <1>3, <1>4, <1>5, NodeDone DEF Underway

\* Every node is done: the predecessor has no refs left, and loses its rows.
LEMMA BookStep ==
    ASSUME IInv, Shared, NEW w \in Workers, Kept(w), Book(w)
    PROVE  Shared' /\ Kept(w)'
<1>0. TypeOK /\ Lineage
  BY DEF IInv
<1>1. PICK d \in Docs : d = job[w].doc /\ job[w] \in Jobs /\ d # None
  BY <1>0, AtWork, NoneIsNothing DEF Book
<1>2. PICK prev : prev = job[w].previous
  OBVIOUS
<1>3. /\ job[w].at = "apply" /\ job[w].todo = {}
      /\ provenance' = {x \in provenance : x[2] # prev} \cup (KeysOf(d) \X {d})
      /\ UNCHANGED <<row, nodes, early>>
  BY <1>1, <1>2 DEF Book, Rebooked
<1>4. prev \in Predecessors(d) \cup {None} /\ prev # d
  BY <1>0, <1>1, <1>2, PreviousIs
<1>5. /\ row[d].state = "awaiting_merge_confirm" /\ row[d].token # 0
      /\ \A e \in Predecessors(d) : e = prev /\ (d \notin early => row[e].state = "persisted")
      /\ \A k \in Keys : Applied(w, k)
  BY <1>1, <1>2, <1>3 DEF Kept, Informed, Progressed, Underway
<1>6. ASSUME prev # None, row[prev].state = "persisted"
      PROVE  RefKeys(prev) = {}
  <2>1. \A k \in Keys : prev \notin nodes[k].refs
    BY <1>1, <1>4, <1>5, <1>6 DEF Applied
  <2> QED  BY <2>1 DEF RefKeys
<1>7. Shared'
  BY <1>0, <1>3, <1>4, <1>5, <1>6, BookMoves
<1>8. job'[w].doc = d /\ job'[w].at = "booked"
  BY <1>0, <1>1 DEF Book, TypeOK, NoJob
<1>9. Predecessors(d)' = Predecessors(d) /\ KeysOf(d)' = KeysOf(d)
  BY <1>3 DEF Predecessors, Siblings, KeysOf
<1>10. Informed(w)'
  BY <1>3, <1>5, <1>8, <1>9 DEF Informed, Underway
<1>11. \A k \in Keys : Applied(w, k)'
  BY <1>1, <1>3, <1>5, <1>8, <1>9 DEF Applied
<1>12. BookedKeys(d)' = KeysOf(d)
  <2>1. BookedKeys(d) \subseteq KeysOf(d) /\ KeysOf(d) \subseteq Keys
    BY DEF Shared, Contributed, KeysOf
  <2> QED  BY <1>3, <2>1 DEF BookedKeys
<1>13. ASSUME NEW e \in Predecessors(d)
       PROVE  BookedKeys(e)' = {}
  BY <1>3, <1>4, <1>5 DEF BookedKeys
<1>14. Progressed(w)'
  BY <1>8, <1>9, <1>11, <1>12, <1>13 DEF Progressed, Underway
<1> QED  BY <1>7, <1>10, <1>14 DEF Kept

\* A document is released as persisted with its refs and rows in place.
LEMMA PersistedStep ==
    ASSUME IInv, Shared, NEW w \in Workers, Kept(w), Persisted(w)
    PROVE  Shared' /\ Kept(w)'
<1>0. TypeOK /\ Lineage
  BY DEF IInv
<1>1. PICK d \in Docs : d = job[w].doc /\ row[d] \in Rows /\ d # None
  BY <1>0, AtWork, NoneIsNothing DEF Persisted
<1>2. PICK y : y = [Freed(row[d]) EXCEPT !.state = "persisted", !.attempts = 0, !.retryAt = "null"]
  OBVIOUS
<1>3. /\ job[w].at = "booked" /\ row' = [row EXCEPT ![d] = y]
      /\ job' = [job EXCEPT ![w] = NoJob] /\ UNCHANGED <<nodes, provenance, early>>
  BY <1>1, <1>2 DEF Persisted, Release
<1>4. /\ y \in Rows /\ y.version = row[d].version /\ y.graph = row[d].graph
      /\ y.state = "persisted" /\ y.token = row[d].token
  BY <1>1, <1>2 DEF Freed, Rows
<1>5. /\ \A k \in Keys : Applied(w, k)
      /\ BookedKeys(d) = KeysOf(d)
      /\ \A p \in Predecessors(d) : BookedKeys(p) = {}
      /\ d \notin early => \A p \in Predecessors(d) : row[p].state = "persisted"
  BY <1>1, <1>3 DEF Kept, Informed, Progressed
<1>6. RefKeys(d) = KeysOf(d)
  <2>1. RefKeys(d) \subseteq KeysOf(d)
    BY DEF Shared, Contributed
  <2>2. \A k \in KeysOf(d) : k \in Keys /\ d \in nodes[k].refs
    BY <1>1, <1>5 DEF Applied, KeysOf
  <2> QED  BY <2>1, <2>2 DEF RefKeys
<1>7. \A p \in Predecessors(d) :
         /\ d \notin early => row[p].state = "persisted"
         /\ row[p].state = "persisted" => RefKeys(p) = {}
         /\ BookedKeys(p) = {}
  <2> SUFFICES ASSUME NEW p \in Predecessors(d)
               PROVE  /\ d \notin early => row[p].state = "persisted"
                      /\ row[p].state = "persisted" => RefKeys(p) = {}
                      /\ BookedKeys(p) = {}
    OBVIOUS
  <2>1. /\ BookedKeys(p) = {}
        /\ d \notin early => row[p].state = "persisted"
    BY <1>5, Zenon
  <2>2. ASSUME row[p].state = "persisted"
        PROVE  RefKeys(p) = {}
    <3>1. \A k \in Keys : p \notin nodes[k].refs
      BY <1>1, <1>5, <2>2 DEF Applied
    <3> QED  BY <3>1 DEF RefKeys
  <2> QED  BY <2>1, <2>2
<1>8. \A e \in Docs : /\ row'[e].version = row[e].version /\ row'[e].graph = row[e].graph
                      /\ row'[e].token = row[e].token
                      /\ row'[e].state = IF e = d THEN "persisted" ELSE row[e].state
  BY <1>0, <1>3, <1>4 DEF TypeOK
<1>9. Shared'
  BY <1>0, <1>3, <1>5, <1>6, <1>7, <1>8, PersistedMoves
<1> QED  BY <1>0, <1>3, <1>9, IdleKept

\* A persist that is given up, in good order or not, leaves what it has done.
LEMMA GiveUpStep ==
    ASSUME IInv, Shared, NEW w \in Workers, Kept(w),
           \/ SoftFail(w) \/ HardFail(w) \/ LostLease(w)
           \/ \E m \in Models : Crash(w, m)
    PROVE  Shared' /\ Kept(w)'
<1>0. TypeOK /\ Lineage
  BY DEF IInv
<1>1. /\ job' = [job EXCEPT ![w] = NoJob] /\ UNCHANGED <<nodes, provenance, early>>
      /\ job[w].at # "idle"
  BY <1>0 DEF SoftFail, HardFail, LostLease, Crash, Release, TypeOK
<1>2. Kept(w)'
  BY <1>0, <1>1, IdleKept
<1>3. CASE row' = row
  <2>1. \A e \in Docs : row[e].state \in {"parsed", "approved"} => row[e].token = 0
    BY DEF Shared, Contributed
  <2> QED  BY <1>0, <1>1, <1>2, <1>3, <2>1, RowsKeep DEF TypeOK
<1>4. CASE SoftFail(w) \/ HardFail(w)
  <2>1. PICK d \in Docs : d = job[w].doc /\ row[d] \in Rows /\ d # None
    BY <1>0, <1>1, AtWork, NoneIsNothing
  <2>2. PICK y : /\ row' = [row EXCEPT ![d] = y]
                 /\ y = Retried(row[d]) \/ y = [Freed(row[d]) EXCEPT !.state = "failed"]
    BY <1>4, <2>1 DEF SoftFail, HardFail, Release
  <2>3. row[d].state = "awaiting_merge_confirm" /\ row[d].token # 0
    BY <2>1 DEF Kept, Informed
  <2>4. /\ y.version = row[d].version /\ y.token = row[d].token /\ y.graph = row[d].graph
        /\ y.state \in {"awaiting_merge_confirm", "failed"}
    BY <2>1, <2>2, <2>3 DEF Retried, Freed, Rows
  <2>5. row'[d] = y /\ \A e \in Docs \ {d} : row'[e] = row[e]
    BY <1>0, <2>2 DEF TypeOK
  <2>6. \A e \in Docs :
          /\ row'[e].version = row[e].version
          /\ row'[e].state = "persisted" <=> row[e].state = "persisted"
          /\ row'[e].state \in {"parsed", "approved"} => row'[e].token = 0
          /\ row'[e].token = 0 => row[e].token = 0
          /\ row'[e].graph = row[e].graph
    BY <2>3, <2>4, <2>5 DEF Shared, Contributed
  <2> QED  BY <1>0, <1>1, <1>2, <2>6, RowsKeep DEF TypeOK
<1>5. row' = row \/ SoftFail(w) \/ HardFail(w)
  BY DEF LostLease, Crash
<1> QED  BY <1>2, <1>3, <1>4, <1>5

-----------------------------------------------------------------------------
(* The invariant *)

\* A claim counts the token of a compiled document up.
LEMMA ClaimStep ==
    ASSUME IInv, Shared, NEW w \in Workers, Claim(w)
    PROVE  Shared' /\ Kept(w)'
<1>0. TypeOK
  BY DEF IInv
<1>1. PICK d \in Claimable :
         row' = [row EXCEPT ![d].claimedBy = w, ![d].lease = "live", ![d].token = @ + 1]
  BY DEF Claim
<1>2. d \in Docs /\ row[d] \in Rows /\ row[d].state = "awaiting_merge_confirm"
  BY <1>0 DEF Claimable, TypeOK
<1>3. /\ row'[d].version = row[d].version /\ row'[d].state = row[d].state
      /\ row'[d].graph = row[d].graph /\ row'[d].token = row[d].token + 1
      /\ \A e \in Docs \ {d} : row'[e] = row[e]
  BY <1>0, <1>1, <1>2 DEF TypeOK, Rows
<1>4. row'[d].token # 0
  BY <1>2, <1>3 DEF Rows
<1>5. UNCHANGED <<nodes, provenance, early>>
  BY DEF Claim
<1>6. \A e \in Docs :
        /\ row'[e].version = row[e].version
        /\ row'[e].state = "persisted" <=> row[e].state = "persisted"
        /\ row'[e].state \in {"parsed", "approved"} => row'[e].token = 0
        /\ row'[e].token = 0 => row[e].token = 0
        /\ row'[e].graph = row[e].graph
  BY <1>2, <1>3, <1>4 DEF Shared, Contributed
<1> QED  BY <1>0, <1>5, <1>6, RowsKeep, ClaimKept DEF TypeOK

\* The reads change nothing but the job, and tell which documents are early.
LEMMA ReadStep ==
    ASSUME IInv, Shared, NEW w \in Workers, Kept(w),
           ReadLineage(w) \/ ReadProvenance(w) \/ Snapshot(w) \/ SkipNode(w)
    PROVE  Shared' /\ Kept(w)'
<1>0. TypeOK
  BY DEF IInv
<1>1. UNCHANGED <<row, nodes, provenance>>
  BY DEF ReadLineage, ReadProvenance, Snapshot, SkipNode
<1>2. /\ early \subseteq early' /\ early' \subseteq Docs
      /\ \A d \in early' \ early : row'[d].token # 0
  <2>1. CASE ReadLineage(w)
    <3>1. PICK d \in Docs : d = job[w].doc /\ d # None
      BY <1>0, <2>1, AtWork, NoneIsNothing DEF ReadLineage
    <3>2. early' = early \/ early' = early \cup {d}
      BY <2>1, <3>1 DEF ReadLineage
    <3>3. row[d].token # 0
      BY <3>1 DEF Kept, Informed
    <3> QED  BY <1>0, <1>1, <3>1, <3>2, <3>3 DEF TypeOK
  <2>2. CASE ~ReadLineage(w)
    BY <1>0, <2>2 DEF ReadProvenance, Snapshot, SkipNode, TypeOK
  <2> QED  BY <2>1, <2>2
<1>3. Shared'
  <2>1. \A e \in Docs : row[e].state \in {"parsed", "approved"} => row[e].token = 0
    BY DEF Shared, Contributed
  <2> QED  BY <1>0, <1>1, <1>2, <2>1, RowsKeep
<1>4. Kept(w)'
  BY <1>0, LineageKept, ProvenanceKept, SnapshotKept, SkipStep DEF Shared
<1> QED  BY <1>3, <1>4

\* Every step of the worker keeps the invariant.
LEMMA WorkStep ==
    ASSUME IInv, Shared, NEW w \in Workers, Kept(w),
           Work(w) \/ \E m \in Models : Crash(w, m)
    PROVE  Shared' /\ Kept(w)'
  BY ClaimStep, ReadStep, UpsertStep, RemoveStaleStep, AddRefStep, DropRefStep, BookStep,
     PersistedStep, GiveUpStep DEF Work

\* A step of a row the worker takes no part in.
LEMMA OutsideStep ==
    ASSUME IInv, Shared, \A w \in Workers : Kept(w), NEW d \in Docs,
           Upstream(d) \/ Expire(d) \/ BackoffElapses(d)
    PROVE  Shared' /\ \A w \in Workers : Kept(w)'
<1>0. TypeOK /\ Lineage
  BY DEF IInv
<1>1. UNCHANGED <<nodes, provenance, job, early>>
  BY DEF Upstream, Approve, Compile, CompileFails, Expire, BackoffElapses
<1>2. CASE Approve(d)
  <2>1. /\ row[d].state = "parsed" /\ row'[d].state = "approved"
        /\ \A e \in Docs \ {d} : row'[e] = row[e]
        /\ \A e \in Docs \ {d} : Predecessors(e)' = Predecessors(e)
    BY <1>0, <1>2, ApproveVersions
  <2>2. ASSUME NEW w \in Workers
        PROVE  Kept(w)'
    <3>1. job[w].doc \in Docs => job[w].doc # d
      BY <2>1, NoneIsNothing DEF Kept, Informed
    <3>2. job[w].doc \in Docs =>
            /\ Predecessors(job[w].doc)' = Predecessors(job[w].doc)
            /\ \A e \in Predecessors(job[w].doc) :
                  row'[e].state = "persisted" <=> row[e].state = "persisted"
      BY <1>1, <2>1, <3>1 DEF Predecessors, Siblings
    <3> QED  BY <1>0, <1>1, <2>1, <3>1, <3>2, RowKept
  <2> QED  BY <1>0, <1>2, <2>2, ApproveMoves
<1>3. CASE ~Approve(d)
  <2>1. row[d] \in Rows /\ (row[d].state \in {"parsed", "approved"} => row[d].token = 0)
    BY <1>0 DEF TypeOK, Shared, Contributed
  <2>2. /\ row'[d].version = row[d].version /\ row'[d].token = row[d].token
        /\ row'[d].state = "persisted" <=> row[d].state = "persisted"
        /\ row'[d].state \in {"parsed", "approved"} => row'[d].token = 0
        /\ \/ row'[d].state = row[d].state /\ row'[d].graph = row[d].graph
           \/ row[d].state = "approved" /\ row[d].token = 0
        /\ \A e \in Docs \ {d} : row'[e] = row[e]
    <3>1. CASE \E g \in GraphsOf[d] : Compile(d, g)
      BY <1>0, <2>1, <3>1 DEF Compile, TypeOK, Rows
    <3>2. CASE CompileFails(d)
      BY <1>0, <2>1, <3>2 DEF CompileFails, TypeOK, Rows
    <3>3. CASE Expire(d) \/ BackoffElapses(d)
      BY <1>0, <2>1, <3>3 DEF Expire, BackoffElapses, TypeOK, Rows
    <3> QED  BY <1>3, <3>1, <3>2, <3>3 DEF Upstream
  <2>3. Shared'
    <3>1. \A e \in Docs :
            /\ row'[e].version = row[e].version
            /\ row'[e].state = "persisted" <=> row[e].state = "persisted"
            /\ row'[e].state \in {"parsed", "approved"} => row'[e].token = 0
            /\ row'[e].token = 0 => row[e].token = 0
            /\ \/ row'[e].graph = row[e].graph
               \/ row[e].token = 0 /\ row[e].state # "persisted"
      BY <2>2 DEF Shared, Contributed
    <3> QED  BY <1>0, <1>1, <3>1, RowsKeep DEF TypeOK
  <2>4. ASSUME NEW w \in Workers
        PROVE  Kept(w)'
    <3>1. job[w].doc \in Docs => row[job[w].doc].state = "awaiting_merge_confirm"
      BY NoneIsNothing DEF Kept, Informed
    <3>2. job[w].doc \in Docs =>
            /\ row'[job[w].doc].state = row[job[w].doc].state
            /\ row'[job[w].doc].token = row[job[w].doc].token
            /\ row'[job[w].doc].graph = row[job[w].doc].graph
      BY <2>2, <3>1
    <3>3. \A e \in Docs : /\ row'[e].version = row[e].version
                          /\ row'[e].state = "persisted" <=> row[e].state = "persisted"
      BY <2>2
    <3>4. job[w].doc \in Docs =>
            /\ Predecessors(job[w].doc)' = Predecessors(job[w].doc)
            /\ \A e \in Predecessors(job[w].doc) :
                  row'[e].state = "persisted" <=> row[e].state = "persisted"
      BY <1>1, <3>3 DEF Predecessors, Siblings
    <3> QED  BY <1>0, <1>1, <3>2, <3>4, RowKept
  <2> QED  BY <2>3, <2>4
<1> QED  BY <1>2, <1>3

\* A stuttering step.
LEMMA StutterKept ==
    ASSUME IInv, Shared, \A w \in Workers : Kept(w), UNCHANGED vars
    PROVE  Shared' /\ \A w \in Workers : Kept(w)'
<1>1. TypeOK /\ UNCHANGED <<row, provenance, nodes, job, model, early, faults>>
  BY DEF IInv, vars
<1>2. \A e \in Docs : row[e].state \in {"parsed", "approved"} => row[e].token = 0
  BY DEF Shared, Contributed
<1>3. \A e \in Docs : Predecessors(e)' = Predecessors(e)
  BY <1>1 DEF Predecessors, Siblings
<1>4. Shared'
  BY <1>1, <1>2, RowsKeep DEF TypeOK
<1>5. ASSUME NEW w \in Workers
      PROVE  Kept(w)'
  <2>1. Predecessors(job[w].doc)' = Predecessors(job[w].doc)
    BY <1>1 DEF Predecessors, Siblings
  <2> QED  BY <1>1, <2>1, RowKept
<1> QED  BY <1>4, <1>5

\* The invariant holds with one worker, however often its persists are
\* interrupted and whatever happens between the attempts.
THEOREM SoleInvariant ==
    ASSUME Sole
    PROVE  Spec => []SoleIInv
<1> DEFINE J == Shared /\ \A w \in Workers : Kept(w)
<1>1. Init => J
  <2> SUFFICES ASSUME Init PROVE J
    OBVIOUS
  <2>1. \A w \in Workers : job[w].at = "idle" /\ job[w].doc = None
    BY DEF Init, NoJob
  <2> QED  BY <2>1, InitShared DEF Kept, Informed, Progressed, Underway
<1>2. IInv /\ J /\ [Next]_vars => J'
  <2> SUFFICES ASSUME IInv, J, [Next]_vars PROVE J'
    OBVIOUS
  <2>1. ASSUME NEW w \in Workers, Work(w) \/ \E m \in Models : Crash(w, m)
        PROVE  J'
    <3>1. Shared' /\ Kept(w)'
      BY <2>1, WorkStep
    <3>2. \A v \in Workers : v = w
      BY DEF Sole
    <3> QED  BY <3>1, <3>2
  <2>2. ASSUME NEW d \in Docs, Upstream(d) \/ Expire(d) \/ BackoffElapses(d)
        PROVE  J'
    BY <2>2, OutsideStep
  <2>3. CASE UNCHANGED vars
    BY <2>3, StutterKept
  <2> QED  BY <2>1, <2>2, <2>3 DEF Next
<1>3. J => SoleIInv
  BY DEF SoleIInv, Shared, Kept
<1> QED  BY <1>1, <1>2, <1>3, Invariant, PTL DEF Spec

-----------------------------------------------------------------------------
(* Theorems *)

\* Crashes and retries leave no trace: a version persisted in its turn has refs
\* and rows on exactly the nodes of its graph, and no other version of its
\* filename has any, in Neo4j and in node_provenance alike.
THEOREM Exact ==
    ASSUME Sole
    PROVE  Spec => []SliceExact
<1>1. IInv /\ SoleIInv => SliceExact
  <2> SUFFICES ASSUME IInv, SoleIInv, NEW d \in Docs, Current(d), NEW e \in Siblings(d), NEW k \in Keys
               PROVE  LET contributes == e = d /\ k \in KeysOf(d)
                      IN  /\ e \in nodes[k].refs <=> contributes
                          /\ <<k, e>> \in provenance <=> contributes
    BY DEF SliceExact
  <2>1. /\ e \in Docs /\ FileOf[e] = FileOf[d] /\ row[e].version # 0
        /\ row[e].version \in Nat /\ row[d].version \in Nat
        /\ row[d].state = "persisted"
    BY DEF Siblings, IInv, TypeOK, Rows, Current
  <2>2. RefKeys(e) = (IF e = d THEN KeysOf(d) ELSE {}) /\ BookedKeys(e) = RefKeys(e)
    <3>1. CASE e = d
      <4>1. ASSUME NEW s \in Docs, d \in Predecessors(s)
            PROVE  row[s].token = 0
        <5>1. /\ FileOf[s] = FileOf[d] /\ row[s].version = row[d].version + 1
              /\ row[s].version # 0 /\ row[s].version > row[d].version
          BY <2>1, <4>1 DEF Predecessors, Siblings
        <5>2. s \in Siblings(d)
          BY <5>1 DEF Siblings
        <5> QED  BY <5>1, <5>2 DEF Current
      <4> QED  BY <2>1, <3>1, <4>1 DEF SoleIInv, HandedOver
    <3>2. CASE e # d /\ row[e].version < row[d].version
      <4>1. InTurn(d)
        BY DEF Current
      <4>2. HandedOver
        BY DEF SoleIInv
      <4>3. RefKeys(e) \cup BookedKeys(e) = {}
        BY <2>1, <3>2, <4>1, <4>2 DEF HandedOver
      <4> QED  BY <3>2, <4>3
    <3>3. CASE e # d /\ row[e].version > row[d].version
      <4>1. row[e].token = 0
        BY <3>3 DEF Current
      <4> QED  BY <2>1, <3>3, <4>1 DEF SoleIInv, Contributed
    <3>4. CASE e # d /\ row[e].version = row[d].version
      BY <2>1, <3>4 DEF SoleIInv, Distinct
    <3> QED  BY <2>1, <3>1, <3>2, <3>3, <3>4
  <2>3. /\ e \in nodes[k].refs <=> k \in RefKeys(e)
        /\ <<k, e>> \in provenance <=> k \in BookedKeys(e)
    BY DEF RefKeys, BookedKeys
  <2> QED  BY <2>2, <2>3
<1> QED  BY <1>1, Invariant, SoleInvariant, PTL

\* A document is persisted only when every node of its graph lives, carries the
\* content it compiled and its ref.
THEOREM AsCompiled ==
    ASSUME Sole
    PROVE  Spec => PersistedAsCompiled
<1> DEFINE Step == \A d \in Docs :
                     row[d].state # "persisted" /\ row'[d].state = "persisted" =>
                        \A k \in KeysOf(d) : /\ nodes[k].alive
                                             /\ nodes[k].content = row[d].graph[k]
                                             /\ d \in nodes[k].refs
<1>1. ASSUME IInv, SoleIInv, Next PROVE Step
  <2> SUFFICES ASSUME NEW d \in Docs, row[d].state # "persisted", row'[d].state = "persisted",
                      NEW k \in KeysOf(d)
               PROVE  /\ nodes[k].alive /\ nodes[k].content = row[d].graph[k]
                      /\ d \in nodes[k].refs
    OBVIOUS
  <2>1. TypeOK /\ \A w \in Workers : Kept(w)
    BY <1>1 DEF SoleIInv, IInv, Kept
  <2>2. PICK w \in Workers : Persisted(w) /\ job[w].doc = d
    <3>1. ASSUME NEW e \in Docs, Upstream(e) \/ Expire(e) \/ BackoffElapses(e)
          PROVE  FALSE
      BY <2>1, <3>1 DEF Upstream, Approve, Compile, CompileFails, Expire, BackoffElapses,
                        TypeOK, Rows
    <3>2. ASSUME NEW w \in Workers, SoftFail(w) \/ HardFail(w)
          PROVE  FALSE
      <4>1. PICK e \in Docs : e = job[w].doc /\ row[e] \in Rows /\ e # None
        BY <2>1, <3>2, AtWork, NoneIsNothing DEF SoftFail, HardFail
      <4>2. row[e].state # "persisted"
        BY <2>1, <4>1 DEF Kept, Informed
      <4>3. PICK y : /\ row' = [row EXCEPT ![e] = y]
                     /\ y = Retried(row[e]) \/ y = [Freed(row[e]) EXCEPT !.state = "failed"]
        BY <3>2, <4>1 DEF SoftFail, HardFail, Release
      <4>4. y.state # "persisted"
        BY <4>1, <4>2, <4>3 DEF Retried, Freed, Rows
      <4> QED  BY <2>1, <4>3, <4>4 DEF TypeOK
    <3>3. ASSUME NEW w \in Workers, Claim(w)
          PROVE  FALSE
      <4>1. PICK e \in Docs : row' = [row EXCEPT ![e].claimedBy = w, ![e].lease = "live",
                                                ![e].token = @ + 1]
        BY <3>3 DEF Claim, Claimable
      <4> QED  BY <2>1, <4>1 DEF TypeOK, Rows
    <3>4. ASSUME NEW w \in Workers,
                 \/ ReadLineage(w) \/ ReadProvenance(w) \/ Snapshot(w) \/ Upsert(w)
                 \/ RemoveStale(w) \/ AddRef(w) \/ DropRef(w) \/ SkipNode(w) \/ Book(w)
                 \/ LostLease(w) \/ \E m \in Models : Crash(w, m)
          PROVE  FALSE
      BY <3>4 DEF ReadLineage, ReadProvenance, Snapshot, Upsert, RemoveStale, AddRef, DropRef,
                  SkipNode, Book, LostLease, Crash
    <3>5. PICK w \in Workers : Persisted(w)
      BY <1>1, <3>1, <3>2, <3>3, <3>4 DEF Next, Work
    <3>6. job[w].doc = d
      BY <2>1, <3>5 DEF Persisted, Release, TypeOK
    <3> QED  BY <3>5, <3>6
  <2>3. Applied(w, k) /\ k \in Keys
    BY <2>1, <2>2 DEF Persisted, Kept, Progressed, KeysOf
  <2> QED  BY <2>2, <2>3 DEF Applied
<1>2. IInv /\ SoleIInv /\ [Next]_vars => [Step]_vars
  BY <1>1
<1> QED  BY <1>2, Invariant, SoleInvariant, PTL DEF Spec, PersistedAsCompiled
=============================================================================
