---------------------------- MODULE LandingProofs ----------------------------
(***************************************************************************)
(* Theorems about Landing: what the watcher lands is a whole version, and  *)
(* a row has its object, for any number of files, versions and failures    *)
(* and any stability window longer than a writer's pause.                  *)
(***************************************************************************)
EXTENDS Landing, TLAPS

-----------------------------------------------------------------------------
(* Contents *)

\* A content is a sequence of bounded length.
LEMMA ContentForm ==
    ASSUME NEW c \in Contents
    PROVE  Len(c) \in 0..MaxLength /\ c \in [1..Len(c) -> Versions] /\ c \in Seq(Versions)
<1>1. PICK n \in 0..MaxLength : c \in [1..n -> Versions]
  BY DEF Contents
<1>2. n \in Nat
  BY LengthAssumption
<1>3. c \in Seq(Versions) /\ Len(c) = n
  BY <1>1, <1>2
<1> QED
  BY <1>1, <1>3

LEMMA ContentBuild ==
    ASSUME NEW n \in 0..MaxLength, NEW c \in [1..n -> Versions]
    PROVE  c \in Contents /\ Len(c) = n /\ c \in Seq(Versions)
<1>1. n \in Nat
  BY LengthAssumption
<1>2. c \in Seq(Versions) /\ Len(c) = n
  BY <1>1
<1> QED
  BY <1>2 DEF Contents

\* A finished version is a content.
LEMMA WholeContent ==
    ASSUME NEW v \in Versions
    PROVE  /\ LengthOf[v] \in 1..MaxLength
           /\ Whole(v) \in Contents /\ Len(Whole(v)) = LengthOf[v]
           /\ \A k \in 1..LengthOf[v] : Whole(v)[k] = v
<1>1. LengthOf[v] \in 1..MaxLength
  BY LengthAssumption
<1>2. LengthOf[v] \in 0..MaxLength /\ Whole(v) \in [1..LengthOf[v] -> Versions]
  BY <1>1, LengthAssumption DEF Whole
<1>3. Whole(v) \in Contents /\ Len(Whole(v)) = LengthOf[v]
  BY <1>2, ContentBuild
<1> QED
  BY <1>1, <1>3 DEF Whole

\* A content of v's length that consists of v's blocks is v.
LEMMA WholeFrom ==
    ASSUME NEW v \in Versions, NEW c \in Contents, Len(c) = LengthOf[v],
           \A k \in 1..LengthOf[v] : c[k] = v
    PROVE  c = Whole(v)
<1>1. c \in [1..LengthOf[v] -> Versions]
  BY ContentForm
<1> QED
  BY <1>1 DEF Whole

LEMMA EmptyContent == <<>> \in Contents /\ Len(<<>>) = 0
<1>1. 0 \in 0..MaxLength
  BY LengthAssumption
<1>2. <<>> \in [1..0 -> Versions]
  OBVIOUS
<1> QED
  BY <1>1, <1>2, ContentBuild

\* Appending a block of one content to a shorter one gives a content.
LEMMA AppendContent ==
    ASSUME NEW c \in Contents, NEW d \in Contents, Len(c) < Len(d)
    PROVE  /\ Append(c, d[Len(c) + 1]) \in Contents
           /\ Len(Append(c, d[Len(c) + 1])) = Len(c) + 1
           /\ \A k \in 1..Len(c) : Append(c, d[Len(c) + 1])[k] = c[k]
           /\ Append(c, d[Len(c) + 1])[Len(c) + 1] = d[Len(c) + 1]
<1> DEFINE e == Append(c, d[Len(c) + 1])
<1>1. Len(c) + 1 \in 1..Len(d) /\ Len(c) + 1 \in 0..MaxLength /\ c \in Seq(Versions)
  BY ContentForm, LengthAssumption
<1>2. d[Len(c) + 1] \in Versions
  BY <1>1, ContentForm
<1>3. e \in Seq(Versions) /\ Len(e) = Len(c) + 1
  BY <1>1, <1>2
<1>4. e \in [1..(Len(c) + 1) -> Versions]
  <2> HIDE DEF e
  <2> QED
    BY <1>3
<1>5. e \in Contents
  BY <1>1, <1>4, ContentBuild
<1>6. \A k \in 1..Len(c) : e[k] = c[k]
  BY <1>1, <1>2
<1>7. e[Len(c) + 1] = d[Len(c) + 1]
  BY <1>1, <1>2
<1> QED
  BY <1>3, <1>5, <1>6, <1>7

\* One write(2) of a program that has written all but `left` blocks of v.
LEMMA BlockWritten ==
    ASSUME TypeOK, NEW v \in Versions, NEW left \in 1..LengthOf[v], NEW x \in Files,
           Len(x.content) >= LengthOf[v] - left,
           \A k \in 1..(LengthOf[v] - left) : x.content[k] = v
    PROVE  LET y == WithBlock(x, v, left)
           IN  /\ y \in Files
               /\ y.mtime = clock /\ y.version = v /\ y.left = left - 1
               /\ y.left < LengthOf[v]
               /\ Len(y.content) >= LengthOf[v] - y.left
               /\ \A k \in 1..(LengthOf[v] - y.left) : y.content[k] = v
               /\ y.left = 0 => y.content = Whole(v)
<1> DEFINE L == LengthOf[v]
           done == L - left + 1
           length == IF left = 1 \/ Len(x.content) < done THEN done ELSE Len(x.content)
           c == [k \in 1..length |-> IF k = done THEN v ELSE x.content[k]]
           y == WithBlock(x, v, left)
<1>1. L \in 1..MaxLength /\ MaxLength \in Nat
  BY LengthAssumption
<1>2. x.content \in Contents
  BY DEF Files
<1>3. Len(x.content) \in 0..MaxLength /\ x.content \in [1..Len(x.content) -> Versions]
  BY <1>2, ContentForm
<1>4. length \in 0..MaxLength /\ length >= done /\ done \in 1..L
  BY <1>1, <1>3
<1>5. \A k \in 1..length : k # done => k \in 1..Len(x.content)
  BY <1>1, <1>3, <1>4
<1>6. c \in [1..length -> Versions]
  BY <1>3, <1>5
<1>7. c \in Contents /\ Len(c) = length
  BY <1>4, <1>6, ContentBuild
<1>8. y = [content |-> c, mtime |-> clock, version |-> v, left |-> left - 1]
  BY DEF WithBlock
<1>9. y \in Files /\ y.mtime = clock /\ y.version = v /\ y.left = left - 1 /\ y.content = c
  BY <1>1, <1>7, <1>8 DEF Files, TypeOK
<1>10. L - y.left = done
  BY <1>1, <1>9
<1>11. \A k \in 1..done : c[k] = v
  BY <1>1, <1>4
<1>12. ASSUME y.left = 0 PROVE c = Whole(v)
  <2>1. length = L /\ done = L
    BY <1>1, <1>9, <1>12
  <2> QED
    BY <1>7, <1>11, <2>1, WholeFrom
<1> QED
  BY <1>1, <1>4, <1>7, <1>9, <1>10, <1>11, <1>12

-----------------------------------------------------------------------------
(* What the programs that use the directory do *)

\* Both writes of a program are the write of a block, and leave every other
\* inode alone; the file's names are recorded when it is finished.
LEMMA Writing ==
    ASSUME IInv, NEW i \in Inodes,
           \/ \E p \in Paths, v \in Versions, b \in BOOLEAN : WriteFirst(p, v, i, b)
           \/ WriteNext(i)
    PROVE  /\ disk' = [disk EXCEPT ![i] = disk'[i]]
           /\ LET y == disk'[i]
              IN  /\ y \in Files
                  /\ y.mtime = clock /\ y.version \in Versions
                  /\ y.left < LengthOf[y.version]
                  /\ Len(y.content) >= LengthOf[y.version] - y.left
                  /\ \A k \in 1..(LengthOf[y.version] - y.left) : y.content[k] = y.version
                  /\ y.left = 0 => y.content = Whole(y.version)
           /\ at' \in [Paths -> Inodes \cup {None}]
           /\ \A p \in Paths : at'[p] # i => at'[p] = at[p]
           /\ saved' = saved \cup Saved(i)
           /\ changes' \in Nat
           /\ UNCHANGED <<clock, object, landed, scan, faults>>
<1>0. TypeOK /\ Written
  BY DEF IInv
<1>1. CASE \E p \in Paths, v \in Versions, b \in BOOLEAN : WriteFirst(p, v, i, b)
  <2>0. PICK p \in Paths, v \in Versions, b \in BOOLEAN : WriteFirst(p, v, i, b)
    BY <1>1
  <2> DEFINE x == IF b \/ at[p] = None THEN EmptyFile ELSE disk[i]
  <2>1. x \in Files
    BY <1>0, EmptyContent DEF EmptyFile, Files, TypeOK
  <2>2. LengthOf[v] \in 1..LengthOf[v] /\ LengthOf[v] - LengthOf[v] = 0
    BY LengthAssumption
  <2>3. Len(x.content) >= LengthOf[v] - LengthOf[v]
    <3>1. x.content \in Contents
      BY <2>1 DEF Files
    <3> QED
      BY <2>2, <3>1, ContentForm
  <2>4. \A k \in 1..(LengthOf[v] - LengthOf[v]) : x.content[k] = v
    BY <2>2
  <2>5. disk' = [disk EXCEPT ![i] = WithBlock(x, v, LengthOf[v])]
    BY <2>0 DEF WriteFirst
  <2>6. disk'[i] = WithBlock(x, v, LengthOf[v])
    BY <1>0, <2>5 DEF TypeOK
  <2>7. /\ at' = [at EXCEPT ![p] = i]
        /\ saved' = saved \cup Saved(i)
        /\ changes' \in Nat
        /\ UNCHANGED <<clock, object, landed, scan, faults>>
    BY <1>0, <2>0 DEF WriteFirst, TypeOK
  <2> HIDE DEF x
  <2>8. LET y == WithBlock(x, v, LengthOf[v])
        IN  /\ y \in Files
            /\ y.mtime = clock /\ y.version = v
            /\ y.left < LengthOf[v]
            /\ Len(y.content) >= LengthOf[v] - y.left
            /\ \A k \in 1..(LengthOf[v] - y.left) : y.content[k] = v
            /\ y.left = 0 => y.content = Whole(v)
    BY <1>0, <2>1, <2>2, <2>3, <2>4, BlockWritten
  <2>9. \A q \in Paths : at'[q] # i => at'[q] = at[q]
    BY <1>0, <2>7 DEF TypeOK
  <2>10. at' \in [Paths -> Inodes \cup {None}]
    BY <1>0, <2>7 DEF TypeOK
  <2> QED
    BY <2>5, <2>6, <2>7, <2>8, <2>9, <2>10
<1>2. CASE WriteNext(i)
  <2> DEFINE x == disk[i]
             v == disk[i].version
  <2>1. x \in Files /\ x.left \in Nat /\ x.left # 0
    BY <1>0, <1>2 DEF WriteNext, TypeOK, Files
  <2>2. /\ v \in Versions
        /\ x.left < LengthOf[v]
        /\ Len(x.content) >= LengthOf[v] - x.left
        /\ \A k \in 1..(LengthOf[v] - x.left) : x.content[k] = v
    BY <1>0, <2>1 DEF Written
  <2>3. x.left \in 1..LengthOf[v]
    BY <2>1, <2>2, LengthAssumption
  <2>4. disk' = [disk EXCEPT ![i] = WithBlock(x, v, x.left)]
    BY <1>2 DEF WriteNext
  <2>5. disk'[i] = WithBlock(x, v, x.left)
    BY <1>0, <2>4 DEF TypeOK
  <2>6. /\ UNCHANGED at
        /\ saved' = saved \cup Saved(i)
        /\ changes' \in Nat
        /\ UNCHANGED <<clock, object, landed, scan, faults>>
    BY <1>0, <1>2 DEF WriteNext, TypeOK
  <2>7. LET y == WithBlock(x, v, x.left)
        IN  /\ y \in Files
            /\ y.mtime = clock /\ y.version = v
            /\ y.left < LengthOf[v]
            /\ Len(y.content) >= LengthOf[v] - y.left
            /\ \A k \in 1..(LengthOf[v] - y.left) : y.content[k] = v
            /\ y.left = 0 => y.content = Whole(v)
    BY <1>0, <2>1, <2>2, <2>3, BlockWritten
  <2> QED
    BY <1>0, <2>2, <2>4, <2>5, <2>6, <2>7 DEF TypeOK
<1> QED
  BY <1>1, <1>2

LEMMA Replacing ==
    ASSUME IInv, NEW p \in Paths, NEW v \in Versions, NEW i \in Inodes,
           NEW m \in Mtimes, Replace(p, v, i, m)
    PROVE  /\ disk' = [disk EXCEPT ![i] = disk'[i]] /\ disk'[i] \in Files
           /\ disk'[i].left = 0 /\ disk'[i].version = v /\ disk'[i].content = Whole(v)
           /\ at' \in [Paths -> Inodes \cup {None}]
           /\ \A q \in Paths : at'[q] # i => at'[q] = at[q]
           /\ saved' = saved \cup Saved(i)
           /\ ~Opened(i)
           /\ changes' \in Nat
           /\ UNCHANGED <<clock, object, landed, scan, faults>>
<1>1. m \in Nat
  BY TimeAssumption, BoundAssumption
<1>2. disk'[i] = [content |-> Whole(v), mtime |-> m, version |-> v, left |-> 0]
  BY DEF Replace, IInv, TypeOK
<1>3. disk'[i] \in Files
  BY <1>1, <1>2, WholeContent DEF Files
<1> QED
  BY <1>2, <1>3 DEF Replace, IInv, TypeOK, Free

\* Whatever a program does, the inodes it leaves alone stay as they are, the
\* one it changes gets the present time or was not open, and names are kept.
LEMMA Outside ==
    ASSUME IInv, Environment
    PROVE  /\ UNCHANGED <<object, landed, scan, faults>>
           /\ clock' \in Nat /\ clock <= clock'
           /\ at' \in [Paths -> Inodes \cup {None}]
           /\ disk' \in [Inodes -> Files]
           /\ changes' \in Nat
           /\ saved \subseteq saved' /\ saved' \subseteq Paths \X Versions
           /\ \A i \in Inodes :
                 Opened(i) => disk'[i] = disk[i] \/ disk'[i].mtime = clock
<1>0. TypeOK
  BY DEF IInv
<1>1. ASSUME NEW i \in Inodes, at' \in [Paths -> Inodes \cup {None}],
             disk'[i].left = 0 => disk'[i].version \in Versions
      PROVE  Saved(i) \subseteq Paths \X Versions
  BY <1>1 DEF Saved
<1>2. ASSUME NEW i \in Inodes,
             \/ \E p \in Paths, v \in Versions, b \in BOOLEAN : WriteFirst(p, v, i, b)
             \/ WriteNext(i)
      PROVE  /\ UNCHANGED <<clock, object, landed, scan, faults>>
             /\ at' \in [Paths -> Inodes \cup {None}]
             /\ disk' \in [Inodes -> Files]
             /\ changes' \in Nat
             /\ saved \subseteq saved' /\ saved' \subseteq Paths \X Versions
             /\ \A j \in Inodes : disk'[j] = disk[j] \/ disk'[j].mtime = clock
  <2>1. /\ disk' = [disk EXCEPT ![i] = disk'[i]]
        /\ disk'[i] \in Files /\ disk'[i].mtime = clock /\ disk'[i].version \in Versions
        /\ at' \in [Paths -> Inodes \cup {None}]
        /\ saved' = saved \cup Saved(i)
        /\ changes' \in Nat
        /\ UNCHANGED <<clock, object, landed, scan, faults>>
    BY <1>2, Writing
  <2>2. saved' \subseteq Paths \X Versions
    BY <1>0, <1>1, <2>1 DEF TypeOK
  <2> QED
    BY <1>0, <2>1, <2>2 DEF TypeOK
<1>3. ASSUME NEW p \in Paths, NEW v \in Versions, NEW i \in Inodes,
             NEW m \in Mtimes, Replace(p, v, i, m)
      PROVE  /\ UNCHANGED <<clock, object, landed, scan, faults>>
             /\ at' \in [Paths -> Inodes \cup {None}]
             /\ disk' \in [Inodes -> Files]
             /\ changes' \in Nat
             /\ saved \subseteq saved' /\ saved' \subseteq Paths \X Versions
             /\ \A j \in Inodes : Opened(j) => disk'[j] = disk[j]
  <2>1. /\ disk' = [disk EXCEPT ![i] = disk'[i]] /\ disk'[i] \in Files
        /\ disk'[i].version = v
        /\ at' \in [Paths -> Inodes \cup {None}]
        /\ saved' = saved \cup Saved(i)
        /\ ~Opened(i)
        /\ changes' \in Nat
        /\ UNCHANGED <<clock, object, landed, scan, faults>>
    BY <1>3, Replacing
  <2>2. saved' \subseteq Paths \X Versions
    BY <1>0, <1>1, <2>1 DEF TypeOK
  <2> QED
    BY <1>0, <2>1, <2>2 DEF TypeOK
<1>4. CASE \E p \in Paths : Unlink(p)
  BY <1>0, <1>4 DEF Unlink, TypeOK
<1>5. CASE Tick
  BY <1>0, <1>5 DEF Tick, TypeOK
<1>6. clock \in Nat
  BY <1>0 DEF TypeOK
<1>7. CASE \E p \in Paths, v \in Versions, i \in Inodes, b \in BOOLEAN : WriteFirst(p, v, i, b)
  BY <1>2, <1>6, <1>7
<1>8. CASE \E i \in Inodes : WriteNext(i)
  BY <1>2, <1>6, <1>8
<1>9. CASE \E p \in Paths, v \in Versions, i \in Inodes, m \in Mtimes :
              Replace(p, v, i, m)
  BY <1>3, <1>6, <1>9
<1> QED
  BY <1>4, <1>5, <1>7, <1>8, <1>9 DEF Environment

-----------------------------------------------------------------------------
(* What the scan does *)

\* Every step of the watcher leaves the files alone.
LEMMA Inside ==
    ASSUME Scan \/ CallFails \/ Crash
    PROVE  UNCHANGED <<clock, at, disk, saved, changes>>
BY DEF Scan, Walk, CallFails, Crash, StartScan, Lstat, Open, Read, Close, Restat, Create, Ack,
       Overwrite, Insert, EndScan, files

\* A scan that is not reading any more, or not yet.
LEMMA Passed ==
    ASSUME IInv, scan' = NoScan \/ NextFile
    PROVE  /\ scan' \in Scans /\ scan'.step \in {"idle", "lstat"}
           /\ scan'.now \in {0, scan.now} /\ scan'.data = <<>>
<1>1. NoScan \in Scans /\ NoScan.step = "idle" /\ NoScan.now = 0 /\ NoScan.data = <<>>
  BY EmptyContent DEF NoScan, Scans
<1>2. CASE NextFile
  <2>1. scan.now \in Nat /\ scan.path + 1 \in Nat
    BY DEF IInv, TypeOK, Scans
  <2>2. scan' = [NoScan EXCEPT !.step = "lstat", !.now = scan.now, !.path = scan.path + 1]
    BY <1>2 DEF NextFile
  <2> QED
    BY <1>1, <2>1, <2>2 DEF Scans
<1> QED
  BY <1>1, <1>2

\* A block that is read keeps the type of what has been read.
LEMMA Reading ==
    ASSUME IInv, Read
    PROVE  LET x == disk[scan.inode]
               d == scan.data
           IN  /\ scan.inode \in Inodes /\ x \in Files /\ d \in Contents
               /\ Len(d) < Len(x.content)
               /\ scan' = [scan EXCEPT !.data = Append(d, x.content[Len(d) + 1])]
               /\ Append(d, x.content[Len(d) + 1]) \in Contents
<1>1. scan.inode \in Inodes /\ disk[scan.inode] \in Files /\ scan.data \in Contents
  BY DEF IInv, ReadSoFar, Read, TypeOK, Scans
<1>2. disk[scan.inode].content \in Contents
  BY <1>1 DEF Files
<1>3. Len(scan.data) < Len(disk[scan.inode].content)
  BY DEF Read, Unread
<1>4. Append(scan.data, disk[scan.inode].content[Len(scan.data) + 1]) \in Contents
  BY <1>1, <1>2, <1>3, AppendContent
<1>5. scan' = [scan EXCEPT !.data =
                 Append(scan.data, disk[scan.inode].content[Len(scan.data) + 1])]
  BY DEF Read, IInv, TypeOK, Scans
<1> QED
  BY <1>1, <1>3, <1>4, <1>5

LEMMA TypeStep ==
    ASSUME IInv, [Next]_vars
    PROVE  TypeOK'
<1>0. TypeOK
  BY DEF IInv
<1>1. CASE Environment
  BY <1>0, <1>1, Outside DEF TypeOK
<1>2. CASE UNCHANGED vars
  BY <1>0, <1>2 DEF TypeOK, vars
<1>3. ASSUME Scan \/ CallFails \/ Crash,
             scan' \in Scans, object' \in [Contents -> {"absent", "intact", "damaged"}],
             landed' \in [Contents -> Paths \cup {None}], faults' \in Nat
      PROVE  TypeOK'
  BY <1>0, <1>3, Inside DEF TypeOK
<1>4. ASSUME NEW s \in {"intact", "damaged"}, Put(s)
      PROVE  object' \in [Contents -> {"absent", "intact", "damaged"}] /\ faults' \in Nat
  <2>1. object' = [object EXCEPT ![scan.data] = s]
        /\ faults' = IF s = "damaged" THEN faults + 1 ELSE faults
    BY <1>4 DEF Put
  <2>2. object' \in [Contents -> {"absent", "intact", "damaged"}]
    BY <1>0, <1>4, <2>1 DEF TypeOK
  <2>3. faults' \in Nat
    BY <1>0, <2>1 DEF TypeOK
  <2> QED
    BY <2>2, <2>3
<1>5. \A s \in Stored : s \in {"intact", "damaged"}
  BY DEF Stored
<1>6. CASE Scan
  <2>1. CASE StartScan
    <3>1. scan' \in Scans
      BY <1>0, <2>1, EmptyContent DEF StartScan, TypeOK, Scans, NoScan
    <3> QED
      BY <1>0, <1>3, <1>6, <2>1, <3>1 DEF StartScan, TypeOK
  <2>2. CASE Lstat
    <3>1. scan' \in Scans
      BY <1>0, <2>2, Passed DEF Lstat, TypeOK, Scans
    <3> QED
      BY <1>0, <1>3, <1>6, <2>2, <3>1 DEF Lstat, TypeOK
  <2>3. CASE Open
    <3>1. CASE NextFile
      BY <1>0, <1>3, <1>6, <2>3, <3>1, Passed DEF Open, TypeOK
    <3>2. CASE ~NextFile
      <4>1. disk[scan.inode].content \in Contents /\ disk[scan.inode].mtime \in Nat
        BY <1>0, <2>3 DEF Open, IInv, Walking, TypeOK, Files
      <4>2. Len(disk[scan.inode].content) \in Nat
        BY <4>1, ContentForm
      <4>3. scan' \in Scans
        BY <1>0, <2>3, <3>2, <4>1, <4>2 DEF Open, TypeOK, Scans
      <4> QED
        BY <1>0, <1>3, <1>6, <2>3, <4>3 DEF Open, TypeOK
    <3> QED
      BY <3>1, <3>2
  <2>4. CASE Read
    <3>1. scan' \in Scans
      BY <1>0, <2>4, Reading DEF TypeOK, Scans
    <3> QED
      BY <1>0, <1>3, <1>6, <2>4, <3>1 DEF Read, TypeOK
  <2>5. CASE Close
    <3>1. scan' \in Scans
      BY <1>0, <2>5, Passed DEF Close, TypeOK, Scans
    <3> QED
      BY <1>0, <1>3, <1>6, <2>5, <3>1 DEF Close, TypeOK
  <2>6. CASE Restat
    <3>1. scan' \in Scans
      BY <1>0, <2>6, Passed DEF Restat, TypeOK, Scans
    <3> QED
      BY <1>0, <1>3, <1>6, <2>6, <3>1 DEF Restat, TypeOK
  <2>7. CASE Create
    <3>1. scan' \in Scans
      BY <1>0, <2>7 DEF Create, TypeOK, Scans
    <3>2. object' \in [Contents -> {"absent", "intact", "damaged"}] /\ faults' \in Nat
      BY <1>0, <1>4, <1>5, <2>7 DEF Create, TypeOK
    <3> QED
      BY <1>0, <1>3, <1>6, <2>7, <3>1, <3>2 DEF Create, TypeOK
  <2>8. CASE Ack
    <3>1. scan' \in Scans
      BY <1>0, <2>8, Passed DEF Ack, TypeOK, Scans
    <3> QED
      BY <1>0, <1>3, <1>6, <2>8, <3>1 DEF Ack, TypeOK
  <2>9. CASE Overwrite
    <3>1. scan' \in Scans
      BY <1>0, <2>9 DEF Overwrite, TypeOK, Scans
    <3>2. object' \in [Contents -> {"absent", "intact", "damaged"}] /\ faults' \in Nat
      BY <1>4, <1>5, <2>9 DEF Overwrite
    <3> QED
      BY <1>0, <1>3, <1>6, <2>9, <3>1, <3>2 DEF Overwrite, TypeOK
  <2>10. CASE Insert
    <3>1. scan' \in Scans
      BY <2>10, Passed DEF Insert
    <3>2. scan.path \in Paths
      BY <2>10 DEF Insert, IInv, Walking
    <3>3. landed' \in [Contents -> Paths \cup {None}]
      BY <1>0, <2>10, <3>2 DEF Insert, TypeOK
    <3> QED
      BY <1>0, <1>3, <1>6, <2>10, <3>1, <3>3 DEF Insert, TypeOK
  <2>11. CASE EndScan
    BY <1>0, <1>3, <1>6, <2>11, Passed DEF EndScan, TypeOK
  <2> QED
    BY <1>6, <2>1, <2>2, <2>3, <2>4, <2>5, <2>6, <2>7, <2>8, <2>9, <2>10, <2>11 DEF Scan, Walk
<1>7. CASE CallFails
  BY <1>0, <1>3, <1>7, Passed DEF CallFails, TypeOK
<1>8. CASE Crash
  BY <1>0, <1>3, <1>8, Passed DEF Crash, TypeOK
<1> QED
  BY <1>1, <1>2, <1>6, <1>7, <1>8 DEF Next

-----------------------------------------------------------------------------
(* The parts of IInv that say how far the scan is *)

LEMMA WalkingStep ==
    ASSUME IInv, [Next]_vars
    PROVE  Walking'
<1>0. /\ TypeOK /\ Walking /\ scan.now \in Nat /\ clock \in Nat
      /\ at \in [Paths -> Inodes \cup {None}]
  BY DEF IInv, TypeOK, Scans
<1>1. CASE Environment
  BY <1>0, <1>1, Outside DEF Walking
<1>2. CASE UNCHANGED vars
  BY <1>0, <1>2 DEF Walking, vars
<1>3. ASSUME Scan \/ CallFails \/ Crash, scan' = NoScan \/ NextFile
      PROVE  Walking'
  <2>1. /\ scan'.step \in {"idle", "lstat"} /\ scan'.now \in {0, scan.now}
        /\ scan'.data = <<>> /\ clock' = clock
    BY <1>3, Passed, Inside
  <2> QED
    BY <1>0, <2>1 DEF Walking
<1>4. ASSUME Scan, scan.step # "lstat", scan.step # "idle",
             scan'.now = scan.now, scan'.path = scan.path,
             scan'.step \notin {"idle", "lstat", "open"}
      PROVE  Walking'
  BY <1>0, <1>4, Inside DEF Walking
<1>5. CASE Scan
  <2>1. CASE StartScan
    BY <1>0, <1>5, <2>1, Inside DEF StartScan, Walking, NoScan
  <2>2. CASE Lstat
    <3>1. CASE NextFile
      BY <1>3, <1>5, <3>1
    <3>2. CASE ~NextFile
      BY <1>0, <1>5, <2>2, <3>2, Inside DEF Lstat, Walking, TypeOK, Scans
    <3> QED
      BY <3>1, <3>2
  <2>3. CASE Open
    BY <1>0, <1>3, <1>4, <1>5, <2>3 DEF Open, TypeOK, Scans
  <2>4. CASE Read
    BY <1>0, <1>4, <1>5, <2>4 DEF Read, TypeOK, Scans
  <2>5. CASE Close
    BY <1>0, <1>3, <1>4, <1>5, <2>5 DEF Close, TypeOK, Scans
  <2>6. CASE Restat
    BY <1>0, <1>3, <1>4, <1>5, <2>6 DEF Restat, TypeOK, Scans
  <2>7. CASE Create
    BY <1>0, <1>4, <1>5, <2>7 DEF Create, TypeOK, Scans
  <2>8. CASE Ack
    BY <1>0, <1>3, <1>4, <1>5, <2>8 DEF Ack, TypeOK, Scans
  <2>9. CASE Overwrite
    BY <1>0, <1>4, <1>5, <2>9 DEF Overwrite, TypeOK, Scans
  <2>10. CASE Insert
    BY <1>3, <1>5, <2>10 DEF Insert
  <2>11. CASE EndScan
    BY <1>3, <1>5, <2>11 DEF EndScan
  <2> QED
    BY <1>5, <2>1, <2>2, <2>3, <2>4, <2>5, <2>6, <2>7, <2>8, <2>9, <2>10, <2>11 DEF Scan, Walk
<1>6. CASE CallFails \/ Crash
  BY <1>3, <1>6 DEF CallFails, Crash
<1> QED
  BY <1>1, <1>2, <1>5, <1>6 DEF Next

LEMMA WrittenStep ==
    ASSUME IInv, [Next]_vars
    PROVE  Written'
<1>0. TypeOK /\ Written
  BY DEF IInv
<1>1. ASSUME NEW i \in Inodes,
             disk' = [disk EXCEPT ![i] = disk'[i]], clock' = clock,
             \A p \in Paths : at'[p] # i => at'[p] = at[p],
             saved' = saved \cup Saved(i),
             disk'[i].left = 0 => disk'[i].content = Whole(disk'[i].version),
             disk'[i].left # 0 =>
                /\ disk'[i].version \in Versions
                /\ disk'[i].left < LengthOf[disk'[i].version]
                /\ Len(disk'[i].content) >= LengthOf[disk'[i].version] - disk'[i].left
                /\ \A k \in 1..(LengthOf[disk'[i].version] - disk'[i].left) :
                      disk'[i].content[k] = disk'[i].version
                /\ clock <= disk'[i].mtime + Pause
      PROVE  Written'
  <2>1. ASSUME NEW j \in Inodes, j # i
        PROVE  disk'[j] = disk[j] /\ \A p \in Paths : at'[p] = j => at[p] = j
    BY <1>0, <1>1, <2>1 DEF TypeOK
  <2>2. ASSUME NEW p \in Paths, at'[p] = i, disk'[i].left = 0
        PROVE  <<p, disk'[i].version>> \in saved'
    BY <1>1, <2>2 DEF Saved
  <2> QED
    BY <1>0, <1>1, <2>1, <2>2 DEF Written
<1>2. CASE \E i \in Inodes :
              \/ \E p \in Paths, v \in Versions, b \in BOOLEAN : WriteFirst(p, v, i, b)
              \/ WriteNext(i)
  <2>1. PICK i \in Inodes :
              \/ \E p \in Paths, v \in Versions, b \in BOOLEAN : WriteFirst(p, v, i, b)
              \/ WriteNext(i)
    BY <1>2
  <2>2. clock <= clock + Pause
    BY <1>0, TimeAssumption DEF TypeOK
  <2> QED
    BY <1>1, <2>1, <2>2, Writing
<1>3. CASE \E p \in Paths, v \in Versions, i \in Inodes, m \in Mtimes :
              Replace(p, v, i, m)
  BY <1>1, <1>3, Replacing
<1>4. CASE \E p \in Paths : Unlink(p)
  <2>1. PICK p \in Paths : Unlink(p)
    BY <1>4
  <2>2. /\ at' = [at EXCEPT ![p] = None]
        /\ UNCHANGED <<clock, disk, saved>>
    BY <2>1 DEF Unlink
  <2>3. \A q \in Paths, i \in Inodes : at'[q] = i => at[q] = i
    BY <1>0, <2>2, NoneAssumption DEF TypeOK
  <2> QED
    BY <1>0, <2>2, <2>3 DEF Written
<1>5. CASE Tick
  <2>1. \A i \in Inodes : disk[i].left # 0 => clock' <= disk[i].mtime + Pause
    BY <1>0, <1>5, TimeAssumption DEF Tick, TypeOK, Files
  <2> QED
    BY <1>0, <1>5, <2>1 DEF Tick, Written
<1>6. CASE Scan \/ CallFails \/ Crash
  BY <1>0, <1>6, Inside DEF Written
<1>7. CASE UNCHANGED vars
  BY <1>0, <1>7 DEF Written, vars
<1> QED
  BY <1>2, <1>3, <1>4, <1>5, <1>6, <1>7 DEF Next, Environment

\* The stability window is what makes an accepted file a finished one.
LEMMA Accepting ==
    ASSUME IInv, Open, ~NextFile
    PROVE  LET x == disk[scan.inode]
           IN  /\ scan.inode \in Inodes /\ scan.path \in Paths
               /\ scan' = [scan EXCEPT !.step = "read", !.size = Len(x.content), !.mtime = x.mtime]
               /\ Len(x.content) <= Limit /\ x.mtime < scan.now
               /\ x.left = 0 /\ x.content = Whole(x.version)
               /\ <<scan.path, x.version>> \in saved
<1> DEFINE x == disk[scan.inode]
<1>1. scan.inode \in Inodes /\ scan.path \in Paths /\ scan.now <= clock
  BY DEF Open, IInv, Walking
<1>2. x \in Files /\ scan.now \in Nat /\ clock \in Nat /\ x.mtime \in Nat
  BY <1>1 DEF IInv, TypeOK, Scans, Files
<1>3. /\ at[scan.path] = scan.inode
      /\ Stable(x)
      /\ scan' = [scan EXCEPT !.step = "read", !.size = Len(x.content), !.mtime = x.mtime]
  BY DEF Open
<1>4. x.mtime < scan.now /\ x.mtime + Pause < clock
  BY <1>1, <1>2, <1>3, TimeAssumption DEF Stable
<1>5. x.left = 0
  BY <1>1, <1>2, <1>4, TimeAssumption DEF IInv, Written
<1> QED
  BY <1>1, <1>3, <1>4, <1>5 DEF IInv, Written, Stable

LEMMA ReadSoFarStep ==
    ASSUME IInv, [Next]_vars
    PROVE  ReadSoFar'
<1>0. TypeOK /\ ReadSoFar /\ Walking
  BY DEF IInv
<1>1. CASE Environment
  <2>1. CASE scan.step = "read"
    <3>1. scan.inode \in Inodes /\ scan.mtime < scan.now /\ scan.now <= clock
      BY <1>0, <2>1 DEF ReadSoFar, Walking
    <3>2. disk'[scan.inode] = disk[scan.inode] \/ disk'[scan.inode].mtime = clock
      BY <1>1, <2>1, <3>1, Outside DEF Opened
    <3>3. scan' = scan /\ saved \subseteq saved'
      BY <1>1, Outside
    <3>4. scan.mtime # clock
      BY <1>0, <3>1 DEF TypeOK, Scans
    <3> QED
      BY <1>0, <2>1, <3>1, <3>2, <3>3, <3>4 DEF ReadSoFar
  <2> QED
    BY <1>1, <2>1, Outside DEF ReadSoFar
<1>2. CASE UNCHANGED vars
  BY <1>0, <1>2 DEF ReadSoFar, vars
<1>3. ASSUME scan'.step # "read"
      PROVE  ReadSoFar'
  BY <1>3 DEF ReadSoFar
<1>4. CASE Open
  <2>1. CASE NextFile
    BY <1>3, <2>1, Passed
  <2>2. CASE ~NextFile
    <3> DEFINE x == disk[scan.inode]
    <3>1. /\ scan.inode \in Inodes
          /\ scan' = [scan EXCEPT !.step = "read", !.size = Len(x.content), !.mtime = x.mtime]
          /\ Len(x.content) <= Limit /\ x.mtime < scan.now
          /\ x.left = 0 /\ x.content = Whole(x.version)
          /\ <<scan.path, x.version>> \in saved
      BY <1>4, <2>2, Accepting
    <3>2. UNCHANGED <<disk, saved>>
      BY <1>4 DEF Open, files
    <3>3. /\ scan'.inode = scan.inode /\ scan'.path = scan.path /\ scan'.now = scan.now
          /\ scan'.data = scan.data /\ scan'.mtime = x.mtime /\ scan'.size = Len(x.content)
      BY <1>0, <3>1 DEF TypeOK, Scans
    <3>4. scan.data = <<>>
      BY <1>0, <1>4 DEF Open, Walking
    <3>5. x.content \in Contents
      BY <1>0, <3>1 DEF TypeOK, Files
    <3>6. 0 <= Len(x.content) /\ Len(<<>>) = 0
      BY <3>5, ContentForm
    <3>7. disk'[scan'.inode] = x
      BY <3>2, <3>3
    <3> HIDE DEF x
    <3> QED
      BY <3>1, <3>2, <3>3, <3>4, <3>6, <3>7 DEF ReadSoFar
  <2> QED
    BY <2>1, <2>2
<1>5. CASE Read
  <2> DEFINE x == disk[scan.inode]
             d == scan.data
             e == Append(d, x.content[Len(d) + 1])
  <2>1. /\ scan.inode \in Inodes /\ x \in Files /\ d \in Contents
        /\ Len(d) < Len(x.content) /\ e \in Contents
        /\ scan' = [scan EXCEPT !.data = e]
    BY <1>5, Reading
  <2>2. x.content \in Contents
    BY <2>1 DEF Files
  <2>3. /\ Len(e) = Len(d) + 1
        /\ \A k \in 1..Len(d) : e[k] = d[k]
        /\ e[Len(d) + 1] = x.content[Len(d) + 1]
    BY <2>1, <2>2, AppendContent
  <2>4. Len(d) \in Nat /\ Len(x.content) \in Nat
    BY <2>1, <2>2, ContentForm
  <2>5. Len(e) <= Len(x.content) /\ \A k \in 1..Len(e) : k \in 1..Len(d) \/ k = Len(d) + 1
    BY <2>1, <2>3, <2>4
  <2> HIDE DEF e
  <2>6. /\ scan'.step = scan.step /\ scan'.inode = scan.inode /\ scan'.path = scan.path
        /\ scan'.now = scan.now /\ scan'.mtime = scan.mtime /\ scan'.size = scan.size
        /\ scan'.data = e
    BY <1>0, <2>1 DEF TypeOK, Scans
  <2>7. UNCHANGED <<disk, saved>> /\ scan.step = "read"
    BY <1>5 DEF Read, files
  <2> QED
    BY <1>0, <2>3, <2>5, <2>6, <2>7 DEF ReadSoFar
<1>6. CASE StartScan \/ EndScan \/ Insert \/ CallFails \/ Crash
  BY <1>3, <1>6, Passed DEF StartScan, EndScan, Insert, CallFails, Crash, NoScan
<1>7. CASE Lstat \/ Close \/ Restat \/ Create \/ Ack \/ Overwrite
  <2>1. NextFile \/ scan'.step # "read"
    BY <1>0, <1>7 DEF Lstat, Close, Restat, Create, Ack, Overwrite, TypeOK, Scans
  <2> QED
    BY <1>3, <2>1, Passed
<1> QED
  BY <1>1, <1>2, <1>4, <1>5, <1>6, <1>7 DEF Next, Scan, Walk

\* A file closed with the mtime it was opened with was read whole.
LEMMA Closing ==
    ASSUME IInv, Close, ~NextFile
    PROVE  /\ scan' = [scan EXCEPT !.step = "restat"]
           /\ \E v \in Versions : /\ scan.data = Whole(v)
                                 /\ <<scan.path, v>> \in saved
                                 /\ LengthOf[v] <= Limit
           /\ scan.data = disk[scan.inode].content
           /\ disk[scan.inode].mtime = scan.mtime /\ scan.step = "read"
<1> DEFINE x == disk[scan.inode]
           d == scan.data
<1>1. /\ scan.step = "read" /\ ~Unread /\ Untouched(x)
      /\ scan' = [scan EXCEPT !.step = "restat"]
  BY DEF Close
<1>2. /\ scan.inode \in Inodes /\ scan.size <= Limit
      /\ x.content = Whole(x.version)
      /\ <<scan.path, x.version>> \in saved
      /\ Len(d) <= Len(x.content)
      /\ \A k \in 1..Len(d) : d[k] = x.content[k]
  BY <1>1 DEF IInv, ReadSoFar, Untouched
<1>3. x.version \in Versions
  BY <1>2 DEF IInv, TypeOK
<1>4. /\ LengthOf[x.version] \in Nat /\ Len(x.content) = LengthOf[x.version]
      /\ \A k \in 1..LengthOf[x.version] : x.content[k] = x.version
  BY <1>2, <1>3, WholeContent, LengthAssumption
<1>5. d \in Contents /\ Len(d) \in Nat /\ scan.size \in Nat
  <2>1. d \in Contents /\ scan.size \in Nat
    BY DEF IInv, TypeOK, Scans
  <2> QED
    BY <2>1, ContentForm
<1>6. Len(d) = LengthOf[x.version]
  BY <1>1, <1>2, <1>4, <1>5, LengthAssumption DEF Unread, Untouched
<1>7. d = Whole(x.version)
  BY <1>2, <1>3, <1>4, <1>5, <1>6, WholeFrom
<1>8. LengthOf[x.version] <= Limit
  BY <1>1, <1>2, <1>4 DEF Untouched
<1> QED
  BY <1>1, <1>2, <1>3, <1>7, <1>8 DEF Untouched

LEMMA ReadWholeStep ==
    ASSUME IInv, [Next]_vars
    PROVE  ReadWhole'
<1>0. TypeOK /\ ReadWhole
  BY DEF IInv
<1>1. CASE Environment
  BY <1>0, <1>1, Outside DEF ReadWhole, Readable
<1>2. CASE UNCHANGED vars
  BY <1>0, <1>2 DEF ReadWhole, Readable, vars
<1>3. ASSUME scan'.step \in {"idle", "lstat", "open", "read"}
      PROVE  ReadWhole'
  BY <1>3 DEF ReadWhole
<1>4. CASE Close
  <2>1. CASE NextFile
    BY <1>3, <2>1, Passed
  <2>2. CASE ~NextFile
    <3>1. /\ scan' = [scan EXCEPT !.step = "restat"]
          /\ \E v \in Versions : /\ scan.data = Whole(v)
                                /\ <<scan.path, v>> \in saved
                                /\ LengthOf[v] <= Limit
      BY <1>4, <2>2, Closing
    <3>2. /\ scan'.data = scan.data /\ scan'.path = scan.path /\ scan'.step = "restat"
          /\ saved' = saved
      BY <1>0, <1>4, <3>1, Inside DEF TypeOK, Scans, Scan, Walk
    <3> QED
      BY <3>1, <3>2 DEF ReadWhole
  <2> QED
    BY <2>1, <2>2
<1>5. CASE Restat \/ Create \/ Ack \/ Overwrite
  <2>1. CASE NextFile
    BY <1>3, <2>1, Passed
  <2>2. CASE ~NextFile
    <3>1. /\ scan'.data = scan.data /\ scan'.path = scan.path /\ saved' = saved
          /\ scan.step \in {"restat", "create", "ack", "overwrite", "insert"}
      BY <1>0, <1>5, <2>2, Inside
         DEF Restat, Create, Ack, Overwrite, TypeOK, Scans, Scan, Walk
    <3>2. scan.step = "restat" => Readable
      BY <1>5, <2>2 DEF Restat, Create, Ack, Overwrite
    <3> QED
      BY <1>0, <3>1, <3>2 DEF ReadWhole, Readable
  <2> QED
    BY <2>1, <2>2
<1>6. CASE StartScan \/ EndScan \/ Insert \/ CallFails \/ Crash
  BY <1>3, <1>6, Passed DEF StartScan, EndScan, Insert, CallFails, Crash, NoScan
<1>7. CASE Lstat \/ Open \/ Read
  <2>1. NextFile \/ scan'.step \in {"open", "read"}
    BY <1>0, <1>7 DEF Lstat, Open, Read, TypeOK, Scans
  <2> QED
    BY <1>3, <2>1, Passed
<1> QED
  BY <1>1, <1>2, <1>4, <1>5, <1>6, <1>7 DEF Next, Scan, Walk

-----------------------------------------------------------------------------
(* Objects and rows *)

\* No write harms an object that is good.
LEMMA Kept ==
    ASSUME IInv, [Next]_vars, NEW c \in Contents, object[c] = "intact"
    PROVE  object'[c] = "intact"
<1>0. TypeOK /\ Acknowledged
  BY DEF IInv
<1>1. CASE Create
  <2>1. CASE object[scan.data] = "absent"
    BY <1>0, <1>1, <2>1 DEF Create, Put, TypeOK
  <2>2. CASE object[scan.data] # "absent"
    BY <1>1, <2>2 DEF Create
  <2> QED
    BY <2>1, <2>2
<1>2. CASE Overwrite
  BY <1>0, <1>2 DEF Overwrite, Put, TypeOK, Acknowledged
<1>3. CASE UNCHANGED object
  BY <1>3
<1>4. CASE Environment
  BY <1>4, Outside
<1> QED
  BY <1>1, <1>2, <1>3, <1>4
     DEF Next, vars, Scan, Walk, CallFails, Crash, StartScan, Lstat, Open, Read, Close, Restat,
         Ack, Insert, EndScan

\* A row is inserted only by a scan that acknowledged the object.
LEMMA Inserting ==
    ASSUME IInv, [Next]_vars, NEW c \in Contents, landed'[c] # landed[c]
    PROVE  Insert /\ c = scan.data /\ landed'[c] = scan.path
<1>0. TypeOK
  BY DEF IInv
<1>1. CASE Insert
  BY <1>0, <1>1 DEF Insert, TypeOK
<1>2. CASE Environment
  BY <1>2, Outside
<1> QED
  BY <1>1, <1>2
     DEF Next, vars, Scan, Walk, CallFails, Crash, StartScan, Lstat, Open, Read, Close, Restat,
         Create, Ack, Overwrite, EndScan

LEMMA AcknowledgedStep ==
    ASSUME IInv, [Next]_vars
    PROVE  Acknowledged'
<1>0. TypeOK /\ Acknowledged /\ scan.data \in Contents
  BY DEF IInv, TypeOK, Scans
<1>1. RowHasObject'
  <2> SUFFICES ASSUME NEW c \in Contents, landed'[c] # None
               PROVE  object'[c] = "intact"
    BY DEF RowHasObject
  <2>1. CASE landed'[c] = landed[c]
    BY <1>0, <2>1, Kept DEF Acknowledged, RowHasObject
  <2>2. CASE landed'[c] # landed[c]
    BY <1>0, <2>2, Inserting, Kept DEF Acknowledged, Insert
  <2> QED
    BY <2>1, <2>2
<1>2. CASE Environment \/ UNCHANGED vars
  <2>1. UNCHANGED <<scan, object>>
    BY <1>2, Outside DEF vars
  <2> QED
    BY <1>0, <1>1, <2>1 DEF Acknowledged
<1>3. ASSUME scan'.step \notin {"overwrite", "insert"}
      PROVE  Acknowledged'
  BY <1>1, <1>3 DEF Acknowledged
<1>4. CASE Ack
  <2>1. CASE NextFile
    BY <1>3, <2>1, Passed
  <2>2. CASE ~NextFile
    <3>1. /\ object' = object /\ scan'.data = scan.data
          /\ scan'.step = "insert" => object[scan.data] = "intact"
          /\ scan'.step = "overwrite" => object[scan.data] # "intact"
      BY <1>0, <1>4, <2>2 DEF Ack, Intact, TypeOK, Scans
    <3> QED
      BY <1>1, <3>1 DEF Acknowledged
  <2> QED
    BY <2>1, <2>2
<1>5. CASE StartScan \/ EndScan \/ Insert \/ CallFails \/ Crash
  BY <1>3, <1>5, Passed DEF StartScan, EndScan, Insert, CallFails, Crash, NoScan
<1>6. CASE Lstat \/ Open \/ Read \/ Close \/ Restat \/ Create \/ Overwrite
  <2>1. NextFile \/ scan'.step \notin {"overwrite", "insert"}
    BY <1>0, <1>6 DEF Lstat, Open, Read, Close, Restat, Create, Overwrite, TypeOK, Scans
  <2> QED
    BY <1>3, <2>1, Passed
<1> QED
  BY <1>2, <1>4, <1>5, <1>6 DEF Next, Scan, Walk

LEMMA WholeVersionsStep ==
    ASSUME IInv, [Next]_vars
    PROVE  WholeVersions'
<1>1. saved \subseteq saved'
  BY Outside, Inside DEF Next, vars
<1> SUFFICES ASSUME NEW c \in Contents, landed'[c] # None
             PROVE  \E v \in Versions : /\ c = Whole(v)
                                       /\ <<landed'[c], v>> \in saved'
                                       /\ Landable(landed'[c], v)
  BY DEF WholeVersions
<1>2. CASE landed'[c] = landed[c]
  BY <1>1, <1>2 DEF IInv, WholeVersions
<1>3. CASE landed'[c] # landed[c]
  <2>1. Insert /\ c = scan.data /\ landed'[c] = scan.path
    BY <1>3, Inserting
  <2>2. PICK v \in Versions : /\ scan.data = Whole(v)
                             /\ <<scan.path, v>> \in saved
                             /\ LengthOf[v] <= Limit
    BY <2>1 DEF Insert, IInv, ReadWhole
  <2>3. scan.path \in Supported \ Unstorable
    BY <1>3, <2>1 DEF Insert, IInv, Walking, TypeOK
  <2>4. scan.path \in TextPaths => v \notin Binary
    <3>1. Len(Whole(v)) = LengthOf[v] /\ LengthOf[v] \in Nat \ {0} /\ Whole(v)[1] = v
      BY WholeContent, LengthAssumption DEF Whole
    <3> QED
      BY <2>1, <2>2, <3>1 DEF Insert, IInv, ReadWhole, Readable
  <2> QED
    BY <1>1, <2>1, <2>2, <2>3, <2>4 DEF Landable
<1> QED
  BY <1>2, <1>3

-----------------------------------------------------------------------------
(* The theorems *)

LEMMA Initial == ASSUME Init PROVE IInv
<1>1. TypeOK
  BY EmptyContent, NoneAssumption
     DEF Init, TypeOK, Files, EmptyFile, Scans, NoScan
<1>2. Walking /\ ReadSoFar /\ ReadWhole
  BY DEF Init, Walking, ReadSoFar, ReadWhole, NoScan
<1>3. Written
  BY NoneAssumption DEF Init, Written, EmptyFile
<1>4. Acknowledged /\ WholeVersions
  BY DEF Init, Acknowledged, RowHasObject, WholeVersions, NoScan
<1> QED
  BY <1>1, <1>2, <1>3, <1>4 DEF IInv

LEMMA InvInit == Init => IInv
  BY Initial

LEMMA InvStep == IInv /\ [Next]_vars => IInv'
  BY TypeStep, WalkingStep, WrittenStep, ReadSoFarStep, ReadWholeStep, AcknowledgedStep,
     WholeVersionsStep DEF IInv

\* The invariant of the watcher: how far each file and the scan have come.
THEOREM Invariant == Spec => []IInv
  BY InvInit, InvStep, PTL DEF Spec

\* No document is half a version or a mixture of two, whatever is written,
\* replaced or removed while the watcher reads (iter_landable()).
THEOREM Untorn == Spec => []WholeVersions
<1>1. IInv => WholeVersions
  BY DEF IInv
<1> QED
  BY <1>1, Invariant, PTL

\* A row of documents has its object, wherever a scan died (scan(), put()).
THEOREM Backed == Spec => []RowHasObject
<1>1. IInv => RowHasObject
  BY DEF IInv, Acknowledged
<1> QED
  BY <1>1, Invariant, PTL

-----------------------------------------------------------------------------
(* Refinement *)

\* The system calls of a program make one change of the files, under which what
\* the scan has open is either as it was or not taken after all.
LEMMA ChangeMaps ==
    ASSUME IInv, TypeOK', Environment
    PROVE  Atomic!Change
<1>0. TypeOK
  BY DEF IInv
<1>1. /\ UNCHANGED <<object, landed, scan>>
      /\ \A i \in Inodes : Opened(i) => disk'[i] = disk[i] \/ disk'[i].mtime = clock
  BY Outside
<1>2. Finished' \subseteq Paths \X Contents
  BY NoneAssumption DEF Finished, TypeOK, Files
<1>3. Taken' \in {Taken, {}}
  <2>1. CASE scan.step = "read"
    <3>1. scan.inode \in Inodes /\ scan.mtime < scan.now /\ scan.now <= clock
      BY <2>1 DEF IInv, ReadSoFar, Walking
    <3>2. scan.mtime # clock
      BY <1>0, <3>1 DEF TypeOK, Scans
    <3> QED  BY <1>1, <2>1, <3>1, <3>2 DEF Taken, Opened
  <2>2. CASE scan.step # "read"
    BY <1>1, <2>2 DEF Taken
  <2> QED  BY <2>1, <2>2
<1>4. UNCHANGED <<Retrievable, landed>>
  BY <1>1 DEF Retrievable, Intact
<1> QED  BY <1>2, <1>3, <1>4 DEF Atomic!Change

\* The watcher leaves the files as they are.
LEMMA FilesStay ==
    ASSUME Scan \/ CallFails \/ Crash
    PROVE  Finished' = Finished /\ UNCHANGED <<at, disk>>
BY Inside DEF Finished

\* A walk that goes on with the next file, or ends, has taken none.
LEMMA NoneTaken ==
    ASSUME IInv, scan' = NoScan \/ NextFile
    PROVE  Taken' = {}
BY Passed DEF Taken

\* Each step of the watcher but the insert takes the file, keeps it, drops it, or
\* is nothing an observer sees.
LEMMA ScanMaps ==
    ASSUME IInv, Scan \/ CallFails \/ Crash, ~Insert
    PROVE  \/ \E f \in Finished : Atomic!Take(f)
           \/ Atomic!Drop
           \/ \E f \in Taken : Atomic!Keep(f)
           \/ UNCHANGED <<Finished, Taken, Retrievable, landed>>
<1>0. TypeOK /\ Walking /\ Acknowledged
  BY DEF IInv
<1>1. Finished' = Finished /\ UNCHANGED <<at, disk>>
  BY FilesStay
<1>2. landed' = landed
  BY DEF Scan, Walk, CallFails, Crash, StartScan, Lstat, Open, Read, Close, Restat, Create, Ack,
         Overwrite, EndScan
<1>3. ASSUME UNCHANGED object
      PROVE  Retrievable' = Retrievable
  BY <1>3 DEF Retrievable, Intact
<1>4. ASSUME UNCHANGED object, scan' = NoScan \/ NextFile
      PROVE  Atomic!Drop
  BY <1>1, <1>2, <1>3, <1>4, NoneTaken DEF Atomic!Drop
<1>5. CASE StartScan
  <2>1. Taken = {} /\ Taken' = {} /\ UNCHANGED object
    BY <1>5 DEF StartScan, Taken, NoScan
  <2> QED  BY <1>1, <1>2, <1>3, <2>1
<1>6. CASE EndScan \/ CallFails \/ Crash
  BY <1>4, <1>6 DEF EndScan, CallFails, Crash
<1>7. CASE Lstat
  <2>1. CASE ~NextFile
    <3>1. Taken = {} /\ Taken' = {} /\ UNCHANGED object
      BY <1>0, <1>7, <2>1 DEF Lstat, Taken, TypeOK, Scans
    <3> QED  BY <1>1, <1>2, <1>3, <3>1
  <2> QED  BY <1>4, <1>7, <2>1 DEF Lstat
<1>8. CASE Open
  <2>1. CASE ~NextFile
    <3>1. PICK x : x = disk[scan.inode]
      OBVIOUS
    <3>2. /\ scan.inode \in Inodes /\ scan.path \in Paths /\ at[scan.path] = scan.inode
          /\ scan' = [scan EXCEPT !.step = "read", !.size = Len(x.content), !.mtime = x.mtime]
          /\ x.left = 0 /\ UNCHANGED object /\ scan.step = "open"
      BY <1>8, <2>1, <3>1, Accepting DEF Open
    <3>3. Taken = {}
      BY <3>2 DEF Taken
    <3>4. Taken' = {<<scan.path, x.content>>}
      BY <1>0, <1>1, <3>1, <3>2 DEF Taken, TypeOK, Scans
    <3>5. <<scan.path, x.content>> \in Finished
      BY <3>1, <3>2, NoneAssumption DEF Finished
    <3> QED  BY <1>1, <1>2, <1>3, <3>2, <3>3, <3>4, <3>5 DEF Atomic!Take
  <2> QED  BY <1>4, <1>8, <2>1 DEF Open
<1>9. CASE Read
  <2>1. Taken' = Taken /\ UNCHANGED object
    BY <1>0, <1>1, <1>9 DEF Read, Taken, TypeOK, Scans
  <2> QED  BY <1>1, <1>2, <1>3, <2>1
<1>10. CASE Close
  <2>1. CASE ~NextFile
    <3>1. /\ scan' = [scan EXCEPT !.step = "restat"]
          /\ scan.data = disk[scan.inode].content
          /\ disk[scan.inode].mtime = scan.mtime /\ scan.step = "read"
          /\ UNCHANGED object
      BY <1>10, <2>1, Closing DEF Close
    <3>2. Taken' = Taken
      BY <1>0, <3>1 DEF Taken, TypeOK, Scans
    <3> QED  BY <1>1, <1>2, <1>3, <3>1, <3>2
  <2> QED  BY <1>4, <1>10, <2>1 DEF Close
<1>11. CASE Restat \/ Ack
  <2>1. CASE ~NextFile
    <3>1. Taken' = Taken /\ UNCHANGED object
      BY <1>0, <1>11, <2>1 DEF Restat, Ack, Taken, TypeOK, Scans
    <3> QED  BY <1>1, <1>2, <1>3, <3>1
  <2> QED  BY <1>4, <1>11, <2>1 DEF Restat, Ack
<1>12. CASE Create \/ Overwrite
  <2>1. /\ Taken' = Taken /\ Taken = {<<scan.path, scan.data>>}
        /\ scan.data \in Contents
    BY <1>0, <1>12 DEF Create, Overwrite, Taken, TypeOK, Scans
  <2>2. CASE UNCHANGED object
    BY <1>1, <1>2, <1>3, <2>1, <2>2
  <2>3. CASE \E s \in {"intact", "damaged"} : object' = [object EXCEPT ![scan.data] = s]
    <3>1. PICK s \in {"intact", "damaged"} : object' = [object EXCEPT ![scan.data] = s]
      BY <2>3
    <3>2. object[scan.data] # "intact" \/ UNCHANGED object
      BY <1>0, <1>12 DEF Create, Overwrite, Acknowledged
    <3>3. CASE s = "intact"
      <4>1. Retrievable' = Retrievable \cup {scan.data}
        BY <1>0, <2>1, <3>1, <3>3 DEF Retrievable, Intact, TypeOK
      <4>2. Atomic!Keep(<<scan.path, scan.data>>)
        BY <1>1, <1>2, <2>1, <4>1 DEF Atomic!Keep
      <4> QED  BY <2>1, <4>2
    <3>4. CASE s = "damaged"
      <4>1. Retrievable' = Retrievable
        BY <1>0, <1>3, <2>1, <3>1, <3>2, <3>4 DEF Retrievable, Intact, TypeOK
      <4> QED  BY <1>1, <1>2, <2>1, <4>1
    <3> QED  BY <3>3, <3>4
  <2> QED  BY <1>12, <2>2, <2>3 DEF Create, Overwrite, Put, Stored
<1> QED
  BY <1>5, <1>6, <1>7, <1>8, <1>9, <1>10, <1>11, <1>12 DEF Scan, Walk

\* An insert lands what was taken, or drops it if its row exists or its name raises.
LEMMA InsertMaps ==
    ASSUME IInv, Insert
    PROVE  (\E f \in Taken : Atomic!Land(f)) \/ Atomic!Drop
<1>0. TypeOK /\ scan.step = "insert" /\ UNCHANGED object
  BY DEF IInv, Insert
<1>1. Finished' = Finished /\ Taken' = {} /\ Retrievable' = Retrievable
  BY <1>0, FilesStay, NoneTaken DEF Scan, Walk, Insert, Retrievable, Intact
<1>2. /\ Taken = {<<scan.path, scan.data>>} /\ scan.data \in Retrievable
  BY <1>0 DEF Taken, IInv, Acknowledged, Retrievable, Intact, TypeOK, Scans
<1>3. CASE landed' = landed
  BY <1>1, <1>3 DEF Atomic!Drop
<1>4. CASE landed' # landed
  <2>1. landed[scan.data] = None /\ landed' = [landed EXCEPT ![scan.data] = scan.path]
    BY <1>4 DEF Insert
  <2>2. Atomic!Land(<<scan.path, scan.data>>)
    BY <1>1, <1>2, <2>1 DEF Atomic!Land
  <2> QED  BY <1>2, <2>2
<1> QED  BY <1>3, <1>4

\* iter_landable() and put() take a file as if in one instant: what lands was the
\* finished file at its path when it was opened, and no row or good object is ever
\* overwritten.
THEOREM Refinement == Spec => ImplementsArchive
<1>1. Init => Atomic!Init
  <2> SUFFICES ASSUME Init PROVE Atomic!Init
    OBVIOUS
  <2>1. Finished = {} /\ Taken = {} /\ Retrievable = {}
    BY DEF Init, Finished, Taken, NoScan, Retrievable, Intact
  <2> QED  BY <2>1 DEF Init, Atomic!Init
<1>2. IInv /\ IInv' /\ [Next]_vars => [Atomic!Next]_Atomic!vars
  <2> SUFFICES ASSUME IInv, IInv', [Next]_vars PROVE [Atomic!Next]_Atomic!vars
    OBVIOUS
  <2>1. CASE Environment
    BY <2>1, ChangeMaps DEF IInv, Atomic!Next
  <2>2. CASE Insert
    BY <2>2, InsertMaps DEF Atomic!Next
  <2>3. CASE (Scan \/ CallFails \/ Crash) /\ ~Insert
    BY <2>3, ScanMaps DEF Atomic!Next, Atomic!vars
  <2>4. CASE UNCHANGED vars
    <3>1. UNCHANGED <<Finished, Taken, Retrievable, landed>>
      BY <2>4 DEF vars, Finished, Taken, Retrievable, Intact
    <3> QED  BY <3>1 DEF Atomic!vars
  <2> QED  BY <2>1, <2>2, <2>3, <2>4 DEF Next
<1> QED  BY <1>1, <1>2, Invariant, PTL DEF Spec, Atomic!Spec, ImplementsArchive
=============================================================================
