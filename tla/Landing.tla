------------------------------ MODULE Landing -------------------------------
(***************************************************************************)
(* The watcher (watcher.py) and the object storage it writes to            *)
(* (storage.py).  A scan walks the watched directory in sorted order,      *)
(* decides by four stat calls around its reads whether a file is finished, *)
(* puts the bytes into the object storage, reads them back, and inserts    *)
(* the row of the document.  Meanwhile other programs write, replace and   *)
(* remove the files, one system call at a time; the scan may die, and the  *)
(* storage and the database may fail, between any two of its steps.        *)
(*                                                                         *)
(* A file's bytes are a sequence of blocks, each named for the version it  *)
(* belongs to, so that a mixture of two versions can be told from either.  *)
(* A content hash is the content itself.  One clock gives both time.time() *)
(* and the mtimes; a tick is its resolution.                               *)
(***************************************************************************)
EXTENDS Naturals, Sequences

CONSTANTS
    PathCount,   \* files are numbered in the order of the walk
    Supported,   \* paths with a supported extension
    TextPaths,   \* those that must decode as UTF-8
    Unstorable,  \* paths whose name PostgreSQL cannot take
    Versions,    \* what programs save to a file
    LengthOf,    \* blocks of each version
    MaxLength,   \* the longest of them
    Binary,      \* versions that are not UTF-8
    Inodes,
    Window,      \* MTIME_STABILITY_WINDOW_SECONDS, in ticks
    Limit,       \* _MAX_FILE_SIZE_BYTES, in blocks
    Pause,       \* the longest an in-place writer waits between two writes
    Mtimes,      \* what the mtime of a file that is moved here may be
    MaxTime,     \* bound on the clock
    MaxChanges,  \* bound on the times a file is rewritten, replaced or removed
    MaxFaults,   \* bound on crashes and failed calls
    None

Paths == 1..PathCount

ASSUME PathAssumption == PathCount \in Nat
ASSUME LengthAssumption ==
    MaxLength \in Nat /\ Limit \in Nat /\ LengthOf \in [Versions -> 1..MaxLength]
ASSUME TimeAssumption ==
    Window \in Nat \ {0} /\ Pause \in Nat /\ Pause < Window /\ Mtimes \subseteq Nat
ASSUME BoundAssumption == MaxTime \in Nat /\ MaxChanges \in Nat /\ MaxFaults \in Nat
ASSUME NoneAssumption == None \notin Inodes /\ None \notin Paths /\ None \notin Versions

VARIABLES
    clock,
    at,        \* the directory: the inode of each path
    disk,      \* the inodes
    object,    \* RustFS, by content hash
    landed,    \* documents: the original_filename of each content hash
    scan,      \* what the scan under way knows
    saved,     \* history: which versions were ever finished at which path
    changes, faults

vars == <<clock, at, disk, object, landed, scan, saved, changes, faults>>

files == <<clock, at, disk, saved, changes>>

-----------------------------------------------------------------------------
(* Vocabulary *)

Whole(v) == [i \in 1..LengthOf[v] |-> v]

Contents == UNION {[1..n -> Versions] : n \in 0..MaxLength}

\* left counts the blocks its writer has still to write.
Files == [content : Contents, mtime : Nat, version : Versions \cup {None}, left : Nat]

EmptyFile == [content |-> <<>>, mtime |-> 0, version |-> None, left |-> 0]

Scans == [step : {"idle", "lstat", "open", "read", "restat", "create", "ack",
                  "overwrite", "insert"},
          now : Nat, path : Nat, inode : Inodes \cup {None},
          size : Nat, mtime : Nat, data : Contents, again : BOOLEAN]

NoScan == [step |-> "idle", now |-> 0, path |-> 0, inode |-> None,
           size |-> 0, mtime |-> 0, data |-> <<>>, again |-> FALSE]

\* The scan has this inode open.
Opened(i) == scan.step = "read" /\ scan.inode = i

\* No name, no writer and no reader: the number may be given to a new file.
Free(i) == /\ \A p \in Paths : at[p] # i
           /\ disk[i].left = 0
           /\ ~Opened(i)

-----------------------------------------------------------------------------
Init == /\ clock = 0
        /\ at = [p \in Paths |-> None]
        /\ disk = [i \in Inodes |-> EmptyFile]
        /\ object = [c \in Contents |-> "absent"]
        /\ landed = [c \in Contents |-> None]
        /\ scan = NoScan
        /\ saved = {}
        /\ changes = 0
        /\ faults = 0

(* The programs that use the watched directory *)

\* write(2) of the next block, the last one with the file's final length.
WithBlock(x, v, left) ==
    LET done == LengthOf[v] - left + 1
        length == IF left = 1 \/ Len(x.content) < done THEN done ELSE Len(x.content)
    IN  [content |-> [k \in 1..length |-> IF k = done THEN v ELSE x.content[k]],
         mtime |-> clock, version |-> v, left |-> left - 1]

Saved(i) == IF disk'[i].left = 0 THEN {<<p, disk'[i].version>> : p \in {q \in Paths : at'[q] = i}}
            ELSE {}

\* A program opens a file to write a new version, over the old bytes or
\* truncated first, and writes the first block.
WriteFirst(p, v, i, truncate) ==
    /\ changes < MaxChanges
    /\ clock + (LengthOf[v] - 1) * Pause + Window <= MaxTime
    /\ \/ at[p] = i /\ disk[i].left = 0
       \/ at[p] = None /\ Free(i)
    /\ LET x == IF truncate \/ at[p] = None THEN EmptyFile ELSE disk[i]
       IN  disk' = [disk EXCEPT ![i] = WithBlock(x, v, LengthOf[v])]
    /\ at' = [at EXCEPT ![p] = i]
    /\ saved' = saved \cup Saved(i)
    /\ changes' = changes + 1
    /\ UNCHANGED <<clock, object, landed, scan, faults>>

WriteNext(i) ==
    /\ disk[i].left # 0
    /\ disk' = [disk EXCEPT ![i] = WithBlock(@, @.version, @.left)]
    /\ UNCHANGED at
    /\ saved' = saved \cup Saved(i)
    /\ UNCHANGED <<clock, object, landed, scan, changes, faults>>

\* rename(2) of a finished file, which keeps its mtime, onto a path.
Replace(p, v, i, m) ==
    /\ changes < MaxChanges
    /\ Free(i)
    /\ at' = [at EXCEPT ![p] = i]
    /\ disk' = [disk EXCEPT ![i] = [content |-> Whole(v), mtime |-> m,
                                    version |-> v, left |-> 0]]
    /\ saved' = saved \cup Saved(i)
    /\ changes' = changes + 1
    /\ UNCHANGED <<clock, object, landed, scan, faults>>

Unlink(p) ==
    /\ changes < MaxChanges
    /\ at[p] # None
    /\ at' = [at EXCEPT ![p] = None]
    /\ changes' = changes + 1
    /\ UNCHANGED <<clock, disk, saved, object, landed, scan, faults>>

\* A program that writes in place pauses for less than the stability window.
Tick ==
    /\ clock < MaxTime
    /\ \A i \in Inodes : disk[i].left # 0 => clock + 1 - disk[i].mtime <= Pause
    /\ clock' = clock + 1
    /\ UNCHANGED <<at, disk, saved, changes, object, landed, scan, faults>>

Environment ==
    \/ \E p \in Paths, v \in Versions, i \in Inodes, b \in BOOLEAN : WriteFirst(p, v, i, b)
    \/ \E i \in Inodes : WriteNext(i)
    \/ \E p \in Paths, v \in Versions, i \in Inodes, m \in Mtimes : Replace(p, v, i, m)
    \/ \E p \in Paths : Unlink(p)
    \/ Tick

-----------------------------------------------------------------------------
(* iter_landable() *)

\* The walk goes on with the next file.
NextFile == scan' = [NoScan EXCEPT !.step = "lstat", !.now = scan.now,
                                   !.path = scan.path + 1]

\* main() calls scan(); time.time() is taken once.
StartScan ==
    /\ scan.step = "idle"
    /\ scan' = [NoScan EXCEPT !.step = "lstat", !.now = clock, !.path = 1]
    /\ UNCHANGED <<files, object, landed, faults>>

\* Unsupported extensions and files that are gone are passed over.
Lstat ==
    /\ scan.step = "lstat"
    /\ scan.path \in Paths
    /\ IF scan.path \in Supported /\ at[scan.path] # None
       THEN scan' = [scan EXCEPT !.step = "open", !.inode = at[scan.path]]
       ELSE NextFile
    /\ UNCHANGED <<files, object, landed, faults>>

\* Bug: a file is taken whatever its age.
StableAnyAge(x) == Len(x.content) <= Limit

\* The file is not oversized, and old enough by the clock of the scan's start.
Stable(x) == Len(x.content) <= Limit /\ scan.now >= x.mtime + Window

\* os.open() and os.fstat(): still the file lstat() saw?
Open ==
    /\ scan.step = "open"
    /\ IF at[scan.path] = scan.inode /\ Stable(disk[scan.inode])
       THEN scan' = [scan EXCEPT !.step = "read",
                                 !.size = Len(disk[scan.inode].content),
                                 !.mtime = disk[scan.inode].mtime]
       ELSE NextFile
    /\ UNCHANGED <<files, object, landed, faults>>

\* What os.read() has still to return.
Unread == Len(scan.data) < Len(disk[scan.inode].content) /\ Len(scan.data) < Limit

Read ==
    /\ scan.step = "read"
    /\ Unread
    /\ scan' = [scan EXCEPT !.data = Append(@, disk[scan.inode].content[Len(@) + 1])]
    /\ UNCHANGED <<files, object, landed, faults>>

\* Bug: only the size is compared.
UnchangedSize(x) == Len(x.content) = scan.size

\* Neither rewritten nor resized since the fstat() after os.open().
Untouched(x) == Len(x.content) = scan.size /\ x.mtime = scan.mtime

\* The last os.read(), the second os.fstat() and os.close().
Close ==
    /\ scan.step = "read"
    /\ ~Unread
    /\ IF Untouched(disk[scan.inode]) THEN scan' = [scan EXCEPT !.step = "restat"]
                                      ELSE NextFile
    /\ UNCHANGED <<files, object, landed, faults>>

\* Bug: nothing is decoded.
ReadableAnyBytes == scan.data # <<>>

\* Neither empty nor, where text is expected, something else.
Readable == /\ scan.data # <<>>
            /\ scan.path \in TextPaths => \A k \in 1..Len(scan.data) : scan.data[k] \notin Binary

\* The last path.lstat().
Restat ==
    /\ scan.step = "restat"
    /\ IF at[scan.path] = scan.inode /\ Untouched(disk[scan.inode]) /\ Readable
       THEN scan' = [scan EXCEPT !.step = "create"]
       ELSE NextFile
    /\ UNCHANGED <<files, object, landed, faults>>

-----------------------------------------------------------------------------
(* ObjectStorage.put() and the insert of scan() *)

\* An object store may keep something else than it was sent.
Stored == IF faults < MaxFaults THEN {"intact", "damaged"} ELSE {"intact"}

Put(s) == /\ object' = [object EXCEPT ![scan.data] = s]
          /\ faults' = IF s = "damaged" THEN faults + 1 ELSE faults

\* Bug: an object that exists is written again.
CreateOverwriting ==
    /\ scan.step = "create"
    /\ \E s \in Stored : Put(s)
    /\ scan' = [scan EXCEPT !.step = "ack"]
    /\ UNCHANGED <<files, landed>>

\* pipe_file(mode="create"); FileExistsError is ignored.
Create ==
    /\ scan.step = "create"
    /\ IF object[scan.data] = "absent" THEN \E s \in Stored : Put(s)
                                       ELSE UNCHANGED <<object, faults>>
    /\ scan' = [scan EXCEPT !.step = "ack"]
    /\ UNCHANGED <<files, landed>>

\* Bug: an object that exists is taken for good.
IntactUnread(c) == TRUE

\* get() compares the hash of what it reads with the key.
Intact(c) == object[c] = "intact"

\* _ack(): a bad object is written once more, then put() raises.
Ack ==
    /\ scan.step = "ack"
    /\ \/ Intact(scan.data) /\ scan' = [scan EXCEPT !.step = "insert"]
       \/ ~Intact(scan.data) /\ ~scan.again /\ scan' = [scan EXCEPT !.step = "overwrite"]
       \/ ~Intact(scan.data) /\ scan.again /\ NextFile
    /\ UNCHANGED <<files, object, landed, faults>>

\* pipe_file(mode="overwrite").
Overwrite ==
    /\ scan.step = "overwrite"
    /\ \E s \in Stored : Put(s)
    /\ scan' = [scan EXCEPT !.step = "ack", !.again = TRUE]
    /\ UNCHANGED <<files, landed>>

\* Bug: the error ends the scan.
InsertStopping ==
    /\ scan.step = "insert"
    /\ landed' = IF scan.path \in Unstorable \/ landed[scan.data] # None THEN landed
                 ELSE [landed EXCEPT ![scan.data] = scan.path]
    /\ IF scan.path \in Unstorable THEN scan' = NoScan ELSE NextFile
    /\ UNCHANGED <<files, object, faults>>

\* INSERT ... ON CONFLICT DO NOTHING and COMMIT; a name the driver refuses raises.
Insert ==
    /\ scan.step = "insert"
    /\ landed' = IF scan.path \in Unstorable \/ landed[scan.data] # None THEN landed
                 ELSE [landed EXCEPT ![scan.data] = scan.path]
    /\ NextFile
    /\ UNCHANGED <<files, object, faults>>

\* The loop is over; main() sleeps, then scans again, failed or not.
EndScan ==
    /\ scan.step = "lstat"
    /\ scan.path \notin Paths
    /\ scan' = NoScan
    /\ UNCHANGED <<files, object, landed, faults>>

\* A directory or a file cannot be read, the storage or the database does not
\* answer: the error is kept for the end of the scan, which goes on.
CallFails ==
    /\ scan.step \in {"lstat", "open", "read", "restat", "create", "ack", "overwrite", "insert"}
    /\ scan.path \in Paths
    /\ faults < MaxFaults
    /\ faults' = faults + 1
    /\ NextFile
    /\ UNCHANGED <<files, object, landed>>

\* The watcher dies, or loses its connections for the rest of the scan.
Crash ==
    /\ scan.step # "idle"
    /\ faults < MaxFaults
    /\ faults' = faults + 1
    /\ scan' = NoScan
    /\ UNCHANGED <<files, object, landed>>

\* Every step of a scan but the insert: it knows documents by nothing else.
Walk == \/ StartScan \/ Lstat \/ Open \/ Read \/ Close \/ Restat
        \/ Create \/ Ack \/ Overwrite \/ EndScan

Scan == Walk \/ Insert

Next == Environment \/ Scan \/ CallFails \/ Crash

Spec == Init /\ [][Next]_vars

\* The watcher never stops scanning, time passes, and a program that has begun
\* to write a file goes on.
Fairness == /\ WF_vars(Scan)
            /\ WF_vars(Tick)
            /\ \A i \in Inodes : WF_vars(WriteNext(i))

FairSpec == Spec /\ Fairness

-----------------------------------------------------------------------------
(* Correctness *)

\* Every variable keeps its type.
TypeOK ==
    /\ clock \in Nat
    /\ at \in [Paths -> Inodes \cup {None}]
    /\ disk \in [Inodes -> Files]
    /\ object \in [Contents -> {"absent", "intact", "damaged"}]
    /\ landed \in [Contents -> Paths \cup {None}]
    /\ scan \in Scans
    /\ saved \subseteq Paths \X Versions
    /\ changes \in Nat /\ faults \in Nat

\* A file that could land: supported, storable, readable and not too large.
Landable(p, v) == /\ p \in Supported \ Unstorable
                  /\ LengthOf[v] <= Limit
                  /\ p \in TextPaths => v \notin Binary

\* What lands is a version some program finished under the filename of its
\* row, never half of one or a mixture of two: the stability window and the
\* mtimes around the reads catch every writer that pauses for less.  And under
\* that name it is one extract_markdown() accepts: the extension is known, and
\* what should be text is.
WholeVersions ==
    \A c \in Contents : landed[c] # None =>
        \E v \in Versions : /\ c = Whole(v)
                            /\ <<landed[c], v>> \in saved
                            /\ Landable(landed[c], v)

\* A row has its object, and the object hashes to its key: wherever the scan
\* dies, what is left behind is an object without a row (ADR-0005).
RowHasObject == \A c \in Contents : landed[c] # None => object[c] = "intact"

Holding(p, v) == at[p] # None /\ disk[at[p]].left = 0 /\ disk[at[p]].content = Whole(v)

\* A landable file that is left alone gets its row: files that are skipped or
\* raise every time, crashes and damaged objects delay it, and the walk order
\* does not starve it.
EventuallyLanded ==
    \A p \in Paths, v \in Versions :
        Landable(p, v) =>
            (Holding(p, v) ~> (landed[Whole(v)] # None \/ ~Holding(p, v)))
-----------------------------------------------------------------------------
(* Refinement *)

\* Files no program is in the middle of writing.
Finished == {<<p, disk[at[p]].content>> :
                p \in {q \in Paths : at[q] # None /\ disk[at[q]].left = 0}}

\* What the scan will land: from its open() on the file it has open, unless that
\* is written to; from its close() on the bytes it has read.
Taken ==
    IF scan.step = "read" /\ disk[scan.inode].mtime = scan.mtime
    THEN {<<scan.path, disk[scan.inode].content>>}
    ELSE IF scan.step \in {"restat", "create", "ack", "overwrite", "insert"}
    THEN {<<scan.path, scan.data>>}
    ELSE {}

\* Contents that get() returns.
Retrievable == {c \in Contents : Intact(c)}

Atomic == INSTANCE Archive WITH
    finished <- Finished,
    taken    <- Taken,
    kept     <- Retrievable

\* The scan, with its four stat calls, its reads and its two stores, is one that
\* takes a file in an instant: what lands was at its path, finished, at the
\* moment it was opened, and neither a row nor its object is ever touched again.
ImplementsArchive == Atomic!Spec

-----------------------------------------------------------------------------
(* The inductive invariant *)

\* A finished file is whole and its version known under each of its names; an
\* unfinished one has the blocks written so far, the last of them lately.
Written ==
    \A i \in Inodes :
        /\ disk[i].left = 0 => \A p \in Paths : at[p] = i =>
              /\ disk[i].content = Whole(disk[i].version)
              /\ <<p, disk[i].version>> \in saved
        /\ disk[i].left # 0 =>
              /\ disk[i].version \in Versions
              /\ disk[i].left < LengthOf[disk[i].version]
              /\ Len(disk[i].content) >= LengthOf[disk[i].version] - disk[i].left
              /\ \A k \in 1..(LengthOf[disk[i].version] - disk[i].left) :
                    disk[i].content[k] = disk[i].version
              /\ clock <= disk[i].mtime + Pause

\* A file that keeps the mtime it was opened with was finished then, and what
\* was read of it is the beginning of it.
ReadSoFar ==
    scan.step = "read" =>
        LET x == disk[scan.inode]
        IN  /\ scan.inode \in Inodes
            /\ scan.mtime < scan.now /\ scan.size <= Limit
            /\ x.mtime = scan.mtime =>
                  /\ x.left = 0
                  /\ x.content = Whole(x.version)
                  /\ <<scan.path, x.version>> \in saved
                  /\ Len(scan.data) <= Len(x.content)
                  /\ \A k \in 1..Len(scan.data) : scan.data[k] = x.content[k]

\* What has been read to its end is whole, and what goes to the storage readable.
ReadWhole ==
    /\ scan.step \in {"restat", "create", "ack", "overwrite", "insert"} =>
          \E v \in Versions : /\ scan.data = Whole(v)
                              /\ <<scan.path, v>> \in saved
                              /\ LengthOf[v] <= Limit
    /\ scan.step \in {"create", "ack", "overwrite", "insert"} => Readable

\* An object is only written while it is bad, a row only once it is good.
Acknowledged == /\ scan.step = "insert" => object[scan.data] = "intact"
                /\ scan.step = "overwrite" => object[scan.data] # "intact"
                /\ RowHasObject

Walking == /\ scan.now <= clock
           /\ scan.step \notin {"idle", "lstat"} => scan.path \in Paths \cap Supported
           /\ scan.step = "open" => scan.inode \in Inodes
           /\ scan.step \in {"idle", "lstat", "open"} => scan.data = <<>>

IInv == /\ TypeOK
        /\ Walking
        /\ Written
        /\ ReadSoFar
        /\ ReadWhole
        /\ Acknowledged
        /\ WholeVersions
=============================================================================
