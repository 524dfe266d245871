------------------------------ MODULE Archive -------------------------------
(***************************************************************************)
(* What the watcher promises, without system calls, mtimes, object writes  *)
(* or failures: a scan takes a file in one instant, in which no program    *)
(* was in the middle of writing it; what it takes is either dropped or     *)
(* kept whole before its row is inserted; and a row, once inserted, never  *)
(* changes its filename or loses its object.                               *)
(***************************************************************************)
CONSTANTS Paths, Contents, None

VARIABLES finished, \* path and content of each file nobody is writing
          taken,    \* the file the scan works on, none or one of these pairs
          kept,     \* contents with an object that hashes to its key
          landed    \* documents: the original_filename of each content hash

vars == <<finished, taken, kept, landed>>

Init == /\ finished = {}
        /\ taken = {}
        /\ kept = {}
        /\ landed = [c \in Contents |-> None]

\* Other programs write, replace and remove files; one that is written under
\* the scan's hands may turn out not to be taken after all.
Change == /\ finished' \subseteq Paths \X Contents
          /\ taken' \in {taken, {}}
          /\ UNCHANGED <<kept, landed>>

Take(f) == /\ taken = {}
           /\ taken' = {f}
           /\ UNCHANGED <<finished, kept, landed>>

Drop == /\ taken' = {}
        /\ UNCHANGED <<finished, kept, landed>>

Keep(f) == /\ kept' = kept \cup {f[2]}
           /\ UNCHANGED <<finished, taken, landed>>

Land(f) == /\ f[2] \in kept
           /\ landed[f[2]] = None
           /\ landed' = [landed EXCEPT ![f[2]] = f[1]]
           /\ taken' = {}
           /\ UNCHANGED <<finished, kept>>

Next == \/ Change
        \/ \E f \in finished : Take(f)
        \/ Drop
        \/ \E f \in taken : Keep(f) \/ Land(f)

Spec == Init /\ [][Next]_vars
=============================================================================
