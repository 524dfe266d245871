----------------------------- MODULE MCLanding ------------------------------
(***************************************************************************)
(* An instance of Landing for TLC.  draft and final are of one length, so  *)
(* that one may overwrite the other without a change of size; draft is not *)
(* text; and the first file of the walk has a name that raises at every    *)
(* insert.                                                                 *)
(***************************************************************************)
EXTENDS Landing, TLC

CONSTANTS draft, final, inode1, inode2

MCLength == [v \in Versions |-> 2]
=============================================================================
