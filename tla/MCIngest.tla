------------------------------ MODULE MCIngest ------------------------------
(***************************************************************************)
(* An instance of Ingest for TLC: a text file and a .docx; draft takes two *)
(* writes, final one and is not text.                                      *)
(***************************************************************************)
EXTENDS Ingest, TLC

CONSTANTS draft, final, inode1, inode2, blank, text1,
          extract1, promote1, compile1, alice1, alice

MCFormat == <<"text", "docx">>

MCLength == [v \in Versions |-> IF v = draft THEN 2 ELSE 1]

MCRole == [w \in Workers |-> CASE w = extract1 -> "extract"
                               [] w = promote1 -> "promote"
                               [] OTHER -> "compile"]

MCPerson == [r \in Reviewers |-> alice]

\* No file is a .pdf, whose extraction alone tells a blank body from another.
MCSymmetry == {p @@ q : p \in Permutations(Inodes), q \in Permutations(Texts)}
=============================================================================
