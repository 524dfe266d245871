----------------------------- MODULE MCCompiler -----------------------------
(***************************************************************************)
(* An instance of Compiler for TLC.  jwt and JWT are two spellings of one  *)
(* normalised name and so have different ids; quoted differs from jwt only *)
(* by quotes, so that it has its id but another normalised name; ledger is *)
(* another entity, into which jwt may have been merged.                    *)
(***************************************************************************)
EXTENDS Compiler, TLC

CONSTANTS jwt, JWT, quoted, ledger,  \* names
          id1, id2, id3,             \* ids
          norm1, norm2, norm3        \* normalised names

MCIdOf == [n \in Names |-> CASE n = JWT -> id2 [] n = ledger -> id3 [] OTHER -> id1]

MCNormOf == [n \in Names |-> CASE n = quoted -> norm2 [] n = ledger -> norm3 [] OTHER -> norm1]

\* No alias, and one merge for every label.
MCTables ==
    {<<>>} \cup {[k \in {[name |-> norm1, label |-> l]} |-> [name |-> norm3, label |-> l]] :
                    l \in {"DECISION", "ENTITY"}}
=============================================================================
