----------------------------- MODULE MCPipeline -----------------------------
(***************************************************************************)
(* Instances of Pipeline for TLC.  The cfg says which of the processes,    *)
(* documents and bodies named here take part.                              *)
(***************************************************************************)
EXTENDS Pipeline, TLC

CONSTANTS d1, d2,                          \* documents
          blank, text1, nul,               \* bodies
          extract1, extract2, promote1,    \* worker processes
          compile1, compile2, persist1, persist2,
          alice1, alice2,                  \* sessions of
          alice

MCRole ==
    [w \in Workers |->
        CASE w \in {extract1, extract2} -> "extract"
          [] w \in {compile1, compile2} -> "compile"
          [] w \in {persist1, persist2} -> "persist"
          [] OTHER -> "promote"]

MCPerson == [r \in Reviewers |-> alice]

MCFormat == [f \in Files |-> CASE f = "scan.pdf" -> "pdf"
                               [] f = "a.txt" -> "text"
                               [] OTHER -> "docx"]
=============================================================================
