------------------------------ MODULE MCWebClient ------------------------------
(* A short list, and one that the LLM may plan in two ways. *)
EXTENDS WebClient

MCQueries == {"statistics", "letters"}
MCPagesOf == [q \in MCQueries |-> IF q = "letters" THEN {1, 2} ELSE {1}]
==============================================================================
