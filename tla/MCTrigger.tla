------------------------------ MODULE MCTrigger ------------------------------
(* Triggers of an archive that grows: its first mail has a Message-ID. *)
EXTENDS IngestionService

CONSTANTS a, b
MCKinds == [m \in 1..MsgCount |-> IF m = 1 THEN "identified" ELSE "anonymous"]
MCIds == [m \in 1..MsgCount |-> m]
MCNoBox == <<>>
==============================================================================
