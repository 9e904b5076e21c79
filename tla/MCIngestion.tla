----------------------------- MODULE MCIngestion -----------------------------
(* Small archives for TLC. *)
EXTENDS Ingestion

\* One message of every kind that yields a record, and one more that carries the
\* Message-ID of the first.
MCMixed == [m \in Msg |-> CASE m = 2 -> "anonymous"
                            [] m = 3 -> "malformed"
                            [] OTHER -> "identified"]
MCIds == [m \in Msg |-> IF m = 4 THEN 1 ELSE m]

\* Nothing but well-formed messages.
MCPlain == [m \in Msg |-> "identified"]
MCOwnIds == [m \in Msg |-> m]

\* The last message cannot be fetched from the mbox.
MCUnframed == [m \in Msg |-> CASE m = 2 -> "anonymous"
                               [] m = 3 -> "unframed"
                               [] OTHER -> "identified"]

MCBox == <<2, 4>>
MCNoBox == <<>>
==============================================================================
