------------------------------- MODULE S3Stream -------------------------------
(***************************************************************************)
(* S3Client.stream_object and the copy of its body to the temporary file   *)
(* of parse_mbox_stream.  get_object is tried up to MaxRetries times while *)
(* S3 throttles; what happens to the body afterwards is not retried.       *)
(***************************************************************************)
EXTENDS Naturals

CONSTANT MaxRetries   \* _MAX_RETRIES

ASSUME StreamAssumption == MaxRetries \in Nat \ {0}

VARIABLE stream

\* attempt: of get_object; size: messages in the object that is served; read:
\* messages in the temporary file.
Streams == [pc: {"call", "sleep", "body"}, attempt: Nat, size: Nat, read: Nat]

Unread == [pc |-> "call", attempt |-> 0, size |-> 0, read |-> 0]

\* S3 answers with the object as it is now; an append later does not change
\* the body of this answer.
Served(size) ==
    /\ stream.pc = "call"
    /\ stream' = [stream EXCEPT !.pc = "body", !.size = size]

\* SlowDown, 503, 500 or RequestTimeout.
Throttled ==
    /\ stream.pc = "call"
    /\ stream' = [stream EXCEPT !.pc = "sleep"]

\* Mutant of Wakes: attempts are not counted.
WakesForEver ==
    /\ stream.pc = "sleep"
    /\ stream' = [stream EXCEPT !.pc = "call"]

Wakes ==
    /\ stream.pc = "sleep"
    /\ stream.attempt + 1 < MaxRetries
    /\ stream' = [stream EXCEPT !.pc = "call", !.attempt = @ + 1]

\* One read() of a chunk, of whatever length it comes.
ReadChunk ==
    /\ stream.pc = "body"
    /\ \E n \in stream.read + 1 .. stream.size : stream' = [stream EXCEPT !.read = n]

\* Mutant of EndOfBody: a chunk is taken for the last.
EndOfChunk ==
    /\ stream.pc = "body"
    /\ stream.read > 0
    /\ stream' = Unread

\* read() returns no bytes.
EndOfBody ==
    /\ stream.pc = "body"
    /\ stream.read = stream.size
    /\ stream' = Unread

\* After the last attempt, at once on another error of S3, or while the body is
\* read: an exception leaves run.
Raises ==
    /\ \/ stream.pc = "sleep" /\ stream.attempt + 1 >= MaxRetries
       \/ stream.pc \in {"call", "body"}
    /\ stream' = Unread
==============================================================================
