----------------------------- MODULE MailArchive -----------------------------
(***************************************************************************)
(* The mbox archive and its image in the DuckDB table emails.              *)
(*                                                                         *)
(* A message is its position in the S3 object, which is append-only.  What *)
(* ingestion can tell of a message is its kind:                            *)
(*   identified  it has a Message-ID header, the primary key of its row    *)
(*   anonymous   it has none: the parser invents generated-<uuid4>         *)
(*   malformed   parse_message raises: the parser yields error-<uuid4>     *)
(*   unframed    mailbox.mbox itself raises while it fetches the message   *)
(*               (a "From " line that is not ASCII), outside the try       *)
(***************************************************************************)
EXTENDS Integers, Sequences, FiniteSets

CONSTANTS
    MsgCount,   \* messages the archive can come to hold
    KindOf,     \* [Msg -> Kinds]
    IdOf,       \* [Msg -> Nat], the Message-ID of an identified message
    LocalBox    \* the .mbox file given to "main.py ingest-local"

Msg == 1..MsgCount
Kinds == {"identified", "anonymous", "malformed", "unframed"}

ASSUME ArchiveAssumption ==
    /\ MsgCount \in Nat
    /\ KindOf \in [Msg -> Kinds]
    /\ IdOf \in [Msg -> Nat]
    /\ LocalBox \in Seq(Msg)

\* The S3 object when it holds n messages; its ETag is n.
S3Box(n) == [i \in 1..n |-> i]

LocalEtag == -1   \* the manifest's s3_etag "local"
Etags == {LocalEtag} \cup (0..MsgCount)

\* The messages behind an ETag.
EtagMessages(etag) ==
    IF etag = LocalEtag THEN {LocalBox[i] : i \in DOMAIN LocalBox} ELSE 1..etag

-----------------------------------------------------------------------------
\* message_id, the primary key.  The uuid4 of an invented key is the tag of
\* the run that parsed the message: no two parses draw the same one.
Key == [form: {"header", "generated", "error"}, of: Nat, tag: Nat]

\* Mutant of KeyOf: a fresh key for every parse.
KeyOfParse(m, tag) == [form |-> "generated", of |-> m, tag |-> tag]

KeyOf(m, tag) ==
    CASE KindOf[m] = "identified" -> [form |-> "header", of |-> IdOf[m], tag |-> 0]
      [] KindOf[m] = "anonymous"  -> [form |-> "generated", of |-> m, tag |-> tag]
      [] OTHER                    -> [form |-> "error", of |-> m, tag |-> tag]

Row == [key: Key, msg: Msg, raw_offset: Nat, parse_error: BOOLEAN]

\* One record of parse_mbox_stream: parse_message, or the error record that
\* replaces it.
ParseMessage(m, offset, tag) ==
    [key         |-> KeyOf(m, tag),
     msg         |-> m,
     raw_offset  |-> offset,
     parse_error |-> KindOf[m] = "malformed"]

\* INSERT OR REPLACE INTO emails.
InsertOrReplace(table, row) == {r \in table : r.key # row.key} \cup {row}

-----------------------------------------------------------------------------
\* Two messages are the same e-mail when they are one message, or carry one
\* Message-ID: the archive may hold a mail twice (sent and received copy).
SameMail(m, n) ==
    \/ m = n
    \/ /\ KindOf[m] = "identified"
       /\ KindOf[n] = "identified"
       /\ IdOf[m] = IdOf[n]

\* The index holds message m.
Represented(table, m) == \E r \in table : SameMail(r.msg, m)
==============================================================================
