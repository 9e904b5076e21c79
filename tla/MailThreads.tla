------------------------------ MODULE MailThreads ------------------------------
(***************************************************************************)
(* How mails are gathered into threads: people write mails and reply to    *)
(* them with clients of several habits, the parser gives each mail a       *)
(* thread_id from its headers alone, and a thread view lists the rows that *)
(* share one.                                                              *)
(***************************************************************************)
EXTENDS Integers, Sequences

CONSTANTS
    MaxMails,   \* bound on the mails written
    Habits      \* of the mail clients: subset of {"chain", "parent_only"}

ASSUME ThreadAssumption ==
    /\ MaxMails \in Nat
    /\ Habits \subseteq {"chain", "parent_only"}

VARIABLES
    mails,     \* the mails written, each with the headers that matter
    indexed    \* those in the table

vars == <<mails, indexed>>

None == 0
Ids == 1..MaxMails

\* The Message-ID of a mail is its place in mails.  "root" is a history
\* variable: the mail the conversation began with.
MailRecord == [references: Seq(Ids), in_reply_to: Ids \cup {None}, root: Ids]

Init == mails = <<>> /\ indexed = {}

\* A mail that answers no other.
Write ==
    /\ Len(mails) < MaxMails
    /\ mails' = Append(mails, [references |-> <<>>, in_reply_to |-> None,
                               root |-> Len(mails) + 1])
    /\ UNCHANGED indexed

\* The References of a reply, as RFC 5322 has them: those of the parent, or else
\* its In-Reply-To, then the parent itself.
Chain(m) ==
    LET parent == mails[m]
        above == IF parent.references # <<>> THEN parent.references
                 ELSE IF parent.in_reply_to # None THEN <<parent.in_reply_to>>
                 ELSE <<>>
    IN Append(above, m)

Reply(habit) ==
    /\ habit \in Habits
    /\ Len(mails) < MaxMails
    /\ \E m \in DOMAIN mails :
          mails' = Append(mails,
                     [references  |-> IF habit = "chain" THEN Chain(m) ELSE <<>>,
                      in_reply_to |-> m,
                      root        |-> mails[m].root])
    /\ UNCHANGED indexed

\* Ingestion, in any order.
Index ==
    /\ \E m \in DOMAIN mails \ indexed : indexed' = indexed \cup {m}
    /\ UNCHANGED mails

Next == Write \/ Reply("chain") \/ Reply("parent_only") \/ Index

Spec == Init /\ [][Next]_vars

-----------------------------------------------------------------------------
\* Mutant of ComputeThreadId: a mail without either header hashes "".
ComputeThreadIdOfNothing(m) ==
    IF mails[m].references # <<>> THEN Head(mails[m].references)
    ELSE mails[m].in_reply_to

\* Mutant of ComputeThreadId: the last reference.
ComputeThreadIdOfParent(m) ==
    IF mails[m].references # <<>>
    THEN mails[m].references[Len(mails[m].references)]
    ELSE IF mails[m].in_reply_to # None THEN mails[m].in_reply_to
    ELSE m

\* _compute_thread_id, without the hash: the first reference, else the mail
\* replied to, else the mail itself.
ComputeThreadId(m) ==
    IF mails[m].references # <<>> THEN Head(mails[m].references)
    ELSE IF mails[m].in_reply_to # None THEN mails[m].in_reply_to
    ELSE m

\* get_thread.
GetThread(id) == {m \in indexed : ComputeThreadId(m) = id}

\* The types of the headers; rows are of mails that were written.
TypeOK ==
    /\ mails \in Seq(MailRecord)
    /\ Len(mails) <= MaxMails
    /\ indexed \subseteq DOMAIN mails

Conversation(m) == {n \in indexed : mails[n].root = mails[m].root}

\* A thread view shows mails of one conversation only.
ThreadsApart == \A m \in indexed : GetThread(ComputeThreadId(m)) \subseteq Conversation(m)

\* Every reply of the conversation of m carries References.
Chained(m) ==
    \A n \in DOMAIN mails :
        mails[n].root = mails[m].root =>
            (mails[n].in_reply_to # None => mails[n].references # <<>>)

\* A thread view shows the whole conversation, as far as it is in the table, when
\* every reply of it carries References.
ThreadsWhole ==
    \A m \in indexed : Chained(m) => Conversation(m) \subseteq GetThread(ComputeThreadId(m))

\* Why ThreadsApart holds: what a mail refers to, its conversation began with or
\* contains.
RefersInside ==
    \A m \in DOMAIN mails :
        /\ mails[m].root \in DOMAIN mails
        /\ mails[m].in_reply_to # None =>
              /\ mails[m].in_reply_to \in DOMAIN mails
              /\ mails[mails[m].in_reply_to].root = mails[m].root
        /\ \A i \in DOMAIN mails[m].references :
              /\ mails[m].references[i] \in DOMAIN mails
              /\ mails[mails[m].references[i]].root = mails[m].root
==============================================================================
