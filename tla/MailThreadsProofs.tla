--------------------------- MODULE MailThreadsProofs ---------------------------
(* Threads never mix conversations, and those of a conversation whose replies *)
(* all carry the References chain are whole.                                  *)
EXTENDS MailThreads, SequenceTheorems, TLAPS

\* What a mail refers to belongs to its conversation (RefersInside of each mail).
Inside(s, m) ==
    /\ s[m].root \in DOMAIN s
    /\ s[m].in_reply_to # None =>
          /\ s[m].in_reply_to \in DOMAIN s
          /\ s[s[m].in_reply_to].root = s[m].root
    /\ \A i \in DOMAIN s[m].references :
          /\ s[m].references[i] \in DOMAIN s
          /\ s[s[m].references[i]].root = s[m].root

\* What TypeOK says of each mail.
LEMMA MailsTyped ==
    ASSUME TypeOK
    PROVE  /\ Len(mails) \in Nat /\ DOMAIN mails = 1..Len(mails)
           /\ \A m \in DOMAIN mails : m \in Ids /\ mails[m] \in MailRecord
           /\ indexed \subseteq DOMAIN mails
<1>1. mails \in Seq(MailRecord) /\ Len(mails) <= MaxMails /\ indexed \subseteq DOMAIN mails
  BY DEF TypeOK
<1>2. Len(mails) \in Nat /\ DOMAIN mails = 1..Len(mails)
  BY <1>1
<1>3. \A m \in DOMAIN mails : m \in Ids
  BY <1>1, <1>2, ThreadAssumption DEF Ids, ThreadAssumption
<1>4. \A m \in DOMAIN mails : mails[m] \in MailRecord
  <2> HIDE DEF MailRecord
  <2> QED BY <1>1, <1>2
<1> QED BY <1>1, <1>2, <1>3, <1>4

\* A mail is added behind the others.
LEMMA Appended ==
    ASSUME TypeOK, NEW new, mails' = Append(mails, new)
    PROVE  /\ Len(mails') = Len(mails) + 1
           /\ DOMAIN mails' = DOMAIN mails \cup {Len(mails) + 1}
           /\ Len(mails) + 1 \notin DOMAIN mails
           /\ \A m \in DOMAIN mails : mails'[m] = mails[m]
           /\ mails'[Len(mails) + 1] = new
<1> DEFINE S == MailRecord \cup {new}
<1>1. mails \in Seq(S) /\ new \in S
  BY MailsTyped, SeqDef DEF TypeOK
<1> HIDE DEF S
<1>2. /\ Append(mails, new) \in Seq(S)
      /\ Len(Append(mails, new)) = Len(mails) + 1
      /\ \A i \in 1..Len(mails) : Append(mails, new)[i] = mails[i]
      /\ Append(mails, new)[Len(mails) + 1] = new
  BY <1>1, AppendProperties
<1>3. DOMAIN mails' = 1 .. Len(mails) + 1
  BY <1>2
<1> QED BY <1>2, <1>3, MailsTyped

\* The References of a reply are a sequence of mails of the parent's conversation
\* that is never empty.
LEMMA ChainInside ==
    ASSUME TypeOK, RefersInside, NEW m \in DOMAIN mails
    PROVE  /\ Chain(m) \in Seq(Ids) /\ Chain(m) # <<>>
           /\ \A i \in DOMAIN Chain(m) : /\ Chain(m)[i] \in DOMAIN mails
                                         /\ mails[Chain(m)[i]].root = mails[m].root
<1> DEFINE above == IF mails[m].references # <<>> THEN mails[m].references
                    ELSE IF mails[m].in_reply_to # None THEN <<mails[m].in_reply_to>>
                    ELSE <<>>
<1>1. mails[m] \in MailRecord /\ m \in Ids /\ DOMAIN mails \subseteq Ids
  BY MailsTyped
<1>2. above \in Seq(Ids)
  BY <1>1 DEF MailRecord
<1>3. \A i \in DOMAIN above : /\ above[i] \in DOMAIN mails
                              /\ mails[above[i]].root = mails[m].root
  BY <1>1 DEF RefersInside, MailRecord
<1>4. Chain(m) = Append(above, m)
  BY DEF Chain
<1> HIDE DEF above
<1> QED BY <1>1, <1>2, <1>3, <1>4

\* A new mail of the right type keeps the types.
LEMMA AppendType ==
    ASSUME TypeOK, NEW new \in MailRecord, Len(mails) < MaxMails,
           mails' = Append(mails, new), indexed' = indexed
    PROVE  TypeOK'
<1>1. mails' \in Seq(MailRecord)
  BY AppendProperties DEF TypeOK
<1>2. Len(mails') <= MaxMails
  BY Appended, MailsTyped, ThreadAssumption DEF ThreadAssumption
<1>3. indexed' \subseteq DOMAIN mails'
  BY Appended, MailsTyped
<1> QED BY <1>1, <1>2, <1>3 DEF TypeOK

\* A new mail that refers to mails of its conversation keeps RefersInside.
LEMMA AppendInside ==
    ASSUME TypeOK, RefersInside, NEW new \in MailRecord,
           mails' = Append(mails, new),
           \/ new.root = Len(mails) + 1 /\ new.in_reply_to = None /\ new.references = <<>>
           \/ /\ new.root \in DOMAIN mails
              /\ new.in_reply_to \in DOMAIN mails
              /\ mails[new.in_reply_to].root = new.root
              /\ \A i \in DOMAIN new.references :
                    /\ new.references[i] \in DOMAIN mails
                    /\ mails[new.references[i]].root = new.root
    PROVE  RefersInside'
<1>1. /\ mails \in Seq(MailRecord)
      /\ DOMAIN mails' = DOMAIN mails \cup {Len(mails) + 1}
      /\ \A m \in DOMAIN mails : mails'[m] = mails[m]
      /\ mails'[Len(mails) + 1] = new
  BY DEF TypeOK
<1>2. SUFFICES ASSUME NEW m \in DOMAIN mails' PROVE Inside(mails', m)
  BY DEF RefersInside, Inside
<1>3. CASE m \in DOMAIN mails
  <2>1. Inside(mails, m)
    BY <1>3 DEF RefersInside, Inside
  <2> QED BY <1>1, <1>3, <2>1 DEF Inside
<1>4. CASE m = Len(mails) + 1
  <2>1. mails'[m] = new
    BY <1>1, <1>4
  <2>2. CASE new.root = Len(mails) + 1 /\ new.in_reply_to = None /\ new.references = <<>>
    BY <1>1, <1>4, <2>1, <2>2 DEF Inside
  <2>3. CASE new.root # Len(mails) + 1 \/ new.in_reply_to # None \/ new.references # <<>>
    BY <1>1, <2>1, <2>3 DEF Inside
  <2> QED BY <2>2, <2>3
<1> QED BY <1>1, <1>3, <1>4

\* The type of a mail that answers none.
LEMMA WriteType ==
    ASSUME TypeOK, Write
    PROVE  [references |-> <<>>, in_reply_to |-> None, root |-> Len(mails) + 1]
               \in MailRecord
<1>1. Len(mails) + 1 \in Ids
  BY ThreadAssumption, MailsTyped DEF Write, Ids, ThreadAssumption
<1> QED BY <1>1 DEF MailRecord

\* The type of a reply.
LEMMA ReplyType ==
    ASSUME TypeOK, RefersInside, NEW m \in DOMAIN mails, NEW refs \in Seq(Ids)
    PROVE  [references |-> refs, in_reply_to |-> m, root |-> mails[m].root]
               \in MailRecord
<1>1. m \in Ids /\ mails[m] \in MailRecord
  BY MailsTyped
<1> QED BY <1>1 DEF MailRecord

\* Every step keeps the types and what mails refer to inside the conversation.
LEMMA InsideStep ==
    TypeOK /\ RefersInside /\ [Next]_vars => TypeOK' /\ RefersInside'
<1>1. SUFFICES ASSUME TypeOK, RefersInside, [Next]_vars PROVE TypeOK' /\ RefersInside'
  OBVIOUS
<1>2. CASE Write
  <2> DEFINE new == [references |-> <<>>, in_reply_to |-> None, root |-> Len(mails) + 1]
  <2>1. new \in MailRecord /\ mails' = Append(mails, new) /\ indexed' = indexed
    BY <1>1, <1>2, WriteType DEF Write
  <2>2. new.root = Len(mails) + 1 /\ new.in_reply_to = None /\ new.references = <<>>
    OBVIOUS
  <2> HIDE DEF new
  <2>3. RefersInside'
    BY <1>1, <2>1, <2>2, AppendInside
  <2>4. TypeOK'
    BY <1>1, <1>2, <2>1, AppendType DEF Write
  <2> QED BY <2>3, <2>4
<1>3. ASSUME NEW habit, Reply(habit) PROVE TypeOK' /\ RefersInside'
  <2>1. PICK m \in DOMAIN mails :
            mails' = Append(mails,
                       [references  |-> IF habit = "chain" THEN Chain(m) ELSE <<>>,
                        in_reply_to |-> m, root |-> mails[m].root])
    BY <1>3 DEF Reply
  <2> DEFINE refs == IF habit = "chain" THEN Chain(m) ELSE <<>>
             new == [references |-> refs, in_reply_to |-> m, root |-> mails[m].root]
  <2>2. /\ refs \in Seq(Ids)
        /\ \A i \in DOMAIN refs : /\ refs[i] \in DOMAIN mails
                                  /\ mails[refs[i]].root = mails[m].root
    BY <1>1, ChainInside
  <2> HIDE DEF refs
  <2>3. new \in MailRecord
    BY <1>1, <2>2, ReplyType
  <2>4. mails' = Append(mails, new)
    BY <2>1 DEF refs
  <2>5. /\ new.root = mails[m].root /\ new.in_reply_to = m /\ new.references = refs
        /\ mails[m].root \in DOMAIN mails
    BY <1>1 DEF RefersInside
  <2> HIDE DEF new
  <2>6. RefersInside'
    BY <1>1, <2>2, <2>3, <2>4, <2>5, AppendInside
  <2>7. TypeOK'
    BY <1>1, <1>3, <2>3, <2>4, AppendType DEF Reply
  <2> QED BY <2>6, <2>7
<1>4. CASE Index
  BY <1>1, <1>4 DEF Index, TypeOK, RefersInside
<1>5. CASE UNCHANGED vars
  BY <1>1, <1>5 DEF vars, TypeOK, RefersInside
<1> QED BY <1>1, <1>2, <1>3, <1>4, <1>5 DEF Next

\* At first there is no mail.
LEMMA InsideInit == Init => TypeOK /\ RefersInside
<1> SUFFICES ASSUME Init PROVE TypeOK /\ RefersInside
  OBVIOUS
<1>1. mails = <<>> /\ indexed = {} /\ DOMAIN mails = {} /\ Len(mails) = 0
  BY DEF Init
<1>2. mails \in Seq(MailRecord)
  <2> HIDE DEF MailRecord
  <2> QED BY <1>1
<1> QED BY <1>1, <1>2, ThreadAssumption DEF TypeOK, RefersInside, ThreadAssumption

\* The mail a thread is named after belongs to the conversation.
LEMMA ThreadIdInside ==
    ASSUME TypeOK, RefersInside, NEW m \in DOMAIN mails
    PROVE  /\ ComputeThreadId(m) \in DOMAIN mails
           /\ mails[ComputeThreadId(m)].root = mails[m].root
<1>1. mails[m].references \in Seq(Ids)
  BY MailsTyped DEF MailRecord
<1>2. CASE mails[m].references # <<>>
  <2>1. 1 \in DOMAIN mails[m].references /\ ComputeThreadId(m) = mails[m].references[1]
    BY <1>1, <1>2 DEF ComputeThreadId
  <2> QED BY <2>1 DEF RefersInside
<1>3. CASE mails[m].references = <<>>
  BY <1>3 DEF ComputeThreadId, RefersInside
<1> QED BY <1>2, <1>3

\* Whatever the habits of the mail clients and however many mails there are, a
\* thread view never shows mails of two conversations.
THEOREM ThreadsApartAlways == Spec => []ThreadsApart
<1>1. TypeOK /\ RefersInside => ThreadsApart
  <2>1. SUFFICES ASSUME TypeOK, RefersInside, NEW m \in indexed,
                        NEW n \in GetThread(ComputeThreadId(m))
                 PROVE  n \in Conversation(m)
    BY DEF ThreadsApart
  <2>2. m \in DOMAIN mails /\ n \in indexed /\ n \in DOMAIN mails
        /\ ComputeThreadId(n) = ComputeThreadId(m)
    BY <2>1 DEF TypeOK, GetThread
  <2> QED BY <2>1, <2>2, ThreadIdInside DEF Conversation
<1> QED BY <1>1, InsideInit, InsideStep, PTL DEF Spec

-----------------------------------------------------------------------------
\* A mail that answers no other began its conversation, and in a chained
\* conversation the first reference of a mail is the one that did.
ChainHeads ==
    \A m \in DOMAIN mails :
        /\ mails[m].in_reply_to = None => mails[m].references = <<>> /\ mails[m].root = m
        /\ Chained(m) /\ mails[m].references # <<>> =>
              Head(mails[m].references) = mails[m].root

\* The chain of a reply begins with the root of a chained conversation.
LEMMA ChainHead ==
    ASSUME TypeOK, ChainHeads, NEW m \in DOMAIN mails, Chained(m)
    PROVE  Chain(m) # <<>> /\ Head(Chain(m)) = mails[m].root
<1>1. mails[m].references \in Seq(Ids)
  BY MailsTyped DEF MailRecord
<1>2. CASE mails[m].references # <<>>
  <2>1. Chain(m) = Append(mails[m].references, m)
    BY <1>2 DEF Chain
  <2>2. Head(mails[m].references) = mails[m].root
    BY <1>2 DEF ChainHeads
  <2> QED BY <1>1, <1>2, <2>1, <2>2
<1>3. CASE mails[m].references = <<>>
  <2>1. mails[m].in_reply_to = None
    BY <1>3 DEF Chained
  <2>2. Chain(m) = Append(<<>>, m) /\ mails[m].root = m
    BY <1>3, <2>1 DEF Chain, ChainHeads
  <2> QED BY <2>2
<1> QED BY <1>2, <1>3

\* A new mail keeps ChainHeads when it is a root, or begins with the root in case
\* the mails of its conversation before it are chained.
LEMMA AppendHeads ==
    ASSUME TypeOK, ChainHeads, NEW new, mails' = Append(mails, new),
           new.in_reply_to = None => new.references = <<>> /\ new.root = Len(mails) + 1,
           (/\ new.references # <<>>
            /\ \A n \in DOMAIN mails : mails[n].root = new.root =>
                  (mails[n].in_reply_to # None => mails[n].references # <<>>))
               => Head(new.references) = new.root
    PROVE  ChainHeads'
<1>1. /\ DOMAIN mails' = DOMAIN mails \cup {Len(mails) + 1}
      /\ \A m \in DOMAIN mails : mails'[m] = mails[m]
      /\ mails'[Len(mails) + 1] = new
  BY Appended
<1>2. ASSUME NEW m \in DOMAIN mails'
      PROVE  /\ mails'[m].in_reply_to = None =>
                    mails'[m].references = <<>> /\ mails'[m].root = m
             /\ (/\ mails'[m].references # <<>>
                 /\ \A n \in DOMAIN mails' : mails'[n].root = mails'[m].root =>
                       (mails'[n].in_reply_to # None => mails'[n].references # <<>>))
                    => Head(mails'[m].references) = mails'[m].root
  <2>1. CASE m \in DOMAIN mails
    <3>1. mails'[m] = mails[m]
      BY <1>1, <2>1
    <3>2. (\A n \in DOMAIN mails' : mails'[n].root = mails'[m].root =>
              (mails'[n].in_reply_to # None => mails'[n].references # <<>>))
             => Chained(m)
      BY <1>1, <3>1 DEF Chained
    <3> QED BY <2>1, <3>1, <3>2 DEF ChainHeads
  <2>2. CASE m = Len(mails) + 1
    <3>1. mails'[m] = new
      BY <1>1, <2>2
    <3>2. (\A n \in DOMAIN mails' : mails'[n].root = mails'[m].root =>
              (mails'[n].in_reply_to # None => mails'[n].references # <<>>))
             => \A n \in DOMAIN mails : mails[n].root = new.root =>
                  (mails[n].in_reply_to # None => mails[n].references # <<>>)
      BY <1>1, <3>1
    <3> QED BY <2>2, <3>1, <3>2
  <2> QED BY <1>1, <2>1, <2>2
<1> QED BY <1>2 DEF ChainHeads, Chained

\* Every step keeps ChainHeads, whatever the habits of the clients.
LEMMA ChainStep == TypeOK /\ ChainHeads /\ [Next]_vars => ChainHeads'
<1>1. SUFFICES ASSUME TypeOK, ChainHeads, [Next]_vars PROVE ChainHeads'
  OBVIOUS
<1>2. CASE Write
  <2> DEFINE new == [references |-> <<>>, in_reply_to |-> None, root |-> Len(mails) + 1]
  <2>1. mails' = Append(mails, new)
    BY <1>2 DEF Write
  <2>2. new.references = <<>> /\ new.root = Len(mails) + 1
    OBVIOUS
  <2> HIDE DEF new
  <2> QED BY <1>1, <2>1, <2>2, AppendHeads
<1>3. ASSUME NEW habit, Reply(habit) PROVE ChainHeads'
  <2>1. PICK m \in DOMAIN mails :
            mails' = Append(mails,
                       [references  |-> IF habit = "chain" THEN Chain(m) ELSE <<>>,
                        in_reply_to |-> m, root |-> mails[m].root])
    BY <1>3 DEF Reply
  <2> DEFINE refs == IF habit = "chain" THEN Chain(m) ELSE <<>>
             new == [references |-> refs, in_reply_to |-> m, root |-> mails[m].root]
  <2>2. Chained(m) /\ refs # <<>> => Head(refs) = mails[m].root
    BY <1>1, ChainHead
  <2>3. mails' = Append(mails, new)
    BY <2>1
  <2> HIDE DEF refs
  <2>4. new.references = refs /\ new.in_reply_to = m /\ new.root = mails[m].root
    OBVIOUS
  <2>5. m # None
    BY <1>1, MailsTyped DEF None
  <2> HIDE DEF new
  <2> QED BY <1>1, <2>2, <2>3, <2>4, <2>5, AppendHeads DEF Chained
<1>4. CASE Index
  BY <1>1, <1>4 DEF Index, ChainHeads, Chained
<1>5. CASE UNCHANGED vars
  BY <1>1, <1>5 DEF vars, ChainHeads, Chained
<1> QED BY <1>1, <1>2, <1>3, <1>4, <1>5 DEF Next

\* However many mails there are, a thread view shows all there is in the table of
\* a conversation whose replies all carry References.
THEOREM ThreadsWholeAlways == Spec => []ThreadsWhole
<1>1. Init => ChainHeads
  BY DEF Init, ChainHeads
<1>2. TypeOK /\ ChainHeads => ThreadsWhole
  <2>1. SUFFICES ASSUME TypeOK, ChainHeads, NEW m \in indexed, Chained(m),
                        NEW n \in Conversation(m)
                 PROVE  n \in GetThread(ComputeThreadId(m))
    BY DEF ThreadsWhole
  <2>2. m \in DOMAIN mails /\ n \in DOMAIN mails /\ n \in indexed
        /\ mails[n].root = mails[m].root
    BY <2>1 DEF Conversation, TypeOK
  <2>3. ASSUME NEW k \in DOMAIN mails, Chained(k)
        PROVE  ComputeThreadId(k) = mails[k].root
    BY <2>1, <2>3 DEF ChainHeads, ComputeThreadId, Chained
  <2>4. Chained(n)
    BY <2>1, <2>2 DEF Chained
  <2> QED BY <2>1, <2>2, <2>3, <2>4 DEF GetThread
<1> QED BY <1>1, <1>2, InsideInit, InsideStep, ChainStep, PTL DEF Spec
==============================================================================
