-------------------------- MODULE MailContentsProofs --------------------------
(* Whatever mails are attached to mails: threads stay what they are, and the *)
(* dialog of a mail shows its own text unless an attached one is before it.  *)
EXTENDS MailContents, MailThreadsProofs, WellFoundedInduction

\* A non-empty set of numbers has a least element.
LEMMA LeastExists ==
    ASSUME NEW S, S \subseteq Nat, S # {}
    PROVE  \E x \in S : \A y \in S : x <= y
<1> DEFINE R == OpToRel(<, Nat)
<1>1. \A x, y \in Nat : y < x => <<y, x>> \in R
  BY DEF OpToRel
<1>2. IsWellFoundedOn(R, Nat)
  BY NatLessThanWellFounded
<1> HIDE DEF R
<1>3. PICK x \in S : \A y \in S : ~(<<y, x>> \in R)
  BY <1>2, WFMin
<1>4. ASSUME NEW y \in S PROVE x <= y
  <2>1. x \in Nat /\ y \in Nat
    BY <1>3
  <2>2. ~(y < x)
    BY <1>1, <1>3, <2>1
  <2> QED BY <2>1, <2>2
<1> QED BY <1>3, <1>4

\* The mails of MailContents are those of MailThreads.
LEMMA SendIsStep == ASSUME ContentsNext PROVE [Next]_vars
  BY DEF ContentsNext, Include, Attach, Drafting, Send, Arrive, Next, vars

\* Whatever is in a mail and attached to it, mails are written and indexed as
\* MailThreads has it.
THEOREM ContentsImplementThreads == ContentsSpec => Spec
<1>1. ContentsInit => Init
  BY DEF ContentsInit
<1>2. [ContentsNext]_contentsVars => [Next]_vars
  BY SendIsStep DEF contentsVars, vars
<1> QED BY <1>1, <1>2, PTL DEF ContentsSpec, Spec

-----------------------------------------------------------------------------
LEMMA SameInterval ==
    ASSUME NEW a \in Nat, NEW b \in Nat, 1..a = 1..b
    PROVE  a = b
<1>1. (a # 0 => a \in 1..b) /\ (b # 0 => b \in 1..a)
  OBVIOUS
<1> QED BY <1>1

\* What ContentsTypeOK says of the parts of each mail.
LEMMA ContentsTyped ==
    ASSUME ContentsTypeOK
    PROVE  /\ DOMAIN contents = DOMAIN mails
           /\ \A m \in DOMAIN contents :
                 /\ contents[m] \in Message
                 /\ DOMAIN contents[m].parts = 1..Len(contents[m].parts)
                 /\ Len(contents[m].parts) \in Nat
<1>1. contents \in Seq(Message) /\ DOMAIN contents = DOMAIN mails
  BY DEF ContentsTypeOK
<1>2. \A m \in DOMAIN contents : contents[m] \in Message
  <2> HIDE DEF Message
  <2> QED BY <1>1
<1> HIDE DEF Part
<1> QED BY <1>1, <1>2 DEF Message

\* What people put into a mail is a part of that mail, and ahead of what comes later.
LEMMA OwnPart ==
    ASSUME ContentsTypeOK, Len(mails) < MaxMails, NEW shape \in Shape
    PROVE  LET longer == Append(draft, Own(shape))
           IN longer \in Seq(Part) /\ Len(longer) > 0 /\ longer[1].of = Len(mails) + 1
<1> DEFINE part == Own(shape)
           longer == Append(draft, part)
<1>1. Len(mails) + 1 \in Ids
  BY MailsTyped, ThreadAssumption DEF Ids, ThreadAssumption, ContentsTypeOK
<1>2. part \in Part /\ part.of = Len(mails) + 1
  BY <1>1 DEF Own, Part
<1>3. draft \in Seq(Part) /\ (draft # <<>> => draft[1].of = Len(mails) + 1)
  BY DEF ContentsTypeOK
<1> HIDE DEF Part, part
<1>4. /\ longer \in Seq(Part) /\ Len(longer) = Len(draft) + 1 /\ Len(draft) \in Nat
      /\ \A i \in 1..Len(draft) : longer[i] = draft[i]
      /\ longer[Len(draft) + 1] = part
  BY <1>2, <1>3
<1>5. CASE draft = <<>>
  <2>1. Len(draft) = 0
    BY <1>5
  <2> QED BY <1>2, <1>4, <2>1 DEF part
<1>6. CASE draft # <<>>
  <2>1. Len(draft) > 0
    BY <1>3, <1>6
  <2>2. longer[1] = draft[1]
    BY <1>4, <2>1
  <2> QED BY <1>3, <1>4, <1>6, <2>2 DEF part
<1> QED BY <1>5, <1>6

\* Every step keeps ContentsTypeOK, given what MailThreads keeps.
LEMMA ContentsStep ==
    ContentsTypeOK /\ RefersInside /\ [ContentsNext]_contentsVars => ContentsTypeOK'
<1>1. SUFFICES ASSUME ContentsTypeOK, RefersInside, [ContentsNext]_contentsVars
               PROVE  ContentsTypeOK'
  OBVIOUS
<1>2. TypeOK'
  BY <1>1, InsideStep, SendIsStep DEF ContentsTypeOK, contentsVars, vars
<1>3. ASSUME NEW shape \in Shapes \cup {Plain}, Include(shape) PROVE ContentsTypeOK'
  <2>1. shape \in Shape
    <3>1. Plain \in Shape
      BY DEF Plain, Shape, ContentTypes
    <3> HIDE DEF Plain, Shape
    <3> QED BY <1>3, <3>1, ContentsAssumption DEF ContentsAssumption
  <2>2. draft' \in Seq(Part) /\ draft'[1].of = Len(mails) + 1
    BY <1>1, <1>3, <2>1, OwnPart DEF Include, Drafting
  <2>3. UNCHANGED <<mails, indexed, contents>>
    BY <1>3 DEF Include, Drafting
  <2> QED BY <1>1, <1>2, <2>2, <2>3 DEF ContentsTypeOK
<1>4. ASSUME NEW n \in DOMAIN contents, Attach(n) PROVE ContentsTypeOK'
  <2> DEFINE head == Append(draft, Own(ForwardedMail))
             tail == contents[n].parts
  <2>1. ForwardedMail \in Shape
    BY DEF ForwardedMail, Shape, ContentTypes
  <2>2. head \in Seq(Part) /\ Len(head) > 0 /\ head[1].of = Len(mails) + 1
    BY <1>1, <1>4, <2>1, OwnPart DEF Attach, Drafting
  <2>3. tail \in Seq(Part)
    <3>1. contents[n] \in Message
      BY <1>1, ContentsTyped
    <3> HIDE DEF Part
    <3> QED BY <3>1 DEF Message
  <2>4. draft' = head \o tail /\ UNCHANGED <<mails, indexed, contents>>
    BY <1>4 DEF Attach, Drafting
  <2> HIDE DEF Part, head, tail
  <2>5. draft' \in Seq(Part) /\ draft'[1] = head[1]
    BY <2>2, <2>3, <2>4
  <2> QED BY <1>1, <1>2, <2>2, <2>4, <2>5 DEF ContentsTypeOK
<1>5. CASE Send
  <2>1. DOMAIN mails' = DOMAIN mails \cup {Len(mails) + 1}
    <3>1. CASE Write
      BY <1>1, <3>1, Appended DEF Write, ContentsTypeOK
    <3>2. ASSUME NEW habit, Reply(habit)
          PROVE  DOMAIN mails' = DOMAIN mails \cup {Len(mails) + 1}
      BY <1>1, <3>2, Appended DEF Reply, ContentsTypeOK
    <3> QED BY <1>5, <3>1, <3>2 DEF Send
  <2>2. PICK multipart \in {Len(draft) # 1, Len(mails) < MaxRich \/ Len(draft) # 1} :
            contents' = Append(contents, [multipart |-> multipart, parts |-> draft])
    BY <1>5 DEF Send
  <2> DEFINE new == [multipart |-> multipart, parts |-> draft]
  <2>3. /\ draft \in Seq(Part) /\ draft # <<>> /\ draft[1].of = Len(mails) + 1
        /\ draft' = <<>>
    BY <1>1, <1>5 DEF ContentsTypeOK, Send
  <2>4. new \in Message /\ new.parts = draft
        /\ (~new.multipart => Len(draft) = 1)
    <3> HIDE DEF Part
    <3>1. multipart \in BOOLEAN /\ (~multipart => Len(draft) = 1)
      BY <2>2
    <3> QED BY <2>3, <3>1 DEF Message
  <2>5. /\ contents \in Seq(Message) /\ DOMAIN contents = DOMAIN mails
        /\ \A m \in DOMAIN contents :
              ~contents[m].multipart =>
                  Len(contents[m].parts) = 1 /\ contents[m].parts[1].of = m
    BY <1>1 DEF ContentsTypeOK
  <2>6. Len(contents) = Len(mails)
    <3>1. Len(contents) \in Nat /\ DOMAIN contents = 1..Len(contents)
      <4> HIDE DEF Message
      <4> QED BY <2>5
    <3>2. Len(mails) \in Nat /\ DOMAIN mails = 1..Len(mails)
      BY <1>1, MailsTyped DEF ContentsTypeOK
    <3> QED BY <2>5, <3>1, <3>2, SameInterval
  <2> HIDE DEF Message, Part, new
  <2>7. /\ contents' \in Seq(Message)
        /\ Len(contents') = Len(contents) + 1
        /\ Len(contents) \in Nat /\ DOMAIN contents = 1..Len(contents)
        /\ \A m \in 1..Len(contents) : contents'[m] = contents[m]
        /\ contents'[Len(contents) + 1] = new
    BY <2>2, <2>4, <2>5 DEF new
  <2>8. DOMAIN contents' = DOMAIN contents \cup {Len(mails) + 1}
    BY <2>6, <2>7
  <2>9. ASSUME NEW m \in DOMAIN contents', ~contents'[m].multipart
        PROVE  Len(contents'[m].parts) = 1 /\ contents'[m].parts[1].of = m
    <3>1. CASE m \in DOMAIN contents
      BY <2>5, <2>7, <2>9, <3>1
    <3>2. CASE m = Len(mails) + 1
      BY <2>3, <2>4, <2>6, <2>7, <2>9, <3>2
    <3> QED BY <2>8, <2>9, <3>1, <3>2
  <2>10. draft' \in Seq(Part)
    BY <2>3
  <2> QED BY <1>2, <2>1, <2>3, <2>5, <2>7, <2>8, <2>9, <2>10 DEF ContentsTypeOK
<1>6. CASE Arrive
  <2>1. mails' = mails /\ contents' = contents /\ draft' = draft
    BY <1>6 DEF Arrive, Index
  <2> QED BY <1>1, <1>2, <2>1 DEF ContentsTypeOK
<1>7. CASE UNCHANGED contentsVars
  BY <1>1, <1>2, <1>7 DEF contentsVars, ContentsTypeOK
<1> QED BY <1>1, <1>3, <1>4, <1>5, <1>6, <1>7 DEF ContentsNext

LEMMA ContentsAtFirst == ContentsInit => ContentsTypeOK
<1> SUFFICES ASSUME ContentsInit PROVE ContentsTypeOK
  OBVIOUS
<1>1. TypeOK /\ mails = <<>> /\ contents = <<>> /\ draft = <<>>
  BY InsideInit DEF ContentsInit, Init
<1>2. contents \in Seq(Message) /\ draft \in Seq(Part)
      /\ DOMAIN contents = {} /\ DOMAIN mails = {}
  <2> HIDE DEF Message, Part
  <2> QED BY <1>1
<1> QED BY <1>1, <1>2 DEF ContentsTypeOK

\* However mails are put together and forwarded, what is no multipart is a single part
\* of its own.
THEOREM ContentsTypeCorrect == ContentsSpec => []ContentsTypeOK
<1>1. ContentsSpec => [](TypeOK /\ RefersInside)
  <2>1. Spec => [](TypeOK /\ RefersInside)
    BY InsideInit, InsideStep, PTL DEF Spec
  <2> QED BY <2>1, ContentsImplementThreads, PTL
<1> QED BY <1>1, ContentsAtFirst, ContentsStep, PTL DEF ContentsSpec

-----------------------------------------------------------------------------
\* A part is taken for the text of a mail, or for an attachment, not for both,
\* whatever is in the mail.
THEOREM BodyIsNoAttachmentAlways == ContentsSpec => []BodyIsNoAttachment
<1>1. ASSUME NEW msg
      PROVE  (ExtractBody(msg).text \cup ExtractBody(msg).html)
                \cap ExtractAttachments(msg) = {}
  <2>1. CASE msg.multipart
    BY <2>1 DEF ExtractBody, ExtractAttachments, FirstOf, Bodies
  <2>2. CASE ~msg.multipart
    BY <2>2 DEF ExtractAttachments
  <2> QED BY <2>1, <2>2
<1>2. BodyIsNoAttachment
  BY <1>1 DEF BodyIsNoAttachment
<1> QED BY <1>2, PTL

\* Where there is a body of some type there is a first one.
LEMMA FirstExists ==
    ASSUME ContentsTypeOK, NEW m \in DOMAIN contents, NEW type,
           Bodies(contents[m].parts, type) # {}
    PROVE  FirstOf(contents[m].parts, type) # {}
<1> DEFINE found == Bodies(contents[m].parts, type)
<1>1. found \subseteq Nat /\ found # {}
  <2>1. DOMAIN contents[m].parts \subseteq Nat
    BY ContentsTyped
  <2> QED BY <2>1 DEF Bodies
<1>2. \E i \in found : \A j \in found : i <= j
  <2> HIDE DEF found
  <2> QED BY <1>1, LeastExists
<1> QED BY <1>2 DEF FirstOf

\* A text of another mail comes first only if it stands before every own one.
LEMMA OthersStandBefore ==
    ASSUME ContentsTypeOK, NEW m \in DOMAIN contents, NEW type,
           NEW i \in FirstOf(contents[m].parts, type), contents[m].parts[i].of # m
    PROVE  \A own \in OwnBodies(m, contents[m].parts[i].shape.type) : i < own
<1>1. i \in Bodies(contents[m].parts, type) /\ contents[m].parts[i].shape.type = type
  BY DEF FirstOf, Bodies
<1>2. ASSUME NEW own \in OwnBodies(m, type) PROVE i < own
  <2>1. own \in Bodies(contents[m].parts, type) /\ contents[m].parts[own].of = m
    BY DEF OwnBodies
  <2>2. i <= own /\ i # own
    BY <2>1 DEF FirstOf
  <2>3. i \in Nat /\ own \in Nat
    BY <1>1, <2>1, ContentsTyped DEF Bodies
  <2> QED BY <2>2, <2>3
<1> QED BY <1>1, <1>2

\* Whatever mails are attached to a mail, and wherever, its dialog shows a text of its
\* own if it has one, unless a text of that type is attached before it or its own is
\* plain and an attached mail has HTML.
THEOREM OwnTextShownAlways == ContentsSpec => []OwnTextShown
<1>1. ContentsTypeOK => OwnTextShown
  <2>1. SUFFICES ASSUME ContentsTypeOK, NEW m \in indexed,
                        OwnBodies(m, "text/plain") \cup OwnBodies(m, "text/html") # {}
                 PROVE  /\ ShowEmailModal(m) # {}
                        /\ \A i \in ShowEmailModal(m) :
                              contents[m].parts[i].of # m =>
                                  \A own \in OwnBodies(m, contents[m].parts[i].shape.type) :
                                      i < own
    BY DEF OwnTextShown
  <2>2. m \in DOMAIN contents
    BY <2>1 DEF ContentsTypeOK, TypeOK
  <2>3. \/ Bodies(contents[m].parts, "text/plain") # {}
        \/ Bodies(contents[m].parts, "text/html") # {}
    BY <2>1 DEF OwnBodies
  <2>4. CASE contents[m].multipart
    <3>1. ShowEmailModal(m) = IF FirstOf(contents[m].parts, "text/html") # {}
                              THEN FirstOf(contents[m].parts, "text/html")
                              ELSE FirstOf(contents[m].parts, "text/plain")
      BY <2>4 DEF ShowEmailModal, ExtractBody
    <3>2. ShowEmailModal(m) # {}
      BY <2>1, <2>2, <2>3, <3>1, FirstExists
    <3> QED BY <2>1, <2>2, <3>1, <3>2, OthersStandBefore
  <2>5. CASE ~contents[m].multipart
    <3>1. /\ DOMAIN contents[m].parts = {1}
          /\ contents[m].parts[1].of = m
      <4>1. Len(contents[m].parts) = 1 /\ contents[m].parts[1].of = m
        BY <2>1, <2>2, <2>5 DEF ContentsTypeOK
      <4>2. DOMAIN contents[m].parts = 1..Len(contents[m].parts)
        BY <2>1, <2>2, ContentsTyped
      <4> QED BY <4>1, <4>2
    <3>2. ~contents[m].parts[1].shape.blank
      BY <2>3, <3>1 DEF Bodies
    <3> QED BY <2>5, <3>1, <3>2 DEF ShowEmailModal, ExtractBody
  <2> QED BY <2>4, <2>5
<1> QED BY <1>1, ContentsTypeCorrect, PTL
==============================================================================
