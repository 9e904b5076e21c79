----------------------------- MODULE MailContents -----------------------------
(***************************************************************************)
(* What the mails of MailThreads are made of, and what the parser takes    *)
(* for the body and the attachments of each: it walks through all parts,   *)
(* those of a mail that is attached to another included.                   *)
(***************************************************************************)
EXTENDS MailThreads, FiniteSets

CONSTANTS
    Shapes,     \* of the parts people put into a mail
    MaxParts,   \* bound on the parts put into a mail, an attached mail being one
    MaxRich     \* mails after that many are a plain text and nothing else

ContentTypes == {"text/plain", "text/html", "message/rfc822", "image/png"}

\* A part, without the mail it belongs to; "blank" when its payload is empty or
\* cannot be decoded.
Shape == [type: ContentTypes, disposition: {"", "inline", "attachment"}, blank: BOOLEAN]

ASSUME ContentsAssumption ==
    /\ Shapes \subseteq Shape
    /\ MaxParts \in Nat
    /\ MaxRich \in Nat

VARIABLES
    draft,      \* the parts of the mail that is being written
    contents    \* every mail: whether it is multipart, and its parts as walk() meets them

contentsVars == <<mails, indexed, draft, contents>>

\* "of" is the mail that was sent with the part.
Part == [shape: Shape, of: Ids]
Message == [multipart: BOOLEAN, parts: Seq(Part)]

Plain == [type |-> "text/plain", disposition |-> "", blank |-> FALSE]
ForwardedMail == [type |-> "message/rfc822", disposition |-> "attachment", blank |-> TRUE]

Own(shape) == [shape |-> shape, of |-> Len(mails) + 1]

ContentsInit == Init /\ draft = <<>> /\ contents = <<>>

Drafting ==
    /\ Len(mails) < MaxMails
    /\ Cardinality({i \in DOMAIN draft : draft[i].of = Len(mails) + 1})
          < (IF Len(mails) < MaxRich THEN MaxParts ELSE 1)
    /\ UNCHANGED <<mails, indexed, contents>>

Include(shape) ==
    /\ Drafting
    /\ Len(mails) >= MaxRich => shape = Plain
    /\ draft' = Append(draft, Own(shape))

\* A mail that was sent is attached, wherever the draft has got to: its parts follow
\* the part that holds it.
Attach(n) ==
    /\ Drafting
    /\ Len(mails) < MaxRich
    /\ draft' = Append(draft, Own(ForwardedMail)) \o contents[n].parts

\* A single part may be the mail, or stand in a container of one.
Send ==
    /\ draft # <<>>
    /\ Write \/ Reply("chain") \/ Reply("parent_only")
    /\ \E multipart \in {Len(draft) # 1, Len(mails) < MaxRich \/ Len(draft) # 1} :
          contents' = Append(contents, [multipart |-> multipart, parts |-> draft])
    /\ draft' = <<>>

Arrive == Index /\ UNCHANGED <<draft, contents>>

ContentsNext ==
    \/ \E shape \in Shapes \cup {Plain} : Include(shape)
    \/ \E n \in DOMAIN contents : Attach(n)
    \/ Send
    \/ Arrive

ContentsSpec == ContentsInit /\ [][ContentsNext]_contentsVars

-----------------------------------------------------------------------------
Bodies(parts, type) ==
    {i \in DOMAIN parts : /\ parts[i].shape.type = type
                          /\ parts[i].shape.disposition # "attachment"
                          /\ ~parts[i].shape.blank}

\* Mutant of FirstOf: a later part takes the place of an earlier one.
LastOf(parts, type) ==
    {i \in Bodies(parts, type) : \A j \in Bodies(parts, type) : j <= i}

FirstOf(parts, type) ==
    {i \in Bodies(parts, type) : \A j \in Bodies(parts, type) : i <= j}

\* _extract_body: the first part of either type, or the only part whatever it is.
ExtractBody(msg) ==
    IF msg.multipart
    THEN [text |-> FirstOf(msg.parts, "text/plain"), html |-> FirstOf(msg.parts, "text/html")]
    ELSE LET only == {i \in DOMAIN msg.parts : ~msg.parts[i].shape.blank}
         IN [text |-> {i \in only : msg.parts[i].shape.type # "text/html"},
             html |-> {i \in only : msg.parts[i].shape.type = "text/html"}]

\* Mutant of ExtractAttachments: inline texts are counted too.
ExtractAttachmentsInline(msg) ==
    {i \in DOMAIN msg.parts :
        msg.multipart /\ msg.parts[i].shape.disposition \in {"attachment", "inline"}}

\* _extract_attachments.
ExtractAttachments(msg) ==
    {i \in DOMAIN msg.parts :
        /\ msg.multipart
        /\ LET shape == msg.parts[i].shape
           IN \/ shape.disposition = "attachment"
              \/ shape.disposition = "inline" /\ shape.type \notin {"text/plain", "text/html"}}

\* What the dialog of a mail shows: HTML before text.
ShowEmailModal(m) ==
    LET body == ExtractBody(contents[m])
    IN IF body.html # {} THEN body.html ELSE body.text

\* Every mail has its parts, and what is no multipart has a single one of its own.
ContentsTypeOK ==
    /\ TypeOK
    /\ draft \in Seq(Part)
    /\ draft # <<>> => draft[1].of = Len(mails) + 1
    /\ contents \in Seq(Message)
    /\ DOMAIN contents = DOMAIN mails
    /\ \A m \in DOMAIN contents :
          ~contents[m].multipart =>
              Len(contents[m].parts) = 1 /\ contents[m].parts[1].of = m

OwnBodies(m, type) ==
    {i \in Bodies(contents[m].parts, type) : contents[m].parts[i].of = m}

\* A mail that has a text of its own is read with that text.  The exceptions: a text
\* of the same type in a mail attached before it, and HTML in an attached mail, if it
\* has none itself.
OwnTextShown ==
    \A m \in indexed :
        OwnBodies(m, "text/plain") \cup OwnBodies(m, "text/html") # {} =>
            /\ ShowEmailModal(m) # {}
            /\ \A i \in ShowEmailModal(m) :
                  LET part == contents[m].parts[i]
                  IN part.of # m => \A own \in OwnBodies(m, part.shape.type) : i < own

\* No part is shown as the text of a mail and listed among its attachments.
BodyIsNoAttachment ==
    \A m \in indexed :
        LET body == ExtractBody(contents[m])
        IN (body.text \cup body.html) \cap ExtractAttachments(contents[m]) = {}
==============================================================================
