----------------------------- MODULE ArchiveIndex -----------------------------
(***************************************************************************)
(* What ingestion promises whoever reads the index, whatever crashes and   *)
(* re-runs went into it: mail once handled stays handled, and the claim    *)
(* "completed at this ETag" is only ever made when every message the       *)
(* archive held at that ETag is handled.                                   *)
(***************************************************************************)
EXTENDS MailArchive

VARIABLES
    size,      \* messages in the archive
    handled,   \* messages indexed, or refused and logged
    claim      \* {} or {the ETag the index claims to be complete for}

vars == <<size, handled, claim>>

Init == size \in 0..MsgCount /\ handled = {} /\ claim = {}

Grow ==
    /\ size < MsgCount
    /\ size' = size + 1
    /\ UNCHANGED <<handled, claim>>

\* One more message is dealt with, and with it the other copies of its mail.
Handle ==
    /\ \E m \in Msg : handled' \in {handled \cup {m},
                                    handled \cup {n \in Msg : SameMail(m, n)}}
    /\ UNCHANGED <<size, claim>>

Claim ==
    /\ claim = {}
    /\ \E etag \in {LocalEtag} \cup 0..size :
          /\ EtagMessages(etag) \subseteq handled
          /\ claim' = {etag}
    /\ UNCHANGED <<size, handled>>

Withdraw == claim' = {} /\ UNCHANGED <<size, handled>>

Next == Grow \/ Handle \/ Claim \/ Withdraw

Spec == Init /\ [][Next]_vars
==============================================================================
