---------------------------- MODULE ReviewedVariant ----------------------------
(***************************************************************************)
(* What reviewing a generated variant promises, whatever generates,        *)
(* validates, edits or submits it: a problem is only ever made of content  *)
(* that is approved as it stands, at most one is, and afterwards neither   *)
(* the content nor its approval changes.  A discarded review makes none.   *)
(***************************************************************************)
CONSTANTS Contents, Nothing, ProblemIds

VARIABLES
    content,        \* the candidate under review, or Nothing
    approved,       \* the content that is approved, or Nothing
    published,      \* the problems made of it, each with its content
    closed          \* whether the review was discarded

vars == <<content, approved, published, closed>>

Open == published = {} /\ ~ closed

Init ==
    /\ content = Nothing
    /\ approved = Nothing
    /\ published = {}
    /\ closed = FALSE

\* New content, generated or edited, is not approved; approval may be withdrawn.
Change ==
    /\ Open
    /\ content' \in Contents \union {Nothing}
    /\ approved' = Nothing
    /\ UNCHANGED <<published, closed>>

\* By the validators or by the learner's attestation.
Approve ==
    /\ Open
    /\ content # Nothing
    /\ approved' = content
    /\ UNCHANGED <<content, published, closed>>

Publish ==
    /\ Open
    /\ approved # Nothing
    /\ \E p \in ProblemIds : published' = {[id |-> p, content |-> approved]}
    /\ UNCHANGED <<content, approved, closed>>

Discard ==
    /\ Open
    /\ closed' = TRUE
    /\ UNCHANGED <<content, approved, published>>

Next == Change \/ Approve \/ Publish \/ Discard

Spec == Init /\ [][Next]_vars
=============================================================================
