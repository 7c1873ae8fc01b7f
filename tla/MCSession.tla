----------------------------- MODULE MCSession -----------------------------
(* Instances of Session: with all that may go wrong, and without what leaves *)
(* the client waiting for ever.                                              *)
EXTENDS Session

Anywhere == ServerLabels

\* No signal between the two parts of a big reply.
ButBetweenParts == ServerLabels \ {"replyBig"}
=============================================================================
