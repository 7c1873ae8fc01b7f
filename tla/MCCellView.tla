----------------------------- MODULE MCCellView -----------------------------
(* Instances of CellView: two users, u1 with links (IDMS_CO_COPY unset) and *)
(* u2 with copies, a session each; two sessions of one user; one session.   *)
EXTENDS CellView, TLC

CONSTANTS u1, u2, s1, s2, c0, c1

MCUserOf == (s1 :> u1) @@ (s2 :> u2)
MCOneUser == (s1 :> u1) @@ (s2 :> u1)
MCOneSession == s1 :> u1

\* For the properties that do not look at draft: no action reads this history
\* variable, and none changes it alone.
NoDraft == <<locker, vault, lib, libBak, work, workBak,
             pc, op, fpn, seen, took>>
=============================================================================
