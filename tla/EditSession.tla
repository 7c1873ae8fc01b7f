----------------------------- MODULE EditSession -----------------------------
(***************************************************************************)
(* What checkout, save, checkin and cancel promise an application, with no *)
(* files, no steps and no sessions: a lock, the latest version of the      *)
(* cellview, and what each user has saved under the lock and not published *)
(* (src/iDMS/dmsC_API_1.c, setup/iDMS_doc/integration.txt "Description").  *)
(***************************************************************************)
CONSTANTS Users, Versions, NOBODY, NoFile

VARIABLES holder, latest, draft
vars == <<holder, latest, draft>>

Init ==
    /\ holder = NOBODY
    /\ latest \in Versions
    /\ draft = [u \in Users |-> NoFile]

Lock(u) ==
    /\ holder = NOBODY
    /\ holder' = u
    /\ UNCHANGED <<latest, draft>>

\* Only the holder of the lock saves.
Save(u, d) ==
    /\ holder = u
    /\ draft' = [draft EXCEPT ![u] = d]
    /\ UNCHANGED <<holder, latest>>

\* The new version is what the holder saved last.  A holder who has saved
\* nothing publishes the file he has.
Publish(u, d) ==
    /\ holder = u
    /\ draft[u] # NoFile => d = draft[u]
    /\ latest' = d
    /\ holder' = NOBODY
    /\ draft' = [draft EXCEPT ![u] = NoFile]

\* Only the user gives up what he saved, and the lock never goes before it.
Discard(u) ==
    /\ draft' = [draft EXCEPT ![u] = NoFile]
    /\ UNCHANGED <<holder, latest>>

Unlock(u) ==
    /\ holder = u
    /\ draft[u] = NoFile
    /\ holder' = NOBODY
    /\ UNCHANGED <<latest, draft>>

Next ==
    \E u \in Users :
        \/ Lock(u) \/ Unlock(u) \/ Discard(u)
        \/ \E d \in Versions : Save(u, d) \/ Publish(u, d)

Spec == Init /\ [][Next]_vars
=============================================================================
