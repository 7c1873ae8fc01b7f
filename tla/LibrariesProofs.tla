-------------------------- MODULE LibrariesProofs --------------------------
(* What holds of Libraries for any users, sessions, libraries, paths and      *)
(* requests, under the faults that each theorem leaves.                       *)
EXTENDS Libraries, TLAPS

\* Labels of requests that delete, that work on an element, that look for the place
\* of a new cellview, and that put it there.
Deleting == {"rmWork", "retire", "rmfile", "rmDone"}
Working == Deleting \cup {"hit"}
Placing == {"look", "create"}
Copying == {"copy", "checkinNew", "unlink", "ls", "rm"}

\* A request that found something stands at an element of its path.
AtElement(s) ==
    /\ pc[s] \in Working => at[s] \in DOMAIN Paths[UserOf[s]]
    /\ pc[s] \in Deleting => Elem(s).opt = "RW"

\* The labels that belong to an operation; a create has no library of its own.
RightOp(s) ==
    /\ pc[s] \in Deleting => op[s] = "delete"
    /\ pc[s] \in Placing => op[s] \in {"install", "create"}
    /\ pc[s] \in Placing /\ op[s] = "create" => theLibName[s] = AnyLib
    /\ pc[s] \in Copying => op[s] = "install"
    /\ pc[s] = "ok" /\ op[s] = "create" => answer[s] = worklib[UserOf[s]]

\* The types of the variables.
Vaults == [Libs -> {"none", "retired", Blank, Data}]
Lockers == [Libs -> Users \cup {NOBODY}]
Files == [Libs \cup UnixDirs -> {NoFile, Blank, Data}]
Works == [Users -> {NoFile, New} \cup Libs]
Names == [Sessions -> Libs \cup {AnyLib}]
Operations == [Sessions -> Ops \cup {"none"}]
Labellings == [Sessions -> Labels]
Elements == [Sessions -> Nat \ {0}]
Answers == [Sessions -> {NoFile} \cup Libs \cup UnixDirs \cup {"workdir"}]

\* All of them, apart from the lock's relation to the version.
Types ==
    /\ vault \in Vaults
    /\ locker \in Lockers
    /\ file \in Files
    /\ work \in Works
    /\ theLibName \in Names
    /\ op \in Operations
    /\ pc \in Labellings
    /\ at \in Elements
    /\ answer \in Answers

LockedIsLive == \A l \in Libs : locker[l] # NOBODY => Live(l)

\* The invariant, whatever the sessions and the faults.
Inv ==
    /\ Types /\ LockedIsLive
    /\ \A s \in Sessions : AtElement(s) /\ RightOp(s)
    /\ CopyIsManaged

-----------------------------------------------------------------------------
\* The type invariant is the types and the relation of locks to versions.
LEMMA TypeParts == TypeOK <=> Types /\ LockedIsLive
  BY DEF TypeOK, Types, Vaults, Lockers, Files, Works, Names, Operations,
         Labellings, Elements, Answers, LockedIsLive

\* The elements of paths.
LEMMA PathElements ==
    ASSUME NEW s \in Sessions, at[s] \in DOMAIN Paths[UserOf[s]]
    PROVE  /\ Elem(s).opt \in {"RW", "RO"} => Elem(s).dir \in Libs
           /\ Elem(s).opt = "UNIX" => Elem(s).dir \in UnixDirs
  <1>1. UserOf[s] \in Users
    BY PathAssumption
  <1> QED BY <1>1, PathAssumption DEF Elem

\* A cellview is installed or created in a library.
LEMMA TargetIsLibrary ==
    ASSUME Types, NEW s \in Sessions
    PROVE  Target(s) \in Libs
  BY PathAssumption DEF Target, Types, Names

-----------------------------------------------------------------------------
(* Steps of a session.                                                       *)

SessionStep(s) == Request(s) \/ Step(s)

\* The operations that CellView has call by call.
Operation(s) ==
    \/ dmsCheckOutCellView(s) \/ dmsCheckInCellView(s)
    \/ dmsUpdateCellView(s) \/ dmsUnCheckOutCellView(s)

\* Their outcomes: version, lock and file of the library change only for what is a
\* version and nobody else has locked, and a working copy never without its lock; with
\* every lock answered the copy goes only with the lock.
Outcome(s) ==
    LET l == Elem(s).dir
        u == UserOf[s]
    IN
    /\ pc[s] = "hit" /\ l \in Libs
    /\ UNCHANGED locals
    /\ \/ pc' = [pc EXCEPT ![s] = "ok"] /\ op[s] \notin {"create", "delete"}
       \/ pc' = [pc EXCEPT ![s] = "failed"]
    /\ vault' \in Vaults /\ locker' \in Lockers /\ file' \in Files /\ work' \in Works
    /\ \A m \in Libs \ {l} : vault'[m] = vault[m] /\ locker'[m] = locker[m]
    /\ \A d \in (Libs \cup UnixDirs) \ {l} : file'[d] = file[d]
    /\ \A v \in Users \ {u} : work'[v] = work[v]
    /\ vault'[l] = vault[l] \/ (Live(l) /\ vault'[l] \in {Blank, Data})
    /\ \/ locker'[l] = locker[l]
       \/ Live(l) /\ locker[l] \in {u, NOBODY} /\ locker'[l] \in {u, NOBODY}
    /\ file'[l] = file[l] \/ Live(l)
    /\ work'[u] \in {work[u], NoFile, l}
    /\ work'[u] = l => locker'[l] = u \/ (work[u] = l /\ locker'[l] = locker[l])
    /\ "query" \notin Faults /\ locker[l] = u /\ work[u] = l /\ work'[u] # l
       => locker'[l] # u

\* The library is there, and what a user holds is a version.
LEMMA OperationLibrary ==
    ASSUME Types, LockedIsLive, NEW s \in Sessions, AtElement(s), Operation(s)
    PROVE  /\ Elem(s).dir \in Libs
           /\ UserOf[s] \in Users /\ UserOf[s] # NOBODY
           /\ Elem(s).dir # NoFile
           /\ \A holder \in LockerSeen(Elem(s).dir) :
                /\ holder = UserOf[s] =>
                     locker[Elem(s).dir] = UserOf[s] /\ Live(Elem(s).dir)
                /\ "query" \notin Faults => holder = locker[Elem(s).dir]
  <1>1. pc[s] = "hit" /\ Elem(s).opt \in {"RW", "RO"}
    BY DEF Operation, dmsCheckOutCellView, dmsCheckInCellView, dmsUpdateCellView,
           dmsUnCheckOutCellView, Hit
  <1>2. Elem(s).dir \in Libs
    BY <1>1, PathElements DEF AtElement, Working
  <1>3. UserOf[s] \in Users /\ UserOf[s] # NOBODY /\ Elem(s).dir # NoFile
    BY <1>2, PathAssumption
  <1> QED BY <1>2, <1>3 DEF LockerSeen, LockedIsLive

\* A checkout is such an outcome.
LEMMA CheckOutOutcome ==
    ASSUME Types, LockedIsLive, NEW s \in Sessions, AtElement(s),
           dmsCheckOutCellView(s)
    PROVE  Outcome(s)
  <1> USE DEF Goto, WorkIs, Work, LockIs, FileIs, locals, vendor, Hit
  <1> DEFINE l == Elem(s).dir
             u == UserOf[s]
  <1>1. /\ l \in Libs /\ u \in Users /\ u # NOBODY /\ l # NoFile
        /\ \A holder \in LockerSeen(l) : holder = u => locker[l] = u /\ Live(l)
    BY OperationLibrary DEF Operation
  <1>2. /\ vault[l] \in {"none", "retired", Blank, Data}
        /\ file[l] \in {NoFile, Blank, Data}
        /\ vault \in Vaults /\ locker \in Lockers /\ file \in Files /\ work \in Works
        /\ Live(l) => vault[l] \in {NoFile, Blank, Data}
    BY <1>1 DEF Types, Vaults, Files, Live
  <1>3. ASSUME NEW fetched \in {NoFile, Blank, Data}, Live(l), work[u] = NoFile,
               locker[l] \in {u, NOBODY}, UNCHANGED <<vault, locals>>,
               pc[s] = "hit", op[s] = "checkout", PlaceCopy(s, l, fetched)
        PROVE  Outcome(s)
    <2>1. vault[l] \in {NoFile, Blank, Data}
      BY <1>2, <1>3
    <2>2. /\ locker' \in Lockers /\ \A m \in Libs \ {l} : locker'[m] = locker[m]
          /\ locker'[l] \in {u, NOBODY}
      BY <1>1, <1>2, <1>3 DEF PlaceCopy, CheckOutUndone, Lockers
    <2>3. /\ file' \in Files
          /\ \A d \in (Libs \cup UnixDirs) \ {l} : file'[d] = file[d]
      BY <1>1, <1>2, <1>3, <2>1 DEF PlaceCopy, CheckOutUndone, Files
    <2>4. /\ work' \in Works /\ \A v \in Users \ {u} : work'[v] = work[v]
          /\ work'[u] \in {NoFile, l} /\ (work'[u] = l => locker'[l] = u)
      BY <1>1, <1>2, <1>3 DEF PlaceCopy, CheckOutUndone, Works, Lockers
    <2>5. pc' = [pc EXCEPT ![s] = "ok"] \/ pc' = [pc EXCEPT ![s] = "failed"]
      BY <1>3 DEF PlaceCopy, CheckOutUndone
    <2> QED BY <1>1, <1>2, <1>3, <2>2, <2>3, <2>4, <2>5 DEF Outcome
  <1>4. ASSUME LockedInVain(s, l), UNCHANGED <<vault, locals>>, pc[s] = "hit"
        PROVE  Outcome(s)
    <2>1. Live(l) /\ vault[l] \in {NoFile, Blank, Data} /\ locker[l] \in {u, NOBODY}
      BY <1>2, <1>4 DEF LockedInVain, CanLock
    <2>2. /\ locker' \in Lockers /\ \A m \in Libs \ {l} : locker'[m] = locker[m]
          /\ locker'[l] = u
      BY <1>1, <1>2, <1>4 DEF LockedInVain, Lockers
    <2>3. /\ file' \in Files
          /\ \A d \in (Libs \cup UnixDirs) \ {l} : file'[d] = file[d]
      BY <1>1, <1>2, <1>4, <2>1 DEF LockedInVain, Files
    <2> QED BY <1>1, <1>2, <1>4, <2>1, <2>2, <2>3 DEF Outcome, LockedInVain
  <1>5. ASSUME UNCHANGED <<vault, locker, file, work, locals>>, pc[s] = "hit",
               op[s] = "checkout", Goto(s, "ok") \/ Goto(s, "failed")
        PROVE  Outcome(s)
    BY <1>1, <1>2, <1>5 DEF Outcome
  <1>6. /\ pc[s] = "hit" /\ op[s] = "checkout" /\ UNCHANGED <<vault, locals>>
    BY DEF dmsCheckOutCellView
  <1>7. PICK holder \in LockerSeen(l) :
        \/ /\ holder = u /\ work[u] # NoFile
           /\ Goto(s, "ok")
           /\ UNCHANGED <<locker, file, work>>
        \/ /\ holder = u /\ work[u] = NoFile
           /\ PlaceCopy(s, l, file[l])
        \/ /\ holder = NOBODY /\ work[u] = NoFile /\ CanLock(s, l)
           /\ \E fetched \in {vault[l]} \cup (IF locker[l] = u THEN {file[l]} ELSE {}) :
                PlaceCopy(s, l, fetched)
        \/ /\ holder = NOBODY /\ work[u] = NoFile
           /\ LockedInVain(s, l)
        \/ /\ \/ holder \notin {u, NOBODY}
              \/ holder = NOBODY /\ (work[u] # NoFile \/ ~CanLock(s, l) \/ MayFail)
           /\ Goto(s, "failed")
           /\ UNCHANGED <<locker, file, work>>
    BY Zenon DEF dmsCheckOutCellView
  <1>8. CASE holder = u /\ work[u] = NoFile /\ PlaceCopy(s, l, file[l])
    BY <1>1, <1>2, <1>3, <1>6, <1>8
  <1>9. CASE /\ holder = NOBODY /\ work[u] = NoFile /\ CanLock(s, l)
             /\ \E fetched \in {vault[l]} \cup (IF locker[l] = u THEN {file[l]} ELSE {}) :
                  PlaceCopy(s, l, fetched)
    <2>1. Live(l) /\ locker[l] \in {u, NOBODY}
      BY <1>9 DEF CanLock
    <2>2. PICK fetched \in {vault[l]} \cup (IF locker[l] = u THEN {file[l]} ELSE {}) :
            PlaceCopy(s, l, fetched)
      BY <1>9
    <2>3. fetched \in {NoFile, Blank, Data}
      BY <1>2, <2>1, <2>2
    <2> QED BY <1>3, <1>6, <1>9, <2>1, <2>2, <2>3
  <1> QED BY <1>4, <1>5, <1>6, <1>7, <1>8, <1>9

\* A working file that is published is such an outcome.
LEMMA PublishOutcome ==
    ASSUME Types, NEW s \in Sessions, UserOf[s] \in Users, UserOf[s] # NOBODY,
           Elem(s).dir \in Libs, Elem(s).dir # NoFile, Live(Elem(s).dir),
           locker[Elem(s).dir] \in {UserOf[s], NOBODY},
           pc[s] = "hit", op[s] \in {"checkin", "update"}, UNCHANGED locals,
           Publish(s, Elem(s).dir)
    PROVE  Outcome(s)
  <1> USE DEF Goto, WorkIs, Work, LockIs, FileIs, locals
  <1> DEFINE l == Elem(s).dir
             u == UserOf[s]
  <1>1. PICK data \in {Blank, Data} :
          /\ vault' = [vault EXCEPT ![l] = data]
          /\ file' = [file EXCEPT ![l] = data]
    BY DEF Publish, Live
  <1>2. vault \in Vaults /\ locker \in Lockers /\ file \in Files /\ work \in Works
    BY DEF Types
  <1>3. vault' \in Vaults /\ file' \in Files
    BY <1>1, <1>2 DEF Vaults, Files
  <1>4. locker' \in Lockers /\ work' \in Works
    BY <1>2 DEF Publish, Lockers, Works
  <1>5. locker'[l] = NOBODY /\ work'[u] = NoFile
    BY <1>2 DEF Publish, Lockers, Works
  <1>6. vault'[l] = data
    BY <1>1, <1>2 DEF Vaults
  <1>7. /\ \A m \in Libs \ {l} : vault'[m] = vault[m] /\ locker'[m] = locker[m]
        /\ \A d \in (Libs \cup UnixDirs) \ {l} : file'[d] = file[d]
        /\ \A v \in Users \ {u} : work'[v] = work[v]
    BY <1>1, <1>2 DEF Publish, Vaults, Lockers, Files, Works
  <1>8. pc' = [pc EXCEPT ![s] = "ok"]
    BY DEF Publish
  <1> QED BY <1>1, <1>3, <1>4, <1>5, <1>6, <1>7, <1>8 DEF Outcome

\* So is a checkin,
LEMMA CheckInOutcome ==
    ASSUME Types, LockedIsLive, NEW s \in Sessions, AtElement(s),
           dmsCheckInCellView(s)
    PROVE  Outcome(s)
  <1> USE DEF Goto, WorkIs, Work, LockIs, FileIs, locals, vendor, Hit
  <1> DEFINE l == Elem(s).dir
             u == UserOf[s]
  <1>1. /\ l \in Libs /\ u \in Users /\ u # NOBODY /\ l # NoFile
        /\ \A holder \in LockerSeen(l) : holder = u => locker[l] = u /\ Live(l)
    BY OperationLibrary DEF Operation
  <1>2. vault \in Vaults /\ locker \in Lockers /\ file \in Files /\ work \in Works
    BY DEF Types
  <1>3. CASE Live(l) /\ locker[l] = u /\ work[u] # NoFile /\ Publish(s, l)
    BY <1>1, <1>2, <1>3, PublishOutcome DEF dmsCheckInCellView
  <1>4. CASE Goto(s, "failed") /\ UNCHANGED <<vendor, file, work>>
    BY <1>1, <1>2, <1>4 DEF Outcome, dmsCheckInCellView
  <1> QED BY <1>1, <1>3, <1>4 DEF dmsCheckInCellView

\* an update
LEMMA UpdateOutcome ==
    ASSUME Types, LockedIsLive, NEW s \in Sessions, AtElement(s),
           dmsUpdateCellView(s)
    PROVE  Outcome(s)
  <1> USE DEF Goto, WorkIs, Work, LockIs, FileIs, locals, vendor, Hit
  <1> DEFINE l == Elem(s).dir
             u == UserOf[s]
  <1>1. /\ l \in Libs /\ u \in Users /\ u # NOBODY /\ l # NoFile
        /\ \A holder \in LockerSeen(l) : holder = u => locker[l] = u /\ Live(l)
    BY OperationLibrary DEF Operation
  <1>2. vault \in Vaults /\ locker \in Lockers /\ file \in Files /\ work \in Works
    BY DEF Types
  <1>3. CASE Live(l) /\ locker[l] \in {u, NOBODY} /\ Publish(s, l)
    BY <1>1, <1>2, <1>3, PublishOutcome DEF dmsUpdateCellView
  <1>4. CASE /\ Live(l) /\ locker[l] \in {u, NOBODY}
             /\ LockIs(l, u) /\ FileIs(l, Data)
             /\ Goto(s, "failed")
             /\ UNCHANGED <<vault, work>>
    <2>1. locker' \in Lockers /\ file' \in Files
      BY <1>1, <1>2, <1>4 DEF Lockers, Files
    <2> QED BY <1>1, <1>2, <1>4, <2>1 DEF Outcome, dmsUpdateCellView, Lockers, Files
  <1>5. CASE LockedInVain(s, l) /\ UNCHANGED vault
    <2>1. Live(l) /\ vault[l] \in {NoFile, Blank, Data} /\ locker[l] \in {u, NOBODY}
      BY <1>5 DEF LockedInVain, CanLock, Live
    <2>2. locker' \in Lockers /\ file' \in Files
      BY <1>1, <1>2, <1>5, <2>1 DEF Lockers, Files, LockedInVain
    <2> QED
      BY <1>1, <1>2, <1>5, <2>1, <2>2
      DEF Outcome, dmsUpdateCellView, LockedInVain, Lockers, Files
  <1>6. CASE Goto(s, "failed") /\ UNCHANGED <<vendor, file, work>>
    BY <1>1, <1>2, <1>6 DEF Outcome, dmsUpdateCellView
  <1> QED BY <1>1, <1>3, <1>4, <1>5, <1>6 DEF dmsUpdateCellView, CanLock

\* and a cancel.
LEMMA UnCheckOutOutcome ==
    ASSUME Types, LockedIsLive, NEW s \in Sessions, AtElement(s),
           dmsUnCheckOutCellView(s)
    PROVE  Outcome(s)
  <1> USE DEF Goto, WorkIs, Work, LockIs, FileIs, locals, vendor, Hit
  <1> DEFINE l == Elem(s).dir
             u == UserOf[s]
  <1>1. /\ l \in Libs /\ u \in Users /\ u # NOBODY /\ l # NoFile
        /\ \A holder \in LockerSeen(l) :
            /\ holder = u => locker[l] = u /\ Live(l)
            /\ "query" \notin Faults => holder = locker[l]
    BY OperationLibrary DEF Operation
  <1>2. vault \in Vaults /\ locker \in Lockers /\ file \in Files /\ work \in Works
    BY DEF Types
  <1>3. CASE /\ Live(l) /\ locker[l] = u
             /\ LockIs(l, NOBODY) /\ FileIs(l, vault[l])
             /\ WorkIs(s, NoFile)
             /\ Goto(s, "ok")
    <2>1. vault[l] \in {NoFile, Blank, Data}
      BY <1>3 DEF Live
    <2>2. locker' \in Lockers /\ file' \in Files /\ work' \in Works
      BY <1>1, <1>2, <1>3, <2>1 DEF Lockers, Files, Works
    <2> QED
      BY <1>1, <1>2, <1>3, <2>2 DEF Outcome, dmsUnCheckOutCellView, Lockers, Files, Works
  <1>4. CASE /\ "query" \in Faults \/ locker[l] # u
             /\ WorkIs(s, NoFile)
             /\ Goto(s, "failed")
             /\ UNCHANGED <<locker, file>>
    <2>1. work' \in Works
      BY <1>1, <1>2, <1>4 DEF Works
    <2> QED BY <1>1, <1>2, <1>4, <2>1 DEF Outcome, dmsUnCheckOutCellView, Works
  <1>5. CASE Goto(s, "failed") /\ UNCHANGED <<locker, file, work>>
    BY <1>1, <1>2, <1>5 DEF Outcome, dmsUnCheckOutCellView
  <1> QED BY <1>1, <1>3, <1>4, <1>5 DEF dmsUnCheckOutCellView

\* Every operation has such an outcome.
LEMMA OperationOutcome ==
    ASSUME Types, LockedIsLive, NEW s \in Sessions, AtElement(s), Operation(s)
    PROVE  Outcome(s)
  BY CheckOutOutcome, CheckInOutcome, UpdateOutcome, UnCheckOutOutcome DEF Operation

-----------------------------------------------------------------------------
(* Types.                                                                    *)

\* Every step of a session keeps the types.
LEMMA StepTypes ==
    ASSUME Types, LockedIsLive, NEW s \in Sessions, AtElement(s), SessionStep(s)
    PROVE  Types'
  <1> USE DEF Goto, WorkIs, LockIs, FileIs, locals, vendor, Hit
  <1>1. /\ vault \in Vaults /\ locker \in Lockers /\ file \in Files /\ work \in Works
        /\ theLibName \in Names /\ op \in Operations /\ pc \in Labellings
        /\ at \in Elements /\ answer \in Answers
    BY DEF Types
  <1>2. Target(s) \in Libs /\ UserOf[s] \in Users
    BY TargetIsLibrary, PathAssumption
  <1>3. ASSUME NEW label \in Labels PROVE [pc EXCEPT ![s] = label] \in Labellings
    BY <1>1 DEF Labellings
  <1>4. [work EXCEPT ![UserOf[s]] = NoFile] \in Works
    BY <1>1 DEF Works
  <1>5. ASSUME Request(s) PROVE Types'
    <2>1. PICK ask \in Asks[UserOf[s]] :
            /\ op' = [op EXCEPT ![s] = ask[1]]
            /\ theLibName' = [theLibName EXCEPT ![s] =
                                  IF ask[1] = "create" THEN AnyLib ELSE ask[2]]
            /\ Begin(s, ask[1])
      BY <1>5 DEF Request
    <2>2. ask[1] \in Ops /\ ask[2] \in Libs \cup {AnyLib}
      <3>1. ask \in Ops \X (Libs \cup {AnyLib})
        BY <1>2, PathAssumption
      <3> QED BY <3>1
    <2>3. op' \in Operations
      BY <1>1, <2>1, <2>2 DEF Operations
    <2>4. theLibName' \in Names
      BY <1>1, <2>1, <2>2 DEF Names
    <2>5. pc' \in Labellings
      BY <1>3, <2>1 DEF Begin, Labels
    <2> QED BY <1>1, <1>5, <2>3, <2>4, <2>5 DEF Types, Request
  <1>6. ASSUME Walk(s) PROVE Types'
    <2>1. pc' \in Labellings
      BY <1>1, <1>3, <1>6 DEF Walk, Labels
    <2>2. at' \in Elements
      BY <1>1, <1>6 DEF Walk, Elements
    <2> QED BY <1>1, <1>6, <2>1, <2>2 DEF Types, Walk
  <1>7. ASSUME WalkEnds(s) PROVE Types'
    <2>1. pc' \in Labellings /\ work' \in Works
      BY <1>1, <1>3, <1>4, <1>7 DEF WalkEnds, Labels
    <2> QED BY <1>1, <1>7, <2>1 DEF Types, WalkEnds
  <1>8. ASSUME dmsSearchCellView(s) PROVE Types'
    <2>1. Elem(s).dir \in Libs
      BY <1>8, PathElements DEF dmsSearchCellView, AtElement, Working
    <2>2. pc' \in Labellings
      BY <1>3, <1>8 DEF dmsSearchCellView, Labels
    <2>3. answer' \in Answers
      BY <1>1, <1>8, <2>1 DEF dmsSearchCellView, Answers
    <2> QED BY <1>1, <1>8, <2>2, <2>3 DEF Types, dmsSearchCellView
  <1>9. ASSUME ReadUnixFile(s) PROVE Types'
    <2>1. Elem(s).opt = "WORK" \/ Elem(s).dir \in UnixDirs
      BY <1>9, PathElements DEF ReadUnixFile, AtElement, Working
    <2>2. pc' \in Labellings
      BY <1>3, <1>9 DEF ReadUnixFile, Labels
    <2>3. answer' \in Answers
      BY <1>1, <1>9, <2>1 DEF ReadUnixFile, Answers
    <2> QED BY <1>1, <1>9, <2>2, <2>3 DEF Types, ReadUnixFile
  <1>10. ASSUME RefuseReadonly(s) \/ DeleteReadonly(s) PROVE Types'
    <2>1. pc' \in Labellings
      BY <1>3, <1>10 DEF RefuseReadonly, DeleteReadonly, Labels
    <2> QED BY <1>1, <1>10, <2>1 DEF Types, RefuseReadonly, DeleteReadonly
  <1>11. ASSUME DeleteUnixFile(s) PROVE Types'
    <2>1. pc' \in Labellings
      BY <1>3, <1>11 DEF DeleteUnixFile, Labels
    <2>2. file' \in Files
      BY <1>1, <1>11 DEF DeleteUnixFile, Files
    <2> QED BY <1>1, <1>11, <2>1, <2>2 DEF Types, DeleteUnixFile
  <1>12. ASSUME dmsRmCellView(s) PROVE Types'
    <2>1. pc' \in Labellings
      BY <1>3, <1>12 DEF dmsRmCellView, Labels
    <2> QED BY <1>1, <1>12, <2>1 DEF Types, dmsRmCellView
  <1>13. ASSUME RmWorkFile(s) \/ RmDone(s) PROVE Types'
    <2>1. pc' \in Labellings /\ work' \in Works
      BY <1>3, <1>4, <1>13 DEF RmWorkFile, RmDone, Labels
    <2> QED BY <1>1, <1>13, <2>1 DEF Types, RmWorkFile, RmDone
  <1>14. ASSUME sapiRetire(s) PROVE Types'
    <2>1. pc' \in Labellings
      BY <1>3, <1>14 DEF sapiRetire, Labels
    <2>2. vault' \in Vaults
      BY <1>1, <1>14 DEF sapiRetire, Vaults
    <2>3. locker' \in Lockers
      BY <1>1, <1>14 DEF sapiRetire, Lockers
    <2> QED BY <1>1, <1>14, <2>1, <2>2, <2>3 DEF Types, sapiRetire
  <1>15. ASSUME sapiRmfile(s) PROVE Types'
    <2>1. pc' \in Labellings
      BY <1>3, <1>15 DEF sapiRmfile, Labels
    <2>2. file' \in Files
      BY <1>1, <1>15 DEF sapiRmfile, Files
    <2> QED BY <1>1, <1>15, <2>1, <2>2 DEF Types, sapiRmfile
  <1>16. ASSUME idb_url_exists(s) PROVE Types'
    <2>1. pc' \in Labellings
      BY <1>3, <1>16 DEF idb_url_exists, Labels
    <2> QED BY <1>1, <1>16, <2>1 DEF Types, idb_url_exists
  <1>17. ASSUME ddGetObj(s) PROVE Types'
    <2>1. pc' \in Labellings
      BY <1>3, <1>17 DEF ddGetObj, Labels
    <2>2. file' \in Files
      BY <1>1, <1>17 DEF ddGetObj, Files
    <2>3. answer' \in Answers
      BY <1>1, <1>2, <1>17 DEF ddGetObj, Answers
    <2> QED BY <1>1, <1>17, <2>1, <2>2, <2>3 DEF Types, ddGetObj
  <1>18. ASSUME InstallCopy(s) PROVE Types'
    <2>1. pc' \in Labellings
      BY <1>3, <1>18 DEF InstallCopy, Labels
    <2>2. file' \in Files
      BY <1>1, <1>18 DEF InstallCopy, Files
    <2> QED BY <1>1, <1>18, <2>1, <2>2 DEF Types, InstallCopy
  <1>19. ASSUME CheckInNew(s) PROVE Types'
    <2>1. pc' \in Labellings /\ work' \in Works
      BY <1>1, <1>3, <1>4, <1>19 DEF CheckInNew, Labels
    <2>2. file[Target(s)] \in {NoFile, Blank, Data}
      BY <1>1, <1>2 DEF Files
    <2>3. vault' \in Vaults
      BY <1>1, <1>19, <2>2 DEF CheckInNew, Vaults
    <2>4. locker' \in Lockers
      BY <1>1, <1>19 DEF CheckInNew, Lockers
    <2> QED BY <1>1, <1>19, <2>1, <2>3, <2>4 DEF Types, CheckInNew
  <1>20. ASSUME InstallUnlink(s) PROVE Types'
    <2>1. pc' \in Labellings
      BY <1>3, <1>20 DEF InstallUnlink, Labels
    <2>2. file' \in Files
      BY <1>1, <1>20 DEF InstallUnlink, Files
    <2> QED BY <1>1, <1>20, <2>1, <2>2 DEF Types, InstallUnlink
  <1>21. ASSUME InstallLs(s) PROVE Types'
    <2>1. pc' \in Labellings
      BY <1>3, <1>21 DEF InstallLs, Labels
    <2> QED BY <1>1, <1>21, <2>1 DEF Types, InstallLs
  <1>22. ASSUME InstallRm(s) PROVE Types'
    <2>1. pc' \in Labellings
      BY <1>3, <1>22 DEF InstallRm, Labels
    <2>2. file' \in Files
      BY <1>1, <1>22 DEF InstallRm, Files
    <2> QED BY <1>1, <1>22, <2>1, <2>2 DEF Types, InstallRm
  <1>23. ASSUME Return(s) PROVE Types'
    <2>1. pc' \in Labellings
      BY <1>3, <1>23 DEF Return, Labels
    <2>2. op' \in Operations /\ answer' \in Answers
      BY <1>1, <1>23 DEF Return, Operations, Answers
    <2>3. at' \in Elements
      <3>1. at' = [at EXCEPT ![s] = 1]
        BY <1>23 DEF Return
      <3> QED BY <1>1, <3>1 DEF Elements
    <2>4. theLibName' \in Names
      BY <1>1, <1>23 DEF Return, Names
    <2> QED BY <1>1, <1>23, <2>1, <2>2, <2>3, <2>4 DEF Types, Return
  <1>24. ASSUME Operation(s) PROVE Types'
    <2>1. Outcome(s)
      BY <1>24, OperationOutcome
    <2>2. pc' \in Labellings
      BY <1>3, <2>1 DEF Outcome, Labels
    <2> QED BY <1>1, <2>1, <2>2 DEF Outcome, Types
  <1> QED BY <1>5, <1>6, <1>7, <1>8, <1>9, <1>10, <1>11, <1>12, <1>13, <1>14,
             <1>15, <1>16, <1>17, <1>18, <1>19, <1>20, <1>21, <1>22, <1>23, <1>24
          DEF SessionStep, Step, Operation

\* Every step of a session leaves what is checked out a live version.
LEMMA StepLocked ==
    ASSUME Types, LockedIsLive, NEW s \in Sessions, AtElement(s), SessionStep(s)
    PROVE  LockedIsLive'
  <1> USE DEF LockedIsLive, Live, Blank, Data, NoFile, Goto, WorkIs, LockIs, FileIs,
              locals, vendor
  <1>1. vault \in Vaults /\ locker \in Lockers /\ file \in Files
    BY DEF Types
  <1>2. CASE UNCHANGED vendor
    BY <1>2
  <1>3. CASE sapiRetire(s)
    BY <1>1, <1>3 DEF sapiRetire, Vaults, Lockers
  <1>4. CASE CheckInNew(s)
    BY <1>1, <1>4 DEF CheckInNew, Vaults, Lockers
  <1>5. CASE Operation(s)
    <2>1. Outcome(s)
      BY <1>5, OperationOutcome
    <2> QED BY <2>1 DEF Outcome
  <1>6. \/ UNCHANGED vendor
        \/ sapiRetire(s) \/ CheckInNew(s) \/ Operation(s)
    BY DEF SessionStep, Step, Operation, Request, Walk, WalkEnds, dmsSearchCellView,
           ReadUnixFile, RefuseReadonly, DeleteUnixFile, DeleteReadonly,
           dmsRmCellView, RmWorkFile, sapiRmfile, RmDone, idb_url_exists, ddGetObj,
           InstallCopy, InstallUnlink, InstallLs, InstallRm, Return
  <1> QED BY <1>2, <1>3, <1>4, <1>5, <1>6

-----------------------------------------------------------------------------
(* What a step of one session leaves to the others.                          *)

\* No other session's request changes and no other user's working file; a user gets a
\* lock by his own steps only, and loses none unless the vendor overrides it.
Private(s) ==
    /\ \A t \in Sessions \ {s} :
        /\ pc'[t] = pc[t] /\ op'[t] = op[t] /\ at'[t] = at[t]
        /\ answer'[t] = answer[t] /\ theLibName'[t] = theLibName[t]
    /\ \A v \in Users \ {UserOf[s]} : work'[v] = work[v]
    /\ \A l \in Libs :
        \/ locker'[l] = locker[l]
        \/ /\ locker'[l] \in {UserOf[s], NOBODY}
           /\ "override" \notin Faults => locker[l] \in {UserOf[s], NOBODY}

\* Every step is private in that sense.
LEMMA StepPrivate ==
    ASSUME Types, LockedIsLive, NEW s \in Sessions, AtElement(s), SessionStep(s)
    PROVE  Private(s)
  <1> USE DEF Private, Goto, WorkIs, LockIs, FileIs, locals, vendor, Hit, Vaults,
              Lockers, Works, Names, Operations, Labellings, Elements, Answers
  <1>1. /\ vault \in Vaults /\ locker \in Lockers /\ file \in Files /\ work \in Works
        /\ theLibName \in Names /\ op \in Operations /\ pc \in Labellings
        /\ at \in Elements /\ answer \in Answers
    BY DEF Types
  <1>2. Target(s) \in Libs /\ UserOf[s] \in Users /\ UserOf[s] # NOBODY
    BY TargetIsLibrary, PathAssumption
  <1>20. CASE Request(s)
    BY <1>1, <1>2, <1>20
    DEF Request, Begin
  <1>21. CASE Walk(s)
    BY <1>1, <1>2, <1>21
    DEF Walk
  <1>22. CASE WalkEnds(s)
    BY <1>1, <1>2, <1>22
    DEF WalkEnds
  <1>23. CASE dmsSearchCellView(s)
    BY <1>1, <1>2, <1>23
    DEF dmsSearchCellView
  <1>24. CASE ReadUnixFile(s)
    BY <1>1, <1>2, <1>24
    DEF ReadUnixFile
  <1>25. CASE RefuseReadonly(s) \/ DeleteReadonly(s) \/ DeleteUnixFile(s)
    BY <1>1, <1>2, <1>25
    DEF RefuseReadonly, DeleteReadonly, DeleteUnixFile
  <1>26. CASE dmsRmCellView(s)
    BY <1>1, <1>2, <1>26
    DEF dmsRmCellView, LockerSeen
  <1>27. CASE RmWorkFile(s) \/ RmDone(s)
    BY <1>1, <1>2, <1>27
    DEF RmWorkFile, RmDone
  <1>28. CASE sapiRetire(s)
    BY <1>1, <1>2, <1>28
    DEF sapiRetire, VendorLets
  <1>29. CASE sapiRmfile(s)
    BY <1>1, <1>2, <1>29
    DEF sapiRmfile
  <1>30. CASE idb_url_exists(s)
    BY <1>1, <1>2, <1>30
    DEF idb_url_exists
  <1>31. CASE ddGetObj(s)
    BY <1>1, <1>2, <1>31
    DEF ddGetObj
  <1>32. CASE InstallCopy(s)
    BY <1>1, <1>2, <1>32
    DEF InstallCopy
  <1>33. CASE CheckInNew(s)
    BY <1>1, <1>2, <1>33
    DEF CheckInNew
  <1>34. CASE InstallUnlink(s)
    BY <1>1, <1>2, <1>34
    DEF InstallUnlink
  <1>35. CASE InstallLs(s) \/ InstallRm(s)
    BY <1>1, <1>2, <1>35
    DEF InstallLs, InstallRm
  <1>36. CASE Return(s)
    BY <1>1, <1>2, <1>36
    DEF Return
  <1>37. CASE Operation(s)
    <2>1. Outcome(s)
      BY <1>37, OperationOutcome
    <2> QED BY <1>1, <1>2, <2>1 DEF Outcome
  <1> QED BY <1>20, <1>21, <1>22, <1>23, <1>24, <1>25, <1>26, <1>27, <1>28, <1>29,
             <1>30, <1>31, <1>32, <1>33, <1>34, <1>35, <1>36, <1>37
          DEF SessionStep, Step, Operation


-----------------------------------------------------------------------------
(* What a step does to the session's own request.                            *)

\* Every step keeps the session's labels right.
LEMMA StepLabels ==
    ASSUME Types, LockedIsLive, NEW s \in Sessions, AtElement(s), SessionStep(s),
           RightOp(s)
    PROVE  AtElement(s)' /\ RightOp(s)'
  <1> USE DEF AtElement, RightOp, Working, Deleting, Placing, Copying, Goto,
              WorkIs, LockIs, FileIs, locals, vendor, Hit, Elem, Labellings
  <1>1. /\ vault \in Vaults /\ locker \in Lockers /\ file \in Files /\ work \in Works
        /\ theLibName \in Names /\ op \in Operations /\ pc \in Labellings
        /\ at \in Elements /\ answer \in Answers
    BY DEF Types
  <1>2. Target(s) \in Libs /\ UserOf[s] \in Users /\ UserOf[s] # NOBODY
    BY TargetIsLibrary, PathAssumption
  <1>20. CASE Request(s)
    <2>1. PICK ask \in Asks[UserOf[s]] :
            /\ op' = [op EXCEPT ![s] = ask[1]]
            /\ theLibName' = [theLibName EXCEPT ![s] =
                                  IF ask[1] = "create" THEN AnyLib ELSE ask[2]]
            /\ Begin(s, ask[1])
      BY <1>20 DEF Request
    <2>2. op'[s] = ask[1] /\ (ask[1] = "create" => theLibName'[s] = AnyLib)
      BY <1>1, <2>1 DEF Names, Operations
    <2>3. pc'[s] \in {"failed", "look", "walk"}
          /\ (pc'[s] = "look" => ask[1] \in {"install", "create"})
      BY <1>1, <2>1 DEF Begin, Labellings
    <2> QED BY <2>2, <2>3
  <1>21. CASE Walk(s)
    <2>1. Paths[UserOf[s]] \in Seq([opt : Opts, dir : Libs \cup UnixDirs \cup {AnyLib}])
      BY <1>2, PathAssumption
    <2>2. at[s] \in DOMAIN Paths[UserOf[s]]
      <3>1. at[s] \in Nat \ {0} /\ at[s] <= Len(Paths[UserOf[s]])
        BY <1>1, <1>21 DEF Walk, Elements
      <3> QED BY <2>1, <3>1
    <2> QED BY <1>1, <1>21, <2>2 DEF Walk
  <1>22. CASE WalkEnds(s)
    BY <1>1, <1>22
    DEF WalkEnds
  <1>23. CASE dmsSearchCellView(s)
    BY <1>1, <1>23
    DEF dmsSearchCellView
  <1>24. CASE ReadUnixFile(s)
    BY <1>1, <1>24
    DEF ReadUnixFile
  <1>25. CASE RefuseReadonly(s) \/ DeleteReadonly(s) \/ DeleteUnixFile(s)
    BY <1>1, <1>25
    DEF RefuseReadonly, DeleteReadonly, DeleteUnixFile
  <1>26. CASE dmsRmCellView(s)
    BY <1>1, <1>26
    DEF dmsRmCellView, LockerSeen
  <1>27. CASE RmWorkFile(s) \/ RmDone(s)
    BY <1>1, <1>27
    DEF RmWorkFile, RmDone
  <1>28. CASE sapiRetire(s)
    BY <1>1, <1>28
    DEF sapiRetire, VendorLets
  <1>29. CASE sapiRmfile(s)
    BY <1>1, <1>29
    DEF sapiRmfile
  <1>30. CASE idb_url_exists(s)
    BY <1>1, <1>30
    DEF idb_url_exists
  <1>31. CASE ddGetObj(s)
    <2>1. op[s] = "create" => Target(s) = worklib[UserOf[s]]
      BY <1>31 DEF ddGetObj, Target
    <2> QED BY <1>1, <1>31, <2>1 DEF ddGetObj, Labellings, Answers
  <1>32. CASE InstallCopy(s)
    BY <1>1, <1>32
    DEF InstallCopy
  <1>33. CASE CheckInNew(s)
    BY <1>1, <1>33
    DEF CheckInNew
  <1>34. CASE InstallUnlink(s)
    BY <1>1, <1>34
    DEF InstallUnlink
  <1>35. CASE InstallLs(s) \/ InstallRm(s)
    BY <1>1, <1>35
    DEF InstallLs, InstallRm
  <1>36. CASE Return(s)
    BY <1>1, <1>36
    DEF Return
  <1>37. CASE Operation(s)
    <2>1. Outcome(s)
      BY <1>37, OperationOutcome
    <2> QED BY <1>1, <2>1 DEF Outcome, Labellings
  <1> QED BY <1>20, <1>21, <1>22, <1>23, <1>24, <1>25, <1>26, <1>27, <1>28, <1>29,
             <1>30, <1>31, <1>32, <1>33, <1>34, <1>35, <1>36, <1>37
          DEF SessionStep, Step, Operation

\* Data that the vault does not know are in the library because of this step, or
\* were there before and not for the session's own install.
Stray(s) ==
    \A l \in Libs : file'[l] = Data /\ vault'[l] = "none" =>
        \/ pc'[s] \in {"checkinNew", "unlink"} /\ Target(s)' = l
        \/ /\ file[l] = Data /\ vault[l] = "none"
           /\ ~(pc[s] \in {"checkinNew", "unlink"} /\ Target(s) = l)

\* Every step leaves data that its library does not know only in that sense.
LEMMA StepStray ==
    ASSUME Types, LockedIsLive, NEW s \in Sessions, AtElement(s), SessionStep(s)
    PROVE  Stray(s)
  <1> USE DEF Stray, Target, Live, Data, Blank, NoFile, Vaults, Files, Names,
              Labellings, Goto, WorkIs, LockIs, FileIs, locals, vendor, Hit
  <1>1. /\ vault \in Vaults /\ locker \in Lockers /\ file \in Files /\ work \in Works
        /\ theLibName \in Names /\ op \in Operations /\ pc \in Labellings
        /\ at \in Elements /\ answer \in Answers
    BY DEF Types
  <1>2. Target(s) \in Libs /\ UserOf[s] \in Users /\ UserOf[s] # NOBODY
    BY TargetIsLibrary, PathAssumption
  <1>20. CASE Request(s)
    BY <1>1, <1>2, <1>20
    DEF Request, Begin
  <1>21. CASE Walk(s)
    BY <1>1, <1>2, <1>21
    DEF Walk
  <1>22. CASE WalkEnds(s)
    BY <1>1, <1>2, <1>22
    DEF WalkEnds
  <1>23. CASE dmsSearchCellView(s)
    BY <1>1, <1>2, <1>23
    DEF dmsSearchCellView
  <1>24. CASE ReadUnixFile(s)
    BY <1>1, <1>2, <1>24
    DEF ReadUnixFile
  <1>25. CASE RefuseReadonly(s) \/ DeleteReadonly(s) \/ DeleteUnixFile(s)
    BY <1>1, <1>2, <1>25
    DEF RefuseReadonly, DeleteReadonly, DeleteUnixFile
  <1>26. CASE dmsRmCellView(s)
    BY <1>1, <1>2, <1>26
    DEF dmsRmCellView, LockerSeen
  <1>27. CASE RmWorkFile(s) \/ RmDone(s)
    BY <1>1, <1>2, <1>27
    DEF RmWorkFile, RmDone
  <1>28. CASE sapiRetire(s)
    BY <1>1, <1>2, <1>28
    DEF sapiRetire, VendorLets
  <1>29. CASE sapiRmfile(s)
    BY <1>1, <1>2, <1>29
    DEF sapiRmfile
  <1>30. CASE idb_url_exists(s)
    BY <1>1, <1>2, <1>30
    DEF idb_url_exists
  <1>31. CASE ddGetObj(s)
    BY <1>1, <1>2, <1>31
    DEF ddGetObj
  <1>32. CASE InstallCopy(s)
    <2> SUFFICES ASSUME NEW l \in Libs, file'[l] = Data, vault'[l] = "none"
                 PROVE  \/ pc'[s] \in {"checkinNew", "unlink"} /\ Target(s)' = l
                        \/ /\ file[l] = Data /\ vault[l] = "none"
                           /\ ~(pc[s] \in {"checkinNew", "unlink"} /\ Target(s) = l)
      OBVIOUS
    <2>1. CASE l # Target(s)
      BY <1>1, <1>2, <1>32, <2>1 DEF InstallCopy
    <2>2. CASE l = Target(s)
      BY <1>1, <1>2, <1>32, <2>2 DEF InstallCopy
    <2> QED BY <2>1, <2>2
  <1>33. CASE CheckInNew(s)
    <2> SUFFICES ASSUME NEW l \in Libs, file'[l] = Data, vault'[l] = "none"
                 PROVE  \/ pc'[s] \in {"checkinNew", "unlink"} /\ Target(s)' = l
                        \/ /\ file[l] = Data /\ vault[l] = "none"
                           /\ ~(pc[s] \in {"checkinNew", "unlink"} /\ Target(s) = l)
      OBVIOUS
    <2>1. CASE l # Target(s)
      BY <1>1, <1>2, <1>33, <2>1 DEF CheckInNew
    <2>2. CASE l = Target(s)
      BY <1>1, <1>2, <1>33, <2>2 DEF CheckInNew
    <2> QED BY <2>1, <2>2
  <1>34. CASE InstallUnlink(s)
    <2> SUFFICES ASSUME NEW l \in Libs, file'[l] = Data, vault'[l] = "none"
                 PROVE  \/ pc'[s] \in {"checkinNew", "unlink"} /\ Target(s)' = l
                        \/ /\ file[l] = Data /\ vault[l] = "none"
                           /\ ~(pc[s] \in {"checkinNew", "unlink"} /\ Target(s) = l)
      OBVIOUS
    <2>1. CASE l # Target(s)
      BY <1>1, <1>2, <1>34, <2>1 DEF InstallUnlink
    <2>2. CASE l = Target(s)
      BY <1>1, <1>2, <1>34, <2>2 DEF InstallUnlink
    <2> QED BY <2>1, <2>2
  <1>35. CASE InstallLs(s) \/ InstallRm(s)
    BY <1>1, <1>2, <1>35
    DEF InstallLs, InstallRm
  <1>36. CASE Return(s)
    BY <1>1, <1>2, <1>36
    DEF Return
  <1>37. CASE Operation(s)
    <2>1. Outcome(s)
      BY <1>37, OperationOutcome
    <2>2. pc'[s] \in {"ok", "failed"} /\ pc[s] = "hit"
      BY <1>1, <2>1 DEF Outcome
    <2>3. ASSUME NEW l \in Libs, file'[l] = Data, vault'[l] = "none"
          PROVE  file[l] = Data /\ vault[l] = "none"
      <3>1. CASE l = Elem(s).dir
        BY <1>1, <2>1, <2>3, <3>1 DEF Outcome
      <3>2. CASE l # Elem(s).dir
        BY <1>1, <2>1, <2>3, <3>2 DEF Outcome
      <3> QED BY <3>1, <3>2
    <2> QED BY <2>2, <2>3
  <1> QED BY <1>20, <1>21, <1>22, <1>23, <1>24, <1>25, <1>26, <1>27, <1>28, <1>29,
             <1>30, <1>31, <1>32, <1>33, <1>34, <1>35, <1>36, <1>37
          DEF SessionStep, Step, Operation


-----------------------------------------------------------------------------
(* Locks and working copies.                                                 *)

\* Who deletes has not checked out what he deletes.
Unlocked(s) == pc[s] \in Deleting => locker[Elem(s).dir] # UserOf[s]

\* A delete goes on only where its user has no lock, if it is told who has it.
LEMMA StepUnlocked ==
    ASSUME Types, LockedIsLive, NEW s \in Sessions, AtElement(s), SessionStep(s),
           Unlocked(s), "query" \notin Faults
    PROVE  Unlocked(s)'
  <1> USE DEF Unlocked, Deleting, Elem, Lockers, Labellings, Goto, WorkIs, LockIs,
              FileIs, locals, vendor, Hit
  <1>1. /\ vault \in Vaults /\ locker \in Lockers /\ file \in Files /\ work \in Works
        /\ theLibName \in Names /\ op \in Operations /\ pc \in Labellings
        /\ at \in Elements /\ answer \in Answers
    BY DEF Types
  <1>2. Target(s) \in Libs /\ UserOf[s] \in Users /\ UserOf[s] # NOBODY
    BY TargetIsLibrary, PathAssumption
  <1>20. CASE Request(s)
    <2>1. pc'[s] \in {"failed", "look", "walk"}
      BY <1>1, <1>20 DEF Request, Begin
    <2> QED BY <2>1
  <1>21. CASE Walk(s)
    BY <1>1, <1>2, <1>21
    DEF Walk
  <1>22. CASE WalkEnds(s)
    BY <1>1, <1>2, <1>22
    DEF WalkEnds
  <1>23. CASE dmsSearchCellView(s)
    BY <1>1, <1>2, <1>23
    DEF dmsSearchCellView
  <1>24. CASE ReadUnixFile(s)
    BY <1>1, <1>2, <1>24
    DEF ReadUnixFile
  <1>25. CASE RefuseReadonly(s) \/ DeleteReadonly(s) \/ DeleteUnixFile(s)
    BY <1>1, <1>2, <1>25
    DEF RefuseReadonly, DeleteReadonly, DeleteUnixFile
  <1>26. CASE dmsRmCellView(s)
    BY <1>1, <1>2, <1>26
    DEF dmsRmCellView, LockerSeen
  <1>27. CASE RmWorkFile(s) \/ RmDone(s)
    BY <1>1, <1>2, <1>27
    DEF RmWorkFile, RmDone
  <1>28. CASE sapiRetire(s)
    <2>1. Elem(s).dir \in Libs
      BY <1>28, PathElements DEF sapiRetire, AtElement, Working
    <2> QED BY <1>1, <1>2, <1>28, <2>1 DEF sapiRetire
  <1>29. CASE sapiRmfile(s)
    BY <1>1, <1>2, <1>29
    DEF sapiRmfile
  <1>30. CASE idb_url_exists(s)
    BY <1>1, <1>2, <1>30
    DEF idb_url_exists
  <1>31. CASE ddGetObj(s)
    BY <1>1, <1>2, <1>31
    DEF ddGetObj
  <1>32. CASE InstallCopy(s)
    BY <1>1, <1>2, <1>32
    DEF InstallCopy
  <1>33. CASE CheckInNew(s)
    BY <1>1, <1>2, <1>33
    DEF CheckInNew
  <1>34. CASE InstallUnlink(s)
    BY <1>1, <1>2, <1>34
    DEF InstallUnlink
  <1>35. CASE InstallLs(s) \/ InstallRm(s)
    BY <1>1, <1>2, <1>35
    DEF InstallLs, InstallRm
  <1>36. CASE Return(s)
    BY <1>1, <1>2, <1>36
    DEF Return
  <1>37. CASE Operation(s)
    <2>1. Outcome(s)
      BY <1>37, OperationOutcome
    <2>2. pc'[s] \in {"ok", "failed"}
      BY <1>1, <2>1 DEF Outcome
    <2> QED BY <2>2
  <1> QED BY <1>20, <1>21, <1>22, <1>23, <1>24, <1>25, <1>26, <1>27, <1>28, <1>29,
             <1>30, <1>31, <1>32, <1>33, <1>34, <1>35, <1>36, <1>37
          DEF SessionStep, Step, Operation


\* A delete that comes to the version has removed the working file.
Emptied(s) == pc[s] = "retire" => Work(s) = NoFile

\* A working copy keeps its lock, unless the vendor overrides it.
LEMMA StepPlaced ==
    ASSUME Types, LockedIsLive, NEW s \in Sessions, AtElement(s), SessionStep(s),
           PlacedCopyHasLock, Emptied(s), "override" \notin Faults
    PROVE  PlacedCopyHasLock' /\ Emptied(s)'
  <1> USE DEF PlacedCopyHasLock, Emptied, Work, Lockers, Works, Labellings, Goto,
              WorkIs, LockIs, FileIs, locals, vendor, Hit
  <1>1. /\ vault \in Vaults /\ locker \in Lockers /\ file \in Files /\ work \in Works
        /\ theLibName \in Names /\ op \in Operations /\ pc \in Labellings
        /\ at \in Elements /\ answer \in Answers
    BY DEF Types
  <1>2. Target(s) \in Libs /\ UserOf[s] \in Users /\ UserOf[s] # NOBODY
    BY TargetIsLibrary, PathAssumption
  <1>3. \A l \in Libs : l # NoFile /\ l # New
    BY PathAssumption
  <1>20. CASE Request(s)
    <2> HIDE DEF Work
    <2>1. pc'[s] \in {"failed", "look", "walk"}
      BY <1>1, <1>20 DEF Request, Begin
    <2> QED BY <1>20, <2>1 DEF Request, Work
  <1>21. CASE Walk(s)
    BY <1>1, <1>2, <1>3, <1>21
    DEF Walk
  <1>22. CASE WalkEnds(s)
    BY <1>1, <1>2, <1>3, <1>22
    DEF WalkEnds
  <1>23. CASE dmsSearchCellView(s)
    BY <1>1, <1>2, <1>3, <1>23
    DEF dmsSearchCellView
  <1>24. CASE ReadUnixFile(s)
    BY <1>1, <1>2, <1>3, <1>24
    DEF ReadUnixFile
  <1>25. CASE RefuseReadonly(s) \/ DeleteReadonly(s) \/ DeleteUnixFile(s)
    BY <1>1, <1>2, <1>3, <1>25
    DEF RefuseReadonly, DeleteReadonly, DeleteUnixFile
  <1>26. CASE dmsRmCellView(s)
    BY <1>1, <1>2, <1>3, <1>26
    DEF dmsRmCellView, LockerSeen
  <1>27. CASE RmWorkFile(s) \/ RmDone(s)
    BY <1>1, <1>2, <1>3, <1>27
    DEF RmWorkFile, RmDone
  <1>28. CASE sapiRetire(s)
    <2>1. Elem(s).dir \in Libs
      BY <1>28, PathElements DEF sapiRetire, AtElement, Working, Deleting
    <2>2. Emptied(s)'
      BY <1>1, <1>28 DEF sapiRetire
    <2>3. ASSUME NEW u \in Users, NEW l \in Libs, work'[u] = l PROVE locker'[l] = u
      <3>1. work[u] = l /\ locker[l] = u /\ u # UserOf[s]
        BY <1>2, <1>3, <1>28, <2>3 DEF sapiRetire
      <3>2. u # NOBODY
        BY PathAssumption
      <3>3. CASE l # Elem(s).dir
        BY <1>1, <1>28, <3>1, <3>3 DEF sapiRetire
      <3>4. CASE l = Elem(s).dir
        BY <1>1, <1>28, <3>1, <3>2, <3>4 DEF sapiRetire, VendorLets
      <3> QED BY <3>3, <3>4
    <2> QED BY <2>2, <2>3
  <1>29. CASE sapiRmfile(s)
    BY <1>1, <1>2, <1>3, <1>29
    DEF sapiRmfile
  <1>30. CASE idb_url_exists(s)
    BY <1>1, <1>2, <1>3, <1>30
    DEF idb_url_exists
  <1>31. CASE ddGetObj(s)
    BY <1>1, <1>2, <1>3, <1>31
    DEF ddGetObj
  <1>32. CASE InstallCopy(s)
    BY <1>1, <1>2, <1>3, <1>32
    DEF InstallCopy
  <1>33. CASE CheckInNew(s)
    <2>2. Emptied(s)'
      BY <1>1, <1>33 DEF CheckInNew
    <2>3. ASSUME NEW u \in Users, NEW l \in Libs, work'[u] = l PROVE locker'[l] = u
      <3>1. CASE UNCHANGED <<vendor, work>>
        BY <2>3, <3>1
      <3>2. CASE ~UNCHANGED <<vendor, work>>
        <4>1. /\ locker[Target(s)] \in {UserOf[s], NOBODY}
              /\ locker' = [locker EXCEPT ![Target(s)] = NOBODY]
              /\ work' = [work EXCEPT ![UserOf[s]] = NoFile]
          BY <1>33, <3>2 DEF CheckInNew
        <4>2. work[u] = l /\ locker[l] = u /\ u # UserOf[s]
          BY <1>1, <1>2, <1>3, <2>3, <4>1
        <4>3. l # Target(s)
          BY <1>2, <4>1, <4>2, PathAssumption
        <4> QED BY <1>1, <4>1, <4>2, <4>3
      <3> QED BY <3>1, <3>2
    <2> QED BY <2>2, <2>3
  <1>34. CASE InstallUnlink(s)
    BY <1>1, <1>2, <1>3, <1>34
    DEF InstallUnlink
  <1>35. CASE InstallLs(s) \/ InstallRm(s)
    BY <1>1, <1>2, <1>3, <1>35
    DEF InstallLs, InstallRm
  <1>36. CASE Return(s)
    BY <1>1, <1>2, <1>3, <1>36
    DEF Return
  <1>37. CASE Operation(s)
    <2>1. Outcome(s)
      BY <1>37, OperationOutcome
    <2>2. Emptied(s)'
      BY <1>1, <2>1 DEF Outcome
    <2>3. ASSUME NEW u \in Users, NEW l \in Libs, work'[u] = l PROVE locker'[l] = u
      <3>1. CASE u = UserOf[s]
        <4>1. work'[u] = Elem(s).dir \/ (work'[u] = work[u] /\ l # Elem(s).dir)
          BY <1>3, <2>1, <2>3, <3>1 DEF Outcome
        <4>2. CASE l = Elem(s).dir
          BY <1>2, <2>1, <2>3, <3>1, <4>2 DEF Outcome
        <4>3. CASE l # Elem(s).dir
          BY <1>2, <2>1, <2>3, <3>1, <4>1, <4>3 DEF Outcome
        <4> QED BY <4>2, <4>3
      <3>2. CASE u # UserOf[s]
        <4>1. work[u] = l /\ locker[l] = u /\ u # NOBODY
          BY <2>1, <2>3, <3>2, PathAssumption DEF Outcome
        <4> QED BY <2>1, <3>2, <4>1 DEF Outcome
      <3> QED BY <3>1, <3>2
    <2> QED BY <2>2, <2>3
  <1> QED BY <1>20, <1>21, <1>22, <1>23, <1>24, <1>25, <1>26, <1>27, <1>28, <1>29,
             <1>30, <1>31, <1>32, <1>33, <1>34, <1>35, <1>36, <1>37
          DEF SessionStep, Step, Operation


\* At the library of a draft, only an operation that gives up the lock takes the draft.
LEMMA HitKeeps ==
    ASSUME Types, LockedIsLive, NEW s \in Sessions, AtElement(s), SessionStep(s),
           "query" \notin Faults, pc[s] = "hit", NEW l \in Libs, Elem(s).dir = l,
           locker[l] = UserOf[s], Work(s) = l, work'[UserOf[s]] # l
    PROVE  locker'[l] # UserOf[s]
  <1>1. CASE Operation(s)
    <2>1. Outcome(s)
      BY <1>1, OperationOutcome
    <2> QED BY <2>1 DEF Outcome, Work
  <1>2. CASE UNCHANGED work
    BY <1>2 DEF Work
  <1>3. Operation(s) \/ UNCHANGED work
    BY DEF SessionStep, Step, Operation, Request, Walk, WalkEnds, dmsSearchCellView,
           ReadUnixFile, RefuseReadonly, DeleteUnixFile, DeleteReadonly,
           dmsRmCellView, RmWorkFile, sapiRetire, sapiRmfile, RmDone, idb_url_exists,
           ddGetObj, InstallCopy, CheckInNew, InstallUnlink, InstallLs, InstallRm, Return
  <1> QED BY <1>1, <1>2, <1>3

-----------------------------------------------------------------------------
(* Invariants.                                                               *)

\* The invariant holds at the start: nobody has asked for anything.
LEMMA InitInv == Init => Inv
  <1> SUFFICES ASSUME Init PROVE Inv
    OBVIOUS
  <1>1. Types
    <2>1. vault \in Vaults
      BY DEF Init, Vaults
    <2>2. file \in Files
      BY DEF Init, Files
    <2>3. pc \in Labellings
      BY DEF Init, Labels, Labellings
    <2> QED BY <2>1, <2>2, <2>3
               DEF Init, Types, Lockers, Works, Names, Operations, Elements, Answers
  <1>2. LockedIsLive
    BY DEF Init, LockedIsLive
  <1>3. ASSUME NEW s \in Sessions PROVE AtElement(s) /\ RightOp(s)
    BY DEF Init, AtElement, RightOp, Working, Deleting, Placing, Copying
  <1>4. CopyIsManaged
    BY DEF Init, CopyIsManaged, Data
  <1> QED BY <1>1, <1>2, <1>3, <1>4 DEF Inv

\* A step is one of a session, or of a user whose sessions are idle and which changes
\* his working file only.
LEMMA StepKinds ==
    ASSUME Types, Next
    PROVE  \/ \E s \in Sessions : SessionStep(s)
           \/ \E u \in Users :
                /\ \A s \in Sessions : UserOf[s] = u => pc[s] = "idle"
                /\ UNCHANGED <<vendor, file, pc, locals>>
                /\ work' \in Works
                /\ \A v \in Users \ {u} : work'[v] = work[v]
                /\ work'[u] \in {NoFile, New}
  <1>1. ASSUME NEW u \in Users, UserWrites(u)
        PROVE  /\ work' \in Works
               /\ \A v \in Users \ {u} : work'[v] = work[v]
               /\ work'[u] \in {NoFile, New}
    BY <1>1 DEF UserWrites, Types, Works
  <1> QED BY <1>1 DEF Next, SessionStep, UserWrites

\* Every step keeps the invariant: for the session whose step it is from the lemmas
\* above, for every other because the step is private.
LEMMA InvStep == Inv /\ [Next]_vars => Inv'
  <1> SUFFICES ASSUME Inv, [Next]_vars PROVE Inv'
    OBVIOUS
  <1>0. /\ Types /\ LockedIsLive /\ CopyIsManaged
        /\ \A s \in Sessions : AtElement(s) /\ RightOp(s)
    BY DEF Inv
  <1>1. ASSUME UNCHANGED <<vendor, file, pc, locals>>, work' \in Works PROVE Inv'
    BY <1>0, <1>1
       DEF vendor, locals, Inv, Types, LockedIsLive, Live, AtElement, RightOp,
           CopyIsManaged, Target, Elem
  <1>2. ASSUME NEW s \in Sessions, SessionStep(s) PROVE Inv'
    <2>1. Types' /\ LockedIsLive' /\ Private(s) /\ Stray(s)
      BY <1>0, <1>2, StepTypes, StepLocked, StepPrivate, StepStray
    <2>2. ASSUME NEW t \in Sessions PROVE AtElement(t)' /\ RightOp(t)'
      <3>1. CASE t = s
        BY <1>0, <1>2, <3>1, StepLabels
      <3>2. CASE t # s
        BY <1>0, <2>1, <3>2 DEF Private, AtElement, RightOp, Elem
      <3> QED BY <3>1, <3>2
    <2>3. CopyIsManaged'
      <3> SUFFICES ASSUME NEW l \in Libs, file'[l] = Data, vault'[l] = "none"
                   PROVE  \E t \in Sessions :
                            pc'[t] \in {"checkinNew", "unlink"} /\ Target(t)' = l
        BY DEF CopyIsManaged
      <3>1. CASE pc'[s] \in {"checkinNew", "unlink"} /\ Target(s)' = l
        BY <3>1
      <3>2. CASE /\ file[l] = Data /\ vault[l] = "none"
                 /\ ~(pc[s] \in {"checkinNew", "unlink"} /\ Target(s) = l)
        <4>1. PICK t \in Sessions :
                pc[t] \in {"checkinNew", "unlink"} /\ Target(t) = l
          BY <1>0, <3>2 DEF CopyIsManaged
        <4>2. t # s
          BY <4>1, <3>2
        <4>3. pc'[t] = pc[t] /\ Target(t)' = Target(t)
          BY <4>2, <2>1 DEF Private, Target
        <4> QED BY <4>1, <4>3
      <3> QED BY <2>1, <3>1, <3>2 DEF Stray
    <2> QED BY <2>1, <2>2, <2>3 DEF Inv
  <1>3. CASE UNCHANGED vars
    BY <1>0, <1>1, <1>3 DEF vars, vendor, locals, Types
  <1> QED BY <1>0, <1>1, <1>2, <1>3, StepKinds

\* The invariant holds of every behaviour.
LEMMA Invariant == Spec => []Inv
  BY InitInv, InvStep, PTL DEF Spec

\* With a session per user and every query answered, who deletes has no lock there.
LEMMA DeletersUnlocked ==
    ASSUME OneSession, "query" \notin Faults
    PROVE  Spec => [](\A s \in Sessions : Unlocked(s))
  <1>1. Init => \A s \in Sessions : Unlocked(s)
    BY DEF Init, Unlocked, Deleting
  <1>2. Inv /\ (\A s \in Sessions : Unlocked(s)) /\ [Next]_vars
            => (\A s \in Sessions : Unlocked(s))'
    <2> SUFFICES ASSUME Inv, \A s \in Sessions : Unlocked(s), [Next]_vars,
                        NEW t \in Sessions
                 PROVE  Unlocked(t)'
      OBVIOUS
    <2>0. Types /\ LockedIsLive /\ \A s \in Sessions : AtElement(s)
      BY DEF Inv
    <2>1. CASE UNCHANGED <<vendor, pc, locals>>
      BY <2>1 DEF Unlocked, Elem, vendor, locals
    <2>2. ASSUME NEW s \in Sessions, SessionStep(s) PROVE Unlocked(t)'
      <3>1. CASE t = s
        BY <2>0, <2>2, <3>1, StepUnlocked
      <3>2. CASE t # s
        <4>1. Private(s)
          BY <2>0, <2>2, StepPrivate
        <4>2. UserOf[t] # UserOf[s] /\ UserOf[t] # NOBODY
          BY <3>2, PathAssumption DEF OneSession
        <4>3. Elem(t)' = Elem(t) /\ pc'[t] = pc[t]
          BY <3>2, <4>1 DEF Private, Elem
        <4>4. pc[t] \in Deleting => Elem(t).dir \in Libs
          BY <2>0, PathElements DEF AtElement, Working
        <4> QED BY <4>1, <4>2, <4>3, <4>4 DEF Unlocked, Private
      <3> QED BY <3>1, <3>2
    <2> QED BY <2>0, <2>1, <2>2, StepKinds DEF vars, vendor, locals
  <1> QED BY <1>1, <1>2, Invariant, PTL DEF Spec

-----------------------------------------------------------------------------
(* Results.                                                                  *)

\* Whatever the sessions, the requests and the faults, the variables keep their types,
\* and what is checked out is a live version of its vault.
THEOREM TypeCorrect == Spec => []TypeOK
  BY Invariant, TypeParts, PTL DEF Inv

\* Whatever the sessions and the faults, a create answers its user's worklib, which is
\* so because every request starts with the library's name put back.
THEOREM CreateAlwaysInWorklib == Spec => []CreateInWorklib
  <1>1. Inv => CreateInWorklib
    BY DEF Inv, RightOp, CreateInWorklib
  <1> QED BY <1>1, Invariant, PTL

\* Whatever the sessions and the faults, the data that an install has copied into a
\* library are known to its vault or somebody's install is still at work on them.
THEOREM CopyAlwaysManaged == Spec => []CopyIsManaged
  BY Invariant, PTL DEF Inv

\* With a session per user, and a vendor that does not retire what others have locked,
\* a working copy does not outlive its lock, whatever else fails.
THEOREM PlacedCopyAlwaysHasLock ==
    ASSUME OneSession, "override" \notin Faults
    PROVE  Spec => []PlacedCopyHasLock
  <1> DEFINE J == PlacedCopyHasLock /\ \A s \in Sessions : Emptied(s)
  <1>1. Init => J
    BY PathAssumption DEF Init, PlacedCopyHasLock, Emptied
  <1>2. Inv /\ J /\ [Next]_vars => J'
    <2> SUFFICES ASSUME Inv, J, [Next]_vars PROVE J'
      OBVIOUS
    <2>0. Types /\ LockedIsLive /\ \A s \in Sessions : AtElement(s)
      BY DEF Inv
    <2>1. CASE UNCHANGED vars
      BY <2>1 DEF vars, PlacedCopyHasLock, Emptied, Work
    <2>2. ASSUME NEW s \in Sessions, SessionStep(s) PROVE J'
      <3>1. PlacedCopyHasLock' /\ Emptied(s)'
        BY <2>0, <2>2, StepPlaced
      <3>2. ASSUME NEW t \in Sessions, t # s PROVE Emptied(t)'
        <4>1. Private(s)
          BY <2>0, <2>2, StepPrivate
        <4>2. UserOf[t] # UserOf[s] /\ UserOf[t] \in Users
          BY <3>2, PathAssumption DEF OneSession
        <4>3. pc'[t] = pc[t] /\ work'[UserOf[t]] = work[UserOf[t]]
          BY <3>2, <4>1, <4>2 DEF Private
        <4> QED BY <4>3 DEF Emptied, Work
      <3> QED BY <3>1, <3>2
    <2>3. ASSUME NEW u \in Users,
                 \A s \in Sessions : UserOf[s] = u => pc[s] = "idle",
                 UNCHANGED <<vendor, file, pc, locals>>,
                 \A v \in Users \ {u} : work'[v] = work[v],
                 work'[u] \in {NoFile, New}
          PROVE  J'
      <3>1. PlacedCopyHasLock'
        BY <2>3, PathAssumption DEF PlacedCopyHasLock, vendor
      <3>2. ASSUME NEW s \in Sessions PROVE Emptied(s)'
        <4>1. CASE UserOf[s] = u
          BY <2>3, <4>1 DEF Emptied
        <4>2. CASE UserOf[s] # u
          BY <2>3, <4>2, PathAssumption DEF Emptied, Work
        <4> QED BY <4>1, <4>2
      <3> QED BY <3>1, <3>2
    <2> QED BY <2>0, <2>1, <2>2, <2>3, StepKinds
  <1> QED BY <1>1, <1>2, Invariant, PTL DEF Spec

\* With a session per user, and an answer to every query of the lock, no operation on
\* the library of a draft takes the draft and leaves the lock, whatever else fails and
\* whatever other users do.
THEOREM LockedDraftAlwaysKept ==
    ASSUME OneSession, "query" \notin Faults
    PROVE  Spec => LockedDraftKept
  <1>1. Inv /\ (\A s \in Sessions : Unlocked(s)) /\ [Next]_vars =>
          [\A s \in Sessions, l \in Libs :
            /\ locker[l] = UserOf[s] /\ Work(s) = l /\ work'[UserOf[s]] # l
            /\ pc[s] \in {"hit", "rmWork", "rmDone"} /\ Elem(s).dir = l
            /\ pc'[s] # pc[s]
            => locker'[l] # UserOf[s]]_vars
    <2> SUFFICES ASSUME Inv, \A s \in Sessions : Unlocked(s), Next,
                        NEW s \in Sessions, NEW l \in Libs,
                        locker[l] = UserOf[s], Work(s) = l, work'[UserOf[s]] # l,
                        pc[s] \in {"hit", "rmWork", "rmDone"}, Elem(s).dir = l,
                        pc'[s] # pc[s]
                 PROVE  locker'[l] # UserOf[s]
      OBVIOUS
    <2>0. Types /\ LockedIsLive /\ \A t \in Sessions : AtElement(t)
      BY DEF Inv
    <2>1. PICK t \in Sessions : SessionStep(t)
      BY <2>0, StepKinds
    <2>2. t = s
      BY <2>0, <2>1, StepPrivate DEF Private
    <2>3. pc[s] = "hit"
      BY DEF Unlocked, Deleting
    <2> QED BY <2>0, <2>1, <2>2, <2>3, HitKeeps
  <1> QED BY <1>1, Invariant, DeletersUnlocked, PTL DEF Spec, LockedDraftKept
=============================================================================
