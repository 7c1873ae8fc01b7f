------------------------ MODULE CellViewRefinement ------------------------
(***************************************************************************)
(* What is saved under the lock, from the working file to the version: for *)
(* any users, contents and operations CellView keeps it, publishes it and  *)
(* implements EditSession.  Each user has one session.                     *)
(***************************************************************************)
EXTENDS CellViewProofs

-----------------------------------------------------------------------------
(* A checkout that undoes itself.                                            *)

\* Only a checkout's later calls know that it took the lock; its undo reads the
\* lock as its own, cannot be refused, and ends without the lock.
UndoInv ==
    \A s \in Sessions :
        /\ pc[s] = "idle" => ~took[s]
        /\ op[s] \in {"checkout", "edit"} =>
            /\ pc[s] \in {"coFind", "coExists", "coVendor"} => ~took[s]
            /\ pc[s] = "unRename" => seen[s] = UserOf[s]
            /\ pc[s] # "unRestore"
            /\ pc[s] \in {"unDone", "failed"} /\ took[s] => locker # UserOf[s]

\* A checkout that took the lock and could not place its file ends without the
\* lock, however the copies fail, for as long as the vendor answers and the
\* working directory can be written.
THEOREM FailedCheckoutGivesBack ==
  ASSUME OneSession, Faults \cap {"query", "vendor", "rename"} = {}
  PROVE  Spec => []FailedCheckoutKeepsNoLock
  <1> USE UserAssumption
      DEF TypeOK, CallsOfOp, UndoInv, LockHeld, NeedsLock, Goto, OneSession,
          server, locals
  <1>1. Init => UndoInv
    BY DEF Init
  <1>2. TypeOK /\ CallsOfOp /\ LockHeld /\ UndoInv /\ [Next]_vars => UndoInv'
    <2> SUFFICES ASSUME TypeOK, CallsOfOp, LockHeld, UndoInv, [Next]_vars
                 PROVE  UndoInv'
      OBVIOUS
    <2>1. ASSUME NEW s \in Sessions, Request(s)
          PROVE  UndoInv'
      <3>1. CASE dmsCCheckoutCellView(s)
        BY <3>1 DEF dmsCCheckoutCellView, Begin
      <3>2. CASE dmsCEditCellView(s)
        BY <3>2 DEF dmsCEditCellView, Begin
      <3>3. CASE dmsCCheckinCellView(s)
        BY <3>3 DEF dmsCCheckinCellView, dmsWriteCellView, Begin
      <3>4. CASE dmsCUpdateCellView(s)
        BY <3>4 DEF dmsCUpdateCellView, dmsWriteCellView, Begin
      <3>5. CASE dmsCCancelCheckoutCellView(s)
        BY <3>5 DEF dmsCCancelCheckoutCellView, Begin
      <3>6. CASE dmsCSaveCellView(s)
        BY <3>6 DEF dmsCSaveCellView, Begin
      <3>7. CASE dmsCCreateUnixFile(s)
        BY <3>7 DEF dmsCCreateUnixFile, Begin
      <3>8. QED
        BY <2>1, <3>1, <3>2, <3>3, <3>4, <3>5, <3>6, <3>7 DEF Request
    <2>2. ASSUME NEW s \in Sessions, Step(s)
          PROVE  UndoInv'
      <3>1. CASE CheckOutFind(s)
        BY <3>1 DEF CheckOutFind, LockerSeen
      <3>2. CASE CheckOutExists(s)
        BY <3>2 DEF CheckOutExists
      <3>3. CASE idb_checkout(s)
        BY <3>3 DEF idb_checkout
      <3>4. CASE CheckOutWork(s)
        BY <3>4 DEF CheckOutWork
      <3>5. CASE CheckOutUpdate(s)
        BY <3>5 DEF CheckOutUpdate
      <3>6. CASE CheckOutPlace(s)
        BY <3>6 DEF CheckOutPlace
      <3>7. CASE UnCheckOutFind(s)
        BY <3>7 DEF UnCheckOutFind, LockerSeen
      <3>8. CASE UnCheckOutRename(s)
        BY <3>8 DEF UnCheckOutRename
      <3>9. CASE idb_cancel_checkout(s)
        BY <3>9 DEF idb_cancel_checkout
      <3>10. CASE UnCheckOutDone(s)
        BY <3>10 DEF UnCheckOutDone
      <3>11. CASE UnCheckOutRestore(s)
        BY <3>11 DEF UnCheckOutRestore
      <3>12. CASE CheckInFind(s)
        BY <3>12 DEF CheckInFind, LockerSeen
      <3>13. CASE CheckInCopy(s)
        BY <3>13 DEF CheckInCopy
      <3>14. CASE CheckInCopyFails(s)
        BY <3>14 DEF CheckInCopyFails
      <3>15. CASE CheckInRollback(s)
        BY <3>15 DEF CheckInRollback
      <3>16. CASE idb_checkin(s)
        BY <3>16 DEF idb_checkin
      <3>17. CASE CheckInClean(s)
        BY <3>17 DEF CheckInClean
      <3>18. CASE osCreateFile(s)
        BY <3>18 DEF osCreateFile
      <3>19. CASE Return(s)
        BY <3>19 DEF Return
      <3>20. QED
        BY <2>2, <3>1, <3>2, <3>3, <3>4, <3>5, <3>6, <3>7, <3>8, <3>9, <3>10,
           <3>11, <3>12, <3>13, <3>14, <3>15, <3>16, <3>17, <3>18,
           <3>19 DEF Step
    <2>3. ASSUME NEW s \in Sessions, ApplicationWrites(s)
          PROVE  UndoInv'
      BY <2>3 DEF ApplicationWrites
    <2>4. ASSUME NEW s \in Sessions, terminateHandler(s)
          PROVE  UndoInv'
      BY <2>4 DEF terminateHandler
    <2>5. ASSUME NEW u \in Users, UserRemovesCopy(u)
          PROVE  UndoInv'
      BY <2>5 DEF UserRemovesCopy
    <2>6. CASE UNCHANGED vars
      BY <2>6 DEF vars
    <2>7. QED
      BY <2>1, <2>2, <2>3, <2>4, <2>5, <2>6 DEF Next
  <1>3. Spec => []LockInv
    BY LockInvAlways
  <1>4. LockInv => CallsOfOp /\ LockHeld
    BY DEF LockInv
  <1>5. UndoInv => FailedCheckoutKeepsNoLock
    BY DEF FailedCheckoutKeepsNoLock
  <1>6. QED
    BY <1>1, <1>2, <1>3, <1>4, <1>5, TypeCorrect, PTL DEF Spec

-----------------------------------------------------------------------------
(* The file a checkout hands out.                                            *)

\* From the vendor's checkout to the answer the library has the latest version,
\* the lock is the caller's, and the place for the file is empty or filled from
\* the library.
LatestInv ==
    \A s \in Sessions :
        /\ pc[s] = "idle" => ~took[s]
        /\ op[s] \in {"checkout", "edit"} =>
            /\ pc[s] \in {"coFind", "coExists", "coVendor"} => ~took[s]
            /\ pc[s] \in {"coWork", "coPlace", "ok"} /\ took[s] =>
                    locker = UserOf[s] /\ lib = vault
            /\ pc[s] \in {"coWork", "coPlace"} /\ took[s] =>
                    work[UserOf[s]] = NoFile
            /\ pc[s] = "ok" /\ took[s] => WorkData(UserOf[s]) = vault

\* A checkout that took the lock hands out the latest version, though it looks
\* for old copies before the vendor gives it the lock and fetches the file after:
\* nobody publishes in between, and no older copy shows through.
THEOREM CheckoutAlwaysLatest ==
  ASSUME OneSession, "copy" \notin Faults
  PROVE  Spec => []CheckoutIsLatest
  <1> USE UserAssumption, FileAssumption
      DEF TypeOK, LibPresent, CallsOfOp, LatestInv, CheckoutFresh, LockHeld,
          NeedsLock, Goto, OneSession, server, workFiles, libFiles, locals,
          osFileExists, WorkData, FileData, WorkFile
  <1>1. Init => LatestInv
    BY DEF Init
  <1>2. TypeOK /\ LibPresent /\ CallsOfOp /\ LockHeld /\ CheckoutFresh
        /\ LatestInv /\ [Next]_vars => LatestInv'
    <2> SUFFICES ASSUME TypeOK, LibPresent, CallsOfOp, LockHeld, CheckoutFresh,
                        LatestInv, [Next]_vars
                 PROVE  LatestInv'
      OBVIOUS
    <2>1. ASSUME NEW s \in Sessions, Request(s)
          PROVE  LatestInv'
      <3>1. CASE dmsCCheckoutCellView(s)
        BY <3>1 DEF dmsCCheckoutCellView, Begin
      <3>2. CASE dmsCEditCellView(s)
        BY <3>2 DEF dmsCEditCellView, Begin
      <3>3. CASE dmsCCheckinCellView(s)
        BY <3>3 DEF dmsCCheckinCellView, dmsWriteCellView, Begin
      <3>4. CASE dmsCUpdateCellView(s)
        BY <3>4 DEF dmsCUpdateCellView, dmsWriteCellView, Begin
      <3>5. CASE dmsCCancelCheckoutCellView(s)
        BY <3>5 DEF dmsCCancelCheckoutCellView, Begin
      <3>6. CASE dmsCSaveCellView(s)
        BY <3>6 DEF dmsCSaveCellView, Begin
      <3>7. CASE dmsCCreateUnixFile(s)
        BY <3>7 DEF dmsCCreateUnixFile, Begin
      <3>8. QED
        BY <2>1, <3>1, <3>2, <3>3, <3>4, <3>5, <3>6, <3>7 DEF Request
    <2>2. ASSUME NEW s \in Sessions, Step(s)
          PROVE  LatestInv'
      <3>1. CASE CheckOutFind(s)
        BY <3>1 DEF CheckOutFind
      <3>2. CASE CheckOutExists(s)
        BY <3>2 DEF CheckOutExists
      <3>3. CASE idb_checkout(s)
        BY <3>3 DEF idb_checkout
      <3>4. CASE CheckOutWork(s)
        BY <3>4 DEF CheckOutWork
      <3>5. CASE CheckOutUpdate(s)
        BY <3>5 DEF CheckOutUpdate
      <3>6. CASE CheckOutPlace(s)
        BY <3>6 DEF CheckOutPlace
      <3>7. CASE UnCheckOutFind(s)
        BY <3>7 DEF UnCheckOutFind
      <3>8. CASE UnCheckOutRename(s)
        BY <3>8 DEF UnCheckOutRename
      <3>9. CASE idb_cancel_checkout(s)
        BY <3>9 DEF idb_cancel_checkout
      <3>10. CASE UnCheckOutDone(s)
        BY <3>10 DEF UnCheckOutDone
      <3>11. CASE UnCheckOutRestore(s)
        BY <3>11 DEF UnCheckOutRestore
      <3>12. CASE CheckInFind(s)
        BY <3>12 DEF CheckInFind
      <3>13. CASE CheckInCopy(s)
        BY <3>13 DEF CheckInCopy
      <3>14. CASE CheckInCopyFails(s)
        BY <3>14 DEF CheckInCopyFails
      <3>15. CASE CheckInRollback(s)
        BY <3>15 DEF CheckInRollback
      <3>16. CASE idb_checkin(s)
        BY <3>16 DEF idb_checkin
      <3>17. CASE CheckInClean(s)
        BY <3>17 DEF CheckInClean
      <3>18. CASE osCreateFile(s)
        BY <3>18 DEF osCreateFile
      <3>19. CASE Return(s)
        BY <3>19 DEF Return
      <3>20. QED
        BY <2>2, <3>1, <3>2, <3>3, <3>4, <3>5, <3>6, <3>7, <3>8, <3>9, <3>10,
           <3>11, <3>12, <3>13, <3>14, <3>15, <3>16, <3>17, <3>18,
           <3>19 DEF Step
    <2>3. ASSUME NEW s \in Sessions, ApplicationWrites(s)
          PROVE  LatestInv'
      BY <2>3 DEF ApplicationWrites
    <2>4. ASSUME NEW s \in Sessions, terminateHandler(s)
          PROVE  LatestInv'
      BY <2>4 DEF terminateHandler
    <2>5. ASSUME NEW u \in Users, UserRemovesCopy(u)
          PROVE  LatestInv'
      BY <2>5 DEF UserRemovesCopy
    <2>6. CASE UNCHANGED vars
      BY <2>6 DEF vars
    <2>7. QED
      BY <2>1, <2>2, <2>3, <2>4, <2>5, <2>6 DEF Next
  <1>3. Spec => []LibPresent
    BY LibPresentAlways
  <1>4. Spec => []LockInv
    BY LockInvAlways
  <1>5. LockInv => CallsOfOp /\ LockHeld
    BY DEF LockInv
  <1>6. Spec => []CheckoutFresh
    BY CheckoutFreshAlways
  <1>7. LatestInv => CheckoutIsLatest
    BY DEF CheckoutIsLatest
  <1>8. QED
    BY <1>1, <1>2, <1>3, <1>4, <1>5, <1>6, <1>7, TypeCorrect, PTL DEF Spec

-----------------------------------------------------------------------------
(* The version a checkin makes.                                              *)

\* When the vendor reads the library's file it holds what the working file does:
\* after the child's copy, or, in an update, since the copy before.
PublishInv ==
    \A s \in Sessions :
        /\ pc[s] = "idle" => fpn[s] = "lib"
        /\ pc[s] = "coUpdate" => op[s] = "update" /\ work[UserOf[s]] # NoFile
        /\ pc[s] = "ciFind" /\ fpn[s] = "work" => op[s] = "update"
        /\ \/ pc[s] = "ciVendor"
           \/ pc[s] \in {"ciFind", "ciCopy"} /\ fpn[s] = "work"
           => lib = WorkData(UserOf[s])

\* PublishInv holds when no copy fails.
LEMMA PublishInvAlways ==
  ASSUME OneSession, "copy" \notin Faults
  PROVE  Spec => []PublishInv
  <1> USE UserAssumption, FileAssumption
      DEF TypeOK, LibPresent, PublishInv, LockHeld, NeedsLock, Goto,
          OneSession, server, workFiles, libFiles, locals,
          osFileExists, WorkData, FileData, WorkFile
  <1>1. Init => PublishInv
    BY DEF Init
  <1>2. TypeOK /\ LibPresent /\ LockHeld /\ PublishInv /\ [Next]_vars
        => PublishInv'
    <2> SUFFICES ASSUME TypeOK, LibPresent, LockHeld, PublishInv, [Next]_vars
                 PROVE  PublishInv'
      OBVIOUS
    <2>1. ASSUME NEW s \in Sessions, Request(s)
          PROVE  PublishInv'
      <3>1. CASE dmsCCheckoutCellView(s)
        BY <3>1 DEF dmsCCheckoutCellView, Begin
      <3>2. CASE dmsCEditCellView(s)
        BY <3>2 DEF dmsCEditCellView, Begin
      <3>3. CASE dmsCCheckinCellView(s)
        BY <3>3 DEF dmsCCheckinCellView, dmsWriteCellView, Begin
      <3>4. CASE dmsCUpdateCellView(s)
        BY <3>4 DEF dmsCUpdateCellView, dmsWriteCellView, Begin
      <3>5. CASE dmsCCancelCheckoutCellView(s)
        BY <3>5 DEF dmsCCancelCheckoutCellView, Begin
      <3>6. CASE dmsCSaveCellView(s)
        BY <3>6 DEF dmsCSaveCellView, Begin
      <3>7. CASE dmsCCreateUnixFile(s)
        BY <3>7 DEF dmsCCreateUnixFile, Begin
      <3>8. QED
        BY <2>1, <3>1, <3>2, <3>3, <3>4, <3>5, <3>6, <3>7 DEF Request
    <2>2. ASSUME NEW s \in Sessions, Step(s)
          PROVE  PublishInv'
      <3>1. CASE CheckOutFind(s)
        BY <3>1 DEF CheckOutFind
      <3>2. CASE CheckOutExists(s)
        BY <3>2 DEF CheckOutExists
      <3>3. CASE idb_checkout(s)
        BY <3>3 DEF idb_checkout
      <3>4. CASE CheckOutWork(s)
        BY <3>4 DEF CheckOutWork
      <3>5. CASE CheckOutUpdate(s)
        BY <3>5 DEF CheckOutUpdate
      <3>6. CASE CheckOutPlace(s)
        BY <3>6 DEF CheckOutPlace
      <3>7. CASE UnCheckOutFind(s)
        BY <3>7 DEF UnCheckOutFind
      <3>8. CASE UnCheckOutRename(s)
        BY <3>8 DEF UnCheckOutRename
      <3>9. CASE idb_cancel_checkout(s)
        BY <3>9 DEF idb_cancel_checkout
      <3>10. CASE UnCheckOutDone(s)
        BY <3>10 DEF UnCheckOutDone
      <3>11. CASE UnCheckOutRestore(s)
        BY <3>11 DEF UnCheckOutRestore
      <3>12. CASE CheckInFind(s)
        BY <3>12 DEF CheckInFind
      <3>13. CASE CheckInCopy(s)
        BY <3>13 DEF CheckInCopy, CanCopy, SameFile
      <3>14. CASE CheckInCopyFails(s)
        BY <3>14 DEF CheckInCopyFails
      <3>15. CASE CheckInRollback(s)
        BY <3>15 DEF CheckInRollback
      <3>16. CASE idb_checkin(s)
        BY <3>16 DEF idb_checkin
      <3>17. CASE CheckInClean(s)
        BY <3>17 DEF CheckInClean
      <3>18. CASE osCreateFile(s)
        BY <3>18 DEF osCreateFile
      <3>19. CASE Return(s)
        BY <3>19 DEF Return
      <3>20. QED
        BY <2>2, <3>1, <3>2, <3>3, <3>4, <3>5, <3>6, <3>7, <3>8, <3>9, <3>10,
           <3>11, <3>12, <3>13, <3>14, <3>15, <3>16, <3>17, <3>18,
           <3>19 DEF Step
    <2>3. ASSUME NEW s \in Sessions, ApplicationWrites(s)
          PROVE  PublishInv'
      BY <2>3 DEF ApplicationWrites
    <2>4. ASSUME NEW s \in Sessions, terminateHandler(s)
          PROVE  PublishInv'
      BY <2>4 DEF terminateHandler
    <2>5. ASSUME NEW u \in Users, UserRemovesCopy(u)
          PROVE  PublishInv'
      BY <2>5 DEF UserRemovesCopy
    <2>6. CASE UNCHANGED vars
      BY <2>6 DEF vars
    <2>7. QED
      BY <2>1, <2>2, <2>3, <2>4, <2>5, <2>6 DEF Next
  <1>3. Spec => []LibPresent
    BY LibPresentAlways
  <1>4. Spec => []LockHeld
    BY LockHeldAlways
  <1>5. QED
    BY <1>1, <1>2, <1>3, <1>4, TypeCorrect, PTL DEF Spec

\* Only the vendor's checkin takes a session from the one call to the other.
LEMMA OnlyCheckInPublishes ==
  ASSUME TypeOK, [Next]_vars, NEW s \in Sessions,
         pc[s] = "ciVendor", pc'[s] = "ciClean"
  PROVE  idb_checkin(s) /\ vault' = lib
  <1> USE DEF TypeOK, Goto, Begin
  <1>1. ASSUME NEW t \in Sessions, Request(t)
        PROVE  FALSE
    BY <1>1 DEF Request, dmsCCheckoutCellView, dmsCEditCellView,
       dmsCCheckinCellView, dmsCUpdateCellView, dmsWriteCellView,
       dmsCCancelCheckoutCellView, dmsCSaveCellView, dmsCCreateUnixFile
  <1>2. ASSUME NEW t \in Sessions, Step(t)
        PROVE  t = s /\ idb_checkin(s)
    <2>1. t = s
      BY <1>2 DEF Step, CheckOutFind, CheckOutExists, idb_checkout, CheckOutWork,
         CheckOutUpdate, CheckOutPlace, UnCheckOutFind, UnCheckOutRename,
         idb_cancel_checkout, UnCheckOutDone, UnCheckOutRestore, CheckInFind,
         CheckInCopy, CheckInCopyFails, CheckInRollback, idb_checkin,
         CheckInClean, osCreateFile, Return
    <2>2. QED
      BY <1>2, <2>1 DEF Step, CheckOutFind, CheckOutExists, idb_checkout,
         CheckOutWork, CheckOutUpdate, CheckOutPlace, UnCheckOutFind,
         UnCheckOutRename, idb_cancel_checkout, UnCheckOutDone,
         UnCheckOutRestore, CheckInFind, CheckInCopy, CheckInCopyFails,
         CheckInRollback, CheckInClean, osCreateFile, Return
  <1>3. ASSUME NEW t \in Sessions, ApplicationWrites(t) \/ terminateHandler(t)
        PROVE  FALSE
    BY <1>3 DEF ApplicationWrites, terminateHandler
  <1>4. ASSUME NEW u \in Users, UserRemovesCopy(u)
        PROVE  FALSE
    BY <1>4 DEF UserRemovesCopy
  <1>5. CASE UNCHANGED vars
    BY <1>5 DEF vars
  <1>6. idb_checkin(s)
    BY <1>1, <1>2, <1>3, <1>4, <1>5 DEF Next
  <1>7. QED
    BY <1>6 DEF idb_checkin

\* What a checkin or an update publishes is the file at the caller's working path,
\* through the copy to the library, the vendor's reading of it and whatever the
\* others do between: unless copies fail.
THEOREM AlwaysPublishesWorkCopy ==
  ASSUME OneSession, "copy" \notin Faults
  PROVE  Spec => PublishesWorkCopy
  <1> DEFINE A == \A s \in Sessions :
                    pc[s] = "ciVendor" /\ pc'[s] = "ciClean" =>
                        vault' = WorkData(UserOf[s])
  <1>1. TypeOK /\ PublishInv /\ [Next]_vars => [A]_vars
    BY OnlyCheckInPublishes DEF PublishInv
  <1>2. Spec => []PublishInv
    BY PublishInvAlways
  <1>3. QED
    BY <1>1, <1>2, TypeCorrect, PTL DEF Spec, PublishesWorkCopy

-----------------------------------------------------------------------------
(* What was saved.                                                           *)

\* A user who has saved something holds the lock and finds it at his working path,
\* also in the middle of an operation; the calls that move or overwrite the
\* working file are made when there is nothing saved.
DraftInv ==
    /\ \A u \in Users : draft[u] # NoFile =>
            locker = u /\ WorkData(u) = draft[u]
    /\ \A s \in Sessions :
        pc[s] \in {"coExists", "coVendor", "coPlace", "unFind", "unRename",
                   "unVendor", "unDone", "unRestore", "create", "ciRollback",
                   "ciClean"} => draft[UserOf[s]] = NoFile

\* DraftInv holds when no copy fails and the vendor answers who has the lock.
LEMMA DraftInvAlways ==
  ASSUME OneSession, Faults \cap {"query", "copy"} = {}
  PROVE  Spec => []DraftInv
  <1> USE UserAssumption, FileAssumption
      DEF TypeOK, LibPresent, DraftInv, LockHeld, NeedsLock, Goto,
          OneSession, server, workFiles, libFiles, locals,
          osFileExists, WorkData, FileData, WorkFile
  <1>1. Init => DraftInv
    BY DEF Init
  <1>2. TypeOK /\ LibPresent /\ LockHeld /\ DraftInv /\ [Next]_vars
        => DraftInv'
    <2> SUFFICES ASSUME TypeOK, LibPresent, LockHeld, DraftInv, [Next]_vars
                 PROVE  DraftInv'
      OBVIOUS
    <2>1. ASSUME NEW s \in Sessions, Request(s)
          PROVE  DraftInv'
      <3>1. CASE dmsCCheckoutCellView(s)
        BY <3>1 DEF dmsCCheckoutCellView, Begin
      <3>2. CASE dmsCEditCellView(s)
        BY <3>2 DEF dmsCEditCellView, Begin
      <3>3. CASE dmsCCheckinCellView(s)
        BY <3>3 DEF dmsCCheckinCellView, dmsWriteCellView, Begin
      <3>4. CASE dmsCUpdateCellView(s)
        BY <3>4 DEF dmsCUpdateCellView, dmsWriteCellView, Begin
      <3>5. CASE dmsCCancelCheckoutCellView(s)
        BY <3>5 DEF dmsCCancelCheckoutCellView, Begin
      <3>6. CASE dmsCSaveCellView(s)
        BY <3>6 DEF dmsCSaveCellView, Begin
      <3>7. CASE dmsCCreateUnixFile(s)
        BY <3>7 DEF dmsCCreateUnixFile, Begin
      <3>8. QED
        BY <2>1, <3>1, <3>2, <3>3, <3>4, <3>5, <3>6, <3>7 DEF Request
    <2>2. ASSUME NEW s \in Sessions, Step(s)
          PROVE  DraftInv'
      <3>1. CASE CheckOutFind(s)
        BY <3>1 DEF CheckOutFind, LockerSeen
      <3>2. CASE CheckOutExists(s)
        BY <3>2 DEF CheckOutExists
      <3>3. CASE idb_checkout(s)
        BY <3>3 DEF idb_checkout
      <3>4. CASE CheckOutWork(s)
        BY <3>4 DEF CheckOutWork
      <3>5. CASE CheckOutUpdate(s)
        BY <3>5 DEF CheckOutUpdate
      <3>6. CASE CheckOutPlace(s)
        BY <3>6 DEF CheckOutPlace
      <3>7. CASE UnCheckOutFind(s)
        BY <3>7 DEF UnCheckOutFind
      <3>8. CASE UnCheckOutRename(s)
        BY <3>8 DEF UnCheckOutRename
      <3>9. CASE idb_cancel_checkout(s)
        BY <3>9 DEF idb_cancel_checkout
      <3>10. CASE UnCheckOutDone(s)
        BY <3>10 DEF UnCheckOutDone
      <3>11. CASE UnCheckOutRestore(s)
        BY <3>11 DEF UnCheckOutRestore
      <3>12. CASE CheckInFind(s)
        BY <3>12 DEF CheckInFind
      <3>13. CASE CheckInCopy(s)
        BY <3>13 DEF CheckInCopy, CanCopy, SameFile
      <3>14. CASE CheckInCopyFails(s)
        BY <3>14 DEF CheckInCopyFails, CanCopy
      <3>15. CASE CheckInRollback(s)
        BY <3>15 DEF CheckInRollback
      <3>16. CASE idb_checkin(s)
        BY <3>16 DEF idb_checkin
      <3>17. CASE CheckInClean(s)
        BY <3>17 DEF CheckInClean
      <3>18. CASE osCreateFile(s)
        BY <3>18 DEF osCreateFile
      <3>19. CASE Return(s)
        BY <3>19 DEF Return
      <3>20. QED
        BY <2>2, <3>1, <3>2, <3>3, <3>4, <3>5, <3>6, <3>7, <3>8, <3>9, <3>10,
           <3>11, <3>12, <3>13, <3>14, <3>15, <3>16, <3>17, <3>18,
           <3>19 DEF Step
    <2>3. ASSUME NEW s \in Sessions, ApplicationWrites(s)
          PROVE  DraftInv'
      BY <2>3 DEF ApplicationWrites
    <2>4. ASSUME NEW s \in Sessions, terminateHandler(s)
          PROVE  DraftInv'
      BY <2>4 DEF terminateHandler
    <2>5. ASSUME NEW u \in Users, UserRemovesCopy(u)
          PROVE  DraftInv'
      BY <2>5 DEF UserRemovesCopy
    <2>6. CASE UNCHANGED vars
      BY <2>6 DEF vars
    <2>7. QED
      BY <2>1, <2>2, <2>3, <2>4, <2>5, <2>6 DEF Next
  <1>3. Spec => []LibPresent
    BY LibPresentAlways
  <1>4. Spec => []LockHeld
    BY LockHeldAlways
  <1>5. QED
    BY <1>1, <1>2, <1>3, <1>4, TypeCorrect, PTL DEF Spec

\* Refused checkins and cancels, renames that fail and processes that are killed
\* between any two calls leave what a user saved where he saved it.
THEOREM DraftAlwaysInPlace ==
  ASSUME OneSession, Faults \cap {"query", "copy"} = {}
  PROVE  Spec => []DraftInPlace
  <1>1. DraftInv => DraftInPlace
    BY DEF DraftInv, DraftInPlace
  <1>2. Spec => []DraftInv
    BY DraftInvAlways
  <1>3. QED
    BY <1>1, <1>2, PTL

-----------------------------------------------------------------------------
(* The abstract specification.                                               *)

\* With one session per user, copies that do not fail and lock queries that are
\* answered, the operations, their refused vendor calls, failed renames and kills
\* between the calls amount to EditSession: the lock passes from nobody to one user,
\* only its holder saves, what he publishes is what he saved last, and the lock is not
\* given up before it.  Without one of the three it fails (see the README).
THEOREM RefinesEditSession ==
  ASSUME OneSession, Faults \cap {"query", "copy"} = {}
  PROVE  Spec => ImplementsEditSession
  <1> USE UserAssumption, FileAssumption
      DEF server, libFiles, workFiles, locals, Goto, Abstract!vars
  <1> DEFINE Versions == Contents \cup {Torn}
             Goal == [Abstract!Next]_(Abstract!vars)
  <1>1. Init => Abstract!Init
    BY DEF Init, Abstract!Init
  <1>2. TypeOK /\ LockHeld /\ PublishInv /\ DraftInv /\ [Next]_vars => Goal
    <2> SUFFICES ASSUME TypeOK, LockHeld, PublishInv, DraftInv, [Next]_vars
                 PROVE  Goal
      OBVIOUS
    <2> USE DEF Abstract!Next
    <2>1. ASSUME NEW s \in Sessions, Request(s)
          PROVE  Goal
      <3>1. CASE dmsCCheckoutCellView(s)
        BY <3>1 DEF dmsCCheckoutCellView, Begin
      <3>2. CASE dmsCEditCellView(s)
        BY <3>2 DEF dmsCEditCellView, Begin
      <3>3. CASE dmsCCheckinCellView(s)
        BY <3>3 DEF dmsCCheckinCellView, dmsWriteCellView, Begin
      <3>4. CASE dmsCUpdateCellView(s)
        BY <3>4 DEF dmsCUpdateCellView, dmsWriteCellView, Begin
      <3>5. CASE dmsCCancelCheckoutCellView(s)
        <4>1. Abstract!Discard(UserOf[s])
          BY <3>5 DEF dmsCCancelCheckoutCellView, Abstract!Discard
        <4>2. QED
          BY <4>1
      <3>6. CASE dmsCSaveCellView(s)
        BY <3>6 DEF dmsCSaveCellView, Begin
      <3>7. CASE dmsCCreateUnixFile(s)
        BY <3>7 DEF dmsCCreateUnixFile, Begin
      <3>8. QED
        BY <2>1, <3>1, <3>2, <3>3, <3>4, <3>5, <3>6, <3>7 DEF Request
    <2>2. ASSUME NEW s \in Sessions, Step(s)
          PROVE  Goal
      <3>1. CASE CheckOutFind(s)
        BY <3>1 DEF CheckOutFind
      <3>2. CASE CheckOutExists(s)
        BY <3>2 DEF CheckOutExists
      <3>3. CASE idb_checkout(s)
        <4>1. CASE locker = NOBODY /\ locker' = UserOf[s]
          <5>1. Abstract!Lock(UserOf[s])
            BY <3>3, <4>1 DEF idb_checkout, Abstract!Lock
          <5>2. QED
            BY <5>1
        <4>2. CASE locker' = locker
          BY <3>3, <4>2 DEF idb_checkout
        <4>3. QED
          BY <3>3, <4>1, <4>2 DEF idb_checkout
      <3>4. CASE CheckOutWork(s)
        BY <3>4 DEF CheckOutWork
      <3>5. CASE CheckOutUpdate(s)
        BY <3>5 DEF CheckOutUpdate
      <3>6. CASE CheckOutPlace(s)
        BY <3>6 DEF CheckOutPlace
      <3>7. CASE UnCheckOutFind(s)
        BY <3>7 DEF UnCheckOutFind
      <3>8. CASE UnCheckOutRename(s)
        BY <3>8 DEF UnCheckOutRename
      <3>9. CASE idb_cancel_checkout(s)
        <4>1. CASE locker' = locker
          BY <3>9, <4>1 DEF idb_cancel_checkout
        <4>2. CASE locker = UserOf[s] /\ locker' = NOBODY
          <5>1. draft[UserOf[s]] = NoFile
            BY <3>9 DEF idb_cancel_checkout, DraftInv
          <5>2. Abstract!Unlock(UserOf[s])
            BY <3>9, <4>2, <5>1 DEF idb_cancel_checkout, Abstract!Unlock
          <5>3. QED
            BY <5>2
        <4>3. QED
          BY <3>9, <4>1, <4>2 DEF idb_cancel_checkout
      <3>10. CASE UnCheckOutDone(s)
        BY <3>10 DEF UnCheckOutDone
      <3>11. CASE UnCheckOutRestore(s)
        BY <3>11 DEF UnCheckOutRestore
      <3>12. CASE CheckInFind(s)
        BY <3>12 DEF CheckInFind
      <3>13. CASE CheckInCopy(s)
        BY <3>13 DEF CheckInCopy
      <3>14. CASE CheckInCopyFails(s)
        BY <3>14 DEF CheckInCopyFails
      <3>15. CASE CheckInRollback(s)
        BY <3>15 DEF CheckInRollback
      <3>16. CASE idb_checkin(s)
        <4>1. CASE UNCHANGED <<server, draft>>
          BY <4>1
        <4>2. CASE /\ lib # NoFile /\ vault' = lib /\ locker' = NOBODY
                   /\ draft' = [draft EXCEPT ![UserOf[s]] = NoFile]
          <5>1. locker = UserOf[s] /\ lib = WorkData(UserOf[s])
            BY <3>16 DEF idb_checkin, LockHeld, NeedsLock, PublishInv
          <5>2. draft[UserOf[s]] # NoFile => lib = draft[UserOf[s]]
            BY <5>1 DEF DraftInv
          <5>3. lib \in Versions
            BY <4>2 DEF TypeOK, FileData
          <5>4. Abstract!Publish(UserOf[s], lib)
            BY <4>2, <5>1, <5>2 DEF Abstract!Publish
          <5>5. QED
            BY <5>3, <5>4
        <4>3. QED
          BY <3>16, <4>1, <4>2 DEF idb_checkin
      <3>17. CASE CheckInClean(s)
        BY <3>17 DEF CheckInClean
      <3>18. CASE osCreateFile(s)
        BY <3>18 DEF osCreateFile
      <3>19. CASE Return(s)
        BY <3>19 DEF Return
      <3>20. QED
        BY <2>2, <3>1, <3>2, <3>3, <3>4, <3>5, <3>6, <3>7, <3>8, <3>9, <3>10,
           <3>11, <3>12, <3>13, <3>14, <3>15, <3>16, <3>17, <3>18,
           <3>19 DEF Step
    <2>3. ASSUME NEW s \in Sessions, ApplicationWrites(s)
          PROVE  Goal
      <3>1. CASE draft' = draft
        BY <2>3, <3>1 DEF ApplicationWrites
      <3>2. CASE locker = UserOf[s]
                 /\ \E d \in Contents : draft' = [draft EXCEPT ![UserOf[s]] = d]
        <4>1. PICK d \in Contents : draft' = [draft EXCEPT ![UserOf[s]] = d]
          BY <3>2
        <4>2. Abstract!Save(UserOf[s], d)
          BY <2>3, <3>2, <4>1 DEF ApplicationWrites, Abstract!Save
        <4>3. QED
          BY <4>2
      <3>3. QED
        BY <2>3, <3>1, <3>2 DEF ApplicationWrites
    <2>4. ASSUME NEW s \in Sessions, terminateHandler(s)
          PROVE  Goal
      BY <2>4 DEF terminateHandler
    <2>5. ASSUME NEW u \in Users, UserRemovesCopy(u)
          PROVE  Goal
      <3>1. Abstract!Discard(u)
        BY <2>5 DEF UserRemovesCopy, Abstract!Discard
      <3>2. QED
        BY <3>1
    <2>6. CASE UNCHANGED vars
      BY <2>6 DEF vars
    <2>7. QED
      BY <2>1, <2>2, <2>3, <2>4, <2>5, <2>6 DEF Next
  <1>3. Spec => []LockHeld
    BY LockHeldAlways
  <1>4. Spec => []PublishInv
    BY PublishInvAlways
  <1>5. Spec => []DraftInv
    BY DraftInvAlways
  <1>6. QED
    BY <1>1, <1>2, <1>3, <1>4, <1>5, TypeCorrect, PTL
       DEF Spec, ImplementsEditSession, Abstract!Spec
=============================================================================
