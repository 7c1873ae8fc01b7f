--------------------------- MODULE CellViewProofs ---------------------------
(***************************************************************************)
(* What holds of CellView for any users, sessions, contents and faults.    *)
(***************************************************************************)
EXTENDS CellView, TLAPS

\* The types of the variables, whatever the operations do and whatever fails:
\* above all, no copy puts a link in the library, which is what makes reading
\* through a link well defined.
THEOREM TypeCorrect == Spec => []TypeOK
  <1> USE UserAssumption, FileAssumption
      DEF TypeOK, Goto, server, libFiles, workFiles, locals, FileData,
          WorkFile, Labels, Ops
  <1>1. Init => TypeOK
    BY DEF Init
  <1>2. TypeOK /\ [Next]_vars => TypeOK'
    <2> SUFFICES ASSUME TypeOK, [Next]_vars
                 PROVE  TypeOK'
      OBVIOUS
    <2>1. ASSUME NEW s \in Sessions, Request(s)
          PROVE  TypeOK'
      <3>1. CASE dmsCCheckoutCellView(s)
        BY <3>1 DEF dmsCCheckoutCellView, Begin
      <3>2. CASE dmsCEditCellView(s)
        BY <3>2 DEF dmsCEditCellView, Begin
      <3>3. CASE dmsCCheckinCellView(s)
        BY <3>3 DEF dmsCCheckinCellView, dmsWriteCellView, Begin
      <3>4. CASE dmsCUpdateCellView(s)
        BY <3>4 DEF dmsCUpdateCellView, dmsWriteCellView, Begin
      <3>5. CASE dmsCCancelCheckoutCellView(s)
        BY <3>5 DEF dmsCCancelCheckoutCellView, Begin
      <3>6. CASE dmsCSaveCellView(s)
        BY <3>6 DEF dmsCSaveCellView, Begin
      <3>7. CASE dmsCCreateUnixFile(s)
        BY <3>7 DEF dmsCCreateUnixFile, Begin
      <3>8. QED
        BY <2>1, <3>1, <3>2, <3>3, <3>4, <3>5, <3>6, <3>7 DEF Request
    <2>2. ASSUME NEW s \in Sessions, Step(s)
          PROVE  TypeOK'
      <3>1. CASE CheckOutFind(s)
        BY <3>1 DEF CheckOutFind, LockerSeen
      <3>2. CASE CheckOutExists(s)
        BY <3>2 DEF CheckOutExists
      <3>3. CASE idb_checkout(s)
        <4>1. locker' \in Users \cup {NOBODY} /\ lib' \in FileData
          BY <3>3 DEF idb_checkout
        <4>2. took' \in [Sessions -> BOOLEAN]
          <5>1. took' = took \/ took' = [took EXCEPT ![s] = (locker = NOBODY)]
            BY <3>3 DEF idb_checkout
          <5>2. (locker = NOBODY) \in BOOLEAN
            OBVIOUS
          <5>3. QED
            BY <5>1, <5>2
        <4>3. pc' \in [Sessions -> Labels]
          BY <3>3 DEF idb_checkout
        <4>4. QED
          BY <3>3, <4>1, <4>2, <4>3 DEF idb_checkout
      <3>4. CASE CheckOutWork(s)
        BY <3>4 DEF CheckOutWork
      <3>5. CASE CheckOutUpdate(s)
        BY <3>5 DEF CheckOutUpdate
      <3>6. CASE CheckOutPlace(s)
        BY <3>6 DEF CheckOutPlace
      <3>7. CASE UnCheckOutFind(s)
        BY <3>7 DEF UnCheckOutFind, LockerSeen
      <3>8. CASE UnCheckOutRename(s)
        BY <3>8 DEF UnCheckOutRename
      <3>9. CASE idb_cancel_checkout(s)
        BY <3>9 DEF idb_cancel_checkout
      <3>10. CASE UnCheckOutDone(s)
        BY <3>10 DEF UnCheckOutDone
      <3>11. CASE UnCheckOutRestore(s)
        BY <3>11 DEF UnCheckOutRestore
      <3>12. CASE CheckInFind(s)
        BY <3>12 DEF CheckInFind, LockerSeen
      <3>13. CASE CheckInCopy(s)
        BY <3>13 DEF CheckInCopy, SameFile
      <3>14. CASE CheckInCopyFails(s)
        BY <3>14 DEF CheckInCopyFails
      <3>15. CASE CheckInRollback(s)
        BY <3>15 DEF CheckInRollback
      <3>16. CASE idb_checkin(s)
        BY <3>16 DEF idb_checkin
      <3>17. CASE CheckInClean(s)
        BY <3>17 DEF CheckInClean
      <3>18. CASE osCreateFile(s)
        BY <3>18 DEF osCreateFile
      <3>19. CASE Return(s)
        BY <3>19 DEF Return
      <3>20. QED
        BY <2>2, <3>1, <3>2, <3>3, <3>4, <3>5, <3>6, <3>7, <3>8, <3>9, <3>10, <3>11, <3>12, <3>13, <3>14, <3>15, <3>16, <3>17, <3>18, <3>19 DEF Step
    <2>3. ASSUME NEW s \in Sessions, ApplicationWrites(s)
          PROVE  TypeOK'
      BY <2>3 DEF ApplicationWrites
    <2>4. ASSUME NEW s \in Sessions, terminateHandler(s)
          PROVE  TypeOK'
      BY <2>4 DEF terminateHandler
    <2>5. ASSUME NEW u \in Users, UserRemovesCopy(u)
          PROVE  TypeOK'
      BY <2>5 DEF UserRemovesCopy
    <2>6. CASE UNCHANGED vars
      BY <2>6 DEF vars
    <2>7. QED
      BY <2>1, <2>2, <2>3, <2>4, <2>5, <2>6 DEF Next
  <1>3. QED
    BY <1>1, <1>2, PTL DEF Spec

-----------------------------------------------------------------------------
\* The calls that only a checkin, an update, a save or a createUnixFile makes.
\* It is needed to tell their success from the success of a checkout.
CallsOfOp ==
    \A s \in Sessions :
        pc[s] \in {"write", "create", "coUpdate", "ciFind", "ciCopy",
                  "ciRollback", "ciVendor", "ciClean"} =>
            op[s] \notin {"checkout", "edit", "cancel"}

LockInv == CallsOfOp /\ LockHeld

\* Every call that relies on the lock has it, and belongs to its operation.
LEMMA LockInvAlways ==
  ASSUME OneSession
  PROVE  Spec => []LockInv
  <1> USE UserAssumption
      DEF TypeOK, LockInv, CallsOfOp, LockHeld, NeedsLock, Goto, server, locals
  <1>1. Init => LockInv
    BY DEF Init
  <1>2. TypeOK /\ LockInv /\ [Next]_vars => LockInv'
    <2> SUFFICES ASSUME TypeOK, LockInv, [Next]_vars
                 PROVE  LockInv'
      OBVIOUS
    <2>1. ASSUME NEW s \in Sessions, Request(s)
          PROVE  LockInv'
      <3>1. CASE dmsCCheckoutCellView(s)
        BY <3>1 DEF dmsCCheckoutCellView, Begin
      <3>2. CASE dmsCEditCellView(s)
        BY <3>2 DEF dmsCEditCellView, Begin
      <3>3. CASE dmsCCheckinCellView(s)
        BY <3>3 DEF dmsCCheckinCellView, dmsWriteCellView, Begin
      <3>4. CASE dmsCUpdateCellView(s)
        BY <3>4 DEF dmsCUpdateCellView, dmsWriteCellView, Begin
      <3>5. CASE dmsCCancelCheckoutCellView(s)
        BY <3>5 DEF dmsCCancelCheckoutCellView, Begin
      <3>6. CASE dmsCSaveCellView(s)
        BY <3>6 DEF dmsCSaveCellView, Begin
      <3>7. CASE dmsCCreateUnixFile(s)
        BY <3>7 DEF dmsCCreateUnixFile, Begin
      <3>8. QED
        BY <2>1, <3>1, <3>2, <3>3, <3>4, <3>5, <3>6, <3>7 DEF Request
    <2>2. ASSUME NEW s \in Sessions, Step(s)
          PROVE  LockInv'
      <3>1. CASE CheckOutFind(s)
        BY <3>1 DEF CheckOutFind, LockerSeen
      <3>2. CASE CheckOutExists(s)
        BY <3>2 DEF CheckOutExists
      <3>3. CASE idb_checkout(s)
        BY <3>3 DEF idb_checkout, OneSession
      <3>4. CASE CheckOutWork(s)
        BY <3>4 DEF CheckOutWork
      <3>5. CASE CheckOutUpdate(s)
        BY <3>5 DEF CheckOutUpdate
      <3>6. CASE CheckOutPlace(s)
        BY <3>6 DEF CheckOutPlace
      <3>7. CASE UnCheckOutFind(s)
        BY <3>7 DEF UnCheckOutFind, LockerSeen
      <3>8. CASE UnCheckOutRename(s)
        BY <3>8 DEF UnCheckOutRename
      <3>9. CASE idb_cancel_checkout(s)
        BY <3>9 DEF idb_cancel_checkout, OneSession
      <3>10. CASE UnCheckOutDone(s)
        BY <3>10 DEF UnCheckOutDone
      <3>11. CASE UnCheckOutRestore(s)
        BY <3>11 DEF UnCheckOutRestore
      <3>12. CASE CheckInFind(s)
        BY <3>12 DEF CheckInFind, LockerSeen
      <3>13. CASE CheckInCopy(s)
        BY <3>13 DEF CheckInCopy, SameFile
      <3>14. CASE CheckInCopyFails(s)
        BY <3>14 DEF CheckInCopyFails
      <3>15. CASE CheckInRollback(s)
        BY <3>15 DEF CheckInRollback
      <3>16. CASE idb_checkin(s)
        BY <3>16 DEF idb_checkin, OneSession
      <3>17. CASE CheckInClean(s)
        BY <3>17 DEF CheckInClean
      <3>18. CASE osCreateFile(s)
        BY <3>18 DEF osCreateFile
      <3>19. CASE Return(s)
        BY <3>19 DEF Return
      <3>20. QED
        BY <2>2, <3>1, <3>2, <3>3, <3>4, <3>5, <3>6, <3>7, <3>8, <3>9, <3>10, <3>11, <3>12, <3>13, <3>14, <3>15, <3>16, <3>17, <3>18, <3>19 DEF Step
    <2>3. ASSUME NEW s \in Sessions, ApplicationWrites(s)
          PROVE  LockInv'
      BY <2>3 DEF ApplicationWrites
    <2>4. ASSUME NEW s \in Sessions, terminateHandler(s)
          PROVE  LockInv'
      BY <2>4 DEF terminateHandler
    <2>5. ASSUME NEW u \in Users, UserRemovesCopy(u)
          PROVE  LockInv'
      BY <2>5 DEF UserRemovesCopy
    <2>6. CASE UNCHANGED vars
      BY <2>6 DEF vars
    <2>7. QED
      BY <2>1, <2>2, <2>3, <2>4, <2>5, <2>6 DEF Next
  <1>3. QED
    BY <1>1, <1>2, TypeCorrect, PTL DEF Spec

\* Mutual exclusion of the users' operations, whatever the vendor answers,
\* whatever fails and whoever is killed: the owner of the lock that an operation
\* read, or the lock that it took, is still its caller's at each of its later
\* calls that rely on it, and at the success of a checkout.  Each user has one
\* session: two sessions of a user share his lock, and one may cancel it while
\* the other works.
THEOREM LockHeldAlways ==
  ASSUME OneSession
  PROVE  Spec => []LockHeld
  <1>1. Spec => []LockInv
    BY LockInvAlways
  <1>2. LockInv => LockHeld
    BY DEF LockInv
  <1>3. QED
    BY <1>1, <1>2, PTL

-----------------------------------------------------------------------------
(* Without failing copies the library never loses its file, and a link never *)
(* dangles.                                                                  *)

LibPresent == lib # NoFile

\* The library always has its file.
LEMMA LibPresentAlways ==
  ASSUME "copy" \notin Faults
  PROVE  Spec => []LibPresent
  <1> USE FileAssumption
      DEF TypeOK, LibPresent, server, libFiles, FileData
  <1>1. TypeOK /\ Init => LibPresent
    BY DEF Init
  <1>2. TypeOK /\ LibPresent /\ [Next]_vars => LibPresent'
    <2> SUFFICES ASSUME TypeOK, LibPresent, [Next]_vars
                 PROVE  LibPresent'
      OBVIOUS
    <2>1. ASSUME NEW s \in Sessions, Request(s)
          PROVE  LibPresent'
      <3>1. CASE dmsCCheckoutCellView(s)
        BY <3>1 DEF dmsCCheckoutCellView, Begin
      <3>2. CASE dmsCEditCellView(s)
        BY <3>2 DEF dmsCEditCellView, Begin
      <3>3. CASE dmsCCheckinCellView(s)
        BY <3>3 DEF dmsCCheckinCellView, dmsWriteCellView, Begin
      <3>4. CASE dmsCUpdateCellView(s)
        BY <3>4 DEF dmsCUpdateCellView, dmsWriteCellView, Begin
      <3>5. CASE dmsCCancelCheckoutCellView(s)
        BY <3>5 DEF dmsCCancelCheckoutCellView, Begin
      <3>6. CASE dmsCSaveCellView(s)
        BY <3>6 DEF dmsCSaveCellView, Begin
      <3>7. CASE dmsCCreateUnixFile(s)
        BY <3>7 DEF dmsCCreateUnixFile, Begin
      <3>8. QED
        BY <2>1, <3>1, <3>2, <3>3, <3>4, <3>5, <3>6, <3>7 DEF Request
    <2>2. ASSUME NEW s \in Sessions, Step(s)
          PROVE  LibPresent'
      <3>1. CASE CheckOutFind(s)
        BY <3>1 DEF CheckOutFind
      <3>2. CASE CheckOutExists(s)
        BY <3>2 DEF CheckOutExists
      <3>3. CASE idb_checkout(s)
        BY <3>3 DEF idb_checkout
      <3>4. CASE CheckOutWork(s)
        BY <3>4 DEF CheckOutWork
      <3>5. CASE CheckOutUpdate(s)
        BY <3>5 DEF CheckOutUpdate
      <3>6. CASE CheckOutPlace(s)
        BY <3>6 DEF CheckOutPlace
      <3>7. CASE UnCheckOutFind(s)
        BY <3>7 DEF UnCheckOutFind
      <3>8. CASE UnCheckOutRename(s)
        BY <3>8 DEF UnCheckOutRename
      <3>9. CASE idb_cancel_checkout(s)
        BY <3>9 DEF idb_cancel_checkout
      <3>10. CASE UnCheckOutDone(s)
        BY <3>10 DEF UnCheckOutDone
      <3>11. CASE UnCheckOutRestore(s)
        BY <3>11 DEF UnCheckOutRestore
      <3>12. CASE CheckInFind(s)
        BY <3>12 DEF CheckInFind
      <3>13. CASE CheckInCopy(s)
        BY <3>13 DEF CheckInCopy, CanCopy, osFileExists, WorkData
      <3>14. CASE CheckInCopyFails(s)
        BY <3>14 DEF CheckInCopyFails
      <3>15. CASE CheckInRollback(s)
        BY <3>15 DEF CheckInRollback
      <3>16. CASE idb_checkin(s)
        BY <3>16 DEF idb_checkin
      <3>17. CASE CheckInClean(s)
        BY <3>17 DEF CheckInClean
      <3>18. CASE osCreateFile(s)
        BY <3>18 DEF osCreateFile
      <3>19. CASE Return(s)
        BY <3>19 DEF Return
      <3>20. QED
        BY <2>2, <3>1, <3>2, <3>3, <3>4, <3>5, <3>6, <3>7, <3>8, <3>9, <3>10, <3>11, <3>12, <3>13, <3>14, <3>15, <3>16, <3>17, <3>18, <3>19 DEF Step
    <2>3. ASSUME NEW s \in Sessions, ApplicationWrites(s)
          PROVE  LibPresent'
      BY <2>3 DEF ApplicationWrites
    <2>4. ASSUME NEW s \in Sessions, terminateHandler(s)
          PROVE  LibPresent'
      BY <2>4 DEF terminateHandler
    <2>5. ASSUME NEW u \in Users, UserRemovesCopy(u)
          PROVE  LibPresent'
      BY <2>5 DEF UserRemovesCopy
    <2>6. CASE UNCHANGED vars
      BY <2>6 DEF vars
    <2>7. QED
      BY <2>1, <2>2, <2>3, <2>4, <2>5, <2>6 DEF Next
  <1>3. QED
    BY <1>1, <1>2, TypeCorrect, PTL DEF Spec

\* The holder of the lock need not fear the others: unless copies fail, only his
\* own sessions change the library's file while he keeps the lock.  (After a
\* failed copy the library may have no file, and another user's createUnixFile
\* makes one through his stale link.)
THEOREM HolderOwnsFileAlways ==
  ASSUME OneSession, "copy" \notin Faults
  PROVE  Spec => HolderOwnsFile
  <1>1. TypeOK /\ LibPresent /\ LockHeld /\ [Next]_vars
        => [OnlyHolderChangesFile]_vars
    <2> USE UserAssumption
        DEF OnlyHolderChangesFile, TypeOK, LibPresent, LockHeld, NeedsLock, Goto, libFiles, server
    <2> SUFFICES ASSUME TypeOK, LibPresent, LockHeld, [Next]_vars
                 PROVE  [OnlyHolderChangesFile]_vars
      OBVIOUS
    <2>1. ASSUME NEW s \in Sessions, Request(s)
          PROVE  [OnlyHolderChangesFile]_vars
      <3>1. CASE dmsCCheckoutCellView(s)
        BY <3>1 DEF dmsCCheckoutCellView, Begin
      <3>2. CASE dmsCEditCellView(s)
        BY <3>2 DEF dmsCEditCellView, Begin
      <3>3. CASE dmsCCheckinCellView(s)
        BY <3>3 DEF dmsCCheckinCellView, dmsWriteCellView, Begin
      <3>4. CASE dmsCUpdateCellView(s)
        BY <3>4 DEF dmsCUpdateCellView, dmsWriteCellView, Begin
      <3>5. CASE dmsCCancelCheckoutCellView(s)
        BY <3>5 DEF dmsCCancelCheckoutCellView, Begin
      <3>6. CASE dmsCSaveCellView(s)
        BY <3>6 DEF dmsCSaveCellView, Begin
      <3>7. CASE dmsCCreateUnixFile(s)
        BY <3>7 DEF dmsCCreateUnixFile, Begin
      <3>8. QED
        BY <2>1, <3>1, <3>2, <3>3, <3>4, <3>5, <3>6, <3>7 DEF Request
    <2>2. ASSUME NEW s \in Sessions, Step(s)
          PROVE  [OnlyHolderChangesFile]_vars
      <3>1. CASE CheckOutFind(s)
        BY <3>1 DEF CheckOutFind
      <3>2. CASE CheckOutExists(s)
        BY <3>2 DEF CheckOutExists
      <3>3. CASE idb_checkout(s)
        BY <3>3 DEF idb_checkout
      <3>4. CASE CheckOutWork(s)
        BY <3>4 DEF CheckOutWork
      <3>5. CASE CheckOutUpdate(s)
        BY <3>5 DEF CheckOutUpdate
      <3>6. CASE CheckOutPlace(s)
        BY <3>6 DEF CheckOutPlace
      <3>7. CASE UnCheckOutFind(s)
        BY <3>7 DEF UnCheckOutFind
      <3>8. CASE UnCheckOutRename(s)
        BY <3>8 DEF UnCheckOutRename
      <3>9. CASE idb_cancel_checkout(s)
        BY <3>9 DEF idb_cancel_checkout
      <3>10. CASE UnCheckOutDone(s)
        BY <3>10 DEF UnCheckOutDone
      <3>11. CASE UnCheckOutRestore(s)
        BY <3>11 DEF UnCheckOutRestore
      <3>12. CASE CheckInFind(s)
        BY <3>12 DEF CheckInFind
      <3>13. CASE CheckInCopy(s)
        BY <3>13 DEF CheckInCopy
      <3>14. CASE CheckInCopyFails(s)
        BY <3>14 DEF CheckInCopyFails
      <3>15. CASE CheckInRollback(s)
        BY <3>15 DEF CheckInRollback
      <3>16. CASE idb_checkin(s)
        BY <3>16 DEF idb_checkin
      <3>17. CASE CheckInClean(s)
        BY <3>17 DEF CheckInClean
      <3>18. CASE osCreateFile(s)
        BY <3>18 DEF osCreateFile
      <3>19. CASE Return(s)
        BY <3>19 DEF Return
      <3>20. QED
        BY <2>2, <3>1, <3>2, <3>3, <3>4, <3>5, <3>6, <3>7, <3>8, <3>9, <3>10, <3>11, <3>12, <3>13, <3>14, <3>15, <3>16, <3>17, <3>18, <3>19 DEF Step
    <2>3. ASSUME NEW s \in Sessions, ApplicationWrites(s)
          PROVE  [OnlyHolderChangesFile]_vars
      BY <2>3 DEF ApplicationWrites
    <2>4. ASSUME NEW s \in Sessions, terminateHandler(s)
          PROVE  [OnlyHolderChangesFile]_vars
      BY <2>4 DEF terminateHandler
    <2>5. ASSUME NEW u \in Users, UserRemovesCopy(u)
          PROVE  [OnlyHolderChangesFile]_vars
      BY <2>5 DEF UserRemovesCopy
    <2>6. CASE UNCHANGED vars
      BY <2>6 DEF vars
    <2>7. QED
      BY <2>1, <2>2, <2>3, <2>4, <2>5, <2>6 DEF Next
  <1>2. Spec => []LibPresent
    BY LibPresentAlways
  <1>3. Spec => []LockHeld
    BY LockHeldAlways
  <1>4. QED
    BY <1>1, <1>2, <1>3, TypeCorrect, PTL DEF Spec, HolderOwnsFile

-----------------------------------------------------------------------------
\* A checkout that has got past the look for an illegal copy, or past the look
\* for a file of its own, has an empty place to put its file; so it never fails
\* and never undoes itself.
CheckoutFresh ==
    \A s \in Sessions :
        op[s] \in {"checkout", "edit"} =>
            /\ pc[s] \in {"coVendor", "coPlace"} => work[UserOf[s]] = NoFile
            /\ pc[s] \notin {"coUpdate", "unFind", "unRename", "unVendor",
                             "unDone", "unRestore"}

\* A checkout that comes to placing its copy finds the place empty.
LEMMA CheckoutFreshAlways ==
  ASSUME OneSession, "copy" \notin Faults
  PROVE  Spec => []CheckoutFresh
  <1> USE UserAssumption, FileAssumption
      DEF TypeOK, LibPresent, CallsOfOp, CheckoutFresh, Goto, OneSession,
          workFiles, libFiles, osFileExists, WorkData, FileData, WorkFile
  <1>1. Init => CheckoutFresh
    BY DEF Init
  <1>2. TypeOK /\ LibPresent /\ CallsOfOp /\ CheckoutFresh /\ [Next]_vars
        => CheckoutFresh'
    <2> SUFFICES ASSUME TypeOK, LibPresent, CallsOfOp, CheckoutFresh,
                        [Next]_vars
                 PROVE  CheckoutFresh'
      OBVIOUS
    <2>1. ASSUME NEW s \in Sessions, Request(s)
          PROVE  CheckoutFresh'
      <3>1. CASE dmsCCheckoutCellView(s)
        BY <3>1 DEF dmsCCheckoutCellView, Begin
      <3>2. CASE dmsCEditCellView(s)
        BY <3>2 DEF dmsCEditCellView, Begin
      <3>3. CASE dmsCCheckinCellView(s)
        BY <3>3 DEF dmsCCheckinCellView, dmsWriteCellView, Begin
      <3>4. CASE dmsCUpdateCellView(s)
        BY <3>4 DEF dmsCUpdateCellView, dmsWriteCellView, Begin
      <3>5. CASE dmsCCancelCheckoutCellView(s)
        BY <3>5 DEF dmsCCancelCheckoutCellView, Begin
      <3>6. CASE dmsCSaveCellView(s)
        BY <3>6 DEF dmsCSaveCellView, Begin
      <3>7. CASE dmsCCreateUnixFile(s)
        BY <3>7 DEF dmsCCreateUnixFile, Begin
      <3>8. QED
        BY <2>1, <3>1, <3>2, <3>3, <3>4, <3>5, <3>6, <3>7 DEF Request
    <2>2. ASSUME NEW s \in Sessions, Step(s)
          PROVE  CheckoutFresh'
      <3>1. CASE CheckOutFind(s)
        BY <3>1 DEF CheckOutFind
      <3>2. CASE CheckOutExists(s)
        BY <3>2 DEF CheckOutExists
      <3>3. CASE idb_checkout(s)
        BY <3>3 DEF idb_checkout
      <3>4. CASE CheckOutWork(s)
        BY <3>4 DEF CheckOutWork
      <3>5. CASE CheckOutUpdate(s)
        BY <3>5 DEF CheckOutUpdate
      <3>6. CASE CheckOutPlace(s)
        BY <3>6 DEF CheckOutPlace
      <3>7. CASE UnCheckOutFind(s)
        BY <3>7 DEF UnCheckOutFind
      <3>8. CASE UnCheckOutRename(s)
        BY <3>8 DEF UnCheckOutRename
      <3>9. CASE idb_cancel_checkout(s)
        BY <3>9 DEF idb_cancel_checkout
      <3>10. CASE UnCheckOutDone(s)
        BY <3>10 DEF UnCheckOutDone
      <3>11. CASE UnCheckOutRestore(s)
        BY <3>11 DEF UnCheckOutRestore
      <3>12. CASE CheckInFind(s)
        BY <3>12 DEF CheckInFind
      <3>13. CASE CheckInCopy(s)
        BY <3>13 DEF CheckInCopy
      <3>14. CASE CheckInCopyFails(s)
        BY <3>14 DEF CheckInCopyFails
      <3>15. CASE CheckInRollback(s)
        BY <3>15 DEF CheckInRollback
      <3>16. CASE idb_checkin(s)
        BY <3>16 DEF idb_checkin
      <3>17. CASE CheckInClean(s)
        BY <3>17 DEF CheckInClean
      <3>18. CASE osCreateFile(s)
        BY <3>18 DEF osCreateFile
      <3>19. CASE Return(s)
        BY <3>19 DEF Return
      <3>20. QED
        BY <2>2, <3>1, <3>2, <3>3, <3>4, <3>5, <3>6, <3>7, <3>8, <3>9, <3>10, <3>11, <3>12, <3>13, <3>14, <3>15, <3>16, <3>17, <3>18, <3>19 DEF Step
    <2>3. ASSUME NEW s \in Sessions, ApplicationWrites(s)
          PROVE  CheckoutFresh'
      BY <2>3 DEF ApplicationWrites
    <2>4. ASSUME NEW s \in Sessions, terminateHandler(s)
          PROVE  CheckoutFresh'
      BY <2>4 DEF terminateHandler
    <2>5. ASSUME NEW u \in Users, UserRemovesCopy(u)
          PROVE  CheckoutFresh'
      BY <2>5 DEF UserRemovesCopy
    <2>6. CASE UNCHANGED vars
      BY <2>6 DEF vars
    <2>7. QED
      BY <2>1, <2>2, <2>3, <2>4, <2>5, <2>6 DEF Next
  <1>3. Spec => []LibPresent
    BY LibPresentAlways
  <1>4. Spec => []LockInv
    BY LockInvAlways
  <1>5. LockInv => CallsOfOp
    BY DEF LockInv
  <1>6. QED
    BY <1>1, <1>2, <1>3, <1>4, <1>5, TypeCorrect, PTL DEF Spec

\* A checkout, repeated or not, never touches a file that is in the working
\* directory, unless copies fail or the user has a second session.
THEOREM RecheckoutAlwaysKeeps ==
  ASSUME OneSession, "copy" \notin Faults
  PROVE  Spec => RecheckoutNeverOverwrites
  <1>1. TypeOK /\ CallsOfOp /\ CheckoutFresh /\ [Next]_vars
        => [CheckoutKeepsCopy]_vars
    <2> USE UserAssumption, FileAssumption
        DEF TypeOK, CallsOfOp, CheckoutFresh, CheckoutKeepsCopy, Goto, server,
            workFiles, libFiles, osFileExists, WorkData
    <2> SUFFICES ASSUME TypeOK, CallsOfOp, CheckoutFresh, [Next]_vars
                 PROVE  [CheckoutKeepsCopy]_vars
      OBVIOUS
    <2>1. ASSUME NEW s \in Sessions, Request(s)
          PROVE  [CheckoutKeepsCopy]_vars
      <3>1. CASE dmsCCheckoutCellView(s)
        BY <3>1 DEF dmsCCheckoutCellView, Begin
      <3>2. CASE dmsCEditCellView(s)
        BY <3>2 DEF dmsCEditCellView, Begin
      <3>3. CASE dmsCCheckinCellView(s)
        BY <3>3 DEF dmsCCheckinCellView, dmsWriteCellView, Begin
      <3>4. CASE dmsCUpdateCellView(s)
        BY <3>4 DEF dmsCUpdateCellView, dmsWriteCellView, Begin
      <3>5. CASE dmsCCancelCheckoutCellView(s)
        BY <3>5 DEF dmsCCancelCheckoutCellView, Begin
      <3>6. CASE dmsCSaveCellView(s)
        BY <3>6 DEF dmsCSaveCellView, Begin
      <3>7. CASE dmsCCreateUnixFile(s)
        BY <3>7 DEF dmsCCreateUnixFile, Begin
      <3>8. QED
        BY <2>1, <3>1, <3>2, <3>3, <3>4, <3>5, <3>6, <3>7 DEF Request
    <2>2. ASSUME NEW s \in Sessions, Step(s)
          PROVE  [CheckoutKeepsCopy]_vars
      <3>1. CASE CheckOutFind(s)
        BY <3>1 DEF CheckOutFind
      <3>2. CASE CheckOutExists(s)
        BY <3>2 DEF CheckOutExists
      <3>3. CASE idb_checkout(s)
        BY <3>3 DEF idb_checkout
      <3>4. CASE CheckOutWork(s)
        BY <3>4 DEF CheckOutWork
      <3>5. CASE CheckOutUpdate(s)
        BY <3>5 DEF CheckOutUpdate
      <3>6. CASE CheckOutPlace(s)
        BY <3>6 DEF CheckOutPlace
      <3>7. CASE UnCheckOutFind(s)
        BY <3>7 DEF UnCheckOutFind
      <3>8. CASE UnCheckOutRename(s)
        BY <3>8 DEF UnCheckOutRename
      <3>9. CASE idb_cancel_checkout(s)
        BY <3>9 DEF idb_cancel_checkout
      <3>10. CASE UnCheckOutDone(s)
        BY <3>10 DEF UnCheckOutDone
      <3>11. CASE UnCheckOutRestore(s)
        BY <3>11 DEF UnCheckOutRestore
      <3>12. CASE CheckInFind(s)
        BY <3>12 DEF CheckInFind
      <3>13. CASE CheckInCopy(s)
        BY <3>13 DEF CheckInCopy
      <3>14. CASE CheckInCopyFails(s)
        BY <3>14 DEF CheckInCopyFails
      <3>15. CASE CheckInRollback(s)
        BY <3>15 DEF CheckInRollback
      <3>16. CASE idb_checkin(s)
        BY <3>16 DEF idb_checkin
      <3>17. CASE CheckInClean(s)
        BY <3>17 DEF CheckInClean
      <3>18. CASE osCreateFile(s)
        BY <3>18 DEF osCreateFile
      <3>19. CASE Return(s)
        BY <3>19 DEF Return
      <3>20. QED
        BY <2>2, <3>1, <3>2, <3>3, <3>4, <3>5, <3>6, <3>7, <3>8, <3>9, <3>10, <3>11, <3>12, <3>13, <3>14, <3>15, <3>16, <3>17, <3>18, <3>19 DEF Step
    <2>3. ASSUME NEW s \in Sessions, ApplicationWrites(s)
          PROVE  [CheckoutKeepsCopy]_vars
      BY <2>3 DEF ApplicationWrites
    <2>4. ASSUME NEW s \in Sessions, terminateHandler(s)
          PROVE  [CheckoutKeepsCopy]_vars
      BY <2>4 DEF terminateHandler
    <2>5. ASSUME NEW u \in Users, UserRemovesCopy(u)
          PROVE  [CheckoutKeepsCopy]_vars
      BY <2>5 DEF UserRemovesCopy
    <2>6. CASE UNCHANGED vars
      BY <2>6 DEF vars
    <2>7. QED
      BY <2>1, <2>2, <2>3, <2>4, <2>5, <2>6 DEF Next
  <1>2. Spec => []CheckoutFresh
    BY CheckoutFreshAlways
  <1>3. Spec => []LockInv
    BY LockInvAlways
  <1>4. LockInv => CallsOfOp
    BY DEF LockInv
  <1>5. QED
    BY <1>1, <1>2, <1>3, <1>4, TypeCorrect, PTL
       DEF Spec, RecheckoutNeverOverwrites

\* A checkout or edit that answers success has a file to show for it, unless
\* copies fail or a second session of the user takes it away.
THEOREM CheckoutDeliversAlways ==
  ASSUME OneSession, "copy" \notin Faults
  PROVE  Spec => []CheckoutDelivers
  <1> USE UserAssumption, FileAssumption
      DEF TypeOK, LibPresent, CallsOfOp, CheckoutDelivers, Goto, OneSession,
          workFiles, libFiles, osFileExists, WorkData, FileData, WorkFile
  <1>1. Init => CheckoutDelivers
    BY DEF Init
  <1>2. TypeOK /\ LibPresent /\ LibPresent' /\ CallsOfOp /\ CheckoutDelivers
        /\ [Next]_vars => CheckoutDelivers'
    <2> SUFFICES ASSUME TypeOK, LibPresent, LibPresent', CallsOfOp,
                        CheckoutDelivers, [Next]_vars
                 PROVE  CheckoutDelivers'
      OBVIOUS
    <2>1. ASSUME NEW s \in Sessions, Request(s)
          PROVE  CheckoutDelivers'
      <3>1. CASE dmsCCheckoutCellView(s)
        BY <3>1 DEF dmsCCheckoutCellView, Begin
      <3>2. CASE dmsCEditCellView(s)
        BY <3>2 DEF dmsCEditCellView, Begin
      <3>3. CASE dmsCCheckinCellView(s)
        BY <3>3 DEF dmsCCheckinCellView, dmsWriteCellView, Begin
      <3>4. CASE dmsCUpdateCellView(s)
        BY <3>4 DEF dmsCUpdateCellView, dmsWriteCellView, Begin
      <3>5. CASE dmsCCancelCheckoutCellView(s)
        BY <3>5 DEF dmsCCancelCheckoutCellView, Begin
      <3>6. CASE dmsCSaveCellView(s)
        BY <3>6 DEF dmsCSaveCellView, Begin
      <3>7. CASE dmsCCreateUnixFile(s)
        BY <3>7 DEF dmsCCreateUnixFile, Begin
      <3>8. QED
        BY <2>1, <3>1, <3>2, <3>3, <3>4, <3>5, <3>6, <3>7 DEF Request
    <2>2. ASSUME NEW s \in Sessions, Step(s)
          PROVE  CheckoutDelivers'
      <3>1. CASE CheckOutFind(s)
        BY <3>1 DEF CheckOutFind
      <3>2. CASE CheckOutExists(s)
        BY <3>2 DEF CheckOutExists
      <3>3. CASE idb_checkout(s)
        BY <3>3 DEF idb_checkout
      <3>4. CASE CheckOutWork(s)
        BY <3>4 DEF CheckOutWork
      <3>5. CASE CheckOutUpdate(s)
        BY <3>5 DEF CheckOutUpdate
      <3>6. CASE CheckOutPlace(s)
        BY <3>6 DEF CheckOutPlace
      <3>7. CASE UnCheckOutFind(s)
        BY <3>7 DEF UnCheckOutFind
      <3>8. CASE UnCheckOutRename(s)
        BY <3>8 DEF UnCheckOutRename
      <3>9. CASE idb_cancel_checkout(s)
        BY <3>9 DEF idb_cancel_checkout
      <3>10. CASE UnCheckOutDone(s)
        BY <3>10 DEF UnCheckOutDone
      <3>11. CASE UnCheckOutRestore(s)
        BY <3>11 DEF UnCheckOutRestore
      <3>12. CASE CheckInFind(s)
        BY <3>12 DEF CheckInFind
      <3>13. CASE CheckInCopy(s)
        BY <3>13 DEF CheckInCopy
      <3>14. CASE CheckInCopyFails(s)
        BY <3>14 DEF CheckInCopyFails
      <3>15. CASE CheckInRollback(s)
        BY <3>15 DEF CheckInRollback
      <3>16. CASE idb_checkin(s)
        BY <3>16 DEF idb_checkin
      <3>17. CASE CheckInClean(s)
        BY <3>17 DEF CheckInClean
      <3>18. CASE osCreateFile(s)
        BY <3>18 DEF osCreateFile
      <3>19. CASE Return(s)
        BY <3>19 DEF Return
      <3>20. QED
        BY <2>2, <3>1, <3>2, <3>3, <3>4, <3>5, <3>6, <3>7, <3>8, <3>9, <3>10, <3>11, <3>12, <3>13, <3>14, <3>15, <3>16, <3>17, <3>18, <3>19 DEF Step
    <2>3. ASSUME NEW s \in Sessions, ApplicationWrites(s)
          PROVE  CheckoutDelivers'
      BY <2>3 DEF ApplicationWrites
    <2>4. ASSUME NEW s \in Sessions, terminateHandler(s)
          PROVE  CheckoutDelivers'
      BY <2>4 DEF terminateHandler
    <2>5. ASSUME NEW u \in Users, UserRemovesCopy(u)
          PROVE  CheckoutDelivers'
      BY <2>5 DEF UserRemovesCopy
    <2>6. CASE UNCHANGED vars
      BY <2>6 DEF vars
    <2>7. QED
      BY <2>1, <2>2, <2>3, <2>4, <2>5, <2>6 DEF Next
  <1>3. Spec => []LibPresent
    BY LibPresentAlways
  <1>4. Spec => []LockInv
    BY LockInvAlways
  <1>5. LockInv => CallsOfOp
    BY DEF LockInv
  <1>6. QED
    BY <1>1, <1>2, <1>3, <1>4, <1>5, TypeCorrect, PTL DEF Spec

=============================================================================
