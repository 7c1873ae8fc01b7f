------------------------------ MODULE CellView ------------------------------
(***************************************************************************)
(* One cellview of one read-write library, and the operations of           *)
(* src/iDMS/dmsC_dm.c and dmsC_API_1.c that move it between the library    *)
(* and the users' working directories: checkout, edit, checkin, update,    *)
(* cancel checkout, save and createUnixFile.                               *)
(*                                                                         *)
(* An application has a dmserver process of its own, started over pipes or *)
(* forked for its connection, so every session runs one operation at a     *)
(* time, and the sessions interleave between any two system calls or       *)
(* vendor calls.  An action is one such call with the decisions the code   *)
(* takes before the next one.  The vendor's data manager, the library's    *)
(* workspace file, its backup FPN~ and the working directories are shared; *)
(* seen and fpn are locals of the operation in progress.                   *)
(***************************************************************************)
CONSTANTS
    Users,      \* login names
    Sessions,   \* dmserver processes, one per connected application
    UserOf,     \* the user a session runs as
    LinkUsers,  \* users whose environment does not set IDMS_CO_COPY
    Contents,   \* what a design file may hold
    Empty,      \* the content of a file just created
    NOBODY, NoFile, Torn, Link,
    Faults      \* what may go wrong: see FaultKinds

FaultKinds ==
    { "query",   \* the vendor does not answer who holds the lock
      "vendor",  \* a vendor checkout, checkin or cancel fails
      "copy",    \* cp or symlink fails, perhaps half way
      "rename",  \* the working directory cannot be written
      "kill" }   \* a signal ends the process: terminateHandler; with a
                 \* connection, the SIGCHLD of a copy is such a signal

ASSUME UserAssumption ==
    /\ UserOf \in [Sessions -> Users]
    /\ LinkUsers \subseteq Users
    /\ NOBODY \notin Users

ASSUME FileAssumption ==
    /\ Empty \in Contents
    /\ {NoFile, Torn, Link} \cap Contents = {}
    /\ NoFile # Torn /\ NoFile # Link /\ Torn # Link

ASSUME FaultAssumption == Faults \subseteq FaultKinds

FileData == Contents \cup {NoFile, Torn}
WorkFile == FileData \cup {Link}

VARIABLES
    locker,     \* who holds the vendor's lock on the cellview
    vault,      \* the content of its latest version
    lib,        \* the file at FPN in the library's workspace
    libBak,     \* the file at FPN~
    work,       \* per user, the file in the working directory ...
    workBak,    \* ... and the same name with ~
    draft,      \* history: what a user last saved under the lock and has
                \* neither published nor given up
    pc,         \* per session, the next call of its operation
    op,         \* the operation
    fpn,        \* which file the local FPN names
    seen,       \* the local locker
    took        \* history: this operation's checkout acquired the lock

server == <<locker, vault>>
libFiles == <<lib, libBak>>
workFiles == <<work, workBak>>
locals == <<fpn, seen, took>>
vars == <<locker, vault, lib, libBak, work, workBak, draft,
          pc, op, fpn, seen, took>>

Ops == {"none", "checkout", "edit", "checkin", "update", "cancel", "save",
        "create"}

Labels ==
    { "idle", "ok", "failed", "write", "create",
      "coFind", "coExists", "coVendor", "coWork", "coUpdate", "coPlace",
      "unFind", "unRename", "unVendor", "unDone", "unRestore",
      "ciFind", "ciCopy", "ciRollback", "ciVendor", "ciClean" }

TypeOK ==
    /\ locker \in Users \cup {NOBODY}
    /\ vault \in Contents \cup {Torn}
    /\ lib \in FileData
    /\ libBak \in FileData
    /\ work \in [Users -> WorkFile]
    /\ workBak \in [Users -> WorkFile]
    /\ draft \in [Users -> Contents \cup {NoFile}]
    /\ pc \in [Sessions -> Labels]
    /\ op \in [Sessions -> Ops]
    /\ fpn \in [Sessions -> {"lib", "work"}]
    /\ seen \in [Sessions -> Users \cup {NOBODY}]
    /\ took \in [Sessions -> BOOLEAN]

Init ==
    /\ locker = NOBODY
    /\ vault \in Contents
    /\ lib = vault
    /\ libBak = NoFile
    /\ work = [u \in Users |-> NoFile]
    /\ workBak = [u \in Users |-> NoFile]
    /\ draft = [u \in Users |-> NoFile]
    /\ pc = [s \in Sessions |-> "idle"]
    /\ op = [s \in Sessions |-> "none"]
    /\ fpn = [s \in Sessions |-> "lib"]
    /\ seen = [s \in Sessions |-> NOBODY]
    /\ took = [s \in Sessions |-> FALSE]

-----------------------------------------------------------------------------
(* Files.  A symbolic link is followed by access, stat, open and cp -L, and *)
(* not by rename, unlink and cp --no-dereference.                           *)

\* What the application reads at the user's working path.
WorkData(u) == IF work[u] = Link THEN lib ELSE work[u]

osFileExists(u) == WorkData(u) # NoFile

\* The library file is a real file of the locker's, or a read-only link into
\* the vendor's cache; a user can always write his own copy.
osFileIsWritable(u) == osFileExists(u) /\ (work[u] = Link => locker = u)

\* idb_find_version_and_locker.  A failed query reads as "not locked", and so
\* may the working path, which is in no workspace of the vendor's.
LockerSeen(path) ==
    {locker} \cup
    (IF path = "work" \/ "query" \in Faults THEN {NOBODY} ELSE {})

Goto(s, label) == pc' = [pc EXCEPT ![s] = label]

-----------------------------------------------------------------------------
(* dmsCheckOutCellView, for checkout, for edit and for the dummy checkout   *)
(* of update.                                                               *)

\* Mutant: the caller's own lock is success, with no file looked for.
CheckOutFind_NoFile(s) ==
    /\ pc[s] = "coFind"
    /\ \E l \in LockerSeen("lib") :
        /\ seen' = [seen EXCEPT ![s] = l]
        /\ \/ l = UserOf[s] /\ Goto(s, "ok")
           \/ l = NOBODY /\ Goto(s, "coExists")
           \/ l \notin {UserOf[s], NOBODY} /\ Goto(s, "failed")
    /\ UNCHANGED <<server, libFiles, workFiles, draft, op, fpn, took>>

CheckOutFind(s) ==
    /\ pc[s] = "coFind"
    /\ \E l \in LockerSeen("lib") :
        /\ seen' = [seen EXCEPT ![s] = l]
        /\ \/ l = UserOf[s] /\ Goto(s, "coWork")
           \/ l = NOBODY /\ op[s] # "update" /\ Goto(s, "coExists")
           \/ l = NOBODY /\ op[s] = "update" /\ Goto(s, "coVendor")
           \/ l \notin {UserOf[s], NOBODY} /\ Goto(s, "failed")
    /\ UNCHANGED <<server, libFiles, workFiles, draft, op, fpn, took>>

\* Mutant: an illegal copy goes unnoticed.
CheckOutExists_Skipped(s) ==
    /\ pc[s] = "coExists"
    /\ Goto(s, "coVendor")
    /\ UNCHANGED <<server, libFiles, workFiles, draft, op, locals>>

\* A copy of a cellview that is not checked out is illegal.
CheckOutExists(s) ==
    /\ pc[s] = "coExists"
    /\ Goto(s, IF osFileExists(UserOf[s]) THEN "failed" ELSE "coVendor")
    /\ UNCHANGED <<server, libFiles, workFiles, draft, op, locals>>

\* Mutant: the result of the vendor's checkout is not looked at.
idb_checkout_Unchecked(s) ==
    /\ pc[s] = "coVendor"
    /\ IF locker = NOBODY
       THEN /\ locker' = UserOf[s]
            /\ lib' = vault
            /\ took' = [took EXCEPT ![s] = TRUE]
       ELSE UNCHANGED <<locker, lib, took>>
    /\ Goto(s, "coWork")
    /\ UNCHANGED <<vault, libBak, workFiles, draft, op, fpn, seen>>

\* The vendor's checkout -lock -force.  On the caller's own lock it may fetch
\* the file again.  idb_checkout reports a failure, with the lock taken, when
\* the fetched file is not the real file it expects.
idb_checkout(s) ==
    /\ pc[s] = "coVendor"
    /\ \/ /\ locker \in {NOBODY, UserOf[s]}
          /\ locker' = UserOf[s]
          /\ lib' \in IF locker = UserOf[s] THEN {lib, vault} ELSE {vault}
          /\ took' = [took EXCEPT ![s] = (locker = NOBODY)]
          /\ \/ Goto(s, "coWork")
             \/ "vendor" \in Faults /\ Goto(s, "failed")
       \/ /\ locker \notin {NOBODY, UserOf[s]} \/ "vendor" \in Faults
          /\ Goto(s, "failed")
          /\ UNCHANGED <<locker, lib, took>>
    /\ UNCHANGED <<vault, libBak, workFiles, draft, op, fpn, seen>>

\* Mutant: the working file is placed whether there is one or not.
CheckOutWork_Unconditional(s) ==
    /\ pc[s] = "coWork"
    /\ Goto(s, IF op[s] = "update" THEN "coUpdate" ELSE "coPlace")
    /\ UNCHANGED <<server, libFiles, workFiles, draft, op, locals>>

\* After the vendor: is there a file at the working path by now?
CheckOutWork(s) ==
    /\ pc[s] = "coWork"
    /\ \/ ~osFileExists(UserOf[s]) /\ Goto(s, "coPlace")
       \/ osFileExists(UserOf[s]) /\ op[s] = "update" /\ Goto(s, "coUpdate")
       \/ osFileExists(UserOf[s]) /\ op[s] # "update" /\ Goto(s, "ok")
    /\ UNCHANGED <<server, libFiles, workFiles, draft, op, locals>>

\* osCopyFile(workDirFile, FPN), its result ignored; then FPN is the working
\* path.  A link is the same file, and cp refuses.
CheckOutUpdate(s) ==
    /\ pc[s] = "coUpdate"
    /\ lib' \in IF work[UserOf[s]] \in {Link, NoFile} THEN {lib}
                ELSE {work[UserOf[s]]}
                     \cup (IF "copy" \in Faults THEN {lib, Torn} ELSE {})
    /\ fpn' = [fpn EXCEPT ![s] = "work"]
    /\ Goto(s, "ciFind")
    /\ UNCHANGED <<server, libBak, workFiles, draft, op, seen, took>>

\* Mutant: a working file that cannot be placed fails the checkout at once.
CheckOutPlace_NoUndo(s) ==
    LET u == UserOf[s] IN
    /\ pc[s] = "coPlace"
    /\ \/ /\ work[u] = NoFile
          /\ work' = [work EXCEPT ![u] = IF u \in LinkUsers THEN Link ELSE lib]
          /\ fpn' = [fpn EXCEPT ![s] = "work"]
          /\ Goto(s, IF op[s] = "update" THEN "ciFind" ELSE "ok")
       \/ /\ work[u] # NoFile \/ "copy" \in Faults
          /\ Goto(s, "failed")
          /\ UNCHANGED <<work, fpn>>
    /\ UNCHANGED <<server, libFiles, workBak, draft, op, seen, took>>

\* osCreateSymLink, which fails on a name that exists, or osCopyFile, which
\* overwrites it.
CheckOutPlace(s) ==
    LET u == UserOf[s] IN
    /\ pc[s] = "coPlace"
    /\ \/ /\ IF u \in LinkUsers THEN work[u] = NoFile
                                ELSE work[u] # Link /\ lib # NoFile
          /\ work' = [work EXCEPT ![u] = IF u \in LinkUsers THEN Link ELSE lib]
          /\ fpn' = [fpn EXCEPT ![s] = "work"]
          /\ Goto(s, IF op[s] = "update" THEN "ciFind" ELSE "ok")
       \/ /\ \/ IF u \in LinkUsers THEN work[u] # NoFile
                                   ELSE work[u] = Link \/ lib = NoFile
             \/ "copy" \in Faults
          /\ \/ work' = work
             \/ /\ u \notin LinkUsers /\ "copy" \in Faults
                /\ work[u] # Link
                /\ work' = [work EXCEPT ![u] = Torn]
          /\ Goto(s, "unFind")
          /\ UNCHANGED fpn
    /\ UNCHANGED <<server, libFiles, workBak, draft, op, seen, took>>

-----------------------------------------------------------------------------
(* dmsUnCheckOutCellView, for cancel checkout and for the undo of a         *)
(* checkout that could not place the working copy.                          *)

UnCheckOutFind(s) ==
    /\ pc[s] = "unFind"
    /\ \E l \in LockerSeen("lib") : seen' = [seen EXCEPT ![s] = l]
    /\ Goto(s, "unRename")
    /\ UNCHANGED <<server, libFiles, workFiles, draft, op, fpn, took>>

\* Mutant: a missing working file is an error.
UnCheckOutRename_NeedsFile(s) ==
    LET u == UserOf[s] IN
    /\ pc[s] = "unRename"
    /\ IF osFileExists(u)
       THEN /\ workBak' = [workBak EXCEPT ![u] = work[u]]
            /\ work' = [work EXCEPT ![u] = NoFile]
            /\ Goto(s, IF seen[s] = u THEN "unVendor" ELSE "failed")
       ELSE Goto(s, "failed") /\ UNCHANGED workFiles
    /\ UNCHANGED <<server, libFiles, draft, op, locals>>

\* The working file moves away first; only then is the owner compared.
UnCheckOutRename(s) ==
    LET u == UserOf[s] IN
    /\ pc[s] = "unRename"
    /\ \/ /\ IF osFileExists(u)
             THEN /\ workBak' = [workBak EXCEPT ![u] = work[u]]
                  /\ work' = [work EXCEPT ![u] = NoFile]
             ELSE UNCHANGED workFiles
          /\ Goto(s, IF seen[s] = u THEN "unVendor" ELSE "failed")
       \/ /\ "rename" \in Faults /\ osFileExists(u)
          /\ Goto(s, "failed")
          /\ UNCHANGED workFiles
    /\ UNCHANGED <<server, libFiles, draft, op, locals>>

\* The vendor's cancel -force brings the latest version back.
idb_cancel_checkout(s) ==
    /\ pc[s] = "unVendor"
    /\ \/ /\ locker = UserOf[s]
          /\ locker' = NOBODY
          /\ lib' = vault
          /\ Goto(s, "unDone")
       \/ /\ locker # UserOf[s] \/ "vendor" \in Faults
          /\ Goto(s, "unRestore")
          /\ UNCHANGED <<locker, lib>>
    /\ UNCHANGED <<vault, libBak, workFiles, draft, op, locals>>

UnCheckOutDone(s) ==
    /\ pc[s] = "unDone"
    /\ workBak' = [workBak EXCEPT ![UserOf[s]] = NoFile]
    /\ Goto(s, IF op[s] = "cancel" THEN "ok" ELSE "failed")
    /\ UNCHANGED <<server, libFiles, work, draft, op, locals>>

UnCheckOutRestore(s) ==
    LET u == UserOf[s] IN
    /\ pc[s] = "unRestore"
    /\ IF workBak[u] # NoFile
       THEN /\ work' = [work EXCEPT ![u] = workBak[u]]
            /\ workBak' = [workBak EXCEPT ![u] = NoFile]
       ELSE UNCHANGED workFiles
    /\ Goto(s, "failed")
    /\ UNCHANGED <<server, libFiles, draft, op, locals>>

-----------------------------------------------------------------------------
(* dmsCheckInCellView, for checkin and for the second half of update.       *)

\* Mutant: the owner of the lock is not compared.
CheckInFind_AnyOwner(s) ==
    /\ pc[s] = "ciFind"
    /\ \E l \in LockerSeen(fpn[s]) : seen' = [seen EXCEPT ![s] = l]
    /\ Goto(s, "ciCopy")
    /\ UNCHANGED <<server, libFiles, workFiles, draft, op, fpn, took>>

CheckInFind(s) ==
    /\ pc[s] = "ciFind"
    /\ \E l \in LockerSeen(fpn[s]) :
        /\ seen' = [seen EXCEPT ![s] = l]
        /\ Goto(s, IF l = UserOf[s] THEN "ciCopy" ELSE "failed")
    /\ UNCHANGED <<server, libFiles, workFiles, draft, op, fpn, took>>

\* The file the child copies from and the file it backs up are one inode.
SameFile(s) == fpn[s] = "work" \/ work[UserOf[s]] = Link

\* Both stat calls of the child succeed.
CanCopy(s) == osFileExists(UserOf[s]) /\ (fpn[s] = "lib" => lib # NoFile)

\* Mutant: only the backup is made.
CheckInCopy_BackupOnly(s) ==
    LET u == UserOf[s] IN
    /\ pc[s] = "ciCopy"
    /\ CanCopy(s)
    /\ IF fpn[s] = "lib"
       THEN libBak' = lib /\ UNCHANGED workBak
       ELSE workBak' = [workBak EXCEPT ![u] = work[u]] /\ UNCHANGED libBak
    /\ Goto(s, "ciVendor")
    /\ UNCHANGED <<server, lib, work, draft, op, locals>>

\* Mutant: source and target of the copy are swapped.
CheckInCopy_Swapped(s) ==
    LET u == UserOf[s] IN
    /\ pc[s] = "ciCopy"
    /\ CanCopy(s)
    /\ work' = IF SameFile(s) THEN work ELSE [work EXCEPT ![u] = lib]
    /\ Goto(s, "ciVendor")
    /\ UNCHANGED <<server, libFiles, workBak, draft, op, locals>>

\* Mutant: the link itself is copied onto the file it names.
CheckInCopy_NoSameFile(s) ==
    LET u == UserOf[s] IN
    /\ pc[s] = "ciCopy"
    /\ CanCopy(s)
    /\ libBak' = lib
    /\ lib' = work[u]
    /\ Goto(s, "ciVendor")
    /\ UNCHANGED <<server, workFiles, draft, op, locals>>

\* The child's cp: FPN to FPN~ when the working file is FPN itself, and the
\* working file onto FPN with --backup otherwise.
CheckInCopy(s) ==
    LET u == UserOf[s] IN
    /\ pc[s] = "ciCopy"
    /\ CanCopy(s)
    /\ \/ /\ fpn[s] = "work"
          /\ workBak' = [workBak EXCEPT ![u] = work[u]]
          /\ UNCHANGED libFiles
       \/ /\ fpn[s] = "lib"
          /\ libBak' = lib
          /\ lib' = IF SameFile(s) THEN lib ELSE work[u]
          /\ UNCHANGED workBak
    /\ Goto(s, "ciVendor")
    /\ UNCHANGED <<server, work, draft, op, locals>>

\* The child exits with an error.  cp --remove-destination may have removed
\* the old target, or left a part of the new one.
CheckInCopyFails(s) ==
    LET u == UserOf[s] IN
    /\ pc[s] = "ciCopy"
    /\ \/ ~CanCopy(s) /\ UNCHANGED <<libFiles, workBak>>
       \/ /\ "copy" \in Faults /\ fpn[s] = "work"
          /\ \E d \in {workBak[u], NoFile, Torn} :
                workBak' = [workBak EXCEPT ![u] = d]
          /\ UNCHANGED libFiles
       \/ /\ "copy" \in Faults /\ fpn[s] = "lib" /\ SameFile(s)
          /\ libBak' \in {libBak, NoFile, Torn}
          /\ UNCHANGED <<lib, workBak>>
       \/ /\ "copy" \in Faults /\ fpn[s] = "lib" /\ ~SameFile(s)
          /\ \/ UNCHANGED libFiles
             \/ libBak' = lib /\ lib' \in {NoFile, Torn}
          /\ UNCHANGED workBak
    /\ Goto(s, "ciRollback")
    /\ UNCHANGED <<server, work, draft, op, locals>>

\* Mutant: a checkin whose copy failed tries again.
CheckInRollback_Retries(s) ==
    /\ pc[s] = "ciRollback"
    /\ Goto(s, "ciCopy")
    /\ UNCHANGED <<server, libFiles, workFiles, draft, op, locals>>

\* Whatever is at FPN~ is taken for the backup of this checkin.
CheckInRollback(s) ==
    LET u == UserOf[s] IN
    /\ pc[s] = "ciRollback"
    /\ \/ /\ fpn[s] = "lib" /\ libBak # NoFile
          /\ lib' = libBak /\ libBak' = NoFile
          /\ UNCHANGED workFiles
       \/ /\ fpn[s] = "work" /\ workBak[u] # NoFile
          /\ work' = [work EXCEPT ![u] = workBak[u]]
          /\ workBak' = [workBak EXCEPT ![u] = NoFile]
          /\ UNCHANGED libFiles
       \/ /\ IF fpn[s] = "lib" THEN libBak = NoFile ELSE workBak[u] = NoFile
          /\ UNCHANGED <<libFiles, workFiles>>
    /\ Goto(s, "failed")
    /\ UNCHANGED <<server, draft, op, locals>>

\* Mutant: a refused checkin is cleaned up like a successful one.
idb_checkin_AlwaysCleans(s) ==
    /\ pc[s] = "ciVendor"
    /\ \/ /\ locker = UserOf[s] /\ lib # NoFile
          /\ vault' = lib
          /\ locker' = NOBODY
          /\ draft' = [draft EXCEPT ![UserOf[s]] = NoFile]
       \/ /\ locker # UserOf[s] \/ lib = NoFile \/ "vendor" \in Faults
          /\ UNCHANGED <<server, draft>>
    /\ Goto(s, "ciClean")
    /\ UNCHANGED <<libFiles, workFiles, op, locals>>

\* The vendor's checkin of the library file.  idb_checkin has emptied FPN by
\* the time it fails, so the caller's restore from FPN~ finds no file.
idb_checkin(s) ==
    /\ pc[s] = "ciVendor"
    /\ \/ /\ locker \in {NOBODY, UserOf[s]} /\ lib # NoFile
          /\ vault' = lib
          /\ locker' = NOBODY
          /\ draft' = [draft EXCEPT ![UserOf[s]] = NoFile]
          /\ Goto(s, "ciClean")
       \/ /\ \/ locker \notin {NOBODY, UserOf[s]} \/ lib = NoFile
             \/ "vendor" \in Faults
          /\ Goto(s, "failed")
          /\ UNCHANGED <<server, draft>>
    /\ UNCHANGED <<libFiles, workFiles, op, locals>>

CheckInClean(s) ==
    LET u == UserOf[s] IN
    /\ pc[s] = "ciClean"
    /\ work' = [work EXCEPT ![u] = NoFile]
    /\ IF fpn[s] = "lib"
       THEN libBak' = NoFile /\ UNCHANGED workBak
       ELSE workBak' = [workBak EXCEPT ![u] = NoFile] /\ UNCHANGED libBak
    /\ Goto(s, "ok")
    /\ UNCHANGED <<server, lib, draft, op, locals>>

-----------------------------------------------------------------------------
(* The entry points of dmsC_API_1.c, from the pre-trigger on, and the rest. *)

Begin(s, o, label) ==
    /\ pc[s] = "idle"
    /\ op' = [op EXCEPT ![s] = o]
    /\ Goto(s, label)

dmsCCheckoutCellView(s) ==
    /\ Begin(s, "checkout", "coFind")
    /\ UNCHANGED <<server, libFiles, workFiles, draft, locals>>

\* dmsCLoadCellView is enough when a file is there.
dmsCEditCellView(s) ==
    /\ Begin(s, "edit", IF osFileExists(UserOf[s]) THEN "ok" ELSE "coFind")
    /\ UNCHANGED <<server, libFiles, workFiles, draft, locals>>

\* The library is only looked for when there is a writable file at the working
\* path.
dmsWriteCellView(s, o) ==
    \/ ~osFileIsWritable(UserOf[s]) /\ Begin(s, o, "failed")
    \/ /\ osFileIsWritable(UserOf[s])
       /\ Begin(s, o, IF o = "update" THEN "coFind" ELSE "ciFind")

dmsCCheckinCellView(s) ==
    /\ dmsWriteCellView(s, "checkin")
    /\ UNCHANGED <<server, libFiles, workFiles, draft, locals>>

dmsCUpdateCellView(s) ==
    /\ dmsWriteCellView(s, "update")
    /\ UNCHANGED <<server, libFiles, workFiles, draft, locals>>

\* The user gives his changes up by asking for it.
dmsCCancelCheckoutCellView(s) ==
    /\ Begin(s, "cancel", "unFind")
    /\ draft' = [draft EXCEPT ![UserOf[s]] = NoFile]
    /\ UNCHANGED <<server, libFiles, workFiles, locals>>

\* Save only answers the path the application may write ...
dmsCSaveCellView(s) ==
    /\ Begin(s, "save",
             IF osFileIsWritable(UserOf[s]) THEN "write" ELSE "failed")
    /\ UNCHANGED <<server, libFiles, workFiles, draft, locals>>

\* ... and the application writes it.
ApplicationWrites(s) ==
    LET u == UserOf[s] IN
    /\ pc[s] = "write"
    /\ \E d \in Contents :
        \/ /\ work[u] # Link
           /\ work' = [work EXCEPT ![u] = d]
           /\ draft' = IF locker = u THEN [draft EXCEPT ![u] = d] ELSE draft
           /\ UNCHANGED lib
        \/ /\ work[u] = Link /\ locker = u
           /\ lib' = d
           /\ draft' = [draft EXCEPT ![u] = d]
           /\ UNCHANGED work
        \/ /\ work[u] = Link /\ locker # u
           /\ UNCHANGED <<lib, work, draft>>
    /\ Goto(s, "ok")
    /\ UNCHANGED <<server, libBak, workBak, op, locals>>

dmsCCreateUnixFile(s) ==
    /\ Begin(s, "create", IF osFileExists(UserOf[s]) THEN "failed" ELSE "create")
    /\ UNCHANGED <<server, libFiles, workFiles, draft, locals>>

\* creat truncates what it finds, and through a link the library file.
osCreateFile(s) ==
    LET u == UserOf[s] IN
    /\ pc[s] = "create"
    /\ \/ /\ work[u] # Link
          /\ work' = [work EXCEPT ![u] = Empty]
          /\ UNCHANGED lib
          /\ Goto(s, "ok")
       \/ /\ work[u] = Link /\ (locker = u \/ lib = NoFile)
          /\ lib' = Empty
          /\ UNCHANGED work
          /\ Goto(s, "ok")
       \/ /\ work[u] = Link /\ locker # u /\ lib # NoFile
          /\ UNCHANGED <<lib, work>>
          /\ Goto(s, "failed")
    /\ UNCHANGED <<server, libBak, workBak, draft, op, locals>>

\* The post-trigger runs and the reply is built, whatever the outcome.
Return(s) ==
    /\ pc[s] \in {"ok", "failed"}
    /\ Goto(s, "idle")
    /\ op' = [op EXCEPT ![s] = "none"]
    /\ fpn' = [fpn EXCEPT ![s] = "lib"]
    /\ seen' = [seen EXCEPT ![s] = NOBODY]
    /\ took' = [took EXCEPT ![s] = FALSE]
    /\ UNCHANGED <<server, libFiles, workFiles, draft>>

\* The process dies; the application connects again, to a fresh one.
terminateHandler(s) ==
    /\ "kill" \in Faults
    /\ pc[s] \notin {"idle", "ok", "failed"}
    /\ Goto(s, "idle")
    /\ op' = [op EXCEPT ![s] = "none"]
    /\ fpn' = [fpn EXCEPT ![s] = "lib"]
    /\ seen' = [seen EXCEPT ![s] = NOBODY]
    /\ took' = [took EXCEPT ![s] = FALSE]
    /\ UNCHANGED <<server, libFiles, workFiles, draft>>

\* A user deletes his working file between two operations.
UserRemovesCopy(u) ==
    /\ \A s \in Sessions : UserOf[s] = u => pc[s] = "idle"
    /\ work[u] # NoFile
    /\ work' = [work EXCEPT ![u] = NoFile]
    /\ draft' = [draft EXCEPT ![u] = NoFile]
    /\ UNCHANGED <<server, libFiles, workBak, pc, op, locals>>

-----------------------------------------------------------------------------
Request(s) ==
    \/ dmsCCheckoutCellView(s) \/ dmsCEditCellView(s)
    \/ dmsCCheckinCellView(s) \/ dmsCUpdateCellView(s)
    \/ dmsCCancelCheckoutCellView(s)
    \/ dmsCSaveCellView(s) \/ dmsCCreateUnixFile(s)

\* What the process of a session does by itself once it has a request.
Step(s) ==
    \/ CheckOutFind(s) \/ CheckOutExists(s) \/ idb_checkout(s)
    \/ CheckOutWork(s) \/ CheckOutUpdate(s) \/ CheckOutPlace(s)
    \/ UnCheckOutFind(s) \/ UnCheckOutRename(s) \/ idb_cancel_checkout(s)
    \/ UnCheckOutDone(s) \/ UnCheckOutRestore(s)
    \/ CheckInFind(s) \/ CheckInCopy(s) \/ CheckInCopyFails(s)
    \/ CheckInRollback(s) \/ idb_checkin(s) \/ CheckInClean(s)
    \/ osCreateFile(s) \/ Return(s)

Next ==
    \/ \E s \in Sessions :
        Request(s) \/ Step(s) \/ ApplicationWrites(s) \/ terminateHandler(s)
    \/ \E u \in Users : UserRemovesCopy(u)

Spec == Init /\ [][Next]_vars

\* A forked server process is scheduled, and every call it makes returns.
FairSpec == Spec /\ \A s \in Sessions : WF_vars(Step(s))

-----------------------------------------------------------------------------
(* Properties.                                                              *)

\* The sessions of different users run side by side, those of one user not.
OneSession == \A s, t \in Sessions : UserOf[s] = UserOf[t] => s = t

NeedsLock(s) ==
    \/ pc[s] \in {"coWork", "coUpdate", "coPlace", "unVendor", "unRestore",
                  "ciCopy", "ciRollback", "ciVendor"}
    \/ pc[s] \in {"unFind", "unRename"} /\ op[s] # "cancel"
    \/ pc[s] = "unRename" /\ seen[s] = UserOf[s]
    \/ pc[s] = "ciFind" /\ op[s] = "update"
    \/ pc[s] = "ok" /\ op[s] = "checkout"

\* The owner of the lock is read once and used several calls later, across a
\* fork, a copy and a vendor call: it is still the caller then, and a checkout
\* that answers success leaves its caller the holder.
LockHeld == \A s \in Sessions : NeedsLock(s) => locker = UserOf[s]

Quiet(u) == \A s \in Sessions : UserOf[s] = u => pc[s] = "idle"

\* What a user saved under the lock is what he finds at his working path, until
\* he publishes it or gives it up: no failed or interrupted checkin, update or
\* checkout moves, overwrites or loses it.
DraftInPlace ==
    \A u \in Users : draft[u] # NoFile /\ Quiet(u) => WorkData(u) = draft[u]

\* A checkout that answers success has put a file at the working path.
CheckoutDelivers ==
    \A s \in Sessions :
        pc[s] = "ok" /\ op[s] \in {"checkout", "edit"} => osFileExists(UserOf[s])

\* The file of a checkout that took the lock is the latest version: nobody
\* published in between, and no older copy in the working directory shows
\* through.
CheckoutIsLatest ==
    \A s \in Sessions :
        pc[s] = "ok" /\ op[s] \in {"checkout", "edit"} /\ took[s] =>
            WorkData(UserOf[s]) = vault

\* A checkout that took the lock and then failed has given it back.
FailedCheckoutKeepsNoLock ==
    \A s \in Sessions :
        pc[s] = "failed" /\ op[s] \in {"checkout", "edit"} /\ took[s] =>
            locker # UserOf[s]

\* The version a checkin or update creates is the file at the caller's working
\* path, through the copy to the library and the vendor's own reading of it.
PublishesWorkCopy ==
    [][\A s \in Sessions :
          pc[s] = "ciVendor" /\ pc'[s] = "ciClean" =>
              vault' = WorkData(UserOf[s])]_vars

\* Save flushes "to the checkout copy in working directory for later checkin"
\* (integration.txt): what a checkin publishes is what was saved last.
SavedIsPublished ==
    [][\A s \in Sessions :
          /\ pc[s] = "ciVendor" /\ pc'[s] = "ciClean" /\ op[s] = "checkin"
          /\ draft[UserOf[s]] # NoFile
          => vault' = draft[UserOf[s]]]_vars

\* "Recheckout will never overwrite checkout copies already exist in workdir":
\* integration.txt of dmsCCheckoutCellView.
CheckoutKeepsCopy ==
    \A s \in Sessions :
        /\ op[s] \in {"checkout", "edit"} /\ pc'[s] # pc[s] /\ pc'[s] # "idle"
        /\ osFileExists(UserOf[s])
        => WorkData(UserOf[s])' = WorkData(UserOf[s])

RecheckoutNeverOverwrites == [][CheckoutKeepsCopy]_vars

\* While somebody holds the lock and keeps it, only his own sessions change the
\* library's file.
OnlyHolderChangesFile ==
    \A u \in Users :
        locker = u /\ locker' = u /\ lib' # lib =>
            \E s \in Sessions : UserOf[s] = u /\ pc'[s] # pc[s]

HolderOwnsFile == [][OnlyHolderChangesFile]_vars

\* Every request is answered, also when a copy or a link fails half way and a checkin
\* rolls back, or a checkout gives its lock back.
RequestsReturn ==
    \A s \in Sessions : pc[s] \notin {"idle", "write"} ~> pc[s] = "idle"

\* A cancel by the holder of the lock releases it.
CancelReleases ==
    \A s \in Sessions :
        pc[s] = "unFind" /\ op[s] = "cancel" /\ locker = UserOf[s]
            ~> locker # UserOf[s]

\* The calls, their failures and the deaths between them amount to the abstract
\* lock, save, publish and discard.
Abstract == INSTANCE EditSession WITH
    holder <- locker, latest <- vault, Versions <- Contents \cup {Torn}

ImplementsEditSession == Abstract!Spec
=============================================================================
