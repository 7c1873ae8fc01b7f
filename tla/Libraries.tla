----------------------------- MODULE Libraries -----------------------------
(***************************************************************************)
(* One cellview and the places a user's rwpaths policy names: libraries he  *)
(* may write, libraries he may only read, UNIX directories, and his working *)
(* directory.  Each request walks the path and works on the first place     *)
(* that has the cellview (dmsReadCellView, dmsWriteCellView, dmsDelete ...  *)
(* of dmsC_dm.c, find_lib_in_list); install and create put a new cellview   *)
(* into a library, delete takes it away.                                    *)
(*                                                                         *)
(* A session is a dmserver process; a user may have several.  A step of the *)
(* walk looks at one element.  Checkout, checkin, update and cancel are one *)
(* step each once their library is found, with their outcomes: CellView has *)
(* them call by call.  Install and delete are a step per call.              *)
(***************************************************************************)
EXTENDS Naturals, Sequences, FiniteSets

CONSTANTS
    Users,
    Sessions,    \* dmserver processes, one per connected application
    UserOf,      \* the user a session runs as
    Libs, UnixDirs,
    Paths,       \* per user, rwpaths: records [opt, dir]
    worklib,     \* per user, the library that new cellviews go to
    Asks,        \* per user, what he may ask for: <<operation, library or "*">>
    Faults,      \* what may go wrong: see FaultKinds
    NOBODY

FaultKinds ==
    { "query",     \* the vendor does not answer who holds the lock
      "vendor",    \* a call of the vendor's fails
      "place",     \* the link or copy to the working directory fails
      "rename",    \* a working file cannot be moved away
      "copy",      \* the copy of a new cellview to its library fails
      "update",    \* the checkin of an update fails
      "override" } \* the vendor retires and removes what another user has locked

Opts == {"WORK", "UNIX", "RW", "RO"}
Ops == {"readonly", "checkout", "checkin", "update", "cancel", "install",
        "create", "delete"}

\* Files in libraries and UNIX directories: none, an empty or
\* incomplete one, or data.  A working file is the user's own new one, or came from
\* a library.
NoFile == "no file"
Blank == "blank"
Data == "data"
New == "new"
AnyLib == "*"

ASSUME PathAssumption ==
    /\ \A u \in Users :
        /\ Paths[u] \in Seq([opt : Opts, dir : Libs \cup UnixDirs \cup {AnyLib}])
        /\ \A i \in DOMAIN Paths[u] :
            /\ Paths[u][i].opt \in {"RW", "RO"} => Paths[u][i].dir \in Libs
            /\ Paths[u][i].opt = "UNIX" => Paths[u][i].dir \in UnixDirs
    /\ worklib \in [Users -> Libs]
    /\ Asks \in [Users -> SUBSET (Ops \X (Libs \cup {AnyLib}))]
    /\ UserOf \in [Sessions -> Users]
    /\ NOBODY \notin Users
    /\ Libs \cap (UnixDirs \cup {AnyLib, NoFile, New, "workdir"}) = {}

VARIABLES
    vault,       \* per library, the vendor's version, "none" or "retired"
    locker,      \* per library, who has it checked out
    file,        \* per library or UNIX directory, the cellview's file
    work,        \* per user, the file in his working directory
    theLibName,  \* per session: the library asked for, or "*"
    op, pc, at,  \* per session: request, next step, element of the path
    answer       \* per session: the place a read or a create answers

Live(l) == vault[l] \in {Blank, Data}

vars == <<vault, locker, file, work, theLibName, op, pc, at, answer>>
vendor == <<vault, locker>>
locals == <<theLibName, op, at, answer>>

Labels == {"idle", "walk", "hit", "rmWork", "retire", "rmfile", "rmDone",
           "look", "create", "copy", "checkinNew", "unlink", "ls", "rm",
           "ok", "failed", "crashed"}

TypeOK ==
    /\ vault \in [Libs -> {"none", "retired", Blank, Data}]
    /\ locker \in [Libs -> Users \cup {NOBODY}]
    /\ file \in [Libs \cup UnixDirs -> {NoFile, Blank, Data}]
    /\ work \in [Users -> {NoFile, New} \cup Libs]
    /\ theLibName \in [Sessions -> Libs \cup {AnyLib}]
    /\ op \in [Sessions -> Ops \cup {"none"}]
    /\ pc \in [Sessions -> Labels]
    /\ at \in [Sessions -> Nat \ {0}]
    /\ answer \in [Sessions -> {NoFile} \cup Libs \cup UnixDirs \cup {"workdir"}]
    /\ \A l \in Libs : locker[l] # NOBODY => Live(l)

\* Libraries in step with their vaults; some may not have the cellview yet.
Init ==
    /\ vault \in [Libs -> {"none", Data}]
    /\ locker = [l \in Libs |-> NOBODY]
    /\ file \in [Libs \cup UnixDirs -> {NoFile, Data}]
    /\ \A l \in Libs : file[l] = Data <=> vault[l] = Data
    /\ work = [u \in Users |-> NoFile]
    /\ theLibName = [s \in Sessions |-> AnyLib]
    /\ op = [s \in Sessions |-> "none"]
    /\ pc = [s \in Sessions |-> "idle"]
    /\ at = [s \in Sessions |-> 1]
    /\ answer = [s \in Sessions |-> NoFile]

-----------------------------------------------------------------------------
Goto(s, label) == pc' = [pc EXCEPT ![s] = label]

\* The file in the working directory of a session's user.
Work(s) == work[UserOf[s]]
WorkIs(s, x) == work' = [work EXCEPT ![UserOf[s]] = x]

\* The vendor refuses, though it might have done it.
MayFail == "vendor" \in Faults

\* idb_find_version_and_locker: a query that is not answered reads as "not locked".
LockerSeen(l) == {locker[l]} \cup (IF "query" \in Faults THEN {NOBODY} ELSE {})

Elem(s) == Paths[UserOf[s]][at[s]]

\* Where an install or a create goes.
Target(s) == IF theLibName[s] = AnyLib THEN worklib[UserOf[s]] ELSE theLibName[s]

\* The library is the one asked for and has the file in its workspace.
find_lib_in_list(s) ==
    /\ theLibName[s] \in {AnyLib, Elem(s).dir}
    /\ file[Elem(s).dir] # NoFile

-----------------------------------------------------------------------------
\* What a request works on: the path, or the library a cellview is put into; a
\* request that writes needs the working file.
Begin(s, o) ==
    Goto(s, IF o \in {"checkin", "update", "install"} /\ Work(s) = NoFile
            THEN "failed"
            ELSE IF o \in {"create", "install"} THEN "look" ELSE "walk")

\* Mutant: "*" is not put back before a handler runs.
Request_NoReset(s) ==
    /\ pc[s] = "idle"
    /\ \E ask \in Asks[UserOf[s]] :
        /\ op' = [op EXCEPT ![s] = ask[1]]
        /\ theLibName' = IF ask[1] = "create" THEN theLibName
                         ELSE [theLibName EXCEPT ![s] = ask[2]]
        /\ Begin(s, ask[1])
    /\ UNCHANGED <<vendor, file, work, at, answer>>

\* Mutant: what is put back is the empty name.
Request_EmptyName(s) ==
    /\ pc[s] = "idle"
    /\ \E ask \in Asks[UserOf[s]] :
        /\ op' = [op EXCEPT ![s] = ask[1]]
        /\ theLibName' = [theLibName EXCEPT ![s] =
                IF ask[1] = "create" THEN NoFile ELSE ask[2]]
        /\ Begin(s, ask[1])
    /\ UNCHANGED <<vendor, file, work, at, answer>>

\* ProcessMsg puts "*" into theLibName; then the handler puts in the library its
\* request names, which a create does not.
Request(s) ==
    /\ pc[s] = "idle"
    /\ \E ask \in Asks[UserOf[s]] :
        /\ op' = [op EXCEPT ![s] = ask[1]]
        /\ theLibName' = [theLibName EXCEPT ![s] =
                IF ask[1] = "create" THEN AnyLib ELSE ask[2]]
        /\ Begin(s, ask[1])
    /\ UNCHANGED <<vendor, file, work, at, answer>>

\* The result is sent; a server that crashed is started anew.
Return(s) ==
    /\ pc[s] \in {"ok", "failed", "crashed"}
    /\ Goto(s, "idle")
    /\ op' = [op EXCEPT ![s] = "none"]
    /\ at' = [at EXCEPT ![s] = 1]
    /\ answer' = [answer EXCEPT ![s] = NoFile]
    /\ theLibName' = IF pc[s] = "crashed" THEN [theLibName EXCEPT ![s] = AnyLib]
                                          ELSE theLibName
    /\ UNCHANGED <<vendor, file, work>>

\* A user makes a file of his own, or removes his working file, while none of his
\* sessions is at work.
UserWrites(u) ==
    /\ \A s \in Sessions : UserOf[s] = u => pc[s] = "idle"
    /\ work' = [work EXCEPT ![u] = IF work[u] = NoFile THEN New ELSE NoFile]
    /\ UNCHANGED <<vendor, file, pc, locals>>

-----------------------------------------------------------------------------
(* The walk.                                                                *)

\* What each operation looks for at an element.
Matches(s) ==
    LET e == Elem(s) IN
    \/ e.opt = "WORK" /\ op[s] = "readonly" /\ Work(s) # NoFile
    \/ e.opt = "UNIX" /\ op[s] \in {"readonly", "delete"} /\ file[e.dir] # NoFile
    \/ e.opt \in {"RW", "RO"} /\ find_lib_in_list(s)

Walk(s) ==
    /\ pc[s] = "walk" /\ at[s] <= Len(Paths[UserOf[s]])
    /\ IF Matches(s) THEN /\ Goto(s, "hit")
                          /\ UNCHANGED at
                     ELSE /\ at' = [at EXCEPT ![s] = @ + 1]
                          /\ UNCHANGED pc
    /\ UNCHANGED <<vendor, file, work, theLibName, op, answer>>

\* Nothing on the path: a delete still removes the working file.
WalkEnds(s) ==
    /\ pc[s] = "walk" /\ at[s] > Len(Paths[UserOf[s]])
    /\ IF op[s] = "delete" /\ Work(s) # NoFile
       THEN WorkIs(s, NoFile) /\ Goto(s, "ok")
       ELSE Goto(s, "failed") /\ UNCHANGED work
    /\ UNCHANGED <<vendor, file, locals>>

Hit(s, ops, opts) == pc[s] = "hit" /\ op[s] \in ops /\ Elem(s).opt \in opts

\* The path to read: the user's own copy when the vendor says that he has the lock.
\* With copies in his working directory any file there will do, with links it must
\* lead to this library.
dmsSearchCellView(s) ==
    LET l == Elem(s).dir IN
    /\ Hit(s, {"readonly"}, {"RW", "RO"})
    /\ \E holder \in LockerSeen(l) :
        LET own == holder = UserOf[s] /\ Work(s) # NoFile IN
        \/ own /\ answer' = [answer EXCEPT ![s] = "workdir"]
        \/ ~(own /\ Work(s) = l) /\ answer' = [answer EXCEPT ![s] = l]
    /\ Goto(s, "ok")
    /\ UNCHANGED <<vendor, file, work, theLibName, op, at>>

ReadUnixFile(s) ==
    /\ Hit(s, {"readonly"}, {"WORK", "UNIX"})
    /\ answer' = [answer EXCEPT ![s] =
            IF Elem(s).opt = "WORK" THEN "workdir" ELSE Elem(s).dir]
    /\ Goto(s, "ok")
    /\ UNCHANGED <<vendor, file, work, theLibName, op, at>>

\* Nothing is written to a read-only library.
RefuseReadonly(s) ==
    /\ Hit(s, {"checkout", "checkin", "update"}, {"RO"})
    /\ Goto(s, "failed")
    /\ UNCHANGED <<vendor, file, work, locals>>

-----------------------------------------------------------------------------
(* Checkout, checkin, update and cancel, by their outcomes.                 *)

\* The vendor checks out what is free, and once more what the user has.
CanLock(s, l) == locker[l] \in {UserOf[s], NOBODY} /\ Live(l)

LockIs(l, who) == locker' = [locker EXCEPT ![l] = who]
FileIs(l, x) == file' = [file EXCEPT ![l] = x]

\* Placing the copy failed, and the undo gives the lock back, if it is told that the
\* user has it, can move a half copy away, and the vendor lets it.
CheckOutUndone(s, l, fetched) ==
    /\ \/ LockIs(l, NOBODY) /\ FileIs(l, vault[l]) /\ UNCHANGED work
       \/ /\ Faults \cap {"query", "rename", "vendor"} # {}
          /\ LockIs(l, UserOf[s]) /\ FileIs(l, fetched)
          /\ UNCHANGED work \/ WorkIs(s, l)
    /\ Goto(s, "failed")

\* The user has the lock, and no file at the working path.  (A link to nothing is no
\* file.)
PlaceCopy(s, l, fetched) ==
    \/ /\ LockIs(l, UserOf[s])
       /\ FileIs(l, fetched)
       /\ WorkIs(s, IF fetched = NoFile THEN NoFile ELSE l)
       /\ Goto(s, "ok")
    \/ /\ fetched = NoFile \/ "place" \in Faults
       /\ CheckOutUndone(s, l, fetched)

\* A checkout that the vendor made, and that idb_checkout reports as failed.
LockedInVain(s, l) ==
    /\ CanLock(s, l) /\ MayFail
    /\ LockIs(l, UserOf[s]) /\ FileIs(l, vault[l])
    /\ UNCHANGED work
    /\ Goto(s, "failed")

dmsCheckOutCellView(s) ==
    LET l == Elem(s).dir
        u == UserOf[s]
    IN
    /\ Hit(s, {"checkout"}, {"RW"})
    /\ \E holder \in LockerSeen(l) :
        \/ /\ holder = u /\ work[u] # NoFile
           /\ Goto(s, "ok")
           /\ UNCHANGED <<locker, file, work>>
        \/ /\ holder = u /\ work[u] = NoFile
           /\ PlaceCopy(s, l, file[l])
        \/ /\ holder = NOBODY /\ work[u] = NoFile /\ CanLock(s, l)
           /\ \E fetched \in {vault[l]} \cup (IF locker[l] = u THEN {file[l]} ELSE {}) :
                PlaceCopy(s, l, fetched)
        \/ /\ holder = NOBODY /\ work[u] = NoFile
           /\ LockedInVain(s, l)
        \/ /\ \/ holder \notin {u, NOBODY}
              \/ holder = NOBODY /\ (work[u] # NoFile \/ ~CanLock(s, l) \/ MayFail)
           /\ Goto(s, "failed")
           /\ UNCHANGED <<locker, file, work>>
    /\ UNCHANGED <<vault, locals>>

\* The working file becomes the new version, and is removed.  An update that finds
\* none any more has placed the library's own first.
Publish(s, l) ==
    LET data == IF Work(s) = NoFile THEN vault[l] ELSE Data IN
    /\ vault' = [vault EXCEPT ![l] = data]
    /\ FileIs(l, data)
    /\ LockIs(l, NOBODY)
    /\ WorkIs(s, NoFile)
    /\ Goto(s, "ok")

dmsCheckInCellView(s) ==
    LET l == Elem(s).dir IN
    /\ Hit(s, {"checkin"}, {"RW"})
    /\ \E holder \in LockerSeen(l) :
        \/ holder = UserOf[s] /\ Work(s) # NoFile /\ Publish(s, l)
        \/ /\ holder # UserOf[s] \/ Work(s) = NoFile \/ MayFail
           /\ Goto(s, "failed")
           /\ UNCHANGED <<vendor, file, work>>
    /\ UNCHANGED locals

\* A checkout that does not mind the working file, and a checkin.  When the
\* checkin fails the lock stays.
dmsUpdateCellView(s) ==
    LET l == Elem(s).dir
        u == UserOf[s]
    IN
    /\ Hit(s, {"update"}, {"RW"})
    /\ \E holder \in LockerSeen(l) :
        LET goesOn == holder = u \/ (holder = NOBODY /\ CanLock(s, l)) IN
        \/ goesOn /\ Publish(s, l)
        \/ /\ goesOn /\ "update" \in Faults
           /\ LockIs(l, u) /\ FileIs(l, Data)
           /\ Goto(s, "failed")
           /\ UNCHANGED <<vault, work>>
        \/ holder = NOBODY /\ LockedInVain(s, l) /\ UNCHANGED vault
        \/ /\ holder # u /\ (~goesOn \/ MayFail)
           /\ Goto(s, "failed")
           /\ UNCHANGED <<vendor, file, work>>
    /\ UNCHANGED locals

\* Mutant: the working file stays where it is.
dmsUnCheckOutCellView_KeepsFile(s) ==
    LET l == Elem(s).dir IN
    /\ Hit(s, {"cancel"}, {"RW", "RO"})
    /\ IF locker[l] = UserOf[s]
       THEN LockIs(l, NOBODY) /\ FileIs(l, vault[l]) /\ Goto(s, "ok")
       ELSE Goto(s, "failed") /\ UNCHANGED <<locker, file>>
    /\ UNCHANGED <<vault, work, locals>>

\* Read-only libraries are not skipped.  The working file is moved away before
\* the locker is compared; only a refusing vendor brings it back.
dmsUnCheckOutCellView(s) ==
    LET l == Elem(s).dir IN
    /\ Hit(s, {"cancel"}, {"RW", "RO"})
    /\ \E holder \in LockerSeen(l) :
        \/ /\ holder = UserOf[s]
           /\ LockIs(l, NOBODY) /\ FileIs(l, vault[l])
           /\ WorkIs(s, NoFile)
           /\ Goto(s, "ok")
        \/ /\ holder # UserOf[s]
           /\ WorkIs(s, NoFile)
           /\ Goto(s, "failed")
           /\ UNCHANGED <<locker, file>>
        \/ /\ \/ holder = UserOf[s] /\ MayFail
              \/ Work(s) # NoFile /\ "rename" \in Faults
           /\ Goto(s, "failed")
           /\ UNCHANGED <<locker, file, work>>
    /\ UNCHANGED <<vault, locals>>

-----------------------------------------------------------------------------
(* Delete.                                                                  *)

\* The file of a UNIX directory goes, and that is all.
DeleteUnixFile(s) ==
    /\ Hit(s, {"delete"}, {"UNIX"})
    /\ file' = [file EXCEPT ![Elem(s).dir] = NoFile]
    /\ Goto(s, "ok")
    /\ UNCHANGED <<vendor, work, locals>>

\* A read-only library keeps its cellview, and the request succeeds.
DeleteReadonly(s) ==
    /\ Hit(s, {"delete"}, {"RO"})
    /\ Goto(s, "ok")
    /\ UNCHANGED <<vendor, file, work, locals>>

\* Mutant: only what another user has checked out is kept.
dmsRmCellView_OwnLock(s) ==
    /\ Hit(s, {"delete"}, {"RW"})
    /\ \E holder \in LockerSeen(Elem(s).dir) :
        Goto(s, IF holder \in {UserOf[s], NOBODY} THEN "rmWork" ELSE "failed")
    /\ UNCHANGED <<vendor, file, work, locals>>

\* What anybody is said to have checked out is not deleted.
dmsRmCellView(s) ==
    /\ Hit(s, {"delete"}, {"RW"})
    /\ \E holder \in LockerSeen(Elem(s).dir) :
        Goto(s, IF holder = NOBODY THEN "rmWork" ELSE "failed")
    /\ UNCHANGED <<vendor, file, work, locals>>

RmWorkFile(s) ==
    /\ pc[s] = "rmWork"
    /\ WorkIs(s, NoFile)
    /\ Goto(s, "retire")
    /\ UNCHANGED <<vendor, file, locals>>

\* An assumption about the vendor: it does not touch what others have locked.
\* idb_delete_cellview itself asks nothing.
VendorLets(who, l) == locker[l] \in who \/ "override" \in Faults

\* idb_delete_cellview retires the version ...
sapiRetire(s) ==
    LET l == Elem(s).dir
        can == Live(l) /\ file[l] # NoFile /\ VendorLets({UserOf[s], NOBODY}, l)
    IN
    /\ pc[s] = "retire"
    /\ \/ /\ can
          /\ vault' = [vault EXCEPT ![l] = "retired"]
          /\ LockIs(l, NOBODY)
          /\ Goto(s, "rmfile")
       \/ /\ ~can \/ MayFail
          /\ Goto(s, "failed")
          /\ UNCHANGED vendor
    /\ UNCHANGED <<file, work, locals>>

\* ... and removes the file, which may be that of a new version by now.
sapiRmfile(s) ==
    LET l == Elem(s).dir
        can == file[l] # NoFile /\ VendorLets({NOBODY}, l)
    IN
    /\ pc[s] = "rmfile"
    /\ \/ /\ can
          /\ FileIs(l, NoFile)
          /\ Goto(s, "rmDone")
       \/ /\ ~can \/ MayFail
          /\ Goto(s, "failed")
          /\ UNCHANGED file
    /\ UNCHANGED <<vendor, work, locals>>

RmDone(s) ==
    /\ pc[s] = "rmDone"
    /\ WorkIs(s, NoFile)
    /\ Goto(s, "ok")
    /\ UNCHANGED <<vendor, file, locals>>

-----------------------------------------------------------------------------
(* Install and create.                                                      *)

\* idb_create_cellview: does the cellview exist, in the workspace or the vault?
\* The vault is asked by a path that not every layout of a library uses.
idb_url_exists(s) ==
    LET l == Target(s) IN
    /\ pc[s] = "look"
    /\ \E inVault \in {FALSE, vault[l] # "none"} :
        Goto(s, IF (file[l] # NoFile \/ inVault)
                   /\ ~(file[l] # NoFile /\ vault[l] = "retired")
                THEN "failed" ELSE "create")
    /\ UNCHANGED <<vendor, file, work, locals>>

\* ddGetObj in mode "w" makes the file, or takes the one that is there.  A create
\* then calls install, which finds the file and does nothing, and answers success.
ddGetObj(s) ==
    LET l == Target(s) IN
    /\ pc[s] = "create"
    /\ \/ /\ file' = IF file[l] = NoFile THEN [file EXCEPT ![l] = Blank] ELSE file
          /\ Goto(s, IF op[s] = "create" THEN "ok" ELSE "copy")
          /\ answer' = [answer EXCEPT ![s] = l]
       \/ /\ Goto(s, "failed")
          /\ UNCHANGED <<file, answer>>
    /\ UNCHANGED <<vendor, work, theLibName, op, at>>

\* A copy that fails leaves the file as it is then.
InstallCopy(s) ==
    LET l == Target(s) IN
    /\ pc[s] = "copy"
    /\ \/ /\ file' = [file EXCEPT ![l] = Data]
          /\ Goto(s, "checkinNew")
       \/ /\ "copy" \in Faults
          /\ file' \in {file, [file EXCEPT ![l] = Blank]}
          /\ Goto(s, "failed")
    /\ UNCHANGED <<vendor, work, locals>>

\* A retired or a managed cellview may be taken as a new version or refused.
CheckInNew(s) ==
    LET l == Target(s) IN
    /\ pc[s] = "checkinNew"
    /\ \/ /\ file[l] # NoFile
          /\ locker[l] \in {UserOf[s], NOBODY}
          /\ vault' = [vault EXCEPT ![l] = file[l]]
          /\ locker' = [locker EXCEPT ![l] = NOBODY]
          /\ WorkIs(s, NoFile)
          /\ Goto(s, "ok")
       \/ /\ \/ file[l] = NoFile \/ vault[l] # "none" \/ MayFail
          /\ Goto(s, "unlink")
          /\ UNCHANGED <<vendor, work>>
    /\ UNCHANGED <<file, locals>>

\* Mutant: the file is left.
InstallUnlink_Keeps(s) ==
    /\ pc[s] = "unlink"
    /\ Goto(s, IF theLibName[s] = AnyLib THEN "crashed" ELSE "ls")
    /\ UNCHANGED <<vendor, file, work, locals>>

\* The file that was installed is removed.  Then the directories above it are
\* looked at up to the library's, whose path is found by the name asked for; "*" is
\* the name of no library, and comparing with its path is the end of the process.
InstallUnlink(s) ==
    /\ pc[s] = "unlink"
    /\ file' = [file EXCEPT ![Target(s)] = NoFile]
    /\ Goto(s, IF theLibName[s] = AnyLib THEN "crashed" ELSE "ls")
    /\ UNCHANGED <<vendor, work, locals>>

\* An empty directory is removed with whatever has come into it since.
InstallLs(s) ==
    /\ pc[s] = "ls"
    /\ \/ file[Target(s)] = NoFile /\ Goto(s, "rm")
       \/ Goto(s, "failed")
    /\ UNCHANGED <<vendor, file, work, locals>>

InstallRm(s) ==
    /\ pc[s] = "rm"
    /\ file' = [file EXCEPT ![Target(s)] = NoFile]
    /\ Goto(s, "failed")
    /\ UNCHANGED <<vendor, work, locals>>

-----------------------------------------------------------------------------
Step(s) ==
    \/ Walk(s) \/ WalkEnds(s) \/ dmsSearchCellView(s) \/ ReadUnixFile(s)
    \/ RefuseReadonly(s) \/ dmsCheckOutCellView(s) \/ dmsCheckInCellView(s)
    \/ dmsUpdateCellView(s) \/ dmsUnCheckOutCellView(s)
    \/ DeleteUnixFile(s) \/ DeleteReadonly(s) \/ dmsRmCellView(s)
    \/ RmWorkFile(s) \/ sapiRetire(s) \/ sapiRmfile(s) \/ RmDone(s)
    \/ idb_url_exists(s) \/ ddGetObj(s) \/ InstallCopy(s) \/ CheckInNew(s)
    \/ InstallUnlink(s) \/ InstallLs(s) \/ InstallRm(s) \/ Return(s)

Next ==
    \/ \E s \in Sessions : Request(s) \/ Step(s)
    \/ \E u \in Users : UserWrites(u)

Spec == Init /\ [][Next]_vars

-----------------------------------------------------------------------------
(* Properties.                                                              *)

\* No two sessions run as the same user.
OneSession == \A s, t \in Sessions : UserOf[s] = UserOf[t] => s = t

\* An operation on the library that a user has checked out from takes his working
\* file away only when it gives up his lock, whatever other users do in between.  It
\* needs two things: an answer to every query of the lock, without which a cancel
\* moves the file away and a delete removes it, and a session per user, because a
\* delete relies for several steps on a lock it looked at once.
LockedDraftKept ==
    [][\A s \in Sessions, l \in Libs :
        /\ locker[l] = UserOf[s] /\ Work(s) = l /\ work'[UserOf[s]] # l
        /\ pc[s] \in {"hit", "rmWork", "rmDone"} /\ Elem(s).dir = l
        /\ pc'[s] # pc[s]
        => locker'[l] # UserOf[s]]_vars

\* A working copy that a checkout placed does not outlive its lock, also when calls
\* fail and locks are not answered: it would be the "illegal copy" that keeps its user
\* from ever checking the cellview out again (dmsC_dm.c:768).
PlacedCopyHasLock ==
    \A u \in Users, l \in Libs : work[u] = l => locker[l] = u

\* "Checkout versions will become not deletable in libraries": what is checked out
\* stays, also for a delete or an install that began before the checkout.
CheckedOutStays ==
    [][\A l \in Libs :
        locker[l] # NOBODY => vault'[l] # "retired" /\ file'[l] # NoFile]_vars

\* "This procedure creates a cellview in the worklib": whatever libraries the requests
\* before it named, a create makes the cellview in its user's worklib.
CreateInWorklib ==
    \A s \in Sessions :
        pc[s] = "ok" /\ op[s] = "create" => answer[s] = worklib[UserOf[s]]

\* The data an install has copied into a library becomes a version, or goes: while
\* the vault does not know the cellview, somebody is still at work on it.  Of blank
\* files, which a create or a copy that failed leaves for good, it says nothing.
CopyIsManaged ==
    \A l \in Libs : file[l] = Data /\ vault[l] = "none" =>
        \E s \in Sessions : pc[s] \in {"checkinNew", "unlink"} /\ Target(s) = l
=============================================================================
