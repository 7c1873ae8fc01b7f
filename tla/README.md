# Verification of dmserver / iDMS

dmserver gives design applications access to a version-controlled library of
*cellviews*. An application asks for a cellview to be checked out, edited, saved,
checked in; iDMS, the library inside dmserver, moves the file between the
library's workspace and the user's working directory and talks to the vendor's
data manager (DesignSync) for locks and versions. This directory holds TLA+ models
of that program, the TLC runs that check them, and theorems proved with TLAPS.

Paths below are relative to the repository's `src/` unless they start with `setup/`.

## 1. Inventory

| Component | Source | State | Operations | Interacts with | Module |
|---|---|---|---|---|---|
| Cellview edit operations | `iDMS/dmsC_dm.c`, `dmsC_API_1.c`, `os_UNIX.c` | library file and its `~` backup, working file and its `~`, per-call locals `FPN`, `locker` | checkout, edit, checkin, update, cancel, save, createUnixFile | vendor adapter, policies, other sessions through the file system | `CellView` |
| Library search | `dmsC_dm.c`, `dmsC_internal_functions.c` | `theLibName`, which `ProcessMsg` puts back to `*` before each request; `theRwpaths` | walk `rwpaths` for the cellview, for each operation with its own tests | policies, cellview operations | `Libraries` |
| Install, create, delete | `dmsC_dm.c`, `dmsC_API_1.c`, `idb_functions.c` | library files, vendor objects | several vendor calls and removals in a row | vendor adapter | `Libraries` |
| Vendor adapter | `iDMS/idb_functions.c` | lock and versions live at the vendor | find version and locker, checkout, checkin, cancel, create, retire | DesignSync (`sapi*`, external) | by outcome in `CellView`, `Libraries` |
| Policies (`dms.pth`) | `iDMS/fwidms.yacc`, `dmsC_functions2.c` | an array of named values per policy | define, append, redefine, search | every operation starts with a search | `PolicyTable` |
| Session loop | `dmserver/dmserver.c`, `opusp2p.c` | one process per application, `inter_itc_init` | receive, process, initialise, reply; signals | transport, handlers | `Session` |
| Transport | `dmserver/p2p.c`, `interp2p.c`, `ntsock.c` | message buffers, `recv_length`, `len` | send, receive, reply in two parts | client and server | `Session` |
| Handlers | `dmserver/interprocs44.c` | none | unpack, call iDMS, pack | session loop, iDMS | `Session`, one of each form |
| Client table | `dmserver/hashUtils.c` | the client's node with the message for its report | create, set, get, delete | handlers | `Session`, variable `node` |
| Skill IPC | `dmserver/server_ipc.c` | one connection, buffered standard input | forward expressions, read values | applications; Cadence on stdin and stdout | `ServerIpc` |
| Turbo cache, status and messages, triggers, attributes, view table, browser, idmSlave, ITK, mars and bundle, vendored code | see section 6 | | | | |

**What is hard in it.** Sessions share files and the vendor's locks with nothing but
the vendor's lock between them: the owner is read once and relied on across a
fork, a `cp` and another vendor call. Operations of many steps fail in the middle
and roll back from a `~` file that anybody's earlier operation may have left. A
process may be killed between any two steps (and, with a connection, is: the
`SIGCHLD` of every copy ends it, `dmserver.c:243`). Working files may be links to the library
file, so that two names are one inode. Each user has his own path of libraries,
every operation walks it with other tests, and the library that a request
names is a global. Install and delete are sequences of vendor calls with
nothing held between them. Requests and replies carry no number: a reply belongs to the
request that is waiting, a value that comes back from Cadence to whoever is connected.
The search of the policies depends on positions in an array that redefinitions keep.
`PROJECT.json` lists these hazards, each at its line, with the properties that
cover it or the reason why none does.

**What makes each component correct.** Edit operations: what a user saved under
the lock is never lost, and it is what he publishes; only the holder publishes;
a failed operation leaves no lock behind; every request is answered. Library search:
an operation that found the library a user works in takes his working file away
only with his lock, and no working copy is left without one. Install, create and delete: data that were copied into a
library become a version or go, a create goes to the worklib, nothing that is checked out is taken away. Policies: the
value found is the last one defined for the name of the best rank. Session: a call
returns its own result or an error, and returns; a server whose client has gone ends.
Skill IPC: a value reaches the call that asked for it.

## 2. Modules

| Module | What it is |
|---|---|
| `CellView` | the edit operations of one cellview in one library, by any number of sessions |
| `EditSession` | what they amount to: lock, save, publish, discard, unlock |
| `CellViewProofs` | theorems about `CellView`: types, the lock, the library's file, recheckouts |
| `CellViewRefinement` | theorems about `CellView`: what is saved, what is published, and that it implements `EditSession` |
| `Libraries` | one cellview along the paths of several users: every operation, install, create and delete |
| `LibrariesProofs` | theorems about `Libraries` |
| `PolicyTable` | one policy: the parser's array and its search |
| `PolicyMap` | what it amounts to: a map from names to their last values |
| `PolicyTableProofs` | theorems about `PolicyTable`: the parser's array and that it implements `PolicyMap` |
| `PolicySearchProofs` | the theorem about its search |
| `Session` | one application, its server and the byte streams between them |
| `Rpc` | what it amounts to: a call is executed at most once and returns its own result or an error |
| `SessionTypes` | `Session`: sequences as streams, and its types |
| `SessionCalls` | theorems about `Session`: whose parts the streams hold, and that it implements `Rpc` |
| `ServerIpc` | the server between applications and Cadence |
| `ServerIpcProofs` | theorems about `ServerIpc` |
| `MCCellView`, `MCLibraries`, `MCPolicyTable`, `MCSession`, `MCServerIpc` | instances for TLC |

An action is named after the function it stands for, where there is one.

### CellView

An action is one system call or vendor call with the decisions up to the next:
`pc[s]` is the call that session `s` makes next. `CheckOut*` and `idb_checkout` are
`dmsCheckOutCellView`, `UnCheckOut*` and `idb_cancel_checkout` are
`dmsUnCheckOutCellView`, `CheckIn*` and `idb_checkin` are `dmsCheckInCellView`; the
actions named `dmsC...` are the API's entry points. `Return` is the common exit.

| Variable | In the code |
|---|---|
| `locker`, `vault` | the vendor's lock and the latest version |
| `lib`, `libBak` | the files `FPN` and `FPN~` in the library's workspace |
| `work`, `workBak` | per user, the working file and its `~` |
| `fpn`, `seen` | the locals `FPN` (which file it names) and `locker` |
| `draft`, `took` | history: what was saved under the lock and not yet published or given up; whether this checkout took the lock |

Files hold a content, nothing (`NoFile`), a part of a content (`Torn`) or, in the
working directory, a link to the library file. `access`, `stat` and `cp -L` follow
it, `rename` and `unlink` do not, and the library file is writable through it for
the locker only. What may go wrong is the constant `Faults`: a lock query with no
answer (reads as *not locked*), a failing vendor call, a copy or link that fails,
perhaps half way, a rename that fails, and a signal that kills the process.

The model starts after the pre-trigger; a trigger that refuses ends the request
before its first step. The vendor's calls are its documented outcomes, among them
a checkout that is reported as failed with the lock taken (`check_read_only`).

### Libraries

`Paths[u]` is the user's `rwpaths`: libraries he may write (`RW`) or only read (`RO`),
UNIX directories and the working directory. `Walk` is one turn of the loops of
`dmsReadCellView`, `dmsWriteCellView`, `dmsCancelCheckOutCellView` and `dmsDelete`;
`Matches` is the test of each, with `find_lib_in_list`. Once an element matches
(`pc = "hit"`), checkout, checkin, update and cancel are one step each, by the
outcomes that `CellView` has in detail, those of an unanswered query and a failed undo among
them: only the user himself changes his own lock, so with one session nothing that matters here comes between. (Two
sessions of one user interleave between requests and between the steps of the other operations, not within these.)
Install (`idb_url_exists`, `ddGetObj`,
`InstallCopy`, `CheckInNew` and its clean-up `InstallUnlink`, `InstallLs`, `InstallRm`)
and delete (`dmsRmCellView`, `RmWorkFile`, `sapiRetire`, `sapiRmfile`, `RmDone`) are a
step per call.

| Variable | In the code |
|---|---|
| `vault`, `locker` | per library, the vendor's version (none, retired, blank, data) and lock |
| `file` | per library or UNIX directory, the file in its workspace |
| `work` | per user, the file in his working directory: none, his own new one, or a library's |
| `theLibName` | the global of that name, one per process; `Request` puts it back, as `ProcessMsg` does |
| `op`, `at` | the request and the loop's element |
| `answer` | the path that a read or a create answers |

A session is a process, and `UserOf` says whose: a user may have several. What may go wrong is the constant `Faults`
(`FaultKinds`): a lock query without an answer, which reads as *not locked* (`idb_functions.c:2252`), failing vendor calls,
renames, links and copies. One kind is about the vendor: `idb_delete_cellview` asks nothing about locks, and the model assumes that
`sapiRetire` and `sapiRmfile` refuse what another user has locked, unless `"override"` is in `Faults`.

The model keeps what the code does where one may expect otherwise: create calls install, which finds
the file that create made, does nothing and answers success, so that a blank, unmanaged
file stays, as it does when the copy of an install fails (`dmsC_dm.c:1022-1032`; `CopyIsManaged` speaks of data only); a delete that meets a read-only library answers success and deletes nothing, and one that
meets a writable one removes the working file before it asks the vendor; a cancel moves the working file away
before it compares the locker, also in a library that only stands before the user's own on his path;
a failed update keeps the lock its checkout took; an install
asked with `*` whose checkin is refused ends the process (`dmsC_dm.c:1074`, label
`crashed`), because the clean-up compares with the path of a library named `*`. The link or
the copy in the working directory: `dmsSearchCellView` answers either where the two
modes differ.

### PolicyTable

`table` is the array, `defs` the history of the names defined. `Define` is a line of
`dms.pth`: `NEWINFO` appends an entry, the value is read with `<append>` replaced by
the previous value of the same name (`GETAPPEND`), and `FREEOLDDEF` moves the value
to the old entry of the name, if there is one, and drops the new. `findPolicyEntry`
is the loop from the last entry to the first, as a fold, with its four candidates
and its tests for an index above 0. Positions in the model count from 1. A
tool's name being a prefix of another's, which `strncmp` tests, is the constant
relation `ToolPrefix`. Included files are read in place, so they are definitions
like any others.

### Session

The streams hold cells: one is the length word, `BodyCells` the body, `BigCells` the
string that follows the reply to a listing. `wire[e]` is on its way to an end, `inbox[e]` has
arrived. `Arrive` moves any part of a string, and messages whole. `GetRecvLength`,
`OnlyLength` and `BadLength` are the outcomes of the two length readers, which ask
`FIONREAD` what is there; `ReadSome` is one turn of the loop of `ReceiveMsg`, which asks for the whole length
each time. `buffer`, `want` and `len` are `msgBuffer`/`interMsg`, `recv_length` and `len`.

`interCommunicate` is a call of the client library, `ClientReceives...` its reads;
`ServerReceives...`, `ProcessMsg`, `dmsCPIInitDMS`, `SendMsg` and `SendBig` are the turns of
the server's main loop: the first message is processed before the data manager is
initialised (`started`). The handlers are one of each form: `intersInit`, a cellview
operation, a listing, `report`, `intersExit`. `node` is the client's node in the hash table:
a process serves one client, so the table has one node or none. `terminateHandler` is a
signal. `SendMsg` fails when the client has gone, and, with `"busy"` in `Faults`, when `CheckForWrite` has waited for a second in vain
(`WriteTimesOut`); the server goes on to receive in both cases, and the client's call fails. `calls`, `returned`, `log` and the field `call` of a message are history; no action's
guard reads `call`.

### ServerIpc

| Variable | In the code |
|---|---|
| `state`, `asked`, `got` | per application, where it is in a call, its last call, what its last call for a value returned |
| `toServer`, `toClient` | its socket, both ways |
| `stdout`, `stdin` | the pipes to and from Cadence |
| `stdio` | what `fgets` has read from the pipe beyond the line it returned, which `select` does not see |
| `srv`, `csock`, `dataRead` | the loop it is in, `csock`, and `dataRead`, which is set when the client has sent something |
| `givenUp` | history: somebody has left a call without its answer |
| `parts` | history: how many values and expressions came in two parts |

`WaitForConnection`, `Flush` (the pipe is emptied before a client is served),
`ProcessInput` (all that came is read, the first string of it is processed), `ReadEnd`
and `evalSkillReturnHandler_sipc` (a line from Cadence goes to the client) are the
server; `Call`, `ReadAck`, `ReadValue`, `TimeOut`, `disconnect_ipc` and `Die` are the client functions of the
same file. `Evaluate` is Cadence, which is external: it evaluates in order. Two limits are in the model and
counted in `parts`: `fgets` takes 1023 bytes (`server_ipc.c:640`), so a longer value is two strings
for the client (`Evaluate`, third case), and `readLine` takes what `FIONREAD` reports (193-203), so
an expression may be processed as it begins and its rest as an expression of its own, which is evaluated
and acknowledged (`ProcessPart`). `LeaveLoop` is each way out of the inner loop. Only `TerminateConnection` and `SIGPIPE`
close the socket there; at the end of a stream it is left open (621-624), and its descriptor leaks.
That, and strings for a client that he reads in pieces, are not modelled.

## 3. Runs

| Run | Bounds | Shows |
|---|---|---|
| `ops` | two users, one session each, one with links and one with copies; two contents; vendor, rename, kill | `TypeOK`, `DraftInPlace`, `CheckoutDelivers`, `LockHeld`, `CheckoutIsLatest`, `PublishesWorkCopy`, `RecheckoutNeverOverwrites`, `HolderOwnsFile`, `ImplementsEditSession` |
| `undo` | the same users, one content, failing copies | `FailedCheckoutKeepsNoLock`, `RequestsReturn` |
| `live` | two sessions of one user, no faults | `CancelReleases` |
| `libraries` | two users, one session each, two libraries and a UNIX directory; vendor calls, links, copies, renames and updates fail | `TypeOK`, `PlacedCopyHasLock`, `CopyIsManaged`, `CreateInWorklib`, `LockedDraftKept` |
| `policy` | seven names over two tools and two views, four definitions | `TypeOK`, `LookupPriority`, `OneEntryPerName`, `ImplementsPolicyMap` |
| `session` | four calls of any kind, bodies and strings of two cells; signals anywhere, failing initialisation, messages in pieces, writes that time out | `TypeOK`, `PartsBelongTogether`, `ImplementsRpc`, `ServerEnds` |
| `session_returns` | the same; signals but between the parts of a reply, failing initialisation | `CallsReturn` |
| `skill_ipc` | two applications, three calls, one application impatient, one value or expression in two parts | `TypeOK`, `PatientGetsOwn`, `NothingUnasked`, `CallsReturn`, `ServerFree` |
| `saved_is_published` | one user with links; vendor and copies fail | violation, finding 1 |
| `checkout_delivers` | two users; copies fail | violation, finding 2 |
| `checked_out_stays` | `libraries` without faults | violation, finding 3 |
| `returns_eval_result` | `skill_ipc` with four calls and nothing in parts | violation, finding 4 |

**Why the bounds are enough.** *CellView*: all behaviour of a session depends on its own
user's files, on the shared library and on whether the locker is itself, nobody
or another; two users give each of these, and the two modes of placing a working
copy meet in one run. Two contents tell an old version from a new one; where a
property only asks who has the lock or whether there is a file, one is enough. There is no
bound on the number of operations: the state space is finite and fully explored.
`undo` leaves the history variable `draft` out of the state by a `VIEW`:
neither its properties nor any guard reads it, and no action changes it alone, so that a step of the model is a step
of the view. `RequestsReturn` is checked there, with copies that fail in every operation; with every kind of failure at once the
state space is too large for a liveness run. *Libraries*: again no bound on requests. The
paths differ in the order of the libraries, in what they may do to `A` and in what else they name, so
that each user meets the other's library first, a read-only library, a UNIX directory and the end of
the path; the worklibs differ too. Two processes are needed for each of its races, and no step
depends on the identity of more than one other user. What may be asked (`TwoAsks`) is everything for one user; the other
asks for what gets in the way of the first. *PolicyTable*: four definitions suffice
for a redefinition, an append to it, an overlap and a default redefined around them.
*Session*: a report depends on the last operation and on `init` and `exit`, so four calls give
`init`, an operation, an exit or a listing, and a report; two cells are enough for a read that takes a part. *ServerIpc*: three calls make a late value
meet a call for a value and one without, of the same application or of the next.

`CHECK_DEADLOCK FALSE` stands where the system stops: a `dms.pth` ends, an application has
made its calls and gone, all applications have come and left.

**Fairness.** `CellView!FairSpec` is weak fairness of each session's own steps: the operating
system schedules a process and a system or vendor call returns. New requests, the
application's write after a save, a user's clean-up and signals are not fair. It
describes a session over pipes, which no `SIGCHLD` handler ends. `Session!FairSpec`: both processes are
scheduled and the network delivers; nothing makes an application call or go, or a
signal come. `ServerIpc!FairSpec`: the server and Cadence run, and an application that waits
reads what has come; no application need call, time out or leave.

**Mutants.** Each property of a passing run has one: a definition of the code changed as a bug
might (a dropped guard, a swapped copy, an undo left out). They stand before the
definition they change and are named after it.

### Findings

1. *Rollback of a backup* (`dmsC_dm.c:938-941`). With a linked working copy, checkin copies
   `FPN` to `FPN~`. When that fails half way the rollback renames the partial `FPN~` onto
   the untouched `FPN`, and a retry publishes it. `setup/iDMS_doc/integration.txt:118-120`.
2. *Late clean-up* (`dmsC_dm.c:952`). A checkin unlinks `FPN~` after it gave the lock back;
   it may be the next holder's backup. `integration.txt:533-535`.
3. *Install race* (`dmsC_dm.c:1071`). Of two installs of one cellview the one whose checkin is refused unlinks the
   file, which is the other's by then and may be checked out. `integration.txt:532`.
4. *Values are paired with calls by order only* (`server_ipc.c:329`). After a call that timed out the
   next one returns a string that belongs to it: its acknowledgement, as in the trace, or its value, without the first
   character if that has been read as an acknowledgement. `include/p2pitc/server_ipc.h:4`: "returns the eval result".

### Known divergences without a run

Each is seen by changing the constants of a run.

- *Recheckout* (`dmsC_dm.c:821-829`). Two sessions of one user in copy mode: the look for a
  working copy and the copy are separate, and the second overwrites what the first one's user has saved
  since; `integration.txt:535-537` says a recheckout never does. `ops` with `UserOf <- MCOneUser`, `Users = {u1}`, `LinkUsers = {}`
  violates `RecheckoutNeverOverwrites`, and other properties of the run with it.
- *Redefinition* (`fwidms.yacc:132-148`). A policy defined again keeps its old place, so
  that an older policy with an overlapping view list still wins (`dmspath.txt:90-91`).
  `PolicyTable!LastDefinitionWins` states it; `policy` with `Names <- OverlapNames` violates it.
- *Prefix* (`dmsC_functions2.c:279`). The policy of tool `am` is found for tool `amps`
  (`dmspath.txt:350-351`). `policy` with `ToolPrefix <- AmPrefix`
  violates `LookupPriority`.
- *A lock query that is not answered* (`idb_functions.c:2252`, `2395-2403`). It reads as *not locked*: a read then answers the library's
  file to the one who has it checked out, a cancel moves his working file away and keeps the lock
  (`dmsC_dm.c:1126-1153`), and a delete removes the file (1495-1500). `libraries` with `Faults = {"query"}` violates `LockedDraftKept`.
- *Two sessions of one user* in `libraries` (`UserOf <- SameUser`): one checks out between the other's look at the lock and its removal of the
  working file or its retire. `LockedDraftKept` and `PlacedCopyHasLock` are violated.
- *A retire under another's lock*. iDMS asks the vendor nothing about it. Should he let it, `libraries` with
  `Faults = {"override"}` violates `PlacedCopyHasLock`.
- *`theLibName` outside dmserver*. The reset of `dmserver.c:340` is the server's. A program that links the API itself and creates after a
  request by name creates in that library: `Request_NoReset`, the mutant for `CreateInWorklib`, is that program.
- *A reply in pieces* (`p2p.c:389`). After a partial read `ReceiveMsg` asks for the whole
  length again and may take the beginning of the string with the body. `session_returns` with
  `Faults = {"split"}` violates `CallsReturn`: the client waits for what it has read already. It
  never takes it for something else: `SessionCalls` proves that for any splitting.
- *A server killed between the parts of a listing's reply*. The client reads the end of the stream for
  ever. `session_returns` with `KillAt <- Anywhere` violates `CallsReturn`.
- *A write that times out* (`p2p.c:324`, `355-358`). The server drops the reply and waits for the next request, the client for the
  reply (`dmserver.c:307-314`). `session_returns` with `Faults = {"busy"}` violates `CallsReturn`.
- *Long values and split expressions* (`server_ipc.c:640`, `193-203`). The call gets the first part of its value, the next call
  the rest or an acknowledgement too many, though nobody has given up. `returns_eval_result` with `Impatient = {}` and `MaxParts = 1` violates `ReturnsEvalResult`.
- *Initialisation* (`dmserver.c:285-300`). The first message is answered as its handler
  left it, also when `dmsCPIInitDMS` failed after it. `Session!InitIsTrue` states it;
  `session_returns` (`Faults = {"init"}`) violates it.

## 4. Theorems

They hold for every value of the constants that meets the modules' assumptions: `UserAssumption` and
`FileAssumption`, `PathAssumption`, `NameAssumption` and `TextAssumption` (a name is a tool and views, the default
is among them, `<append>` is no directory), `SessionAssumption` (a message has a body) and `ClientAssumption`.
Every invariant that a run checks has a theorem, and so has every action property and every refinement.

| Module | Theorem | Says | Besides assumes |
|---|---|---|---|
| `CellViewProofs` | `TypeCorrect` | `Spec => []TypeOK` | |
| | `LockHeldAlways` | `Spec => []LockHeld` | `OneSession` |
| | `HolderOwnsFileAlways` | `Spec => HolderOwnsFile` | `OneSession`, copies do not fail |
| | `RecheckoutAlwaysKeeps` | `Spec => RecheckoutNeverOverwrites` | the same |
| | `CheckoutDeliversAlways` | `Spec => []CheckoutDelivers` | the same |
| `CellViewRefinement` | `FailedCheckoutGivesBack` | `Spec => []FailedCheckoutKeepsNoLock` | `OneSession`; queries, vendor and renames do not fail |
| | `CheckoutAlwaysLatest` | `Spec => []CheckoutIsLatest` | `OneSession`, copies do not fail |
| | `AlwaysPublishesWorkCopy` | `Spec => PublishesWorkCopy` | the same |
| | `DraftAlwaysInPlace` | `Spec => []DraftInPlace` | the same, queries do not fail |
| | `RefinesEditSession` | `Spec => ImplementsEditSession` | the same |
| `LibrariesProofs` | `TypeCorrect` | `Spec => []TypeOK` | |
| | `CreateAlwaysInWorklib` | `Spec => []CreateInWorklib` | |
| | `CopyAlwaysManaged` | `Spec => []CopyIsManaged` | |
| | `PlacedCopyAlwaysHasLock` | `Spec => []PlacedCopyHasLock` | `OneSession`, no `"override"` |
| | `LockedDraftAlwaysKept` | `Spec => LockedDraftKept` | `OneSession`, queries do not fail |
| `PolicyTableProofs` | `TypeCorrect` | `Spec => []TypeOK` | |
| | `OneEntryPerNameAlways` | `Spec => []OneEntryPerName` | |
| | `RefinesPolicyMap` | `Spec => ImplementsPolicyMap` | |
| `PolicySearchProofs` | `LookupFollowsPriority` | `Spec => []LookupPriority` | `NoPrefix`: no tool's name is the beginning of another's |
| `SessionTypes` | `TypeCorrect` | `Spec => []TypeOK` | |
| `SessionCalls` | `PartsCorrect` | `Spec => []PartsBelongTogether` | |
| | `Implements` | `Spec => ImplementsRpc` | |
| `ServerIpcProofs` | `TypeCorrect` | `Spec => []TypeOK` | |
| | `NothingIsUnasked` | `Spec => []NothingUnasked` | |
| | `PatientAlwaysGetsOwn` | `Spec => []PatientGetsOwn` | |

`OneSession` says that no two sessions run as the same user. It is needed: two
sessions of a user share his lock, and one may cancel it or publish while the other is
between two steps. That copies do not fail is needed too: finding 2 and the
first divergence are the counterexamples without these two assumptions.

*CellView.* `LockHeld` is inductive once one knows which calls belong to which
operation (`CallsOfOp`), because a step of another user changes the lock only when
it is free or his. Without failing copies the library always has its file
(`LibPresent`), so no link dangles; then a checkout that has passed its look for a
file finds an empty place (`CheckoutFresh`) and never comes to its undo. The action
properties follow from these invariants, one step per action. `CellViewRefinement` adds four
invariants: what a checkout that took the lock knows until it is answered (`UndoInv` for the one
that fails, `LatestInv` for the one that succeeds: the library has the latest version, the place for
the file is empty); the library's file is the working file when the vendor reads it (`PublishInv`);
and a user who has saved something holds the lock and finds it in place also in the middle of
an operation, while the calls that move or overwrite a working file are made only when nothing is saved (`DraftInv`).
With the last two every step is a step of `EditSession` or leaves its variables alone.
A lock query with no answer would break `DraftInv`: an update then checks out over its own
lock and may fetch the old version over a linked draft.

*Libraries.* The invariant `Inv` adds to the types that what is checked out is alive, that a request which found something
stands at an element of its path (`AtElement`), that a label belongs to its operation and a create has `*` for a library
(`RightOp`), and `CopyIsManaged`: the only step that fills a file
whose vault is empty goes to the checkin, which fills the vault or goes to the unlink. These hold for any sessions and faults, one lemma each,
a step per action. `Outcome` says once what checkout, checkin, update and cancel do to a user's lock
and file, and `Private` what a step leaves to the other users: nobody else changes their working file, or their lock
unless the vendor lets him. Where a user has one session and queries are answered, who deletes has no lock where he deletes until he is answered (`Unlocked`), which gives
`LockedDraftKept`. For `PlacedCopyHasLock` the steps that release a lock are the undo of a checkout that has placed no file, a checkin and a cancel, which take the file with it,
and a retire: by then the working file is gone (`Emptied`), and only the user himself would put another there.
Each of the hypotheses is needed (see the divergences above).

*PolicyTable.* `TableInv` adds that the array is a sequence and never empty; the parser's search for the old entry finds
the only one there is (`OldEntryFinds`). With it a definition changes the value of its own name and no other
(`OneValueChanges`), which is the step of `PolicyMap`, and what `<append>` stands for is that name's
value (`AppendsPrevious`). `FlattenSeq` and the fold of the search are recursive functions of the library,
given by `CHOOSE`. That there is a function to choose is proved first: the set of numbers up to which
one exists contains each number that follows one of its own, so it contains all of them (`AllNumbers`, from the
well-foundedness of the numbers, an induction over a set and not over a predicate). The fold is then the loop of the code
(`SearchIsLoop`), and `FoundFrom` is the loop's invariant: when the entries from `j` on have been looked at, each
candidate is the last match of its kind from `j` on, unless an exact match has ended the search. The tests for an index above
0 pass over a match at the first entry; that entry is the default (`OneEntryPerName`), which matches with the last of
the ranks and is what the search answers when it has found nothing. `NoPrefix` is needed: with a tool
whose name begins another's the entry of the wrong tool is found (see the divergence above).

*Session.* `TypeInv` is what makes the types inductive. `ResultOf` and the handlers take what is in a buffer for a
message, so one must know that a server never processes the empty buffer it starts with: until it has read a request there is
at most one call, and its request arrives with the length word first and is no longer than that announces
(`FirstRequest`, `Untouched`), so that `BadLength`, which processes the buffer as it is, does not come before a request
was read. `CallInv` says where the call being made is. A client that rests has empty streams, and so has a
server that waits, apart from the request of that call, which no handler has executed; what is on its way
to the client are parts of the one reply (`Starts`, `Rest`), in any pieces. The lengths bound it: what has been read of a part and what has
still to come is no more than the body and the string (`Sent`) together. So a client that has all of a reply without a
string has emptied its streams, and one that waits for a string may have read some of it with
the body, and then lacks it, but never reads anything else. For the report: the first message is executed before the data manager is
initialised, whatever the order of the messages (`FirstIsFirst`), and the client's node holds the last of the calls
that set it, as long as no `intersExit` has been executed (`NodeHolds`, `Held`). `ReturnedParts` carries both over to what the
calls returned. With `CallInv` a call, a handler's run and a return are the three steps of `Rpc`. The
theorems hold for every splitting, for signals anywhere, between the parts of a reply too, and for writes that time out; the run
`session_returns` is narrower because `CallsReturn` needs that.

*ServerIpc.* For `NothingUnasked`: the server has read nothing from a client that has asked for
nothing (`Unasked`), and what comes from Cadence is passed on only to one it has read from. For
`PatientGetsOwn`: until somebody gives up or something comes in parts, a call is in one place only (`Paired`, `Served`): in the socket to
the server, with Cadence, or in the socket back, with at most one value in all pipes, and what is
in the socket back is what the waiting call asked for. The second call for a value is made only
when the first has been read, and a new client is served only when the old one has its answer.

*Only model-checked.* Liveness, which is out of the prover's reach: `RequestsReturn`, `CancelReleases`, `CallsReturn`, `ServerEnds`,
`ServerFree`. They are what the fairness above is for.

## 5. How the modules relate

`EditSession`, `PolicyMap` and `Rpc` are abstract specifications; `CellView`, `PolicyTable` and `Session` implement
them under the refinement mappings at the end of each, which are model-checked and proved. `Libraries` takes the operations of
`CellView` by their outcomes, and `Session` takes both as one step of a handler with a result.
`ServerIpc` is a process of its own that shares only the client library's conventions with them.

## 6. What is not modelled

- *Edit operations*: purge, information and attribute calls; the variant `DMSERVER_USE_DSSC`, which runs the
  vendor's command line.
- *Libraries*: deleting a whole cell or one version, purge, the creation that an edit does when it finds
  nothing, lists of extensions and tool directories; a process killed between two steps of an install or a delete. The order in
  which the steps stand would show what is left then, but no document says what should be.
- *Policies*: variables, syntax errors, `$include` (read in place; its depth and the fixed array of files matter
  to configurations of hundreds of files only).
- *Session*: the packing of arguments, connecting, options, logs. The client table's chains, which
  nothing fills: a process has one client.
- *ServerIpc*: `TerminateServer` and verbosity messages, the end of Cadence (of which the server does not learn,
  `server_ipc.c:640`), lines that Cadence writes of its own accord.
- *Turbo cache* (`turbo/`): filled once per process and never brought up to date, by design; it answers what was
  there when it was filled, and no document bounds how old that may be.
- *idmSlave*: runs one command after another through the same API, with no state of its own.
- *Status and messages, triggers, attributes, configurations, view table, browser, ITK, mars and bundle*: they keep no
  state that the operations depend on beyond one call, or only print it.
- *Vendored code*: the garbage collector in `gc/`, `patchelf_dir/` and the build files are not this program's. They
  are most of the repository's lines.
