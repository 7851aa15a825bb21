# ServXML: models, checks and proofs

ServXML is a Windows service that keeps a SQLite database of employees
(`Base/CE_SQLite.dat`). Other programs put files into an exchange directory
(`Change/`); the service notices, brings the database up to date and writes a
compressed copy of it (`Base/CE_SQLite.arh`) for clients to fetch. The service
framework is Qt Solutions' QtService, kept in the same repository.

This directory holds TLA+ models of the parts of the program that keep state,
the TLC runs that check them on small instances, and theorems about them that
TLAPS checks for every instance. `PROJECT.json` maps each definition to source
lines and lists runs, mutants, hazards and theorems.

## 1. Inventory

| Component | Source | State | Operations |
|---|---|---|---|
| Service callbacks | `main.cpp`, `myservice.cpp` | the `ReadXML` object | `start` creates it; `pause`, `resume`, `stop` only log |
| Exchange loop | `readxml.cpp` 1-200 | `modifyBase`, the current directory, files of `Change/` and `Base/`, signals of the watcher | constructor, `updateDir`, `readUpDateFile`, `updateBaseXML`, `baseToArhiv` |
| Import | `readxml.cpp` 122-160, 202-1194 | the tables: dictionaries, `employee`, dependent tables | `traverseAllInformation` and the sweep after it |
| Row keys | `numprefix.cpp` | keys present in a table | `getPrefix` |
| Database connection | `databasedirection.cpp` | none | opens the file; the close is never called |
| Publishing | `putfile.cpp` | none | never called (`readxml.cpp:189-190`) |
| Windows back end | `qtservice_win.cpp` | status, mutex, condition, two semaphores, event queue; the service manager's record | `start`, `HandlerThread::run`, `serviceMain`, `handler`, `handleCustomEvent`; install, uninstall and the controller's calls |
| Unix back end | `qtservice_unix.cpp`, `qtunix*socket.*` | socket file, connections, command buffers; the settings of an installed service | `start`, `sysSetPath`, `slotReady`, `sendCmd`, `sysCleanup`, install, uninstall |
| Command line, controller | `qtservice.cpp` and the controller's part of each back end | none of its own; where a call stands | `exec`, `run`, `QtServiceController` |
| Logs, build files | `qtservice*.cpp`, `*.pro`, `*.pri` | none another part reads | |

**Interactions.** Clients and the service share the exchange directory and
nothing else; the only message is the existence of a marker (`Null.txt` for
update files, `NullObmenAll.arh` for a full upload). The file system watcher
queues a signal for the service's event loop. `updateDir` calls
`updateBaseXML`, which calls the import, which asks `getPrefix` for the key of
every row it inserts. On Windows the event loop also runs the callbacks that
the handler thread posts to it, so they wait while `updateDir` runs. On Unix
commands arrive at a local socket that the same event loop polls. A controller
in another process reaches the service through the service manager on Windows
and through the socket file on Unix; install and start share the service
manager's record, or a group of the system's settings.

**What is hard.** Clients write while `updateDir` runs (interleaving with a
directory listing, copy and removal, each a system call of its own). The
watcher's signals coalesce and are lost with the process. A process may die
between any two file operations or SQL statements, and there is no
transaction. Nothing looks at the result of `copy`, `remove` or an `INSERT`.
Keys of deleted rows are handed out again. Three threads run the Windows side,
with a wake-up that must not be lost and two waiters on one condition. On Unix
instances find each other through a file that each of them creates and removes
without asking whose it is. Callers ask before they act (is it installed, is it
running) and others act in between; some wait without a limit, others give up
after a count while the service goes on.
`PROJECT.json` lists these as hazards, each at its line.

**What makes each part correct.**

- Exchange: no marker is overlooked; no announced file is removed before it
  was executed; none is executed again by the same process; the archive is the
  database whenever the loop is idle.
- Import: no row it enters dangles or is inherited by another person, and
  where rows of other programs do is known; repetition makes no duplicates; people listed are not deleted; a
  Sunday's import repairs what a crash left out; the walk ends.
- Row keys: the key is free, and the smallest free one.
- Windows back end: every final state on record was reached by its callback,
  however late a report is recorded; no thread waits for an event loop that has ended; an accepted stop is
  reported as stopped.
- Unix back end: an answer is true; a command is performed at most once and not
  after a stop; a running instance can be found; nobody waits for ever.
- Controller: what it reports as done was done by the process it was sent to;
  each call returns; what install, uninstall and start answer is true.
- The whole: a stop, at whatever moment, falls between two exchanges.

## 2. Modules

| Module | What it is |
|---|---|
| `RowId` | `getPrefix` as an operator on the set of key numbers |
| `RowIdProofs` | what `getPrefix` returns, for every finite set |
| `NumPrefix` | select a key, insert a row: the protocol of `getPrefix`'s callers |
| `NumPrefixProofs` | theorems about `NumPrefix` |
| `Mailbox` | abstract: what a client may rely on for its update files |
| `Exchange` | the exchange loop, its clients, the watcher, crashes |
| `ExchangeProofs` | theorems about `Exchange`, with the refinement of `Mailbox` |
| `Import` | the import, statement by statement (uses `RowId`) |
| `ImportProofs` | theorems about `Import` |
| `ServiceLifecycle` | abstract: what the service manager may believe |
| `WinService` | main thread, `serviceMain` thread and handler thread |
| `WinControl` | `WinService` with the service manager, the controllers and install (extends `WinService`) |
| `WinServiceProofs` | theorems about `WinService` and `WinControl`, with the refinement of `ServiceLifecycle` |
| `UnixService` | instances on Unix, their socket file, and the processes that start and control them |
| `UnixServiceProofs` | theorems about `UnixService` |
| `UnixInstall` | the settings of an installed service and the processes that write and read them |
| `UnixInstallProofs` | theorems about `UnixInstall` |
| `ServXML` | callbacks and exchange loop in one event loop (extends `Exchange`) |
| `ServXMLProofs` | theorems about `ServXML` |
| `MC...` | values of the constants for TLC |

Definitions marked `Mutation:` are not part of a specification: each is a
plausible bug in the definition below it, and a property must catch it.

### RowId and NumPrefix

A key is `SRV` and nine digits, modelled by its number; padding makes text
order numeric order. `Position` is the loop's counter at a row, `GapRows` the
rows at which the loop stops, `getPrefix` the result. `Select` and `Insert` are
two actions because they are two statements. `Delete` stands for the sweep and
for whatever an update file deletes. `Writers` would be more than one only if a
second process ran on the database; the claims about keys are for one.

### Exchange

One action is one file operation, so clients and `Crash` come between any two.

| Action | Code |
|---|---|
| `Start` | constructor, `readxml.cpp:6-17` |
| `Deliver`, `Check` | signal, `setCurrent`, test for `NullObmenAll.arh`, 19-37 |
| `Copy`, `RemoveData`, `RemoveMarker` | the three file operations of an upload, 28-30 |
| `UpdateBase`, `Traverse`, `RemoveBase` | `updateBaseXML`, 104-162 |
| `CheckNull`, `List`, `Exec`, `RemoveExecuted` | `Null.txt` and the loop over the files, 35-70, 78-102 |
| `OpenArchive`, `WriteArchive` | `baseToArhiv`, 164-200, and the reset of `modifyBase`, 73 |
| `BeginWrite`, `EndWrite`, `AnnounceUpload`, `AnnounceUpdates` | a client (external) |
| `Crash` | the end of the process at any point (external) |

`fs[d][n]` is a file: absent, being written (`Torn`), or finished. `execs[x]`
counts how often the content of input `x` went into the database, `arh` says
whether the archive is whole and of which database. `pc` is where `updateDir`
stands; `modifyBase`, the current directory `cwd` and the listing `rest` are
the program's own variables.

Assumptions about what is not in the repository, all in the model's comments:
a client uses the name of an update file once; with `Overlap = FALSE` a client
begins only when no marker is left and no other exchange is being prepared;
signals of the watcher coalesce and none is lost while the process lives; a
copy is one step; removing a file that is still open for writing may fail or
succeed. An upload in `BadUploads` is one the import does not return from
(section 4, `Terminates`).

### Import

One action is one SQL statement, or the steps between two. A file is the list
of the nodes of its XML tree in traversal order; a record holds a person, four
dictionary names and items, one for each row of a dependent table it asks for.
The dependent tables differ in the key they are searched by, and the model
keeps exactly these differences (`Existing`, `KeepRow`, `Programme`):
`personalinformation`, `education`, `physical`, `rodnie`, `visota`, the
training tables by employee and key; `overal` by employee; `siz` by employee
and the garment's id. `physical` alone is updated when the row exists. `ptm` is
searched by one date and stored with another (`stored`).

The statement at `readxml.cpp:123` that was to reset `fordelete` is not valid
SQL, so its loop never runs; `Begin` therefore leaves the tables alone, and the
sweep deletes only employees that some other program entered with
`fordelete = 0`. For the rows that imports enter, the reuse of keys (`Owners`)
is safe only because of that: the mutant that lets the statement work violates
`Owners`.

The database to start from is whatever other programs put there:
`InitEmployees`, marked or not, `InitChildren` for any of them, and `InitDict`
(`Init` is external, the file has no other origin in the code). The sweep
deletes nothing but `employee`, so the rows that such a program had entered for
somebody with `fordelete = 0` are left behind, and `getPrefix` gives the key,
hence the rows, to the next person. `Unlisted` names exactly these rows: there
at the start, of an employee who was not marked then. `References` and `Owners`
exempt them and no other; `MCImport` has one, an unmarked person with a
certificate, whose key the other person gets.

`ImportAssumption` says what the proofs need of the inputs: a file is a finite
list, a record names a person, a garment has a name (an item without one is
skipped, `readxml.cpp:1095`), and the database to start from is sound: keys of
nine digits identify the rows of a table, nobody and nothing is entered twice,
and each row refers to rows that are there.

`References`, `Owners` and `SundayComplete` hold as long as no `INSERT` has
failed; section 6 says what happens after one has. Failing `INSERT`s are
modelled, failing `SELECT`s, `UPDATE`s and `DELETE`s are
not: SQLite refuses those three only when the file itself is damaged or locked,
while an `INSERT` also fails on a constraint.

### ServiceLifecycle and WinService

`main` is where `start()` stands in the main thread, `hpc[t]` where `handler()`
stands in the thread of `serviceMain` (`"sm"`) and in the handler thread
(`"ht"`). The mutex has an owner; `condition.wait` gives it up and sleeps in
one step and takes it again in another. `setStatus` inside the handler is one
step: it runs with the mutex, and the main thread writes the field only after a
stop, when no handler does (until a report is overtaken, see below). The main
thread's last `setStatus`, which runs without the mutex, is two steps. The report at the end of `handler`, after the unlock, is three: the test
(`CheckStopped`), the reading of the field (`Send`, into `report[t]`) and the
record at the service manager (`Record`), with the other threads in between. An
old state may so be recorded last. In the handler thread this is harmless, since
the next control waits for that call to return: it can only put a state after
`STOPPED` (`Lag` in `ServiceLifecycle`). In the thread of `serviceMain` the
`RUNNING` of the startup may come after the state of a control; the history
variable `overtaken` notes it. From then on the service manager's record is
void and may let controls in after a stop: what is left is the order of the
callbacks (`InOrder`), the discipline of the condition (`WakesItsOwn`), and that
an accepted stop ends the process.

`Control` is the service manager: it sends no control to a service that it has
on record as stopped, starting or stopping, and none after shutdown.

### WinControl

Adds to `WinService` what the other processes do. `kpc[k]` is where a call
stands between two requests to the service manager: `OpenService`,
`ControlService`, the ten turns of `stop()` (`Poll`), `StartService`, and
`exec`'s question `isInstalled` before it installs or removes. The record of
the service (`record`) is absent, present, or marked for deletion while someone
holds a handle. `StartService` starts a new process, with all variables of
`WinService` as `start()` begins; `life[k]` is the process a call was sent to.

The service manager is external and assumed to do what its documentation says:
one control at a time; `ControlService` returns when the handler has, or fails
after 30 seconds; a new process is started only after the last one has ended;
a process that never connects is given up. `Hang` is an import that does not
return: from then on the main thread takes no step (`stuck`), the others go on.

### UnixService

`ipc[i]` is where `run(true)` stands in instance i, from `setPath` to the
deletion of the sockets. `file` is the instance whose socket the file names:
`Unlink` and `UnlinkPath` remove it whosever it is, `Bind` fails if it is
there. A `connect` succeeds while the named socket listens. `Poll`,
`incomingConnection` and `Perform` are rounds of the event loop: all sources
found ready are served before `quit()` is looked at, so a command may be
performed after a stop that arrived with it. `Perform` and `Reply` are two
steps because the process may be killed between them.

Merged, because nobody can tell the difference: `connect` and the write that
follows it; `bind` and `listen`, since `connect` fails before both.
`slotClosed` only frees a socket. Left out: a full backlog (more callers at
once than `listen` queues), and half a command, which the program's own callers
never send. Imports are not in this module: to callers they are a delay of the
next round, and `ServXML` has the two together. `serial` is a history variable:
it is true as long as every start or stop began after the one before was over;
nothing in the code makes callers do so, and the properties say what holds
while they do.

### UnixInstall

`settings` is the group of the service, a function on the keys that exist.
`sync()` merges under a lock and is one step, which may fail (`AccessError`).
The question `isInstalled` and the write, the removal or the reading of the
path are different steps, and the start of the path that was read may fail,
when the file is gone. `known[c]` remembers the settings at the moment c's
call returned.

### ServXML

`app` is what the callbacks of `MyService` have done and `request` the control
that waits for the event loop. `Call` runs a callback only when `updateDir` has
returned (`pc = "idle"`); the callbacks change nothing the exchange uses, since
`MyService` only logs. After `stop` the loop may still serve a queued signal
once before it ends (`Leave`). A process that has ended may be started again,
and files are where it left them.

## 3. Runs

| Run | Instance | Properties | What it shows |
|---|---|---|---|
| `NumPrefix_single` | 1 writer, keys to 7 | `TypeOK` `NoKeyClash` `LowestFree` | the key handed out is the smallest free one in every set of rows, until the insert |
| `Exchange_crash` | 2 update files, 2 uploads, no overlap, 2 crashes, fair | `TypeOK` `OncePerLife` `MarkerOutlivesEarlierNames` `ImplementsMailbox` `OnlyBlockedCopyLoses` `MarkerServed` `AnnouncedReachesClients` | announced inputs are executed and published; update files at least once, and at most once per life; the one way an upload can be lost |
| `Import_fair` | 2 people, one of them with a row of another program, 6 files, 3 imports, 1 crash, 1 failing insert, fair | `TypeOK` `References` `Owners` `NoTwins` `SundayComplete` `ListedSurvive` `ResultKept` `Terminates` | consistency between any two statements, which rows the sweep orphans, repair on Sunday, no duplicates, and the walk ends on well-formed files |
| `WinService_live` | every control, 4 of them, fair | `TypeOK` `NobodyWaitsInVain` `WakesItsOwn` `ImplementsLifecycle` `Answered` `StopTakesEffect` | the service manager's record is true until the startup's report is overtaken, the waiters do not mix, no wake-up is lost, a stop is reported |
| `WinControl_safe` | 2 controllers, 2 polls, 1 process, 2 controls | `AcceptedIsDone` | what a controller reports as done was done |
| `WinControl_live` | 1 controller, 10 polls, 2 processes, fair | `CallsReturn` `StartIsDecided` | every call returns although the service may hang |
| `UnixService_calls` | 2 instances, 2 callers, 1 kill | `TypeOK` `RunningIsSeen` `TruthfulReplies` `LateCallsAreRefused` `AtMostOnce` | commands and answers whatever races; one reachable instance while starts and stops wait for each other |
| `UnixService_live` | 1 instance, 2 callers, 1 kill, fair | `CallsReturn` `StopEnds` | a wait without a limit ends, and so does a process told to quit |
| `UnixInstall_calls` | 2 processes, 2 copies | `TrueMeansDone` | the answers are true though others write between question and act |
| `ServXML_stop` | 1 update file, 2 uploads (one hangs), overlapping clients, 1 kill, 2 controls, fair | `NoMissedMarker` `ArchiveFresh` `StopIsClean` `StopIsServed` | the signal discipline and the archive do not depend on the clients; a stop interrupts no exchange |
| `UnixService_race` | 2 instances, 2 callers; expects a violation | `RunningIsFound` | section 6, first finding |
| `UnixInstall_type` | 2 processes, 2 copies; expects a violation | `StartupTypeIsInstalled` | section 6, second finding |

**Bounds.** Two update files, one before and one after `Null.txt` in name
order, are what the order of the loop distinguishes; the second upload is
needed for a left-over `Base/ObmenAll.arh` to meet a new one. Two crashes let
one crash strike the recovery from another. Seven keys give every pattern of
gaps of up to seven rows. Two people, one known in advance and unmarked, with a
dependent row, and files that name them in different records make rows shared,
re-entered, repaired and inherited; three
imports allow a weekday's and two Sundays'. Four controls bring each control after each
other one; the handler's state is forgotten between them. Two instances and two
callers are what a race for the socket file needs: one that ends, one that
begins, and a caller for each. Two controllers with two polls bring every
overlap of two calls; the length of the polling only matters to one caller,
which has the ten polls of the code. In `ServXML_stop` one update file is
enough, since the order of the loop is the business of `Exchange_crash`, and
the second upload hangs; two controls are a pause and a stop, or two stops with
a start between them. Interchangeable instances, callers and controllers are
declared symmetric in runs without liveness.
The theorems of section 5 do not depend on these bounds.

`CHECK_DEADLOCK FALSE` is set for the four runs in which the system may really
stop: the clients have nothing more to send, the bounds are used up, the
process is gone. In the runs with callers somebody can always ask again.

## 4. Fairness and liveness

`Exchange`: weak fairness of `UpdateDir` only. The event loop of a running
service always gets to the queued signal. Clients, the service manager's
restart and crashes are not obliged to happen. `MarkerServed` and
`AnnouncedReachesClients` ask that a signal was queued or delivered in this life
(`woken \/ pending`): the constructor does not look into the directory, so a
marker that was there before the start waits for the next signal. Both are
released by the end of the process (`pc = "down"`, `crashes > 0`): what a life
leaves behind is the subject of `ImplementsMailbox` and `OnlyBlockedCopyLoses`.

`ServXML`: weak fairness of `UpdateDir`, of the callbacks and of the end of the
loop, each by itself: all three are events in one queue. Imports that do not
return end a behaviour in `pc = "hung"`, which `StopIsServed` admits.

`Import`: weak fairness of the walk. `Terminates` is promised only for files
whose records have a subdivision and a post and which hold no comments or
texts: `continue` at `readxml.cpp:560` and `584` skips the step to the next
sibling, and the step itself is inside `if(isElement())` (1191). Other files
keep the service in the loop; they are among the inputs and in `Exchange`
appear as `BadUploads`.

`WinService`: weak fairness of each thread. Threads take the mutex in turn
without starvation here since at most two compete and neither takes it twice
without waiting for the other. The timeout of `tryAcquire` and the connection
to the service manager are not fair: they may happen or not.

`WinControl`: callers go on with a call they have begun; a started process
connects or fails to; the threads go on unless the main thread is stuck in an
import; the service manager sees a process end. The 30 seconds of
`ControlService` are a step of the caller that is enabled only while the
handler has not returned. Nobody is obliged to ask, and no process to hang.

`UnixService`: weak fairness of each instance, hence of its event loop, and of
`Return`, a caller whose wait is over. Callers need not call, processes need
not be killed.

## 5. Proofs

All are checked by TLAPS with no step left out. Every type invariant, safety
invariant, action property and refinement of a passing run is stated by a
theorem, so the runs of section 3 show on small instances what is proved here
for any constants. The inductive invariants were checked with TLC on small
instances before they were proved.

**Row keys** (`RowIdProofs`, `NumPrefixProofs`). `GetPrefixSmallestFree`: for
any finite set of keys the result is free and all smaller ones are taken. The
argument: with no gap before row x the counter equals x (`PositionBounds`,
`StopsAtGap`); with no gap at all the keys are 1..n (`NoGap`). `TypeCorrect`
gives `TypeOK` for any number of writers; `KeyStaysFree` and `KeyIsLowest` give
`NoKeyClash` and `LowestFree` for one (`OneWriter`).

**Exchange** (`ExchangeProofs`), for any sets of files, any name order, any
number of crashes:

- `TypeCorrect`: `Spec => []TypeOK`.
- `MarkersNotMissed`: `Spec => []NoMissedMarker`, and `ArchiveAlwaysFresh`:
  `Spec => []ArchiveFresh`, with overlapping clients too. Neither is inductive.
  The invariant `WatchInv` adds what holds while `updateDir` runs: at each
  later point, a marker that is still there has a signal queued or will be seen
  by a test that is yet to come, and `modifyBase` is false when idle.
- `OncePerLifeHolds`: `Spec => []OncePerLife`, with overlapping clients too.
  The count alone is not inductive: `CountInv` says that an input whose
  file is there was not executed in this life yet, unless it is the one that
  `updateDir` removes next.
- `MailboxImplemented`: `~Overlap => (Spec => ImplementsMailbox)`. The invariant
  `PoliteInv` says that while the loop works on the listing no client is
  writing, so a file that is executed is whole, and one that is removed was
  executed. Each action then maps to a step of `Mailbox` or a stutter.
- `MarkerOutlives`, for clients that do not overlap. `MarkerInv`: as long as
  the listing still holds `Null.txt`, every announced file is on it.
- `OnlyBlockedCopy`, for clients that do not overlap. `CleanBase`: as
  long as nothing has crashed, `Base/ObmenAll.arh` is there only during an
  import; `UploadInv`: an upload in `Change` has its marker or its client is
  about to give it one, it is removed from there only when a copy is in `Base`
  or a left-over was in the way of the copy, and from `Base` only when it was
  executed.

**The whole** (`ServXMLProofs`), for any number of controls. Every step of
`ServXML` is one of `Exchange`, or leaves the exchange alone, or is the end of
the loop (`StepOfExchange`). `ServInv` takes the invariants of the exchange,
adds how the callbacks agree with the loop (`Callbacks`) and that a process
which was stopped, not killed, left a fresh archive (`StoppedFresh`).
From it: `ServTypeCorrect`, `MarkersNotMissedWithControls`,
`ArchiveFreshWithControls`, `OncePerLifeWithControls` and `StopsAreClean`. For
clients that do not overlap `ServPolite` adds the other invariants of the
exchange, and what clients count on holds through any number of stops and
starts as well: `MailboxWithControls`, `MarkerOutlivesWithControls`,
`OnlyBlockedCopyWithControls`. No run combines them with controls; the theorems
do.

**Import** (`ImportProofs`), for any uploads, any employees to start from, and
any number of imports, crashes and failed `INSERT`s. `TypeCorrect` rests on
`TypeInv`, which adds that all keys lie below some bound (`Bounded`): that is
what `getPrefix` needs for its last row. On it stand:

- `ListedAreSpared` (`Spec => ListedSurvive`): everybody the walk has passed is
  marked (`Marked`), which needs that a person has one row (`People`).
- `OwnersStay` (`Spec => []Owners`): the owner of a row that an import entered
  was marked before, and an initial row that is not `Unlisted` has a marked
  owner (`Owned`); so no sweep takes such an owner, and the key is not free to
  be given away. Which rows others inherit is thereby settled for any database
  to start from: only the `Unlisted` ones.
- `NothingDangles` (`Spec => []References`): a row is entered after the rows it
  refers to, and the walk's own variables refer to rows that exist (`Linked`);
  with `Owned`, only `Unlisted` rows ever lose their employee, and none loses a
  dictionary entry.
- `NoSecondCopies` (`Spec => []NoTwins`): a row is entered only after it was
  looked for (`Single`, `NoCopies`).
- `ResultsAreKept` (`Spec => ResultKept`).
- `SundayRepairs` (`Spec => []SundayComplete`): rows that a record asked for
  stay (`Has`), so that on a Sunday everything behind the walk is complete
  (`Repaired`).

**Windows service** (`WinServiceProofs`), for any set of controls and any number
of them. `IInv` has a part that holds whatever is recorded when (`Rendezvous`):
at most one of the two handlers is between its post and its wake-up, and the
queue holds at most its event. Of a process that is alive it says (`Running`)
that the mutex has one owner, that `serviceMain` does its whole startup before
the service manager can send the first control (`StartupFirst`; what is on
record up to then is `START_PENDING`), and that the callbacks agree with where
the handlers stand, so that a state is written, read or recorded as final only
after its callback (`Callbacks`). What rests on the record, that the main thread
is in its loop whenever somebody waits for it (`InLoop`) and that the record
keeps up with the field (`OnRecord`), is claimed until `serviceMain`'s report is
overtaken (`OnTime`), and so is that nobody waits for a process that has ended
(`Ended`). From it: `TypeCorrect`, `NobodyWaits`, `RightOneWakes`, and
`LifecycleImplemented`, which maps each step to one of `ServiceLifecycle` or a
stutter: `Record` is `Report`, `Lag`, a stutter, or the step that overtakes.

**Windows controllers** (second part of `WinServiceProofs`), for any number of
controllers, polls, starts and hangs. `CInv` keeps `IInv` through the end of a
process and the start of the next, and adds what a call carries from one
request to the next (`Stages`), that a process which got through its startup ends only by a stop
(`EndsStopped`; controllers cannot shut the system down), and that a control whose handler has returned was performed
(`StopDone`; `LastDone` for pause and resume; `RecordDone` for what is on record
afterwards: `STOPPED`, or the handler's late `STOP_PENDING`). From it: `ControlTypesCorrect`,
`NobodyWaitsThroughRestarts`, and `AcceptedMeansDone`.

**Unix service** (`UnixServiceProofs`), for any instances and callers and any
number of kills. `CallInv`: what a loop has found ready is an accepted, unread
connection of a caller that waits (`Polled`), unread means neither performed
nor answered (`Unread`), and what is being served is answered by the one that
performed it (`Serving`, `Answers`). From it: `TypeCorrect`, `AnswersAreTrue`,
`PerformedOnce` and `LateIsRefused`. `OneServiceIsSeen` needs `OneAtATime`: while
starts and stops wait for each other (`serial`) there is one process, its socket
is the one the file names, and no other start or stop is under way.

**Installation on Unix** (`UnixInstallProofs`), for any processes and copies:
`TypeCorrect` and `TrueAnswers` (`Spec => []TrueMeansDone`). The two are proved
together as `IInv`: that a call which finds no group may answer "not installed"
rests on the group being whole or absent (`EntriesOfOneCopy`,
`InstalledMeansEntries`), and `Underway` adds what a call
between two of its steps carries: the copy to install, or that it is a start.

**Assumptions.** `ExchangeAssumption`, `NumPrefixAssumption` and
`ImportAssumption` state only the types of the constants, that name order is a
strict order with the fixed names in their places, that update files are not
called like the fixed files, and what section 2 says of uploads;
`UnixInstallAssumption` says that there is a startup type for each copy. The
other modules' assumptions are of the same kind. TLC evaluates all of them.
Theorems with a hypothesis of their own are those for one writer (the service
is the only one, section 7) and for clients that do not overlap (`~Overlap`,
section 2).

**Only model-checked.** Liveness, which is out of the prover's reach:
`MarkerServed`, `AnnouncedReachesClients`, `Terminates`, `Answered`,
`StopTakesEffect`, `CallsReturn` (Windows and Unix), `StartIsDecided`,
`StopEnds` and `StopIsServed`. `ServTypeOK` and `ControlTypeOK` are in no run:
they are the type invariants of the two composed modules, and theorems.

## 6. What the checks say about the code

Two runs show the code at odds with its own documentation:

- `UnixService_race`. A new instance may start while the old one, told to stop,
  is still closing its sockets: it no longer answers "alive". `close()` then
  removes the socket file at the path (`qtunixserversocket.cpp:89`), which by
  now is the new instance's. That one runs, alone, and can neither be found nor
  stopped, although `isRunning()` "Returns true if the service is running"
  (`qtservice.cpp:260`). Losing the file to another instance between `unlink`
  and `bind` (line 73, 77) has the same effect.
- `UnixInstall_type`. `startupType()` reads the key `startupType`
  (`qtservice_unix.cpp:170`) and install writes `automaticStartup` (line 430):
  the answer is always the automatic one ("Returns the startup type of the
  controlled service", `qtservice.cpp:287`).

Behaviour to know of that contradicts nothing the repository states:

- After a restart, a marker left by the earlier life waits until something else
  changes in the directory. Clients that wait for the marker to go away wait
  for ever (`NoMissedMarker`, the condition `woken`).
- A `Base/ObmenAll.arh` left by a crash makes `copy()` of the next upload fail;
  the upload is then removed unread, and the old one is imported again
  (`OnlyBlockedCopyLoses`).
- A crash between the `INSERT` of an employee and that of the dependent rows is
  repaired only by an import on a Sunday (`SundayComplete`).
- `ptm` rows whose two dates differ are entered again with every import
  (`NoTwins` exempts them).
- The sweep removes an unlisted employee that another program entered with
  `fordelete = 0`, but not that employee's dependent rows
  (`readxml.cpp:145-160`): they dangle, and with the key, which `getPrefix`
  hands out again (`numprefix.cpp:33-41`), they go to the next person entered.
  `References` and `Owners` show that no other row is lost this way.
- Clients that overlap can lose update files: the loop of `Null.txt` executes
  what a file holds when it is opened and removes it in the end, also when its
  client is still writing it (`readxml.cpp:39-69`). The claims about update files
  are for clients that wait for each other (`Overlap = FALSE`).
- On Windows the report at the end of `handler` reads the status without the
  mutex and is recorded later (`qtservice_win.cpp:657-659`). A late one of the
  startup may put `RUNNING` on record again after a pause or a stop; the service
  manager then sends controls to a service that has ended its event loop, whose
  handler waits until the process ends (`overtaken`). A late one of a stop puts
  `STOP_PENDING` after `STOPPED`, so `isRunning()` may be true after `stop()`
  answered true (`Lag`, `AcceptedIsDone`).
- A dictionary key whose `INSERT` failed is used all the same. A failed
  `INSERT` of an employee is worse: the dependent rows are entered with the key
  that was meant for it, which is still free and goes to the next person, who
  inherits them. `References` and `Owners` therefore hold until an `INSERT`
  fails.
- On Windows `stop()` of the controller answers false after ten polls for a
  stop that was accepted and takes effect later
  (`qtservice_win.cpp:332-338`): the poll covers about two seconds, the last
  round of the event loop may hold an import.
- An import that does not return (section 4) keeps every control waiting, a
  stop too; on Unix its caller waits with it, without a limit.
- A paused service goes on exchanging: `pause` only logs
  (`myservice.cpp:37-44`), where the documentation of the framework leaves it
  to the implementation what to suspend (`qtservice.cpp:924-925`).
- On Unix a command that arrives in the same round of the event loop as a stop
  is performed after it: callbacks may follow `stop()`.
- `install(path)` for a service that is installed already answers true and
  changes nothing, whatever path was given (`qtservice.cpp:792-795`).

## 7. Not modelled

- `DataBaseDirection`, `PutFile`, logs, build files: no state others use.
- `-e`, which runs the service as a plain program beside the installed one, a
  second writer of the database; `-v` and `-h`, which print.
- The queries of path, description and startup type on Windows: they change
  nothing.
- On Unix, programs that speak to the socket without `sendCmd` (half a command,
  several at once), and more pending connections than `listen` queues.
- Text: attribute values no statement compares, the texts of SQL statements in
  update files, the format of dates. What an update file does to the tables is
  not modelled, only that it is executed.
- Keys above 999 999 999.
- Accesses to freed objects when `ht->wait(1000)` runs out: the model ends with
  the process.
- Failing `SELECT`, `UPDATE`, `DELETE` and a full disk.

## 8. Plan

Done: the modules of section 2. Row keys, exchange and import came first,
because a wrong database is worse than a service that does not stop; then the
Windows service, the Unix service, installation and controllers, and the whole.

Every safety property is proved. What would still say something new:

1. `WinControl`: `ServiceLifecycle` through restarts, which needs an abstract
   life cycle that starts again.
2. `Import` on the upload of an exchange: that what `Traverse` counts as one
   step is the walk of `ImportProofs`, with a crash inside it.
3. Simpler proofs: the steps of `ImportProofs` share more than their lemmas say.
