# A TLA+ model of NgStorage

NgStorage is two programs that run a warehouse with automatic vehicles (AGVs):

* `src/WareHub2`, the **hub**: a console server.  It takes tasks from clients
  over HTTP (port 19998), hands them to an external **dispatcher** over a TCP
  connection (port 29998), follows them by the waypoints the dispatcher
  reports, keeps a ledger of the wares in an SQLite database and drives a lift
  through a PLC (modbus).
* `src/NgStorage6`, the **client**: an FMX desktop program with a map of the
  storage locations, on which an operator chooses the two ends of a task.

There are no tests and no documents; comments, names and the schema say what
was meant.  The dispatcher, the AGVs, UniDAC, Indy and the PLC are not in the
repository and are modelled from how the code uses them.  libmodbus, which the
hub drives the PLC with, is: its sources stand in `src/WareHub2/src`.

## Inventory

| Part | State | Operations | Hard part | What makes it correct |
| --- | --- | --- | --- | --- |
| Tasks in hand (`compones.cpp` 42-136, 314-365; `common.cpp` 311-462) | `gId_task_issue`, row of `next_id_ti`, `tis`, `tis_over`, `agv.No_cmd` | issue 657194, result 678000/657301, status 678010, waypoints 657202, restart | HTTP threads against the main thread; a restart; an unlocked walk of a vector; lost and repeated messages | one number per task; finished only after it ran; always in one of the two lists; leaves `tis` in the end |
| Ware ledger (`common.cpp` 595-771; `compones.cpp` 248-313, 366-476) | table `ware_storloc`, `handled`, `copy_unhandled`, the shared query objects, the transaction | the worker `task_completed`; erase 678009, change 657312, queries 657311, 678006, 678007 | shared SQL text; transactions begun by two threads; a copy that is never cleared | no finished task missed; an undisturbed one recorded before it is marked; one transaction at a time; an erased location stays erased |
| Lift 1 (`common.cpp` 114-225; `common.h` 483-643) | `goal_lift1`, `event_lift1`, one modbus context, the PLC's registers | 657189, 657192, 523100, the timer thread, the retry macros | an auto-reset event; a goal and a context used by two threads without a lock; retries | the dispatcher is told what was read for it; no arrival without an order; an undisturbed order is answered |
| Bus connections (`main.cpp` 129-254) | `bus_conn`, `master`, the buffer of each connection, `dispatcher` | accept, receive, parse, close | an iterator used after erase; frames cut and joined; loss of synchronisation; numbers of sockets used again | every frame is handled once, whole and in order; answers go to the one who registered |
| Vehicle registry (`compones.cpp` 191-247, 561-664) | `agvs`, table `agvs`, `id_agv_max` | 657185/657186, 678003, 678005, start | a transaction that fails unnoticed; a counter rebuilt from the table | no number twice; a restart finds every vehicle |
| libmodbus (`src/WareHub2/src`) | transaction number, bytes under way, the server's tables | the calls of the client, receive and reply of the server, error recovery | late, torn and missing answers; two devices on a line; lengths computed in three places | a call gets its own answer; a table changes once, as the call means |
| Lock of `tis` (`common.cpp` 418-427) | the section's owner and count | Enter, Leave | a Leave without an Enter | a section that was entered can be entered again |
| Permit to issue, client (`MainForm.cpp` 1779-1909; `http_conn.cpp` 58-119) | `event_nextagvtask`, `av_pending`, `timer_query_rti` | click, dialog, request, poll | a permit taken and not given back; a request that fails half way | at most one task undecided; the permit comes with the verdict |
| List of issued tasks, client (`http_conn.cpp` 373-485) | `at_items`, the grid | poll 678010, paint | tasks that finish out of order; rows found again by number | a row shown as finished is; finished is its last state |
| Choice of ends, client (`FrmAGV.cpp` 805-1100) | `Edit1`, `Edit2`, colours | click, restore | long sequences of clicks | the ends differ; what is chosen is red |
| Map and configuration, client (`MainForm.cpp`, `FrmAGV.cpp`) | arteries, areas, coordinates, special locations, the plan of columns | read or write the file, build | four lists that say nothing of each other | every location has a name of its own; labels are those of the columns under them |
| Main window, client (`MainForm.cpp`, `FrmAGV.cpp`, `http_conn.cpp`) | `info_agvs`, buttons, a table of one row, two regions | start, timer, clicks | an array for the answer that is not cleared; rows found by number, merged by address | one button per vehicle; the row belongs to the button |
| Dialogs, drawing, dead code | | | | not modelled, see below |

The parts meet at few places.  A client's request runs in a thread of its own
(Indy); the main thread runs the select loop and `data_handler`; three more
threads run `timer_lift1`, `task_completed` and the two that connect the hub to
itself.  They share the global vectors and the query objects, most of them
under a critical section, some not.

## Modules

### TaskHub

The tasks in hand.  One action is one critical section, or one unlocked stretch
that ends where another thread could notice.  A task is the *n*-th issue request
the hub ever got; the number the hub gives it is `id[n]`, and that numbers are
unique is a property and not built in.

| Variables | Code |
| --- | --- |
| `gId`, `nextDb` | `gId_task_issue`; the row of table `next_id_ti` |
| `issued`, `id` | the requests so far and the number (`t_id`) each got |
| `place`, `over` | where a task is: being parsed, in `tis`, in `data_handler`'s hands, in `tis_over` (`over`, in its order), lost in a restart |
| `steps`, `r_ti` | `task_issue.steps`, `task_issue.r_ti` |
| `incoming` | the flag of the condition variable `cv_tis_over` |
| `http` | where each HTTP thread is in `IdHTTPServer1CommandGet` |
| `main` | where the main thread is in `data_handler`; `torn`: `tis` grew while it walked it without the lock |
| `agvs`, `No_cmd` | registered vehicles and the task each reports |
| `conn`, `dispatcher`, `inbox` | the dispatcher's connection, whether the global socket names it, and what it has sent |
| `job`, `reported` | the dispatcher's own view of a task, and the waypoints that were put on the connection |
| `answer` | what a client is told in this step |
| `jammed` | no thread gets into the section `cs_tis` any more |
| `faults` | restarts and disconnections, to bound them |

Actions and code: `IssueAlloc`, `IssueReject`, `IssuePush`, `IssueSend`
(657194), `QueryResult` (678000), `StatusInTis` and `StatusInOver` (678010),
`Register` (657185/657186), `StoreResult` (657301), `Waypoint`, `BeginStep`,
`RunningStep`, `EndStep`, `MoveToOver` (657202), `TakeOver` (the wake-up of
`task_completed`), `Restart`, `Connect`, `Disconnect`.  `DispRegister`,
`DispResult` and `DispReport` are the dispatcher.

Choices worth knowing:

* The unlocked loop of `agvRUNNING` races with `push_back`.  When a task was
  pushed during the walk, the step is either ticked off or written into the
  storage the vector left: both are allowed.
* `update_id_ti` runs in a transaction whose failure is swallowed: the row is
  written or not.
* A status request names one task.  The code takes a list; each of its entries
  goes through the same two lookups, and another request may come between.
* A restart is a crash at any moment, or a stop: nothing is saved at either.
  The start-up that follows is one step.  The HTTP server is in fact active
  before `next_id_ti` has run (`main.cpp:76-79`): that window is a hazard in
  `PROJECT.json` and not in this module.
* `RunningStep` ends with the `LeaveCriticalSection` without an Enter at
  `common.cpp:426`.  What that does is decided inside Windows: nothing, or whoever
  enters `cs_tis` later waits for ever (`jammed`), the main thread included.
  Every action that enters the section is disabled then.  That the stray Leave
  releases the section under a thread that is inside it is left out: otherwise
  critical sections exclude each other.
* `Polls` says which requests clients poll with; none of them changes anything.
* The dispatcher's messages stay in order and may be cut off by a loss of the
  connection.  A vehicle reports the state its task is in again and again.
* `dispatcher` after a close is a dead socket.  Windows may reuse its number;
  that is in `BusConn`.

### TaskLife

What the hub promises about tasks: taken in at most once, finished at most once
and only after that, `done` grows at its front only, and a restart forgets all
of them for good.  `TaskHub` implements it with `held` the tasks of `tis` and
the one in `data_handler`'s hands, and `done` the list `tis_over`.

### WareLedger

The ledger of wares: the table, the worker `task_completed` and the requests
that touch it.  `TaskHub` ends where a task enters `tis_over`; `WareLedger`
begins there (`Finish` is `TaskHub`'s `MoveToOver`, seen from the worker).  All
threads share one query for SELECTs, one for everything else and one connection,
without a lock.  An action is what a thread does between two uses of these.

| Variables | Code |
| --- | --- |
| `work` | what a finished task was: stored (`I1`, `I2`), moved (`X1`, `X2`, `X12`, `X21`), or another kind |
| `tis_over`, `handled`, `incoming` | the list, `task_issue_over.handled`, the flag of `cv_tis_over` |
| `copy_unhandled` | the worker's copy, never cleared |
| `ware_storloc` | which stack the row of a location describes, `Nothing` without a row.  Stack *t* is the one task *t* stored; `Changed` the one a client typed in; `Blank` and `Mixed` a row without texts, or with those of several stacks |
| `result` | `result_storloc`: `RecordCount`, the first row's ware, and whether the SELECT has the four texts among its columns |
| `sql` | `noresult_storloc`: the statements of its text |
| `InTransaction` | of `sqlcn_storloc` |
| `worker`, `http` | where each thread is, with its locals |
| `alone`, `erased` | history: the worker's current task was not disturbed; locations a client emptied and nobody but an already handled task has filled since |
| `requests`, `faults` | to bound them |

Actions and code: `Wake`, `RoundEnds`, `SkipTake`, `SelectPlace`,
`ComposeStore` (storing), `SelectSource`, `CountSource`, `ReadFirst`, `ReadRest`,
`SelectTarget`, `ClearPut`, `AddPut`, `AddDelete` (moving), `CountRows`,
`WorkerWaits`, `WorkerBegins`, `WorkerExecutes`, `MarkHandled` (both) are
`task_completed`; `Erase` is 678009, `Change`, `ReadChange`, `DropRow`,
`ClearText`, `AddInsert` are 657312, `HttpWaits`,
`HttpBegins`, `HttpExecutes` the transactions of both, `Look` is 657311, 678006
and 678007, `Restart` a crash.

Choices worth knowing:

* Setting the text of a SELECT and executing it is one step: when another thread
  replaces the text in between, the outcome is that of its own SELECT coming
  last, which the module has.  `Clear` and `Add` of the other query are separate
  steps where the code adds, because there the texts of two threads mix.
* Between a SELECT and each use of its result another thread's SELECT may come:
  the count (`RecordCount`, at `CountRows`, `CountSource`, `ReadChange`), the
  first text (`ReadFirst`) and the other three (`ReadRest`) are read in steps of
  their own.  A move may so carry `Blank` or `Mixed` texts to its target; that
  they are right when nobody came is `Recorded`.  The three texts of `ReadRest`
  are one step: a cut between them gives `Mixed` as well.
* `Execute` runs whatever the text is by then, statement by statement: `There`,
  `Written` and `Left` say what the statements before and up to a place leave.
  An INSERT for an occupied location is refused by `UNIQUE (area, row, column)`
  and the whole text is rolled back.
* `StartTransaction` inside a transaction raises (UniDAC, outside the
  repository).  In the worker nothing catches that and the process ends; in an
  HTTP thread the request ends.  So it is for a column another thread's SELECT
  does not have.
* Two threads in one VCL object at the same time may corrupt memory.  Only the
  outcomes of whole operations in any order are modelled.
* Numbers of finished tasks are taken to be distinct; that is
  `TaskHub!HeldIdsProper`.
* The answers to the queries, the columns that do not tell stacks apart, the
  colour and `count_handled` are left out.

### EndPick and IssueClient

A client from the click on the map to the row in its list.  All its handlers run
in one user interface thread and its requests wait for their answers, so a
handler is one step; only the dialog for the ware, which is modal, lets the
timers run in between, so opening and closing it are two.  The hub is an
`INSTANCE` of `TaskLife`, the abstract specification that `TaskHub` implements,
to which the numbers and verdicts of the tasks are added.

| Variables | Code |
| --- | --- |
| `edit1`, `edit2` | `Edit1->TagObject`, `Edit2->TagObject`: the two ends chosen |
| `red` | the locations painted red (`EndPick` has these three) |
| `fresh`, `held`, `done` | the hub, as in `TaskLife` |
| `num`, `verdict`, `nxt` | the number and the verdict of each task, the hub's next number |
| `permit` | the event `event_nextagvtask` |
| `dialog` | `Form6` is open |
| `av`, `timer` | `av_pending`; `timer_query_rti` is enabled |
| `rows` | `at_items` with the two texts of the grid: `finished` is `state_running == 2` |
| `faults`, `restarted` | to bound lost answers and restarts; whether the hub restarted |

Actions and code: `Click` (`stor_loc_display`, whose six cases are six operators
of `EndPick`), `ClickWithPermit`, `ClickWithoutPermit`, `DialogConfirmed`,
`DialogCancelled` (all `SpeedButton1Click`, with `issue_task_http` in `Issue`),
`timer_query_rti`, `timer_request_running_status`, `WareDialog`; `HubTakes`,
`Decide`, `Finish` and `HubRestarts` are the hub.

Choices worth knowing:

* A request reaches the hub and is answered, reaches it and its answer is lost,
  is answered with a text that is no number (the hub may have used a number up for
  it), or does not reach it.  The handler goes on in any case: the row is pushed,
  with number 0 when no number came; an answer, whatever it says, enables the
  timer, which then asks for the verdict on number 0.
* `state_running` of a new row is what the stack held: 2 or something else.
* A finished row whose end is not what the handler expects raises an access
  violation in it; the answers behind it are then not handled (`Breaks`).
* Kinds of task the client treats alike are one value each; a location is one of
  two sorts, storage (a circle) or special (a rectangle).
* What is true and perhaps not wanted, and therefore not a property: a cancelled
  dialog or a lost answer takes the permit for good; a click without the permit
  empties the two fields although the new ends stay red.  `PermitByVerdict` and
  `RedOnlyIfRefused` say exactly when.

### Lift1

The lift, the main thread (`data_handler`), `timer_lift1` and the PLC.  Both
threads use one modbus context without a lock.  A step is one request sent or
one answer read, and the three macros that try ten times, connect again and try
ten times more are a small machine (`job`) that each thread runs.

| Variables | Code |
| --- | --- |
| `floor`, `cmd` | the PLC's registers 20 and 22 |
| `ctx`, `aside` | `ctx_tcp_modbus[plclift1]`: usable or freed; the thread that waits on a context the other has freed or replaced, and the answers there |
| `answers` | of the PLC, not read yet: each with the number of its request |
| `job` | the macro and the try a thread is at, and the number of the request it waits for |
| `main`, `storey`, `order` | where `data_handler` is, for which storey, up or down |
| `timer`, `status` | where `timer_lift1` is and its last reading |
| `goal_lift1`, `event_lift1`, `arrivals` | the globals; 523100 on its way from the hub to itself |
| `reply` | what the dispatcher was told |
| `seen`, `twice`, `owed`, `spare` | history: the storeys the lift was at since a thread's reading began; threads that sent, since then, a number in use; an order to be answered; confirmed orders less arrivals |

Actions and code: `Query` and `Placed` (657189, `lift1_ready`), `Go` and
`Ordered` (657192, `lift1_go`), `Arrived` (523100), `Wakes`, `Polls`, `Compare`
(`timer_lift1`), `Send`, `Receive`, `TimesOut`, `UsesFreed` with `Fails`,
`Succeeds`, `GivesUp` (the macros), `Disconnect` and `Connect` (between their two
rounds), `Moves` (the PLC).

Choices worth knowing:

* What happens to a request is what `Modbus` shows of the TCP transport: an
  answer counts only with the number of the request, and one that was given up
  upsets the requests after it.
* Two threads count `t_id` without a lock.  A race gives both one number, or sets
  the counter back by as much as the other has counted meanwhile
  (`modbus-tcp.c:102`), so that this request or a later one has the number of an
  earlier one.  What matters of a number is whether it is in use: `Send` takes the
  first that no request and no unread answer has (`Unused`), or, as a fault of the
  bound, one that is `Used`.  Whoever sends such a number is `twice`: it may take
  an answer that is not its own, and `ReadyIsFresh` and `ArrivalSeen` promise it
  nothing.  The other thread, whose request had the number first, may lose its
  answer but still reads of its own time.
* A context is freed and made anew in two steps (`common.h:558`): between them the
  other thread uses a freed one, or frees it again, or makes one that is then left
  behind.
* The use of a freed context is undefined: the request fails, or the process ends
  and is started again (`Crash`).
* 657184 does nothing in the code.
* The three attempts of `CONNECT_LIFT1` end with a context, or with a pointer to
  a freed one.

### AgvRegistry and BusConn

`AgvRegistry` is the vector `agvs`, the table of that name and the counter
`id_agv_max`: a vehicle registers or changes its storey (`RegAgv`), the process
starts again (`load_agvs`), and a transaction may fail without anyone noticing
(`Commits`).  `behind` remembers for which vehicles one did.

`BusConn` extends it with the select loop, the table of connections and the
framing.

| Variables | Code |
| --- | --- |
| `conns`, `wire`, `closed` | connections so far, what each peer has sent, which peers have closed |
| `owner` | which connection a socket number belongs to: numbers are used again |
| `bus_conn`, `heap`, `free` | the vector of pointers, the records (`sock_kit`: the socket and the buffer), how often the allocator has each to give: 0 or 1, and 2 after a double delete |
| `at` | the record whose buffer is being parsed |
| `dispatcher` | the global number of a socket |
| `registrant`, `due`, `rough`, `answer`, `hurt` | history: who registered last, frames still to be handled, connections with uneven noise, who was answered, connections whose record was deleted or given away under them |

Actions and code: `Accept` (accept, `SET_SOCK_KIT`), `Recv`, `Discard`, `Close`
(the loop in `main.cpp`), `Frame`, `Skip`, `Wait` (`BUF_PARSE`), `PeerCloses`,
`Restart`.

Choices worth knowing:

* The unit is a word of four bytes: a frame has a head of three, eight in all
  with its head, and a check sum.  A cut inside a word is not modelled.
* After `bus_conn.erase` the iterator names the next connection, whose record is
  deleted although it stays in the table; or, when the last was erased, its stale
  place still holds the record just deleted, which is deleted a second time
  (`main.cpp:242`).  `free` counts: after a double delete the allocator may give
  one record to two connections, or notice and give it once (`Accept` need not
  take it twice).  Deleted memory keeps its socket or loses it.
* `Holder` is the connection that finds a record by its socket.  A connection is
  `hurt` when its record was deleted early, or given to another, or when its own
  socket's number was found in a deleted record; the properties about frames leave
  these out, since for them frames are lost, and speak of all others.
* The allocator and the system choose records and sockets freely; `Picks` only
  leaves out choices that differ from another in the name (a record that nothing
  points to, a socket nothing refers to).
* Resynchronisation looks at every third word.  `rough` connections, whose noise
  is no multiple of that, may lose frames, and `FramesKept` leaves them out;
  `NoSelfClose` and the others do not.
* The buffer of the program has 17408 bytes and its messages are far shorter; in
  the model the longest frame fills the buffer exactly, so that a buffer that
  holds one and the beginning of another does occur.  A frame that is longer
  than the buffer, which no sender of the program makes, is left out.
* The payload is registration, the query of the lift (which is answered to
  `dispatcher`) and a damaged frame.

### Modbus

The library: a client and a server joined by a TCP connection, or by a serial
line with another device on it.  Messages are modelled by their bytes, because
what the properties are about is that three separate computations of a length
(the sender's, the receiver's while it reads, the client's expectation) agree,
and that bits and words come out as they were put in.  `Pdu` composes each
request, `Size` is `_modbus_receive_msg`, `Expected`
`compute_response_length_from_request`, `Reply` is `modbus_reply`, `Check`
`check_confirmation`; `Means` and `Gets` say what a call means without a byte in
them and are the reference.

Actions: `Call`, `SendRaw`, `Confirm`, `TimesOut`, `Breaks`, `Reset`,
`Reconnect` (the client), `Serve` (the server), `OtherAnswers` (the device it
shares the line with).  What is left of a message read in part is `Junk`: whoever
reads it fails, and a server on a serial line may take it for a message to
another device and ignore the next one (`TakenForForeign`).  That junk has the number a client waits for by chance, or a
right check sum, is left out.

A serial line has no transaction numbers: after a call that gave up, the next one
may get its answer.  `AnswerOwn` says so, and asks for the client's own answer
over TCP without that exception.

`ModbusAssumption` says what a call is: a function the library has, words for
addresses, counts and values (the parameters are `int` and `uint16_t`), and as
many values as the function takes.  Counts over the limits of `modbus.h` are
calls too; `Within` refuses them where the library does.  `RawAssumption` says
what is sent with `modbus_send_raw_request`: a request whose length the server
computes as it is, and none that writes, since `ServedOnce` is about calls.
Bits are taken from bytes by `BitOf` and put together by `Pack`, with powers of
two in place of shifts, so that the provers can follow both.

### WareMap

What the client builds from its configuration at the start, as operators: no
variables.  `conf_template` is what the program writes when it finds no file;
`release_ini` is the file beside the released program
(`src/NgStorage6/Win32/Release/NgStorage.ini`), an older map.  `parse_config`,
`Matrix` (`build_matrix`), `Storloc` (`draw_basis`), `Available`
(`inavailable_storloc`, which tells what *can* be used), `Labels`
(the coordinates), `RectangleCovers` (special locations), `ColumnsPlan`
(`build_column_plan`): its three loops are `ColumnsPlan` over the storeys,
`StoreyEntered` over the rows and `RowEntered` over the columns, each a recursive
function, so that it can be proved about; `Enter` is the body and `Sort` stands
for `std::sort` with `rowASC`, `columnASC` and `areaASC`.  `std::sort` leaves the
order of equal elements open and `Sort` keeps it; the proof shows that there are
none.  A point is a storey, a row and a column; colours and pixels are left out.

Facts met on the way: rectangles of the second storey are moved by a hard-coded
36, whatever the width of the first is; the last two areas lie within the first
and override it; the labels of rows along it are not those of these two, so that
only the labels of columns are stated; the plan of columns is built and then used by
nothing.  Numbers are 32-bit and unsigned in the code; TLC's own are 32-bit and
signed, so `WordSpan` is 2^16 in the run, and all that is assumed of it
(`WordAssumption`) is that it is above 255, far more than any number on the map.

### MainFrame

The main window, composed of `AgvRegistry` (the hub) and `WareMap`.

| Variables | Code |
| --- | --- |
| `conf` | which configuration was read |
| `info_agvs` | the vector, one entry and one button for each |
| `highlighted` | the button that stands out |
| `head`, `cells` | the heading of the table's first column and what its row shows |
| `hittest`, `shown` | the two buttons of regions, and what is visible because of them |
| `lost`, `again` | failed requests; whether the hub ever came back with a smaller counter |

Actions and code: `Start` (`FormCreate`), `FreshAnswered` and `FreshLost`
(`timer_fresh_agv` with `Merge`), `ColorButtonClick`, `CircleClick`,
`SlctClick` (`CornerButton9Click`), `SchdlClick`; `HubHears` and `HubRestarts`
are the hub.

Choices worth knowing:

* The array for an answer is allocated and not cleared.  After a failed request
  it holds what the memory held: addresses of vehicles, one that is no vehicle's,
  or none.
* The answer has its rows in any order, which is more than SQLite does.
* A vehicle whose button stands out cannot be shown again by its own button after
  a click on a location; a row shown under an old number is not refreshed any
  more.  Neither is a property.
* More than nine vehicles overrun the arrays of the answer; see the hazards.

### The proof and MC modules

`TaskHubProofs`, `WareLedgerProofs`, `IssueClientProofs`, `AgvRegistryProofs`,
`BusConnProofs`, `Lift1Proofs`, `MainFrameProofs` and `ModbusProofs` hold the
theorems, see below.  `MCTaskHub`, `MCWareLedger`,
`MCIssueClient`, `MCLift1`, `MCBusConn`, `MCModbus` and `MCMainFrame` only give
values to constants (`MCLift1` also starts the lift at the lower storey, the
storeys being alike).

In the modules, operators commented as "A slip" are single mistakes one could
make in the code (a guard dropped, a reset forgotten, a search from the wrong
end).  No action uses them.  Each is put in place of the definition it
stands beside to see that a property notices; `PROJECT.json` lists the pairs
under `mutants`.

## Runs

| Run | Instance | Shows |
| --- | --- | --- |
| `hub_safety` | 2 HTTP threads (symmetric), 1 vehicle, 2 tasks, 4 numbers of which the first is the last before the wrap, 1 message on its way, 1 fault | `TypeOK`, `HeldIdsProper`, `OverWasRun`, `UnknownOnlyWhileMoving`, and `LifeSpec`: TaskHub implements TaskLife |
| `hub_live` | 1 HTTP thread that does not poll, 2 tasks, 1 fault, fairness | `TickedTaskLeaves` |
| `id_reissue` | as `hub_safety` with 1 HTTP thread | violated: `NumbersNeverReused` |
| `ledger_safety` | 1 HTTP thread, 2 locations (symmetric), 2 finished tasks of any kind, 1 request of any kind, 1 fault | `TypeOK`, `NoneMissed`, `Recorded` |
| `ledger_live` | 2 HTTP threads, 2 locations, 2 finished tasks that store or move, 2 erases, fairness | `OneTransaction`, `StoresHandled` |
| `erase_replayed` | 1 HTTP thread, 2 locations, 2 storings, 1 erase, no fault | violated: `ErasedStaysErased` |
| `issue_safety` | 2 storage locations (symmetric), 3 kinds, 2 verdicts, 2 tasks, 2 numbers, 1 fault | `TypeOK`, `OneUndecided`, `ShownIsDone`, `FinishedStays`, `PermitByVerdict` |
| `issue_live` | 2 storage locations and 1 special, all 4 kinds, 1 task, 1 fault, fairness | `EndsDiffer`, `RedOnlyIfRefused`, `VerdictArrives`, `NewestShown` |
| `modbus` | TCP and serial, all 4 sets of recovery modes, 13 different calls, 2 calls and 1 fault in a behaviour, 4 transaction numbers | `TypeOK`, `SizesAgree`, `AnswerOwn`, `ServedOnce` |
| `lift` | 2 tries, 2 orders, 1 fault, fairness | `TypeOK`, `OneArrivalEach`, `ReadyIsFresh`, `ArrivalSeen`, `OrderAnswered` |
| `bus` | 1 vehicle, 3 connections over 2 socket numbers, 3 streams, a buffer of 10 words, 1 failed transaction, 1 restart, fairness | `BusTypeOK`, `RowsFollow`, `FramesKept`, `ToRegistrant`, `NoSelfClose`, `EveryFrameHandled` |
| `frame` | both configurations, 2 vehicles, 1 failed transaction, 1 failed request | `MapRight`, `ButtonsRight`, `GridOwn`, `IdsUnique` |

### Bounds

The hub.  Two tasks are enough for two numbers to meet, for a push during a walk
and for the order of `tis_over`; two threads for two requests to interleave; the
counter wraps between the two tasks; one message at a time loses nothing but the
length of a queue the main thread empties in order; one fault gives every place
a crash can fall on.  `hub_live` has two tasks, so that one is pushed while
`tis` is walked for the other.  The proofs have none of these bounds.

The ledger.  Two tasks give a round after a round, so that handled
tasks stand behind unhandled ones and are replayed; two locations are the two
ends of a move; one request of any kind meets the worker at each of its steps,
so that its SELECT or its text comes between any two of them.  In `ledger_live`
two HTTP threads with an erase each meet one another and the worker; an erase is
what empties the source of a move, and a move that was composed before it makes an
INSERT that `UNIQUE` refuses, which needs no fault.
The proofs have none of these bounds either.

The client.  Two tasks make the second meet what the first has left in
`av_pending`, in the list and in the permit, and two numbers let a restarted hub
give one out again; one fault is a lost answer or a restart at any point.  One
task, but every sort of location and kind, is what sequences of clicks need.

The lift.  Two tries stand for ten: the first, the last, and the
renewal of the context between two rounds are there.  Two orders or queries meet
one another and the timer; a fault puts a late or torn answer, a number in use or
a failed connection anywhere, and the requests it upsets and the other thread's
traffic make the rest.

The bus.  Frames are cut after eight words or wherever the buffer is
full; noise of a multiple of three and of other lengths, a damaged frame of the
full length of the buffer; three connections over two numbers make a number and
a record meet their second owner, and a record deleted twice be given to two; one
restart loads the table in the midst.  One vehicle is enough for what the bus
adds; several numbers are in `frame`.

Modbus.  Numbers of bits on both sides of a byte, one and two words,
addresses outside the tables, a call of zero length; a late, torn or missing
answer, and a raw request that is not answered or refused, before or after the
call that is looked at.

The window.  Two vehicles are enough for one to be shown in the place
of the other; one failed transaction makes the hub forget a number, one failed
request leaves garbage in the array.  The two maps are those of the repository.

### Fairness

`TaskHub`.  The main loop and the worker never stop: weak fairness.  Where the
main thread waits for a jammed `cs_tis` it has no step to take, and
`TickedTaskLeaves` ends there.
The dispatcher connects again, registers its vehicles, goes on with a task it
has begun, and repeats the state of a task it has ended (the comment at
`common.cpp:311` gives two seconds).  Its messages compete for the one place
`MaxInbox` leaves in the queue, a bound of the model, so strong fairness is asked of each.  Clients,
losses and restarts are under no obligation.  Deadlock is not checked: a
behaviour ends when the bounded requests were issued and the clients and the
dispatcher want nothing more.

`WareLedger`.  The worker never stops and a request that was begun goes on:
weak fairness of the worker and of each HTTP thread.  A thread that spins on
`InTransaction` may be overtaken again and again in principle; requests are
bounded in the model, so here it gets its turn, and `StoresHandled` says no more
than that for a load of requests that ends.  Clients, restarts and failures are
under no obligation.

`IssueClient`.  The timers of the client fire for ever.  Their requests compete
with clicks that enable and disable them, so strong fairness is asked of both.
The dispatcher decides on a task the hub holds: weak fairness.  That it finishes
one, or that anyone clicks, is not assumed.

`Lift1`.  The lift moves when it is told to; each of the two threads goes on.
That the main thread is one select loop is why it has a single fairness
condition, for its macros and 523100 together.

`BusConn`.  The main thread goes on (`WF(Loop)`); peers need not close.

Deadlock is checked in `frame` only.  The others end when the bounded requests,
orders, calls or connections are used up.

## What the violated runs show

* `id_reissue`.  657194 stores the number it has just given out
  (`compones.cpp:51`), and `next_id_ti()` takes the stored number as the next
  one.  After every restart the last task's number is used a second time.  The
  dispatcher then has two tasks of one number.
* `erase_replayed`.  `copy_unhandled` lives outside the worker's loop and is
  never cleared.  A storing is recorded; the client erases its location; the next
  finished task wakes the worker, which goes through all earlier tasks again,
  finds no row at the location and inserts the stack once more.  No two threads
  are at the shared objects together in that trace.

## Proofs

`TaskHubProofs` proves for every value of the constants allowed by the two
assumptions of `TaskHub`:

* `SpanAssumption`: fewer tasks are issued than there are numbers
  (`IdSpan > MaxIssue + 1`; in the code 2^32 numbers), and the database starts
  with a number in range.
* `BoundAssumption`: the bounds are numbers.

| Theorem | States |
| --- | --- |
| `TypeCorrect` | `Spec => []TypeOK` |
| `HeldNumbers` | `Spec => []HeldIdsProper` |
| `FinishedWasRun` | `Spec => []OverWasRun` |
| `UnknownMeansMoving` | `Spec => UnknownOnlyWhileMoving` |
| `HubImplementsLife` | `Spec => LifeSpec` |
| `Inductive` | `Spec => []IndInv`, on which the others rest |

None of the properties is inductive.  `IndInv` has five parts.  `NumberInv`: as
long as the hub holds task *t*, the counter has gone on from *t*'s number by one
per issue; this is why numbers differ although the counter wraps and a restart
may set it back (a restart that sets it back also empties the memory).
`ThreadInv`: each HTTP thread works on a task of its own, and a number that was
not found in `tis` belongs to a task that has left it for good.  `MainInv`: a
task that is in neither list is in the main thread's hands.  `ReportInv`: each
tick of a step goes back to a waypoint the dispatcher sent; it is carried along
the message queue and the local copy of `data_handler`.

`WareLedgerProofs` proves, from `LocAssumption` (finitely many locations, for
the count of 678007), `KindAssumption` and `LedgerBounds`:

| Theorem | States |
| --- | --- |
| `TypeCorrect` | `Spec => []TypeOK` |
| `NoTaskMissed` | `Spec => []NoneMissed` |
| `TransactionsApart` | `Spec => []OneTransaction` |
| `UndisturbedRecorded` | `Spec => Recorded` |
| `Inductive` | `Spec => []Inv`, on which the others rest |

`Inv` adds to the properties: `WorkInv`, tasks in the lists are finished ones and
a handled one was copied (so a new one is neither, and the scan may stop at the
first handled task); `PlaceInv`, at each place the worker is at a task of the
kind that place is for; `ResultInv`, a result with rows and the four texts has a ware (for
the type of what the worker reads, whoever selected it and at whichever step); `AloneInv`, what an
undisturbed worker knows at each of its steps: how the last SELECT and the text
composed so far relate to the table.  `AloneInv` leads to `Recorded` through the
lemmas `StoreExecuted` and `MoveExecuted`, which execute the two texts the worker
composes; `LeftType` is about texts of any length and rests on the largest
element of a bounded set of numbers (`MaxIn`).

`IssueClientProofs` proves, from `LocAssumption` and `IssueAssumption`:

| Theorem | States |
| --- | --- |
| `IssueTypes` | `Spec => []TypeOK` |
| `EndsAlwaysDiffer` | `Spec => []EndsDiffer` |
| `OneQuestion` | `Spec => []OneUndecided` |
| `ShownAreDone` | `Spec => []ShownIsDone` |
| `FinishedRowsStay` | `Spec => FinishedStays` |
| `PermitAfterVerdict` | `Spec => PermitByVerdict` |
| `RedWasRefused` | `Spec => RedOnlyIfRefused` |

The invariant `IInv` adds to these: `Numbered` and `Distinct` about the hub (a
task taken in has a number, and until a restart no two have one), `RowNumbers`
(row *i* has the number of task *i*, or none), which together make the search for
a row by number find the right one, and `DialogStores`.  `OneUndecided` is not
inductive alone: that a click cannot overwrite `av_pending` while a verdict is
awaited rests on the permit, the dialog and the timer together, and on
`RowNumbers` for the row that shows the verdict.

`AgvRegistryProofs` proves for every set of addresses:

| Theorem | States |
| --- | --- |
| `NumbersUnique` | `RegistrySpec => []IdsUnique` |
| `RestartFindsAll` | `RegistrySpec => []RowsFollow` |

The invariant `RInv` adds `RowsKnown`: every row is that of a vehicle in memory,
with the same number, and the counter is not below any number.  It is what makes
a new number new in the vector and in the table, although the counter starts
again from a table in which rows may be missing.

`BusConnProofs` proves, from `BusAssumption`, `StreamAssumption` (a peer sends a
sequence of messages; a frame is a `dx` and a check sum at least and fits the
buffer; one that registers names a vehicle) and `RegistryAssumption`:

| Theorem | States |
| --- | --- |
| `VehiclesKept` | `BusSpec => [](IdsUnique /\ RowsFollow)` |
| `BusTyped` | `BusSpec => []BusTypeOK` |
| `AnswersRegistrant` | `BusSpec => []ToRegistrant` |
| `HubClosesNone` | `BusSpec => NoSelfClose` |
| `FramesAllKept` | `BusSpec => []FramesKept` |

`BInv` has five parts: `MemoryInv`, the type of every variable; `OwnerInv`, no two
sockets belong to one connection, and none to one not made yet (so a number given
again cannot be taken for the registrant); `ParseInv`, what is parsed is the buffer
of an open socket; `RoomInv`, only the buffer that is parsed may be full, for a
frame that waits is longer than what is there and still fits, and a buffer without
a head keeps less than three words (`Resynced`, which rests on the least element of
a set of numbers, `LeastNat`); `AnswerInv`, the socket kept as dispatcher is the
registrant's as long as that is open.

`FramesKept` has an invariant of its own, `FramesInv`.  A connection that stays
open, is not `hurt` and sends no odd noise has one record: every pointer whose
record has the number of the socket is to it (`HasRecord`), although `bus_conn`
holds pointers to deleted records and may hold one twice, and although the
allocator may have that record to give as well: the step that gives it hurts its
`Holder`.  What its buffer and the wire keep together is
`Kept`: the words of a message follow each other and after the last comes the
first of another (`InOrder`); the first word there is the first of a frame, or
noise at a multiple of `Mod` (`StartsWell`); the frames in it are those that are
due, in whole (`Awaited`).  Without `StartsWell` it is not inductive: the loop
would cut a frame in the middle, or step over its head.  `recv` changes nothing
of the two together (`MovedOn`); a frame takes the first that is due
(`FrameGoes`); resynchronising drops noise only, because by induction over the
multiples of `Mod` a frame before the first head would have been that head
(`NoiseFirst`).  That what a peer sends is like this to begin with (`StreamTold`)
is an induction over the messages `FlattenSeq` joins: its recursive function is
shown to exist, and the induction is one over a set of numbers (`Inducts`).

`VehiclesKept` carries `RInv` of the registry through every step of the bus.

`Lift1Proofs` proves, from `LiftAssumption` (the number of tries and the bounds
are numbers, and there is a try), for any number of tries, orders and faults:

| Theorem | States |
| --- | --- |
| `LiftTyped` | `Spec => []TypeOK` |
| `ArrivalsOwed` | `Spec => []OneArrivalEach` |
| `ReadyWasSeen` | `Spec => ReadyIsFresh` |
| `ArrivalWasSeen` | `Spec => ArrivalSeen` |

`LInv` ties each thread's macro to where its thread is (`JobInv`, `Fits`) and says
of what is under way (`MailInv`): what the lift shows while a thread looks for it
is `seen` (`Fresh`), and so is the value of every answer that has the number a
thread waits for, on the context it waits on, unless that thread is `twice`
(`Answered`, `Honest`, `Mail`).  A request has a new number or makes its sender
`twice`, so an answer left over from another reading, of either thread, is never
taken for this one's; that is the step `SendKeeps`.  All that a macro does to the
hub is collected in `Advances`, so that the answers are dealt with once
(`MailKept`, `LeavesMail`).

`MainFrameProofs` proves, from `FrameAssumption` (finitely many addresses, so
that the garbage of an answer has a length, and values no address has),
`RegistryAssumption` and `WordAssumption`, for any number of vehicles, failed
transactions and failed requests:

| Theorem | States |
| --- | --- |
| `WindowButtons` | `Spec => []ButtonsRight` |
| `RowOwn` | `Spec => []GridOwn` |
| `FrameInvariant` | `Spec => [](FInv /\ RInv)`, on which both rest |
| `MapIsRight` | `Spec => []MapRight` |
| `PlanOfNames` | `NamesUnique(cf) => PlanComplete(cf)`, for every configuration `cf` whose numbers are integers (`ProperConf`) |

`GridOwn` is not inductive.  That the row still shows its vehicle after a refresh
rests on `NumbersOwn`: a number that was ever given names one vehicle in the hub,
in `info_agvs` and in the row.  It holds until a request fails or the hub comes
back with a smaller counter, and it needs `RInv` of the registry, whose next
number is new.  The handler merges a whole answer, a fold over a sequence of any
length, which is proved by induction on that length.  The library's theorem of
induction takes an operator as a parameter, which the provers cannot be given;
the lemma `Induct` takes a set of numbers instead.

`PlanOfNames` is about the algorithm, whatever the file says: any storeys, areas
and arteries.  `PlanAt` is what the loops keep: the plan has the usable locations
of the points visited so far, each once, in a column of its own number and an
area of its own (`CellKeeps`, `RowKeeps`, `StoreyKeeps`; that each loop has a
result at all is `LoopRuns`).  It needs that no two locations share a name only
for the order: with equal rows `std::sort` would leave them in any order, and
none would ascend strictly.  `SortIs` says that a sequence whose keys are
distinct ends in ascending order with the elements it had, since an element's
place is the number of smaller ones.

`MapIsRight` adds what is particular to the two files.  `CutsAre`: ten arteries
of the first storey and two of the second are in both.  `PointPlot`: what they
leave lies on five plots.  `PlotNumbers`: the last area over a plot numbers it by
a formula linear in row and column, whose differences stay within 0 and 24 and do
not wrap.  The rest is arithmetic on five formulas: names (`NamesOf`: in area 0
the column decides which of two formulas gave the row), labels
(`TemplateLabels`; the released file draws none), rectangles (`SpecsClear`,
`ClearCovers`).  The other arteries only take locations away, so nothing is said
of them.

`ModbusProofs` proves, from `ModbusAssumption` and `RawAssumption`, for every set
of requests, all tables and any number of calls and faults:

| Theorem | States |
| --- | --- |
| `Types` | `Spec => []TypeOK` |
| `SameSizes` | `Spec => []SizesAgree` |
| `OwnAnswer` | `Spec => []AnswerOwn` |
| `OneServing` | `Spec => ServedOnce` |
| `LineInvariant` | `Spec => []IInv`, on which the others rest |

The proof has two halves.  The bytes: lemma `ReplyFits` says of every request the
client lets out and of all tables that the server reads exactly the bytes that
were sent, changes the tables as the call means, and answers with bytes that have
the length the client computes and the values of the tables.  It has one lemma
per function (`ReadBitsFits`, `WriteCoilFits` and so on), which rest on what a
byte is made of (`ByteIs`, `PackIs`, `UnpackIs`), on the positions of words in a
message (`StartIs`, `CountedIs`), and, for the masked write, on a word being its
sixteen bits (`ByteBits`, `MaskedIs`).

The line: `IInv` says of every message under way what it is.  The server finds
junk, raw requests, requests of calls, each at most once and not served yet
(`EachOnce`, `AllUnserved`), and on the serial line what the other device
answered.  The client finds junk, answers to raw requests, which have number
zero, and answers to calls, with the number of the call and the values that were
served (`AnswersCall`).  Over TCP that is enough: a message with the number
waited for is the answer to that call.  The serial line has no numbers, and
there the invariant has `Quiet`: as long as no call has given up, at most one
answer is awaited or there, and it is that of the call the client waits for.
That a part of a message that was cut off stays harmless rests on every queue
being a rest of the old one with some of it turned into junk (`Left`).

Only model-checked: all liveness (`TickedTaskLeaves`, `StoresHandled`,
`VerdictArrives`, `NewestShown`, `OrderAnswered`, `EveryFrameHandled`: outside
the prover's reach) and the violations.  Every invariant and every safety
property of a step that a run checks is a theorem.

## Not modelled

* Drawing: colours other than red, sizes, zooming and moving, the hidden views of
  single storeys, headings and popups.
* The ware dialogs of the client: forms whose state ends with the click that
  closes them.  What they return is a choice in `IssueClient` and `WareLedger`.
* Parts of the registry that only copy a value: the battery (657203), 678002 and
  678004.
* Of the stray `LeaveCriticalSection` (`common.cpp:426`), that it releases the
  section under a thread that is inside it; and the time before `next_id_ti` in
  which the HTTP server answers already (`main.cpp:76`).  Both are hazards.
* Connections the hub opens to itself (`self_link`, `inter_link`,
  `connect_who`): peers like any other in `BusConn`; in `Lift1` only what is
  sent over one.
* The schema script and the database components.
* Of libmodbus: sockets and listening, the settings of serial ports,
  `modbus-data.c` but for `modbus_set_bits_from_bytes`.
* Dead code: in the hub `charge`, `idle_G`, `clean_wps` and 678001,
  `cleaning_ti_handled`; in the client the old TCP connection
  (`MainForm.cpp` 88-505, 1670-1746, 1913-1946), its HTTP server, the matrix form
  and the database module.
* Faults of memory: more than nine vehicles in an answer, two threads in one VCL
  object.

## Plan

The modules planned are written: `TaskHub`, `TaskLife`, `WareLedger`, `EndPick`,
`IssueClient`, `Lift1`, `AgvRegistry`, `BusConn`, `Modbus`, `WareMap`,
`MainFrame`, and the proofs of eight of them.  What would come next:

1. An abstract ledger to which each finished task is applied once, which a worker
   with a copy of its own per round would implement and this one does not.
2. The step `Restart` of `TaskHub` split in two, with the HTTP server active in
   between.
3. `IssueClient` composed with two clients: numbers of one hub, lists of their
   own.
