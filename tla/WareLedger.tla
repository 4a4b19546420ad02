----------------------------- MODULE WareLedger -----------------------------
(***************************************************************************)
(* The ledger of wares in the hub (src/WareHub2): table ware_storloc of    *)
(* the database, the worker task_completed that records finished tasks in  *)
(* it, and the HTTP requests that erase, change and read rows.             *)
(*                                                                         *)
(* All of them use one query object for SELECTs (result_storloc), one for  *)
(* everything else (noresult_storloc) and one connection, without a lock:  *)
(* what a thread has put there another may have replaced when the first    *)
(* comes back to it.  An action is one use of these objects.               *)
(***************************************************************************)
EXTENDS Integers, Sequences, FiniteSets, FiniteSetsExt

CONSTANTS
  HttpThreads,      \* threads of the HTTP server
  Loc,              \* storage locations, the rows name_storloc may name
  Ops,              \* kinds of tasks that finish: store (I1, I2), move (X1,
                    \* X2, X12, X21), take (U1, U2 and all others)
  Requests,         \* kinds of requests: erase, change, look
  MaxTask,          \* bound: tasks that finish
  MaxRequest,       \* bound: requests
  MaxFault          \* bound: failed transactions and restarts

ASSUME LocAssumption == IsFiniteSet(Loc)
ASSUME KindAssumption ==
  /\ Ops \subseteq {"store", "move", "take"}
  /\ Requests \subseteq {"erase", "change", "look"}
ASSUME LedgerBounds == MaxTask \in Nat /\ MaxRequest \in Nat /\ MaxFault \in Nat

Task == 1 .. MaxTask
Nothing == -1                    \* no row
Ware == 0 .. MaxTask + 3         \* the texts of a stack: 0 the one there at first,
Changed == MaxTask + 1           \* t the one task t stores, Changed what a client
Blank == MaxTask + 2             \* typed; and what the worker may put together:
Mixed == MaxTask + 3             \* no texts, or those of several stacks

VARIABLES
  work,             \* work[t]: what finished task t was, NoWork before
  tis_over,         \* the finished tasks, the newest first
  handled,          \* handled[t]
  incoming,         \* the flag task_completed sleeps on
  copy_unhandled,   \* the worker's copy
  ware_storloc,     \* the table: what is at each location
  result,           \* result_storloc: rows and columns of the last SELECT
  sql,              \* noresult_storloc: the statements of its text
  InTransaction,    \* of the connection
  worker,           \* where task_completed is
  http,             \* where each HTTP thread is
  alone,            \* nobody else touched the objects since the worker took
                    \* up the task it is at, and nothing failed
  erased,           \* locations a client emptied by 678009, and nobody but an
                    \* already recorded task has filled since
  requests, faults  \* so far

memory == <<tis_over, handled, incoming, copy_unhandled>>
table == <<ware_storloc, erased>>
objects == <<result, sql, InTransaction>>
vars == <<work, memory, table, objects, worker, http, alone,
          requests, faults>>

NoWork == [op |-> "none"]
Work == [op : Ops \intersect {"store", "take"}, to : Loc]
          \union {m \in [op : Ops \intersect {"move"}, from : Loc, to : Loc] :
                    m.from # m.to}

Rows(n, w, p) == [n |-> n, ware |-> w, packs |-> p]
Statement(op, l, w) == [op |-> op, loc |-> l, ware |-> w]
At(p, k, w, b) == [pc |-> p, k |-> k, found |-> w, there |-> b]
Asleep == At("sleep", 1, 0, FALSE)
Free == [pc |-> "idle"]
Asked(p, r, l) == [pc |-> p, asks |-> r, loc |-> l]

Statements == [op : {"update", "insert", "delete"}, loc : Loc, ware : Ware]
Places == {"sleep", "pick", "branch", "compose", "source", "first", "rest", "found",
           "choose", "clear", "put", "drop", "wait", "begin", "exec", "mark"}
HttpStates == {Free} \union
              [pc : {"read", "drop", "clear", "add", "wait", "begin", "exec"},
               asks : {"erase", "change", "insert"}, loc : Loc]

TypeOK ==
  /\ work \in [Task -> Work \union {NoWork}]
  /\ tis_over \in Seq(Task) /\ copy_unhandled \in Seq(Task)
  /\ handled \in [Task -> BOOLEAN] /\ incoming \in BOOLEAN
  /\ ware_storloc \in [Loc -> Ware \union {Nothing}]
  /\ result \in [n : Nat, ware : Ware \union {Nothing}, packs : BOOLEAN]
  /\ sql \in Seq(Statements) /\ InTransaction \in BOOLEAN
  /\ worker \in [pc : Places, k : 1 .. Len(copy_unhandled) + 1, found : Ware,
                 there : BOOLEAN]
  /\ http \in [HttpThreads -> HttpStates]
  /\ alone \in BOOLEAN /\ erased \subseteq Loc
  /\ requests \in 0 .. MaxRequest /\ faults \in 0 .. MaxFault

Init ==
  /\ work = [t \in Task |-> NoWork]
  /\ tis_over = <<>> /\ copy_unhandled = <<>>
  /\ handled = [t \in Task |-> FALSE] /\ incoming = FALSE
  /\ ware_storloc \in [Loc -> {Nothing, 0}]
  /\ result = Rows(0, Nothing, FALSE)
  /\ sql = <<>> /\ InTransaction = FALSE
  /\ worker = Asleep
  /\ http = [h \in HttpThreads |-> Free]
  /\ alone = FALSE /\ erased = {}
  /\ requests = 0 /\ faults = 0

-----------------------------------------------------------------------------
(***************************************************************************)
(* The query objects.                                                      *)
(***************************************************************************)

\* The row of a location: st and the four texts, or st alone.
Row(l, p) == Rows(IF ware_storloc[l] = Nothing THEN 0 ELSE 1, ware_storloc[l], p)

Occupied == {l \in Loc : ware_storloc[l] # Nothing}

\* The text is executed statement by statement.  Is there a row of l after the
\* first i?  The last INSERT or DELETE decides, or the table.
Decisive(l, i) == {j \in 1 .. i : sql[j].loc = l /\ sql[j].op # "update"}
There(l, i) ==
  IF Decisive(l, i) = {} THEN ware_storloc[l] # Nothing
  ELSE sql[Max(Decisive(l, i))].op = "insert"

\* UNIQUE (area, row, column): no second row of a location.
Refused ==
  \E i \in DOMAIN sql : sql[i].op = "insert" /\ There(sql[i].loc, i - 1)

\* An UPDATE of no row writes nothing.
Written(l) ==
  {i \in DOMAIN sql : /\ sql[i].loc = l /\ sql[i].op # "delete"
                      /\ sql[i].op = "update" => There(l, i - 1)}
Left(l) ==
  IF ~There(l, Len(sql)) THEN Nothing
  ELSE IF Written(l) = {} THEN ware_storloc[l] ELSE sql[Max(Written(l))].ware

\* A slip: a failure leaves the transaction open.
RollbackForgotten == UNCHANGED InTransaction
Rollback == InTransaction' = FALSE

\* Execute and Commit, or Rollback: the text is what it is now.
Execute(emptied, filled) ==
  \/ /\ ~Refused
     /\ ware_storloc' = [l \in Loc |-> Left(l)]
     /\ erased' = {l \in erased \union emptied :
                    ware_storloc'[l] # Nothing => l \in erased \ filled}
     /\ InTransaction' = FALSE
     /\ UNCHANGED faults
  \/ /\ Refused \/ faults < MaxFault
     /\ faults' = IF Refused THEN faults ELSE faults + 1
     /\ Rollback
     /\ UNCHANGED table

\* The process ends and is started again: only the table remains.
Emptied ==
  /\ tis_over' = <<>> /\ copy_unhandled' = <<>> /\ incoming' = FALSE
  /\ handled' = [t \in Task |-> FALSE]
  /\ result' = Rows(0, Nothing, FALSE) /\ sql' = <<>> /\ InTransaction' = FALSE
  /\ worker' = Asleep
  /\ http' = [h \in HttpThreads |-> Free]
  /\ alone' = FALSE
  /\ UNCHANGED <<work, table, requests>>

-----------------------------------------------------------------------------
(***************************************************************************)
(* The main thread hands over a finished task (TaskHub!MoveToOver).        *)
(***************************************************************************)

\* A slip: the task is put last.
OverBackwards(t) == Append(tis_over, t)
OverWith(t) == <<t>> \o tis_over

Finish(w) ==
  \E t \in Task :
    /\ work[t] = NoWork
    /\ \A u \in Task : u < t => work[u] # NoWork
    /\ work' = [work EXCEPT ![t] = w]
    /\ tis_over' = OverWith(t)
    /\ incoming' = TRUE
    /\ UNCHANGED <<handled, copy_unhandled, table, objects, worker, http,
                   alone, requests, faults>>

-----------------------------------------------------------------------------
(***************************************************************************)
(* The worker task_completed.                                              *)
(***************************************************************************)
Goes(p) == worker' = [worker EXCEPT !.pc = p]
Current == copy_unhandled[worker.k]
Picks(op) ==
  /\ worker.pc = "pick" /\ worker.k <= Len(copy_unhandled)
  /\ work[Current].op = op

\* A slip: the body advances the iterator as well as the loop.
GoesOnTwice == worker' = At("pick", worker.k + 2, 0, FALSE)
GoesOn == worker' = At("pick", worker.k + 1, 0, FALSE)

\* Section cs_tis_over: the tasks in front of the first handled one are
\* appended to the copy of all rounds before, which starts from its first.
Wake ==
  /\ worker.pc = "sleep" /\ incoming
  /\ \E n \in 0 .. Len(tis_over) :
       /\ \A i \in 1 .. n : ~handled[tis_over[i]]
       /\ n < Len(tis_over) => handled[tis_over[n + 1]]
       /\ copy_unhandled' = copy_unhandled \o SubSeq(tis_over, 1, n)
  /\ incoming' = FALSE
  /\ worker' = At("pick", 1, 0, FALSE)
  /\ UNCHANGED <<work, tis_over, handled, table, objects, http, alone,
                 requests, faults>>

RoundEnds ==
  /\ worker.pc = "pick" /\ worker.k > Len(copy_unhandled)
  /\ worker' = Asleep
  /\ UNCHANGED <<work, memory, table, objects, http, alone, requests, faults>>

\* Neither branch is for the other kinds of tasks.
SkipTake ==
  /\ Picks("take")
  /\ GoesOn
  /\ UNCHANGED <<work, memory, table, objects, http, alone, requests, faults>>

\* I1, I2: SELECT st.
SelectPlace ==
  /\ Picks("store")
  /\ result' = Row(work[Current].to, FALSE)
  /\ Goes("branch")
  /\ alone' = TRUE
  /\ UNCHANGED <<work, memory, table, sql, InTransaction, http, requests,
                 faults>>

\* The RecordCount after a SELECT of the place to put a stack at.
CountRows ==
  /\ worker.pc \in {"branch", "choose"}
  /\ worker' = At(IF worker.pc = "branch" THEN "compose" ELSE "clear",
                  worker.k, worker.found, result.n > 0)
  /\ UNCHANGED <<work, memory, table, objects, http, alone, requests, faults>>

\* A slip: the branches are swapped.
PutSwapped(there, l, w) == Statement(IF there THEN "insert" ELSE "update", l, w)
Put(there, l, w) == Statement(IF there THEN "update" ELSE "insert", l, w)

ComposeStore ==
  /\ worker.pc = "compose"
  /\ sql' = <<Put(worker.there, work[Current].to, Current)>>
  /\ Goes("wait")
  /\ UNCHANGED <<work, memory, table, result, InTransaction, http, alone,
                 requests, faults>>

\* X1, X2, X12, X21: what is at the source.
SelectSource ==
  /\ Picks("move")
  /\ result' = Row(work[Current].from, TRUE)
  /\ Goes("source")
  /\ alone' = TRUE
  /\ UNCHANGED <<work, memory, table, sql, InTransaction, http, requests,
                 faults>>

\* Nothing at the source by the RecordCount: continue.
CountSource ==
  /\ worker.pc = "source"
  /\ IF result.n = 0 THEN GoesOn ELSE Goes("first")
  /\ UNCHANGED <<work, memory, table, objects, http, alone, requests, faults>>

\* The texts of the row result_storloc is at when it is read; of none when
\* another SELECT has found no row since.
Text == IF result.n = 0 THEN Blank ELSE result.ware

\* First and the text packo, then the other three: another SELECT may come
\* between.  FieldByName raises where the last one did not ask for texts, and
\* nothing catches that.
ReadTexts(p, w) ==
  /\ \/ /\ result.packs
        /\ worker' = At(p, worker.k, w, FALSE)
        /\ UNCHANGED <<work, memory, table, objects, http, alone, requests>>
     \/ /\ ~result.packs
        /\ Emptied
  /\ UNCHANGED faults

ReadFirst == worker.pc = "first" /\ ReadTexts("rest", Text)

ReadRest ==
  /\ worker.pc = "rest"
  /\ ReadTexts("found", IF Text = worker.found THEN Text ELSE Mixed)

SelectTarget ==
  /\ worker.pc = "found"
  /\ result' = Row(work[Current].to, FALSE)
  /\ Goes("choose")
  /\ UNCHANGED <<work, memory, table, sql, InTransaction, http, alone,
                 requests, faults>>

ClearPut ==
  /\ worker.pc = "clear"
  /\ sql' = <<>>
  /\ Goes("put")
  /\ UNCHANGED <<work, memory, table, result, InTransaction, http, alone,
                 requests, faults>>

AddPut ==
  /\ worker.pc = "put"
  /\ sql' = Append(sql, Put(worker.there, work[Current].to, worker.found))
  /\ Goes("drop")
  /\ UNCHANGED <<work, memory, table, result, InTransaction, http, alone,
                 requests, faults>>

AddDelete ==
  /\ worker.pc = "drop"
  /\ sql' = Append(sql, Statement("delete", work[Current].from, 0))
  /\ Goes("wait")
  /\ UNCHANGED <<work, memory, table, result, InTransaction, http, alone,
                 requests, faults>>

\* for (; InTransaction;);
WorkerWaits ==
  /\ worker.pc = "wait" /\ ~InTransaction
  /\ Goes("begin")
  /\ UNCHANGED <<work, memory, table, objects, http, alone, requests, faults>>

\* StartTransaction: inside another thread's transaction it raises, and
\* nothing catches that.
WorkerBegins ==
  /\ worker.pc = "begin"
  /\ \/ /\ ~InTransaction
        /\ InTransaction' = TRUE
        /\ Goes("exec")
        /\ UNCHANGED <<work, memory, table, result, sql, http, alone, requests>>
     \/ /\ InTransaction
        /\ Emptied
  /\ UNCHANGED faults

WorkerExecutes ==
  /\ worker.pc = "exec"
  /\ Execute({}, IF handled[Current] THEN {} ELSE Loc)
  /\ Goes("mark")
  /\ alone' = (alone /\ faults' = faults)
  /\ UNCHANGED <<work, memory, result, sql, http, requests>>

\* Section cs_tis_over, also after a Rollback.
MarkHandled ==
  /\ worker.pc = "mark"
  /\ handled' = [handled EXCEPT ![Current] = TRUE]
  /\ GoesOn
  /\ UNCHANGED <<work, tis_over, incoming, copy_unhandled, table, objects,
                 http, alone, requests, faults>>

-----------------------------------------------------------------------------
(***************************************************************************)
(* HTTP requests.                                                          *)
(***************************************************************************)
Turns(h, p) == http' = [http EXCEPT ![h].pc = p]
Asks(h, r) ==
  /\ http[h].pc = "idle" /\ r \in Requests
  /\ requests < MaxRequest
  /\ requests' = requests + 1

\* 678009
Erase(h, l) ==
  /\ Asks(h, "erase")
  /\ sql' = <<Statement("delete", l, 0)>>
  /\ http' = [http EXCEPT ![h] = Asked("wait", "erase", l)]
  /\ alone' = FALSE
  /\ UNCHANGED <<work, memory, table, result, InTransaction, worker, faults>>

\* 657312: is there a row?
Change(h, l) ==
  /\ Asks(h, "change")
  /\ result' = Row(l, TRUE)
  /\ http' = [http EXCEPT ![h] = Asked("read", "change", l)]
  /\ alone' = FALSE
  /\ UNCHANGED <<work, memory, table, sql, InTransaction, worker, faults>>

ReadChange(h) ==
  /\ http[h].pc = "read"
  /\ Turns(h, IF result.n = 1 THEN "drop" ELSE "clear")
  /\ UNCHANGED <<work, memory, table, objects, worker, alone, requests, faults>>

\* If so it is deleted in a transaction of its own before the new one comes.
DropRow(h) ==
  /\ http[h].pc = "drop"
  /\ sql' = <<Statement("delete", http[h].loc, 0)>>
  /\ Turns(h, "wait")
  /\ alone' = FALSE
  /\ UNCHANGED <<work, memory, table, result, InTransaction, worker,
                 requests, faults>>

ClearText(h) ==
  /\ http[h].pc = "clear"
  /\ sql' = <<>>
  /\ Turns(h, "add")
  /\ alone' = FALSE
  /\ UNCHANGED <<work, memory, table, result, InTransaction, worker,
                 requests, faults>>

AddInsert(h) ==
  /\ http[h].pc = "add"
  /\ sql' = Append(sql, Statement("insert", http[h].loc, Changed))
  /\ http' = [http EXCEPT ![h] = Asked("wait", "insert", http[h].loc)]
  /\ alone' = FALSE
  /\ UNCHANGED <<work, memory, table, result, InTransaction, worker,
                 requests, faults>>

HttpWaits(h) ==
  /\ http[h].pc = "wait" /\ ~InTransaction
  /\ Turns(h, "begin")
  /\ UNCHANGED <<work, memory, table, objects, worker, alone, requests,
                 faults>>

\* Indy or the handler catches what StartTransaction raises.
HttpBegins(h) ==
  /\ http[h].pc = "begin"
  /\ InTransaction' = TRUE
  /\ http' = [http EXCEPT ![h] = IF InTransaction THEN Free ELSE [@ EXCEPT !.pc = "exec"]]
  /\ alone' = FALSE
  /\ UNCHANGED <<work, memory, table, result, sql, worker, requests, faults>>

HttpExecutes(h) ==
  /\ http[h].pc = "exec"
  /\ Execute(IF http[h].asks = "erase" THEN {http[h].loc} ELSE {}, Loc)
  /\ http' = [http EXCEPT ![h] = IF http[h].asks = "change"
                                 THEN [@ EXCEPT !.pc = "clear"] ELSE Free]
  /\ alone' = FALSE
  /\ UNCHANGED <<work, memory, result, sql, worker, requests>>

\* 657311 (one row), 678006 (a count), 678007 (all rows): the next reader of
\* result_storloc finds theirs.
Look(h) ==
  /\ Asks(h, "look")
  /\ \/ \E l \in Loc : result' = Row(l, TRUE)
     \/ result' = Rows(1, Nothing, FALSE)
     \/ \E l \in Occupied : result' = Rows(Cardinality(Occupied), ware_storloc[l], TRUE)
     \/ Occupied = {} /\ result' = Rows(0, Nothing, TRUE)
  /\ alone' = FALSE
  /\ UNCHANGED <<work, memory, table, sql, InTransaction, worker, http, faults>>

Restart ==
  /\ faults < MaxFault /\ faults' = faults + 1
  /\ Emptied

-----------------------------------------------------------------------------
WorkerNext ==
  \/ Wake
  \/ RoundEnds
  \/ SkipTake
  \/ SelectPlace
  \/ CountRows
  \/ ComposeStore
  \/ SelectSource
  \/ CountSource
  \/ ReadFirst
  \/ ReadRest
  \/ SelectTarget
  \/ ClearPut
  \/ AddPut
  \/ AddDelete
  \/ WorkerWaits
  \/ WorkerBegins
  \/ WorkerExecutes
  \/ MarkHandled

Serves(h) ==
  \/ ReadChange(h)
  \/ DropRow(h)
  \/ ClearText(h)
  \/ AddInsert(h)
  \/ HttpWaits(h)
  \/ HttpBegins(h)
  \/ HttpExecutes(h)

HttpNext ==
  \E h \in HttpThreads :
    \/ \E l \in Loc : Erase(h, l)
    \/ \E l \in Loc : Change(h, l)
    \/ Look(h)
    \/ Serves(h)

Next ==
  \/ \E w \in Work : Finish(w)
  \/ WorkerNext
  \/ HttpNext
  \/ Restart

Spec == Init /\ [][Next]_vars

\* Threads run, and a request that was begun goes on; a spinning thread gets
\* its turn because requests are finitely many.
FairSpec ==
  /\ Spec
  /\ WF_vars(WorkerNext)
  /\ \A h \in HttpThreads : WF_vars(Serves(h))

-----------------------------------------------------------------------------
(***************************************************************************)
(* Properties.                                                             *)
(***************************************************************************)
Copied(t) == \E i \in DOMAIN copy_unhandled : copy_unhandled[i] = t

\* The worker misses no task: each one in tis_over is in its copy, or stands,
\* with the flag raised, in front of all that are copied or handled.  The scan
\* of task_completed stops at the first handled task and relies on that.
NoneMissed ==
  \A j \in DOMAIN tis_over :
    \/ Copied(tis_over[j])
    \/ incoming /\ \A i \in 1 .. j : ~handled[tis_over[i]] /\ ~Copied(tis_over[i])

\* At most one thread is between StartTransaction and Commit or Rollback, and
\* the connection is in a transaction exactly while one is: a failure leaves none
\* open that every other thread would wait for.
Inside == {h \in HttpThreads : http[h].pc = "exec"}
OneTransaction ==
  /\ InTransaction <=> worker.pc = "exec" \/ Inside # {}
  /\ worker.pc = "exec" => Inside = {}
  /\ \A g, h \in Inside : g = h

\* A task nobody disturbed while it was recorded is in the table when it is
\* marked handled: a stored stack is at its location, a moved one has left its
\* source in the same transaction.
Recorded ==
  [][\A t \in Task : ~handled[t] /\ handled'[t] /\ alone =>
       \/ work[t].op = "store" /\ ware_storloc[work[t].to] = t
       \/ /\ work[t].op = "move" /\ ware_storloc[work[t].to] = worker.found
          /\ ware_storloc[work[t].from] = Nothing]_vars

\* A finished storing is marked handled (its location gets its colour) sooner
\* or later, unless the process ends.
StoresHandled ==
  \A t \in Task :
    (\E j \in DOMAIN tis_over : tis_over[j] = t) /\ work[t].op = "store"
      ~> handled[t] \/ ~\E j \in DOMAIN tis_over : tis_over[j] = t

\* What a client erased stays erased ("delete stroloc after moving a stack"):
\* a task that was recorded before does not fill the location again.
ErasedStaysErased == \A l \in erased : ware_storloc[l] = Nothing
=============================================================================
