------------------------------ MODULE TaskHub -------------------------------
(***************************************************************************)
(* The life of a task in the hub (src/WareHub2): a client issues it over   *)
(* HTTP, it waits in tis while the dispatcher and an AGV carry it out, the *)
(* waypoints the dispatcher reports tick off its three steps, and the last *)
(* one moves it to tis_over.  Clients poll its status meanwhile.           *)
(*                                                                         *)
(* Three kinds of processes share this state: one HTTP thread per request, *)
(* the main thread (the select loop and data_handler), and the worker      *)
(* task_completed.  An action is one critical section of one of them.  The *)
(* dispatcher is another program: it is modelled as the source uses it.    *)
(*                                                                         *)
(* A task is the n-th issue request the hub ever received; the number the  *)
(* hub gives it (t_id) is id[n], and nothing but the code keeps two tasks  *)
(* from having the same one.                                               *)
(***************************************************************************)
EXTENDS Integers, Sequences, FiniteSets

CONSTANTS
  HttpThreads,      \* threads of the HTTP server
  Agvs,             \* vehicles the dispatcher may register
  IdSpan,           \* number of values of gId_task_issue (2^32 in the code)
  BootIds,          \* numbers the database may hold when the hub first starts
  Polls,            \* what clients poll: "verdict" (678000), "status" (678010)
  MaxIssue,         \* bound: issue requests in a behaviour
  MaxInbox,         \* bound: messages on their way from the dispatcher
  MaxFault          \* bound: restarts of the hub and losses of the connection

ASSUME SpanAssumption ==
  /\ IdSpan \in Nat
  /\ MaxIssue \in Nat
  /\ IdSpan > MaxIssue + 1
  /\ BootIds \subseteq 1 .. IdSpan - 1
ASSUME PollAssumption == Polls \subseteq {"verdict", "status"}
ASSUME BoundAssumption == MaxInbox \in Nat /\ MaxFault \in Nat

Task == 1 .. MaxIssue
Id == 1 .. IdSpan - 1
Steps == {"B", "R", "E"}           \* agvTASKB, agvRUNNING, agvTASKE

VARIABLES
  gId,              \* gId_task_issue: the number of the next task
  nextDb,           \* the row of table next_id_ti
  issued,           \* issue requests so far
  id,               \* id[t]: t_id of task t, 0 before it has one
  place,            \* place[t]: what holds task t
  steps,            \* steps[t]: the steps of t the hub has ticked off
  r_ti,             \* r_ti[t]: the dispatcher's verdict, as the hub knows it
  over,             \* tis_over, its front first
  incoming,         \* the flag task_completed sleeps on
  http,             \* what each HTTP thread is doing
  answer,           \* the answer a client gets in this step, if any
  main,             \* what the main thread is doing
  agvs,             \* the registered vehicles
  No_cmd,           \* No_cmd[a]: the task vehicle a is on, 0 for none
  conn,             \* the dispatcher's connection is up
  dispatcher,       \* the global socket names that connection
  inbox,            \* messages from the dispatcher, not yet handled
  job,              \* job[t]: how far the dispatcher is with task t
  reported,         \* reported[t]: the steps it sent a waypoint for
  jammed,           \* no thread gets into the section cs_tis any more
  faults            \* restarts and disconnections so far

taskVars == <<gId, nextDb, issued, id, place, steps, r_ti, over, incoming>>
hubVars == <<http, main, agvs, No_cmd, dispatcher, jammed>>
dispVars == <<conn, inbox, job, reported>>
vars == <<taskVars, hubVars, dispVars, faults, answer>>

Serving(p, t, i) == [pc |-> p, task |-> t, asked |-> i]
Idle == Serving("idle", 0, 0)
Silent == [cmd |-> 0, about |-> 0, said |-> "nothing"]
Handling(p, i, a, t) == [pc |-> p, id |-> i, agv |-> a, task |-> t, torn |-> FALSE]
Select == Handling("select", 0, "none", 0)

Verdicts == {"success", "failure"}
Places == {"unissued", "alloc", "dropped", "tis", "moving", "over", "lost"}
Jobs == {"none", "queued", "refused", "accepted", "B", "R", "E"}
HttpStates ==
  [pc : {"idle", "parse", "send", "over"},
   task : Task \union {0}, asked : Id \union {0}]
MainStates ==
  [pc : {"select", "B", "R", "E", "over"}, id : Id \union {0},
   agv : Agvs \union {"none"}, task : Task \union {0}, torn : BOOLEAN]
Sayings == {"nothing", "id", "error", "unknown", "running", "finished", "pending"}
             \union Verdicts
Answers ==
  [cmd : {0, 657194, 678000, 678010}, about : Id \union {0}, said : Sayings]
Messages ==
  [cmd : {657202}, id : Id, state : Steps, agv : Agvs]
    \union [cmd : {657301}, id : Id, result : Verdicts]
    \union [cmd : {657185}, agv : Agvs]

TypeOK ==
  /\ gId \in Id /\ nextDb \in Id
  /\ issued \in 0 .. MaxIssue
  /\ id \in [Task -> Id \union {0}]
  /\ place \in [Task -> Places]
  /\ steps \in [Task -> SUBSET Steps]
  /\ r_ti \in [Task -> Verdicts \union {"pending"}]
  /\ over \in Seq(Task)
  /\ incoming \in BOOLEAN
  /\ http \in [HttpThreads -> HttpStates]
  /\ answer \in Answers
  /\ main \in MainStates
  /\ agvs \in SUBSET Agvs
  /\ No_cmd \in [Agvs -> Id \union {0}]
  /\ conn \in BOOLEAN /\ dispatcher \in BOOLEAN
  /\ inbox \in Seq(Messages)
  /\ job \in [Task -> Jobs]
  /\ reported \in [Task -> SUBSET Steps]
  /\ jammed \in BOOLEAN
  /\ faults \in 0 .. MaxFault

Init ==
  /\ gId \in BootIds /\ nextDb = gId
  /\ issued = 0
  /\ id = [t \in Task |-> 0]
  /\ place = [t \in Task |-> "unissued"]
  /\ steps = [t \in Task |-> {}]
  /\ r_ti = [t \in Task |-> "pending"]
  /\ over = <<>> /\ incoming = FALSE
  /\ http = [h \in HttpThreads |-> Idle]
  /\ answer = Silent
  /\ main = Select
  /\ agvs = {} /\ No_cmd = [a \in Agvs |-> 0]
  /\ conn = FALSE /\ dispatcher = FALSE /\ inbox = <<>>
  /\ job = [t \in Task |-> "none"]
  /\ reported = [t \in Task |-> {}]
  /\ jammed = FALSE /\ faults = 0

-----------------------------------------------------------------------------
(***************************************************************************)
(* HTTP threads.                                                           *)
(***************************************************************************)

\* Slips the properties must catch: the wrap of the counter forgotten, and
\* the skip of 0 forgotten.
NextIdNoWrap(i) == i + 1
NextIdKeepsZero(i) == (i + 1) % IdSpan

\* ++gId_task_issue on an unsigned of IdSpan values; 0 is skipped.
NextId(i) == LET s == (i + 1) % IdSpan IN IF s = 0 THEN 1 ELSE s

\* The tasks in the vector tis.
Tis == {t \in Task : place[t] = "tis"}

Answer(c, i, s) == answer' = [cmd |-> c, about |-> i, said |-> s]
NoAnswer == answer' = Silent

\* 657194, section cs_id_task.  The row is written with the number just
\* given out; when the transaction fails it is rolled back and nobody knows.
IssueAlloc(h) ==
  /\ http[h].pc = "idle"
  /\ issued < MaxIssue
  /\ LET t == issued + 1 IN
       /\ issued' = t
       /\ id' = [id EXCEPT ![t] = gId]
       /\ gId' = NextId(gId)
       /\ nextDb' \in {gId, nextDb}
       /\ place' = [place EXCEPT ![t] = "alloc"]
       /\ http' = [http EXCEPT ![h] = Serving("parse", t, 0)]
  /\ NoAnswer
  /\ UNCHANGED <<steps, r_ti, over, incoming, main, agvs, No_cmd, dispatcher, jammed,
                 dispVars, faults>>

\* A parameter is not a number: the request ends, its number is skipped.
IssueReject(h) ==
  /\ http[h].pc = "parse"
  /\ place' = [place EXCEPT ![http[h].task] = "dropped"]
  /\ http' = [http EXCEPT ![h] = Idle]
  /\ Answer(657194, 0, "error")
  /\ UNCHANGED <<gId, nextDb, issued, id, steps, r_ti, over, incoming, main,
                 agvs, No_cmd, dispatcher, jammed, dispVars, faults>>

\* Section cs_tis: push_back.  The main thread may be walking tis without
\* the lock (RunningStep): the vector moves under its feet.
IssuePush(h) ==
  /\ http[h].pc = "parse" /\ ~jammed
  /\ place' = [place EXCEPT ![http[h].task] = "tis"]
  /\ http' = [http EXCEPT ![h] = Serving("send", http[h].task, 0)]
  /\ main' = [main EXCEPT !.torn = @ \/ main.pc = "R"]
  /\ NoAnswer
  /\ UNCHANGED <<gId, nextDb, issued, id, steps, r_ti, over, incoming,
                 agvs, No_cmd, dispatcher, jammed, dispVars, faults>>

\* Section cs_send2tcpsrv, and the answer.  Nobody looks at send's result.
IssueSend(h) ==
  /\ http[h].pc = "send"
  /\ job' = IF dispatcher THEN [job EXCEPT ![http[h].task] = "queued"] ELSE job
  /\ http' = [http EXCEPT ![h] = Idle]
  /\ Answer(657194, id[http[h].task], "id")
  /\ UNCHANGED <<taskVars, main, agvs, No_cmd, dispatcher, jammed, conn, inbox,
                 reported, faults>>

\* Numbers a client may ask about: those of tasks it has issued.
Askable == {id[t] : t \in {u \in Task : place[u] \in {"tis", "moving", "over", "lost"}}}

\* 678000: a copy of tis is searched; a task not there counts as pending.
QueryResult(h, i) ==
  /\ http[h].pc = "idle" /\ "verdict" \in Polls
  /\ ~jammed
  /\ \/ \E t \in Tis : id[t] = i /\ Answer(678000, i, r_ti[t])
     \/ (\A t \in Tis : id[t] # i) /\ Answer(678000, i, "pending")
  /\ UNCHANGED <<taskVars, http, main, agvs, No_cmd, dispatcher, jammed, dispVars, faults>>

\* A slip: tis_over alone is searched.
StatusSkipsTis(h, i) ==
  /\ http[h].pc = "idle" /\ "status" \in Polls
  /\ http' = [http EXCEPT ![h] = Serving("over", 0, i)]
  /\ NoAnswer
  /\ UNCHANGED <<taskVars, main, agvs, No_cmd, dispatcher, jammed, dispVars, faults>>

\* 678010, section cs_tis: a task found there is running.
StatusInTis(h, i) ==
  /\ http[h].pc = "idle" /\ "status" \in Polls
  /\ ~jammed
  /\ \/ /\ \E t \in Tis : id[t] = i
        /\ Answer(678010, i, "running")
        /\ UNCHANGED http
     \/ /\ \A t \in Tis : id[t] # i
        /\ http' = [http EXCEPT ![h] = Serving("over", 0, i)]
        /\ NoAnswer
  /\ UNCHANGED <<taskVars, main, agvs, No_cmd, dispatcher, jammed, dispVars, faults>>

\* 678010, section cs_tis_over: a task found there is finished.
StatusInOver(h) ==
  /\ http[h].pc = "over"
  /\ http' = [http EXCEPT ![h] = Idle]
  /\ Answer(678010, http[h].asked,
            IF \E k \in DOMAIN over : id[over[k]] = http[h].asked
            THEN "finished" ELSE "unknown")
  /\ UNCHANGED <<taskVars, main, agvs, No_cmd, dispatcher, jammed, dispVars, faults>>

-----------------------------------------------------------------------------
(***************************************************************************)
(* The main thread: data_handler on the next message of the dispatcher.    *)
(***************************************************************************)

\* 657185/657186: the socket the message came on is the dispatcher's.
Register ==
  /\ main.pc = "select" /\ inbox # <<>>
  /\ Head(inbox).cmd = 657185
  /\ inbox' = Tail(inbox)
  /\ dispatcher' = conn
  /\ agvs' = agvs \union {Head(inbox).agv}
  /\ No_cmd' = IF Head(inbox).agv \in agvs THEN No_cmd
               ELSE [No_cmd EXCEPT ![Head(inbox).agv] = 0]
  /\ NoAnswer
  /\ UNCHANGED <<taskVars, http, main, jammed, conn, job, reported, faults>>

\* 657301: the verdict is stored in every task of tis with that number.
StoreResult ==
  /\ main.pc = "select" /\ inbox # <<>> /\ ~jammed
  /\ Head(inbox).cmd = 657301
  /\ inbox' = Tail(inbox)
  /\ r_ti' = [t \in Task |-> IF t \in Tis /\ id[t] = Head(inbox).id
                             THEN Head(inbox).result ELSE r_ti[t]]
  /\ NoAnswer
  /\ UNCHANGED <<gId, nextDb, issued, id, place, steps, over, incoming,
                 hubVars, conn, job, reported, faults>>

\* 657202, section cs_agvs: the vehicle is on the task it reports.
Waypoint ==
  /\ main.pc = "select" /\ inbox # <<>>
  /\ Head(inbox).cmd = 657202
  /\ inbox' = Tail(inbox)
  /\ No_cmd' = IF Head(inbox).agv \in agvs
               THEN [No_cmd EXCEPT ![Head(inbox).agv] = Head(inbox).id]
               ELSE No_cmd
  /\ main' = Handling(Head(inbox).state, Head(inbox).id, Head(inbox).agv, 0)
  /\ NoAnswer
  /\ UNCHANGED <<taskVars, http, agvs, dispatcher, jammed, conn, job, reported,
                 faults>>

\* One of the three steps of a task is ticked off.
Tick(t, s) == steps' = [steps EXCEPT ![t] = @ \union {s}]

\* agvTASKB, section cs_tis.
BeginStep ==
  /\ main.pc = "B" /\ ~jammed
  /\ \/ \E t \in Tis : id[t] = main.id /\ Tick(t, "B")
     \/ (\A t \in Tis : id[t] # main.id) /\ UNCHANGED steps
  /\ main' = Select
  /\ NoAnswer
  /\ UNCHANGED <<gId, nextDb, issued, id, place, r_ti, over, incoming, http,
                 agvs, No_cmd, dispatcher, jammed, dispVars, faults>>

\* agvRUNNING: the loop takes no lock.  If a task was pushed meanwhile, the
\* step may be written into the storage the vector has just left.  Then cs_tis,
\* which was not entered, is left: whoever enters it later may wait for ever.
\* (That a thread inside it may lose it is left out.)
RunningStep ==
  /\ main.pc = "R"
  /\ \/ \E t \in Tis : id[t] = main.id /\ Tick(t, "R")
     \/ (main.torn \/ \A t \in Tis : id[t] # main.id) /\ UNCHANGED steps
  /\ jammed' = TRUE \/ UNCHANGED jammed
  /\ main' = Select
  /\ NoAnswer
  /\ UNCHANGED <<gId, nextDb, issued, id, place, r_ti, over, incoming, http,
                 agvs, No_cmd, dispatcher, dispVars, faults>>

\* A slip: the run is not asked for.
TickedNoRun(t) == "B" \in steps[t]

\* steps[0] && steps[1] && steps[2], the last of which has just been set.
Ticked(t) == {"B", "R"} \subseteq steps[t]

\* agvTASKE, section cs_tis: the last step; with all three the task leaves.
EndStep ==
  /\ main.pc = "E" /\ ~jammed
  /\ \/ \E t \in Tis :
          /\ id[t] = main.id
          /\ Ticked(t)
          /\ steps' = [steps EXCEPT ![t] = {}]
          /\ place' = [place EXCEPT ![t] = "moving"]
          /\ main' = Handling("over", main.id, main.agv, t)
     \/ \E t \in Tis :
          /\ id[t] = main.id
          /\ ~Ticked(t)
          /\ Tick(t, "E")
          /\ main' = Select
          /\ UNCHANGED place
     \/ /\ \A t \in Tis : id[t] # main.id
        /\ main' = Select
        /\ UNCHANGED <<steps, place>>
  /\ NoAnswer
  /\ UNCHANGED <<gId, nextDb, issued, id, r_ti, over, incoming, http, agvs,
                 No_cmd, dispatcher, jammed, dispVars, faults>>

\* Slips: the newest task is put last; the task is not put anywhere.
OverBackwards(t) == Append(over, t)
OverForgets ==
  /\ main.pc = "over"
  /\ main' = Select
  /\ NoAnswer
  /\ UNCHANGED <<taskVars, http, agvs, No_cmd, dispatcher, jammed, dispVars, faults>>

\* tis_over.insert(tis_over.begin(), tio)
OverWith(t) == <<t>> \o over

\* The sections cs_agvs and cs_tis_over that follow: nothing reads both.
MoveToOver ==
  /\ main.pc = "over"
  /\ No_cmd' = IF main.agv \in agvs THEN [No_cmd EXCEPT ![main.agv] = 0]
               ELSE No_cmd
  /\ over' = OverWith(main.task)
  /\ place' = [place EXCEPT ![main.task] = "over"]
  /\ incoming' = TRUE
  /\ main' = Select
  /\ NoAnswer
  /\ UNCHANGED <<gId, nextDb, issued, id, steps, r_ti, http, agvs, dispatcher, jammed,
                 dispVars, faults>>

\* task_completed wakes up and copies what is new (module WareLedger says
\* what it does with the copy).
TakeOver ==
  /\ incoming
  /\ incoming' = FALSE
  /\ NoAnswer
  /\ UNCHANGED <<gId, nextDb, issued, id, place, steps, r_ti, over, hubVars,
                 dispVars, faults>>

\* The process ends and starts again: memory is gone, next_id_ti and load_agvs
\* read the database (a vehicle whose INSERT was rolled back is not there).
Restart ==
  /\ faults < MaxFault
  /\ faults' = faults + 1
  /\ gId' = nextDb
  /\ place' = [t \in Task |-> IF place[t] \in {"alloc", "tis", "moving", "over"}
                              THEN "lost" ELSE place[t]]
  /\ over' = <<>> /\ incoming' = FALSE
  /\ steps' = [t \in Task |-> {}]
  /\ r_ti' = [t \in Task |-> "pending"]
  /\ http' = [h \in HttpThreads |-> Idle]
  /\ main' = Select
  /\ agvs' \in SUBSET agvs
  /\ No_cmd' = [a \in Agvs |-> 0]
  /\ conn' = FALSE /\ dispatcher' = FALSE /\ inbox' = <<>>
  /\ jammed' = FALSE
  /\ NoAnswer
  /\ UNCHANGED <<nextDb, issued, id, job, reported>>

-----------------------------------------------------------------------------
(***************************************************************************)
(* The dispatcher and the connection to it.                                *)
(***************************************************************************)

Connect ==
  /\ ~conn
  /\ conn' = TRUE
  /\ NoAnswer
  /\ UNCHANGED <<taskVars, hubVars, inbox, job, reported, faults>>

\* What was received stays readable; the socket the hub knows is dead.
Disconnect ==
  /\ conn /\ faults < MaxFault
  /\ faults' = faults + 1
  /\ conn' = FALSE /\ dispatcher' = FALSE
  /\ \E k \in 0 .. Len(inbox) : inbox' = SubSeq(inbox, 1, k)
  /\ NoAnswer
  /\ UNCHANGED <<taskVars, http, main, agvs, No_cmd, jammed, job, reported>>

\* A message put on the connection; without one it is lost.
Sent(m) == inbox' = IF conn THEN Append(inbox, m) ELSE inbox

DispRegister(a) ==
  /\ conn /\ Len(inbox) < MaxInbox
  /\ Sent([cmd |-> 657185, agv |-> a])
  /\ NoAnswer
  /\ UNCHANGED <<taskVars, hubVars, conn, job, reported, faults>>

DispResult(t, r) ==
  /\ job[t] = "queued" /\ Len(inbox) < MaxInbox
  /\ job' = [job EXCEPT ![t] = IF r = "success" THEN "accepted" ELSE "refused"]
  /\ Sent([cmd |-> 657301, id |-> id[t], result |-> r])
  /\ NoAnswer
  /\ UNCHANGED <<taskVars, hubVars, conn, reported, faults>>

After(s) == CASE s = "accepted" -> "B" [] s = "B" -> "R" [] OTHER -> "E"

Reports(t, a, s) ==
  /\ job' = [job EXCEPT ![t] = s]
  /\ Sent([cmd |-> 657202, id |-> id[t], state |-> s, agv |-> a])
  /\ reported' = IF conn THEN [reported EXCEPT ![t] = @ \union {s}]
                 ELSE reported

\* Every two seconds, the state the task is in: often the same as before.
DispReport(t, a) ==
  /\ Len(inbox) < MaxInbox
  /\ job[t] \in {"accepted", "B", "R", "E"}
  /\ \E s \in {job[t], After(job[t])} \ {"accepted"} : Reports(t, a, s)
  /\ NoAnswer
  /\ UNCHANGED <<taskVars, hubVars, conn, faults>>

-----------------------------------------------------------------------------
HttpNext ==
  \E h \in HttpThreads :
    \/ IssueAlloc(h)
    \/ IssueReject(h)
    \/ IssuePush(h)
    \/ IssueSend(h)
    \/ \E i \in Askable : QueryResult(h, i)
    \/ \E i \in Askable : StatusInTis(h, i)
    \/ StatusInOver(h)

MainNext ==
  \/ Register
  \/ StoreResult
  \/ Waypoint
  \/ BeginStep
  \/ RunningStep
  \/ EndStep
  \/ MoveToOver

DispNext ==
  \/ Connect
  \/ Disconnect
  \/ \E a \in Agvs : DispRegister(a)
  \/ \E t \in Task, r \in Verdicts : DispResult(t, r)
  \/ \E t \in Task, a \in Agvs : DispReport(t, a)

Next ==
  \/ HttpNext
  \/ MainNext
  \/ TakeOver
  \/ Restart
  \/ DispNext

Spec == Init /\ [][Next]_vars

\* What runs on its own: the select loop (but where cs_tis is jammed) and the
\* worker never stop, and the dispatcher connects, registers its vehicles, goes
\* on with a task it has begun and repeats the state of one it has ended.  Its
\* messages compete for MaxInbox places, a bound of the model, hence strong
\* fairness.  Clients, losses of the connection and restarts are under no
\* obligation.
Fairness ==
  /\ WF_vars(MainNext)
  /\ WF_vars(TakeOver)
  /\ WF_vars(Connect)
  /\ \A a \in Agvs : SF_vars(DispRegister(a))
  /\ \A t \in Task, a \in Agvs :
       /\ SF_vars(DispReport(t, a) /\ job'[t] # job[t])
       /\ SF_vars(DispReport(t, a) /\ job[t] = "E" /\ conn)

FairSpec == Spec /\ Fairness

-----------------------------------------------------------------------------
(***************************************************************************)
(* Properties.                                                             *)
(***************************************************************************)

\* The tasks whose number is in the hub's memory.
Held == {t \in Task : place[t] \in {"alloc", "tis", "moving", "over"}}

\* No two tasks the hub holds have the same number, and none has number 0,
\* which agv.No_cmd and the clients use for "no task": also across the wrap
\* of the counter and after a restart that reads an old counter.
HeldIdsProper ==
  \A t \in Held : /\ id[t] # 0
                  /\ \A u \in Held : id[t] = id[u] => t = u

\* A task is recorded as finished only if the dispatcher reported its begin,
\* its run and its end, provided its number was not used before: messages
\* about another task of the same number count for this one.
Reused(t) == \E u \in Task : u < t /\ id[u] = id[t]
OverWasRun ==
  \A t \in Task : place[t] \in {"moving", "over"} /\ ~Reused(t)
                    => reported[t] = Steps

\* 678010 answers "unknown" for a task the hub has taken in, under a number it
\* gave out once, only while the main thread is between the two sections that
\* move the task: one that is in tis or in tis_over is always found, though it
\* may have moved between the two lookups of the request.
UnknownOnlyWhileMoving ==
  [][\A t \in Task :
       (/\ answer'.said = "unknown" /\ answer'.about = id[t]
        /\ ~\E u \in Task \ {t} : id[u] = id[t]
        /\ place[t] \in {"tis", "moving", "over"})
       => place[t] = "moving"]_vars

\* The dispatcher never gets two tasks of the same number: the table
\* next_id_ti holds, as its name and its column's say, the next number.
NumbersNeverReused ==
  \A t, u \in Task : t # u /\ id[t] = id[u]
                     => job[t] = "none" \/ job[u] = "none"

\* Once its begin and its run are ticked off, a task does not stay in tis: its
\* end is reported sooner or later and moves it to tis_over, unless the hub is
\* restarted or RunningStep has jammed the section cs_tis, which every other
\* access to tis enters: that it jams is the only way such a task is stuck.
\* (A run that was never ticked off is not reported again once the task has
\* ended.)
TickedTaskLeaves ==
  \A t \in Task : place[t] = "tis" /\ {"B", "R"} \subseteq steps[t]
                   ~> place[t] \in {"over", "lost"} \/ jammed

-----------------------------------------------------------------------------
(***************************************************************************)
(* The inductive invariant behind them.                                    *)
(***************************************************************************)

\* The number k issues after number i, wrapping from IdSpan - 1 to 1.
Adv(i, k) == IF i + k < IdSpan THEN i + k ELSE i + k - (IdSpan - 1)

\* Tasks get their numbers in the order they are issued; as long as the hub
\* holds task t, the counter has gone on from t's number by one per issue.
NumberInv ==
  /\ \A t \in Task : /\ id[t] # 0 <=> t <= issued
                     /\ place[t] = "unissued" <=> t > issued
  /\ \A t \in Held : /\ gId = Adv(id[t], issued + 1 - t)
                     /\ \A u \in Task : t <= u /\ u <= issued
                                          => id[u] = Adv(id[t], u - t)

\* A task of number i has left tis.
Gone(i) == \E t \in Task : id[t] = i /\ place[t] \in {"moving", "over", "lost"}

\* Each thread works on a task of its own; a number that was not found in tis
\* is that of a task that has left it, and such a task does not return.
ThreadInv ==
  /\ \A h \in HttpThreads :
       /\ http[h].pc \in {"parse", "send"} =>
            http[h].task \in Task /\ http[h].task <= issued
       /\ http[h].pc = "parse" => place[http[h].task] = "alloc"
       /\ http[h].pc = "over" => http[h].asked \in Id /\ Gone(http[h].asked)
  /\ \A g, h \in HttpThreads :
       http[g].pc = "parse" /\ http[h].pc = "parse"
         /\ http[g].task = http[h].task => g = h

\* Only the main thread has a task in its hands, and tis_over has the others
\* that left tis.
MainInv ==
  /\ main.pc \in Steps => main.id \in Id
  /\ main.pc = "over" => main.task \in Task /\ place[main.task] = "moving"
  /\ \A t \in Task : place[t] = "moving" => main.pc = "over" /\ main.task = t
  /\ \A t \in Task : place[t] = "over" => \E k \in DOMAIN over : over[k] = t

\* The dispatcher sent a waypoint of step s for a task of number i.
Witnessed(i, s) == \E t \in Task : id[t] = i /\ s \in reported[t]

JobsIssued == \A t \in Task : job[t] # "none" \/ reported[t] # {} => t <= issued

\* Waypoints are what the dispatcher sent: on their way, and in hand.
InboxWitnessed ==
  \A k \in DOMAIN inbox :
    inbox[k].cmd = 657202 => Witnessed(inbox[k].id, inbox[k].state)
MainWitnessed == main.pc \in Steps => Witnessed(main.id, main.pc)

\* Only tasks in tis have steps ticked off, and those were reported.
TicksReported ==
  \A t \in Task : /\ steps[t] # {} => place[t] = "tis"
                  /\ ~Reused(t) => steps[t] \subseteq reported[t]

ReportInv ==
  JobsIssued /\ InboxWitnessed /\ MainWitnessed /\ TicksReported /\ OverWasRun

IndInv == TypeOK /\ NumberInv /\ ThreadInv /\ MainInv /\ ReportInv

\* The hub implements the life of a task.
Life == INSTANCE TaskLife WITH
  fresh <- {t \in Task : place[t] \in {"unissued", "alloc"}},
  held <- {t \in Task : place[t] \in {"tis", "moving"}},
  done <- over
LifeSpec == Life!Spec
=============================================================================
