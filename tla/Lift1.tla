------------------------------- MODULE Lift1 --------------------------------
(***************************************************************************)
(* The lift between two storeys and the PLC that drives it (common.cpp,    *)
(* macros of common.h).  Two threads of the hub use one modbus context     *)
(* without a lock: the main thread asks for the lift's place and orders it *)
(* up or down, timer_lift1 polls until the lift is where it was sent.  A   *)
(* request over TCP is what Modbus shows of it: an answer counts for the   *)
(* request with its number only, and one that is left unread makes every   *)
(* later request fail, until the context is made anew.  Numbers are told   *)
(* apart and not counted: a request has a number that is in use nowhere,   *)
(* or, after a race for the counter, one that is.                          *)
(***************************************************************************)
EXTENDS Integers, Sequences

CONSTANTS
  Tries,      \* requests before and after a reconnection, 10 in the code
  MaxOrders,  \* bound: queries and orders of the dispatcher
  MaxFaults   \* bound: late or torn answers, numbers raced for, failed connections

ASSUME LiftAssumption == {Tries, MaxOrders, MaxFaults} \subseteq Nat /\ Tries > 0

Thread == {"main", "timer"}
OtherOf(th) == IF th = "main" THEN "timer" ELSE "main"

VARIABLES
  floor,     \* register 20: the storey, 0 between the two
  cmd,       \* register 22: 100 up, 101 down
  ctx,       \* ctx_tcp_modbus[plclift1]: "ok", or "freed": null, or it dangles
  answers,   \* of the PLC to ctx, unread: the number, and the storey or Done
  aside,     \* who waits on a context that is not ctx now, freed or left
  job,       \* the macro each thread is in
  main,      \* where data_handler is: "idle", "ready" or "go"
  storey,    \* of the vehicle that asks, 0: not registered
  order,     \* what "ready" or "go" writes to register 22
  timer,     \* where timer_lift1 is: "waits", "sleeps" or "reads"
  status,    \* of timer_lift1, kept when a reading fails
  goal_lift1, event_lift1,
  arrivals,  \* 523100 on the hub's connection to itself
  reply,     \* what the dispatcher was told since its last message
  seen,      \* history: the storeys shown since a thread's reading began
  twice,     \* history: who sent a number in use since its reading began
  owed,      \* history: an order was carried out and no later one disturbed it
  spare,     \* history: confirmed orders less announced arrivals
  orders, faults

mailVars == <<answers, aside>>
ctxVars == <<ctx, mailVars>>
hubVars == <<ctxVars, job, main, storey, order, timer, status, goal_lift1,
             event_lift1, arrivals, reply, owed, spare>>
vars == <<floor, cmd, hubVars, seen, twice, orders, faults>>

Request == {"read", "release", "move"}

\* num: of the request whose answer is waited for, 0: none.
NoJob == [does |-> "nothing", i |-> 0, again |-> FALSE, num |-> 0]
Job(does) == [NoJob EXCEPT !.does = does]
Waits(th) == job[th].num # 0

Done == 3  \* the answer to an order

Nowhere == [on |-> "nobody", gone |-> FALSE, answers |-> <<>>]

TypeOK ==
  /\ floor \in 0..2 /\ cmd \in {0, 100, 101}
  /\ ctx \in {"ok", "freed"}
  /\ aside.on \in Thread \union {"nobody"} /\ aside.gone \in BOOLEAN
  /\ job \in [Thread -> [does : Request \union {"nothing", "disconnect", "connect"},
                         i : 0..(Tries - 1), again : BOOLEAN, num : Nat]]
  /\ main \in {"idle", "ready", "go"} /\ timer \in {"waits", "sleeps", "reads"}
  /\ {storey, status, goal_lift1} \subseteq 0..2 /\ order \in {0, 100, 101}
  /\ reply \in {0, 657190, 657191, 657193}
  /\ orders \in 0..MaxOrders /\ faults \in 0..MaxFaults

\* main() and the globals; CONNECT_LIFT1 ends with a context, or a dangling
\* pointer to one.
Init ==
  /\ floor \in {1, 2} /\ cmd = 0
  /\ \/ ctx = "ok" /\ faults = 0
     \/ ctx = "freed" /\ MaxFaults > 0 /\ faults = 1
  /\ answers = <<>> /\ aside = Nowhere
  /\ job = [th \in Thread |-> NoJob]
  /\ main = "idle" /\ storey = 0 /\ order = 0
  /\ timer = "waits" /\ status = 0
  /\ goal_lift1 = 0 /\ event_lift1 = FALSE
  /\ arrivals = 0 /\ reply = 0
  /\ seen = [th \in Thread |-> {}] /\ twice = {}
  /\ owed = FALSE /\ spare = 0
  /\ orders = 0

\* A connection after f faults: a new context, or a pointer to none.
Connects(f) ==
  \/ ctx' = "ok" /\ faults' = f
  \/ ctx' = "freed" /\ f < MaxFaults /\ faults' = f + 1

\* Use of freed memory may end the process; it is started again.
Crash ==
  /\ Connects(faults)
  /\ answers' = <<>> /\ aside' = Nowhere
  /\ job' = [th \in Thread |-> NoJob]
  /\ main' = "idle" /\ storey' = 0 /\ order' = 0
  /\ timer' = "waits" /\ status' = 0
  /\ goal_lift1' = 0 /\ event_lift1' = FALSE
  /\ arrivals' = 0 /\ reply' = 0
  /\ owed' = FALSE /\ spare' = 0
  /\ seen' = [th \in Thread |-> {}] /\ twice' = {}
  /\ UNCHANGED <<floor, cmd, orders>>

\* The storeys that matter to the reading a thread is at.
Sought(th) ==
  IF th = "timer" THEN IF timer = "reads" THEN {1, 2} ELSE {}
  ELSE IF main = "ready" /\ order = 0 THEN {storey} ELSE {}

-----------------------------------------------------------------------------
(* The PLC                                                                 *)

Moves ==
  /\ \/ cmd = 100 /\ floor # 2 /\ floor' = IF floor = 1 THEN 0 ELSE 2
     \/ cmd = 101 /\ floor # 1 /\ floor' = IF floor = 2 THEN 0 ELSE 1
  /\ seen' = [th \in Thread |-> seen[th] \union ({floor'} \intersect Sought(th))]
  /\ UNCHANGED <<cmd, hubVars, twice, orders, faults>>

-----------------------------------------------------------------------------
(* The dispatcher's messages                                               *)

BeginReading(th, sought) ==
  /\ job' = [job EXCEPT ![th] = Job("read")]
  /\ seen' = [seen EXCEPT ![th] = {floor} \intersect sought] /\ twice' = twice \ {th}

\* 657189: lift1_ready begins.
Query(s) ==
  /\ main = "idle" /\ orders < MaxOrders
  /\ main' = "ready" /\ storey' = s /\ orders' = orders + 1 /\ reply' = 0
  /\ BeginReading("main", {s})
  /\ UNCHANGED <<floor, cmd, ctxVars, order, timer, status,
                 goal_lift1, event_lift1, arrivals, owed, spare, faults>>

\* 657192: lift1_go begins; a vehicle that is not registered has storey 0.
\* The goal is set before the lift is told.
Go(s) ==
  /\ main = "idle"
  /\ IF s = 0 THEN UNCHANGED <<main, order, goal_lift1, job, owed, reply, orders>>
     ELSE /\ orders < MaxOrders /\ orders' = orders + 1
          /\ main' = "go" /\ reply' = 0
          /\ goal_lift1' = 3 - s
          /\ order' = IF s = 1 THEN 100 ELSE 101
          /\ job' = [job EXCEPT !["main"] = Job("release")]
          /\ owed' = FALSE
  /\ UNCHANGED <<floor, cmd, ctxVars, storey, timer, status,
                 event_lift1, arrivals, seen, twice, spare, faults>>

\* 523100 from the hub itself is told to the dispatcher as 657193.
Arrived ==
  /\ main = "idle" /\ arrivals > 0
  /\ arrivals' = arrivals - 1
  /\ reply' = 657193
  /\ UNCHANGED <<floor, cmd, ctxVars, job, main, storey, order,
                 timer, status, goal_lift1, event_lift1, seen, twice, owed,
                 spare, orders, faults>>

-----------------------------------------------------------------------------
(* timer_lift1                                                             *)

\* A slip: the event stays set.
WakesManually ==
  /\ timer = "waits" /\ event_lift1
  /\ timer' = "sleeps"
  /\ UNCHANGED <<floor, cmd, ctxVars, job, main, storey, order,
                 status, goal_lift1, event_lift1, arrivals, reply, seen, twice,
                 owed, spare, orders, faults>>

Wakes ==
  /\ timer = "waits" /\ event_lift1
  /\ timer' = "sleeps" /\ event_lift1' = FALSE
  /\ UNCHANGED <<floor, cmd, ctxVars, job, main, storey, order,
                 status, goal_lift1, arrivals, reply, seen, twice, owed, spare,
                 orders, faults>>

Polls ==
  /\ timer = "sleeps"
  /\ timer' = "reads"
  /\ BeginReading("timer", {1, 2})
  /\ UNCHANGED <<floor, cmd, ctxVars, main, storey, order, status,
                 goal_lift1, event_lift1, arrivals, reply, owed, spare, orders,
                 faults>>

\* The reading is over, with status s: the lift has arrived or not.
Compare(s) ==
  /\ status' = s
  /\ IF goal_lift1 = s
     THEN /\ timer' = "waits" /\ arrivals' = arrivals + 1
          /\ owed' = (owed /\ event_lift1)
          /\ spare' = spare - 1
     ELSE timer' = "sleeps" /\ UNCHANGED <<arrivals, owed, spare>>
  /\ job' = [job EXCEPT !["timer"] = NoJob]
  /\ seen' = [seen EXCEPT !["timer"] = {}] /\ twice' = twice \ {"timer"}
  /\ UNCHANGED <<main, storey, order, goal_lift1, event_lift1, reply>>

-----------------------------------------------------------------------------
(* data_handler, after a macro                                             *)

timerVars == <<timer, status, arrivals, goal_lift1>>

Tell(r) ==
  /\ main' = "idle" /\ reply' = r /\ storey' = 0 /\ order' = 0
  /\ job' = [job EXCEPT !["main"] = NoJob]
  /\ seen' = [seen EXCEPT !["main"] = {}] /\ twice' = twice \ {"main"}
  /\ UNCHANGED <<timerVars, event_lift1, owed, spare>>

\* lift1_ready with the storey read: here; elsewhere, and sent for without
\* a goal; or on its way.
Placed(f) ==
  IF f = storey THEN Tell(657190)
  ELSE IF f = 0 THEN Tell(657191)
  ELSE /\ order' = IF f = 1 THEN 100 ELSE 101
       /\ job' = [job EXCEPT !["main"] = Job("release")]
       /\ owed' = FALSE
       /\ seen' = [seen EXCEPT !["main"] = {}] /\ twice' = twice \ {"main"}
       /\ UNCHANGED <<timerVars, main, storey, event_lift1, reply, spare>>

\* A slip: only an order to rise sets the event.
OrderedToRise(taken) ==
  IF main = "ready" THEN Tell(657191)
  ELSE /\ main' = "idle" /\ order' = 0
       /\ event_lift1' = (event_lift1 \/ (taken /\ order = 100))
       /\ owed' = taken
       /\ spare' = IF taken THEN spare + 1 ELSE spare
       /\ job' = [job EXCEPT !["main"] = NoJob] /\ twice' = twice \ {"main"}
       /\ UNCHANGED <<timerVars, storey, reply, seen>>

\* The order was taken, or not after all tries.
Ordered(taken) ==
  IF main = "ready" THEN Tell(657191)
  ELSE /\ main' = "idle" /\ order' = 0
       /\ event_lift1' = (event_lift1 \/ taken)
       /\ owed' = taken
       /\ spare' = IF taken THEN spare + 1 ELSE spare
       /\ job' = [job EXCEPT !["main"] = NoJob] /\ twice' = twice \ {"main"}
       /\ UNCHANGED <<timerVars, storey, reply, seen>>

-----------------------------------------------------------------------------
(* The macros: READS_LIFT1, RAISES_LIFT1 and DROPS_LIFT1                   *)

kept == <<main, storey, order, timerVars, event_lift1, reply, owed, spare>>
stays == UNCHANGED <<kept, seen, twice>>

Waiting(does, th) == [job[th] EXCEPT !.does = does, !.num = 0]

\* A request succeeded with value v: the next one, or the end of the macro.
Succeeds(th, v) ==
  CASE job[th].does = "read"    -> IF th = "main" THEN Placed(v) ELSE Compare(v)
    [] job[th].does = "release" -> job' = [job EXCEPT ![th] = Waiting("move", th)]
                                   /\ stays
    [] job[th].does = "move"    -> Ordered(TRUE)

GivesUp(th) ==
  CASE job[th].does = "read" -> IF th = "main" THEN Tell(657191) ELSE Compare(status)
    [] job[th].does = "move" -> Ordered(FALSE)

\* The first request of a try.
First(th) == IF th = "timer" \/ order = 0 THEN "read" ELSE "release"

\* A slip: one try too many.
LastLate(th) == job[th].i = Tries

\* The last try of a loop.
Last(th) == job[th].i = Tries - 1

\* A request failed, after f faults.  The first write of an order may fail;
\* after the last try the context is made anew, once.
Fails(th, f) ==
  LET j == job[th]
  IN /\ faults' = f
     /\ \/ /\ j.does = "release"
           /\ job' = [job EXCEPT ![th] = Waiting("move", th)]
           /\ stays
        \/ /\ j.does # "release" /\ ~Last(th)
           /\ job' = [job EXCEPT ![th] = [Waiting(First(th), th) EXCEPT !.i = @ + 1]]
           /\ stays
        \/ /\ j.does # "release" /\ Last(th) /\ ~j.again
           /\ job' = [job EXCEPT ![th] = Job("disconnect")]
           /\ stays
        \/ /\ j.does # "release" /\ Last(th) /\ j.again
           /\ GivesUp(th)

\* TCP_MODBUS_DISCONNECT; the other thread may free the same context, or
\* wait on the one that is freed.
Disconnect(th) ==
  /\ job[th].does = "disconnect"
  /\ \/ /\ ctx' = "freed" /\ answers' = <<>>
        /\ aside' = IF Waits(OtherOf(th)) /\ aside.on = "nobody"
                    THEN [Nowhere EXCEPT !.on = OtherOf(th), !.gone = TRUE]
                    ELSE aside
        /\ job' = [job EXCEPT ![th] = Job("connect")]
        /\ stays /\ UNCHANGED <<floor, cmd, orders, faults>>
     \/ ctx = "freed" /\ Crash

\* TCP_MODBUS_CONNECT, and the tries begin again.  A context the other
\* thread has made meanwhile is left, and it may wait on it.
Connect(th) ==
  /\ job[th].does = "connect"
  /\ Connects(faults)
  /\ answers' = <<>>
  /\ aside' = IF Waits(OtherOf(th)) /\ aside.on = "nobody"
              THEN [on |-> OtherOf(th), gone |-> FALSE, answers |-> answers]
              ELSE aside
  /\ job' = [job EXCEPT ![th] = [Job(First(th)) EXCEPT !.again = TRUE]]
  /\ stays /\ UNCHANGED <<floor, cmd, orders>>

\* A slip: a request that was given up has its number no more.
UsedByOther(th) == {job[o].num : o \in {OtherOf(th)} \ {aside.on}} \ {0}

\* The numbers in use at ctx: of answers nobody has read yet, and of the
\* other thread's request.
Used(th) ==
  {answers[k].num : k \in DOMAIN answers}
    \union ({job[o].num : o \in {OtherOf(th)} \ {aside.on}} \ {0})

\* The first number that is not in use stands for the next one.
Unused(th, n) == n \notin Used(th) /\ \A m \in 1..(n - 1) : m \in Used(th)

\* modbus_read_registers and modbus_write_register send; the PLC answers.
\* t_id++ by both threads at once gives both one number, or sets the counter
\* back: this request, and later ones, have numbers of earlier ones.
Send(th) ==
  LET j == job[th]
  IN /\ j.does \in Request /\ ~Waits(th) /\ ctx = "ok"
     /\ \E n \in 1..(Len(answers) + 2) :
          /\ \/ Unused(th, n) /\ UNCHANGED <<twice, faults>>
             \/ /\ n \in Used(th) /\ faults < MaxFaults
                /\ twice' = twice \union {th} /\ faults' = faults + 1
          /\ job' = [job EXCEPT ![th].num = n]
          /\ answers' = Append(answers, [num |-> n,
                                          val |-> IF j.does = "read" THEN floor ELSE Done])
     /\ cmd' = CASE j.does = "read"    -> cmd
                 [] j.does = "release" -> 0
                 [] j.does = "move"    -> order
     /\ UNCHANGED <<floor, ctx, aside, kept, seen, orders>>

\* With a freed context a request fails, or anything happens.
UsesFreed(th) ==
  \/ /\ job[th].does \in Request /\ ~Waits(th) /\ ctx = "freed"
     /\ \/ /\ Fails(th, faults)
           /\ UNCHANGED <<floor, cmd, ctxVars, orders>>
        \/ Crash
  \/ aside.on = th /\ aside.gone /\ Crash

\* A slip: any answer to the same kind of request is taken.
MineByKind(th, e) == (e.val = Done) = (job[th].does # "read")

\* check_confirmation: the number of the request, and its function.
Mine(th, e) ==
  /\ e.num = job[th].num
  /\ (e.val = Done) = (job[th].does # "read")

\* The answers on the context th waits on.
Mail(th) == IF aside.on = th THEN aside.answers ELSE answers

\* th waits no more and leaves the rest unread; a context that is not ctx is
\* never used again.
Leaves(th, rest) ==
  IF aside.on = th THEN aside' = Nowhere /\ UNCHANGED answers
  ELSE answers' = rest /\ UNCHANGED aside

Receive(th) ==
  /\ Waits(th) /\ Mail(th) # <<>>
  /\ \/ /\ Mine(th, Head(Mail(th)))
        /\ Succeeds(th, Head(Mail(th)).val)
        /\ UNCHANGED faults
     \/ /\ ~Mine(th, Head(Mail(th)))
        /\ Fails(th, faults)
  /\ Leaves(th, Tail(Mail(th)))
  /\ UNCHANGED <<floor, cmd, ctx, orders>>

\* The other thread has read the answer; or it is late, or each has read a
\* part of one.
TimesOut(th) ==
  /\ Waits(th)
  /\ \/ /\ Mail(th) = <<>>
        /\ Fails(th, faults)
        /\ Leaves(th, <<>>)
     \/ /\ faults < MaxFaults
        /\ Fails(th, faults + 1)
        /\ \/ Leaves(th, Mail(th))
           \/ /\ Waits(OtherOf(th)) /\ aside.on = "nobody" /\ answers # <<>>
              /\ Leaves(th, Tail(answers))
  /\ UNCHANGED <<floor, cmd, ctx, orders>>

-----------------------------------------------------------------------------
Steps(th) ==
  \/ Send(th) \/ UsesFreed(th) \/ Receive(th) \/ TimesOut(th)
  \/ Disconnect(th) \/ Connect(th)

Next ==
  \/ Moves
  \/ \E s \in 0..2 : Query(s) \/ Go(s)
  \/ Arrived \/ Wakes \/ Polls
  \/ \E th \in Thread : Steps(th)

Spec == Init /\ [][Next]_vars

\* The lift moves, and each thread goes on; the select loop of the main
\* thread handles what the hub has sent itself.
Fairness ==
  /\ WF_vars(Moves)
  /\ WF_vars(Arrived \/ Steps("main"))
  /\ WF_vars(Wakes \/ Polls \/ Steps("timer"))

LiveSpec == Spec /\ Fairness

-----------------------------------------------------------------------------
(* Properties                                                              *)

\* The dispatcher is told that the lift stands ready (657190) only if the
\* lift was at the vehicle's storey at some moment of this query: answers
\* to earlier, abandoned readings never count, unless a request of the query
\* was sent with a number that was in use.
ReadyIsFresh ==
  [][main = "ready" /\ main' = "idle" /\ reply' = 657190 =>
       storey \in seen["main"] \/ "main" \in twice]_vars

\* An arrival is announced only if the lift was at the goal during the
\* timer's reading; or a request of the reading was sent with a number that
\* was in use; or the reading failed and an older one is used again.
ArrivalSeen ==
  [][arrivals' > arrivals =>
       \/ goal_lift1 \in seen["timer"]
       \/ "timer" \in twice
       \/ job["timer"].again /\ goal_lift1 = status]_vars

\* No arrival is announced without an order of its own that the PLC has
\* confirmed; two orders may share one.
OneArrivalEach ==
  (IF event_lift1 THEN 1 ELSE 0) + (IF timer = "waits" THEN 0 ELSE 1) <= spare

\* An order the PLC has confirmed is followed by its arrival, unless a later
\* query or order sends the lift elsewhere, or the hub dies.
OrderAnswered == owed ~> ~owed
=============================================================================
