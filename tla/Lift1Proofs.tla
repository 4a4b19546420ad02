----------------------------- MODULE Lift1Proofs ------------------------------
(***************************************************************************)
(* What the two threads learn from the lift's PLC over one modbus context  *)
(* without a lock is of the reading they are in, unless a number was used  *)
(* twice, and every arrival that is announced has an order of its own: for *)
(* any number of tries, orders and faults.                                 *)
(***************************************************************************)
EXTENDS Lift1, TLAPS

Does == {"nothing", "read", "release", "move", "disconnect", "connect"}
JobType == [does : Does, i : 0..(Tries - 1), again : BOOLEAN, num : Nat]
Answer == [num : Nat, val : 0..3]
Aside == [on : Thread \union {"nobody"}, gone : BOOLEAN, answers : Seq(Answer)]

Reply == {0, 657190, 657191, 657193}

-----------------------------------------------------------------------------
(* The inductive invariant                                                 *)

PlcInv == floor \in 0..2 /\ cmd \in {0, 100, 101} /\ orders \in 0..MaxOrders

CtxInv == ctx \in {"ok", "freed"} /\ faults \in 0..MaxFaults

HubInv ==
  /\ main \in {"idle", "ready", "go"} /\ timer \in {"waits", "sleeps", "reads"}
  /\ storey \in 0..2 /\ status \in 0..2 /\ goal_lift1 \in 0..2
  /\ order \in {0, 100, 101} /\ reply \in Reply
  /\ event_lift1 \in BOOLEAN /\ arrivals \in Nat /\ spare \in Int

\* Nobody looks out for the lift before it has a goal.
GoalInv == goal_lift1 = 0 => main # "go" /\ ~event_lift1 /\ timer = "waits"

\* What a macro does is part of what its thread does.
Reading == {"read", "disconnect", "connect"}
Ordering == {"release", "move", "disconnect", "connect"}
Fits(th, d) ==
  IF th = "timer" THEN IF timer = "reads" THEN d \in Reading ELSE d = "nothing"
  ELSE IF main = "idle" THEN order = 0 /\ d = "nothing"
  ELSE IF main = "ready" /\ order = 0 THEN d \in Reading
  ELSE order # 0 /\ d \in Ordering

JobInv ==
  /\ job \in [Thread -> JobType] /\ seen \in [Thread -> SUBSET (0..2)]
  /\ twice \subseteq Thread
  /\ \A th \in Thread : /\ Fits(th, job[th].does)
                        /\ Waits(th) => job[th].does \in Request

\* What the lift shows to a thread that looks for it has been seen.
Fresh == \A th \in Thread : floor \in Sought(th) => floor \in seen[th]

\* So has what the PLC answers to its request.
In(s) == {s[k] : k \in DOMAIN s}
Honest(th, s) ==
  \A e \in In(s) : e.num = job[th].num /\ e.val \in Sought(th) => e.val \in seen[th]
Answered == \A th \in Thread : Waits(th) /\ th \notin twice => Honest(th, Mail(th))

MailInv ==
  /\ answers \in Seq(Answer) /\ aside \in Aside
  /\ aside.on \in Thread => Waits(aside.on)
  /\ Fresh /\ Answered

LInv ==
  PlcInv /\ CtxInv /\ HubInv /\ GoalInv /\ JobInv /\ MailInv /\ OneArrivalEach

-----------------------------------------------------------------------------
(* Jobs                                                                    *)

LEMMA Bounds ==
  Tries \in Nat /\ Tries > 0 /\ MaxOrders \in Nat /\ MaxFaults \in Nat
  BY LiftAssumption

LEMMA Threads ==
  ASSUME NEW th \in Thread
  PROVE  /\ OtherOf(th) \in Thread /\ OtherOf(th) # th
         /\ \A u \in Thread : u = th \/ u = OtherOf(th)
         /\ OtherOf(OtherOf(th)) = th
  BY DEF Thread, OtherOf

LEMMA JobOf ==
  ASSUME NEW d \in Does
  PROVE  /\ NoJob \in JobType /\ NoJob.does = "nothing" /\ NoJob.num = 0
         /\ Job(d) \in JobType /\ Job(d).does = d /\ Job(d).num = 0
         /\ [Job(d) EXCEPT !.again = TRUE] \in JobType
         /\ [Job(d) EXCEPT !.again = TRUE].does = d
         /\ [Job(d) EXCEPT !.again = TRUE].num = 0
<1>1. 0 \in 0..(Tries - 1)
  BY Bounds
<1>2. NoJob \in JobType /\ NoJob.does = "nothing" /\ NoJob.num = 0
  BY <1>1 DEF NoJob, JobType, Does
<1>3. Job(d) \in JobType /\ Job(d).does = d /\ Job(d).num = 0
  BY <1>2 DEF Job, JobType
<1>4. /\ [Job(d) EXCEPT !.again = TRUE] \in JobType
      /\ [Job(d) EXCEPT !.again = TRUE].does = d
      /\ [Job(d) EXCEPT !.again = TRUE].num = 0
  BY <1>3 DEF JobType
<1> QED BY <1>2, <1>3, <1>4

LEMMA WaitingOf ==
  ASSUME NEW th \in Thread, job[th] \in JobType, NEW d \in Does
  PROVE  /\ Waiting(d, th) \in JobType
         /\ Waiting(d, th).does = d /\ Waiting(d, th).num = 0
         /\ Waiting(d, th).i = job[th].i
  BY DEF Waiting, JobType

\* What a thread's going on leaves true, but for the answers.
Advances(th) ==
  /\ HubInv' /\ GoalInv' /\ OneArrivalEach' /\ JobInv'
  /\ job'[OtherOf(th)] = job[OtherOf(th)] /\ job'[th].num = 0
  /\ seen'[OtherOf(th)] = seen[OtherOf(th)]
  /\ OtherOf(th) \in twice' <=> OtherOf(th) \in twice
  /\ Sought(OtherOf(th))' = Sought(OtherOf(th))
  /\ Sought(th)' = {} \/ (Sought(th)' = Sought(th) /\ seen'[th] = seen[th])

\* The next request of the same macro.
LEMMA GoesOn ==
  ASSUME HubInv, GoalInv, JobInv, OneArrivalEach, NEW th \in Thread,
         NEW j \in JobType, j.num = 0, Fits(th, j.does),
         job' = [job EXCEPT ![th] = j], UNCHANGED <<kept, seen, twice>>
  PROVE  Advances(th)
<1>1. /\ OtherOf(th) \in Thread /\ OtherOf(th) # th
      /\ \A u \in Thread : u = th \/ u = OtherOf(th)
  BY Threads
<1>2. /\ job' \in [Thread -> JobType] /\ job'[th] = j
      /\ job'[OtherOf(th)] = job[OtherOf(th)]
  BY <1>1 DEF JobInv
<1>3. HubInv' /\ GoalInv' /\ OneArrivalEach'
  BY DEF HubInv, GoalInv, OneArrivalEach, kept, timerVars
<1>4. /\ seen' = seen /\ twice' = twice
      /\ \A u \in Thread : Sought(u)' = Sought(u)
      /\ \A u \in Thread, d \in Does : Fits(u, d)' = Fits(u, d)
  BY DEF kept, timerVars, Sought, Fits
<1>5. JobInv'
  <2> SUFFICES ASSUME NEW u \in Thread
               PROVE  /\ Fits(u, job[u].does)'
                      /\ Waits(u)' => job'[u].does \in Request
    BY <1>2, <1>4 DEF JobInv
  <2>1. job'[u].does \in Does
    BY <1>2 DEF JobType
  <2>2. CASE u = th
    BY <1>2, <1>4, <2>1, <2>2 DEF Waits
  <2>3. CASE u = OtherOf(th)
    BY <1>2, <1>4, <2>1, <2>3 DEF JobInv, Waits
  <2> QED BY <1>1, <2>2, <2>3
<1> QED BY <1>1, <1>2, <1>3, <1>4, <1>5 DEF Advances

\* The main thread is back in its loop.
LEMMA TellAdvances ==
  ASSUME HubInv, GoalInv, JobInv, OneArrivalEach, NEW r \in Reply, Tell(r)
  PROVE  Advances("main")
<1>1. /\ job' \in [Thread -> JobType] /\ job'["main"] = NoJob
      /\ job'["timer"] = job["timer"]
  BY JobOf DEF Tell, JobInv, Thread, Does
<1>2. /\ seen' \in [Thread -> SUBSET (0..2)] /\ seen'["timer"] = seen["timer"]
      /\ twice' \subseteq Thread /\ ("timer" \in twice' <=> "timer" \in twice)
  BY DEF Tell, JobInv, Thread
<1>3. NoJob.does = "nothing" /\ NoJob.num = 0
  BY DEF NoJob
<1>4. /\ main' = "idle" /\ reply' = r /\ storey' = 0 /\ order' = 0
      /\ UNCHANGED <<timer, status, arrivals, goal_lift1, event_lift1, spare>>
  BY DEF Tell, timerVars
<1>5. HubInv' /\ GoalInv' /\ OneArrivalEach'
  BY <1>4 DEF HubInv, GoalInv, OneArrivalEach
<1>6. JobInv'
  BY <1>1, <1>2, <1>3, <1>4 DEF JobInv, Thread, Fits, Waits
<1>7. Sought("main")' = {} /\ Sought("timer")' = Sought("timer")
  BY <1>4 DEF Sought
<1> QED BY <1>1, <1>2, <1>3, <1>5, <1>6, <1>7 DEF Advances, OtherOf

\* The lift's place is known.
LEMMA PlacedAdvances ==
  ASSUME HubInv, GoalInv, JobInv, OneArrivalEach, job["main"].does = "read",
         NEW f \in 0..2, Placed(f)
  PROVE  Advances("main")
<1>1. ASSUME NEW r \in Reply, Tell(r) PROVE Advances("main")
  BY <1>1, TellAdvances
<1>2. CASE f # storey /\ f # 0
  <2>1. /\ order' = IF f = 1 THEN 100 ELSE 101
        /\ job' = [job EXCEPT !["main"] = Job("release")]
        /\ seen' = [seen EXCEPT !["main"] = {}]
        /\ twice' = twice \ {"main"}
        /\ UNCHANGED <<timerVars, main, storey, event_lift1, reply, spare>>
    BY <1>2, SMT DEF Placed
  <2>2. /\ Job("release") \in JobType /\ Job("release").does = "release"
        /\ Job("release").num = 0
    BY JobOf DEF Does
  <2>3. /\ job' \in [Thread -> JobType] /\ job'["main"] = Job("release")
        /\ job'["timer"] = job["timer"]
    BY <2>1, <2>2 DEF JobInv, Thread
  <2>4. /\ seen' \in [Thread -> SUBSET (0..2)] /\ seen'["timer"] = seen["timer"]
        /\ twice' \subseteq Thread /\ ("timer" \in twice' <=> "timer" \in twice)
    BY <2>1 DEF JobInv, Thread
  <2>5. HubInv' /\ GoalInv' /\ OneArrivalEach'
    BY <2>1 DEF HubInv, GoalInv, OneArrivalEach, timerVars
  <2>6. main = "ready" /\ timer' = timer
    BY <2>1 DEF JobInv, Thread, Fits, Ordering, timerVars
  <2>7. JobInv'
    BY <2>1, <2>2, <2>3, <2>4, <2>6 DEF JobInv, Thread, Fits, Ordering, Waits
  <2>8. Sought("main")' = {} /\ Sought("timer")' = Sought("timer")
    BY <2>1, <2>6 DEF Sought
  <2> QED BY <2>2, <2>3, <2>4, <2>5, <2>7, <2>8 DEF Advances, OtherOf
<1>3. CASE f = storey \/ f = 0
  <2>1. \E r \in Reply : Tell(r)
    BY <1>3, SMT DEF Placed, Reply
  <2> QED BY <1>1, <2>1
<1> QED BY <1>2, <1>3

\* An order comes to its end, taken or not.
OrderEnds ==
  /\ main = "go"
  /\ main' = "idle" /\ order' = 0
  /\ \/ event_lift1' = event_lift1 /\ spare' = spare
     \/ event_lift1' \in BOOLEAN /\ spare' = spare + 1
  /\ job' = [job EXCEPT !["main"] = NoJob]
  /\ twice' = twice \ {"main"}
  /\ UNCHANGED <<timer, status, arrivals, goal_lift1, storey, reply, seen>>

LEMMA OrderEndsAdvances ==
  ASSUME HubInv, GoalInv, JobInv, OneArrivalEach, OrderEnds
  PROVE  Advances("main")
<1>1. NoJob \in JobType /\ NoJob.does = "nothing" /\ NoJob.num = 0
  BY JobOf DEF Does
<1>2. /\ job' \in [Thread -> JobType] /\ job'["main"] = NoJob
      /\ job'["timer"] = job["timer"]
  BY <1>1 DEF OrderEnds, JobInv, Thread
<1>3. HubInv' /\ GoalInv'
  BY DEF OrderEnds, HubInv, GoalInv
<1>4. OneArrivalEach'
  <2>1. timer' = timer /\ spare \in Int
    BY DEF OrderEnds, HubInv
  <2>2. CASE event_lift1' = event_lift1 /\ spare' = spare
    BY <2>1, <2>2 DEF OneArrivalEach
  <2>3. CASE spare' = spare + 1
    BY <2>1, <2>3 DEF OneArrivalEach
  <2> QED BY <2>2, <2>3 DEF OrderEnds
<1>5. JobInv'
  BY <1>1, <1>2 DEF OrderEnds, JobInv, Thread, Fits, Waits
<1>6. Sought("main")' = {} /\ Sought("timer")' = Sought("timer")
  BY DEF OrderEnds, Sought
<1>7. seen' = seen /\ ("timer" \in twice' <=> "timer" \in twice)
  BY DEF OrderEnds
<1> QED BY <1>1, <1>2, <1>3, <1>4, <1>5, <1>6, <1>7 DEF Advances, OtherOf

LEMMA CompareAdvances ==
  ASSUME HubInv, GoalInv, JobInv, OneArrivalEach, job["timer"].does = "read",
         NEW s \in 0..2, Compare(s)
  PROVE  Advances("timer")
<1>1. /\ job' = [job EXCEPT !["timer"] = NoJob]
      /\ seen' = [seen EXCEPT !["timer"] = {}]
      /\ twice' = twice \ {"timer"}
      /\ status' = s
      /\ \/ timer' = "waits" /\ arrivals' = arrivals + 1 /\ spare' = spare - 1
         \/ timer' = "sleeps" /\ arrivals' = arrivals /\ spare' = spare
      /\ UNCHANGED <<main, storey, order, goal_lift1, event_lift1, reply>>
  BY DEF Compare
<1>2. timer = "reads"
  BY DEF JobInv, Thread, Fits
<1>3. NoJob \in JobType /\ NoJob.does = "nothing" /\ NoJob.num = 0
  BY JobOf DEF Does
<1>4. /\ job' \in [Thread -> JobType] /\ job'["timer"] = NoJob
      /\ job'["main"] = job["main"]
  BY <1>1, <1>3 DEF JobInv, Thread
<1>5. /\ seen' \in [Thread -> SUBSET (0..2)] /\ seen'["main"] = seen["main"]
      /\ twice' \subseteq Thread /\ ("main" \in twice' <=> "main" \in twice)
  BY <1>1 DEF JobInv, Thread
<1>6. HubInv' /\ GoalInv' /\ OneArrivalEach'
  BY <1>1, <1>2 DEF HubInv, GoalInv, OneArrivalEach
<1>7. JobInv'
  BY <1>1, <1>3, <1>4, <1>5 DEF JobInv, Thread, Fits, Waits
<1>8. Sought("timer")' = {} /\ Sought("main")' = Sought("main")
  BY <1>1 DEF Sought
<1> QED BY <1>3, <1>4, <1>5, <1>6, <1>7, <1>8 DEF Advances, OtherOf

LEMMA SucceedsAdvances ==
  ASSUME HubInv, GoalInv, JobInv, OneArrivalEach, NEW th \in Thread,
         job[th].does \in Request, NEW v \in 0..3,
         job[th].does = "read" => v \in 0..2, Succeeds(th, v)
  PROVE  Advances(th)
<1>1. job[th] \in JobType /\ Fits(th, job[th].does)
  BY DEF JobInv
<1>2. CASE job[th].does = "read"
  BY <1>2, PlacedAdvances, CompareAdvances DEF Succeeds, Thread
<1>3. CASE job[th].does = "release"
  <2>1. job' = [job EXCEPT ![th] = Waiting("move", th)] /\ UNCHANGED <<kept, seen, twice>>
    BY <1>3 DEF Succeeds, stays
  <2>2. /\ Waiting("move", th) \in JobType /\ Waiting("move", th).does = "move"
        /\ Waiting("move", th).num = 0
    BY <1>1, WaitingOf DEF Does
  <2>3. Fits(th, "move")
    BY <1>1, <1>3 DEF Fits, Reading, Ordering
  <2> QED BY <2>1, <2>2, <2>3, GoesOn
<1>4. CASE job[th].does = "move"
  <2>1. th = "main" /\ main \in {"ready", "go"}
    BY <1>1, <1>4 DEF Fits, Reading, Thread, HubInv
  <2>2. CASE main = "ready"
    <3>1. \E r \in Reply : Tell(r)
      BY <1>4, <2>2, SMT DEF Succeeds, Ordered, Reply
    <3> QED BY <2>1, <3>1, TellAdvances
  <2>3. CASE main # "ready"
    <3>1. OrderEnds
      BY <1>4, <2>1, <2>3, SMT DEF Succeeds, Ordered, OrderEnds, timerVars, HubInv
    <3> QED BY <2>1, <3>1, OrderEndsAdvances
  <2> QED BY <2>2, <2>3
<1> QED BY <1>2, <1>3, <1>4 DEF Request

\* The request a try begins with.
LEMMA FirstFits ==
  ASSUME NEW th \in Thread, NEW d \in Does \ {"nothing"}, Fits(th, d)
  PROVE  /\ First(th) \in {"read", "release"} /\ First(th) \in Does
         /\ Fits(th, First(th))
         /\ Fits(th, "disconnect") /\ Fits(th, "connect")
  BY DEF First, Fits, Reading, Ordering, Does, Thread

LEMMA FailsAdvances ==
  ASSUME HubInv, GoalInv, JobInv, OneArrivalEach, NEW th \in Thread,
         job[th].does \in Request, NEW f, Fails(th, f)
  PROVE  Advances(th) /\ faults' = f
<1>1. job[th] \in JobType /\ Fits(th, job[th].does) /\ faults' = f
  BY DEF JobInv, Fails
<1>2. /\ First(th) \in {"read", "release"} /\ First(th) \in Does
      /\ Fits(th, First(th)) /\ Fits(th, "disconnect")
  BY <1>1, FirstFits DEF Request, Does
<1>3. CASE /\ job[th].does = "release"
           /\ job' = [job EXCEPT ![th] = Waiting("move", th)]
           /\ UNCHANGED <<kept, seen, twice>>
  <2>1. /\ Waiting("move", th) \in JobType /\ Waiting("move", th).does = "move"
        /\ Waiting("move", th).num = 0
    BY <1>1, WaitingOf DEF Does
  <2>2. Fits(th, "move")
    BY <1>1, <1>3 DEF Fits, Reading, Ordering
  <2> QED BY <1>1, <1>3, <2>1, <2>2, GoesOn
<1>4. CASE /\ job[th].does # "release" /\ ~Last(th)
           /\ job' = [job EXCEPT ![th] = [Waiting(First(th), th) EXCEPT !.i = @ + 1]]
           /\ UNCHANGED <<kept, seen, twice>>
  <2> DEFINE w == Waiting(First(th), th)
             j == [w EXCEPT !.i = @ + 1]
  <2>1. w \in JobType /\ w.does = First(th) /\ w.num = 0 /\ w.i = job[th].i
    BY <1>1, <1>2, WaitingOf
  <2>2. w.i + 1 \in 0..(Tries - 1)
    BY <1>1, <1>4, <2>1, Bounds DEF Last, JobType
  <2> HIDE DEF w
  <2>3. j \in JobType /\ j.does = First(th) /\ j.num = 0
    BY <2>1, <2>2 DEF JobType
  <2>4. job' = [job EXCEPT ![th] = j]
    BY <1>4 DEF w
  <2> HIDE DEF j
  <2> QED BY <1>1, <1>2, <1>4, <2>3, <2>4, GoesOn
<1>5. CASE /\ job' = [job EXCEPT ![th] = Job("disconnect")]
           /\ UNCHANGED <<kept, seen, twice>>
  <2>1. /\ Job("disconnect") \in JobType /\ Job("disconnect").does = "disconnect"
        /\ Job("disconnect").num = 0
    BY JobOf DEF Does
  <2> QED BY <1>1, <1>2, <1>5, <2>1, GoesOn
<1>6. CASE job[th].does # "release" /\ GivesUp(th)
  <2>1. CASE job[th].does = "read" /\ th = "main"
    <3>1. \E r \in Reply : Tell(r)
      BY <1>6, <2>1, SMT DEF GivesUp, Reply
    <3> QED BY <1>1, <2>1, <3>1, TellAdvances
  <2>2. CASE job[th].does = "read" /\ th # "main"
    <3>1. th = "timer" /\ Compare(status) /\ status \in 0..2
      BY <1>6, <2>2, SMT DEF GivesUp, Thread, HubInv
    <3> QED BY <1>1, <2>2, <3>1, CompareAdvances
  <2>3. CASE job[th].does = "move"
    <3>1. th = "main" /\ main \in {"ready", "go"}
      BY <1>1, <2>3 DEF Fits, Reading, Thread, HubInv
    <3>2. CASE main = "ready"
      <4>1. \E r \in Reply : Tell(r)
        BY <1>6, <2>3, <3>2, SMT DEF GivesUp, Ordered, Reply
      <4> QED BY <1>1, <3>1, <4>1, TellAdvances
    <3>3. CASE main # "ready"
      <4>1. OrderEnds
        BY <1>6, <2>3, <3>1, <3>3, SMT DEF GivesUp, Ordered, OrderEnds, timerVars, HubInv
      <4> QED BY <1>1, <3>1, <4>1, OrderEndsAdvances
    <3> QED BY <3>2, <3>3
  <2> QED BY <1>6, <2>1, <2>2, <2>3 DEF Request
<1> QED BY <1>3, <1>4, <1>5, <1>6, SMT DEF Fails, stays

-----------------------------------------------------------------------------
(* Answers                                                                 *)

\* What th's step leaves of the answers: nobody gets one it did not have, and
\* only the other thread can still wait on another context.
MailLeft(th) ==
  /\ answers' \in Seq(Answer) /\ aside' \in Aside
  /\ aside'.on \in Thread => aside'.on = OtherOf(th) /\ Waits(OtherOf(th))
  /\ In(Mail(OtherOf(th))') \subseteq In(Mail(OtherOf(th)))
     \/ ~Waits(OtherOf(th))

LEMMA MailKept ==
  ASSUME MailInv, NEW th \in Thread, Advances(th), MailLeft(th), floor' = floor
  PROVE  MailInv'
<1> DEFINE o == OtherOf(th)
<1>1. o \in Thread /\ o # th /\ \A u \in Thread : u = th \/ u = o
  BY Threads
<1>2. /\ job'[o] = job[o] /\ job'[th].num = 0 /\ seen'[o] = seen[o]
      /\ o \in twice' <=> o \in twice
      /\ Sought(o)' = Sought(o)
      /\ Sought(th)' = {} \/ (Sought(th)' = Sought(th) /\ seen'[th] = seen[th])
  BY DEF Advances
<1> HIDE DEF o
<1>3. aside'.on \in Thread => Waits(aside.on)'
  BY <1>2 DEF MailLeft, Waits, o
<1>4. Fresh'
  <2> SUFFICES ASSUME NEW u \in Thread, floor' \in Sought(u)'
               PROVE  floor' \in seen'[u]
    BY DEF Fresh
  <2>1. CASE u = th
    BY <1>2, <2>1 DEF MailInv, Fresh
  <2>2. CASE u = o
    BY <1>2, <2>2 DEF MailInv, Fresh
  <2> QED BY <1>1, <2>1, <2>2
<1>5. Answered'
  <2> SUFFICES ASSUME NEW u \in Thread, Waits(u)', u \notin twice'
               PROVE  Honest(u, Mail(u))'
    BY DEF Answered
  <2>1. u = o /\ Waits(o)
    BY <1>1, <1>2 DEF Waits
  <2>2. In(Mail(o)') \subseteq In(Mail(o))
    BY <2>1 DEF MailLeft, o
  <2>3. Honest(o, Mail(o))
    BY <1>1, <1>2, <2>1 DEF MailInv, Answered
  <2>4. \A e \in In(Mail(o)') :
          e.num = job'[o].num /\ e.val \in Sought(o)' => e.val \in seen'[o]
    BY <1>2, <2>2, <2>3 DEF Honest
  <2> QED BY <2>1, <2>4 DEF Honest
<1> QED BY <1>3, <1>4, <1>5 DEF MailInv, MailLeft

LEMMA AsideOf ==
  ASSUME NEW a \in Aside
  PROVE  a.on \in Thread \union {"nobody"} /\ a.gone \in BOOLEAN /\ a.answers \in Seq(Answer)
  BY DEF Aside

LEMMA NobodyAside ==
  Nowhere \in Aside /\ Nowhere.on = "nobody" /\ "nobody" \notin Thread
  BY DEF Nowhere, Aside, Thread

LEMMA InTail ==
  ASSUME NEW s \in Seq(Answer), s # <<>>
  PROVE  /\ Head(s) \in In(s) /\ Head(s) \in Answer
         /\ Tail(s) \in Seq(Answer) /\ In(Tail(s)) \subseteq In(s)
<1>1. Head(s) = s[1] /\ 1 \in DOMAIN s /\ s[1] \in Answer /\ Tail(s) \in Seq(Answer)
  OBVIOUS
<1>2. ASSUME NEW k \in DOMAIN Tail(s) PROVE Tail(s)[k] \in In(s)
  <2>1. Tail(s)[k] = s[k + 1] /\ k + 1 \in DOMAIN s
    OBVIOUS
  <2> QED BY <2>1 DEF In
<1> QED BY <1>1, <1>2 DEF In

LEMMA MailTyped ==
  ASSUME MailInv, NEW th \in Thread
  PROVE  Mail(th) \in Seq(Answer)
  BY AsideOf DEF MailInv, Mail

\* A thread that waits no more.
LEMMA LeavesMail ==
  ASSUME MailInv, NEW th \in Thread, Waits(th), NEW rest, Leaves(th, rest),
         aside.on # th => rest \in Seq(Answer) /\ In(rest) \subseteq In(answers)
  PROVE  MailLeft(th)
<1>1. /\ OtherOf(th) \in Thread /\ OtherOf(th) # th
      /\ \A u \in Thread : u = th \/ u = OtherOf(th)
  BY Threads
<1>2. CASE aside.on = th
  <2>1. aside' = Nowhere /\ answers' = answers
    BY <1>2 DEF Leaves
  <2>2. Mail(OtherOf(th)) = answers /\ Mail(OtherOf(th))' = answers'
    BY <1>1, <1>2, <2>1, NobodyAside DEF Mail
  <2> QED BY <2>1, <2>2, NobodyAside DEF MailLeft, MailInv
<1>3. CASE aside.on # th
  <2>1. aside' = aside /\ answers' = rest
    BY <1>3 DEF Leaves
  <2>2. In(Mail(OtherOf(th))') \subseteq In(Mail(OtherOf(th)))
    BY <1>3, <2>1 DEF Mail
  <2> QED BY <1>1, <1>3, <2>1, <2>2 DEF MailLeft, MailInv
<1> QED BY <1>2, <1>3

\* An answer that th takes for its own has the storey of this reading.
LEMMA TakenIsFresh ==
  ASSUME MailInv, NEW th \in Thread, Waits(th), Mail(th) # <<>>, Mine(th, Head(Mail(th)))
  PROVE  /\ Head(Mail(th)).val \in 0..3
         /\ job[th].does = "read" => Head(Mail(th)).val \in 0..2
         /\ th \notin twice /\ Head(Mail(th)).val \in Sought(th) =>
              Head(Mail(th)).val \in seen[th]
<1>1. Head(Mail(th)) \in In(Mail(th)) /\ Head(Mail(th)) \in Answer
  BY MailTyped, InTail
<1>2. Head(Mail(th)).val \in 0..3
  BY <1>1 DEF Answer
<1>3. job[th].does = "read" => Head(Mail(th)).val \in 0..2
  BY <1>2 DEF Mine, Done
<1>4. th \notin twice => Honest(th, Mail(th))
  BY DEF MailInv, Answered
<1> QED BY <1>1, <1>2, <1>3, <1>4 DEF Honest, Mine

-----------------------------------------------------------------------------
(* Requests                                                                *)

LEMMA SendKeeps == ASSUME LInv, NEW th \in Thread, Send(th) PROVE LInv'
<1> USE DEF LInv
<1> DEFINE o == OtherOf(th)
           v == IF job[th].does = "read" THEN floor ELSE Done
<1>1. /\ job[th].does \in Request /\ ~Waits(th) /\ ctx = "ok"
      /\ cmd' = CASE job[th].does = "read"    -> cmd
                  [] job[th].does = "release" -> 0
                  [] job[th].does = "move"    -> order
      /\ UNCHANGED <<floor, ctx, aside, kept, seen, orders>>
  BY Zenon DEF Send
<1>2. PICK n \in 1..(Len(answers) + 2) :
        /\ \/ Unused(th, n) /\ UNCHANGED <<twice, faults>>
           \/ /\ n \in Used(th) /\ faults < MaxFaults
              /\ twice' = twice \union {th} /\ faults' = faults + 1
        /\ job' = [job EXCEPT ![th].num = n]
        /\ answers' = Append(answers, [num |-> n, val |-> v])
  BY Zenon DEF Send
<1> DEFINE e == [num |-> n, val |-> v]
<1>3. /\ o \in Thread /\ o # th /\ \A u \in Thread : u = th \/ u = o
  BY Threads
<1>4. n \in Nat /\ n # 0
  BY DEF MailInv
<1>5. /\ job \in [Thread -> JobType] /\ job' \in [Thread -> JobType]
      /\ job'[th].does = job[th].does /\ job'[th].num = n /\ job'[o] = job[o]
  BY <1>2, <1>3, <1>4 DEF JobInv, JobType
<1> HIDE DEF o
<1>6. PlcInv'
  BY <1>1 DEF PlcInv, HubInv, Request
<1>7. CtxInv' /\ twice' \subseteq Thread
  <2>1. CASE UNCHANGED <<twice, faults>>
    BY <1>1, <2>1 DEF CtxInv, JobInv
  <2>2. CASE faults < MaxFaults /\ twice' = twice \union {th} /\ faults' = faults + 1
    BY <1>1, <2>2, Bounds DEF CtxInv, JobInv
  <2> QED BY <1>2, <2>1, <2>2
<1>8. HubInv' /\ GoalInv' /\ OneArrivalEach'
  BY <1>1 DEF HubInv, GoalInv, OneArrivalEach, kept, timerVars
<1>9. /\ seen' = seen /\ floor' = floor /\ aside' = aside
      /\ \A u \in Thread : Sought(u)' = Sought(u)
      /\ \A u \in Thread, d \in Does : Fits(u, d)' = Fits(u, d)
  BY <1>1 DEF kept, timerVars, Sought, Fits
<1>10. JobInv'
  <2> SUFFICES ASSUME NEW u \in Thread
               PROVE  /\ Fits(u, job[u].does)'
                      /\ Waits(u)' => job'[u].does \in Request
    BY <1>5, <1>7, <1>9 DEF JobInv
  <2>1. job'[u].does \in Does /\ job'[u].does = job[u].does
    BY <1>3, <1>5 DEF JobType
  <2>2. Fits(u, job[u].does)'
    BY <1>9, <2>1 DEF JobInv
  <2>3. CASE u = th
    BY <1>1, <2>1, <2>2, <2>3
  <2>4. CASE u = o
    BY <1>5, <2>2, <2>4 DEF JobInv, Waits
  <2> QED BY <1>3, <2>3, <2>4
<1>11. e \in Answer /\ e.num = n
       /\ e.val = IF job[th].does = "read" THEN floor ELSE Done
  BY <1>4 DEF Answer, PlcInv, Done
<1>12. th # aside.on /\ (aside.on \in Thread => Waits(aside.on)')
  BY <1>1, <1>3, <1>5 DEF MailInv, Waits
<1>13. answers' \in Seq(Answer) /\ In(answers') \subseteq In(answers) \union {e}
  <2>1. answers \in Seq(Answer) /\ answers' = Append(answers, e)
    BY <1>2 DEF MailInv
  <2> HIDE DEF e
  <2>2. \A k \in DOMAIN answers' :
          \/ answers'[k] = e
          \/ k \in DOMAIN answers /\ answers'[k] = answers[k]
    BY <1>11, <2>1
  <2> QED BY <1>11, <2>1, <2>2 DEF In
<1> HIDE DEF e, v
<1>14. Fresh'
  BY <1>9 DEF MailInv, Fresh
<1>15. ASSUME NEW u \in Thread, e.val \in Sought(u)
       PROVE  e.val \in seen[u]
  <2>1. Sought(u) \subseteq 0..2
    BY DEF Sought, HubInv
  <2>2. e.val = floor
    BY <1>11, <1>15, <2>1 DEF Done
  <2> QED BY <1>15, <2>2 DEF MailInv, Fresh
<1>16. Answered'
  <2> SUFFICES ASSUME NEW u \in Thread, Waits(u)', u \notin twice',
                      NEW x \in In(Mail(u)'),
                      x.num = job'[u].num, x.val \in Sought(u)'
               PROVE  x.val \in seen'[u]
    BY DEF Answered, Honest
  <2>1. CASE x = e
    BY <1>9, <1>15, <2>1
  <2>2. CASE x # e /\ u = th
    <3>1. Mail(u)' = answers'
      BY <1>9, <1>12, <2>2 DEF Mail
    <3>2. x \in In(answers) /\ x.num = n
      BY <1>5, <1>13, <2>2, <3>1
    <3>3. n \in Used(th)
      BY <3>2 DEF Used, In
    <3> QED BY <1>2, <2>2, <3>3 DEF Unused
  <2>3. CASE x # e /\ u = o
    <3>1. x \in In(Mail(o))
      BY <1>9, <1>13, <2>3 DEF Mail
    <3>2. Waits(o) /\ o \notin twice /\ x.num = job[o].num
      BY <1>2, <1>5, <2>3 DEF Waits
    <3> QED BY <1>3, <1>9, <2>3, <3>1, <3>2 DEF MailInv, Answered, Honest
  <2> QED BY <1>3, <2>1, <2>2, <2>3
<1>17. MailInv'
  BY <1>9, <1>12, <1>13, <1>14, <1>16 DEF MailInv
<1> QED BY <1>6, <1>7, <1>8, <1>10, <1>17

LEMMA ReceiveKeeps == ASSUME LInv, NEW th \in Thread, Receive(th) PROVE LInv'
<1> USE DEF LInv
<1>1. /\ Waits(th) /\ Mail(th) # <<>>
      /\ Leaves(th, Tail(Mail(th)))
      /\ UNCHANGED <<floor, cmd, ctx, orders>>
  BY Zenon DEF Receive
<1>2. job[th].does \in Request
  BY <1>1 DEF JobInv
<1>3. aside.on # th => /\ Tail(Mail(th)) \in Seq(Answer)
                       /\ In(Tail(Mail(th))) \subseteq In(answers)
  BY <1>1, InTail DEF MailInv, Mail
<1>4. MailLeft(th)
  BY <1>1, <1>3, LeavesMail
<1>5. PlcInv'
  BY <1>1 DEF PlcInv
<1>6. CASE /\ Mine(th, Head(Mail(th)))
           /\ Succeeds(th, Head(Mail(th)).val)
           /\ UNCHANGED faults
  <2>1. /\ Head(Mail(th)).val \in 0..3
        /\ job[th].does = "read" => Head(Mail(th)).val \in 0..2
    BY <1>1, <1>6, TakenIsFresh
  <2>2. Advances(th)
    BY <1>2, <1>6, <2>1, SucceedsAdvances
  <2>3. MailInv'
    BY <1>1, <1>4, <2>2, MailKept
  <2>4. CtxInv'
    BY <1>1, <1>6 DEF CtxInv
  <2> QED BY <1>5, <2>2, <2>3, <2>4 DEF Advances
<1>7. CASE Fails(th, faults)
  <2>1. Advances(th) /\ faults' = faults
    BY <1>2, <1>7, FailsAdvances
  <2>2. MailInv'
    BY <1>1, <1>4, <2>1, MailKept
  <2>3. CtxInv'
    BY <1>1, <2>1 DEF CtxInv
  <2> QED BY <1>5, <2>1, <2>2, <2>3 DEF Advances
<1> QED BY <1>6, <1>7, Zenon DEF Receive

\* A request fails, and the other thread can read what is left.
LEMMA FailingKeeps ==
  ASSUME LInv, NEW th \in Thread, job[th].does \in Request,
         NEW f \in 0..MaxFaults, Fails(th, f), MailLeft(th),
         UNCHANGED <<floor, cmd, ctx, orders>>
  PROVE  LInv'
<1> USE DEF LInv
<1>1. Advances(th) /\ faults' = f
  BY FailsAdvances
<1>2. MailInv'
  BY <1>1, MailKept
<1>3. CtxInv' /\ PlcInv'
  BY <1>1 DEF CtxInv, PlcInv
<1> QED BY <1>1, <1>2, <1>3 DEF Advances

LEMMA TimesOutKeeps == ASSUME LInv, NEW th \in Thread, TimesOut(th) PROVE LInv'
<1> USE DEF LInv
<1>1. Waits(th) /\ UNCHANGED <<floor, cmd, ctx, orders>>
  BY Zenon DEF TimesOut
<1>2. job[th].does \in Request
  BY <1>1 DEF JobInv
<1>3. answers \in Seq(Answer) /\ faults \in 0..MaxFaults
  BY DEF MailInv, CtxInv
<1>4. CASE Fails(th, faults) /\ Leaves(th, <<>>)
  <2>1. <<>> \in Seq(Answer) /\ In(<<>>) \subseteq In(answers)
    BY DEF In
  <2>2. MailLeft(th)
    BY <1>1, <1>4, <2>1, LeavesMail
  <2> QED BY <1>1, <1>2, <1>3, <1>4, <2>2, FailingKeeps
<1>5. ASSUME faults < MaxFaults, Fails(th, faults + 1), MailLeft(th) PROVE LInv'
  <2>1. faults + 1 \in 0..MaxFaults
    BY <1>3, <1>5, Bounds
  <2> QED BY <1>1, <1>2, <1>5, <2>1, FailingKeeps
<1>6. CASE faults < MaxFaults /\ Fails(th, faults + 1) /\ Leaves(th, Mail(th))
  <2>1. aside.on # th => Mail(th) \in Seq(Answer) /\ In(Mail(th)) \subseteq In(answers)
    BY <1>3 DEF Mail
  <2>2. MailLeft(th)
    BY <1>1, <1>6, <2>1, LeavesMail
  <2> QED BY <1>5, <1>6, <2>2
<1>7. CASE /\ faults < MaxFaults /\ Fails(th, faults + 1)
           /\ answers # <<>> /\ Leaves(th, Tail(answers))
  <2>1. Tail(answers) \in Seq(Answer) /\ In(Tail(answers)) \subseteq In(answers)
    BY <1>3, <1>7, InTail
  <2>2. MailLeft(th)
    BY <1>1, <1>7, <2>1, LeavesMail
  <2> QED BY <1>5, <1>7, <2>2
<1> QED BY <1>4, <1>6, <1>7, Zenon DEF TimesOut

LEMMA ConnectsTyped ==
  ASSUME CtxInv, Connects(faults) PROVE CtxInv'
  BY Bounds DEF CtxInv, Connects

LEMMA CrashKeeps == ASSUME LInv, Crash PROVE LInv'
<1> USE DEF LInv
<1>1. /\ NoJob \in JobType /\ NoJob.does = "nothing" /\ NoJob.num = 0
  BY JobOf DEF Does
<1>2. /\ job' = [th \in Thread |-> NoJob] /\ seen' = [th \in Thread |-> {}]
      /\ twice' = {} /\ answers' = <<>> /\ aside' = Nowhere
      /\ main' = "idle" /\ timer' = "waits" /\ storey' = 0 /\ status' = 0
      /\ goal_lift1' = 0 /\ order' = 0 /\ reply' = 0
      /\ event_lift1' = FALSE /\ arrivals' = 0 /\ spare' = 0
      /\ UNCHANGED <<floor, cmd, orders>>
  BY DEF Crash
<1>3. PlcInv' /\ CtxInv'
  BY <1>2, ConnectsTyped DEF PlcInv, Crash
<1>4. HubInv'
  <2>1. event_lift1' \in BOOLEAN
    BY <1>2, Zenon
  <2>2. 0 \in Reply
    BY SMT DEF Reply
  <2>3. arrivals' \in Nat /\ spare' \in Int /\ reply' \in Reply
    BY <1>2, <2>2
  <2>4. /\ main' \in {"idle", "ready", "go"} /\ timer' \in {"waits", "sleeps", "reads"}
        /\ storey' \in 0..2 /\ status' \in 0..2 /\ goal_lift1' \in 0..2
        /\ order' \in {0, 100, 101}
    BY <1>2
  <2> QED BY <2>1, <2>3, <2>4 DEF HubInv
<1>5. GoalInv' /\ OneArrivalEach'
  BY <1>2 DEF GoalInv, OneArrivalEach
<1>6. \A th \in Thread : job'[th] = NoJob /\ seen'[th] = {} /\ Sought(th)' = {}
  BY <1>2 DEF Sought, Thread
<1>7. JobInv'
  <2>1. \A th \in Thread : Fits(th, job[th].does)' /\ ~Waits(th)'
    BY <1>1, <1>2, <1>6 DEF Fits, Waits, Thread
  <2> QED BY <1>1, <1>2, <2>1 DEF JobInv
<1>8. MailInv'
  <2>1. \A th \in Thread : ~Waits(th)'
    BY <1>1, <1>6 DEF Waits
  <2> QED BY <1>2, <1>6, <2>1, NobodyAside DEF MailInv, Fresh, Answered
<1> QED BY <1>3, <1>4, <1>5, <1>7, <1>8

LEMMA UsesFreedKeeps == ASSUME LInv, NEW th \in Thread, UsesFreed(th) PROVE LInv'
<1> USE DEF LInv
<1>1. CASE Crash
  BY <1>1, CrashKeeps
<1>2. CASE /\ job[th].does \in Request /\ ~Waits(th)
           /\ Fails(th, faults)
           /\ UNCHANGED <<floor, cmd, ctxVars, orders>>
  <2>1. UNCHANGED <<floor, cmd, ctx, answers, aside, orders>>
    BY <1>2 DEF ctxVars, mailVars
  <2>2. MailLeft(th)
    <3>1. aside.on # th /\ \A u \in Thread : u = th \/ u = OtherOf(th)
      BY <1>2, Threads DEF MailInv
    <3>2. Mail(OtherOf(th))' = Mail(OtherOf(th))
      BY <2>1 DEF Mail
    <3> QED BY <2>1, <3>1, <3>2 DEF MailLeft, MailInv
  <2>3. faults \in 0..MaxFaults
    BY DEF CtxInv
  <2> QED BY <1>2, <2>1, <2>2, <2>3, FailingKeeps
<1> QED BY <1>1, <1>2, Zenon DEF UsesFreed

LEMMA DisconnectKeeps == ASSUME LInv, NEW th \in Thread, Disconnect(th) PROVE LInv'
<1> USE DEF LInv
<1>1. CASE Crash
  BY <1>1, CrashKeeps
<1>2. CASE ~Crash
  <2> DEFINE o == OtherOf(th)
             a == [Nowhere EXCEPT !.on = o, !.gone = TRUE]
  <2>1. /\ job[th].does = "disconnect"
        /\ ctx' = "freed" /\ answers' = <<>>
        /\ aside' = IF Waits(o) /\ aside.on = "nobody" THEN a ELSE aside
        /\ job' = [job EXCEPT ![th] = Job("connect")]
        /\ UNCHANGED <<kept, seen, twice, floor, cmd, orders, faults>>
    BY <1>2, Zenon DEF Disconnect, stays
  <2>2. o \in Thread /\ o # th /\ \A u \in Thread : u = th \/ u = o
    BY Threads
  <2>3. a \in Aside /\ a.on = o /\ a.answers = <<>>
    <3>1. Nowhere \in Aside /\ Nowhere.answers = <<>>
      BY NobodyAside DEF Nowhere
    <3>2. a \in Aside /\ a.on = o /\ a.answers = Nowhere.answers
      BY <2>2, <3>1 DEF Aside
    <3> QED BY <3>1, <3>2
  <2> HIDE DEF a
  <2>4. ~Waits(th) /\ Fits(th, "disconnect")
    BY <2>1 DEF JobInv, Request
  <2>5. Advances(th)
    <3>1. /\ Job("connect") \in JobType /\ Job("connect").does = "connect"
          /\ Job("connect").num = 0
      BY JobOf DEF Does
    <3>2. Fits(th, "connect")
      BY <2>4, FirstFits DEF Does
    <3> QED BY <2>1, <3>1, <3>2, GoesOn
  <2>6. MailLeft(th)
    <3>1. <<>> \in Seq(Answer) /\ In(<<>>) = {}
      BY DEF In
    <3>2. CASE Waits(o) /\ aside.on = "nobody"
      <4>1. aside' = a
        BY <2>1, <3>2
      <4>2. Mail(o)' = <<>>
        BY <2>3, <4>1 DEF Mail
      <4> QED BY <2>1, <2>3, <3>1, <3>2, <4>1, <4>2 DEF MailLeft
    <3>3. CASE ~(Waits(o) /\ aside.on = "nobody")
      <4>1. aside' = aside /\ answers' = <<>>
        BY <2>1, <3>3
      <4>2. aside.on \in Thread => aside.on = o /\ Waits(o)
        BY <2>2, <2>4 DEF MailInv
      <4>3. aside \in Aside /\ aside.on \in Thread \union {"nobody"}
        BY AsideOf DEF MailInv
      <4>4. Waits(o) => aside.on = o
        BY <3>3, <4>2, <4>3
      <4>5. Waits(o) => Mail(o)' = Mail(o)
        BY <4>1, <4>4 DEF Mail
      <4> QED BY <3>1, <4>1, <4>2, <4>3, <4>5 DEF MailLeft
    <3> QED BY <3>2, <3>3
  <2>7. MailInv'
    BY <2>1, <2>5, <2>6, MailKept
  <2>8. PlcInv' /\ CtxInv'
    BY <2>1 DEF PlcInv, CtxInv
  <2> QED BY <2>5, <2>7, <2>8 DEF Advances
<1> QED BY <1>1, <1>2

LEMMA ConnectKeeps == ASSUME LInv, NEW th \in Thread, Connect(th) PROVE LInv'
<1> USE DEF LInv
<1> DEFINE o == OtherOf(th)
           a == [on |-> o, gone |-> FALSE, answers |-> answers]
           j == [Job(First(th)) EXCEPT !.again = TRUE]
<1>1. /\ job[th].does = "connect" /\ Connects(faults) /\ answers' = <<>>
      /\ aside' = IF Waits(o) /\ aside.on = "nobody" THEN a ELSE aside
      /\ job' = [job EXCEPT ![th] = j]
      /\ UNCHANGED <<kept, seen, twice, floor, cmd, orders>>
  BY Zenon DEF Connect, stays
<1>2. o \in Thread /\ o # th /\ \A u \in Thread : u = th \/ u = o
  BY Threads
<1>3. a \in Aside /\ a.on = o /\ a.answers = answers
  BY <1>2 DEF Aside, MailInv
<1> HIDE DEF a
<1>4. ~Waits(th) /\ Fits(th, "connect")
  BY <1>1 DEF JobInv, Request
<1>5. Advances(th)
  <2>1. First(th) \in Does /\ Fits(th, First(th))
    BY <1>4, FirstFits DEF Does
  <2>2. j \in JobType /\ j.does = First(th) /\ j.num = 0
    BY <2>1, JobOf
  <2> HIDE DEF j
  <2> QED BY <1>1, <2>1, <2>2, GoesOn
<1>6. MailLeft(th)
  <2>1. <<>> \in Seq(Answer) /\ In(<<>>) = {}
    BY DEF In
  <2>2. aside \in Aside /\ aside.on \in Thread \union {"nobody"}
    BY AsideOf DEF MailInv
  <2>3. CASE Waits(o) /\ aside.on = "nobody"
    <3>1. aside' = a
      BY <1>1, <2>3
    <3>2. Mail(o)' = answers /\ Mail(o) = answers
      BY <1>2, <1>3, <2>3, <3>1, NobodyAside DEF Mail
    <3> QED BY <1>1, <1>3, <2>1, <2>3, <3>1, <3>2 DEF MailLeft
  <2>4. CASE ~(Waits(o) /\ aside.on = "nobody")
    <3>1. aside' = aside /\ answers' = <<>>
      BY <1>1, <2>4
    <3>2. aside.on \in Thread => aside.on = o /\ Waits(o)
      BY <1>2, <1>4 DEF MailInv
    <3>3. Waits(o) => aside.on = o
      BY <2>2, <2>4, <3>2
    <3>4. Waits(o) => Mail(o)' = Mail(o)
      BY <3>1, <3>3 DEF Mail
    <3> QED BY <2>1, <2>2, <3>1, <3>2, <3>4 DEF MailLeft
  <2> QED BY <2>3, <2>4
<1>7. MailInv'
  BY <1>1, <1>5, <1>6, MailKept
<1>8. PlcInv' /\ CtxInv'
  BY <1>1, ConnectsTyped DEF PlcInv
<1> QED BY <1>5, <1>7, <1>8 DEF Advances

-----------------------------------------------------------------------------
(* The lift, the dispatcher and the timer                                  *)

LEMMA MovesKeeps == ASSUME LInv, Moves PROVE LInv'
<1> USE DEF LInv
<1>1. /\ floor' \in 0..2
      /\ UNCHANGED <<cmd, hubVars, twice, orders, faults>>
      /\ seen' = [th \in Thread |-> seen[th] \union ({floor'} \intersect Sought(th))]
  BY DEF Moves
<1>2. /\ UNCHANGED <<cmd, ctx, answers, aside, job, main, storey, order, twice,
                     timer, status, goal_lift1, event_lift1, arrivals, reply,
                     spare, orders, faults>>
  BY <1>1 DEF hubVars, ctxVars, mailVars
<1>3. /\ seen' \in [Thread -> SUBSET (0..2)]
      /\ \A th \in Thread : seen[th] \subseteq seen'[th]
      /\ \A th \in Thread : floor' \in Sought(th) => floor' \in seen'[th]
  BY <1>1 DEF JobInv
<1>4. PlcInv' /\ CtxInv' /\ HubInv' /\ GoalInv' /\ OneArrivalEach'
  BY <1>1, <1>2 DEF PlcInv, CtxInv, HubInv, GoalInv, OneArrivalEach
<1>5. \A th \in Thread : Sought(th)' = Sought(th) /\ Mail(th)' = Mail(th)
  BY <1>2 DEF Sought, Mail
<1>6. JobInv'
  BY <1>2, <1>3 DEF JobInv, Fits, Waits
<1>7. MailInv'
  <2>1. Fresh'
    BY <1>3, <1>5 DEF Fresh
  <2>2. Answered'
    BY <1>2, <1>3, <1>5 DEF MailInv, Answered, Honest, Waits
  <2> QED BY <1>2, <2>1, <2>2 DEF MailInv, Waits
<1> QED BY <1>4, <1>6, <1>7

\* A macro begins in a thread that was in none.
LEMMA Begins ==
  ASSUME MailInv, JobInv, NEW th \in Thread, job[th].does = "nothing",
         NEW d \in Does, job' = [job EXCEPT ![th] = Job(d)],
         Sought(OtherOf(th))' = Sought(OtherOf(th)),
         \/ Sought(th)' = {} /\ UNCHANGED <<seen, twice>>
         \/ /\ seen' = [seen EXCEPT ![th] = {floor} \intersect Sought(th)']
            /\ twice' = twice \ {th},
         floor \in 0..2, UNCHANGED <<floor, answers, aside>>
  PROVE  /\ job' \in [Thread -> JobType] /\ job'[th].does = d /\ job'[th].num = 0
         /\ job'[OtherOf(th)] = job[OtherOf(th)]
         /\ seen' \in [Thread -> SUBSET (0..2)] /\ twice' \subseteq Thread
         /\ MailInv'
<1>1. Job(d) \in JobType /\ Job(d).does = d /\ Job(d).num = 0
  BY JobOf
<1>2. /\ OtherOf(th) \in Thread /\ OtherOf(th) # th
      /\ \A u \in Thread : u = th \/ u = OtherOf(th)
  BY Threads
<1>3. /\ job' \in [Thread -> JobType] /\ job'[th] = Job(d)
      /\ job'[OtherOf(th)] = job[OtherOf(th)]
  BY <1>1, <1>2 DEF JobInv
<1>4. /\ seen' \in [Thread -> SUBSET (0..2)]
      /\ seen'[OtherOf(th)] = seen[OtherOf(th)]
      /\ twice' \subseteq Thread /\ (OtherOf(th) \in twice' <=> OtherOf(th) \in twice)
      /\ floor \in Sought(th)' => floor \in seen'[th]
  BY <1>2 DEF JobInv
<1>5. ~Waits(th) /\ aside.on # th
  BY DEF JobInv, Request, MailInv
<1>6. Fresh'
  BY <1>2, <1>4 DEF MailInv, Fresh
<1>7. \A u \in Thread : Mail(u)' = Mail(u)
  BY DEF Mail
<1>8. Answered'
  <2> SUFFICES ASSUME NEW u \in Thread, Waits(u)', u \notin twice'
               PROVE  Honest(u, Mail(u))'
    BY DEF Answered
  <2>1. u = OtherOf(th) /\ Waits(u)
    BY <1>1, <1>2, <1>3 DEF Waits
  <2>2. Honest(u, Mail(u))
    BY <1>4, <2>1 DEF MailInv, Answered
  <2> QED BY <1>3, <1>4, <1>7, <2>1, <2>2 DEF Honest
<1>9. aside'.on \in Thread => Waits(aside.on)'
  BY <1>2, <1>3, <1>5 DEF MailInv, Waits
<1> QED BY <1>1, <1>3, <1>4, <1>6, <1>8, <1>9 DEF MailInv

LEMMA QueryKeeps == ASSUME LInv, NEW s \in 0..2, Query(s) PROVE LInv'
<1> USE DEF LInv
<1>1. /\ main = "idle" /\ main' = "ready" /\ storey' = s
      /\ orders < MaxOrders /\ orders' = orders + 1 /\ reply' = 0
      /\ job' = [job EXCEPT !["main"] = Job("read")]
      /\ seen' = [seen EXCEPT !["main"] = {floor} \intersect {s}]
      /\ twice' = twice \ {"main"}
      /\ UNCHANGED <<floor, cmd, ctx, answers, aside, order, timer, status,
                     goal_lift1, event_lift1, arrivals, spare, faults>>
  BY DEF Query, BeginReading, ctxVars, mailVars
<1>2. job["main"].does = "nothing" /\ floor \in 0..2
  BY <1>1 DEF JobInv, PlcInv, Thread, Fits
<1>3. order = 0
  BY <1>1 DEF JobInv, Thread, Fits
<1>4. Sought("main")' = {s} /\ Sought("timer")' = Sought("timer")
  BY <1>1, <1>3 DEF Sought
<1>5. /\ job' \in [Thread -> JobType] /\ job'["main"].does = "read"
      /\ job'["main"].num = 0 /\ job'["timer"] = job["timer"]
      /\ seen' \in [Thread -> SUBSET (0..2)] /\ twice' \subseteq Thread /\ MailInv'
  <2>1. "main" \in Thread /\ "read" \in Does /\ OtherOf("main") = "timer"
    BY DEF Thread, Does, OtherOf
  <2> QED BY <1>1, <1>2, <1>4, <2>1, Begins
<1>6. PlcInv' /\ CtxInv'
  BY <1>1, Bounds DEF PlcInv, CtxInv
<1>7. HubInv' /\ GoalInv' /\ OneArrivalEach'
  <2>1. 0 \in Reply
    BY SMT DEF Reply
  <2> QED BY <1>1, <2>1 DEF HubInv, GoalInv, OneArrivalEach
<1>8. JobInv'
  BY <1>1, <1>3, <1>5 DEF JobInv, Thread, Fits, Reading, Waits
<1> QED BY <1>5, <1>6, <1>7, <1>8

LEMMA GoKeeps == ASSUME LInv, NEW s \in 0..2, Go(s) PROVE LInv'
<1> USE DEF LInv
<1>1. /\ main = "idle"
      /\ UNCHANGED <<floor, cmd, ctx, answers, aside, storey, timer, status,
                     event_lift1, arrivals, seen, twice, spare, faults>>
  BY DEF Go, ctxVars, mailVars
<1>2. CASE s = 0
  <2>1. UNCHANGED <<main, order, goal_lift1, job, reply, orders>>
    BY <1>2 DEF Go
  <2>2. \A th \in Thread : Sought(th)' = Sought(th) /\ Mail(th)' = Mail(th)
    BY <1>1, <2>1 DEF Sought, Mail
  <2>3. PlcInv' /\ CtxInv' /\ HubInv' /\ GoalInv' /\ OneArrivalEach' /\ JobInv'
    BY <1>1, <2>1 DEF PlcInv, CtxInv, HubInv, GoalInv, OneArrivalEach, JobInv,
                      Fits, Waits
  <2>4. MailInv'
    BY <1>1, <2>1, <2>2 DEF MailInv, Fresh, Answered, Honest, Waits
  <2> QED BY <2>3, <2>4
<1>3. CASE s # 0
  <2>1. /\ orders < MaxOrders /\ orders' = orders + 1
        /\ main' = "go" /\ reply' = 0 /\ goal_lift1' = 3 - s
        /\ order' = IF s = 1 THEN 100 ELSE 101
        /\ job' = [job EXCEPT !["main"] = Job("release")]
    BY <1>3 DEF Go
  <2>2. job["main"].does = "nothing" /\ floor \in 0..2
    BY <1>1 DEF JobInv, PlcInv, Thread, Fits
  <2>3. Sought("main")' = {} /\ Sought("timer")' = Sought("timer")
    BY <1>1, <2>1 DEF Sought
  <2>4. /\ job' \in [Thread -> JobType] /\ job'["main"].does = "release"
        /\ job'["main"].num = 0 /\ job'["timer"] = job["timer"]
        /\ seen' \in [Thread -> SUBSET (0..2)] /\ twice' \subseteq Thread /\ MailInv'
    <3>1. "main" \in Thread /\ "release" \in Does /\ OtherOf("main") = "timer"
      BY DEF Thread, Does, OtherOf
    <3> QED BY <1>1, <2>1, <2>2, <2>3, <3>1, Begins
  <2>5. PlcInv' /\ CtxInv'
    BY <1>1, <2>1, Bounds DEF PlcInv, CtxInv
  <2>6. HubInv' /\ GoalInv' /\ OneArrivalEach'
    <3>1. 0 \in Reply
      BY SMT DEF Reply
    <3> QED BY <1>1, <1>3, <2>1, <3>1 DEF HubInv, GoalInv, OneArrivalEach
  <2>7. JobInv'
    BY <1>1, <2>1, <2>4 DEF JobInv, Thread, Fits, Ordering, Waits
  <2> QED BY <2>4, <2>5, <2>6, <2>7
<1> QED BY <1>2, <1>3

LEMMA PollsKeeps == ASSUME LInv, Polls PROVE LInv'
<1> USE DEF LInv
<1>1. /\ timer = "sleeps" /\ timer' = "reads"
      /\ job' = [job EXCEPT !["timer"] = Job("read")]
      /\ seen' = [seen EXCEPT !["timer"] = {floor} \intersect {1, 2}]
      /\ twice' = twice \ {"timer"}
      /\ UNCHANGED <<floor, cmd, ctx, answers, aside, main, storey, order,
                     status, goal_lift1, event_lift1, arrivals, reply, spare,
                     orders, faults>>
  BY DEF Polls, BeginReading, ctxVars, mailVars
<1>2. job["timer"].does = "nothing" /\ floor \in 0..2
  BY <1>1 DEF JobInv, PlcInv, Thread, Fits
<1>3. Sought("timer")' = {1, 2} /\ Sought("main")' = Sought("main")
  BY <1>1 DEF Sought
<1>4. /\ job' \in [Thread -> JobType] /\ job'["timer"].does = "read"
      /\ job'["timer"].num = 0 /\ job'["main"] = job["main"]
      /\ seen' \in [Thread -> SUBSET (0..2)] /\ twice' \subseteq Thread /\ MailInv'
  <2>1. "timer" \in Thread /\ "read" \in Does /\ OtherOf("timer") = "main"
    BY DEF Thread, Does, OtherOf
  <2> QED BY <1>1, <1>2, <1>3, <2>1, Begins
<1>5. PlcInv' /\ CtxInv' /\ HubInv' /\ GoalInv' /\ OneArrivalEach'
  BY <1>1 DEF PlcInv, CtxInv, HubInv, GoalInv, OneArrivalEach
<1>6. JobInv'
  BY <1>1, <1>4 DEF JobInv, Thread, Fits, Reading, Waits
<1> QED BY <1>4, <1>5, <1>6

LEMMA RestKeeps == ASSUME LInv, Arrived \/ Wakes \/ UNCHANGED vars PROVE LInv'
<1> USE DEF LInv
<1>1. UNCHANGED <<floor, cmd, ctx, answers, aside, job, main, storey, order,
                  status, goal_lift1, seen, twice, spare, orders, faults>>
  BY DEF Arrived, Wakes, vars, hubVars, ctxVars, mailVars
<1>2. HubInv' /\ OneArrivalEach'
  <2>1. CASE Arrived
    <3>1. /\ timer' = timer /\ event_lift1' = event_lift1
          /\ arrivals > 0 /\ arrivals' = arrivals - 1
      BY <2>1 DEF Arrived
    <3>2. reply' \in Reply
      BY <2>1, SMT DEF Arrived, Reply
    <3> QED BY <1>1, <3>1, <3>2 DEF HubInv, OneArrivalEach
  <2>2. CASE Wakes
    <3>1. HubInv'
      BY <1>1, <2>2 DEF Wakes, HubInv
    <3>2. OneArrivalEach'
      BY <2>2 DEF Wakes, HubInv, OneArrivalEach
    <3> QED BY <3>1, <3>2
  <2>3. CASE UNCHANGED vars
    BY <2>3 DEF vars, hubVars, HubInv, OneArrivalEach
  <2> QED BY <2>1, <2>2, <2>3
<1>3. GoalInv' /\ (timer' = "reads" <=> timer = "reads")
  <2>1. CASE Arrived
    BY <2>1 DEF Arrived, GoalInv
  <2>2. CASE Wakes
    BY <2>2 DEF Wakes, GoalInv
  <2>3. CASE UNCHANGED vars
    BY <2>3 DEF vars, hubVars, GoalInv
  <2> QED BY <2>1, <2>2, <2>3
<1>4. PlcInv' /\ CtxInv'
  BY <1>1 DEF PlcInv, CtxInv
<1>5. \A th \in Thread : Sought(th)' = Sought(th) /\ Mail(th)' = Mail(th)
  BY <1>1, <1>3 DEF Sought, Mail
<1>6. JobInv'
  BY <1>1, <1>3 DEF JobInv, Fits, Waits
<1>7. MailInv'
  BY <1>1, <1>5 DEF MailInv, Fresh, Answered, Honest, Waits
<1> QED BY <1>2, <1>3, <1>4, <1>6, <1>7

LEMMA LiftStarts == Init => LInv
<1> SUFFICES ASSUME Init PROVE LInv
  OBVIOUS
<1> USE DEF Init
<1>1. NoJob \in JobType /\ NoJob.does = "nothing" /\ NoJob.num = 0
  BY JobOf DEF Does
<1>2. \A th \in Thread : job[th] = NoJob /\ seen[th] = {} /\ Sought(th) = {}
  BY DEF Sought
<1>3. PlcInv /\ CtxInv
  <2>1. faults \in 0..MaxFaults
    BY Bounds
  <2> QED BY <2>1, Bounds DEF PlcInv, CtxInv
<1>4. HubInv
  <2>1. 0 \in Reply
    BY SMT DEF Reply
  <2>2. event_lift1 \in BOOLEAN
    BY Zenon
  <2> QED BY <2>1, <2>2 DEF HubInv
<1>5. OneArrivalEach /\ GoalInv
  BY DEF OneArrivalEach, GoalInv
<1>6. JobInv
  BY <1>1, <1>2 DEF JobInv, Thread, Fits, Waits
<1>7. MailInv
  <2>1. \A th \in Thread : ~Waits(th)
    BY <1>1, <1>2 DEF Waits
  <2> QED BY <1>2, <2>1, NobodyAside DEF MailInv, Fresh, Answered
<1> QED BY <1>3, <1>4, <1>5, <1>6, <1>7 DEF LInv

LEMMA LiftStep == LInv /\ [Next]_vars => LInv'
<1> SUFFICES ASSUME LInv, [Next]_vars PROVE LInv'
  OBVIOUS
<1>1. CASE Moves
  BY <1>1, MovesKeeps
<1>2. CASE \E s \in 0..2 : Query(s) \/ Go(s)
  BY <1>2, QueryKeeps, GoKeeps
<1>3. CASE Arrived \/ Wakes \/ UNCHANGED vars
  BY <1>3, RestKeeps
<1>4. CASE Polls
  BY <1>4, PollsKeeps
<1>5. CASE \E th \in Thread : Steps(th)
  BY <1>5, SendKeeps, UsesFreedKeeps, ReceiveKeeps, TimesOutKeeps,
     DisconnectKeeps, ConnectKeeps DEF Steps
<1> QED BY <1>1, <1>2, <1>3, <1>4, <1>5 DEF Next

-----------------------------------------------------------------------------
(* What is told                                                            *)

\* A macro that fails tells nothing of the storey.
LEMMA FailsTells ==
  ASSUME LInv, NEW th \in Thread, job[th].does \in Request, NEW f, Fails(th, f)
  PROVE  /\ main = "ready" /\ main' = "idle" => reply' # 657190
         /\ arrivals' > arrivals => job["timer"].again /\ goal_lift1 = status
<1>1. arrivals \in Nat
  BY DEF LInv, HubInv
<1>2. CASE UNCHANGED kept
  BY <1>1, <1>2, SMT DEF kept, timerVars
<1>3. CASE job[th].again /\ job[th].does # "release" /\ GivesUp(th)
  <2>1. CASE job[th].does = "read" /\ th = "main"
    <3>1. Tell(657191)
      BY <1>3, <2>1, SMT DEF GivesUp
    <3> QED BY <1>1, <3>1, SMT DEF Tell, timerVars
  <2>2. CASE job[th].does = "read" /\ th = "timer"
    <3>1. Compare(status)
      BY <1>3, <2>2, SMT DEF GivesUp
    <3> QED BY <1>1, <1>3, <2>2, <3>1, SMT DEF Compare
  <2>3. CASE job[th].does = "move" /\ main = "ready"
    <3>1. Tell(657191)
      BY <1>3, <2>3, SMT DEF GivesUp, Ordered
    <3> QED BY <1>1, <3>1, SMT DEF Tell, timerVars
  <2>4. CASE job[th].does = "move" /\ main # "ready"
    <3>1. arrivals' = arrivals
      BY <1>3, <2>4, SMT DEF GivesUp, Ordered, timerVars
    <3> QED BY <1>1, <2>4, <3>1, SMT
  <2> QED BY <1>1, <1>3, <2>1, <2>2, <2>3, <2>4, SMT DEF Thread, Request
<1> QED BY <1>2, <1>3, SMT DEF Fails, stays

LEMMA SucceedsTells ==
  ASSUME LInv, NEW th \in Thread, job[th].does \in Request, NEW v \in 0..3,
         th \notin twice /\ v \in Sought(th) => v \in seen[th], Succeeds(th, v)
  PROVE  /\ main = "ready" /\ main' = "idle" /\ reply' = 657190 =>
              storey \in seen["main"] \/ "main" \in twice
         /\ arrivals' > arrivals =>
              goal_lift1 \in seen["timer"] \/ "timer" \in twice
<1>1. arrivals \in Nat /\ Fits(th, job[th].does)
  BY DEF LInv, HubInv, JobInv
<1>2. CASE job[th].does = "read" /\ th = "main"
  <2>1. Placed(v) /\ Sought("main") = {storey}
    BY <1>1, <1>2, SMT DEF Succeeds, Fits, Ordering, Sought
  <2>2. CASE v = storey
    <3>1. Tell(657190)
      BY <2>1, <2>2, SMT DEF Placed
    <3>2. storey \in seen["main"] \/ "main" \in twice
      BY <1>2, <2>1, <2>2
    <3> QED BY <1>1, <3>1, <3>2, SMT DEF Tell, timerVars
  <2>3. CASE v # storey /\ v = 0
    <3>1. Tell(657191)
      BY <2>1, <2>3, SMT DEF Placed
    <3> QED BY <1>1, <3>1, SMT DEF Tell, timerVars
  <2>4. CASE v # storey /\ v # 0
    BY <1>1, <2>1, <2>4, SMT DEF Placed, timerVars
  <2> QED BY <2>2, <2>3, <2>4, SMT
<1>3. CASE job[th].does = "read" /\ th = "timer"
  <2>1. Compare(v) /\ timer = "reads"
    BY <1>1, <1>3, SMT DEF Succeeds, Fits
  <2>2. goal_lift1 \in {1, 2} /\ Sought("timer") = {1, 2}
    BY <2>1 DEF LInv, GoalInv, HubInv, Sought
  <2>3. CASE goal_lift1 = v
    <3>1. goal_lift1 \in seen["timer"] \/ "timer" \in twice
      BY <1>3, <2>2, <2>3
    <3>2. main' = main
      BY <2>1 DEF Compare
    <3> QED BY <3>1, <3>2, SMT
  <2>4. CASE goal_lift1 # v
    BY <1>1, <2>1, <2>4, SMT DEF Compare
  <2> QED BY <2>3, <2>4
<1>4. CASE job[th].does = "release"
  BY <1>1, <1>4, SMT DEF Succeeds, stays, kept, timerVars
<1>5. CASE job[th].does = "move" /\ main = "ready"
  <2>1. Tell(657191)
    BY <1>5, SMT DEF Succeeds, Ordered
  <2> QED BY <1>1, <2>1, SMT DEF Tell, timerVars
<1>6. CASE job[th].does = "move" /\ main # "ready"
  <2>1. arrivals' = arrivals
    BY <1>6, SMT DEF Succeeds, Ordered, timerVars
  <2> QED BY <1>1, <1>6, <2>1, SMT
<1> QED BY <1>1, <1>2, <1>3, <1>4, <1>5, <1>6, SMT DEF Thread, Request

Told ==
  /\ main = "ready" /\ main' = "idle" /\ reply' = 657190 =>
       storey \in seen["main"] \/ "main" \in twice
  /\ arrivals' > arrivals =>
       \/ goal_lift1 \in seen["timer"]
       \/ "timer" \in twice
       \/ job["timer"].again /\ goal_lift1 = status

LEMMA RequestsTell == ASSUME LInv, NEW th \in Thread, Steps(th) PROVE Told
<1>1. arrivals \in Nat /\ (Waits(th) => job[th].does \in Request)
  BY DEF LInv, HubInv, JobInv
<1>2. ASSUME job[th].does \in Request, NEW f, Fails(th, f) PROVE Told
  BY <1>2, FailsTells, SMT DEF Told
<1>3. CASE Send(th)
  <2>1. UNCHANGED kept
    BY <1>3, Zenon DEF Send
  <2> QED BY <1>1, <2>1, SMT DEF kept, timerVars, Told
<1>4. CASE Crash
  BY <1>1, <1>4, SMT DEF Crash, Told
<1>5. CASE UsesFreed(th)
  <2>1. CASE job[th].does \in Request /\ Fails(th, faults)
    BY <1>2, <2>1
  <2> QED BY <1>4, <1>5, <2>1, SMT DEF UsesFreed
<1>6. CASE Receive(th)
  <2>1. Waits(th) /\ Mail(th) # <<>>
    BY <1>6, SMT DEF Receive
  <2>2. CASE Fails(th, faults)
    BY <1>1, <1>2, <2>1, <2>2
  <2>3. CASE Mine(th, Head(Mail(th))) /\ Succeeds(th, Head(Mail(th)).val)
    <3>1. /\ Head(Mail(th)).val \in 0..3
          /\ th \notin twice /\ Head(Mail(th)).val \in Sought(th) =>
               Head(Mail(th)).val \in seen[th]
      BY <2>1, <2>3, TakenIsFresh DEF LInv
    <3> QED BY <1>1, <2>1, <2>3, <3>1, SucceedsTells, SMT DEF Told
  <2> QED BY <1>6, <2>2, <2>3, SMT DEF Receive
<1>7. CASE TimesOut(th)
  <2>1. Waits(th) /\ (Fails(th, faults) \/ Fails(th, faults + 1))
    BY <1>7, SMT DEF TimesOut
  <2> QED BY <1>1, <1>2, <2>1
<1>8. CASE Disconnect(th) \/ Connect(th)
  <2>1. Crash \/ UNCHANGED kept
    BY <1>8, Zenon DEF Disconnect, Connect, stays
  <2> QED BY <1>1, <1>4, <2>1, SMT DEF kept, timerVars, Told
<1> QED BY <1>3, <1>5, <1>6, <1>7, <1>8, SMT DEF Steps

LEMMA StepsTell == LInv /\ [Next]_vars => Told
<1> SUFFICES ASSUME LInv, [Next]_vars PROVE Told
  OBVIOUS
<1>1. arrivals \in Nat
  BY DEF LInv, HubInv
<1>2. CASE \E th \in Thread : Steps(th)
  BY <1>2, RequestsTell
<1>3. CASE Moves \/ Wakes \/ Polls \/ UNCHANGED vars
  <2>1. main' = main /\ arrivals' = arrivals
    BY <1>3, SMT DEF Moves, Wakes, Polls, vars, hubVars
  <2> QED BY <1>1, <2>1, SMT DEF Told
<1>4. CASE Arrived \/ \E s \in 0..2 : Query(s) \/ Go(s)
  <2>1. main # "ready" /\ (arrivals' = arrivals \/ arrivals' = arrivals - 1)
    BY <1>4, SMT DEF Arrived, Query, Go
  <2> QED BY <1>1, <2>1, SMT DEF Told
<1> QED BY <1>2, <1>3, <1>4, SMT DEF Next

-----------------------------------------------------------------------------
(* Theorems                                                                *)

LEMMA LiftInvariant == Spec => []LInv
  BY LiftStarts, LiftStep, PTL DEF Spec

\* A try never counts beyond its loop (READS_LIFT1, common.h 548), and what the
\* hub tells and orders stays in its range, whatever is answered, however late.
THEOREM LiftTyped == Spec => []TypeOK
<1>1. LInv => TypeOK
  <2> SUFFICES ASSUME LInv PROVE TypeOK
    OBVIOUS
  <2>1. reply \in {0, 657190, 657191, 657193}
    BY SMT DEF LInv, HubInv, Reply
  <2>2. aside.on \in Thread \union {"nobody"} /\ aside.gone \in BOOLEAN
    BY AsideOf DEF LInv, MailInv
  <2>3. job \in [Thread -> [does : Request \union {"nothing", "disconnect", "connect"},
                            i : 0..(Tries - 1), again : BOOLEAN, num : Nat]]
    <3>1. Request \union {"nothing", "disconnect", "connect"} = Does
      BY DEF Request, Does
    <3> QED BY <3>1 DEF LInv, JobInv, JobType
  <2>4. PlcInv /\ CtxInv /\ HubInv
    BY DEF LInv
  <2> QED BY <2>1, <2>2, <2>3, <2>4 DEF PlcInv, CtxInv, HubInv, TypeOK
<1> QED BY <1>1, LiftInvariant, PTL

\* Every 523100 of timer_lift1 is for a confirmed order of its own, although
\* event_lift1 may be set again before the timer has seen it.
THEOREM ArrivalsOwed == Spec => []OneArrivalEach
<1>1. LInv => OneArrivalEach
  BY DEF LInv
<1> QED BY <1>1, LiftInvariant, PTL

\* 657190 is sent only of a storey the lift was at during this query, whatever
\* was left unread by earlier readings or was meant for the other thread, as
\* long as no request of the query has a number that is in use.
THEOREM ReadyWasSeen == Spec => ReadyIsFresh
<1> DEFINE A == main = "ready" /\ main' = "idle" /\ reply' = 657190 =>
                  storey \in seen["main"] \/ "main" \in twice
<1>1. LInv /\ [Next]_vars => [A]_vars
  BY StepsTell, SMT DEF Told
<1>2. Spec => [][A]_vars
  BY <1>1, LiftInvariant, PTL DEF Spec
<1> QED BY <1>2, SMT DEF ReadyIsFresh

\* 523100 is sent only when the lift was at the goal during the timer's
\* reading, or a request of the reading had a number that was in use, or the
\* reading failed and status is an older one.
THEOREM ArrivalWasSeen == Spec => ArrivalSeen
<1> DEFINE A == arrivals' > arrivals =>
                  \/ goal_lift1 \in seen["timer"]
                  \/ "timer" \in twice
                  \/ job["timer"].again /\ goal_lift1 = status
<1>1. LInv /\ [Next]_vars => [A]_vars
  BY StepsTell, SMT DEF Told
<1>2. Spec => [][A]_vars
  BY <1>1, LiftInvariant, PTL DEF Spec
<1> QED BY <1>2 DEF ArrivalSeen
=============================================================================
