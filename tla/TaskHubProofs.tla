--------------------------- MODULE TaskHubProofs ----------------------------
(***************************************************************************)
(* Proofs about TaskHub for every number of threads, vehicles, tasks,      *)
(* messages and faults.                                                    *)
(***************************************************************************)
EXTENDS TaskHub, TLAPS

-----------------------------------------------------------------------------
(***************************************************************************)
(* The counter.                                                            *)
(***************************************************************************)

\* The next number of a number is a number, and the wrap skips 0.
LEMMA NextIdFacts ==
  ASSUME NEW i \in Id
  PROVE  /\ NextId(i) \in Id
         /\ NextId(i) = Adv(i, 1)
  <1>0. IdSpan \in Nat /\ IdSpan > 1 /\ i \in Nat /\ i < IdSpan /\ i > 0
    BY SpanAssumption DEF Id
  <1>1. CASE i = IdSpan - 1
    <2>1. (i + 1) % IdSpan = 0
      BY <1>0, <1>1
    <2>. QED
      BY <1>0, <1>1, <2>1 DEF NextId, Adv, Id
  <1>2. CASE i # IdSpan - 1
    <2>1. (i + 1) % IdSpan = i + 1
      BY <1>0, <1>2
    <2>. QED
      BY <1>0, <1>2, <2>1 DEF NextId, Adv, Id
  <1>. QED
    BY <1>1, <1>2

\* Going on from a number: fewer steps than there are numbers never come back
\* to it, and one step more is the next number.
LEMMA AdvFacts ==
  ASSUME NEW i \in Id, NEW k \in Nat, k <= MaxIssue
  PROVE  /\ Adv(i, k) \in Id
         /\ NextId(Adv(i, k)) = Adv(i, k + 1)
         /\ k > 0 => Adv(i, k) # i
         /\ Adv(i, 0) = i
  <1>0. IdSpan \in Nat /\ i \in Nat /\ i < IdSpan /\ i > 0 /\ MaxIssue \in Nat
        /\ IdSpan > MaxIssue + 1
    BY SpanAssumption DEF Id
  <1>1. Adv(i, k) \in Id
    BY <1>0 DEF Adv, Id
  <1>2. NextId(Adv(i, k)) = Adv(Adv(i, k), 1)
    BY <1>1, NextIdFacts
  <1>3. Adv(Adv(i, k), 1) = Adv(i, k + 1)
    BY <1>0 DEF Adv
  <1>. QED
    BY <1>0, <1>1, <1>2, <1>3 DEF Adv

-----------------------------------------------------------------------------
(***************************************************************************)
(* Type correctness.                                                       *)
(***************************************************************************)

\* The records the threads are set to have their types.
LEMMA RecordTypes ==
  /\ Idle \in HttpStates
  /\ \A p \in {"parse", "send"}, t \in Task : Serving(p, t, 0) \in HttpStates
  /\ \A i \in Id : Serving("over", 0, i) \in HttpStates
  /\ Silent \in Answers
  /\ Select \in MainStates
  BY DEF Idle, Serving, HttpStates, Silent, Answers, Sayings, Select, Handling,
         MainStates

\* What a client is told has its type.
LEMMA AnswerType ==
  ASSUME NEW c \in {657194, 678000, 678010}, NEW i \in Id \union {0},
         NEW w \in Sayings, Answer(c, i, w)
  PROVE  answer' \in Answers
  BY DEF Answer, Answers

\* The parts of a message, by its command.
LEMMA MessageTypes ==
  ASSUME NEW m \in Messages
  PROVE  /\ m.cmd \in {657202, 657301, 657185}
         /\ m.cmd = 657202 => m.id \in Id /\ m.state \in Steps /\ m.agv \in Agvs
         /\ m.cmd = 657301 => m.id \in Id /\ m.result \in Verdicts
         /\ m.cmd = 657185 => m.agv \in Agvs
  BY DEF Messages

LEMMA MessagesMade ==
  /\ \A i \in Id, s \in Steps, a \in Agvs :
       [cmd |-> 657202, id |-> i, state |-> s, agv |-> a] \in Messages
  /\ \A i \in Id, r \in Verdicts :
       [cmd |-> 657301, id |-> i, result |-> r] \in Messages
  /\ \A a \in Agvs : [cmd |-> 657185, agv |-> a] \in Messages
  BY DEF Messages

\* Taking a message off the connection, and putting one on it.
LEMMA InboxTypes ==
  ASSUME inbox \in Seq(Messages)
  PROVE  /\ inbox # <<>> => Head(inbox) \in Messages /\ Tail(inbox) \in Seq(Messages)
         /\ \A m \in Messages : Sent(m) => inbox' \in Seq(Messages)
  BY DEF Sent

\* Names the steps write, without the sets they come from.
LEMMA NamesInPlace ==
  /\ "alloc" \in Places /\ "moving" \in Places /\ "lost" \in Places
  /\ "dropped" \in Places /\ "tis" \in Places /\ "over" \in Places
  /\ "queued" \in Jobs
  BY DEF Places, Jobs

LEMMA TypeInit == Init => TypeOK
  <1>. SUFFICES ASSUME Init PROVE TypeOK
    OBVIOUS
  <1>1. gId \in Id /\ nextDb \in Id
    BY SpanAssumption DEF Init, Id
  <1>2. issued \in 0 .. MaxIssue /\ faults \in 0 .. MaxFault
    BY SpanAssumption, BoundAssumption DEF Init
  <1>3. place \in [Task -> Places] /\ job \in [Task -> Jobs]
    BY DEF Init, Places, Jobs
  <1>4. http \in [HttpThreads -> HttpStates] /\ answer \in Answers /\ main \in MainStates
    BY RecordTypes DEF Init
  <1>5. over \in Seq(Task) /\ inbox \in Seq(Messages)
    BY DEF Init
  <1>6. id \in [Task -> Id \union {0}] /\ No_cmd \in [Agvs -> Id \union {0}]
    BY DEF Init
  <1>7. steps \in [Task -> SUBSET Steps] /\ reported \in [Task -> SUBSET Steps]
    BY DEF Init
  <1>8. r_ti \in [Task -> Verdicts \union {"pending"}] /\ agvs \in SUBSET Agvs
    BY DEF Init
  <1>9. /\ conn \in BOOLEAN /\ dispatcher \in BOOLEAN /\ incoming \in BOOLEAN
        /\ jammed \in BOOLEAN
    BY Zenon DEF Init
  <1>. QED
    BY <1>1, <1>2, <1>3, <1>4, <1>5, <1>6, <1>7, <1>8, <1>9 DEF TypeOK

\* Tasks are numbered from 1, and the ones issued come first.
LEMMA TaskFacts ==
  ASSUME TypeOK
  PROVE  /\ Task \subseteq Nat /\ issued \in Nat
         /\ issued < MaxIssue => issued + 1 \in Task
  BY SpanAssumption DEF TypeOK, Task

\* A client asks about numbers that were given out.
LEMMA AskableIds ==
  ASSUME TypeOK, NumberInv
  PROVE  Askable \subseteq Id
  <1>1. ASSUME NEW t \in Task, place[t] # "unissued"
        PROVE  id[t] \in Id
    BY <1>1, TaskFacts DEF TypeOK, NumberInv
  <1>. QED
    BY <1>1 DEF Askable

LEMMA TypeStep ==
  ASSUME TypeOK, NumberInv, ThreadInv, MainInv, ReportInv, [Next]_vars
  PROVE  TypeOK'
  <1>1. ASSUME NEW h \in HttpThreads, IssueAlloc(h)
        PROVE  TypeOK'
    <2>1. issued + 1 \in Task /\ issued + 1 \in 0 .. MaxIssue
      BY <1>1, TaskFacts DEF IssueAlloc, Task
    <2>2. gId' \in Id /\ nextDb' \in Id
      BY <1>1, NextIdFacts DEF IssueAlloc, TypeOK
    <2>3. /\ id' \in [Task -> Id \union {0}]
          /\ issued' \in 0 .. MaxIssue
      BY <1>1, <2>1 DEF IssueAlloc, TypeOK
    <2>4. place' \in [Task -> Places]
      BY <1>1, <2>1, NamesInPlace DEF IssueAlloc, TypeOK
    <2>5. http' \in [HttpThreads -> HttpStates] /\ answer' \in Answers
      BY <1>1, <2>1, RecordTypes DEF IssueAlloc, TypeOK, NoAnswer
    <2>. QED
      BY <1>1, <2>2, <2>3, <2>4, <2>5 DEF IssueAlloc, TypeOK, dispVars
  <1>2. ASSUME NEW h \in HttpThreads, IssueReject(h)
        PROVE  TypeOK'
    <2>1. answer' \in Answers
      BY <1>2, AnswerType DEF IssueReject, Sayings
    <2>2. http' \in [HttpThreads -> HttpStates]
      BY <1>2, RecordTypes DEF IssueReject, TypeOK
    <2>3. place' \in [Task -> Places]
      BY <1>2, NamesInPlace DEF IssueReject, TypeOK, ThreadInv
    <2>. QED
      BY <1>2, <2>1, <2>2, <2>3 DEF IssueReject, TypeOK, taskVars, hubVars, dispVars
  <1>3. ASSUME NEW h \in HttpThreads, IssuePush(h)
        PROVE  TypeOK'
    <2>1. http[h].task \in Task
      BY <1>3 DEF IssuePush, ThreadInv
    <2>2. http' \in [HttpThreads -> HttpStates] /\ answer' \in Answers
      BY <1>3, <2>1, RecordTypes DEF IssuePush, TypeOK, NoAnswer
    <2>3. place' \in [Task -> Places]
      BY <1>3, <2>1, NamesInPlace DEF IssuePush, TypeOK
    <2>4. main' \in MainStates
      <3>1. main' = [main EXCEPT !.torn = main.torn \/ main.pc = "R"]
        BY <1>3 DEF IssuePush
      <3>2. main \in MainStates
        BY DEF TypeOK
      <3>. QED
        BY <3>1, <3>2, Zenon DEF MainStates
    <2>. QED
      BY <1>3, <2>2, <2>3, <2>4 DEF IssuePush, TypeOK, dispVars
  <1>4. ASSUME NEW h \in HttpThreads, IssueSend(h)
        PROVE  TypeOK'
    <2>1. http[h].task \in Task
      BY <1>4 DEF IssueSend, ThreadInv
    <2>2. id[http[h].task] \in Id \union {0} /\ "id" \in Sayings
      BY <2>1 DEF TypeOK, Sayings
    <2>3. Answer(657194, id[http[h].task], "id")
      BY <1>4 DEF IssueSend
    <2>4. answer' \in Answers
      BY <2>2, <2>3, AnswerType
    <2>5. http' \in [HttpThreads -> HttpStates]
      BY <1>4, RecordTypes DEF IssueSend, TypeOK
    <2>6. job' \in [Task -> Jobs]
      BY <1>4, <2>1, NamesInPlace DEF IssueSend, TypeOK
    <2>. QED
      BY <1>4, <2>4, <2>5, <2>6 DEF IssueSend, TypeOK, taskVars, hubVars, dispVars
  <1>5. ASSUME NEW h \in HttpThreads, NEW i \in Askable, QueryResult(h, i)
        PROVE  TypeOK'
    <2>1. i \in Id \union {0}
      BY DEF Askable, TypeOK
    <2>2. \A t \in Tis : r_ti[t] \in Sayings
      BY DEF Tis, TypeOK, Sayings
    <2>a. \E w \in Sayings : Answer(678000, i, w)
      <3>1. "pending" \in Sayings
        BY DEF Sayings
      <3>2. CASE \E t \in Tis : Answer(678000, i, r_ti[t])
        BY <2>2, <3>2, SMT
      <3>3. CASE Answer(678000, i, "pending")
        BY <3>1, <3>3, SMT
      <3>. QED
        BY <1>5, <3>2, <3>3, SMT DEF QueryResult
    <2>3. answer' \in Answers
      BY <2>1, <2>a, AnswerType
    <2>. QED
      BY <1>5, <2>3 DEF QueryResult, TypeOK, taskVars, hubVars, dispVars
  <1>6. ASSUME NEW h \in HttpThreads, NEW i \in Askable, StatusInTis(h, i)
        PROVE  TypeOK'
    <2>1. i \in Id
      BY AskableIds DEF IndInv
    <2>2. answer' \in Answers
      BY <1>6, <2>1, AnswerType, RecordTypes DEF StatusInTis, Sayings, NoAnswer
    <2>. QED
      BY <1>6, <2>1, <2>2, RecordTypes DEF StatusInTis, TypeOK, taskVars, hubVars, dispVars
  <1>7. ASSUME NEW h \in HttpThreads, StatusInOver(h)
        PROVE  TypeOK'
    <2>1. http[h].asked \in Id
      BY <1>7 DEF StatusInOver, ThreadInv
    <2>2. answer' \in Answers
      BY <1>7, <2>1, AnswerType DEF StatusInOver, Sayings
    <2>. QED
      BY <1>7, <2>2, RecordTypes DEF StatusInOver, TypeOK, taskVars, hubVars, dispVars
  <1>8. CASE Register
    <2>1. Head(inbox) \in Messages /\ inbox' \in Seq(Messages)
      BY <1>8, InboxTypes DEF Register, TypeOK
    <2>. QED
      BY <1>8, <2>1, MessageTypes, RecordTypes DEF Register, TypeOK, taskVars, hubVars, dispVars, NoAnswer
  <1>9. CASE StoreResult
    <2>1. Head(inbox) \in Messages /\ inbox' \in Seq(Messages)
      BY <1>9, InboxTypes DEF StoreResult, TypeOK
    <2>. QED
      BY <1>9, <2>1, MessageTypes, RecordTypes DEF StoreResult, TypeOK, taskVars, hubVars, dispVars, NoAnswer
  <1>10. CASE Waypoint
    <2>1. Head(inbox) \in Messages /\ inbox' \in Seq(Messages)
      BY <1>10, InboxTypes DEF Waypoint, TypeOK
    <2>2. main' \in MainStates
      BY <1>10, <2>1, MessageTypes DEF Waypoint, Handling, MainStates, Steps
    <2>. QED
      BY <1>10, <2>1, <2>2, MessageTypes, RecordTypes DEF Waypoint, TypeOK, taskVars, hubVars, dispVars, NoAnswer
  <1>11. CASE BeginStep
    <2>1. steps' \in [Task -> SUBSET Steps]
      <3>1. ASSUME NEW t \in Tis, Tick(t, "B")
            PROVE  steps' \in [Task -> SUBSET Steps]
        <4>1. t \in Task /\ steps[t] \union {"B"} \in SUBSET Steps
          BY DEF TypeOK, Tis, Steps
        <4>. QED
          BY <3>1, <4>1 DEF Tick, TypeOK
      <3>2. CASE UNCHANGED steps
        BY <3>2 DEF TypeOK
      <3>. QED
        BY <1>11, <3>1, <3>2 DEF BeginStep
    <2>. QED
      BY <1>11, <2>1, RecordTypes DEF BeginStep, TypeOK, dispVars, NoAnswer
  <1>12. CASE RunningStep
    <2>1. steps' \in [Task -> SUBSET Steps]
      <3>1. ASSUME NEW t \in Tis, Tick(t, "R")
            PROVE  steps' \in [Task -> SUBSET Steps]
        <4>1. t \in Task /\ steps[t] \union {"R"} \in SUBSET Steps
          BY DEF TypeOK, Tis, Steps
        <4>. QED
          BY <3>1, <4>1 DEF Tick, TypeOK
      <3>2. CASE UNCHANGED steps
        BY <3>2 DEF TypeOK
      <3>. QED
        BY <1>12, <3>1, <3>2 DEF RunningStep
    <2>. QED
      BY <1>12, <2>1, RecordTypes DEF RunningStep, TypeOK, dispVars, NoAnswer
  <1>13. CASE EndStep
    <2>1. steps' \in [Task -> SUBSET Steps]
      BY <1>13 DEF EndStep, Tick, TypeOK, Tis, Steps
    <2>2. place' \in [Task -> Places]
      BY <1>13, NamesInPlace DEF EndStep, TypeOK, Tis
    <2>3. main' \in MainStates
      <3>1. ASSUME NEW t \in Tis, main' = Handling("over", main.id, main.agv, t)
            PROVE  main' \in MainStates
        <4>1. main.id \in Id \union {0} /\ main.agv \in Agvs \union {"none"} /\ t \in Task
          BY DEF TypeOK, MainStates, Tis
        <4>. QED
          BY <3>1, <4>1 DEF Handling, MainStates
      <3>. QED
        BY <1>13, <3>1, RecordTypes DEF EndStep
    <2>. QED
      BY <1>13, <2>1, <2>2, <2>3, RecordTypes DEF EndStep, TypeOK, dispVars, NoAnswer
  <1>14. CASE MoveToOver
    <2>1. main.task \in Task
      BY <1>14 DEF MoveToOver, MainInv
    <2>2. over' \in Seq(Task)
      BY <1>14, <2>1 DEF MoveToOver, OverWith, TypeOK
    <2>3. place' \in [Task -> Places]
      BY <1>14, <2>1, NamesInPlace DEF MoveToOver, TypeOK
    <2>4. No_cmd' \in [Agvs -> Id \union {0}]
      BY <1>14 DEF MoveToOver, TypeOK
    <2>5. main' \in MainStates /\ answer' \in Answers /\ incoming' \in BOOLEAN
      BY <1>14, RecordTypes DEF MoveToOver, NoAnswer
    <2>. QED
      BY <1>14, <2>2, <2>3, <2>4, <2>5 DEF MoveToOver, TypeOK, dispVars
  <1>15. CASE TakeOver
    <2>1. answer' \in Answers /\ incoming' \in BOOLEAN
      BY <1>15, RecordTypes, Zenon DEF TakeOver, NoAnswer
    <2>. QED
      BY <1>15, <2>1 DEF TakeOver, TypeOK, hubVars, dispVars
  <1>16. CASE Restart
    <2>1. place' \in [Task -> Places]
      BY <1>16, NamesInPlace DEF Restart, TypeOK
    <2>2. over' \in Seq(Task) /\ inbox' \in Seq(Messages)
      BY <1>16 DEF Restart
    <2>3. /\ http' \in [HttpThreads -> HttpStates]
          /\ main' \in MainStates /\ answer' \in Answers
      BY <1>16, RecordTypes DEF Restart, NoAnswer
    <2>4. /\ steps' \in [Task -> SUBSET Steps]
          /\ r_ti' \in [Task -> Verdicts \union {"pending"}]
          /\ No_cmd' \in [Agvs -> Id \union {0}]
      BY <1>16 DEF Restart
    <2>5. conn' \in BOOLEAN /\ dispatcher' \in BOOLEAN /\ incoming' \in BOOLEAN
      BY <1>16, Zenon DEF Restart
    <2>6. gId' \in Id /\ agvs' \in SUBSET Agvs /\ faults' \in 0 .. MaxFault
      BY <1>16, BoundAssumption DEF Restart, TypeOK
    <2>. QED
      BY <1>16, <2>1, <2>2, <2>3, <2>4, <2>5, <2>6 DEF Restart, TypeOK
  <1>17. CASE Connect
    BY <1>17, RecordTypes DEF Connect, TypeOK, taskVars, hubVars, dispVars, NoAnswer
  <1>18. CASE Disconnect
    <2>1. inbox' \in Seq(Messages)
      BY <1>18 DEF Disconnect, TypeOK
    <2>2. conn' \in BOOLEAN /\ dispatcher' \in BOOLEAN /\ answer' \in Answers
      BY <1>18, RecordTypes, Zenon DEF Disconnect, NoAnswer
    <2>3. faults' \in 0 .. MaxFault
      BY <1>18, BoundAssumption DEF Disconnect, TypeOK
    <2>. QED
      BY <1>18, <2>1, <2>2, <2>3 DEF Disconnect, TypeOK, taskVars
  <1>19. ASSUME NEW a \in Agvs, DispRegister(a)
        PROVE  TypeOK'
    <2>1. inbox' \in Seq(Messages)
      BY <1>19, InboxTypes, MessagesMade DEF DispRegister, TypeOK
    <2>. QED
      BY <1>19, <2>1, RecordTypes DEF DispRegister, TypeOK, taskVars, hubVars, dispVars, NoAnswer
  <1>20. ASSUME NEW t \in Task, NEW r \in Verdicts, DispResult(t, r)
        PROVE  TypeOK'
    <2>1. id[t] \in Id
      BY <1>20 DEF DispResult, ReportInv, JobsIssued, NumberInv, TypeOK
    <2>2. inbox' \in Seq(Messages)
      BY <1>20, <2>1, InboxTypes, MessagesMade DEF DispResult, TypeOK
    <2>. QED
      BY <1>20, <2>2, RecordTypes DEF DispResult, Jobs, TypeOK, taskVars, hubVars, dispVars, NoAnswer
  <1>21. ASSUME NEW t \in Task, NEW a \in Agvs, DispReport(t, a)
        PROVE  TypeOK'
    <2>1. id[t] \in Id
      BY <1>21 DEF DispReport, ReportInv, JobsIssued, NumberInv, TypeOK
    <2>2. PICK s \in {job[t], After(job[t])} \ {"accepted"} : Reports(t, a, s)
      BY <1>21 DEF DispReport
    <2>3. s \in Steps
      BY <1>21 DEF DispReport, After, Steps
    <2>4. inbox' \in Seq(Messages)
      BY <2>1, <2>2, <2>3, InboxTypes, MessagesMade DEF Reports, TypeOK
    <2>5. s \in Jobs
      BY <2>3 DEF Steps, Jobs
    <2>. QED
      BY <1>21, <2>2, <2>3, <2>4, <2>5, RecordTypes
      DEF DispReport, Reports, TypeOK, taskVars, hubVars, dispVars, NoAnswer
  <1>22. CASE UNCHANGED vars
    BY <1>22 DEF vars, TypeOK, taskVars, hubVars, dispVars, NoAnswer
  <1>. QED
    BY <1>1, <1>2, <1>3, <1>4, <1>5, <1>6, <1>7, <1>8, <1>9, <1>10, <1>11, <1>12, <1>13, <1>14, <1>15, <1>16, <1>17, <1>18, <1>19, <1>20, <1>21, <1>22
       DEF Next, HttpNext, MainNext, DispNext

-----------------------------------------------------------------------------
(***************************************************************************)
(* The numbers.                                                            *)
(***************************************************************************)

LEMMA NumberInit == Init => NumberInv
  <1>. SUFFICES ASSUME Init PROVE NumberInv
    OBVIOUS
  <1>1. \A t \in Task : t \in Nat /\ t > 0
    BY SpanAssumption DEF Task
  <1>. QED
    BY <1>1 DEF Init, NumberInv, Held

\* A task the hub holds was issued.
LEMMA HeldIssued ==
  ASSUME TypeOK, NumberInv, NEW t \in Task, place[t] # "unissued"
  PROVE  /\ t \in Nat /\ issued \in Nat /\ t <= issued
         /\ id[t] \in Id
  BY TaskFacts DEF TypeOK, NumberInv

\* Nothing is issued and the hub holds nothing new.
LEMMA NumberFrame ==
  ASSUME NumberInv, id' = id, issued' = issued,
         Held' = {} \/ gId' = gId,
         \A t \in Task : place'[t] = "unissued" <=> place[t] = "unissued",
         \A t \in Held' : t \in Held
  PROVE  NumberInv'
  <1>1. \A t \in Held' : t \in Task
    BY DEF Held
  <1>. QED
    BY <1>1 DEF NumberInv

LEMMA NumberAlloc ==
  ASSUME TypeOK, NumberInv, NEW h \in HttpThreads, IssueAlloc(h)
  PROVE  NumberInv'
  <1>. DEFINE n == issued + 1
  <1>1. /\ n \in Task /\ issued \in Nat /\ MaxIssue \in Nat /\ n <= MaxIssue
        /\ Task \subseteq Nat /\ gId \in Id /\ 0 \notin Id
    BY TaskFacts, SpanAssumption DEF IssueAlloc, TypeOK, Task, Id
  <1>2. /\ issued' = n /\ gId' = NextId(gId)
        /\ id' = [id EXCEPT ![n] = gId]
        /\ place' = [place EXCEPT ![n] = "alloc"]
    BY DEF IssueAlloc
  <1>3. /\ \A t \in Task : id'[t] = IF t = n THEN gId ELSE id[t]
        /\ \A t \in Task : place'[t] = IF t = n THEN "alloc" ELSE place[t]
    BY <1>1, <1>2 DEF TypeOK
  <1>5. ASSUME NEW t \in Held', t # n
        PROVE  /\ gId' = Adv(id'[t], issued' + 1 - t)
               /\ \A u \in Task : t <= u /\ u <= issued' => id'[u] = Adv(id'[t], u - t)
    <2>1. t \in Task /\ t \in Held
      BY <1>3, <1>5 DEF Held
    <2>2. t \in Nat /\ t <= issued /\ id[t] \in Id /\ t > 0
      BY <2>1, HeldIssued DEF Held, Task
    <2>3. gId = Adv(id[t], n - t)
      BY <1>1, <2>1, <2>2 DEF NumberInv
    <2>4. n - t \in Nat /\ n - t <= MaxIssue
      BY <1>1, <2>2
    <2>5. NextId(gId) = Adv(id[t], (n - t) + 1)
      BY <2>2, <2>3, <2>4, AdvFacts
    <2>6. (n - t) + 1 = issued' + 1 - t
      BY <1>1, <1>2, <2>2
    <2>7. ASSUME NEW u \in Task, t <= u, u <= issued'
          PROVE  id'[u] = Adv(id'[t], u - t)
      <3>1. CASE u = n
        BY <1>3, <1>5, <2>1, <2>3, <3>1
      <3>2. CASE u # n
        BY <1>1, <1>2, <1>3, <1>5, <2>1, <2>7, <3>2 DEF NumberInv
      <3>. QED
        BY <3>1, <3>2
    <2>. QED
      BY <1>2, <1>3, <1>5, <2>1, <2>5, <2>6, <2>7
  <1>6. /\ gId' = Adv(id'[n], issued' + 1 - n)
        /\ \A u \in Task : n <= u /\ u <= issued' => id'[u] = Adv(id'[n], u - n)
    <2>1. issued' + 1 - n = 1 /\ n - n = 0
      BY <1>1, <1>2
    <2>2. gId' = Adv(gId, 1) /\ Adv(gId, 0) = gId
      BY <1>1, <1>2, NextIdFacts, AdvFacts
    <2>3. \A u \in Task : n <= u /\ u <= issued' => u = n
      BY <1>1, <1>2
    <2>. QED
      BY <1>1, <1>3, <2>1, <2>2, <2>3
  <1>4. \A t \in Held' :
          /\ gId' = Adv(id'[t], issued' + 1 - t)
          /\ \A u \in Task : t <= u /\ u <= issued' => id'[u] = Adv(id'[t], u - t)
    BY <1>5, <1>6
  <1>. QED
    <2>1. (\A t \in Task : id[t] # 0 <=> t <= issued)'
      BY <1>1, <1>2, <1>3 DEF NumberInv
    <2>2. (\A t \in Task : place[t] = "unissued" <=> t > issued)'
      BY <1>1, <1>2, <1>3 DEF NumberInv
    <2>. QED
      BY <1>4, <2>1, <2>2 DEF NumberInv

\* The steps that issue a task or change where one is.
LEMMA PlaceSteps ==
  ASSUME [Next]_vars
  PROVE  \/ \E h \in HttpThreads : IssueAlloc(h) \/ IssueReject(h) \/ IssuePush(h)
         \/ EndStep \/ MoveToOver \/ Restart
         \/ UNCHANGED <<gId, issued, id, place>>
  <1>1. ASSUME NEW h \in HttpThreads, IssueSend(h) \/ StatusInOver(h)
        PROVE  UNCHANGED <<gId, issued, id, place>>
    BY <1>1 DEF IssueSend, StatusInOver, taskVars
  <1>2. ASSUME NEW h \in HttpThreads, NEW i \in Askable,
               QueryResult(h, i) \/ StatusInTis(h, i)
        PROVE  UNCHANGED <<gId, issued, id, place>>
    BY <1>2 DEF QueryResult, StatusInTis, taskVars
  <1>3. ASSUME HttpNext
        PROVE  \/ \E h \in HttpThreads : IssueAlloc(h) \/ IssueReject(h) \/ IssuePush(h)
               \/ UNCHANGED <<gId, issued, id, place>>
    BY <1>1, <1>2, <1>3 DEF HttpNext
  <1>4. ASSUME Register \/ StoreResult \/ Waypoint \/ BeginStep \/ RunningStep \/ TakeOver
        PROVE  UNCHANGED <<gId, issued, id, place>>
    BY <1>4 DEF Register, StoreResult, Waypoint, BeginStep, RunningStep, TakeOver, taskVars
  <1>5. ASSUME DispNext
        PROVE  UNCHANGED <<gId, issued, id, place>>
    <2>1. ASSUME Connect \/ Disconnect
          PROVE  UNCHANGED taskVars
      BY <2>1 DEF Connect, Disconnect
    <2>2. ASSUME NEW a \in Agvs, DispRegister(a)
          PROVE  UNCHANGED taskVars
      BY <2>2 DEF DispRegister
    <2>3. ASSUME NEW t \in Task, NEW r \in Verdicts, DispResult(t, r)
          PROVE  UNCHANGED taskVars
      BY <2>3 DEF DispResult
    <2>4. ASSUME NEW t \in Task, NEW a \in Agvs, DispReport(t, a)
          PROVE  UNCHANGED taskVars
      BY <2>4 DEF DispReport
    <2>5. UNCHANGED taskVars
      BY <1>5, <2>1, <2>2, <2>3, <2>4 DEF DispNext
    <2>. QED
      BY <2>5 DEF taskVars
  <1>6. ASSUME UNCHANGED vars
        PROVE  UNCHANGED <<gId, issued, id, place>>
    BY <1>6 DEF vars, taskVars
  <1>. QED
    BY <1>3, <1>4, <1>5, <1>6 DEF Next, MainNext

LEMMA NumberStep ==
  ASSUME TypeOK, TypeOK', NumberInv, ThreadInv, MainInv, [Next]_vars
  PROVE  NumberInv'
  <1>1. ASSUME NEW h \in HttpThreads, IssueAlloc(h)
        PROVE  NumberInv'
    BY <1>1, NumberAlloc
  <1>2. ASSUME NEW h \in HttpThreads, IssueReject(h)
        PROVE  NumberInv'
    <2>1. http[h].task \in Task /\ place[http[h].task] = "alloc"
      BY <1>2 DEF IssueReject, ThreadInv
    <2>. QED
      BY <1>2, <2>1, NumberFrame DEF IssueReject, TypeOK, Held
  <1>3. ASSUME NEW h \in HttpThreads, IssuePush(h)
        PROVE  NumberInv'
    <2>1. http[h].task \in Task /\ place[http[h].task] = "alloc"
      BY <1>3 DEF IssuePush, ThreadInv
    <2>. QED
      BY <1>3, <2>1, NumberFrame DEF IssuePush, TypeOK, Held
  <1>4. CASE EndStep
    BY <1>4, NumberFrame DEF EndStep, TypeOK, Held, Tis
  <1>5. CASE MoveToOver
    BY <1>5, NumberFrame DEF MoveToOver, TypeOK, Held, MainInv
  <1>6. CASE Restart
    BY <1>6, NumberFrame DEF Restart, TypeOK, Held
  <1>7. CASE UNCHANGED <<gId, issued, id, place>>
    BY <1>7, NumberFrame DEF Held
  <1>. QED
    BY <1>1, <1>2, <1>3, <1>4, <1>5, <1>6, <1>7, PlaceSteps

-----------------------------------------------------------------------------
(***************************************************************************)
(* The HTTP threads.                                                       *)
(***************************************************************************)

LEMMA ThreadInit == Init => ThreadInv
  BY DEF Init, ThreadInv, Idle, Serving

\* The steps that change what a thread does or where a task is.
LEMMA HttpSteps ==
  ASSUME [Next]_vars
  PROVE  \/ \E h \in HttpThreads : \/ IssueAlloc(h) \/ IssueReject(h) \/ IssuePush(h)
                                   \/ IssueSend(h) \/ StatusInOver(h)
                                   \/ \E i \in Askable : StatusInTis(h, i)
         \/ EndStep \/ MoveToOver \/ Restart
         \/ UNCHANGED <<issued, id, place, http>>
  <1>1. ASSUME NEW h \in HttpThreads, NEW i \in Askable, QueryResult(h, i)
        PROVE  UNCHANGED <<issued, id, place, http>>
    BY <1>1 DEF QueryResult, taskVars
  <1>2. ASSUME Register \/ StoreResult \/ Waypoint \/ BeginStep \/ RunningStep \/ TakeOver
        PROVE  UNCHANGED <<issued, id, place, http>>
    BY <1>2 DEF Register, StoreResult, Waypoint, BeginStep, RunningStep, TakeOver,
                taskVars, hubVars
  <1>3. ASSUME Connect \/ Disconnect
        PROVE  UNCHANGED <<issued, id, place, http>>
    BY <1>3 DEF Connect, Disconnect, taskVars, hubVars
  <1>4. ASSUME NEW a \in Agvs, DispRegister(a)
        PROVE  UNCHANGED <<issued, id, place, http>>
    BY <1>4 DEF DispRegister, taskVars, hubVars
  <1>5. ASSUME NEW t \in Task, NEW r \in Verdicts, DispResult(t, r)
        PROVE  UNCHANGED <<issued, id, place, http>>
    BY <1>5 DEF DispResult, taskVars, hubVars
  <1>6. ASSUME NEW t \in Task, NEW a \in Agvs, DispReport(t, a)
        PROVE  UNCHANGED <<issued, id, place, http>>
    BY <1>6 DEF DispReport, taskVars, hubVars
  <1>7. ASSUME UNCHANGED vars
        PROVE  UNCHANGED <<issued, id, place, http>>
    BY <1>7 DEF vars, taskVars, hubVars
  <1>. QED
    BY <1>1, <1>2, <1>3, <1>4, <1>5, <1>6, <1>7 DEF Next, HttpNext, MainNext, DispNext

\* Issuing a task leaves the earlier ones as they are.
LEMMA AllocFrame ==
  ASSUME TypeOK, NumberInv, NEW h \in HttpThreads, IssueAlloc(h)
  PROVE  /\ issued + 1 \in Task /\ issued' = issued + 1
         /\ place[issued + 1] = "unissued" /\ id[issued + 1] = 0
         /\ \A t \in Task : t # issued + 1 => id'[t] = id[t] /\ place'[t] = place[t]
         /\ place'[issued + 1] = "alloc"
  <1>1. issued + 1 \in Task /\ issued \in Nat
    BY TaskFacts DEF IssueAlloc
  <1>2. place[issued + 1] = "unissued" /\ id[issued + 1] = 0
    BY <1>1 DEF NumberInv
  <1>. QED
    BY <1>1, <1>2 DEF IssueAlloc, TypeOK

\* A task that has left tis does not return.
LEMMA GoneStays ==
  ASSUME TypeOK, NumberInv, ThreadInv, MainInv, [Next]_vars, NEW i \in Id, Gone(i)
  PROVE  Gone(i)'
  <1>1. PICK t \in Task : id[t] = i /\ place[t] \in {"moving", "over", "lost"}
    BY DEF Gone
  <1>2. ASSUME NEW h \in HttpThreads, IssueAlloc(h)
        PROVE  id'[t] = id[t] /\ place'[t] = place[t]
    BY <1>1, <1>2, AllocFrame
  <1>3. ASSUME NEW h \in HttpThreads, IssueReject(h) \/ IssuePush(h)
        PROVE  id'[t] = id[t] /\ place'[t] = place[t]
    <2>1. http[h].task \in Task /\ place[http[h].task] = "alloc"
      BY <1>3 DEF IssueReject, IssuePush, ThreadInv
    <2>. QED
      BY <1>1, <1>3, <2>1 DEF IssueReject, IssuePush, TypeOK
  <1>4. ASSUME EndStep
        PROVE  id'[t] = id[t] /\ place'[t] = place[t]
    BY <1>1, <1>4 DEF EndStep, Tis, TypeOK
  <1>5. ASSUME MoveToOver
        PROVE  id'[t] = id[t] /\ place'[t] \in {"moving", "over", "lost"}
    BY <1>1, <1>5 DEF MoveToOver, TypeOK, MainInv
  <1>6. ASSUME Restart
        PROVE  id'[t] = id[t] /\ place'[t] \in {"moving", "over", "lost"}
    BY <1>1, <1>6 DEF Restart
  <1>. QED
    BY <1>1, <1>2, <1>3, <1>4, <1>5, <1>6, PlaceSteps DEF Gone

LEMMA ThreadStep ==
  ASSUME TypeOK, TypeOK', NumberInv, ThreadInv, MainInv, [Next]_vars
  PROVE  ThreadInv'
  <1>0. \A i \in Id : Gone(i) => Gone(i)'
    BY GoneStays
  <1>1. ASSUME NEW h \in HttpThreads, IssueAlloc(h)
        PROVE  ThreadInv'
    <2>1. http' = [http EXCEPT ![h] = Serving("parse", issued + 1, 0)]
      BY <1>1 DEF IssueAlloc
    <2>2. \A g \in HttpThreads : http[g].pc \in {"parse", "send"} =>
            http[g].task # issued + 1 /\ http[g].task \in Task /\ http[g].task <= issued + 1
      BY TaskFacts DEF ThreadInv
    <2>3. issued + 1 \in Nat
      BY TaskFacts
    <2>. QED
      BY <1>0, <1>1, <2>1, <2>2, <2>3, AllocFrame DEF ThreadInv, Serving, TypeOK
  <1>2. ASSUME NEW h \in HttpThreads, IssueReject(h)
        PROVE  ThreadInv'
    BY <1>0, <1>2 DEF IssueReject, ThreadInv, Idle, Serving, TypeOK
  <1>3. ASSUME NEW h \in HttpThreads, IssuePush(h)
        PROVE  ThreadInv'
    BY <1>0, <1>3 DEF IssuePush, ThreadInv, Serving, TypeOK
  <1>4. ASSUME NEW h \in HttpThreads, IssueSend(h) \/ StatusInOver(h)
        PROVE  ThreadInv'
    <2>1. UNCHANGED <<issued, id, place>> /\ http' = [http EXCEPT ![h] = Idle]
      BY <1>4 DEF IssueSend, StatusInOver, taskVars
    <2>2. \A g \in HttpThreads : http'[g] = http[g] \/ http'[g].pc = "idle"
      BY <2>1 DEF TypeOK, Idle, Serving
    <2>. QED
      BY <1>0, <2>1, <2>2 DEF ThreadInv
  <1>5. ASSUME NEW h \in HttpThreads, NEW i \in Askable, StatusInTis(h, i)
        PROVE  ThreadInv'
    <2>1. i \in Id
      BY AskableIds
    <2>2. CASE UNCHANGED http
      BY <1>0, <1>5, <2>2 DEF StatusInTis, ThreadInv, taskVars
    <2>3. CASE /\ \A t \in Tis : id[t] # i
               /\ http' = [http EXCEPT ![h] = Serving("over", 0, i)]
      <3>1. Gone(i)
        BY <2>3 DEF Askable, Tis, Gone
      <3>. QED
        BY <1>0, <1>5, <2>1, <2>3, <3>1 DEF StatusInTis, ThreadInv, Serving, TypeOK, taskVars
    <2>. QED
      BY <1>5, <2>2, <2>3 DEF StatusInTis
  <1>6. CASE EndStep
    BY <1>0, <1>6 DEF EndStep, ThreadInv, Tis, TypeOK
  <1>7. CASE MoveToOver
    BY <1>0, <1>7 DEF MoveToOver, ThreadInv, MainInv, TypeOK
  <1>8. CASE Restart
    BY <1>8 DEF Restart, ThreadInv, Idle, Serving
  <1>9. CASE UNCHANGED <<issued, id, place, http>>
    BY <1>0, <1>9 DEF ThreadInv
  <1>. QED
    BY <1>1, <1>2, <1>3, <1>4, <1>5, <1>6, <1>7, <1>8, <1>9, HttpSteps

-----------------------------------------------------------------------------
(***************************************************************************)
(* The main thread.                                                        *)
(***************************************************************************)

LEMMA MainInit == Init => MainInv
  BY DEF Init, MainInv, Select, Handling, Steps

\* The steps that change what the main thread does, where a task is, or tis_over.
LEMMA MainSteps ==
  ASSUME [Next]_vars
  PROVE  \/ \E h \in HttpThreads : IssueAlloc(h) \/ IssueReject(h) \/ IssuePush(h)
         \/ Waypoint \/ BeginStep \/ RunningStep \/ EndStep \/ MoveToOver \/ Restart
         \/ UNCHANGED <<place, main, over>>
  <1>1. ASSUME NEW h \in HttpThreads, IssueSend(h) \/ StatusInOver(h)
        PROVE  UNCHANGED <<place, main, over>>
    BY <1>1 DEF IssueSend, StatusInOver, taskVars
  <1>2. ASSUME NEW h \in HttpThreads, NEW i \in Askable,
               QueryResult(h, i) \/ StatusInTis(h, i)
        PROVE  UNCHANGED <<place, main, over>>
    BY <1>2 DEF QueryResult, StatusInTis, taskVars
  <1>3. ASSUME Register \/ StoreResult \/ TakeOver
        PROVE  UNCHANGED <<place, main, over>>
    BY <1>3 DEF Register, StoreResult, TakeOver, taskVars, hubVars
  <1>4. ASSUME Connect \/ Disconnect
        PROVE  UNCHANGED <<place, main, over>>
    BY <1>4 DEF Connect, Disconnect, taskVars, hubVars
  <1>5. ASSUME NEW a \in Agvs, DispRegister(a)
        PROVE  UNCHANGED <<place, main, over>>
    BY <1>5 DEF DispRegister, taskVars, hubVars
  <1>6. ASSUME NEW t \in Task, NEW r \in Verdicts, DispResult(t, r)
        PROVE  UNCHANGED <<place, main, over>>
    BY <1>6 DEF DispResult, taskVars, hubVars
  <1>7. ASSUME NEW t \in Task, NEW a \in Agvs, DispReport(t, a)
        PROVE  UNCHANGED <<place, main, over>>
    BY <1>7 DEF DispReport, taskVars, hubVars
  <1>8. ASSUME UNCHANGED vars
        PROVE  UNCHANGED <<place, main, over>>
    BY <1>8 DEF vars, taskVars, hubVars
  <1>. QED
    BY <1>1, <1>2, <1>3, <1>4, <1>5, <1>6, <1>7, <1>8 DEF Next, HttpNext, MainNext, DispNext

LEMMA MainStep ==
  ASSUME TypeOK, NumberInv, ThreadInv, MainInv, [Next]_vars
  PROVE  MainInv'
  <1>1. ASSUME NEW h \in HttpThreads, IssueAlloc(h)
        PROVE  MainInv'
    <2>1. UNCHANGED <<main, over>>
      BY <1>1 DEF IssueAlloc
    <2>. QED
      BY <1>1, <2>1, AllocFrame DEF MainInv
  <1>2. ASSUME NEW h \in HttpThreads, IssueReject(h)
        PROVE  MainInv'
    BY <1>2 DEF IssueReject, ThreadInv, MainInv, TypeOK
  <1>3. ASSUME NEW h \in HttpThreads, IssuePush(h)
        PROVE  MainInv'
    <2>1. main'.pc = main.pc /\ main'.id = main.id /\ main'.task = main.task
      BY <1>3 DEF IssuePush, TypeOK, MainStates
    <2>2. /\ over' = over
          /\ place' = [place EXCEPT ![http[h].task] = "tis"]
          /\ http[h].task \in Task /\ place[http[h].task] = "alloc"
      BY <1>3 DEF IssuePush, ThreadInv
    <2>. QED
      BY <2>1, <2>2 DEF MainInv, TypeOK
  <1>4. CASE Waypoint
    <2>1. Head(inbox) \in Messages
      BY <1>4, InboxTypes DEF Waypoint, TypeOK
    <2>2. main'.id \in Id /\ main'.pc \in Steps
      BY <1>4, <2>1, MessageTypes DEF Waypoint, Handling
    <2>. QED
      BY <1>4, <2>2 DEF Waypoint, MainInv, Steps, taskVars
  <1>5. CASE BeginStep \/ RunningStep
    BY <1>5 DEF BeginStep, RunningStep, MainInv, Select, Handling, Steps
  <1>6. CASE EndStep
    <2>1. ASSUME NEW t \in Tis, place' = [place EXCEPT ![t] = "moving"],
                 main' = Handling("over", main.id, main.agv, t)
          PROVE  MainInv'
      <3>1. t \in Task /\ place[t] = "tis"
        BY DEF Tis
      <3>2. main'.pc = "over" /\ main'.task = t
        BY <2>1 DEF Handling
      <3>3. over' = over
        BY <1>6 DEF EndStep
      <3>. QED
        BY <1>6, <2>1, <3>1, <3>2, <3>3 DEF EndStep, MainInv, TypeOK, Steps
    <2>2. ASSUME main' = Select, UNCHANGED place
          PROVE  MainInv'
      BY <1>6, <2>2 DEF EndStep, MainInv, Select, Handling, Steps
    <2>. QED
      BY <1>6, <2>1, <2>2 DEF EndStep
  <1>7. CASE MoveToOver
    <2>1. /\ main.task \in Task /\ main' = Select /\ over' = <<main.task>> \o over
          /\ place' = [place EXCEPT ![main.task] = "over"]
      BY <1>7 DEF MoveToOver, OverWith, MainInv
    <2>2. over \in Seq(Task)
      BY DEF TypeOK
    <2>3. /\ DOMAIN over' = 1 .. Len(over) + 1 /\ over'[1] = main.task
          /\ \A k \in DOMAIN over : k + 1 \in DOMAIN over' /\ over'[k + 1] = over[k]
      BY <2>1, <2>2
    <2>4. 1 \in DOMAIN over'
      BY <2>2, <2>3
    <2>5. ASSUME NEW t \in Task, place'[t] = "over"
          PROVE  \E k \in DOMAIN over' : over'[k] = t
      <3>1. CASE t = main.task
        BY <2>3, <2>4, <3>1
      <3>2. CASE t # main.task
        <4>1. place[t] = "over"
          BY <2>1, <2>5, <3>2 DEF TypeOK
        <4>2. PICK k \in DOMAIN over : over[k] = t
          BY <4>1 DEF MainInv
        <4>. QED
          BY <2>3, <4>2
      <3>. QED
        BY <3>1, <3>2
    <2>6. main'.pc = "select"
      BY <2>1 DEF Select, Handling
    <2>7. \A t \in Task : place'[t] # "moving"
      BY <2>1 DEF MainInv, TypeOK
    <2>. QED
      BY <2>5, <2>6, <2>7 DEF MainInv, Steps
  <1>8. CASE Restart
    BY <1>8 DEF Restart, MainInv, Select, Handling, Steps
  <1>9. CASE UNCHANGED <<place, main, over>>
    BY <1>9 DEF MainInv
  <1>. QED
    BY <1>1, <1>2, <1>3, <1>4, <1>5, <1>6, <1>7, <1>8, <1>9, MainSteps

-----------------------------------------------------------------------------
(***************************************************************************)
(* What the dispatcher reported.                                           *)
(***************************************************************************)

LEMMA ReportInit == Init => ReportInv
  BY DEF Init, ReportInv, JobsIssued, InboxWitnessed, MainWitnessed, TicksReported,
         OverWasRun, Select, Handling, Steps

\* Numbers once given stay, and the ones of two tasks stay equal or different.
LEMMA IdsStay ==
  ASSUME TypeOK, NumberInv, [Next]_vars
  PROVE  /\ \A t \in Task : t <= issued => id'[t] = id[t] /\ t <= issued'
         /\ \A t \in Task : t <= issued => (Reused(t)' <=> Reused(t))
  <1>1. \A t \in Task : t <= issued => id'[t] = id[t] /\ t <= issued'
    <2>1. ASSUME NEW h \in HttpThreads, IssueAlloc(h)
          PROVE  \A t \in Task : t <= issued => id'[t] = id[t] /\ t <= issued'
      BY <2>1, TaskFacts, AllocFrame
    <2>2. ASSUME NEW h \in HttpThreads, IssueReject(h) \/ IssuePush(h)
          PROVE  UNCHANGED <<issued, id>>
      BY <2>2 DEF IssueReject, IssuePush
    <2>3. ASSUME EndStep \/ MoveToOver \/ Restart
          PROVE  UNCHANGED <<issued, id>>
      BY <2>3 DEF EndStep, MoveToOver, Restart
    <2>. QED
      BY <2>1, <2>2, <2>3, PlaceSteps
  <1>2. \A t, u \in Task : t <= issued /\ u < t => u <= issued
    BY TaskFacts
  <1>. QED
    BY <1>1, <1>2 DEF Reused

\* Only the dispatcher's reports change what it has reported.
LEMMA ReportSteps ==
  ASSUME [Next]_vars
  PROVE  \/ \E t \in Task, a \in Agvs : DispReport(t, a)
         \/ UNCHANGED reported
  <1>1. ASSUME HttpNext
        PROVE  UNCHANGED reported
    <2>1. ASSUME NEW h \in HttpThreads, IssueAlloc(h) \/ IssueReject(h) \/ IssuePush(h)
          PROVE  UNCHANGED reported
      BY <2>1 DEF IssueAlloc, IssueReject, IssuePush, dispVars
    <2>2. ASSUME NEW h \in HttpThreads, IssueSend(h) \/ StatusInOver(h)
          PROVE  UNCHANGED reported
      BY <2>2 DEF IssueSend, StatusInOver, dispVars
    <2>3. ASSUME NEW h \in HttpThreads, NEW i \in Askable,
                 QueryResult(h, i) \/ StatusInTis(h, i)
          PROVE  UNCHANGED reported
      BY <2>3 DEF QueryResult, StatusInTis, dispVars
    <2>. QED
      BY <1>1, <2>1, <2>2, <2>3 DEF HttpNext
  <1>2. ASSUME MainNext \/ TakeOver \/ Restart
        PROVE  UNCHANGED reported
    BY <1>2 DEF MainNext, Register, StoreResult, Waypoint, BeginStep, RunningStep,
                EndStep, MoveToOver, TakeOver, Restart, dispVars
  <1>3. ASSUME Connect \/ Disconnect
        PROVE  UNCHANGED reported
    BY <1>3 DEF Connect, Disconnect
  <1>4. ASSUME NEW a \in Agvs, DispRegister(a)
        PROVE  UNCHANGED reported
    BY <1>4 DEF DispRegister
  <1>5. ASSUME NEW t \in Task, NEW r \in Verdicts, DispResult(t, r)
        PROVE  UNCHANGED reported
    BY <1>5 DEF DispResult
  <1>6. ASSUME UNCHANGED vars
        PROVE  UNCHANGED reported
    BY <1>6 DEF vars, dispVars
  <1>. QED
    BY <1>1, <1>2, <1>3, <1>4, <1>5, <1>6 DEF Next, DispNext

\* What has been reported stays reported.
LEMMA ReportedGrows ==
  ASSUME TypeOK, [Next]_vars
  PROVE  \A t \in Task : reported[t] \subseteq reported'[t]
  <1>1. ASSUME NEW t \in Task, NEW a \in Agvs, DispReport(t, a)
        PROVE  \A u \in Task : reported[u] \subseteq reported'[u]
    <2>1. PICK s \in {job[t], After(job[t])} \ {"accepted"} : Reports(t, a, s)
      BY <1>1 DEF DispReport
    <2>. QED
      BY <2>1 DEF Reports, TypeOK
  <1>. QED
    BY <1>1, ReportSteps

LEMMA WitnessStays ==
  ASSUME TypeOK, NumberInv, ReportInv, [Next]_vars,
         NEW i, NEW s, Witnessed(i, s)
  PROVE  Witnessed(i, s)'
  <1>1. PICK t \in Task : id[t] = i /\ s \in reported[t]
    BY DEF Witnessed
  <1>2. t <= issued
    BY <1>1 DEF ReportInv, JobsIssued
  <1>. QED
    BY <1>1, <1>2, IdsStay, ReportedGrows DEF Witnessed

\* A waypoint with the number of a task the hub holds, whose number no earlier
\* task had, is about that task: a later one has another number.
LEMMA SameTask ==
  ASSUME TypeOK, NumberInv, ReportInv, NEW t \in Held, ~Reused(t),
         NEW s, Witnessed(id[t], s)
  PROVE  s \in reported[t]
  <1>1. PICK u \in Task : id[u] = id[t] /\ s \in reported[u]
    BY DEF Witnessed
  <1>2. u <= issued
    BY <1>1 DEF ReportInv, JobsIssued
  <1>3. t \in Task /\ id[t] \in Id /\ Task \subseteq Nat
    BY HeldIssued, TaskFacts DEF Held
  <1>4. ~(u < t)
    BY <1>1, <1>3 DEF Reused
  <1>5. CASE u > t
    <2>1. id[u] = Adv(id[t], u - t)
      BY <1>2, <1>3, <1>5 DEF NumberInv
    <2>2. u - t \in Nat /\ u - t > 0 /\ u - t <= MaxIssue
      BY <1>3, <1>5, SpanAssumption DEF Task
    <2>. QED
      BY <1>1, <1>3, <2>1, <2>2, AdvFacts
  <1>. QED
    BY <1>1, <1>3, <1>4, <1>5

\* The dispatcher works on tasks that were issued.
LEMMA JobsStep ==
  ASSUME TypeOK, NumberInv, ThreadInv, ReportInv, [Next]_vars
  PROVE  JobsIssued'
  <1>0. \A t \in Task : t <= issued => t <= issued'
    BY IdsStay
  <1>1. ASSUME NEW h \in HttpThreads, IssueSend(h)
        PROVE  \A t \in Task : job'[t] # "none" \/ reported'[t] # {} => t <= issued
    BY <1>1 DEF IssueSend, ThreadInv, ReportInv, JobsIssued, TypeOK
  <1>2. ASSUME NEW t \in Task, NEW r \in Verdicts, DispResult(t, r)
        PROVE  \A u \in Task : job'[u] # "none" \/ reported'[u] # {} => u <= issued
    BY <1>2 DEF DispResult, ReportInv, JobsIssued, TypeOK
  <1>3. ASSUME NEW t \in Task, NEW a \in Agvs, DispReport(t, a)
        PROVE  \A u \in Task : job'[u] # "none" \/ reported'[u] # {} => u <= issued
    <2>1. PICK s \in {job[t], After(job[t])} \ {"accepted"} : Reports(t, a, s)
      BY <1>3 DEF DispReport
    <2>2. t <= issued
      BY <1>3 DEF DispReport, ReportInv, JobsIssued
    <2>. QED
      BY <2>1, <2>2 DEF Reports, ReportInv, JobsIssued, TypeOK
  <1>4. ASSUME UNCHANGED <<job, reported>>
        PROVE  \A t \in Task : job'[t] # "none" \/ reported'[t] # {} => t <= issued
    BY <1>4 DEF ReportInv, JobsIssued
  <1>5. ASSUME NEW h \in HttpThreads, IssueAlloc(h) \/ IssueReject(h) \/ IssuePush(h)
        PROVE  UNCHANGED <<job, reported>>
    BY <1>5 DEF IssueAlloc, IssueReject, IssuePush, dispVars
  <1>6. ASSUME NEW h \in HttpThreads, StatusInOver(h)
        PROVE  UNCHANGED <<job, reported>>
    BY <1>6 DEF StatusInOver, dispVars
  <1>7. ASSUME NEW h \in HttpThreads, NEW i \in Askable, QueryResult(h, i) \/ StatusInTis(h, i)
        PROVE  UNCHANGED <<job, reported>>
    BY <1>7 DEF QueryResult, StatusInTis, dispVars
  <1>8. ASSUME MainNext \/ TakeOver \/ Restart
        PROVE  UNCHANGED <<job, reported>>
    BY <1>8 DEF MainNext, Register, StoreResult, Waypoint, BeginStep, RunningStep,
                EndStep, MoveToOver, TakeOver, Restart, dispVars
  <1>9. ASSUME Connect \/ Disconnect
        PROVE  UNCHANGED <<job, reported>>
    BY <1>9 DEF Connect, Disconnect
  <1>10. ASSUME NEW a \in Agvs, DispRegister(a)
         PROVE  UNCHANGED <<job, reported>>
    BY <1>10 DEF DispRegister
  <1>11. ASSUME UNCHANGED vars
         PROVE  UNCHANGED <<job, reported>>
    BY <1>11 DEF vars, dispVars
  <1>12. \A t \in Task : job'[t] # "none" \/ reported'[t] # {} => t <= issued
    BY <1>1, <1>2, <1>3, <1>4, <1>5, <1>6, <1>7, <1>8, <1>9, <1>10, <1>11
    DEF Next, HttpNext, DispNext
  <1>. QED
    BY <1>0, <1>12 DEF JobsIssued

\* Messages taken from the connection, lost with it, or put on it.
LEMMA InboxStep ==
  ASSUME TypeOK, TypeOK', NumberInv, ReportInv, [Next]_vars
  PROVE  InboxWitnessed'
  <1>0. /\ inbox \in Seq(Messages) /\ inbox' \in Seq(Messages)
        /\ \A i, s : Witnessed(i, s) => Witnessed(i, s)'
    BY WitnessStays DEF TypeOK
  <1>1. ASSUME \A k \in DOMAIN inbox' :
                 \/ \E j \in DOMAIN inbox : inbox'[k] = inbox[j]
                 \/ inbox'[k].cmd # 657202
        PROVE  InboxWitnessed'
    BY <1>0, <1>1 DEF ReportInv, InboxWitnessed
  <1>2. CASE UNCHANGED inbox
    BY <1>1, <1>2
  <1>3. CASE inbox # <<>> /\ inbox' = Tail(inbox)
    <2>1. \A k \in DOMAIN inbox' : k + 1 \in DOMAIN inbox /\ inbox'[k] = inbox[k + 1]
      BY <1>0, <1>3
    <2>. QED
      BY <1>1, <2>1
  <1>4. CASE Disconnect
    <2>1. PICK n \in 0 .. Len(inbox) : inbox' = SubSeq(inbox, 1, n)
      BY <1>4 DEF Disconnect
    <2>2. \A k \in DOMAIN inbox' : k \in DOMAIN inbox /\ inbox'[k] = inbox[k]
      BY <1>0, <2>1
    <2>. QED
      BY <1>1, <2>2
  <1>5. ASSUME NEW m \in Messages, Sent(m)
        PROVE  \A k \in DOMAIN inbox' :
                 \/ \E j \in DOMAIN inbox : inbox'[k] = inbox[j]
                 \/ inbox'[k] = m /\ conn
    <2>1. CASE conn
      <3>1. inbox' = Append(inbox, m)
        BY <1>5, <2>1 DEF Sent
      <3>2. \A k \in DOMAIN inbox' :
              \/ k \in DOMAIN inbox /\ inbox'[k] = inbox[k]
              \/ inbox'[k] = m
        BY <1>0, <3>1
      <3>. QED
        BY <2>1, <3>2
    <2>2. CASE ~conn
      <3>1. inbox' = inbox
        BY <1>5, <2>2 DEF Sent
      <3>. QED
        BY <3>1
    <2>. QED
      BY <2>1, <2>2
  <1>6. ASSUME NEW a \in Agvs, DispRegister(a)
        PROVE  InboxWitnessed'
    <2>. DEFINE m == [cmd |-> 657185, agv |-> a]
    <2>1. Sent(m) /\ m \in Messages /\ m.cmd = 657185
      BY <1>6, MessagesMade DEF DispRegister
    <2>. HIDE DEF m
    <2>. QED
      BY <1>1, <1>5, <2>1
  <1>7. ASSUME NEW t \in Task, NEW r \in Verdicts, DispResult(t, r)
        PROVE  InboxWitnessed'
    <2>. DEFINE m == [cmd |-> 657301, id |-> id[t], result |-> r]
    <2>1. id[t] \in Id
      BY <1>7 DEF DispResult, ReportInv, JobsIssued, NumberInv, TypeOK
    <2>2. Sent(m) /\ m \in Messages /\ m.cmd = 657301
      BY <1>7, <2>1, MessagesMade DEF DispResult
    <2>. HIDE DEF m
    <2>. QED
      BY <1>1, <1>5, <2>2
  <1>8. ASSUME NEW t \in Task, NEW a \in Agvs, DispReport(t, a)
        PROVE  InboxWitnessed'
    <2>1. PICK s \in {job[t], After(job[t])} \ {"accepted"} : Reports(t, a, s)
      BY <1>8 DEF DispReport
    <2>2. s \in Steps
      BY <1>8 DEF DispReport, After, Steps
    <2>3. id[t] \in Id
      BY <1>8 DEF DispReport, ReportInv, JobsIssued, NumberInv, TypeOK
    <2>. DEFINE m == [cmd |-> 657202, id |-> id[t], state |-> s, agv |-> a]
    <2>4. Sent(m) /\ m \in Messages /\ m.id = id[t] /\ m.state = s
      BY <2>1, <2>2, <2>3, MessagesMade DEF Reports
    <2>5. id' = id
      BY <1>8 DEF DispReport, taskVars
    <2>6. ASSUME conn
          PROVE  Witnessed(id[t], s)'
      <3>1. s \in reported'[t]
        BY <2>1, <2>6 DEF Reports, TypeOK
      <3>. QED
        BY <2>5, <3>1 DEF Witnessed
    <2>. HIDE DEF m
    <2>7. ASSUME NEW k \in DOMAIN inbox', inbox'[k].cmd = 657202
          PROVE  Witnessed(inbox[k].id, inbox[k].state)'
      <3>1. CASE \E j \in DOMAIN inbox : inbox'[k] = inbox[j]
        BY <1>0, <2>7, <3>1 DEF ReportInv, InboxWitnessed
      <3>2. CASE inbox'[k] = m /\ conn
        BY <2>4, <2>5, <2>6, <3>2
      <3>. QED
        BY <1>5, <2>4, <3>1, <3>2
    <2>. QED
      BY <2>7 DEF InboxWitnessed
  <1>9. CASE Restart
    BY <1>9 DEF Restart, InboxWitnessed
  <1>10. ASSUME HttpNext
         PROVE  UNCHANGED inbox
    <2>1. ASSUME NEW h \in HttpThreads, IssueAlloc(h) \/ IssueReject(h) \/ IssuePush(h)
          PROVE  UNCHANGED inbox
      BY <2>1 DEF IssueAlloc, IssueReject, IssuePush, dispVars
    <2>2. ASSUME NEW h \in HttpThreads, IssueSend(h) \/ StatusInOver(h)
          PROVE  UNCHANGED inbox
      BY <2>2 DEF IssueSend, StatusInOver, dispVars
    <2>3. ASSUME NEW h \in HttpThreads, NEW i \in Askable,
                 QueryResult(h, i) \/ StatusInTis(h, i)
          PROVE  UNCHANGED inbox
      BY <2>3 DEF QueryResult, StatusInTis, dispVars
    <2>. QED
      BY <1>10, <2>1, <2>2, <2>3 DEF HttpNext
  <1>11. ASSUME MainNext
         PROVE  UNCHANGED inbox \/ (inbox # <<>> /\ inbox' = Tail(inbox))
    BY <1>11 DEF MainNext, Register, StoreResult, Waypoint, BeginStep, RunningStep,
                 EndStep, MoveToOver, dispVars
  <1>12. ASSUME TakeOver \/ Connect
         PROVE  UNCHANGED inbox
    BY <1>12 DEF TakeOver, Connect, dispVars
  <1>13. ASSUME UNCHANGED vars
         PROVE  UNCHANGED inbox
    BY <1>13 DEF vars, dispVars
  <1>. QED
    BY <1>2, <1>3, <1>4, <1>6, <1>7, <1>8, <1>9, <1>10, <1>11, <1>12, <1>13
    DEF Next, DispNext

\* The waypoint in hand was sent.
LEMMA MainWitnessedStep ==
  ASSUME TypeOK, NumberInv, ReportInv, [Next]_vars
  PROVE  MainWitnessed'
  <1>0. \A i, s : Witnessed(i, s) => Witnessed(i, s)'
    BY WitnessStays
  <1>1. ASSUME main'.pc = main.pc, main'.id = main.id
        PROVE  MainWitnessed'
    BY <1>0, <1>1 DEF ReportInv, MainWitnessed
  <1>2. ASSUME main' = Select
        PROVE  MainWitnessed'
    BY <1>2 DEF MainWitnessed, Select, Handling, Steps
  <1>3. ASSUME NEW h \in HttpThreads, IssueAlloc(h) \/ IssueReject(h) \/ IssuePush(h)
        PROVE  MainWitnessed'
    BY <1>1, <1>3 DEF IssueAlloc, IssueReject, IssuePush, TypeOK, MainStates
  <1>4. CASE Waypoint
    <2>1. Head(inbox) = inbox[1] /\ 1 \in DOMAIN inbox
      BY <1>4 DEF Waypoint, TypeOK
    <2>2. Witnessed(Head(inbox).id, Head(inbox).state)
      BY <1>4, <2>1 DEF Waypoint, ReportInv, InboxWitnessed
    <2>3. main'.id = Head(inbox).id /\ main'.pc = Head(inbox).state
      BY <1>4 DEF Waypoint, Handling
    <2>. QED
      BY <1>0, <2>2, <2>3 DEF MainWitnessed
  <1>5. CASE BeginStep \/ RunningStep \/ MoveToOver \/ Restart
    BY <1>2, <1>5 DEF BeginStep, RunningStep, MoveToOver, Restart
  <1>6. CASE EndStep
    <2>1. ASSUME NEW t \in Tis, main' = Handling("over", main.id, main.agv, t)
          PROVE  MainWitnessed'
      BY <2>1 DEF Handling, MainWitnessed, Steps
    <2>. QED
      BY <1>2, <1>6, <2>1 DEF EndStep
  <1>7. CASE UNCHANGED <<place, main, over>>
    BY <1>1, <1>7
  <1>. QED
    BY <1>3, <1>4, <1>5, <1>6, <1>7, MainSteps

\* The steps that tick off a step of a task or change where a task is.
LEMMA TickSteps ==
  ASSUME [Next]_vars
  PROVE  \/ \E h \in HttpThreads : IssueAlloc(h) \/ IssueReject(h) \/ IssuePush(h)
         \/ BeginStep \/ RunningStep \/ EndStep \/ MoveToOver \/ Restart
         \/ UNCHANGED <<place, steps>>
  <1>1. ASSUME NEW h \in HttpThreads, IssueSend(h) \/ StatusInOver(h)
        PROVE  UNCHANGED <<place, steps>>
    BY <1>1 DEF IssueSend, StatusInOver, taskVars
  <1>2. ASSUME NEW h \in HttpThreads, NEW i \in Askable,
               QueryResult(h, i) \/ StatusInTis(h, i)
        PROVE  UNCHANGED <<place, steps>>
    BY <1>2 DEF QueryResult, StatusInTis, taskVars
  <1>3. ASSUME Register \/ StoreResult \/ Waypoint \/ TakeOver
        PROVE  UNCHANGED <<place, steps>>
    BY <1>3 DEF Register, StoreResult, Waypoint, TakeOver, taskVars
  <1>4. ASSUME Connect \/ Disconnect
        PROVE  UNCHANGED <<place, steps>>
    BY <1>4 DEF Connect, Disconnect, taskVars
  <1>5. ASSUME NEW a \in Agvs, DispRegister(a)
        PROVE  UNCHANGED <<place, steps>>
    BY <1>5 DEF DispRegister, taskVars
  <1>6. ASSUME NEW t \in Task, NEW r \in Verdicts, DispResult(t, r)
        PROVE  UNCHANGED <<place, steps>>
    BY <1>6 DEF DispResult, taskVars
  <1>7. ASSUME NEW t \in Task, NEW a \in Agvs, DispReport(t, a)
        PROVE  UNCHANGED <<place, steps>>
    BY <1>7 DEF DispReport, taskVars
  <1>8. ASSUME UNCHANGED vars
        PROVE  UNCHANGED <<place, steps>>
    BY <1>8 DEF vars, taskVars
  <1>. QED
    BY <1>1, <1>2, <1>3, <1>4, <1>5, <1>6, <1>7, <1>8 DEF Next, HttpNext, MainNext, DispNext

\* A task the main thread finds in tis under the number of the waypoint in hand
\* has had that waypoint reported.
LEMMA FoundWasReported ==
  ASSUME TypeOK, NumberInv, ReportInv, NEW t \in Tis, id[t] = main.id,
         main.pc \in Steps, ~Reused(t)
  PROVE  main.pc \in reported[t]
  <1>1. t \in Held
    BY DEF Tis, Held
  <1>2. Witnessed(id[t], main.pc)
    BY DEF ReportInv, MainWitnessed
  <1>. QED
    BY <1>1, <1>2, SameTask

LEMMA TicksStep ==
  ASSUME TypeOK, TypeOK', NumberInv, ThreadInv, MainInv, ReportInv, [Next]_vars
  PROVE  TicksReported'
  <1>0. /\ \A t \in Task : steps[t] # {} => place[t] = "tis"
        /\ \A t \in Task : place[t] # "unissued" =>
             /\ ~Reused(t)' => ~Reused(t)
             /\ ~Reused(t)' => steps[t] \subseteq reported'[t]
    <2>1. \A t \in Task : place[t] # "unissued" => t <= issued
      BY HeldIssued
    <2>2. \A t \in Task : /\ steps[t] # {} => place[t] = "tis"
                          /\ ~Reused(t) => steps[t] \subseteq reported[t]
      BY DEF ReportInv, TicksReported
    <2>3. \A t \in Task : place[t] # "unissued" => (Reused(t)' <=> Reused(t))
      BY <2>1, IdsStay
    <2>4. \A t \in Task : reported[t] \subseteq reported'[t]
      BY ReportedGrows
    <2>5. ASSUME NEW t \in Task, place[t] # "unissued", ~Reused(t)'
          PROVE  ~Reused(t) /\ steps[t] \subseteq reported'[t]
      BY <2>2, <2>3, <2>4, <2>5
    <2>. QED
      BY <2>2, <2>5
  <1>1. ASSUME UNCHANGED steps,
               \A t \in Task : place[t] = "tis" => place'[t] = "tis"
        PROVE  TicksReported'
    BY <1>0, <1>1 DEF TicksReported
  <1>2. ASSUME NEW h \in HttpThreads, IssueAlloc(h)
        PROVE  TicksReported'
    <2>1. UNCHANGED steps
      BY <1>2 DEF IssueAlloc
    <2>2. \A t \in Task : place[t] = "tis" => place'[t] = "tis"
      BY <1>2, AllocFrame
    <2>. QED
      BY <1>1, <2>1, <2>2
  <1>3. ASSUME NEW h \in HttpThreads, IssueReject(h) \/ IssuePush(h)
        PROVE  TicksReported'
    <2>1. http[h].task \in Task /\ place[http[h].task] = "alloc"
      BY <1>3 DEF IssueReject, IssuePush, ThreadInv
    <2>2. UNCHANGED steps
      BY <1>3 DEF IssueReject, IssuePush
    <2>3. \A t \in Task : place[t] = "tis" => place'[t] = "tis"
      BY <1>3, <2>1 DEF IssueReject, IssuePush, TypeOK
    <2>. QED
      BY <1>1, <2>2, <2>3
  <1>4. ASSUME NEW t \in Tis, id[t] = main.id, main.pc \in Steps,
               Tick(t, main.pc), UNCHANGED place
        PROVE  TicksReported'
    <2>1. t \in Task /\ place[t] = "tis"
      BY DEF Tis
    <2>2. steps' = [steps EXCEPT ![t] = steps[t] \union {main.pc}]
      BY <1>4 DEF Tick
    <2>3. ~Reused(t)' => main.pc \in reported'[t]
      BY <1>0, <1>4, <2>1, FoundWasReported, ReportedGrows
    <2>4. \A u \in Task : steps'[u] = IF u = t THEN steps[t] \union {main.pc} ELSE steps[u]
      BY <2>1, <2>2 DEF TypeOK
    <2>. QED
      BY <1>0, <1>4, <2>1, <2>3, <2>4 DEF TicksReported
  <1>5. CASE BeginStep
    BY <1>1, <1>4, <1>5 DEF BeginStep, Steps
  <1>6. CASE RunningStep
    BY <1>1, <1>4, <1>6 DEF RunningStep, Steps
  <1>7. CASE EndStep
    <2>1. ASSUME NEW t \in Tis, steps' = [steps EXCEPT ![t] = {}],
                 place' = [place EXCEPT ![t] = "moving"]
          PROVE  TicksReported'
      <3>1. t \in Task
        BY DEF Tis
      <3>2. \A u \in Task : /\ steps'[u] = IF u = t THEN {} ELSE steps[u]
                            /\ u # t => place'[u] = place[u]
        BY <2>1, <3>1 DEF TypeOK
      <3>3. ASSUME NEW u \in Task
            PROVE  /\ steps'[u] # {} => place'[u] = "tis"
                   /\ ~Reused(u)' => steps'[u] \subseteq reported'[u]
        <4>1. CASE u = t
          BY <3>2, <4>1
        <4>2. CASE u # t /\ steps[u] = {}
          BY <3>2, <4>2
        <4>3. CASE u # t /\ steps[u] # {}
          BY <1>0, <3>2, <4>3
        <4>. QED
          BY <4>1, <4>2, <4>3
      <3>. QED
        BY <3>3 DEF TicksReported
    <2>. QED
      BY <1>1, <1>4, <1>7, <2>1 DEF EndStep, Steps
  <1>8. CASE MoveToOver
    <2>1. \A t \in Task : place[t] = "tis" => place'[t] = "tis"
      BY <1>8 DEF MoveToOver, MainInv, TypeOK
    <2>. QED
      BY <1>1, <1>8, <2>1 DEF MoveToOver
  <1>9. CASE Restart
    BY <1>9 DEF Restart, TicksReported
  <1>10. CASE UNCHANGED <<place, steps>>
    BY <1>1, <1>10
  <1>. QED
    BY <1>2, <1>3, <1>5, <1>6, <1>7, <1>8, <1>9, <1>10, TickSteps

LEMMA OverWasRunStep ==
  ASSUME TypeOK, TypeOK', NumberInv, ThreadInv, MainInv, ReportInv, [Next]_vars
  PROVE  OverWasRun'
  <1>0. ASSUME NEW t \in Task, place[t] \in {"moving", "over"}, ~Reused(t)'
        PROVE  reported'[t] = Steps
    <2>1. ~Reused(t)
      BY <1>0, HeldIssued, IdsStay
    <2>2. reported[t] = Steps
      BY <1>0, <2>1 DEF ReportInv, OverWasRun
    <2>3. Steps \subseteq reported'[t] /\ reported'[t] \subseteq Steps
      BY <2>2, ReportedGrows DEF TypeOK
    <2>. QED
      BY <2>3, Zenon
  <1>1. ASSUME \A t \in Task : place'[t] \in {"moving", "over"} => place[t] \in {"moving", "over"}
        PROVE  OverWasRun'
    BY <1>0, <1>1 DEF OverWasRun
  <1>2. ASSUME NEW h \in HttpThreads, IssueAlloc(h)
        PROVE  OverWasRun'
    BY <1>1, <1>2, AllocFrame
  <1>3. ASSUME NEW h \in HttpThreads, IssueReject(h) \/ IssuePush(h)
        PROVE  OverWasRun'
    BY <1>1, <1>3 DEF IssueReject, IssuePush, ThreadInv, TypeOK
  <1>4. CASE EndStep
    <2>1. ASSUME NEW t \in Tis, id[t] = main.id, Ticked(t),
                 place' = [place EXCEPT ![t] = "moving"]
          PROVE  OverWasRun'
      <3>1. t \in Task /\ place[t] = "tis"
        BY DEF Tis
      <3>2. ASSUME ~Reused(t)'
            PROVE  reported'[t] = Steps
        <4>1. ~Reused(t)
          BY <3>1, <3>2, HeldIssued, IdsStay
        <4>2. "E" \in reported[t]
          BY <1>4, <2>1, <4>1, FoundWasReported DEF EndStep, Steps
        <4>3. {"B", "R"} \subseteq reported[t]
          BY <2>1, <3>1, <4>1 DEF Ticked, ReportInv, TicksReported
        <4>. QED
          BY <3>1, <4>2, <4>3, ReportedGrows DEF TypeOK, Steps
      <3>3. \A u \in Task : u # t => place'[u] = place[u]
        BY <2>1, <3>1 DEF TypeOK
      <3>. QED
        BY <1>0, <3>2, <3>3 DEF OverWasRun
    <2>2. ASSUME UNCHANGED place
          PROVE  OverWasRun'
      BY <1>1, <2>2
    <2>. QED
      BY <1>4, <2>1, <2>2 DEF EndStep
  <1>5. CASE MoveToOver
    BY <1>1, <1>5 DEF MoveToOver, MainInv, TypeOK
  <1>6. CASE Restart
    BY <1>1, <1>6 DEF Restart
  <1>7. CASE UNCHANGED <<gId, issued, id, place>>
    BY <1>1, <1>7
  <1>. QED
    BY <1>2, <1>3, <1>4, <1>5, <1>6, <1>7, PlaceSteps

-----------------------------------------------------------------------------
(***************************************************************************)
(* The theorems.                                                           *)
(***************************************************************************)

\* The strengthening of the safety invariants is inductive.
THEOREM Inductive == Spec => []IndInv
  <1>1. Init => IndInv
    BY TypeInit, NumberInit, ThreadInit, MainInit, ReportInit DEF IndInv
  <1>2. ASSUME IndInv, [Next]_vars
        PROVE  IndInv'
    <2>1. TypeOK /\ NumberInv /\ ThreadInv /\ MainInv /\ ReportInv
      BY <1>2 DEF IndInv
    <2>2. TypeOK'
      BY <1>2, <2>1, TypeStep
    <2>3. NumberInv' /\ ThreadInv' /\ MainInv'
      BY <1>2, <2>1, <2>2, NumberStep, ThreadStep, MainStep
    <2>4. JobsIssued' /\ InboxWitnessed' /\ MainWitnessed'
      BY <1>2, <2>1, <2>2, JobsStep, InboxStep, MainWitnessedStep
    <2>5. TicksReported' /\ OverWasRun'
      BY <1>2, <2>1, <2>2, TicksStep, OverWasRunStep
    <2>. QED
      BY <2>2, <2>3, <2>4, <2>5 DEF IndInv, ReportInv
  <1>. QED
    BY <1>1, <1>2, PTL DEF Spec

\* Every variable of the hub keeps its type, whatever the number of threads,
\* vehicles, tasks and faults.
THEOREM TypeCorrect == Spec => []TypeOK
  <1>1. IndInv => TypeOK
    BY DEF IndInv
  <1>. QED
    BY <1>1, Inductive, PTL

\* No two tasks the hub holds have the same number, and none has number 0, also
\* across the wrap of the counter and after a restart that reads an old one.
THEOREM HeldNumbers == Spec => []HeldIdsProper
  <1>1. ASSUME TypeOK, NumberInv
        PROVE  HeldIdsProper
    <2>1. \A t \in Held : t \in Task /\ t \in Nat /\ t <= issued /\ id[t] \in Id
      BY <1>1, HeldIssued DEF Held
    <2>2. ASSUME NEW t \in Held, NEW u \in Held, t < u
          PROVE  id[t] # id[u]
      <3>1. id[u] = Adv(id[t], u - t)
        BY <1>1, <2>1, <2>2 DEF NumberInv
      <3>2. u - t \in Nat /\ u - t > 0 /\ u - t <= MaxIssue
        BY <2>1, <2>2, SpanAssumption DEF Task
      <3>. QED
        BY <2>1, <3>1, <3>2, AdvFacts
    <2>3. \A t \in Held : id[t] # 0
      BY <2>1, SpanAssumption DEF Id
    <2>4. ASSUME NEW t \in Held, NEW u \in Held, id[t] = id[u]
          PROVE  t = u
      <3>1. t < u \/ u < t \/ t = u
        BY <2>1
      <3>. QED
        BY <2>2, <2>4, <3>1
    <2>5. Held \subseteq Task
      BY DEF Held
    <2>. QED
      BY <2>3, <2>4, <2>5 DEF HeldIdsProper
  <1>2. IndInv => HeldIdsProper
    BY <1>1 DEF IndInv
  <1>. QED
    BY <1>2, Inductive, PTL

\* A task under a number of its own is finished only after the dispatcher has
\* reported its begin, its run and its end.
THEOREM FinishedWasRun == Spec => []OverWasRun
  <1>1. IndInv => OverWasRun
    BY DEF IndInv, ReportInv
  <1>. QED
    BY <1>1, Inductive, PTL

\* Only the second section of 678010 answers "unknown".
LEMMA WhoSaysUnknown ==
  ASSUME TypeOK, Next, answer'.said = "unknown"
  PROVE  \E h \in HttpThreads : StatusInOver(h)
  <1>1. ASSUME NoAnswer
        PROVE  FALSE
    BY <1>1 DEF NoAnswer, Silent
  <1>2. ASSUME NEW h \in HttpThreads, IssueAlloc(h) \/ IssueReject(h) \/ IssuePush(h)
        PROVE  FALSE
    BY <1>1, <1>2 DEF IssueAlloc, IssueReject, IssuePush, Answer
  <1>3. ASSUME NEW h \in HttpThreads, IssueSend(h)
        PROVE  FALSE
    BY <1>3 DEF IssueSend, Answer
  <1>4. ASSUME NEW h \in HttpThreads, NEW i \in Askable, QueryResult(h, i)
        PROVE  FALSE
    <2>1. \A t \in Tis : r_ti[t] # "unknown"
      BY DEF Tis, TypeOK, Verdicts
    <2>. QED
      BY <1>4, <2>1 DEF QueryResult, Answer
  <1>5. ASSUME NEW h \in HttpThreads, NEW i \in Askable, StatusInTis(h, i)
        PROVE  FALSE
    BY <1>1, <1>5 DEF StatusInTis, Answer
  <1>6. ASSUME MainNext \/ TakeOver \/ Restart
        PROVE  FALSE
    BY <1>1, <1>6 DEF MainNext, Register, StoreResult, Waypoint, BeginStep,
       RunningStep, EndStep, MoveToOver, TakeOver, Restart
  <1>7. ASSUME DispNext
        PROVE  NoAnswer
    <2>1. ASSUME Connect \/ Disconnect
          PROVE  NoAnswer
      BY <2>1 DEF Connect, Disconnect
    <2>2. ASSUME NEW a \in Agvs, DispRegister(a)
          PROVE  NoAnswer
      BY <2>2 DEF DispRegister
    <2>3. ASSUME NEW t \in Task, NEW r \in Verdicts, DispResult(t, r)
          PROVE  NoAnswer
      BY <2>3 DEF DispResult
    <2>4. ASSUME NEW t \in Task, NEW a \in Agvs, DispReport(t, a)
          PROVE  NoAnswer
      BY <2>4 DEF DispReport
    <2>. QED
      BY <1>7, <2>1, <2>2, <2>3, <2>4 DEF DispNext
  <1>. QED
    BY <1>1, <1>2, <1>3, <1>4, <1>5, <1>6, <1>7 DEF Next, HttpNext

\* A task that is in tis or in tis_over is always found by 678010: "unknown" is
\* only said while the main thread has the task in its hands.
THEOREM UnknownMeansMoving == Spec => UnknownOnlyWhileMoving
  <1>. DEFINE A == \A t \in Task :
                     (/\ answer'.said = "unknown" /\ answer'.about = id[t]
                      /\ ~\E u \in Task \ {t} : id[u] = id[t]
                      /\ place[t] \in {"tis", "moving", "over"})
                     => place[t] = "moving"
  <1>1. ASSUME IndInv, Next
        PROVE  A
    <2>. SUFFICES ASSUME NEW t \in Task, answer'.said = "unknown",
                         answer'.about = id[t],
                         ~\E u \in Task \ {t} : id[u] = id[t],
                         place[t] \in {"tis", "moving", "over"}
                  PROVE  place[t] = "moving"
      OBVIOUS
    <2>1. TypeOK /\ ThreadInv /\ MainInv
      BY <1>1 DEF IndInv
    <2>2. PICK h \in HttpThreads : StatusInOver(h)
      BY <1>1, <2>1, WhoSaysUnknown
    <2>3. /\ http[h].pc = "over" /\ http[h].asked = id[t]
          /\ ~\E k \in DOMAIN over : id[over[k]] = id[t]
      BY <2>2 DEF StatusInOver, Answer
    <2>4. place[t] # "over"
      BY <2>1, <2>3 DEF MainInv
    <2>5. Gone(id[t])
      BY <2>1, <2>3 DEF ThreadInv
    <2>6. place[t] \in {"moving", "over", "lost"}
      BY <2>5 DEF Gone
    <2>. QED
      BY <2>4, <2>6
  <1>2. ASSUME IndInv, [Next]_vars
        PROVE  [A]_vars
    BY <1>1, <1>2
  <1>. QED
    BY <1>2, Inductive, PTL DEF Spec, UnknownOnlyWhileMoving

-----------------------------------------------------------------------------
(***************************************************************************)
(* The hub implements the life of a task.                                  *)
(***************************************************************************)

\* What the life of a task sees of the hub.
fresh == {t \in Task : place[t] \in {"unissued", "alloc"}}
held == {t \in Task : place[t] \in {"tis", "moving"}}

LEMMA LifeInit == Init => Life!Init
  BY DEF Init, Life!Init

LEMMA LifeStep ==
  ASSUME IndInv, [Next]_vars
  PROVE  [Life!Next]_(Life!lifeVars)
  <1>0. /\ TypeOK /\ NumberInv /\ ThreadInv /\ MainInv
    BY DEF IndInv
  <1>1. ASSUME fresh' = fresh, held' = held, over' = over
        PROVE  UNCHANGED Life!lifeVars
    BY <1>1 DEF Life!lifeVars, fresh, held
  <1>2. ASSUME NEW h \in HttpThreads, IssueAlloc(h)
        PROVE  UNCHANGED Life!lifeVars
    <2>1. over' = over
      BY <1>2 DEF IssueAlloc
    <2>2. fresh' = fresh /\ held' = held
      BY <1>0, <1>2, AllocFrame DEF fresh, held
    <2>. QED
      BY <1>1, <2>1, <2>2
  <1>3. ASSUME NEW h \in HttpThreads, IssueReject(h)
        PROVE  Life!Next
    <2>1. PICK t \in Task : t = http[h].task /\ place[t] = "alloc"
      BY <1>0, <1>3 DEF IssueReject, ThreadInv
    <2>2. \A u \in Task : place'[u] = IF u = t THEN "dropped" ELSE place[u]
      BY <1>0, <1>3, <2>1 DEF IssueReject, TypeOK
    <2>3. over' = over
      BY <1>3 DEF IssueReject
    <2>4. Life!Refuse(t)
      BY <2>1, <2>2, <2>3 DEF Life!Refuse
    <2>. QED
      BY <2>4 DEF Life!Next
  <1>4. ASSUME NEW h \in HttpThreads, IssuePush(h)
        PROVE  Life!Next
    <2>1. PICK t \in Task : t = http[h].task /\ place[t] = "alloc"
      BY <1>0, <1>4 DEF IssuePush, ThreadInv
    <2>2. \A u \in Task : place'[u] = IF u = t THEN "tis" ELSE place[u]
      BY <1>0, <1>4, <2>1 DEF IssuePush, TypeOK
    <2>3. over' = over
      BY <1>4 DEF IssuePush
    <2>4. Life!Accept(t)
      BY <2>1, <2>2, <2>3 DEF Life!Accept
    <2>. QED
      BY <2>4 DEF Life!Next
  <1>5. CASE Waypoint \/ BeginStep \/ RunningStep
    <2>1. UNCHANGED <<place, over>>
      BY <1>5 DEF Waypoint, BeginStep, RunningStep, taskVars
    <2>. QED
      BY <1>1, <2>1 DEF fresh, held
  <1>6. CASE EndStep
    <2>1. over' = over
      BY <1>6 DEF EndStep
    <2>2. fresh' = fresh /\ held' = held
      BY <1>0, <1>6 DEF EndStep, Tis, TypeOK, fresh, held
    <2>. QED
      BY <1>1, <2>1, <2>2
  <1>7. CASE MoveToOver
    <2>1. PICK t \in Task : t = main.task /\ place[t] = "moving"
      BY <1>0, <1>7 DEF MoveToOver, MainInv
    <2>2. \A u \in Task : place'[u] = IF u = t THEN "over" ELSE place[u]
      BY <1>0, <1>7, <2>1 DEF MoveToOver, TypeOK
    <2>3. over' = <<t>> \o over
      BY <1>7, <2>1 DEF MoveToOver, OverWith
    <2>4. Life!Finish(t)
      BY <2>1, <2>2, <2>3 DEF Life!Finish
    <2>. QED
      BY <2>4 DEF Life!Next
  <1>8. CASE Restart
    <2>1. \A u \in Task : place'[u] = IF place[u] \in {"alloc", "tis", "moving", "over"}
                                      THEN "lost" ELSE place[u]
      BY <1>8 DEF Restart
    <2>2. over' = <<>>
      BY <1>8 DEF Restart
    <2>. DEFINE died == {t \in Task : place[t] = "alloc"}
    <2>3. fresh' = fresh \ died /\ died \in SUBSET fresh /\ held' = {}
      BY <2>1 DEF fresh, held
    <2>. HIDE DEF died
    <2>4. \E d \in SUBSET fresh : fresh' = fresh \ d
      BY <2>3
    <2>5. Life!Restart
      BY <2>2, <2>3, <2>4 DEF Life!Restart, fresh, held
    <2>. QED
      BY <2>5 DEF Life!Next
  <1>9. CASE UNCHANGED <<place, main, over>>
    BY <1>1, <1>9 DEF fresh, held
  <1>. QED
    BY <1>2, <1>3, <1>4, <1>5, <1>6, <1>7, <1>8, <1>9, MainSteps

\* The hub accepts a task once and finishes it once, and its list of finished
\* tasks only grows at the front; a restart forgets all and brings none back.
THEOREM HubImplementsLife == Spec => LifeSpec
  BY LifeInit, LifeStep, Inductive, PTL DEF Spec, LifeSpec, Life!Spec
=============================================================================
