---------------------------- MODULE IssueClient -----------------------------
(***************************************************************************)
(* One client (src/NgStorage6) and the hub: a task is issued, its verdict  *)
(* asked for, its row in the list kept up to date.  A client issues its    *)
(* next task only when the hub has given a verdict on the last one: the    *)
(* event event_nextagvtask is the permit.  All handlers of the client run  *)
(* in its user interface thread and every request is synchronous, so a     *)
(* handler is one step; a modal dialog lets the timers run.                *)
(*                                                                         *)
(* The hub is its abstract specification TaskLife, which TaskHub           *)
(* implements, with the numbers and verdicts of the tasks.                 *)
(***************************************************************************)
EXTENDS EndPick, Naturals, Sequences

CONSTANTS
  Kind,      \* kinds of task, see Kinds
  Verdict,   \* what the dispatcher may decide
  MaxIssue,  \* bound: tasks this client issues
  MaxNum,    \* bound: task numbers
  MaxFault   \* bound: answers lost and restarts of the hub

\* One of each sort the client treats alike: I1 I2, U1 U2 L1 L2, X1 to X21.
Kinds == {"I", "U", "X", "CHRG"}

ASSUME IssueAssumption ==
  /\ {MaxIssue, MaxNum, MaxFault} \subseteq Nat
  /\ Kind \subseteq Kinds
  /\ {"", "pending"} \intersect Verdict = {}

Task == 1..MaxIssue    \* task t becomes row t of the list

VARIABLES
  fresh, held, done,  \* the hub: see TaskLife
  num,                \* num[t]: the number the hub gave, 0: none yet
  verdict,            \* verdict[t]: see r_ti in TaskHub
  nxt,                \* the hub's next number
  faults,             \* answers lost and restarts so far
  restarted,          \* the hub was restarted
  permit,             \* event_nextagvtask is set
  dialog,             \* the dialog for the ware, Form6, is open
  av,                 \* av_pending: number and ends of the last task
  timer,              \* timer_query_rti is enabled
  rows                \* at_items with what the grid shows of them

hubVars == <<fresh, held, done, num, verdict, nxt, faults, restarted>>
vars == <<pickVars, hubVars, permit, dialog, av, timer, rows>>

Hub == INSTANCE TaskLife

Blank == [id |-> 0, s |-> Nowhere, e |-> Nowhere]
Ends == Loc \union {Nowhere}
View == [id : 0..MaxNum, s : Ends, e : Ends]
\* `finished`: state_running is 2; `shown` and `rti` are texts in the grid.
\* Of the other values of state_running only the text tells them apart.
Row == [id : 0..MaxNum, s : Ends, e : Ends, tsk : Kind, finished : BOOLEAN,
        shown : {"", "open", "finished"}, rti : Verdict \union {""}]

TypeOK ==
  /\ PickTypeOK
  /\ fresh \subseteq Task /\ held \subseteq Task /\ done \in Seq(Task)
  /\ num \in [Task -> 0..MaxNum]
  /\ verdict \in [Task -> Verdict \union {"pending"}]
  /\ nxt \in 1..(MaxNum + 1) /\ faults \in 0..MaxFault
  /\ restarted \in BOOLEAN /\ permit \in BOOLEAN
  /\ dialog \in BOOLEAN /\ timer \in BOOLEAN
  /\ av \in View
  /\ rows \in Seq(Row) /\ Len(rows) \in 0..MaxIssue

\* FormCreate creates the event signalled.
Init ==
  /\ PickInit /\ Hub!Init
  /\ num = [t \in Task |-> 0] /\ verdict = [t \in Task |-> "pending"]
  /\ nxt = 1 /\ faults = 0 /\ restarted = FALSE
  /\ permit = TRUE /\ dialog = FALSE
  /\ av = Blank /\ timer = FALSE /\ rows = <<>>

-----------------------------------------------------------------------------
(* The hub                                                                 *)

clientVars == <<permit, dialog, av, timer, rows>>

Over == {done[i] : i \in DOMAIN done}

\* 657194 takes a task in and gives it a number.
HubTakes(t) ==
  /\ Hub!Accept(t)
  /\ nxt <= MaxNum
  /\ num' = [num EXCEPT ![t] = nxt]
  /\ nxt' = nxt + 1
  /\ UNCHANGED verdict

Decide(t, v) ==
  /\ t \in held
  /\ verdict' = [verdict EXCEPT ![t] = v]
  /\ UNCHANGED <<pickVars, clientVars, fresh, held, done, num, nxt, faults,
                 restarted>>

Finish(t) ==
  /\ Hub!Finish(t)
  /\ UNCHANGED <<pickVars, clientVars, num, verdict, nxt, faults, restarted>>

\* The counter may go on from any number.
HubRestarts ==
  /\ faults < MaxFault
  /\ Hub!Restart
  /\ fresh' = fresh
  /\ nxt' \in 1..MaxNum
  /\ faults' = faults + 1
  /\ restarted' = TRUE
  /\ UNCHANGED <<pickVars, clientVars, num, verdict>>

\* 678000 looks in tis only.
RtiOf(i) ==
  IF \E t \in held : num[t] = i
  THEN verdict[CHOOSE t \in held : num[t] = i] ELSE "pending"

\* A slip: a number the hub no longer has in tis is taken for finished.
GoneNums == (0..MaxNum) \ {num[t] : t \in held}

\* 678010 answers "finished" for a number in tis_over and not in tis, and
\* "running" or "unknown" for any other.
OverNums == {num[t] : t \in Over} \ {num[t] : t \in held}

-----------------------------------------------------------------------------
(* Issuing                                                                 *)

Click(x) ==
  /\ ~dialog
  /\ stor_loc_display(x)
  /\ UNCHANGED <<hubVars, clientVars>>

\* allow_issue: the button is enabled.  The kind of task, from ComboBox1, is
\* chosen with the click.
allow_issue == Nowhere \notin {edit1, edit2}

\* agvtask_lineto: the ends chosen; none of them for a charge.
EndsOf(k) == IF k = "CHRG" THEN <<Nowhere, Nowhere>> ELSE <<edit1, edit2>>

\* What a task pushed to at_items looks like.  state_running is never set:
\* it holds what the stack held.
NewRow(i, k, garbage) ==
  [id |-> i, s |-> EndsOf(k)[1], e |-> EndsOf(k)[2], tsk |-> k,
   finished |-> garbage, shown |-> "", rti |-> ""]

\* issue_task_http with what SpeedButton1Click does after it; i is the number
\* read from the answer, `answered`: there was one, whatever it said.  The row
\* is pushed in any case; without a number it has the one number_cmd gave, or
\* TryStrToUInt: 0, for no base was ever received and a text has no digits.
IssueTask(k, i, answered) ==
  LET ends == EndsOf(k)
  IN /\ av' = [id |-> i, s |-> ends[1], e |-> ends[2]]
     /\ timer' = (timer \/ answered)
     /\ \E garbage \in BOOLEAN : rows' = Append(rows, NewRow(i, k, garbage))
     /\ RestoreEnds(ends[1], ends[2])

\* The hub takes the task and the client learns its number; the hub takes
\* it and the answer is lost; the hub takes no task, and the client hears
\* nothing, or a text that is no number, after which it asks about number 0
\* (a parameter refused has used a number up).
Issue(k) ==
  LET t == Len(rows) + 1
  IN /\ t <= MaxIssue
     /\ \/ /\ HubTakes(t) /\ IssueTask(k, nxt, TRUE)
           /\ UNCHANGED <<faults, restarted>>
        \/ /\ faults < MaxFault
           /\ HubTakes(t) /\ IssueTask(k, 0, FALSE)
           /\ faults' = faults + 1 /\ UNCHANGED restarted
        \/ /\ faults < MaxFault
           /\ \E answered \in BOOLEAN : IssueTask(k, 0, answered)
           /\ nxt' \in {nxt, nxt + 1} /\ nxt' <= MaxNum + 1
           /\ faults' = faults + 1
           /\ UNCHANGED <<fresh, held, done, num, verdict, restarted>>

\* A slip: the event is not reset by the wait.
ClickTakesNoPermit(k) ==
  /\ ~dialog /\ allow_issue /\ permit
  /\ IF k = "I"
     THEN dialog' = TRUE
          /\ UNCHANGED <<pickVars, hubVars, av, timer, rows>>
     ELSE Issue(k) /\ UNCHANGED dialog
  /\ UNCHANGED permit

\* The click on the issue button takes the permit first; storing asks for
\* the ware in a dialog.
ClickWithPermit(k) ==
  /\ ~dialog /\ allow_issue /\ permit
  /\ permit' = FALSE
  /\ IF k = "I"
     THEN dialog' = TRUE
          /\ UNCHANGED <<pickVars, hubVars, av, timer, rows>>
     ELSE Issue(k) /\ UNCHANGED dialog

\* Without the permit only the colours of the last task are restored.
ClickWithoutPermit ==
  /\ ~dialog /\ allow_issue /\ ~permit
  /\ RestoreEnds(av.s, av.e)
  /\ UNCHANGED <<hubVars, clientVars>>

\* Form6 closed with yes.
DialogConfirmed ==
  /\ dialog
  /\ dialog' = FALSE
  /\ Issue("I")
  /\ UNCHANGED permit

\* Form6 closed otherwise: the handler returns, and the permit is gone.
DialogCancelled ==
  /\ dialog
  /\ dialog' = FALSE
  /\ UNCHANGED <<pickVars, hubVars, permit, av, timer, rows>>

-----------------------------------------------------------------------------
(* The timers                                                              *)

\* A slip: the rows are searched from the front.
FirstRowOf(i) == CHOOSE j \in DOMAIN rows :
  rows[j].id = i /\ \A k \in DOMAIN rows : rows[k].id = i => j <= k

\* The last row with a number.
RowOf(i) == CHOOSE j \in DOMAIN rows :
  rows[j].id = i /\ \A k \in DOMAIN rows : rows[k].id = i => k <= j

HasRow(i) == \E j \in DOMAIN rows : rows[j].id = i

ShowRti(i, v) == IF HasRow(i) THEN [rows EXCEPT ![RowOf(i)].rti = v] ELSE rows

\* A slip: an answer without a verdict is taken for one.
QueryTakesAny ==
  /\ timer
  /\ av' = Blank
  /\ timer' = FALSE
  /\ permit' = TRUE
  /\ rows' = ShowRti(av.id, RtiOf(av.id))
  /\ UNCHANGED <<pickVars, hubVars, dialog>>

\* A slip: the event is not set.
QueryKeepsPermit ==
  /\ timer
  /\ RtiOf(av.id) # "pending"
  /\ av' = Blank
  /\ timer' = FALSE
  /\ rows' = ShowRti(av.id, RtiOf(av.id))
  /\ UNCHANGED <<pickVars, hubVars, permit, dialog>>

\* timer_query_rti with an answer; without one it changes nothing.  The
\* verdict ends the asking and gives the permit back.
timer_query_rti ==
  LET v == RtiOf(av.id)
  IN /\ timer
     /\ v # "pending"
     /\ av' = Blank
     /\ timer' = FALSE
     /\ permit' = TRUE
     /\ rows' = ShowRti(av.id, v)
     /\ UNCHANGED <<pickVars, hubVars, dialog>>

\* A slip: the poll does not stop at a finished row.
AllPolled == DOMAIN rows

\* timer_request_running_status asks from the newest row back to the first
\* that is finished.
Polled == {i \in DOMAIN rows :
             \A j \in i..Len(rows) : ~rows[j].finished}

\* An end the handler takes for a storage location is none, or the row has
\* no line: the access violation ends the handling of the answers.
Breaks(r) ==
  \/ r.s = Nowhere
  \/ r.tsk \in {"I", "X"} /\ r.e \notin Stor
  \/ r.tsk = "X" /\ r.s \notin Stor

\* The locations a finished row has repainted before it breaks, if it does.
Painted(r) ==
  CASE r.tsk = "I" -> {r.e} \intersect Stor
    [] r.tsk = "X" -> IF r.s \in Stor THEN {r.s, r.e} \intersect Stor ELSE {}
    [] OTHER       -> {}

\* A slip: only the text is set, not the state.
ShowRunText(r, over) ==
  [r EXCEPT !.shown = IF over THEN "finished" ELSE "open"]

ShowRun(r, over) ==
  [r EXCEPT !.finished = over, !.shown = IF over THEN "finished" ELSE "open"]

timer_request_running_status ==
  LET found == {i \in Polled : i = RowOf(rows[i].id)}
      over == {i \in found : rows[i].id \in OverNums}
      handled == {i \in found :
                    \A b \in over : Breaks(rows[b]) => b <= i}
  IN /\ Polled # {}
     /\ rows' = [i \in DOMAIN rows |-> IF i \in handled
                   THEN ShowRun(rows[i], i \in over) ELSE rows[i]]
     /\ Repaint(UNION {Painted(rows[i]) : i \in handled \intersect over})
     /\ UNCHANGED <<hubVars, permit, dialog, av, timer>>

-----------------------------------------------------------------------------
(* The wares shown on the map                                              *)

\* A double click (erase) or a long press (modify) opens a dialog; the
\* request that follows a yes repaints the location if it succeeds.  Nothing
\* is read before the dialog is closed, so its opening is no step.
WareDialog(x) ==
  /\ ~dialog
  /\ Repaint({x})
  /\ UNCHANGED <<hubVars, clientVars>>

-----------------------------------------------------------------------------
Next ==
  \/ \E t \in Task : Finish(t) \/ \E v \in Verdict : Decide(t, v)
  \/ HubRestarts
  \/ \E x \in Loc : Click(x)
  \/ \E k \in Kind : ClickWithPermit(k)
  \/ ClickWithoutPermit \/ DialogConfirmed \/ DialogCancelled
  \/ timer_query_rti \/ timer_request_running_status
  \/ \E x \in Stor : WareDialog(x)

Spec == Init /\ [][Next]_vars

\* The timers fire for ever, the connection works again and again, and the
\* dispatcher decides on what the hub holds.
Fairness ==
  /\ SF_vars(timer_query_rti)
  /\ SF_vars(timer_request_running_status)
  /\ \A t \in Task : WF_vars(verdict[t] = "pending"
                             /\ \E v \in Verdict : Decide(t, v))

LiveSpec == Spec /\ Fairness

-----------------------------------------------------------------------------
(* Properties                                                              *)

\* While the client asks for a verdict it has no permit, no issue dialog is
\* open, and it asks about the newest row: handlers that overwrite
\* av_pending (SpeedButton1Click) and that zero it (timer_query_rti) never
\* meet, and no second task of the client is undecided.
OneUndecided ==
  /\ timer => /\ ~permit /\ ~dialog /\ rows # <<>>
              /\ [id |-> av.id, s |-> av.s, e |-> av.e]
                   = [id |-> rows[Len(rows)].id, s |-> rows[Len(rows)].s,
                      e |-> rows[Len(rows)].e]
  /\ permit => av = Blank /\ ~dialog

\* A row shown as finished is about a task the hub has finished: its own
\* task, or, after a restart, one that was given the same number.
ShownIsDone ==
  \A i \in DOMAIN rows : rows[i].shown = "finished" =>
    /\ rows[i].id # 0
    /\ \/ i \in Over
       \/ restarted

\* Finished is the last state of a row: no later poll, and no other row with
\* the same number, sets it back (the poll asks about rows and finds them
\* again by their number).
FinishedStays ==
  [][\A i \in DOMAIN rows : rows[i].finished => rows'[i].finished]_vars

\* The permit comes back only with the verdict on the newest row, which
\* shows that verdict, and that row's task had been decided by the hub.
PermitByVerdict ==
  [][~permit /\ permit' =>
       /\ rows' # <<>>
       /\ rows'[Len(rows)].rti \in Verdict
       /\ restarted \/ rows'[Len(rows)].rti = verdict[Len(rows)]]_vars

\* A location that stops being chosen keeps its red only after a click on
\* the issue button that was refused.
RedOnlyIfRefused ==
  [][\A x \in red : Chosen(x) /\ ~Chosen(x)' /\ x \in red' =>
       ~permit /\ ~permit' /\ x \notin {av.s, av.e} /\ av.s # Nowhere]_vars

\* A client that asks about a task the hub holds gets the permit back,
\* unless the task leaves tis before the client has heard of a verdict: the
\* hub then answers "pending" for ever (678000 looks in tis only).  While
\* the client asks, its newest row is that task's (OneUndecided).
VerdictArrives ==
  (timer /\ Len(rows) \in held) ~> (permit \/ Len(rows) \notin held)

\* The hub has finished the task of the newest row, the client knows its
\* number, and the row's state is not 2 yet.
NewestBehind ==
  /\ Len(rows) \in Over
  /\ rows[Len(rows)].id = num[Len(rows)]
  /\ ~rows[Len(rows)].finished

\* The newest row does not stay behind for ever.
NewestShown == NewestBehind ~> ~NewestBehind
=============================================================================
