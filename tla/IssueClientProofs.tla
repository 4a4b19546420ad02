------------------------- MODULE IssueClientProofs --------------------------
(***************************************************************************)
(* The client and the hub, for every map, number of tasks, numbers and     *)
(* faults: what the runs of IssueClient check, but liveness.               *)
(***************************************************************************)
EXTENDS IssueClient, SequenceTheorems, TLAPS

-----------------------------------------------------------------------------
(* The inductive invariant: the types, the client's one question, and how  *)
(* the numbers of the tasks and of the rows belong together.               *)

\* A task the hub holds or has finished has a number; a new one has none.
Numbered ==
  /\ \A t \in held \union Over : num[t] # 0
  /\ \A t \in fresh : num[t] = 0
  /\ Over \subseteq Task

\* Until a restart numbers rise, so no two tasks have one.
Distinct ==
  restarted \/ /\ \A t \in Task : num[t] < nxt
               /\ \A t, u \in Task : t # u /\ num[t] # 0 => num[t] # num[u]

\* Row i has the number of task i, or none.
RowNumbers == \A i \in DOMAIN rows : rows[i].id \in {0, num[i]}

HubInv == Numbered /\ Distinct

PickInv == PickTypeOK /\ EndsDiffer

HubTypeOK ==
  /\ fresh \subseteq Task /\ held \subseteq Task /\ done \in Seq(Task)
  /\ num \in [Task -> 0..MaxNum]
  /\ verdict \in [Task -> Verdict \union {"pending"}]
  /\ nxt \in 1..(MaxNum + 1) /\ faults \in 0..MaxFault
  /\ restarted \in BOOLEAN

ClientTypeOK ==
  /\ permit \in BOOLEAN /\ dialog \in BOOLEAN /\ timer \in BOOLEAN
  /\ av \in View
  /\ rows \in Seq(Row) /\ Len(rows) \in 0..MaxIssue

\* The dialog is that of a kind the client may issue.
DialogStores == dialog => "I" \in Kind

RowInv == OneUndecided /\ RowNumbers /\ ShownIsDone /\ DialogStores
IInv == PickInv /\ HubTypeOK /\ HubInv /\ ClientTypeOK /\ RowInv

-----------------------------------------------------------------------------
(* Sequences                                                               *)

LEMMA SameDomain ==
  ASSUME NEW S, NEW q \in Seq(S), NEW T, NEW r \in [DOMAIN q -> T]
  PROVE  r \in Seq(T) /\ Len(r) = Len(q) /\ DOMAIN r = DOMAIN q
<1>1. DOMAIN q = 1..Len(q) /\ Len(q) \in Nat
  OBVIOUS
<1>2. r \in Seq(T)
  BY <1>1, SeqDef
<1> QED BY <1>1, <1>2

LEMMA Appended ==
  ASSUME NEW S, NEW q \in Seq(S), NEW x \in S
  PROVE  /\ Append(q, x) \in Seq(S) /\ Len(Append(q, x)) = Len(q) + 1
         /\ Append(q, x)[Len(q) + 1] = x
         /\ \A i \in DOMAIN q : Append(q, x)[i] = q[i]
         /\ DOMAIN Append(q, x) = DOMAIN q \union {Len(q) + 1}
  OBVIOUS

-----------------------------------------------------------------------------
(* The map                                                                 *)

LEMMA ClickPicks ==
  ASSUME PickInv, NEW x \in Loc, stor_loc_display(x) PROVE PickInv'
<1> USE LocAssumption DEF PickInv, PickTypeOK, EndsDiffer, Chosen
<1>1. CASE ReplaceEnd(x) BY <1>1 DEF ReplaceEnd
<1>2. CASE DropEnd(x) BY <1>2 DEF DropEnd
<1>3. CASE PickEnd(x) BY <1>3 DEF PickEnd
<1>4. CASE DropBegin(x) BY <1>4 DEF DropBegin
<1>5. CASE PickBegin(x) BY <1>5 DEF PickBegin
<1>6. CASE EndToBegin(x) BY <1>6 DEF EndToBegin
<1> QED BY <1>1, <1>2, <1>3, <1>4, <1>5, <1>6 DEF stor_loc_display

LEMMA RestorePicks == ASSUME PickInv, NEW s, NEW e, RestoreEnds(s, e) PROVE PickInv'
  BY DEF RestoreEnds, PickInv, PickTypeOK, EndsDiffer, pickVars

LEMMA RepaintPicks == ASSUME PickInv, NEW X, Repaint(X) PROVE PickInv'
  BY DEF Repaint, PickInv, PickTypeOK, EndsDiffer

-----------------------------------------------------------------------------
(* The hub                                                                 *)

LEMMA Nats == MaxIssue \in Nat /\ MaxNum \in Nat /\ MaxFault \in Nat
  BY IssueAssumption, Zenon

LEMMA TakesHub ==
  ASSUME HubTypeOK, HubInv, NEW t \in Task, HubTakes(t),
         UNCHANGED restarted, faults' \in 0..MaxFault
  PROVE  /\ (HubTypeOK /\ HubInv)'
         /\ Over' = Over /\ num'[t] = nxt
         /\ \A u \in Task \ {t} : num'[u] = num[u]
<1> USE Nats DEF HubTypeOK
<1>1. /\ t \in fresh /\ fresh' = fresh \ {t} /\ held' = held \union {t} /\ done' = done
      /\ nxt <= MaxNum /\ num' = [num EXCEPT ![t] = nxt] /\ nxt' = nxt + 1
      /\ UNCHANGED verdict
  BY DEF HubTakes, Hub!Accept
<1>2. HubTypeOK' /\ Over' = Over
  BY <1>1 DEF Over
<1>3. num'[t] = nxt /\ \A u \in Task \ {t} : num'[u] = num[u]
  BY <1>1
<1>4. Numbered'
  BY <1>1, <1>2, <1>3 DEF HubInv, Numbered
<1>5. Distinct'
  <2>1. ASSUME ~restarted PROVE \A u \in Task : num'[u] < nxt'
    BY <1>1, <1>3, <2>1 DEF HubInv, Distinct
  <2>2. ASSUME ~restarted, NEW u \in Task, NEW v \in Task, u # v, num'[u] # 0
        PROVE  num'[u] # num'[v]
    <3>1. num[u] < nxt /\ num[v] < nxt /\ (num[u] # 0 => num[u] # num[v])
      BY <2>2 DEF HubInv, Distinct
    <3> QED BY <1>3, <2>2, <3>1
  <2> QED BY <2>1, <2>2 DEF Distinct
<1> QED BY <1>2, <1>3, <1>4, <1>5 DEF HubInv

LEMMA HubDecides ==
  ASSUME HubTypeOK, HubInv, NEW t \in Task, NEW v \in Verdict, Decide(t, v)
  PROVE  (HubTypeOK /\ HubInv)' /\ Over' = Over /\ num' = num
  BY DEF HubTypeOK, HubInv, Numbered, Distinct, Decide, Over

LEMMA HubFinishes ==
  ASSUME HubTypeOK, HubInv, NEW t \in Task, Finish(t)
  PROVE  (HubTypeOK /\ HubInv)' /\ Over \subseteq Over' /\ num' = num
<1> USE DEF HubTypeOK
<1>1. /\ t \in held /\ held' = held \ {t} /\ done' = <<t>> \o done /\ fresh' = fresh
      /\ UNCHANGED <<num, verdict, nxt, faults, restarted>>
  BY DEF Finish, Hub!Finish
<1>2. /\ <<t>> \o done \in Seq(Task)
      /\ DOMAIN (<<t>> \o done) = 1..(Len(done) + 1)
      /\ (<<t>> \o done)[1] = t
      /\ \A i \in 2..(Len(done) + 1) : (<<t>> \o done)[i] = done[i - 1]
  OBVIOUS
<1>3. Over' = Over \union {t}
  <2>1. \A x \in Over' : x \in Over \union {t}
    <3> TAKE x \in Over'
    <3>1. PICK i \in DOMAIN done' : x = done'[i]
      BY DEF Over
    <3>2. CASE i = 1 BY <1>1, <1>2, <3>1, <3>2
    <3>3. CASE i # 1
      <4>1. i - 1 \in DOMAIN done /\ x = done[i - 1]
        BY <1>1, <1>2, <3>1, <3>3
      <4> QED BY <4>1 DEF Over
    <3> QED BY <3>2, <3>3
  <2>2. ASSUME NEW i \in DOMAIN done PROVE done[i] \in Over'
    <3>1. i + 1 \in DOMAIN done' /\ done'[i + 1] = done[i]
      BY <1>1, <1>2, <2>2
    <3> QED BY <3>1 DEF Over
  <2>3. t \in Over'
    <3>1. 1 \in DOMAIN done' /\ done'[1] = t
      BY <1>1, <1>2
    <3> QED BY <3>1 DEF Over
  <2>4. Over \subseteq Over'
    BY <2>2 DEF Over
  <2> QED BY <2>1, <2>3, <2>4
<1>4. HubTypeOK'
  BY <1>1, <1>2
<1>5. HubInv'
  BY <1>1, <1>3 DEF HubInv, Numbered, Distinct
<1> QED BY <1>1, <1>3, <1>4, <1>5

LEMMA HubStartsAgain ==
  ASSUME HubTypeOK, HubInv, HubRestarts
  PROVE  (HubTypeOK /\ HubInv)' /\ Over' = {} /\ num' = num /\ restarted'
<1> USE Nats DEF HubTypeOK
<1>1. /\ held' = {} /\ done' = <<>> /\ fresh' = fresh /\ restarted' = TRUE
      /\ nxt' \in 1..MaxNum /\ faults < MaxFault /\ faults' = faults + 1
      /\ UNCHANGED <<num, verdict>>
  BY DEF HubRestarts, Hub!Restart
<1>2. Over' = {}
  BY <1>1 DEF Over
<1> QED BY <1>1, <1>2 DEF HubInv, Numbered, Distinct
-----------------------------------------------------------------------------
(* Issuing                                                                 *)

LEMMA EndsType ==
  ASSUME PickTypeOK, NEW k PROVE EndsOf(k)[1] \in Ends /\ EndsOf(k)[2] \in Ends
  BY DEF PickTypeOK, EndsOf, Ends

LEMMA NewRowType ==
  ASSUME PickTypeOK, NEW k \in Kind, NEW i \in 0..MaxNum
  PROVE  \A garbage \in BOOLEAN :
           /\ NewRow(i, k, garbage) \in Row /\ NewRow(i, k, garbage).id = i
           /\ NewRow(i, k, garbage).shown = ""
           /\ NewRow(i, k, garbage).s = EndsOf(k)[1]
           /\ NewRow(i, k, garbage).e = EndsOf(k)[2]
<1>1. EndsOf(k)[1] \in Ends /\ EndsOf(k)[2] \in Ends
  BY EndsType, Zenon
<1> HIDE DEF EndsOf
<1> QED BY <1>1 DEF NewRow, Row

\* What issuing does to the client: a row with the number, or none.
Issued(i) ==
  /\ ClientTypeOK' /\ PickInv'
  /\ Len(rows') = Len(rows) + 1
  /\ DOMAIN rows' = DOMAIN rows \union {Len(rows) + 1}
  /\ \A j \in DOMAIN rows : rows'[j] = rows[j]
  /\ rows'[Len(rows)+ 1].id = i /\ rows'[Len(rows) + 1].shown = ""
  /\ av'.id = i /\ av'.s = rows'[Len(rows) + 1].s /\ av'.e = rows'[Len(rows) + 1].e

LEMMA IssuesRow ==
  ASSUME ClientTypeOK, PickInv, NEW k \in Kind, NEW i \in 0..MaxNum,
         NEW answered \in BOOLEAN, Len(rows) + 1 <= MaxIssue,
         IssueTask(k, i, answered), permit' \in BOOLEAN, dialog' \in BOOLEAN
  PROVE  Issued(i)
<1> USE Nats DEF ClientTypeOK
<1>1. i \in 0..MaxNum
  OBVIOUS
<1>2. /\ av' = [id |-> i, s |-> EndsOf(k)[1], e |-> EndsOf(k)[2]]
      /\ timer' = (timer \/ answered)
      /\ \E garbage \in BOOLEAN : rows' = Append(rows, NewRow(i, k, garbage))
      /\ RestoreEnds(EndsOf(k)[1], EndsOf(k)[2])
  BY Zenon DEF IssueTask
<1>3. PICK garbage \in BOOLEAN : rows' = Append(rows, NewRow(i, k, garbage))
  BY <1>2, Zenon
<1> DEFINE row == NewRow(i, k, garbage)
<1>4. row \in Row /\ row.id = i /\ row.shown = "" /\ row.s = EndsOf(k)[1] /\ row.e = EndsOf(k)[2]
  <2>1. PickTypeOK
    BY DEF PickInv
  <2>2. \A g \in BOOLEAN :
          /\ NewRow(i, k, g) \in Row /\ NewRow(i, k, g).id = i
          /\ NewRow(i, k, g).shown = ""
          /\ NewRow(i, k, g).s = EndsOf(k)[1] /\ NewRow(i, k, g).e = EndsOf(k)[2]
    BY <1>1, <2>1, NewRowType, Zenon
  <2> QED BY <2>2, Zenon
<1>5. rows' = Append(rows, row)
  BY <1>3
<1> HIDE DEF row
<1>6. /\ rows' \in Seq(Row) /\ Len(rows') = Len(rows) + 1
      /\ rows'[Len(rows) + 1] = row
      /\ \A j \in DOMAIN rows : rows'[j] = rows[j]
      /\ DOMAIN rows' = DOMAIN rows \union {Len(rows) + 1}
  <2>1. rows \in Seq(Row)
    OBVIOUS
  <2>2. /\ Append(rows, row) \in Seq(Row) /\ Len(Append(rows, row)) = Len(rows) + 1
        /\ Append(rows, row)[Len(rows) + 1] = row
        /\ \A j \in DOMAIN rows : Append(rows, row)[j] = rows[j]
        /\ DOMAIN Append(rows, row) = DOMAIN rows \union {Len(rows) + 1}
    BY <1>4, <2>1, Appended, Zenon
  <2> QED BY <1>5, <2>2, Zenon
<1>7. av' \in View
  <2>1. EndsOf(k)[1] \in Ends /\ EndsOf(k)[2] \in Ends
    BY EndsType, Zenon DEF PickInv
  <2> HIDE DEF ClientTypeOK
  <2> QED BY <1>1, <1>2, <2>1 DEF View
<1>8. PickInv'
  BY <1>2, RestorePicks, Zenon
<1>9. timer' \in BOOLEAN
  BY <1>2, Zenon
<1>10. Len(rows') \in 0..MaxIssue
  BY <1>6
<1>11. ClientTypeOK'
  BY <1>6, <1>7, <1>9, <1>10, Zenon
<1>12. av'.id = i /\ av'.s = EndsOf(k)[1] /\ av'.e = EndsOf(k)[2]
  BY <1>2
<1>13. /\ rows'[Len(rows) + 1].id = i /\ rows'[Len(rows) + 1].shown = ""
       /\ av'.s = rows'[Len(rows) + 1].s /\ av'.e = rows'[Len(rows) + 1].e
  BY <1>4, <1>6, <1>12, Zenon
<1>14. Issued(i)
  BY <1>6, <1>8, <1>11, <1>12, <1>13, Zenon DEF Issued
<1> QED BY <1>14
LEMMA SameRecord ==
  ASSUME NEW a, NEW b, NEW c, NEW x, NEW y, NEW z
  PROVE  [id |-> a, s |-> b, e |-> c] = [id |-> x, s |-> y, e |-> z]
           <=> a = x /\ b = y /\ c = z
  OBVIOUS

LEMMA IssuedKeeps ==
  ASSUME ClientTypeOK, RowInv, NEW i, Issued(i), i \in {0, num'[Len(rows) + 1]},
         \A j \in DOMAIN rows : num'[j] = num[j],
         Over' = Over, restarted' = restarted, permit' = FALSE, dialog' = FALSE
  PROVE  RowInv'
<1>1. Len(rows) \in Nat
  BY DEF ClientTypeOK
<1>2. PICK n : n = Len(rows) + 1
  OBVIOUS
<1>3. n \in Nat /\ n # 0
  BY <1>1, <1>2
<1>4. /\ Len(rows') = n /\ DOMAIN rows' = DOMAIN rows \union {n}
      /\ \A j \in DOMAIN rows : rows'[j] = rows[j]
      /\ rows'[n].id = i /\ rows'[n].shown = "" /\ i \in {0, num'[n]}
      /\ av'.id = i /\ av'.s = rows'[n].s /\ av'.e = rows'[n].e
  BY <1>2, Zenon DEF Issued
<1>5. RowNumbers'
  <2> SUFFICES ASSUME NEW j \in DOMAIN rows' PROVE rows'[j].id \in {0, num'[j]}
    BY Zenon DEF RowNumbers
  <2>1. CASE j = n BY <1>4, <2>1, Zenon
  <2>2. CASE j \in DOMAIN rows
    <3>1. rows[j].id \in {0, num[j]}
      BY <2>2, Zenon DEF RowInv, RowNumbers
    <3> QED BY <1>4, <2>2, <3>1, Zenon
  <2> QED BY <1>4, <2>1, <2>2, Zenon
<1>6. ShownIsDone'
  <2> SUFFICES ASSUME NEW j \in DOMAIN rows', rows'[j].shown = "finished"
               PROVE  rows'[j].id # 0 /\ (j \in Over' \/ restarted')
    BY Zenon DEF ShownIsDone
  <2>1. j # n
    <3>1. "" # "finished" OBVIOUS
    <3> QED BY <1>4, <3>1, Zenon
  <2>2. j \in DOMAIN rows /\ rows[j].shown = "finished"
    BY <1>4, <2>1, Zenon
  <2>3. rows[j].id # 0 /\ (j \in Over \/ restarted)
    BY <2>2, Zenon DEF RowInv, ShownIsDone
  <2> QED BY <1>4, <2>2, <2>3, Zenon
<1>7. rows' # <<>>
  <2>1. Len(<<>>) = 0 OBVIOUS
  <2> QED BY <1>3, <1>4, <2>1, Zenon
<1>8. OneUndecided'
  <2>1. [id |-> av'.id, s |-> av'.s, e |-> av'.e]
          = [id |-> rows'[Len(rows')].id, s |-> rows'[Len(rows')].s,
             e |-> rows'[Len(rows')].e]
    BY <1>4, Zenon
  <2>2. ~permit' /\ ~dialog'
    OBVIOUS
  <2> QED BY <1>7, <2>1, <2>2, Zenon DEF OneUndecided
<1>9. DialogStores'
  BY Zenon DEF DialogStores
<1> QED BY <1>5, <1>6, <1>8, <1>9, Zenon DEF RowInv

LEMMA IssueKeeps ==
  ASSUME IInv, NEW k \in Kind, Issue(k), permit' = FALSE, dialog' = FALSE
  PROVE  IInv'
<1> DEFINE t == Len(rows) + 1
<1>1. t \in Task /\ DOMAIN rows = 1..Len(rows) /\ DOMAIN rows \subseteq Task \ {t}
  BY Nats DEF Issue, IInv, ClientTypeOK, Task
<1>2. permit' \in BOOLEAN /\ dialog' \in BOOLEAN /\ t <= MaxIssue
  BY Zenon DEF Issue
<1>3. ASSUME HubTakes(t), UNCHANGED restarted, faults' \in 0..MaxFault,
             NEW i \in {0, nxt}, NEW answered \in BOOLEAN, IssueTask(k, i, answered)
      PROVE  IInv'
  <2>1. /\ (HubTypeOK /\ HubInv)' /\ Over' = Over /\ num'[t] = nxt
        /\ \A u \in Task \ {t} : num'[u] = num[u]
    BY <1>1, <1>3, TakesHub, Zenon DEF IInv
  <2>2. i \in 0..MaxNum
    BY <1>3, Nats DEF HubTakes, IInv, HubTypeOK
  <2>3. Issued(i)
    BY <1>2, <1>3, <2>2, IssuesRow, Zenon DEF IInv
  <2>4. i \in {0, num'[t]}
    BY <2>1
  <2>5. RowInv'
    <3>1. \A j \in DOMAIN rows : num'[j] = num[j]
      BY <1>1, <2>1, Zenon
    <3> QED BY <1>3, <2>1, <2>3, <2>4, <3>1, IssuedKeeps, Zenon DEF IInv
  <2> QED BY <2>1, <2>3, <2>5, Zenon DEF IInv, Issued
<1>4. CASE /\ HubTakes(t) /\ IssueTask(k, nxt, TRUE)
           /\ UNCHANGED <<faults, restarted>>
  <2>1. faults' \in 0..MaxFault /\ UNCHANGED restarted
    BY <1>4 DEF IInv, HubTypeOK
  <2> QED BY <1>3, <1>4, <2>1, Zenon
<1>5. CASE /\ faults < MaxFault /\ HubTakes(t) /\ IssueTask(k, 0, FALSE)
           /\ faults' = faults + 1 /\ UNCHANGED restarted
  <2>1. faults' \in 0..MaxFault /\ UNCHANGED restarted
    BY <1>5, Nats DEF IInv, HubTypeOK
  <2> QED BY <1>3, <1>5, <2>1, Zenon
<1>6. CASE /\ faults < MaxFault
           /\ \E answered \in BOOLEAN : IssueTask(k, 0, answered)
           /\ nxt' \in {nxt, nxt + 1} /\ nxt' <= MaxNum + 1 /\ faults' = faults + 1
           /\ UNCHANGED <<fresh, held, done, num, verdict, restarted>>
  <2>1. HubTypeOK' /\ HubInv' /\ Over' = Over /\ num' = num /\ restarted' = restarted
    <3>1. HubTypeOK' /\ nxt <= nxt'
      BY <1>6, Nats DEF IInv, HubTypeOK
    <3>2. /\ Numbered' /\ Over' = Over /\ num' = num /\ restarted' = restarted
      BY <1>6, Zenon DEF IInv, HubInv, Numbered, Over
    <3>3. Distinct'
      BY <1>6, <3>1, Nats DEF IInv, HubTypeOK, HubInv, Distinct
    <3> QED BY <3>1, <3>2, <3>3, Zenon DEF HubInv
  <2>2. Issued(0)
    <3>1. PICK answered \in BOOLEAN : IssueTask(k, 0, answered)
      BY <1>6, Zenon
    <3>2. 0 \in 0..MaxNum
      BY Nats
    <3> QED BY <1>2, <3>1, <3>2, IssuesRow, Zenon DEF IInv
  <2>3. RowInv'
    BY <2>1, <2>2, IssuedKeeps, Zenon DEF IInv
  <2> QED BY <2>1, <2>2, <2>3, Zenon DEF IInv, Issued
<1> QED BY <1>4, <1>5, <1>6, Zenon DEF Issue

\* The client's own state is left alone.
LEMMA ClientKept ==
  ASSUME ClientTypeOK, RowInv, UNCHANGED clientVars, num' = num,
         Over \subseteq Over' \/ restarted', restarted => restarted'
  PROVE  ClientTypeOK' /\ RowInv'
<1>1. /\ permit' = permit /\ dialog' = dialog /\ av' = av
      /\ timer' = timer /\ rows' = rows
  BY Zenon DEF clientVars
<1>2. ClientTypeOK'
  BY <1>1, Zenon DEF ClientTypeOK
<1>3. OneUndecided' /\ RowNumbers' /\ DialogStores'
  BY <1>1, Zenon DEF RowInv, OneUndecided, RowNumbers, DialogStores
<1>4. ShownIsDone'
  BY <1>1, Zenon DEF RowInv, ShownIsDone
<1> QED BY <1>2, <1>3, <1>4, Zenon DEF RowInv

LEMMA HubKept ==
  ASSUME HubTypeOK, HubInv, UNCHANGED hubVars
  PROVE  (HubTypeOK /\ HubInv)' /\ Over' = Over /\ num' = num /\ restarted' = restarted
  BY DEF HubTypeOK, HubInv, Numbered, Distinct, Over, hubVars

LEMMA Opens ==
  ASSUME IInv, NEW k \in Kind, ClickWithPermit(k)
  PROVE  IInv'
<1>1. ~dialog /\ permit /\ ~timer
  BY Zenon DEF ClickWithPermit, IInv, RowInv, OneUndecided
<1>2. CASE k = "I" /\ permit' = FALSE /\ dialog' = TRUE
           /\ UNCHANGED <<pickVars, hubVars, av, timer, rows>>
  <2>1. /\ edit1' = edit1 /\ edit2' = edit2 /\ red' = red /\ UNCHANGED hubVars
        /\ av' = av /\ timer' = timer /\ rows' = rows
    BY <1>2, Zenon DEF pickVars
  <2>2. PickInv'
    BY <2>1, Zenon DEF IInv, PickInv, PickTypeOK, EndsDiffer
  <2>3. HubTypeOK' /\ HubInv' /\ Over' = Over /\ num' = num /\ restarted' = restarted
    BY <2>1, HubKept, Zenon DEF IInv
  <2>4. ClientTypeOK'
    BY <1>2, <2>1, Zenon DEF IInv, ClientTypeOK
  <2>5. OneUndecided' /\ DialogStores'
    <3>1. "I" \in Kind BY <1>2
    <3>2. ~timer' /\ ~permit' BY <1>1, <1>2, <2>1
    <3> QED BY <3>1, <3>2, Zenon DEF OneUndecided, DialogStores
  <2>6. RowNumbers' /\ ShownIsDone'
    BY <2>1, <2>3, Zenon DEF IInv, RowInv, RowNumbers, ShownIsDone
  <2> QED BY <2>2, <2>3, <2>4, <2>5, <2>6, Zenon DEF IInv, RowInv
<1>3. CASE Issue(k) /\ UNCHANGED dialog /\ permit' = FALSE
  <2>1. dialog' = FALSE
    BY <1>1, <1>3, Zenon DEF IInv, ClientTypeOK
  <2> QED BY <1>3, <2>1, IssueKeeps, Zenon
<1> QED BY <1>2, <1>3, Zenon DEF ClickWithPermit

LEMMA Confirms == ASSUME IInv, DialogConfirmed PROVE IInv'
<1>1. "I" \in Kind /\ permit' = FALSE /\ dialog' = FALSE /\ Issue("I")
  BY Zenon DEF DialogConfirmed, IInv, RowInv, DialogStores, OneUndecided, ClientTypeOK
<1> QED BY <1>1, IssueKeeps, Zenon

LEMMA Cancels == ASSUME IInv, DialogCancelled PROVE IInv'
<1>1. /\ edit1' = edit1 /\ edit2' = edit2 /\ red' = red /\ UNCHANGED hubVars
      /\ permit' = permit /\ av' = av /\ timer' = timer /\ rows' = rows
      /\ dialog /\ dialog' = FALSE
  BY Zenon DEF DialogCancelled, pickVars
<1>2. PickInv'
  BY <1>1, Zenon DEF IInv, PickInv, PickTypeOK, EndsDiffer
<1>3. HubTypeOK' /\ HubInv' /\ Over' = Over /\ num' = num /\ restarted' = restarted
  BY <1>1, HubKept, Zenon DEF IInv
<1>4. ClientTypeOK'
  BY <1>1, Zenon DEF IInv, ClientTypeOK
<1>5. OneUndecided' /\ DialogStores'
  BY <1>1, Zenon DEF IInv, RowInv, OneUndecided, DialogStores
<1>6. RowNumbers' /\ ShownIsDone'
  BY <1>1, <1>3, Zenon DEF IInv, RowInv, RowNumbers, ShownIsDone
<1> QED BY <1>2, <1>3, <1>4, <1>5, <1>6, Zenon DEF IInv, RowInv

-----------------------------------------------------------------------------
(* Steps of the hub, and clicks that issue nothing                         *)

LEMMA OthersKeep ==
  ASSUME IInv, UNCHANGED clientVars, PickInv', (HubTypeOK /\ HubInv)',
         num' = num, Over \subseteq Over' \/ restarted', restarted => restarted'
  PROVE  IInv'
  BY ClientKept, Zenon DEF IInv

LEMMA PickKept == ASSUME PickInv, UNCHANGED pickVars PROVE PickInv'
  BY DEF PickInv, PickTypeOK, EndsDiffer, pickVars

LEMMA HubMoves ==
  ASSUME IInv, \/ \E t \in Task : Finish(t) \/ \E v \in Verdict : Decide(t, v)
               \/ HubRestarts
  PROVE  IInv'
<1>1. ASSUME NEW t \in Task, Finish(t) PROVE IInv'
  <2>1. (HubTypeOK /\ HubInv)' /\ Over \subseteq Over' /\ num' = num
    BY <1>1, HubFinishes, Zenon DEF IInv
  <2>2. UNCHANGED clientVars /\ UNCHANGED pickVars /\ restarted' = restarted
    BY <1>1, Zenon DEF Finish
  <2> QED BY <2>1, <2>2, PickKept, OthersKeep, Zenon DEF IInv
<1>2. ASSUME NEW t \in Task, NEW v \in Verdict, Decide(t, v) PROVE IInv'
  <2>1. (HubTypeOK /\ HubInv)' /\ Over' = Over /\ num' = num
    BY <1>2, HubDecides, Zenon DEF IInv
  <2>2. UNCHANGED clientVars /\ UNCHANGED pickVars /\ restarted' = restarted
    BY <1>2, Zenon DEF Decide
  <2>3. Over \subseteq Over'
    BY <2>1
  <2> QED BY <2>1, <2>2, <2>3, PickKept, OthersKeep, Zenon DEF IInv
<1>3. CASE HubRestarts
  <2>1. (HubTypeOK /\ HubInv)' /\ num' = num /\ restarted'
    BY <1>3, HubStartsAgain, Zenon DEF IInv
  <2>2. UNCHANGED clientVars /\ UNCHANGED pickVars
    BY <1>3, Zenon DEF HubRestarts
  <2> QED BY <2>1, <2>2, PickKept, OthersKeep, Zenon DEF IInv
<1> QED BY <1>1, <1>2, <1>3, Zenon

LEMMA PicksKeep ==
  ASSUME IInv, PickInv', UNCHANGED <<hubVars, clientVars>> PROVE IInv'
<1>1. UNCHANGED hubVars /\ UNCHANGED clientVars
  BY Zenon
<1>2. (HubTypeOK /\ HubInv)' /\ Over' = Over /\ num' = num /\ restarted' = restarted
  BY <1>1, HubKept, Zenon DEF IInv
<1>3. Over \subseteq Over'
  BY <1>2
<1> QED BY <1>1, <1>2, <1>3, OthersKeep, Zenon

LEMMA Clicks ==
  ASSUME IInv, \/ \E x \in Loc : Click(x)
               \/ ClickWithoutPermit
               \/ \E x \in Stor : WareDialog(x)
  PROVE  IInv'
<1>1. ASSUME NEW x \in Loc, Click(x) PROVE IInv'
  BY <1>1, ClickPicks, PicksKeep, Zenon DEF Click, IInv
<1>2. CASE ClickWithoutPermit
  BY <1>2, RestorePicks, PicksKeep, Zenon DEF ClickWithoutPermit, IInv
<1>3. ASSUME NEW x \in Stor, WareDialog(x) PROVE IInv'
  BY <1>3, RepaintPicks, PicksKeep, Zenon DEF WareDialog, IInv
<1> QED BY <1>1, <1>2, <1>3, Zenon

-----------------------------------------------------------------------------
(* The timers                                                              *)

LEMMA ShowRtiRow ==
  ASSUME NEW r \in Row, NEW v \in Verdict
  PROVE  /\ [r EXCEPT !.rti = v] \in Row /\ [r EXCEPT !.rti = v].id = r.id
         /\ [r EXCEPT !.rti = v].rti = v
         /\ [r EXCEPT !.rti = v].finished = r.finished
         /\ [r EXCEPT !.rti = v].shown = r.shown
  BY Zenon DEF Row

LEMMA LastRow ==
  ASSUME rows \in Seq(Row), rows # <<>>
  PROVE  /\ Len(rows) \in DOMAIN rows
         /\ HasRow(rows[Len(rows)].id)
         /\ RowOf(rows[Len(rows)].id) = Len(rows)
<1>1. Len(rows) \in Nat /\ DOMAIN rows = 1..Len(rows) /\ Len(rows) # 0
  OBVIOUS
<1>2. PICK n : n = Len(rows)
  OBVIOUS
<1>3. n \in DOMAIN rows /\ \A k \in DOMAIN rows : k <= n
  BY <1>1, <1>2
<1>4. \A j \in DOMAIN rows : n <= j => j = n
  BY <1>1, <1>2
<1>5. PICK i : i = rows[n].id
  OBVIOUS
<1>6. RowOf(i) = n
  <2>1. n \in DOMAIN rows /\ rows[n].id = i
        /\ \A k \in DOMAIN rows : rows[k].id = i => k <= n
    BY <1>3, <1>5, Zenon
  <2>2. ASSUME NEW j \in DOMAIN rows, rows[j].id = i,
               \A k \in DOMAIN rows : rows[k].id = i => k <= j
        PROVE  j = n
    BY <1>4, <2>1, <2>2, Zenon
  <2> QED BY <2>1, <2>2, Zenon DEF RowOf
<1>7. HasRow(i)
  BY <1>3, <1>5, Zenon DEF HasRow
<1> QED BY <1>2, <1>3, <1>5, <1>6, <1>7, Zenon

LEMMA Shown ==
  ASSUME rows \in Seq(Row), NEW i, NEW v \in Verdict
  PROVE  /\ ShowRti(i, v) \in Seq(Row) /\ Len(ShowRti(i, v)) = Len(rows)
         /\ DOMAIN ShowRti(i, v) = DOMAIN rows
         /\ \A j \in DOMAIN rows :
              /\ ShowRti(i, v)[j].id = rows[j].id
              /\ ShowRti(i, v)[j].finished = rows[j].finished
              /\ ShowRti(i, v)[j].shown = rows[j].shown
         /\ \A j \in DOMAIN rows : HasRow(i) /\ j = RowOf(i) => ShowRti(i, v)[j].rti = v
<1>1. CASE ~HasRow(i)
  BY <1>1, Zenon DEF ShowRti
<1>2. CASE HasRow(i)
  <2>1. PICK n : n = RowOf(i)
    OBVIOUS
  <2>2. ShowRti(i, v) = [rows EXCEPT ![n] = [rows[n] EXCEPT !.rti = v]]
    BY <1>2, <2>1 DEF ShowRti
  <2>3. PICK r : r = [rows[n] EXCEPT !.rti = v]
    BY Zenon
  <2>4. ShowRti(i, v) = [j \in DOMAIN rows |-> IF j = n THEN r ELSE rows[j]]
    BY <2>2, <2>3, Zenon
  <2>5. \A j \in DOMAIN rows : rows[j] \in Row
    OBVIOUS
  <2>6. n \in DOMAIN rows => /\ r \in Row /\ r.id = rows[n].id /\ r.rti = v
                            /\ r.finished = rows[n].finished /\ r.shown = rows[n].shown
    BY <2>3, <2>5, ShowRtiRow, Zenon
  <2>7. ShowRti(i, v) \in [DOMAIN rows -> Row]
    BY <2>4, <2>5, <2>6, Zenon
  <2>8. ShowRti(i, v) \in Seq(Row) /\ Len(ShowRti(i, v)) = Len(rows)
        /\ DOMAIN ShowRti(i, v) = DOMAIN rows
    BY <2>7, SameDomain, Zenon
  <2>9. \A j \in DOMAIN rows : ShowRti(i, v)[j] = IF j = n THEN r ELSE rows[j]
    BY <2>4, Zenon
  <2>10. ASSUME NEW j \in DOMAIN rows
         PROVE  /\ ShowRti(i, v)[j].id = rows[j].id
                /\ ShowRti(i, v)[j].finished = rows[j].finished
                /\ ShowRti(i, v)[j].shown = rows[j].shown
                /\ j = RowOf(i) => ShowRti(i, v)[j].rti = v
    <3>1. CASE j = n BY <2>1, <2>6, <2>9, <3>1, Zenon
    <3>2. CASE j # n BY <2>1, <2>9, <3>2, Zenon
    <3> QED BY <3>1, <3>2, Zenon
  <2> QED BY <2>8, <2>10, Zenon
<1> QED BY <1>1, <1>2, Zenon

LEMMA RtiType ==
  ASSUME HubTypeOK, NEW i, RtiOf(i) # "pending"
  PROVE  /\ RtiOf(i) \in Verdict
         /\ \E t \in held : num[t] = i /\ RtiOf(i) = verdict[t]
<1>1. \E t \in held : num[t] = i
  BY Zenon DEF RtiOf
<1>2. PICK t : t = CHOOSE u \in held : num[u] = i
  OBVIOUS
<1>3. t \in held /\ num[t] = i /\ RtiOf(i) = verdict[t]
  BY <1>1, <1>2, Zenon DEF RtiOf
<1>4. verdict[t] \in Verdict \union {"pending"}
  BY <1>3, Zenon DEF HubTypeOK
<1>5. verdict[t] \in Verdict
  BY <1>3, <1>4
<1> QED BY <1>3, <1>5, Zenon

LEMMA Queries ==
  ASSUME IInv, timer_query_rti
  PROVE  IInv'
<1>1. PICK v : v = RtiOf(av.id)
  OBVIOUS
<1>2. /\ timer /\ v # "pending" /\ av' = Blank /\ timer' = FALSE /\ permit' = TRUE
      /\ rows' = ShowRti(av.id, v)
      /\ UNCHANGED pickVars /\ UNCHANGED hubVars /\ dialog' = dialog
  BY <1>1, Zenon DEF timer_query_rti
<1>3. v \in Verdict
  BY <1>1, <1>2, RtiType, Zenon DEF IInv
<1>4. /\ rows' \in Seq(Row) /\ Len(rows') = Len(rows) /\ DOMAIN rows' = DOMAIN rows
      /\ \A j \in DOMAIN rows : rows'[j].id = rows[j].id /\ rows'[j].shown = rows[j].shown
  BY <1>2, <1>3, Shown, Zenon DEF IInv, ClientTypeOK
<1>5. PickInv'
  BY <1>2, PickKept, Zenon DEF IInv
<1>6. HubTypeOK' /\ HubInv' /\ Over' = Over /\ num' = num /\ restarted' = restarted
  BY <1>2, HubKept, Zenon DEF IInv
<1>7. av' \in View
  BY <1>2, Nats DEF Blank, View, Ends
<1>8. ClientTypeOK'
  BY <1>2, <1>4, <1>7, Zenon DEF IInv, ClientTypeOK
<1>9. ~dialog' /\ OneUndecided' /\ DialogStores'
  BY <1>2, Zenon DEF IInv, RowInv, OneUndecided, DialogStores
<1>10. RowNumbers'
  BY <1>4, <1>6, Zenon DEF IInv, RowInv, RowNumbers
<1>11. ShownIsDone'
  BY <1>4, <1>6, Zenon DEF IInv, RowInv, ShownIsDone
<1> QED BY <1>5, <1>6, <1>8, <1>9, <1>10, <1>11, Zenon DEF IInv, RowInv

LEMMA ShowRunRow ==
  ASSUME NEW r \in Row
  PROVE  \A g \in BOOLEAN :
           /\ ShowRun(r, g) \in Row
           /\ ShowRun(r, g).id = r.id /\ ShowRun(r, g).s = r.s /\ ShowRun(r, g).e = r.e
           /\ ShowRun(r, g).shown = "finished" => g
           /\ g => ShowRun(r, g).finished
<1> SUFFICES ASSUME NEW g \in BOOLEAN
             PROVE  /\ ShowRun(r, g) \in Row /\ ShowRun(r, g).id = r.id
                    /\ ShowRun(r, g).s = r.s /\ ShowRun(r, g).e = r.e
                    /\ ShowRun(r, g).shown = "finished" => g
                    /\ g => ShowRun(r, g).finished
  BY Zenon
<1>1. PICK x : x = IF g THEN "finished" ELSE "open"
  BY Zenon
<1>2. x \in {"", "open", "finished"} /\ (x = "finished" => g)
  BY <1>1
<1>3. ShowRun(r, g) = [r EXCEPT !.finished = g, !.shown = x]
  BY <1>1, Zenon DEF ShowRun
<1> QED BY <1>2, <1>3, Zenon DEF Row

\* What a poll does to a row: nothing, or it shows the hub's answer.
LEMMA Polls ==
  ASSUME IInv, timer_request_running_status
  PROVE  /\ DOMAIN rows' = DOMAIN rows /\ Len(rows') = Len(rows)
         /\ rows' \in Seq(Row)
         /\ \A j \in DOMAIN rows :
              \/ rows'[j] = rows[j]
              \/ /\ j \in Polled
                 /\ \E g \in BOOLEAN : /\ rows'[j] = ShowRun(rows[j], g)
                                       /\ g => rows[j].id \in OverNums
<1> DEFINE found == {i \in Polled : i = RowOf(rows[i].id)}
           over == {i \in found : rows[i].id \in OverNums}
           handled == {i \in found : \A b \in over : Breaks(rows[b]) => b <= i}
<1>1. rows' = [i \in DOMAIN rows |-> IF i \in handled
                 THEN ShowRun(rows[i], i \in over) ELSE rows[i]]
  BY Zenon DEF timer_request_running_status
<1>2. /\ handled \subseteq Polled
      /\ \A i \in over : rows[i].id \in OverNums
  OBVIOUS
<1>3. rows \in Seq(Row) /\ \A j \in DOMAIN rows : rows[j] \in Row
  BY DEF IInv, ClientTypeOK
<1> HIDE DEF found, over, handled
<1>4. \A j \in DOMAIN rows : rows'[j] = IF j \in handled
                 THEN ShowRun(rows[j], j \in over) ELSE rows[j]
  BY <1>1, Zenon
<1>5. ASSUME NEW j \in DOMAIN rows, j \in handled
      PROVE  /\ j \in Polled
             /\ \E g \in BOOLEAN : /\ rows'[j] = ShowRun(rows[j], g)
                                   /\ g => rows[j].id \in OverNums
  <2>1. rows'[j] = ShowRun(rows[j], j \in over)
    BY <1>4, <1>5, Zenon
  <2>2. CASE j \in over
    <3>1. (j \in over) = TRUE BY <2>2
    <3>2. rows'[j] = ShowRun(rows[j], TRUE) BY <2>1, <3>1, Zenon
    <3> QED BY <1>2, <1>5, <2>2, <3>2, Zenon
  <2>3. CASE j \notin over
    <3>1. (j \in over) = FALSE BY <2>3
    <3>2. rows'[j] = ShowRun(rows[j], FALSE) BY <2>1, <3>1, Zenon
    <3> QED BY <1>2, <1>5, <3>2, Zenon
  <2> QED BY <2>2, <2>3, Zenon
<1>6. \A j \in DOMAIN rows : j \notin handled => rows'[j] = rows[j]
  BY <1>4, Zenon
<1>7. \A j \in DOMAIN rows : rows'[j] \in Row
  <2> SUFFICES ASSUME NEW j \in DOMAIN rows PROVE rows'[j] \in Row
    BY Zenon
  <2>1. CASE j \in handled
    <3>1. PICK g \in BOOLEAN : rows'[j] = ShowRun(rows[j], g)
      BY <1>5, <2>1, Zenon
    <3> QED BY <1>3, <3>1, ShowRunRow, Zenon
  <2>2. CASE j \notin handled BY <1>3, <1>6, <2>2, Zenon
  <2> QED BY <2>1, <2>2, Zenon
<1>8. rows' \in [DOMAIN rows -> Row]
  BY <1>1, <1>7, Zenon
<1>9. DOMAIN rows' = DOMAIN rows /\ Len(rows') = Len(rows) /\ rows' \in Seq(Row)
  BY <1>3, <1>8, SameDomain, Zenon
<1> QED BY <1>5, <1>6, <1>9, Zenon

LEMMA PollsKeep ==
  ASSUME IInv, timer_request_running_status
  PROVE  IInv'
<1>1. /\ UNCHANGED hubVars /\ permit' = permit /\ dialog' = dialog /\ av' = av
      /\ timer' = timer /\ \E X : Repaint(X)
  BY Zenon DEF timer_request_running_status
<1>2. PickInv'
  BY <1>1, RepaintPicks, Zenon DEF IInv
<1>3. HubTypeOK' /\ HubInv' /\ Over' = Over /\ num' = num /\ restarted' = restarted
  BY <1>1, HubKept, Zenon DEF IInv
<1>4. DOMAIN rows' = DOMAIN rows /\ Len(rows') = Len(rows) /\ rows' \in Seq(Row)
  BY Polls, Zenon
<1>5. ASSUME NEW j \in DOMAIN rows
      PROVE  /\ rows'[j].id = rows[j].id /\ rows'[j].s = rows[j].s /\ rows'[j].e = rows[j].e
             /\ rows'[j].shown = "finished" =>
                  rows[j].shown = "finished" \/ rows[j].id \in OverNums
  <2>1. rows[j] \in Row
    BY DEF IInv, ClientTypeOK
  <2>2. CASE rows'[j] = rows[j]
    BY <2>2, Zenon
  <2>3. CASE rows'[j] # rows[j]
    <3>1. PICK g \in BOOLEAN : rows'[j] = ShowRun(rows[j], g) /\ (g => rows[j].id \in OverNums)
      BY <2>3, Polls, Zenon
    <3>2. /\ ShowRun(rows[j], g).id = rows[j].id
          /\ ShowRun(rows[j], g).s = rows[j].s
          /\ ShowRun(rows[j], g).e = rows[j].e
          /\ ShowRun(rows[j], g).shown = "finished" => g
      BY <2>1, ShowRunRow, Zenon
    <3>3. /\ rows'[j].id = rows[j].id /\ rows'[j].s = rows[j].s /\ rows'[j].e = rows[j].e
          /\ rows'[j].shown = "finished" => g
      BY <3>1, <3>2, Zenon
    <3> QED BY <3>1, <3>3, Zenon
  <2> QED BY <2>2, <2>3, Zenon
<1>6. ClientTypeOK'
  BY <1>1, <1>4, Zenon DEF IInv, ClientTypeOK
<1>7. OneUndecided'
  <2>1. CASE timer
    <3>1. rows # <<>> /\ ~permit /\ ~dialog
          /\ [id |-> av.id, s |-> av.s, e |-> av.e]
               = [id |-> rows[Len(rows)].id, s |-> rows[Len(rows)].s, e |-> rows[Len(rows)].e]
      BY <2>1, Zenon DEF IInv, RowInv, OneUndecided
    <3>2. Len(rows) \in DOMAIN rows
      BY <3>1, LastRow, Zenon DEF IInv, ClientTypeOK
    <3>3. rows' # <<>>
      <4>1. DOMAIN <<>> = {} OBVIOUS
      <4> QED BY <1>4, <3>2, <4>1
    <3>4. /\ rows'[Len(rows')].id = rows[Len(rows)].id
          /\ rows'[Len(rows')].s = rows[Len(rows)].s
          /\ rows'[Len(rows')].e = rows[Len(rows)].e
      BY <1>4, <1>5, <3>2, Zenon
    <3> QED BY <1>1, <3>1, <3>3, <3>4, Zenon DEF OneUndecided
  <2>2. CASE ~timer
    BY <1>1, <2>2, Zenon DEF IInv, RowInv, OneUndecided
  <2> QED BY <2>1, <2>2, Zenon
<1>8. RowNumbers' /\ DialogStores'
  BY <1>1, <1>3, <1>4, <1>5, Zenon DEF IInv, RowInv, RowNumbers, DialogStores
<1>9. ShownIsDone'
  <2> SUFFICES ASSUME NEW j \in DOMAIN rows', rows'[j].shown = "finished"
               PROVE  rows'[j].id # 0 /\ (j \in Over' \/ restarted')
    BY Zenon DEF ShownIsDone
  <2>1. j \in DOMAIN rows
    BY <1>4, Zenon
  <2>2. CASE rows[j].shown = "finished"
    BY <1>3, <1>5, <2>1, <2>2, Zenon DEF IInv, RowInv, ShownIsDone
  <2>3. CASE rows[j].id \in OverNums
    <3>1. PICK u \in Over : rows[j].id = num[u]
      BY <2>3 DEF OverNums
    <3>2. num[u] # 0 /\ u \in Task
      BY Zenon DEF IInv, HubInv, Numbered
    <3>3. rows[j].id \in {0, num[j]}
      BY <2>1, Zenon DEF IInv, RowInv, RowNumbers
    <3>4. num[j] = num[u]
      BY <3>1, <3>2, <3>3
    <3>5. j \in Task
      BY <2>1, Nats DEF IInv, ClientTypeOK, Task
    <3>6. restarted \/ j = u
      BY <3>2, <3>4, <3>5, Zenon DEF IInv, HubInv, Distinct
    <3> QED BY <1>3, <1>5, <2>1, <3>1, <3>2, <3>6, Zenon
  <2> QED BY <1>5, <2>1, <2>2, <2>3, Zenon
<1> QED BY <1>2, <1>3, <1>6, <1>7, <1>8, <1>9, Zenon DEF IInv, RowInv

-----------------------------------------------------------------------------
(* All steps                                                               *)

LEMMA IInvInit == Init => IInv
<1> SUFFICES ASSUME Init PROVE IInv
  OBVIOUS
<1> USE Nats DEF Init
<1>1. PickInv
  BY LocAssumption DEF PickInit, PickInv, PickTypeOK, EndsDiffer
<1>2. fresh = Task /\ held = {} /\ done = <<>> /\ Over = {}
  BY DEF Hub!Init, Over
<1>3. HubTypeOK /\ HubInv
  <2>1. num \in [Task -> 0..MaxNum] /\ \A t \in Task : num[t] = 0
    OBVIOUS
  <2>2. verdict \in [Task -> Verdict \union {"pending"}]
    OBVIOUS
  <2>3. HubTypeOK
    <3>1. fresh \subseteq Task /\ held \subseteq Task /\ done \in Seq(Task)
      BY <1>2
    <3>2. nxt \in 1..(MaxNum + 1) /\ faults \in 0..MaxFault
      OBVIOUS
    <3>3. restarted \in BOOLEAN
      BY Zenon
    <3> QED BY <2>1, <2>2, <3>1, <3>2, <3>3, Zenon DEF HubTypeOK
  <2>4. Numbered
    BY <1>2, <2>1 DEF Numbered
  <2>5. Distinct
    BY <2>1 DEF Distinct
  <2> QED BY <2>3, <2>4, <2>5 DEF HubInv
<1>4. av \in View
  BY DEF Blank, View, Ends
<1>5. rows = <<>> /\ rows \in Seq(Row) /\ Len(rows) = 0 /\ DOMAIN rows = {}
  OBVIOUS
<1>6. ClientTypeOK
  <2>1. Len(rows) \in 0..MaxIssue
    BY <1>5
  <2>2. permit \in BOOLEAN /\ dialog \in BOOLEAN /\ timer \in BOOLEAN
    BY Zenon
  <2> QED BY <1>4, <1>5, <2>1, <2>2, Zenon DEF ClientTypeOK
<1>7. OneUndecided /\ DialogStores
  BY DEF OneUndecided, DialogStores
<1>8. RowNumbers /\ ShownIsDone
  BY <1>5, Zenon DEF RowNumbers, ShownIsDone
<1> QED BY <1>1, <1>3, <1>6, <1>7, <1>8, Zenon DEF IInv, RowInv

LEMMA IInvStep == IInv /\ [Next]_vars => IInv'
<1> SUFFICES ASSUME IInv, [Next]_vars PROVE IInv'
  OBVIOUS
<1>1. CASE \/ \E t \in Task : Finish(t) \/ \E v \in Verdict : Decide(t, v)
           \/ HubRestarts
  BY <1>1, HubMoves, Zenon
<1>2. CASE \/ \E x \in Loc : Click(x)
           \/ ClickWithoutPermit
           \/ \E x \in Stor : WareDialog(x)
  BY <1>2, Clicks, Zenon
<1>3. CASE \E k \in Kind : ClickWithPermit(k)
  BY <1>3, Opens, Zenon
<1>4. CASE DialogConfirmed
  BY <1>4, Confirms, Zenon
<1>5. CASE DialogCancelled
  BY <1>5, Cancels, Zenon
<1>6. CASE timer_query_rti
  BY <1>6, Queries, Zenon
<1>7. CASE timer_request_running_status
  BY <1>7, PollsKeep, Zenon
<1>8. CASE UNCHANGED vars
  <2>1. UNCHANGED pickVars /\ UNCHANGED hubVars /\ UNCHANGED clientVars
    BY <1>8, Zenon DEF vars, clientVars
  <2> QED BY <2>1, PickKept, PicksKeep, Zenon DEF IInv
<1> QED BY <1>1, <1>2, <1>3, <1>4, <1>5, <1>6, <1>7, <1>8, Zenon DEF Next

LEMMA IInvAlways == Spec => []IInv
  BY IInvInit, IInvStep, PTL DEF Spec

\* Every variable keeps its type, for every map and every bound.
THEOREM IssueTypes == Spec => []TypeOK
<1>1. IInv => TypeOK
  BY Zenon DEF IInv, PickInv, HubTypeOK, ClientTypeOK, TypeOK
<1> QED BY <1>1, IInvAlways, PTL

\* No task the user can choose begins where it ends (stor_loc_display).
THEOREM EndsAlwaysDiffer == Spec => []EndsDiffer
<1>1. IInv => EndsDiffer
  BY Zenon DEF IInv, PickInv
<1> QED BY <1>1, IInvAlways, PTL

\* While the client asks about its newest task it holds no permit and opens
\* no dialog, so av_pending is not overwritten (SpeedButton1Click,
\* timer_query_rti).
THEOREM OneQuestion == Spec => []OneUndecided
<1>1. IInv => OneUndecided
  BY Zenon DEF IInv, RowInv
<1> QED BY <1>1, IInvAlways, PTL

\* A row shown as finished is about a finished task, or the hub has given
\* its number again after a restart (timer_request_running_status).
THEOREM ShownAreDone == Spec => []ShownIsDone
<1>1. IInv => ShownIsDone
  BY Zenon DEF IInv, RowInv
<1> QED BY <1>1, IInvAlways, PTL

-----------------------------------------------------------------------------
(* Steps                                                                   *)

LEMMA RowsKeptBut ==
  ASSUME IInv, [Next]_vars, rows' # rows
  PROVE  \/ \E k \in Kind : Issue(k) /\ ~permit'
         \/ timer_query_rti
         \/ timer_request_running_status
<1>1. ASSUME NEW t \in Task, Finish(t) PROVE rows' = rows
  BY <1>1, Zenon DEF Finish, clientVars
<1>2. ASSUME NEW t \in Task, NEW v \in Verdict, Decide(t, v) PROVE rows' = rows
  BY <1>2, Zenon DEF Decide, clientVars
<1>3. HubRestarts => rows' = rows
  BY Zenon DEF HubRestarts, clientVars
<1>4. ASSUME NEW x \in Loc, Click(x) PROVE rows' = rows
  BY <1>4, Zenon DEF Click, clientVars
<1>5. ClickWithoutPermit => rows' = rows
  BY Zenon DEF ClickWithoutPermit, clientVars
<1>6. ASSUME NEW x \in Stor, WareDialog(x) PROVE rows' = rows
  BY <1>6, Zenon DEF WareDialog, clientVars
<1>7. DialogCancelled => rows' = rows
  BY Zenon DEF DialogCancelled
<1>8. ASSUME NEW k \in Kind, ClickWithPermit(k) PROVE Issue(k) /\ ~permit'
  BY <1>8, Zenon DEF ClickWithPermit
<1>9. ASSUME DialogConfirmed PROVE "I" \in Kind /\ Issue("I") /\ ~permit'
  <2>1. dialog /\ Issue("I") /\ permit' = permit
    BY <1>9, Zenon DEF DialogConfirmed
  <2>2. "I" \in Kind /\ ~permit
    BY <2>1, Zenon DEF IInv, RowInv, DialogStores, OneUndecided
  <2> QED BY <2>1, <2>2
<1>10. UNCHANGED vars => rows' = rows
  BY Zenon DEF vars
<1> QED BY <1>1, <1>2, <1>3, <1>4, <1>5, <1>6, <1>7, <1>8, <1>9, <1>10, Zenon DEF Next

LEMMA IssueAppends ==
  ASSUME IInv, NEW k \in Kind, Issue(k)
  PROVE  \A j \in DOMAIN rows : rows'[j] = rows[j]
<1>1. PICK i \in {0, nxt}, answered \in BOOLEAN : IssueTask(k, i, answered)
  BY Zenon DEF Issue
<1>2. PICK x : rows' = Append(rows, x)
  BY <1>1, Zenon DEF IssueTask
<1> QED BY <1>2 DEF IInv, ClientTypeOK

\* Finished is the last state of a row.
THEOREM FinishedRowsStay == Spec => FinishedStays
<1>1. ASSUME IInv, [Next]_vars, NEW i \in DOMAIN rows, rows[i].finished
      PROVE  rows'[i].finished
  <2>1. CASE rows' = rows
    BY <1>1, <2>1, Zenon
  <2>2. ASSUME NEW k \in Kind, Issue(k) PROVE rows'[i].finished
    BY <1>1, <2>2, IssueAppends, Zenon
  <2>3. CASE timer_query_rti
    <3>1. /\ RtiOf(av.id) # "pending"
          /\ rows' = ShowRti(av.id, RtiOf(av.id))
      BY <2>3, Zenon DEF timer_query_rti
    <3>2. RtiOf(av.id) \in Verdict
      BY <1>1, <3>1, RtiType, Zenon DEF IInv
    <3>3. rows'[i].finished = rows[i].finished
      BY <1>1, <3>1, <3>2, Shown, Zenon DEF IInv, ClientTypeOK
    <3> QED BY <1>1, <3>3, Zenon
  <2>4. CASE timer_request_running_status
    <3>1. i \notin Polled
      BY <1>1 DEF Polled, IInv, ClientTypeOK
    <3>2. rows'[i] = rows[i]
      BY <1>1, <2>4, <3>1, Polls, Zenon
    <3> QED BY <1>1, <3>2, Zenon
  <2> QED BY <1>1, <2>1, <2>2, <2>3, <2>4, RowsKeptBut, Zenon
<1>2. IInv /\ [Next]_vars =>
        [\A i \in DOMAIN rows : rows[i].finished => rows'[i].finished]_vars
  BY <1>1, Zenon
<1> QED BY <1>2, IInvAlways, PTL DEF Spec, FinishedStays

LEMMA OnlyQueryGives ==
  ASSUME IInv, [Next]_vars, ~permit, permit'
  PROVE  timer_query_rti
<1>1. ASSUME NEW t \in Task, Finish(t) PROVE FALSE
  BY <1>1, Zenon DEF Finish, clientVars
<1>2. ASSUME NEW t \in Task, NEW v \in Verdict, Decide(t, v) PROVE FALSE
  BY <1>2, Zenon DEF Decide, clientVars
<1>3. ~HubRestarts
  BY Zenon DEF HubRestarts, clientVars
<1>4. ASSUME NEW x \in Loc, Click(x) PROVE FALSE
  BY <1>4, Zenon DEF Click, clientVars
<1>5. ~ClickWithoutPermit
  BY Zenon DEF ClickWithoutPermit, clientVars
<1>6. ASSUME NEW x \in Stor, WareDialog(x) PROVE FALSE
  BY <1>6, Zenon DEF WareDialog, clientVars
<1>7. ~DialogCancelled /\ ~DialogConfirmed
  BY Zenon DEF DialogCancelled, DialogConfirmed
<1>8. ASSUME NEW k \in Kind, ClickWithPermit(k) PROVE FALSE
  BY <1>8, Zenon DEF ClickWithPermit
<1>9. ~timer_request_running_status
  BY Zenon DEF timer_request_running_status
<1>10. ~UNCHANGED vars
  BY Zenon DEF vars
<1> QED BY <1>1, <1>2, <1>3, <1>4, <1>5, <1>6, <1>7, <1>8, <1>9, <1>10, Zenon DEF Next

\* The permit comes back with the verdict on the newest row only, and that
\* row's task had been decided.
THEOREM PermitAfterVerdict == Spec => PermitByVerdict
<1>1. ASSUME IInv, [Next]_vars, ~permit, permit'
      PROVE  /\ rows' # <<>> /\ rows'[Len(rows)].rti \in Verdict
             /\ restarted \/ rows'[Len(rows)].rti = verdict[Len(rows)]
  <2>1. timer_query_rti
    BY <1>1, OnlyQueryGives, Zenon
  <2>2. /\ timer /\ RtiOf(av.id) # "pending"
        /\ rows' = ShowRti(av.id, RtiOf(av.id))
    BY <2>1, Zenon DEF timer_query_rti
  <2>3. /\ rows \in Seq(Row) /\ rows # <<>>
        /\ [id |-> av.id, s |-> av.s, e |-> av.e]
             = [id |-> rows[Len(rows)].id, s |-> rows[Len(rows)].s, e |-> rows[Len(rows)].e]
    BY <1>1, <2>2, Zenon DEF IInv, RowInv, OneUndecided, ClientTypeOK
  <2>4. av.id = rows[Len(rows)].id
    BY <2>3, SameRecord, Zenon
  <2>5. Len(rows) \in DOMAIN rows /\ HasRow(av.id) /\ RowOf(av.id) = Len(rows)
    BY <2>3, <2>4, LastRow, Zenon
  <2>6. /\ RtiOf(av.id) \in Verdict
        /\ \E t \in held : num[t] = av.id /\ RtiOf(av.id) = verdict[t]
    BY <1>1, <2>2, RtiType, Zenon DEF IInv
  <2>7. rows'[Len(rows)].rti = RtiOf(av.id) /\ DOMAIN rows' = DOMAIN rows
    <3>1. PICK i, v, n : i = av.id /\ v = RtiOf(av.id) /\ n = Len(rows)
      BY Zenon
    <3>2. rows' = ShowRti(i, v) /\ v \in Verdict /\ n \in DOMAIN rows /\ HasRow(i) /\ RowOf(i) = n
      BY <2>2, <2>5, <2>6, <3>1, Zenon
    <3>3. /\ DOMAIN ShowRti(i, v) = DOMAIN rows
          /\ \A j \in DOMAIN rows : HasRow(i) /\ j = RowOf(i) => ShowRti(i, v)[j].rti = v
      BY <2>3, <3>2, Shown, Zenon
    <3>4. ShowRti(i, v)[n].rti = v
      BY <3>2, <3>3, Zenon
    <3> QED BY <3>1, <3>2, <3>3, <3>4, Zenon
  <2>8. rows' # <<>>
    <3>1. DOMAIN <<>> = {} OBVIOUS
    <3> QED BY <2>5, <2>7, <3>1
  <2>9. restarted \/ RtiOf(av.id) = verdict[Len(rows)]
    <3>1. PICK t \in held : num[t] = av.id /\ RtiOf(av.id) = verdict[t]
      BY <2>6, Zenon
    <3>2. t \in Task /\ num[t] # 0
      BY <1>1, Zenon DEF IInv, HubTypeOK, HubInv, Numbered
    <3>3. rows[Len(rows)].id \in {0, num[Len(rows)]}
      BY <1>1, <2>5, Zenon DEF IInv, RowInv, RowNumbers
    <3>4. num[Len(rows)] = num[t]
      BY <2>4, <3>1, <3>2, <3>3
    <3>5. Len(rows) \in Task
      BY <1>1, <2>3, Nats DEF IInv, ClientTypeOK, Task
    <3>6. restarted \/ Len(rows) = t
      BY <1>1, <3>2, <3>4, <3>5, Zenon DEF IInv, HubInv, Distinct
    <3> QED BY <3>1, <3>6, Zenon
  <2> QED BY <2>6, <2>7, <2>8, <2>9, Zenon
<1>2. IInv /\ [Next]_vars =>
        [~permit /\ permit' =>
           /\ rows' # <<>>
           /\ rows'[Len(rows)].rti \in Verdict
           /\ restarted \/ rows'[Len(rows)].rti = verdict[Len(rows)]]_vars
  BY <1>1, Zenon
<1> QED BY <1>2, IInvAlways, PTL DEF Spec, PermitByVerdict

-----------------------------------------------------------------------------
(* Red locations                                                           *)

\* What a location that is dropped and stays red shows of the client.
Refused(x) == ~permit /\ ~permit' /\ x \notin {av.s, av.e} /\ av.s # Nowhere
Stranded(x) == x \in red /\ Chosen(x) /\ ~Chosen(x)' /\ x \in red'

LEMMA RedClick ==
  ASSUME PickInv, NEW y \in Loc, stor_loc_display(y), NEW x, Stranded(x)
  PROVE  FALSE
<1> USE LocAssumption DEF PickInv, PickTypeOK, EndsDiffer, Chosen, Stranded
<1>1. CASE ReplaceEnd(y) BY <1>1 DEF ReplaceEnd
<1>2. CASE DropEnd(y) BY <1>2 DEF DropEnd
<1>3. CASE PickEnd(y) BY <1>3 DEF PickEnd
<1>4. CASE DropBegin(y) BY <1>4 DEF DropBegin
<1>5. CASE PickBegin(y) BY <1>5 DEF PickBegin
<1>6. CASE EndToBegin(y) BY <1>6 DEF EndToBegin
<1> QED BY <1>1, <1>2, <1>3, <1>4, <1>5, <1>6 DEF stor_loc_display

LEMMA RedRestore ==
  ASSUME NEW s, NEW e, RestoreEnds(s, e), NEW x, Stranded(x)
  PROVE  s # Nowhere /\ x \notin {s, e}
<1>1. CASE s = Nowhere
  <2>1. UNCHANGED pickVars
    BY <1>1 DEF RestoreEnds
  <2> QED BY <2>1 DEF Stranded, Chosen, pickVars
<1>2. CASE s # Nowhere
  <2>1. red' = red \ {s, e}
    BY <1>2 DEF RestoreEnds
  <2> QED BY <1>2, <2>1 DEF Stranded
<1> QED BY <1>1, <1>2

LEMMA RedKept ==
  ASSUME UNCHANGED <<edit1, edit2>>, NEW x, Stranded(x)
  PROVE  FALSE
  BY DEF Stranded, Chosen

\* A task that is issued takes both its ends along, or has none.
LEMMA RedIssue ==
  ASSUME NEW k \in Kind, Issue(k), NEW x, Stranded(x)
  PROVE  FALSE
<1>1. PICK i \in {0, nxt}, answered \in BOOLEAN : IssueTask(k, i, answered)
  BY Zenon DEF Issue
<1>2. RestoreEnds(EndsOf(k)[1], EndsOf(k)[2])
  BY <1>1, Zenon DEF IssueTask
<1>3. EndsOf(k)[1] # Nowhere /\ x \notin {EndsOf(k)[1], EndsOf(k)[2]}
  BY <1>2, RedRestore, Zenon
<1>4. EndsOf(k) = <<edit1, edit2>>
  BY <1>3 DEF EndsOf
<1> QED BY <1>3, <1>4 DEF Stranded, Chosen

\* A red location is left behind by a click that was refused, and by nothing
\* else.
THEOREM RedWasRefused == Spec => RedOnlyIfRefused
<1>1. ASSUME IInv, [Next]_vars, NEW x, Stranded(x) PROVE Refused(x)
  <2>1. CASE UNCHANGED <<edit1, edit2>>
    BY <1>1, <2>1, RedKept, Zenon
  <2>2. ASSUME NEW y \in Loc, Click(y) PROVE FALSE
    BY <1>1, <2>2, RedClick, Zenon DEF Click, IInv
  <2>3. ASSUME NEW k \in Kind, Issue(k) PROVE FALSE
    BY <1>1, <2>3, RedIssue, Zenon
  <2>4. ASSUME NEW k \in Kind, ClickWithPermit(k) PROVE Refused(x)
    <3>1. CASE Issue(k) BY <2>3, <3>1, Zenon
    <3>2. CASE UNCHANGED pickVars BY <2>1, <3>2, Zenon DEF pickVars
    <3> QED BY <2>4, <3>1, <3>2, Zenon DEF ClickWithPermit
  <2>5. CASE ClickWithoutPermit
    <3>1. RestoreEnds(av.s, av.e) /\ ~permit /\ permit' = permit
      BY <2>5, Zenon DEF ClickWithoutPermit, clientVars
    <3> QED BY <1>1, <3>1, RedRestore, Zenon DEF Refused
  <2>6. CASE DialogConfirmed
    <3>1. "I" \in Kind /\ Issue("I")
      BY <1>1, <2>6, Zenon DEF DialogConfirmed, IInv, RowInv, DialogStores
    <3> QED BY <2>3, <3>1, Zenon
  <2>7. CASE DialogCancelled \/ timer_query_rti \/ HubRestarts
    BY <2>1, <2>7, Zenon DEF DialogCancelled, timer_query_rti, HubRestarts, pickVars
  <2>8. CASE timer_request_running_status
    BY <2>1, <2>8, Zenon DEF timer_request_running_status, Repaint
  <2>9. ASSUME NEW y \in Stor, WareDialog(y) PROVE Refused(x)
    BY <2>1, <2>9, Zenon DEF WareDialog, Repaint
  <2>10. ASSUME NEW t \in Task, Finish(t) PROVE Refused(x)
    BY <2>1, <2>10, Zenon DEF Finish, pickVars
  <2>11. ASSUME NEW t \in Task, NEW v \in Verdict, Decide(t, v) PROVE Refused(x)
    BY <2>1, <2>11, Zenon DEF Decide, pickVars
  <2>12. CASE UNCHANGED vars
    BY <2>1, <2>12, Zenon DEF vars, pickVars
  <2> QED BY <1>1, <2>2, <2>4, <2>5, <2>6, <2>7, <2>8, <2>9, <2>10, <2>11, <2>12,
          Zenon DEF Next
<1>2. IInv /\ [Next]_vars =>
        [\A x \in red : Chosen(x) /\ ~Chosen(x)' /\ x \in red' =>
           ~permit /\ ~permit' /\ x \notin {av.s, av.e} /\ av.s # Nowhere]_vars
  BY <1>1, Zenon DEF Stranded, Refused
<1> QED BY <1>2, IInvAlways, PTL DEF Spec, RedOnlyIfRefused
=============================================================================
