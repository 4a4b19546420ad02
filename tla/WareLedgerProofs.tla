--------------------------- MODULE WareLedgerProofs ---------------------------
(***************************************************************************)
(* Proofs about WareLedger for every number of threads, locations, tasks,  *)
(* requests and faults.                                                    *)
(***************************************************************************)
EXTENDS WareLedger, FiniteSetTheorems, SequenceTheorems, WellFoundedInduction, TLAPS

-----------------------------------------------------------------------------
(***************************************************************************)
(* The inductive invariant.                                                *)
(***************************************************************************)

\* What was copied or handled was finished, and what is handled was copied.
WorkInv ==
  /\ \A i \in DOMAIN tis_over : work[tis_over[i]] # NoWork
  /\ \A i \in DOMAIN copy_unhandled : work[copy_unhandled[i]] # NoWork
  /\ \A t \in Task : handled[t] => Copied(t)

\* The worker is at a task of its copy, of the kind its place is for.
AtStore == {"branch", "compose"}
AtMove == {"source", "first", "rest", "found", "choose", "clear", "put", "drop"}
AtBoth == {"wait", "begin", "exec", "mark"}
PlaceInv ==
  /\ worker.pc \in AtStore \union AtMove \union AtBoth => worker.k \in DOMAIN copy_unhandled
  /\ worker.pc \in AtStore => work[Current].op = "store"
  /\ worker.pc \in AtMove => work[Current].op = "move"
  /\ worker.pc \in AtBoth => work[Current].op \in {"store", "move"}

\* A SELECT with rows and the four texts has a ware.
ResultInv == result.n > 0 /\ result.packs => result.ware \in Ware

\* The statement that puts a ware at a location, by what is there.
PutsTo(l, w) == Put(ware_storloc[l] # Nothing, l, w)

\* What an undisturbed worker knows about the table.
AloneInv ==
  LET to == work[Current].to
      from == work[Current].from
      drops == Statement("delete", from, 0)
  IN  alone =>
       /\ worker.pc \in {"branch", "choose"} =>
            (result.n > 0 <=> ware_storloc[to] # Nothing)
       /\ worker.pc = "source" =>
            (result.n > 0 => ware_storloc[from] = result.ware)
       /\ worker.pc \in {"first", "rest"} =>
            result.n > 0 /\ ware_storloc[from] = result.ware
       /\ worker.pc \in {"rest", "found", "choose", "clear", "put", "drop"} =>
            ware_storloc[from] = worker.found
       /\ worker.pc \in {"compose", "clear", "put", "drop"} =>
            (worker.there <=> ware_storloc[to] # Nothing)
       /\ worker.pc = "put" => sql = <<>>
       /\ worker.pc = "drop" => sql = <<PutsTo(to, worker.found)>>
       /\ worker.pc \in {"wait", "begin", "exec"} =>
            \/ work[Current].op = "store" /\ sql = <<PutsTo(to, Current)>>
            \/ /\ work[Current].op = "move" /\ ware_storloc[from] = worker.found
               /\ sql = <<PutsTo(to, worker.found), drops>>
       /\ worker.pc = "mark" =>
            \/ work[Current].op = "store" /\ ware_storloc[to] = Current
            \/ /\ work[Current].op = "move" /\ ware_storloc[to] = worker.found
               /\ ware_storloc[from] = Nothing

-----------------------------------------------------------------------------
(***************************************************************************)
(* Executing the text.                                                     *)
(***************************************************************************)

\* Among some natural numbers there is a least.
LEMMA LeastExists ==
  ASSUME NEW T \in SUBSET Nat, T # {}
  PROVE  \E x \in T : \A y \in T : x <= y
  <1>. DEFINE R == {ss \in Nat \X Nat : ss[1] < ss[2]}
  <1>1. IsWellFoundedOn(R, Nat)
    BY NatLessThanWellFounded, Zenon DEF OpToRel
  <1>2. \E x \in T : \A y \in T : ~ (<<y, x>> \in R)
    <2>. HIDE DEF R
    <2>. QED
      BY <1>1, WFMin, Zenon
  <1>3. PICK x \in T : \A y \in T : ~ (<<y, x>> \in R)
    BY <1>2, Zenon
  <1>4. ASSUME NEW y \in T PROVE ~ (y < x)
    <2>1. <<y, x>> \notin R
      BY <1>3, Zenon
    <2>2. y \in Nat /\ x \in Nat
      OBVIOUS
    <2>. QED
      BY <2>1, <2>2
  <1>. QED
    BY <1>4

\* The largest of some of the first n numbers is one of them.
LEMMA MaxIn ==
  ASSUME NEW n \in Nat, NEW S \in SUBSET (1 .. n), S # {}
  PROVE  Max(S) \in S
  <1>. DEFINE T == {m \in Nat : \E x \in S : m = n - x}
  <1>1. \A x \in S : x \in Int /\ n - x \in T
    OBVIOUS
  <1>2. T \in SUBSET Nat /\ T # {}
    <2>1. PICK x : x \in S
      OBVIOUS
    <2>2. n - x \in T
      BY <1>1, <2>1
    <2>3. T \subseteq Nat
      OBVIOUS
    <2>. HIDE DEF T
    <2>. QED
      BY <2>2, <2>3
  <1>3. \E y \in T : \A z \in T : y <= z
    <2>. HIDE DEF T
    <2>. QED
      BY <1>2, LeastExists
  <1>4. PICK x \in S : \A z \in T : n - x <= z
    BY <1>3
  <1>5. \A z \in S : x >= z
    BY <1>1, <1>4
  <1>. QED
    BY <1>5, Zenon DEF Max

LEMMA MaxOfOne ==
  ASSUME NEW x \in Int
  PROVE  Max({x}) = x
  BY DEF Max

\* What a statement leaves at a location is a ware or nothing.
LEMMA LeftType ==
  ASSUME sql \in Seq(Statements), ware_storloc \in [Loc -> Ware \union {Nothing}],
         NEW l \in Loc
  PROVE  Left(l) \in Ware \union {Nothing}
  <1>1. CASE Written(l) = {} \/ ~There(l, Len(sql))
    BY <1>1 DEF Left
  <1>2. CASE Written(l) # {}
    <2>1. Written(l) \in SUBSET (1 .. Len(sql)) /\ Len(sql) \in Nat
      BY DEF Written
    <2>2. Max(Written(l)) \in 1 .. Len(sql)
      BY <1>2, <2>1, MaxIn, Zenon
    <2>3. sql[Max(Written(l))] \in Statements
      BY <2>2
    <2>4. sql[Max(Written(l))].ware \in Ware
      BY <2>3 DEF Statements
    <2>. QED
      BY <2>4 DEF Left
  <1>. QED
    BY <1>1, <1>2

\* The text for a finished storing puts its stack at its location.
LEMMA StoreExecuted ==
  ASSUME NEW l, NEW w, sql = <<PutsTo(l, w)>>
  PROVE  ~Refused /\ Left(l) = w
  <1>. DEFINE s == PutsTo(l, w)
  <1>1. /\ Len(sql) = 1 /\ DOMAIN sql = {1} /\ 1 .. 1 = {1} /\ 1 .. 0 = {}
        /\ sql[1] = s
    OBVIOUS
  <1>2. /\ s.loc = l /\ s.ware = w /\ s.op # "delete"
        /\ s.op = "insert" <=> ware_storloc[l] = Nothing
        /\ s.op = "update" <=> ware_storloc[l] # Nothing
    BY DEF PutsTo, Put, Statement
  <1>. HIDE DEF s
  <1>3. Decisive(l, 0) = {}
    BY <1>1 DEF Decisive
  <1>4. There(l, 0) <=> ware_storloc[l] # Nothing
    BY <1>3 DEF There
  <1>5. ~Refused
    BY <1>1, <1>2, <1>4 DEF Refused
  <1>6. Decisive(l, 1) = IF s.op = "update" THEN {} ELSE {1}
    BY <1>1, <1>2 DEF Decisive
  <1>7. There(l, 1)
    BY <1>1, <1>2, <1>6, MaxOfOne DEF There
  <1>8. Written(l) = {1}
    BY <1>1, <1>2, <1>4 DEF Written
  <1>. QED
    BY <1>1, <1>2, <1>5, <1>7, <1>8, MaxOfOne DEF Left

\* The text for a finished move puts the stack at the target and leaves nothing
\* at the source.
LEMMA MoveExecuted ==
  ASSUME NEW l, NEW m, m # l, NEW w,
         sql = <<PutsTo(l, w), Statement("delete", m, 0)>>
  PROVE  ~Refused /\ Left(l) = w /\ Left(m) = Nothing
  <1>. DEFINE s == PutsTo(l, w)
             d == Statement("delete", m, 0)
  <1>1. /\ Len(sql) = 2 /\ DOMAIN sql = {1, 2} /\ 1 .. 2 = {1, 2} /\ 1 .. 0 = {}
        /\ sql[1] = s /\ sql[2] = d
    OBVIOUS
  <1>2. /\ s.loc = l /\ s.ware = w /\ s.op # "delete"
        /\ s.op = "insert" <=> ware_storloc[l] = Nothing
        /\ s.op = "update" <=> ware_storloc[l] # Nothing
        /\ d.loc = m /\ d.op = "delete"
    BY DEF PutsTo, Put, Statement
  <1>. HIDE DEF s, d
  <1>3. Decisive(l, 0) = {}
    BY <1>1 DEF Decisive
  <1>4. There(l, 0) <=> ware_storloc[l] # Nothing
    BY <1>3 DEF There
  <1>5. ~Refused
    BY <1>1, <1>2, <1>4 DEF Refused
  <1>6. Decisive(l, 2) = IF s.op = "update" THEN {} ELSE {1}
    BY <1>1, <1>2 DEF Decisive
  <1>7. There(l, 2)
    BY <1>1, <1>2, <1>6, MaxOfOne DEF There
  <1>8. Written(l) = {1}
    BY <1>1, <1>2, <1>4 DEF Written
  <1>9. Decisive(m, 2) = {2}
    BY <1>1, <1>2 DEF Decisive
  <1>10. ~There(m, 2)
    BY <1>1, <1>2, <1>9, MaxOfOne DEF There
  <1>. QED
    BY <1>1, <1>2, <1>5, <1>7, <1>8, <1>10, MaxOfOne DEF Left

-----------------------------------------------------------------------------
(***************************************************************************)
(* Types.                                                                  *)
(***************************************************************************)

\* The parts of what a task was.
LEMMA WorkFacts ==
  ASSUME NEW w \in Work
  PROVE  /\ w # NoWork
         /\ w.op \in {"store", "move", "take"} /\ w.to \in Loc
         /\ w.op = "move" => w.from \in Loc /\ w.from # w.to
  <1>1. w.op # "none" /\ w.op \in {"store", "move", "take"}
    BY DEF Work
  <1>2. w.to \in Loc /\ (w.op = "move" => w.from \in Loc /\ w.from # w.to)
    BY DEF Work
  <1>3. w # NoWork
    BY <1>1 DEF NoWork
  <1>. QED
    BY <1>1, <1>2, <1>3

LEMMA TaskFacts ==
  /\ MaxTask \in Nat
  /\ \A t \in Task : t \in Nat /\ t \in Ware /\ t # Nothing
  /\ 0 \in Ware /\ Changed \in Ware /\ Blank \in Ware /\ Mixed \in Ware
  /\ \A w \in Ware : w # Nothing
  BY LedgerBounds DEF Task, Ware, Nothing, Changed, Blank, Mixed

\* The task the worker is at.
LEMMA CurrentFacts ==
  ASSUME TypeOK, WorkInv, worker.k \in DOMAIN copy_unhandled
  PROVE  /\ Current \in Task /\ work[Current] \in Work
         /\ worker.k + 1 \in 1 .. Len(copy_unhandled) + 1
  <1>1. copy_unhandled \in Seq(Task) /\ work \in [Task -> Work \union {NoWork}]
    BY DEF TypeOK
  <1>2. Current \in Task /\ work[Current] # NoWork
    BY <1>1 DEF WorkInv, Current
  <1>3. worker.k + 1 \in 1 .. Len(copy_unhandled) + 1
    BY <1>1
  <1>. QED
    BY <1>1, <1>2, <1>3

\* The worker's record, when it goes on.
WorkerStates(n) == [pc : Places, k : 1 .. n + 1, found : Ware, there : BOOLEAN]

LEMMA WorkerRecords ==
  ASSUME TypeOK
  PROVE  /\ worker.pc \in Places /\ worker.k \in 1 .. Len(copy_unhandled) + 1
         /\ worker.found \in Ware /\ worker.there \in BOOLEAN
         /\ \A p \in Places : [worker EXCEPT !.pc = p] \in WorkerStates(Len(copy_unhandled))
  <1>1. worker \in WorkerStates(Len(copy_unhandled))
    BY DEF TypeOK, WorkerStates
  <1>2. /\ worker.pc \in Places /\ worker.k \in 1 .. Len(copy_unhandled) + 1
        /\ worker.found \in Ware /\ worker.there \in BOOLEAN
    BY <1>1 DEF WorkerStates
  <1>3. ASSUME NEW p \in Places
        PROVE  [worker EXCEPT !.pc = p] \in WorkerStates(Len(copy_unhandled))
    BY <1>1 DEF WorkerStates
  <1>. QED
    BY <1>2, <1>3, Zenon

LEMMA WorkerSet ==
  ASSUME NEW n \in Nat, NEW k \in 1 .. n + 1, NEW p \in Places, NEW w \in Ware,
         NEW b \in BOOLEAN
  PROVE  At(p, k, w, b) \in WorkerStates(n)
  BY DEF At, WorkerStates

\* What the SELECTs find.
LEMMA RowTypes ==
  ASSUME TypeOK, NEW l \in Loc
  PROVE  /\ Row(l, TRUE) \in [n : Nat, ware : Ware \union {Nothing}, packs : BOOLEAN]
         /\ Row(l, FALSE) \in [n : Nat, ware : Ware \union {Nothing}, packs : BOOLEAN]
         /\ \A p : /\ Row(l, p).n > 0 <=> ware_storloc[l] # Nothing
                   /\ Row(l, p).ware = ware_storloc[l]
                   /\ Row(l, p).packs = p
  <1>1. ware_storloc[l] \in Ware \union {Nothing}
    BY DEF TypeOK
  <1>. QED
    BY <1>1 DEF Row, Rows

LEMMA StatementTypes ==
  ASSUME NEW l \in Loc, NEW w \in Ware
  PROVE  /\ \A b : Put(b, l, w) \in Statements
         /\ Statement("delete", l, w) \in Statements
         /\ Statement("insert", l, w) \in Statements
  BY DEF Put, Statement, Statements

LEMMA AsleepType ==
  ASSUME NEW n \in Nat
  PROVE  Asleep \in WorkerStates(n)
  <1>1. 1 \in 1 .. n + 1 /\ "sleep" \in Places
    BY DEF Places
  <1>. QED
    BY <1>1, WorkerSet, TaskFacts, Zenon DEF Asleep

LEMMA GoesOnType ==
  ASSUME TypeOK, worker.k \in DOMAIN copy_unhandled, GoesOn
  PROVE  worker' \in WorkerStates(Len(copy_unhandled))
  <1>1. /\ Len(copy_unhandled) \in Nat /\ "pick" \in Places
        /\ worker.k + 1 \in 1 .. Len(copy_unhandled) + 1
    BY DEF TypeOK, Places
  <1>. QED
    BY <1>1, WorkerSet, TaskFacts, Zenon DEF GoesOn

\* What the worker reads of a SELECT for the texts.
LEMMA TextType ==
  ASSUME TypeOK, ResultInv, result.packs
  PROVE  Text \in Ware
  <1>1. result.n \in Nat
    BY DEF TypeOK
  <1>. QED
    BY <1>1, TaskFacts DEF Text, ResultInv

LEMMA TypeInit == Init => TypeOK
  <1>. SUFFICES ASSUME Init PROVE TypeOK
    OBVIOUS
  <1>1. work \in [Task -> Work \union {NoWork}] /\ handled \in [Task -> BOOLEAN]
    BY DEF Init
  <1>2. tis_over \in Seq(Task) /\ copy_unhandled \in Seq(Task) /\ sql \in Seq(Statements)
    BY DEF Init
  <1>3. ware_storloc \in [Loc -> Ware \union {Nothing}]
    BY TaskFacts DEF Init
  <1>4. result \in [n : Nat, ware : Ware \union {Nothing}, packs : BOOLEAN]
    BY DEF Init, Rows
  <1>5. worker \in [pc : Places, k : 1 .. Len(copy_unhandled) + 1, found : Ware,
                    there : BOOLEAN]
    BY TaskFacts DEF Init, Asleep, At, Places
  <1>6. http \in [HttpThreads -> HttpStates]
    BY DEF Init, HttpStates
  <1>7. incoming \in BOOLEAN /\ InTransaction \in BOOLEAN /\ alone \in BOOLEAN
    BY Zenon DEF Init
  <1>8. erased \subseteq Loc /\ requests \in 0 .. MaxRequest /\ faults \in 0 .. MaxFault
    BY LedgerBounds DEF Init
  <1>. QED
    BY <1>1, <1>2, <1>3, <1>4, <1>5, <1>6, <1>7, <1>8 DEF TypeOK

\* After the text was executed, or was not.
LEMMA ExecuteTypes ==
  ASSUME TypeOK, NEW e \in SUBSET Loc, NEW f \in SUBSET Loc, Execute(e, f)
  PROVE  /\ ware_storloc' \in [Loc -> Ware \union {Nothing}]
         /\ erased' \subseteq Loc /\ InTransaction' = FALSE
         /\ faults' \in 0 .. MaxFault
  <1>1. CASE ~Refused /\ UNCHANGED faults /\ InTransaction' = FALSE
             /\ ware_storloc' = [l \in Loc |-> Left(l)]
             /\ erased' = {l \in erased \union e :
                            ware_storloc'[l] # Nothing => l \in erased \ f}
    <2>1. \A l \in Loc : Left(l) \in Ware \union {Nothing}
      BY LeftType DEF TypeOK
    <2>2. erased' \subseteq Loc
      BY <1>1 DEF TypeOK
    <2>. QED
      BY <1>1, <2>1, <2>2 DEF TypeOK
  <1>2. CASE /\ Refused \/ faults < MaxFault
             /\ faults' = IF Refused THEN faults ELSE faults + 1
             /\ Rollback
             /\ UNCHANGED table
    BY <1>2, LedgerBounds DEF TypeOK, table, Rollback
  <1>. QED
    BY <1>1, <1>2, Zenon DEF Execute

LEMMA EmptiedTypes ==
  ASSUME TypeOK, Emptied, faults' \in 0 .. MaxFault
  PROVE  TypeOK'
  <1>1. tis_over' \in Seq(Task) /\ copy_unhandled' \in Seq(Task)
        /\ sql' \in Seq(Statements) /\ copy_unhandled' = <<>>
    BY DEF Emptied
  <1>2. handled' \in [Task -> BOOLEAN] /\ http' \in [HttpThreads -> HttpStates]
    BY DEF Emptied, HttpStates
  <1>3. result' \in [n : Nat, ware : Ware \union {Nothing}, packs : BOOLEAN]
    BY DEF Emptied, Rows
  <1>4. worker' \in [pc : Places, k : 1 .. Len(copy_unhandled') + 1, found : Ware,
                     there : BOOLEAN]
    BY <1>1, TaskFacts DEF Emptied, Asleep, At, Places
  <1>5. incoming' \in BOOLEAN /\ InTransaction' \in BOOLEAN /\ alone' \in BOOLEAN
    BY Zenon DEF Emptied
  <1>6. work' \in [Task -> Work \union {NoWork}] /\ requests' \in 0 .. MaxRequest
        /\ ware_storloc' \in [Loc -> Ware \union {Nothing}] /\ erased' \subseteq Loc
    BY DEF Emptied, TypeOK, table
  <1>. QED
    BY <1>1, <1>2, <1>3, <1>4, <1>5, <1>6 DEF TypeOK

\* Finished tasks, and the worker's sections.
LEMMA FinishTypes ==
  ASSUME TypeOK, NEW w \in Work, Finish(w)
  PROVE  TypeOK'
  <1>1. PICK t \in Task : /\ work' = [work EXCEPT ![t] = w]
                          /\ tis_over' = <<t>> \o tis_over
    BY Zenon DEF Finish, OverWith
  <1>2. tis_over' \in Seq(Task) /\ work' \in [Task -> Work \union {NoWork}]
    BY <1>1 DEF TypeOK
  <1>3. incoming' \in BOOLEAN
    BY Zenon DEF Finish
  <1>4. UNCHANGED <<handled, copy_unhandled, ware_storloc, erased, result, sql,
                    InTransaction, worker, http, alone, requests, faults>>
    BY DEF Finish, table, objects
  <1>. QED
    BY <1>2, <1>3, <1>4 DEF TypeOK

LEMMA WakeTypes ==
  ASSUME TypeOK, Wake
  PROVE  TypeOK'
  <1>1. PICK n \in 0 .. Len(tis_over) :
          copy_unhandled' = copy_unhandled \o SubSeq(tis_over, 1, n)
    BY Zenon DEF Wake
  <1>2. /\ copy_unhandled' \in Seq(Task)
        /\ Len(copy_unhandled') \in Nat
    BY <1>1 DEF TypeOK
  <1>3. worker' \in WorkerStates(Len(copy_unhandled'))
    <2>1. 1 \in 1 .. Len(copy_unhandled') + 1 /\ "pick" \in Places
      BY <1>2 DEF Places
    <2>. QED
      BY <1>2, <2>1, WorkerSet, TaskFacts, Zenon DEF Wake
  <1>4. incoming' \in BOOLEAN
    BY Zenon DEF Wake
  <1>5. UNCHANGED <<work, tis_over, handled, ware_storloc, erased, result, sql,
                    InTransaction, http, alone, requests, faults>>
    BY DEF Wake, table, objects
  <1>. QED
    BY <1>2, <1>3, <1>4, <1>5 DEF TypeOK, WorkerStates

\* The rest of the worker's steps.
LEMMA WorkerTypes ==
  ASSUME TypeOK, WorkInv, PlaceInv, ResultInv, WorkerNext, ~Wake
  PROVE  TypeOK'
  <1>. USE DEF AtStore, AtMove, AtBoth
  <1>. DEFINE States == WorkerStates(Len(copy_unhandled))
  <1>0. /\ Len(copy_unhandled) \in Nat
        /\ DOMAIN copy_unhandled = 1 .. Len(copy_unhandled)
    BY DEF TypeOK
  <1>1. CASE RoundEnds
    <2>1. worker' \in States
      BY <1>1, <1>0, AsleepType DEF RoundEnds
    <2>2. UNCHANGED <<work, tis_over, handled, incoming, copy_unhandled, ware_storloc, erased,
                      result, sql, InTransaction, http, alone, requests, faults>>
      BY <1>1 DEF RoundEnds, memory, table, objects
    <2>. QED
      BY <2>1, <2>2 DEF TypeOK, WorkerStates
  <1>2. CASE SkipTake
    <2>1. worker' \in States
      BY <1>2, <1>0, WorkerRecords, GoesOnType DEF SkipTake, Picks
    <2>2. UNCHANGED <<work, tis_over, handled, incoming, copy_unhandled, ware_storloc, erased,
                      result, sql, InTransaction, http, alone, requests, faults>>
      BY <1>2 DEF SkipTake, memory, table, objects
    <2>. QED
      BY <2>1, <2>2 DEF TypeOK, WorkerStates
  <1>3. CASE SelectPlace
    <2>1. worker' \in States
      BY <1>3, WorkerRecords DEF SelectPlace, Goes, Places
    <2>2. Current \in Task /\ work[Current] \in Work
      BY <1>3, <1>0, WorkerRecords, CurrentFacts DEF SelectPlace, Picks, PlaceInv
    <2>3. work[Current].to \in Loc
      BY <2>2, WorkFacts
    <2>4. result' \in [n : Nat, ware : Ware \union {Nothing}, packs : BOOLEAN]
      BY <1>3, <2>3, RowTypes, Zenon DEF SelectPlace
    <2>5. alone' \in BOOLEAN
      BY <1>3, Zenon DEF SelectPlace
    <2>6. UNCHANGED <<work, tis_over, handled, incoming, copy_unhandled, ware_storloc,
                      erased, sql, InTransaction, http, requests, faults>>
      BY <1>3 DEF SelectPlace, memory, table, objects
    <2>. QED
      BY <2>1, <2>2, <2>3, <2>4, <2>5, <2>6 DEF TypeOK, WorkerStates
  <1>4. CASE ComposeStore
    <2>1. worker' \in States
      BY <1>4, WorkerRecords DEF ComposeStore, Goes, Places
    <2>2. Current \in Task /\ work[Current] \in Work
      BY <1>4, <1>0, WorkerRecords, CurrentFacts DEF ComposeStore, Picks, PlaceInv
    <2>3. Put(worker.there, work[Current].to, Current) \in Statements
      BY <2>2, WorkFacts, TaskFacts, StatementTypes
    <2>4. sql' \in Seq(Statements)
      BY <1>4, <2>3 DEF ComposeStore
    <2>5. UNCHANGED <<work, tis_over, handled, incoming, copy_unhandled, ware_storloc,
                      erased, result, InTransaction, http, alone, requests, faults>>
      BY <1>4 DEF ComposeStore, memory, table, objects
    <2>. QED
      BY <2>1, <2>2, <2>3, <2>4, <2>5 DEF TypeOK, WorkerStates
  <1>5. CASE SelectSource
    <2>1. worker' \in States
      BY <1>5, WorkerRecords DEF SelectSource, Goes, Places
    <2>2. Current \in Task /\ work[Current] \in Work
      BY <1>5, <1>0, WorkerRecords, CurrentFacts DEF SelectSource, Picks, PlaceInv
    <2>3. work[Current].from \in Loc
      BY <1>5, <2>2, WorkFacts DEF SelectSource, Picks
    <2>4. result' \in [n : Nat, ware : Ware \union {Nothing}, packs : BOOLEAN]
      BY <1>5, <2>3, RowTypes, Zenon DEF SelectSource
    <2>5. alone' \in BOOLEAN
      BY <1>5, Zenon DEF SelectSource
    <2>6. UNCHANGED <<work, tis_over, handled, incoming, copy_unhandled, ware_storloc,
                      erased, sql, InTransaction, http, requests, faults>>
      BY <1>5 DEF SelectSource, memory, table, objects
    <2>. QED
      BY <2>1, <2>2, <2>3, <2>4, <2>5, <2>6 DEF TypeOK, WorkerStates
  <1>6. CASE CountSource
    <2>1. ASSUME GoesOn PROVE worker' \in States
      BY <1>6, <2>1, GoesOnType DEF CountSource, PlaceInv
    <2>2. ASSUME Goes("first") PROVE worker' \in States
      BY <2>2, WorkerRecords DEF Goes, Places
    <2>3. worker' \in States
      BY <1>6, <2>1, <2>2, Zenon DEF CountSource
    <2>4. UNCHANGED <<work, tis_over, handled, incoming, copy_unhandled, ware_storloc, erased,
                      result, sql, InTransaction, http, alone, requests, faults>>
      BY <1>6 DEF CountSource, memory, table, objects
    <2>. QED
      BY <2>3, <2>4 DEF TypeOK, WorkerStates
  <1>7. ASSUME NEW p \in Places, NEW w, result.packs => w \in Ware, ReadTexts(p, w)
         PROVE  TypeOK'
    <2>1. CASE /\ result.packs
               /\ worker' = At(p, worker.k, w, FALSE)
               /\ UNCHANGED <<work, memory, table, objects, http, alone, requests>>
               /\ UNCHANGED faults
      <3>1. worker.k \in 1 .. Len(copy_unhandled) + 1 /\ w \in Ware
        BY <1>7, <2>1, WorkerRecords
      <3>2. worker' \in States
        BY <1>0, <2>1, <3>1, WorkerSet, Zenon
      <3>3. UNCHANGED <<work, tis_over, handled, incoming, copy_unhandled, ware_storloc,
                        erased, result, sql, InTransaction, http, alone, requests, faults>>
        BY <2>1 DEF memory, table, objects
      <3>. QED
        BY <3>2, <3>3 DEF TypeOK, WorkerStates
    <2>2. CASE Emptied /\ UNCHANGED faults
      BY <2>2, EmptiedTypes DEF TypeOK
    <2>. QED
      BY <1>7, <2>1, <2>2, Zenon DEF ReadTexts
  <1>8. CASE ReadFirst
    <2>1. "rest" \in Places
      BY DEF Places
    <2>. QED
      BY <1>7, <1>8, <2>1, TextType, Zenon DEF ReadFirst
  <1>9. CASE ReadRest
    <2>1. "found" \in Places
      BY DEF Places
    <2>2. PICK w : /\ w = IF Text = worker.found THEN Text ELSE Mixed
                   /\ ReadTexts("found", w)
      BY <1>9, Zenon DEF ReadRest
    <2>3. result.packs => w \in Ware
      BY <2>2, TextType, TaskFacts
    <2>. QED
      BY <1>7, <2>1, <2>2, <2>3, Zenon
  <1>10. CASE SelectTarget
    <2>1. worker' \in States
      BY <1>10, WorkerRecords DEF SelectTarget, Goes, Places
    <2>2. Current \in Task /\ work[Current] \in Work
      BY <1>10, <1>0, WorkerRecords, CurrentFacts DEF SelectTarget, Picks, PlaceInv
    <2>3. work[Current].to \in Loc
      BY <2>2, WorkFacts
    <2>4. result' \in [n : Nat, ware : Ware \union {Nothing}, packs : BOOLEAN]
      BY <1>10, <2>3, RowTypes, Zenon DEF SelectTarget
    <2>5. UNCHANGED <<work, tis_over, handled, incoming, copy_unhandled, ware_storloc,
                      erased, sql, InTransaction, http, alone, requests, faults>>
      BY <1>10 DEF SelectTarget, memory, table, objects
    <2>. QED
      BY <2>1, <2>2, <2>3, <2>4, <2>5 DEF TypeOK, WorkerStates
  <1>11. CASE ClearPut
    <2>1. worker' \in States
      BY <1>11, WorkerRecords DEF ClearPut, Goes, Places
    <2>2. sql' \in Seq(Statements)
      BY <1>11 DEF ClearPut
    <2>3. UNCHANGED <<work, tis_over, handled, incoming, copy_unhandled, ware_storloc,
                      erased, result, InTransaction, http, alone, requests, faults>>
      BY <1>11 DEF ClearPut, memory, table, objects
    <2>. QED
      BY <2>1, <2>2, <2>3 DEF TypeOK, WorkerStates
  <1>12. CASE CountRows
    <2>1. PICK p \in {"compose", "clear"} :
            worker' = At(p, worker.k, worker.found, result.n > 0)
      BY <1>12 DEF CountRows
    <2>2. (result.n > 0) \in BOOLEAN /\ p \in Places
      BY DEF Places
    <2>3. worker' \in States
      BY <1>0, <2>1, <2>2, WorkerSet, WorkerRecords, Zenon
    <2>4. UNCHANGED <<work, tis_over, handled, incoming, copy_unhandled, ware_storloc, erased,
                      result, sql, InTransaction, http, alone, requests, faults>>
      BY <1>12 DEF CountRows, memory, table, objects
    <2>. QED
      BY <2>3, <2>4 DEF TypeOK, WorkerStates
  <1>13. CASE AddPut
    <2>1. worker' \in States
      BY <1>13, WorkerRecords DEF AddPut, Goes, Places
    <2>2. Current \in Task /\ work[Current] \in Work
      BY <1>13, <1>0, WorkerRecords, CurrentFacts DEF AddPut, Picks, PlaceInv
    <2>3. Put(worker.there, work[Current].to, worker.found) \in Statements
      BY <2>2, WorkFacts, WorkerRecords, StatementTypes
    <2>4. sql' \in Seq(Statements)
      BY <1>13, <2>3 DEF AddPut, TypeOK
    <2>5. UNCHANGED <<work, tis_over, handled, incoming, copy_unhandled, ware_storloc,
                      erased, result, InTransaction, http, alone, requests, faults>>
      BY <1>13 DEF AddPut, memory, table, objects
    <2>. QED
      BY <2>1, <2>2, <2>3, <2>4, <2>5 DEF TypeOK, WorkerStates
  <1>14. CASE AddDelete
    <2>1. worker' \in States
      BY <1>14, WorkerRecords DEF AddDelete, Goes, Places
    <2>2. Current \in Task /\ work[Current] \in Work
      BY <1>14, <1>0, WorkerRecords, CurrentFacts DEF AddDelete, Picks, PlaceInv
    <2>3. work[Current].from \in Loc
      BY <1>14, <2>2, WorkFacts DEF AddDelete, PlaceInv
    <2>4. Statement("delete", work[Current].from, 0) \in Statements
      BY <2>3, TaskFacts, StatementTypes
    <2>5. sql' \in Seq(Statements)
      BY <1>14, <2>4 DEF AddDelete, TypeOK
    <2>6. UNCHANGED <<work, tis_over, handled, incoming, copy_unhandled, ware_storloc,
                      erased, result, InTransaction, http, alone, requests, faults>>
      BY <1>14 DEF AddDelete, memory, table, objects
    <2>. QED
      BY <2>1, <2>2, <2>3, <2>4, <2>5, <2>6 DEF TypeOK, WorkerStates
  <1>15. CASE WorkerWaits
    <2>1. worker' \in States
      BY <1>15, WorkerRecords DEF WorkerWaits, Goes, Places
    <2>2. UNCHANGED <<work, tis_over, handled, incoming, copy_unhandled, ware_storloc, erased,
                      result, sql, InTransaction, http, alone, requests, faults>>
      BY <1>15 DEF WorkerWaits, memory, table, objects
    <2>. QED
      BY <2>1, <2>2 DEF TypeOK, WorkerStates
  <1>16. CASE WorkerBegins
    <2>1. CASE /\ InTransaction' = TRUE /\ Goes("exec")
               /\ UNCHANGED <<work, memory, table, result, sql, http, alone, requests, faults>>
      <3>1. worker' \in States
        BY <2>1, WorkerRecords DEF Goes, Places
      <3>2. InTransaction' \in BOOLEAN
        BY <2>1, Zenon
      <3>. QED
        BY <2>1, <3>1, <3>2 DEF TypeOK, WorkerStates, memory, table
    <2>2. CASE Emptied /\ UNCHANGED faults
      BY <2>2, EmptiedTypes DEF TypeOK
    <2>. QED
      BY <1>16, <2>1, <2>2, Zenon DEF WorkerBegins
  <1>17. CASE WorkerExecutes
    <2>1. worker' \in States
      BY <1>17, WorkerRecords DEF WorkerExecutes, Goes, Places
    <2>2. PICK f \in SUBSET Loc : Execute({}, f)
      BY <1>17, Zenon DEF WorkerExecutes
    <2>3. /\ ware_storloc' \in [Loc -> Ware \union {Nothing}] /\ erased' \subseteq Loc
          /\ InTransaction' = FALSE /\ faults' \in 0 .. MaxFault
      <3>1. {} \in SUBSET Loc
        OBVIOUS
      <3>. QED
        BY <2>2, <3>1, ExecuteTypes, Zenon
    <2>4. alone' \in BOOLEAN /\ InTransaction' \in BOOLEAN
      BY <1>17, <2>3, Zenon DEF WorkerExecutes
    <2>5. UNCHANGED <<work, tis_over, handled, incoming, copy_unhandled, result, sql,
                      http, requests>>
      BY <1>17 DEF WorkerExecutes, memory
    <2>. QED
      BY <2>1, <2>3, <2>4, <2>5 DEF TypeOK, WorkerStates
  <1>18. CASE MarkHandled
    <2>1. worker' \in States
      BY <1>18, GoesOnType DEF MarkHandled, PlaceInv
    <2>2. handled' \in [Task -> BOOLEAN]
      BY <1>18, Zenon DEF MarkHandled, TypeOK
    <2>3. UNCHANGED <<work, tis_over, incoming, copy_unhandled, ware_storloc, erased,
                      result, sql, InTransaction, http, alone, requests, faults>>
      BY <1>18 DEF MarkHandled, memory, table, objects
    <2>. QED
      BY <2>1, <2>2, <2>3 DEF TypeOK, WorkerStates
  <1>. QED
    BY <1>1, <1>2, <1>3, <1>4, <1>5, <1>6, <1>8, <1>9, <1>10, <1>11, <1>12, <1>13, <1>14,
       <1>15, <1>16, <1>17, <1>18, Zenon DEF WorkerNext

\* What HTTP threads are set to.
LEMMA HttpRecords ==
  /\ Free \in HttpStates
  /\ \A l \in Loc, r \in {"erase", "change", "insert"},
        q \in {"read", "drop", "clear", "add", "wait", "begin", "exec"} : Asked(q, r, l) \in HttpStates
  BY DEF HttpStates, Asked

\* A thread that serves a request has one, and goes on with it.
LEMMA HttpTurns ==
  ASSUME NEW s \in HttpStates, s.pc # "idle"
  PROVE  /\ s.loc \in Loc /\ s.asks \in {"erase", "change", "insert"}
         /\ \A q \in {"read", "drop", "clear", "add", "wait", "begin", "exec"} :
              [s EXCEPT !.pc = q] \in HttpStates
  <1>1. s \in [pc : {"read", "drop", "clear", "add", "wait", "begin", "exec"},
              asks : {"erase", "change", "insert"}, loc : Loc]
    BY DEF HttpStates, Free
  <1>2. ASSUME NEW q \in {"read", "drop", "clear", "add", "wait", "begin", "exec"}
        PROVE  [s EXCEPT !.pc = q] \in HttpStates
    BY <1>1 DEF HttpStates
  <1>3. s.loc \in Loc /\ s.asks \in {"erase", "change", "insert"}
    BY <1>1
  <1>. QED
    BY <1>2, <1>3

LEMMA HttpTypes ==
  ASSUME TypeOK, NEW h \in HttpThreads,
         \/ \E l \in Loc : Erase(h, l)
         \/ \E l \in Loc : Change(h, l)
         \/ Look(h)
         \/ Serves(h)
  PROVE  TypeOK'
  <1>0. http \in [HttpThreads -> HttpStates] /\ http[h] \in HttpStates
    BY DEF TypeOK
  <1>1. CASE \E l \in Loc : Erase(h, l)
    <2>1. PICK l \in Loc : Erase(h, l)
      BY <1>1, Zenon
    <2>2. Statement("delete", l, 0) \in Statements
      BY TaskFacts, StatementTypes
    <2>3. sql' \in Seq(Statements)
      BY <2>1, <2>2 DEF Erase
    <2>4. Asked("wait", "erase", l) \in HttpStates
      BY HttpRecords
    <2>5. http' \in [HttpThreads -> HttpStates]
      BY <2>1, <1>0, <2>4 DEF Erase
    <2>6. requests' \in 0 .. MaxRequest
      BY <2>1, LedgerBounds DEF Erase, Asks, TypeOK
    <2>7. alone' \in BOOLEAN
      BY <2>1, Zenon DEF Erase
    <2>8. UNCHANGED <<work, tis_over, handled, incoming, copy_unhandled,
                      ware_storloc, erased, result, InTransaction, worker, faults>>
      BY <2>1 DEF Erase, memory, table, objects
    <2>. QED
      BY <2>1, <2>2, <2>3, <2>4, <2>5, <2>6, <2>7, <2>8 DEF TypeOK
  <1>2. CASE \E l \in Loc : Change(h, l)
    <2>1. PICK l \in Loc : Change(h, l)
      BY <1>2, Zenon
    <2>2. result' \in [n : Nat, ware : Ware \union {Nothing}, packs : BOOLEAN]
      BY <2>1, RowTypes, Zenon DEF Change
    <2>3. Asked("read", "change", l) \in HttpStates
      BY HttpRecords
    <2>4. http' \in [HttpThreads -> HttpStates]
      BY <2>1, <1>0, <2>3 DEF Change
    <2>5. requests' \in 0 .. MaxRequest
      BY <2>1, LedgerBounds DEF Change, Asks, TypeOK
    <2>6. alone' \in BOOLEAN
      BY <2>1, Zenon DEF Change
    <2>7. UNCHANGED <<work, tis_over, handled, incoming, copy_unhandled,
                      ware_storloc, erased, sql, InTransaction, worker, faults>>
      BY <2>1 DEF Change, memory, table, objects
    <2>. QED
      BY <2>1, <2>2, <2>3, <2>4, <2>5, <2>6, <2>7 DEF TypeOK
  <1>3. CASE Look(h)
    <2>1. ASSUME NEW n \in Nat, NEW w \in Ware \union {Nothing}, NEW q \in BOOLEAN
         PROVE  Rows(n, w, q) \in [n : Nat, ware : Ware \union {Nothing}, packs : BOOLEAN]
      BY DEF Rows
    <2>2. \A l \in Loc : ware_storloc[l] \in Ware \union {Nothing}
      BY DEF TypeOK
    <2>3. /\ 0 \in Nat /\ 1 \in Nat /\ Nothing \in Ware \union {Nothing}
          /\ TRUE \in BOOLEAN /\ FALSE \in BOOLEAN
      OBVIOUS
    <2>4. Cardinality(Occupied) \in Nat
      BY LocAssumption, FS_Subset, FS_CardinalityType, Zenon DEF Occupied
    <2>5. result' \in [n : Nat, ware : Ware \union {Nothing}, packs : BOOLEAN]
      <3>1. CASE \E l \in Loc : result' = Row(l, TRUE)
        BY <3>1, RowTypes, Zenon
      <3>2. CASE result' = Rows(1, Nothing, FALSE)
        BY <2>1, <2>3, <3>2, Zenon
      <3>3. CASE \E l \in Occupied : result' = Rows(Cardinality(Occupied), ware_storloc[l], TRUE)
        <4>1. PICK l \in Loc : result' = Rows(Cardinality(Occupied), ware_storloc[l], TRUE)
          BY <3>3, Zenon DEF Occupied
        <4>. QED
          BY <2>1, <2>2, <2>4, <4>1, Zenon
      <3>4. CASE result' = Rows(0, Nothing, TRUE)
        BY <2>1, <2>3, <3>4, Zenon
      <3>. QED
        BY <1>3, <3>1, <3>2, <3>3, <3>4, Zenon DEF Look
    <2>6. requests' \in 0 .. MaxRequest
      BY <1>3, LedgerBounds DEF Look, Asks, TypeOK
    <2>7. alone' \in BOOLEAN
      BY <1>3, Zenon DEF Look
    <2>8. UNCHANGED <<work, tis_over, handled, incoming, copy_unhandled, ware_storloc,
                      erased, sql, InTransaction, worker, http, faults>>
      BY <1>3 DEF Look, memory, table, objects
    <2>. QED
      BY <2>1, <2>2, <2>3, <2>4, <2>5, <2>6, <2>7, <2>8 DEF TypeOK
  <1>4. CASE ReadChange(h)
    <2>1. \A q \in {"drop", "clear"} : [http[h] EXCEPT !.pc = q] \in HttpStates
      <3>1. http[h].pc # "idle"
        BY <1>4 DEF ReadChange
      <3>. QED
        BY <1>0, <3>1, HttpTurns, Zenon
    <2>2. http' \in [HttpThreads -> HttpStates]
      BY <1>4, <1>0, <2>1 DEF ReadChange, Turns
    <2>3. UNCHANGED <<work, tis_over, handled, incoming, copy_unhandled, ware_storloc, erased,
                      result, sql, InTransaction, worker, alone, requests, faults>>
      BY <1>4 DEF ReadChange, memory, table, objects
    <2>. QED
      BY <2>1, <2>2, <2>3 DEF TypeOK
  <1>5. CASE DropRow(h)
    <2>1. http[h].loc \in Loc /\ [http[h] EXCEPT !.pc = "wait"] \in HttpStates
      <3>1. http[h].pc # "idle"
        BY <1>5 DEF DropRow
      <3>. QED
        BY <1>0, <3>1, HttpTurns, Zenon
    <2>2. http' \in [HttpThreads -> HttpStates]
      BY <1>5, <1>0, <2>1 DEF DropRow, Turns
    <2>3. Statement("delete", http[h].loc, 0) \in Statements
      BY <2>1, TaskFacts, StatementTypes
    <2>4. sql' \in Seq(Statements)
      BY <1>5, <2>3 DEF DropRow
    <2>5. alone' \in BOOLEAN
      BY <1>5, Zenon DEF DropRow
    <2>6. UNCHANGED <<work, tis_over, handled, incoming, copy_unhandled, ware_storloc,
                      erased, result, InTransaction, worker, requests, faults>>
      BY <1>5 DEF DropRow, memory, table, objects
    <2>. QED
      BY <2>1, <2>2, <2>3, <2>4, <2>5, <2>6 DEF TypeOK
  <1>6. CASE ClearText(h)
    <2>1. [http[h] EXCEPT !.pc = "add"] \in HttpStates
      <3>1. http[h].pc # "idle"
        BY <1>6 DEF ClearText
      <3>. QED
        BY <1>0, <3>1, HttpTurns, Zenon
    <2>2. http' \in [HttpThreads -> HttpStates]
      BY <1>6, <1>0, <2>1 DEF ClearText, Turns
    <2>3. sql' \in Seq(Statements)
      BY <1>6 DEF ClearText
    <2>4. alone' \in BOOLEAN
      BY <1>6, Zenon DEF ClearText
    <2>5. UNCHANGED <<work, tis_over, handled, incoming, copy_unhandled, ware_storloc,
                      erased, result, InTransaction, worker, requests, faults>>
      BY <1>6 DEF ClearText, memory, table, objects
    <2>. QED
      BY <2>1, <2>2, <2>3, <2>4, <2>5 DEF TypeOK
  <1>7. CASE AddInsert(h)
    <2>1. http[h].loc \in Loc
      <3>1. http[h].pc # "idle"
        BY <1>7 DEF AddInsert
      <3>. QED
        BY <1>0, <3>1, HttpTurns, Zenon
    <2>2. Asked("wait", "insert", http[h].loc) \in HttpStates
      BY <2>1, HttpRecords
    <2>3. http' \in [HttpThreads -> HttpStates]
      BY <1>7, <1>0, <2>2 DEF AddInsert
    <2>4. Statement("insert", http[h].loc, Changed) \in Statements
      BY <2>1, TaskFacts, StatementTypes
    <2>5. sql' \in Seq(Statements)
      BY <1>7, <2>4 DEF AddInsert, TypeOK
    <2>6. alone' \in BOOLEAN
      BY <1>7, Zenon DEF AddInsert
    <2>7. UNCHANGED <<work, tis_over, handled, incoming, copy_unhandled, ware_storloc,
                      erased, result, InTransaction, worker, requests, faults>>
      BY <1>7 DEF AddInsert, memory, table, objects
    <2>. QED
      BY <2>1, <2>2, <2>3, <2>4, <2>5, <2>6, <2>7 DEF TypeOK
  <1>8. CASE HttpWaits(h)
    <2>1. [http[h] EXCEPT !.pc = "begin"] \in HttpStates
      <3>1. http[h].pc # "idle"
        BY <1>8 DEF HttpWaits
      <3>. QED
        BY <1>0, <3>1, HttpTurns, Zenon
    <2>2. http' \in [HttpThreads -> HttpStates]
      BY <1>8, <1>0, <2>1 DEF HttpWaits, Turns
    <2>3. UNCHANGED <<work, tis_over, handled, incoming, copy_unhandled, ware_storloc, erased,
                      result, sql, InTransaction, worker, alone, requests, faults>>
      BY <1>8 DEF HttpWaits, memory, table, objects
    <2>. QED
      BY <2>1, <2>2, <2>3 DEF TypeOK
  <1>9. CASE HttpBegins(h)
    <2>1. [http[h] EXCEPT !.pc = "exec"] \in HttpStates
      <3>1. http[h].pc # "idle"
        BY <1>9 DEF HttpBegins
      <3>. QED
        BY <1>0, <3>1, HttpTurns, Zenon
    <2>2. http' \in [HttpThreads -> HttpStates]
      BY <1>9, <1>0, <2>1, HttpRecords DEF HttpBegins
    <2>3. InTransaction' \in BOOLEAN
      BY <1>9, Zenon DEF HttpBegins
    <2>4. alone' \in BOOLEAN
      BY <1>9, Zenon DEF HttpBegins
    <2>5. UNCHANGED <<work, tis_over, handled, incoming, copy_unhandled, ware_storloc,
                      erased, result, sql, worker, requests, faults>>
      BY <1>9 DEF HttpBegins, memory, table, objects
    <2>. QED
      BY <2>1, <2>2, <2>3, <2>4, <2>5 DEF TypeOK
  <1>10. CASE HttpExecutes(h)
    <2>1. http[h].loc \in Loc /\ [http[h] EXCEPT !.pc = "clear"] \in HttpStates
      <3>1. http[h].pc # "idle"
        BY <1>10 DEF HttpExecutes
      <3>. QED
        BY <1>0, <3>1, HttpTurns, Zenon
    <2>2. http' \in [HttpThreads -> HttpStates]
      BY <1>10, <1>0, <2>1, HttpRecords DEF HttpExecutes
    <2>3. PICK e \in SUBSET Loc : Execute(e, Loc)
      BY <1>10, <2>1 DEF HttpExecutes
    <2>4. /\ ware_storloc' \in [Loc -> Ware \union {Nothing}] /\ erased' \subseteq Loc
          /\ InTransaction' = FALSE /\ faults' \in 0 .. MaxFault
      BY <2>3, ExecuteTypes, Zenon
    <2>5. InTransaction' \in BOOLEAN
      BY <2>4, Zenon
    <2>6. alone' \in BOOLEAN
      BY <1>10, Zenon DEF HttpExecutes
    <2>7. UNCHANGED <<work, tis_over, handled, incoming,
                      copy_unhandled, result, sql, worker, requests>>
      BY <1>10 DEF HttpExecutes, memory, table, objects
    <2>. QED
      BY <2>1, <2>2, <2>3, <2>4, <2>5, <2>6, <2>7 DEF TypeOK
  <1>. QED
    BY <1>1, <1>2, <1>3, <1>4, <1>5, <1>6, <1>7, <1>8, <1>9, <1>10, Zenon DEF Serves

LEMMA TypeStep ==
  ASSUME TypeOK, WorkInv, PlaceInv, ResultInv, [Next]_vars
  PROVE  TypeOK'
  <1>1. CASE \E w \in Work : Finish(w)
    BY <1>1, FinishTypes
  <1>2. CASE WorkerNext
    BY <1>2, WakeTypes, WorkerTypes
  <1>3. CASE HttpNext
    BY <1>3, HttpTypes, Zenon DEF HttpNext
  <1>4. CASE Restart
    BY <1>4, EmptiedTypes, LedgerBounds DEF Restart, TypeOK
  <1>5. CASE UNCHANGED vars
    BY <1>5 DEF TypeOK, vars, memory, table, objects
  <1>. QED
    BY <1>1, <1>2, <1>3, <1>4, <1>5, Zenon DEF Next

-----------------------------------------------------------------------------
(***************************************************************************)
(* The tasks the worker copies and marks.                                  *)
(***************************************************************************)

\* Only four steps change the lists.
LEMMA MemorySteps ==
  ASSUME [Next]_vars
  PROVE  \/ \E w \in Work : Finish(w)
         \/ Wake
         \/ MarkHandled
         \/ Emptied
         \/ UNCHANGED <<work, memory>>
  <1>1. CASE WorkerNext
    <2>1. CASE RoundEnds
      BY <2>1, Zenon DEF RoundEnds
    <2>2. CASE SkipTake
      BY <2>2, Zenon DEF SkipTake
    <2>3. CASE SelectPlace
      BY <2>3, Zenon DEF SelectPlace
    <2>4. CASE ComposeStore
      BY <2>4, Zenon DEF ComposeStore
    <2>5. CASE SelectSource
      BY <2>5, Zenon DEF SelectSource
    <2>6. CASE CountSource
      BY <2>6, Zenon DEF CountSource
    <2>14. CASE ReadFirst \/ ReadRest
      BY <2>14, Zenon DEF ReadFirst, ReadRest, ReadTexts
    <2>15. CASE CountRows
      BY <2>15, Zenon DEF CountRows
    <2>7. CASE SelectTarget
      BY <2>7, Zenon DEF SelectTarget
    <2>8. CASE ClearPut
      BY <2>8, Zenon DEF ClearPut
    <2>9. CASE AddPut
      BY <2>9, Zenon DEF AddPut
    <2>10. CASE AddDelete
      BY <2>10, Zenon DEF AddDelete
    <2>11. CASE WorkerWaits
      BY <2>11, Zenon DEF WorkerWaits
    <2>12. CASE WorkerBegins
      BY <2>12, Zenon DEF WorkerBegins
    <2>13. CASE WorkerExecutes
      BY <2>13, Zenon DEF WorkerExecutes
    <2>. QED
      BY <1>1, <2>1, <2>2, <2>3, <2>4, <2>5, <2>6, <2>7, <2>8, <2>9, <2>10, <2>11, <2>12,
         <2>13, <2>14, <2>15, Zenon DEF WorkerNext
  <1>2. ASSUME NEW h \in HttpThreads, Serves(h)
        PROVE  UNCHANGED <<work, memory>>
    BY <1>2, Zenon DEF Serves, ReadChange, DropRow, ClearText, AddInsert, HttpWaits, HttpBegins,
         HttpExecutes
  <1>3. ASSUME NEW h \in HttpThreads, NEW l \in Loc, Erase(h, l) \/ Change(h, l)
        PROVE  UNCHANGED <<work, memory>>
    <2>1. CASE Erase(h, l)
      BY <2>1 DEF Erase
    <2>2. CASE Change(h, l)
      BY <2>2 DEF Change
    <2>. QED
      BY <1>3, <2>1, <2>2
  <1>4. ASSUME NEW h \in HttpThreads, Look(h)
        PROVE  UNCHANGED <<work, memory>>
    BY <1>4 DEF Look
  <1>5. CASE HttpNext
    BY <1>5, <1>2, <1>3, <1>4, Zenon DEF HttpNext
  <1>6. CASE Restart
    BY <1>6 DEF Restart
  <1>7. CASE UNCHANGED vars
    BY <1>7 DEF vars
  <1>. QED
    BY <1>1, <1>5, <1>6, <1>7, Zenon DEF Next

\* A finished task, and the lists before and after it.
LEMMA FinishFacts ==
  ASSUME TypeOK, WorkInv, NEW w \in Work, Finish(w)
  PROVE  \E t \in Task :
           /\ work[t] = NoWork /\ w # NoWork /\ incoming' = TRUE
           /\ \A u \in Task : work'[u] = IF u = t THEN w ELSE work[u]
           /\ Len(tis_over') = Len(tis_over) + 1 /\ tis_over'[1] = t
           /\ \A i \in DOMAIN tis_over' :
                i # 1 => i - 1 \in DOMAIN tis_over /\ tis_over'[i] = tis_over[i - 1]
           /\ ~handled[t] /\ ~Copied(t)
           /\ UNCHANGED <<handled, copy_unhandled, worker>>
  <1>1. PICK t \in Task : /\ work[t] = NoWork /\ incoming' = TRUE
                          /\ work' = [work EXCEPT ![t] = w]
                          /\ tis_over' = <<t>> \o tis_over
                          /\ UNCHANGED <<handled, copy_unhandled, worker>>
    BY Zenon DEF Finish, OverWith
  <1>2. w # NoWork
    BY WorkFacts
  <1>3. \A u \in Task : work'[u] = IF u = t THEN w ELSE work[u]
    BY <1>1 DEF TypeOK
  <1>4. /\ Len(tis_over') = Len(tis_over) + 1 /\ tis_over'[1] = t
        /\ \A i \in DOMAIN tis_over' :
             i # 1 => i - 1 \in DOMAIN tis_over /\ tis_over'[i] = tis_over[i - 1]
    BY <1>1 DEF TypeOK
  <1>5. ~Copied(t) /\ ~handled[t]
    BY <1>1 DEF WorkInv, Copied
  <1>. QED
    BY <1>1, <1>2, <1>3, <1>4, <1>5, Zenon

\* The copy after the worker woke up.
LEMMA WakeFacts ==
  ASSUME TypeOK, Wake
  PROVE  \E n \in 0 .. Len(tis_over) :
           /\ n < Len(tis_over) => handled[tis_over[n + 1]]
           /\ \A i \in DOMAIN copy_unhandled :
                i \in DOMAIN copy_unhandled' /\ copy_unhandled'[i] = copy_unhandled[i]
           /\ \A i \in 1 .. n : \E m \in DOMAIN copy_unhandled' :
                copy_unhandled'[m] = tis_over[i]
           /\ \A i \in DOMAIN copy_unhandled' :
                \/ i \in DOMAIN copy_unhandled /\ copy_unhandled'[i] = copy_unhandled[i]
                \/ \E m \in DOMAIN tis_over : copy_unhandled'[i] = tis_over[m]
           /\ UNCHANGED <<work, tis_over, handled>>
  <1>1. PICK n \in 0 .. Len(tis_over) :
          /\ n < Len(tis_over) => handled[tis_over[n + 1]]
          /\ copy_unhandled' = copy_unhandled \o SubSeq(tis_over, 1, n)
    BY Zenon DEF Wake
  <1>. DEFINE s == SubSeq(tis_over, 1, n)
              c == Len(copy_unhandled)
  <1>2. /\ tis_over \in Seq(Task) /\ copy_unhandled \in Seq(Task) /\ c \in Nat
        /\ s \in Seq(Task) /\ Len(s) = n /\ n \in Nat
        /\ \A i \in 1 .. n : i \in DOMAIN tis_over /\ s[i] = tis_over[i]
    BY DEF TypeOK
  <1>3. /\ Len(copy_unhandled') = c + n
        /\ DOMAIN copy_unhandled' = 1 .. c + n /\ DOMAIN copy_unhandled = 1 .. c
        /\ \A i \in 1 .. c : copy_unhandled'[i] = copy_unhandled[i]
        /\ \A i \in 1 .. n : copy_unhandled'[c + i] = s[i]
    <2>1. copy_unhandled' = copy_unhandled \o s
      BY <1>1
    <2>. HIDE DEF s
    <2>2. /\ copy_unhandled \in Seq(Task) /\ s \in Seq(Task) /\ Len(s) = n
          /\ DOMAIN copy_unhandled = 1 .. Len(copy_unhandled)
      BY <1>2
    <2>3. /\ Len(copy_unhandled \o s) = Len(copy_unhandled) + Len(s)
          /\ DOMAIN (copy_unhandled \o s) = 1 .. Len(copy_unhandled) + Len(s)
          /\ \A i \in 1 .. Len(copy_unhandled) : (copy_unhandled \o s)[i] = copy_unhandled[i]
          /\ \A i \in 1 .. Len(s) : (copy_unhandled \o s)[Len(copy_unhandled) + i] = s[i]
      BY <2>2
    <2>. QED
      BY <2>1, <2>2, <2>3, Zenon
  <1>4. \A i \in 1 .. n : \E m \in DOMAIN copy_unhandled' : copy_unhandled'[m] = tis_over[i]
    <2>. HIDE DEF s, c
    <2>1. TAKE i \in 1 .. n
    <2>2. c + i \in DOMAIN copy_unhandled' /\ copy_unhandled'[c + i] = tis_over[i]
      BY <1>2, <1>3
    <2>. QED
      BY <2>2
  <1>5. ASSUME NEW i \in DOMAIN copy_unhandled', i \notin DOMAIN copy_unhandled
        PROVE  \E m \in DOMAIN tis_over : copy_unhandled'[i] = tis_over[m]
    <2>1. i - c \in 1 .. n /\ c + (i - c) = i
      BY <1>2, <1>3, <1>5
    <2>2. copy_unhandled'[i] = tis_over[i - c] /\ i - c \in DOMAIN tis_over
      BY <1>2, <1>3, <2>1
    <2>. QED
      BY <2>2
  <1>6. \A i \in DOMAIN copy_unhandled :
          i \in DOMAIN copy_unhandled' /\ copy_unhandled'[i] = copy_unhandled[i]
    BY <1>2, <1>3
  <1>7. UNCHANGED <<work, tis_over, handled>>
    BY DEF Wake
  <1>. QED
    BY <1>1, <1>4, <1>5, <1>6, <1>7, Zenon

LEMMA WorkInit == Init => WorkInv /\ NoneMissed
  BY DEF Init, WorkInv, NoneMissed

LEMMA WorkStep ==
  ASSUME TypeOK, WorkInv, PlaceInv, NoneMissed, [Next]_vars
  PROVE  WorkInv' /\ NoneMissed'
  <1>1. CASE \E w \in Work : Finish(w)
    <2>1. PICK w \in Work : Finish(w)
      BY <1>1
    <2>2. PICK t \in Task :
             /\ work[t] = NoWork /\ w # NoWork /\ incoming' = TRUE
             /\ \A u \in Task : work'[u] = IF u = t THEN w ELSE work[u]
             /\ Len(tis_over') = Len(tis_over) + 1 /\ tis_over'[1] = t
             /\ \A i \in DOMAIN tis_over' :
                  i # 1 => i - 1 \in DOMAIN tis_over /\ tis_over'[i] = tis_over[i - 1]
             /\ ~handled[t] /\ ~Copied(t)
             /\ UNCHANGED <<handled, copy_unhandled, worker>>
      BY <2>1, FinishFacts, Zenon
    <2>3. /\ tis_over \in Seq(Task) /\ copy_unhandled \in Seq(Task)
          /\ tis_over' \in Seq(Task)
      BY <2>1, FinishTypes DEF TypeOK
    <2>4. WorkInv'
      BY <2>2, <2>3, SMTT(20) DEF WorkInv, Copied
    <2>5. ASSUME NEW j \in DOMAIN tis_over', ~Copied(tis_over[j])'
          PROVE  \A i \in 1 .. j : ~handled'[tis_over'[i]] /\ ~Copied(tis_over[i])'
      <3>1. SUFFICES ASSUME NEW i \in 1 .. j
                     PROVE  ~handled'[tis_over'[i]] /\ ~Copied(tis_over[i])'
        OBVIOUS
      <3>2. CASE i = 1
        BY <2>2, <3>2 DEF Copied
      <3>3. CASE i # 1
        <4>1. /\ i \in DOMAIN tis_over' /\ j # 1 /\ i - 1 \in 1 .. j - 1
              /\ i - 1 \in DOMAIN tis_over /\ j - 1 \in DOMAIN tis_over
              /\ tis_over'[i] = tis_over[i - 1] /\ tis_over'[j] = tis_over[j - 1]
          BY <2>2, <2>3, <3>3
        <4>2. ~Copied(tis_over[j - 1])
          BY <2>2, <2>5, <4>1 DEF Copied
        <4>3. ~handled[tis_over[i - 1]] /\ ~Copied(tis_over[i - 1])
          BY <4>1, <4>2 DEF NoneMissed
        <4>. QED
          BY <2>2, <4>1, <4>3 DEF Copied
      <3>. QED
        BY <3>2, <3>3
    <2>. QED
      BY <2>2, <2>4, <2>5, Zenon DEF NoneMissed
  <1>2. CASE Wake
    <2>1. PICK n \in 0 .. Len(tis_over) :
             /\ n < Len(tis_over) => handled[tis_over[n + 1]]
             /\ \A i \in DOMAIN copy_unhandled :
                  i \in DOMAIN copy_unhandled' /\ copy_unhandled'[i] = copy_unhandled[i]
             /\ \A i \in 1 .. n : \E m \in DOMAIN copy_unhandled' :
                  copy_unhandled'[m] = tis_over[i]
             /\ \A i \in DOMAIN copy_unhandled' :
                  \/ i \in DOMAIN copy_unhandled /\ copy_unhandled'[i] = copy_unhandled[i]
                  \/ \E m \in DOMAIN tis_over : copy_unhandled'[i] = tis_over[m]
             /\ UNCHANGED <<work, tis_over, handled>>
      BY <1>2, WakeFacts, Zenon
    <2>2. \A i \in DOMAIN copy_unhandled' : work'[copy_unhandled'[i]] # NoWork
      BY <2>1 DEF WorkInv
    <2>3. \A t \in Task : Copied(t) => Copied(t)'
      BY <2>1 DEF Copied
    <2>4. WorkInv'
      BY <2>1, <2>2, <2>3 DEF WorkInv
    <2>5. ASSUME NEW j \in DOMAIN tis_over
          PROVE  \E m \in DOMAIN copy_unhandled' : copy_unhandled'[m] = tis_over[j]
      <3>1. /\ tis_over \in Seq(Task) /\ tis_over[j] \in Task /\ n \in Nat
            /\ j \in 1 .. Len(tis_over) /\ Len(tis_over) \in Nat
        BY DEF TypeOK
      <3>2. CASE j <= n
        <4>1. j \in 1 .. n
          BY <3>1, <3>2
        <4>. QED
          BY <2>1, <4>1, Zenon
      <3>3. CASE j > n
        <4>1. n + 1 \in 1 .. j /\ n + 1 \in DOMAIN tis_over /\ n < Len(tis_over)
          BY <3>1, <3>3
        <4>2. Copied(tis_over[j])
          BY <2>1, <4>1 DEF NoneMissed
        <4>. QED
          BY <2>1, <4>2, Zenon DEF Copied
      <3>. QED
        BY <3>1, <3>2, <3>3
    <2>. QED
      BY <2>1, <2>4, <2>5, Zenon DEF NoneMissed, Copied
  <1>3. CASE MarkHandled
    <2>1. worker.k \in DOMAIN copy_unhandled /\ Copied(Current) /\ Current \in Task
      BY <1>3, CurrentFacts DEF MarkHandled, PlaceInv, AtBoth, Copied, Current
    <2>2. /\ UNCHANGED <<work, tis_over, incoming, copy_unhandled>>
          /\ \A t \in Task : handled'[t] <=> handled[t] \/ t = Current
      BY <1>3 DEF MarkHandled, TypeOK
    <2>3. WorkInv'
      BY <2>1, <2>2 DEF WorkInv, Copied
    <2>4. \A j \in DOMAIN tis_over : tis_over[j] \in Task
      BY DEF TypeOK
    <2>5. \A t \in Task : ~Copied(t) => t # Current
      BY <2>1
    <2>6. \A t \in Task : Copied(t)' <=> Copied(t)
      BY <2>2 DEF Copied
    <2>7. \A j \in DOMAIN tis_over : \A i \in 1 .. j : i \in DOMAIN tis_over
      BY DEF TypeOK
    <2>. QED
      BY <2>2, <2>3, <2>4, <2>5, <2>6, <2>7 DEF NoneMissed
  <1>4. CASE Emptied
    <2>1. /\ UNCHANGED work /\ tis_over' = <<>> /\ copy_unhandled' = <<>>
          /\ \A t \in Task : ~handled'[t]
      BY <1>4 DEF Emptied
    <2>. QED
      BY <2>1 DEF WorkInv, NoneMissed
  <1>5. CASE UNCHANGED <<work, memory>>
    BY <1>5 DEF WorkInv, NoneMissed, Copied, memory
  <1>. QED
    BY <1>1, <1>2, <1>3, <1>4, <1>5, MemorySteps, Zenon

-----------------------------------------------------------------------------
(***************************************************************************)
(* Where the worker is, and what it reads.                                 *)
(***************************************************************************)

\* Requests do not move the worker.
LEMMA WorkerSteps ==
  ASSUME [Next]_vars
  PROVE  \/ \E w \in Work : Finish(w)
         \/ WorkerNext
         \/ Emptied
         \/ UNCHANGED <<work, copy_unhandled, worker>>
  <1>1. ASSUME NEW h \in HttpThreads, Serves(h)
        PROVE  UNCHANGED <<work, copy_unhandled, worker>>
    BY <1>1, Zenon DEF Serves, ReadChange, DropRow, ClearText, AddInsert, HttpWaits, HttpBegins,
         HttpExecutes, memory
  <1>2. ASSUME NEW h \in HttpThreads, NEW l \in Loc, Erase(h, l)
        PROVE  UNCHANGED <<work, copy_unhandled, worker>>
    BY <1>2 DEF Erase, memory
  <1>3. ASSUME NEW h \in HttpThreads, NEW l \in Loc, Change(h, l)
        PROVE  UNCHANGED <<work, copy_unhandled, worker>>
    BY <1>3 DEF Change, memory
  <1>4. ASSUME NEW h \in HttpThreads, Look(h)
        PROVE  UNCHANGED <<work, copy_unhandled, worker>>
    BY <1>4 DEF Look, memory
  <1>5. CASE HttpNext
    BY <1>5, <1>1, <1>2, <1>3, <1>4, Zenon DEF HttpNext
  <1>6. CASE UNCHANGED vars
    BY <1>6 DEF vars, memory
  <1>. QED
    BY <1>5, <1>6, Zenon DEF Next, Restart

\* The worker after a step.
LEMMA GoesFacts ==
  ASSUME TypeOK, NEW p, Goes(p)
  PROVE  worker'.pc = p /\ worker'.k = worker.k /\ worker'.found = worker.found
         /\ worker'.there = worker.there
  BY DEF Goes, TypeOK

LEMMA PlaceInit == Init => PlaceInv /\ ResultInv
  BY DEF At, Init, PlaceInv, ResultInv, Asleep, AtStore, AtMove, AtBoth, Rows

LEMMA PlaceStep ==
  ASSUME TypeOK, WorkInv, PlaceInv, [Next]_vars
  PROVE  PlaceInv'
  <1>. USE DEF AtStore, AtMove, AtBoth
  <1>1. CASE \E w \in Work : Finish(w)
    <2>1. PICK w \in Work : Finish(w)
      BY <1>1
    <2>2. PICK t \in Task : /\ work[t] = NoWork
                            /\ \A u \in Task : work'[u] = IF u = t THEN w ELSE work[u]
                            /\ UNCHANGED <<copy_unhandled, worker>>
      BY <2>1, FinishFacts, Zenon
    <2>3. CASE worker.k \in DOMAIN copy_unhandled
      <3>1. Current \in Task /\ work[Current] # NoWork
        BY <2>3, CurrentFacts DEF WorkInv, Current
      <3>2. Current' = Current
        BY <2>2 DEF Current
      <3>3. work'[Current'] = work[Current]
        BY <2>2, <3>1, <3>2
      <3>. QED
        BY <2>2, <3>3 DEF PlaceInv
    <2>4. CASE worker.k \notin DOMAIN copy_unhandled
      BY <2>2, <2>4 DEF PlaceInv
    <2>. QED
      BY <2>3, <2>4
  <1>2. CASE Emptied
    <2>1. worker'.pc = "sleep"
      BY <1>2 DEF At, Emptied, Asleep
    <2>. QED
      BY <2>1 DEF PlaceInv
  <1>3. CASE UNCHANGED <<work, copy_unhandled, worker>>
    BY <1>3 DEF PlaceInv, Current
  <1>4. CASE Wake
    <2>1. worker'.pc = "pick"
      BY <1>4 DEF At, Wake
    <2>. QED
      BY <2>1 DEF PlaceInv
  <1>5. CASE RoundEnds
    <2>1. worker'.pc = "sleep"
      BY <1>5 DEF At, RoundEnds, Asleep
    <2>. QED
      BY <2>1 DEF PlaceInv
  <1>6. CASE SkipTake
    <2>1. worker'.pc = "pick"
      BY <1>6 DEF At, SkipTake, GoesOn
    <2>. QED
      BY <2>1 DEF PlaceInv
  <1>7. CASE MarkHandled
    <2>1. worker'.pc = "pick"
      BY <1>7 DEF At, MarkHandled, GoesOn
    <2>. QED
      BY <2>1 DEF PlaceInv
  <1>8. CASE SelectPlace
    <2>1. worker'.pc = "branch" /\ worker'.k = worker.k /\ UNCHANGED <<work, copy_unhandled>>
      BY <1>8, GoesFacts DEF At, SelectPlace, memory
    <2>2. worker.k \in DOMAIN copy_unhandled /\ work[Current].op = "store"
      BY <1>8, WorkerRecords DEF SelectPlace, Picks, TypeOK
    <2>3. Current' = Current
      BY <2>1 DEF Current
    <2>. QED
      BY <2>1, <2>2, <2>3 DEF PlaceInv
  <1>9. CASE SelectSource
    <2>1. worker'.pc = "source" /\ worker'.k = worker.k /\ UNCHANGED <<work, copy_unhandled>>
      BY <1>9, GoesFacts DEF At, SelectSource, memory
    <2>2. worker.k \in DOMAIN copy_unhandled /\ work[Current].op = "move"
      BY <1>9, WorkerRecords DEF SelectSource, Picks, TypeOK
    <2>3. Current' = Current
      BY <2>1 DEF Current
    <2>. QED
      BY <2>1, <2>2, <2>3 DEF PlaceInv
  <1>10. CASE CountRows
    <2>1. /\ worker'.pc = IF worker.pc = "branch" THEN "compose" ELSE "clear"
          /\ worker'.k = worker.k /\ UNCHANGED <<work, copy_unhandled>>
      BY <1>10 DEF At, CountRows, memory
    <2>2. /\ worker.k \in DOMAIN copy_unhandled
          /\ work[Current].op = IF worker.pc = "branch" THEN "store" ELSE "move"
      BY <1>10 DEF CountRows, PlaceInv
    <2>3. Current' = Current
      BY <2>1 DEF Current
    <2>. QED
      BY <2>1, <2>2, <2>3 DEF PlaceInv
  <1>11. CASE ComposeStore
    <2>1. worker'.pc = "wait" /\ worker'.k = worker.k /\ UNCHANGED <<work, copy_unhandled>>
      BY <1>11, GoesFacts DEF At, ComposeStore, memory
    <2>2. worker.k \in DOMAIN copy_unhandled
          /\ work[Current].op = "store"
      BY <1>11 DEF ComposeStore, PlaceInv
    <2>3. Current' = Current
      BY <2>1 DEF Current
    <2>. QED
      BY <2>1, <2>2, <2>3 DEF PlaceInv
  <1>12. CASE SelectTarget
    <2>1. worker'.pc = "choose" /\ worker'.k = worker.k /\ UNCHANGED <<work, copy_unhandled>>
      BY <1>12, GoesFacts DEF At, SelectTarget, memory
    <2>2. worker.k \in DOMAIN copy_unhandled
          /\ work[Current].op = "move"
      BY <1>12 DEF SelectTarget, PlaceInv
    <2>3. Current' = Current
      BY <2>1 DEF Current
    <2>. QED
      BY <2>1, <2>2, <2>3 DEF PlaceInv
  <1>13. CASE ClearPut
    <2>1. worker'.pc = "put" /\ worker'.k = worker.k /\ UNCHANGED <<work, copy_unhandled>>
      BY <1>13, GoesFacts DEF At, ClearPut, memory
    <2>2. worker.k \in DOMAIN copy_unhandled
          /\ work[Current].op = "move"
      BY <1>13 DEF ClearPut, PlaceInv
    <2>3. Current' = Current
      BY <2>1 DEF Current
    <2>. QED
      BY <2>1, <2>2, <2>3 DEF PlaceInv
  <1>14. CASE AddPut
    <2>1. worker'.pc = "drop" /\ worker'.k = worker.k /\ UNCHANGED <<work, copy_unhandled>>
      BY <1>14, GoesFacts DEF At, AddPut, memory
    <2>2. worker.k \in DOMAIN copy_unhandled
          /\ work[Current].op = "move"
      BY <1>14 DEF AddPut, PlaceInv
    <2>3. Current' = Current
      BY <2>1 DEF Current
    <2>. QED
      BY <2>1, <2>2, <2>3 DEF PlaceInv
  <1>15. CASE AddDelete
    <2>1. worker'.pc = "wait" /\ worker'.k = worker.k /\ UNCHANGED <<work, copy_unhandled>>
      BY <1>15, GoesFacts DEF At, AddDelete, memory
    <2>2. worker.k \in DOMAIN copy_unhandled
          /\ work[Current].op = "move"
      BY <1>15 DEF AddDelete, PlaceInv
    <2>3. Current' = Current
      BY <2>1 DEF Current
    <2>. QED
      BY <2>1, <2>2, <2>3 DEF PlaceInv
  <1>16. CASE WorkerWaits
    <2>1. worker'.pc = "begin" /\ worker'.k = worker.k /\ UNCHANGED <<work, copy_unhandled>>
      BY <1>16, GoesFacts DEF At, WorkerWaits, memory
    <2>2. worker.k \in DOMAIN copy_unhandled
          /\ work[Current].op \in {"store", "move"}
      BY <1>16 DEF WorkerWaits, PlaceInv
    <2>3. Current' = Current
      BY <2>1 DEF Current
    <2>. QED
      BY <2>1, <2>2, <2>3 DEF PlaceInv
  <1>17. CASE WorkerExecutes
    <2>1. worker'.pc = "mark" /\ worker'.k = worker.k /\ UNCHANGED <<work, copy_unhandled>>
      BY <1>17, GoesFacts DEF At, WorkerExecutes, memory
    <2>2. worker.k \in DOMAIN copy_unhandled
          /\ work[Current].op \in {"store", "move"}
      BY <1>17 DEF WorkerExecutes, PlaceInv
    <2>3. Current' = Current
      BY <2>1 DEF Current
    <2>. QED
      BY <2>1, <2>2, <2>3 DEF PlaceInv
  <1>18. CASE CountSource
    <2>1. CASE GoesOn
      <3>1. worker'.pc = "pick"
        BY <2>1 DEF At, GoesOn
      <3>. QED
        BY <3>1 DEF PlaceInv
    <2>2. CASE Goes("first")
      <3>1. worker'.pc = "first" /\ worker'.k = worker.k /\ UNCHANGED <<work, copy_unhandled>>
        BY <1>18, <2>2, GoesFacts DEF CountSource, memory
      <3>2. worker.k \in DOMAIN copy_unhandled /\ work[Current].op = "move"
        BY <1>18 DEF CountSource, PlaceInv
      <3>3. Current' = Current
        BY <3>1 DEF Current
      <3>. QED
        BY <3>1, <3>2, <3>3 DEF PlaceInv
    <2>. QED
      BY <1>18, <2>1, <2>2, Zenon DEF CountSource
  <1>19. CASE ReadFirst \/ ReadRest
    <2>1. worker.pc \in {"first", "rest"}
      BY <1>19 DEF ReadFirst, ReadRest
    <2>2. PICK p \in {"rest", "found"} : \E w : ReadTexts(p, w)
      BY <1>19 DEF ReadFirst, ReadRest
    <2>3. PICK w : ReadTexts(p, w)
      BY <2>2
    <2>4. CASE worker' = At(p, worker.k, w, FALSE) /\ UNCHANGED <<work, memory>>
      <3>1. worker'.pc = p /\ worker'.k = worker.k /\ UNCHANGED <<work, copy_unhandled>>
        BY <2>4 DEF At, memory
      <3>2. worker.k \in DOMAIN copy_unhandled /\ work[Current].op = "move"
        BY <2>1 DEF PlaceInv
      <3>3. Current' = Current
        BY <3>1 DEF Current
      <3>. QED
        BY <2>2, <3>1, <3>2, <3>3 DEF PlaceInv
    <2>. QED
      BY <1>2, <2>3, <2>4, Zenon DEF ReadTexts
  <1>20. CASE WorkerBegins
    <2>1. CASE Goes("exec") /\ UNCHANGED <<work, memory>>
      <3>1. /\ worker'.pc = "exec" /\ worker'.k = worker.k
            /\ UNCHANGED <<work, copy_unhandled>>
        BY <2>1, GoesFacts DEF memory
      <3>2. worker.k \in DOMAIN copy_unhandled /\ work[Current].op \in {"store", "move"}
        BY <1>20 DEF WorkerBegins, PlaceInv
      <3>3. Current' = Current
        BY <3>1 DEF Current
      <3>. QED
        BY <3>1, <3>2, <3>3 DEF PlaceInv
    <2>. QED
      BY <1>20, <1>2, <2>1, Zenon DEF WorkerBegins
  <1>. QED
    BY <1>1, <1>2, <1>3, <1>4, <1>5, <1>6, <1>7, <1>8, <1>9, <1>10, <1>11, <1>12, <1>13,
       <1>14, <1>15, <1>16, <1>17, <1>18, <1>19, <1>20,
       WorkerSteps, Zenon DEF WorkerNext

LEMMA ResultStep ==
  ASSUME TypeOK, WorkInv, PlaceInv, ResultInv, [Next]_vars
  PROVE  ResultInv'
  <1>1. ASSUME NEW l \in Loc, NEW p \in BOOLEAN, result' = Row(l, p)
        PROVE  ResultInv'
    <2>1. ware_storloc[l] \in Ware \union {Nothing}
      BY DEF TypeOK
    <2>. QED
      BY <1>1, <2>1 DEF ResultInv, Row, Rows
  <1>2. ASSUME NEW n, NEW w, NEW p, result' = Rows(n, w, p), w \in Ware \/ p = FALSE \/ n = 0
        PROVE  ResultInv'
    BY <1>2 DEF ResultInv, Rows
  <1>3. CASE UNCHANGED result
    BY <1>3 DEF ResultInv
  <1>4. CASE Emptied
    <2>1. result' = Rows(0, Nothing, FALSE)
      BY <1>4 DEF Emptied
    <2>. QED
      BY <1>2, <2>1, Zenon
  <1>5. CASE SelectPlace \/ SelectSource \/ SelectTarget
    <2>1. worker.k \in DOMAIN copy_unhandled
      <3>1. CASE SelectPlace \/ SelectSource
        <4>1. worker.k <= Len(copy_unhandled)
          BY <3>1, Zenon DEF SelectPlace, SelectSource, Picks
        <4>. QED
          BY <4>1, WorkerRecords DEF TypeOK
      <3>2. CASE SelectTarget
        BY <3>2 DEF SelectTarget, PlaceInv, AtMove
      <3>. QED
        BY <1>5, <3>1, <3>2
    <2>2. work[Current].to \in Loc
      BY <2>1, CurrentFacts, WorkFacts
    <2>3. CASE SelectPlace
      BY <1>1, <2>2, <2>3, Zenon DEF SelectPlace
    <2>4. CASE SelectSource
      <3>1. work[Current].from \in Loc
        BY <2>1, <2>4, CurrentFacts, WorkFacts DEF SelectSource, Picks
      <3>. QED
        BY <1>1, <2>4, <3>1, Zenon DEF SelectSource
    <2>5. CASE SelectTarget
      BY <1>1, <2>2, <2>5, Zenon DEF SelectTarget
    <2>. QED
      BY <1>5, <2>3, <2>4, <2>5
  <1>6. CASE \E h \in HttpThreads : \E l \in Loc : Change(h, l)
    <2>1. PICK l \in Loc : result' = Row(l, TRUE)
      BY <1>6, Zenon DEF Change
    <2>. QED
      BY <1>1, <2>1, Zenon
  <1>7. CASE \E h \in HttpThreads : Look(h)
    <2>1. CASE \E l \in Loc : result' = Row(l, TRUE)
      BY <1>1, <2>1, Zenon
    <2>2. CASE result' = Rows(1, Nothing, FALSE) \/ result' = Rows(0, Nothing, TRUE)
      BY <1>2, <2>2, Zenon
    <2>3. CASE \E l \in Occupied : result' = Rows(Cardinality(Occupied), ware_storloc[l], TRUE)
      <3>1. PICK l \in Occupied : result' = Rows(Cardinality(Occupied), ware_storloc[l], TRUE)
        BY <2>3, Zenon
      <3>2. ware_storloc[l] \in Ware
        BY DEF Occupied, TypeOK
      <3>. QED
        BY <1>2, <3>1, <3>2, Zenon
    <2>. QED
      BY <1>7, <2>1, <2>2, <2>3, Zenon DEF Look
  <1>8. CASE ReadFirst \/ ReadRest \/ WorkerBegins
    BY <1>3, <1>4, <1>8, Zenon DEF ReadFirst, ReadRest, ReadTexts, WorkerBegins, objects
  <1>9. CASE WorkerNext
    <2>1. CASE RoundEnds
      BY <1>3, <2>1, Zenon DEF RoundEnds, objects
    <2>2. CASE SkipTake
      BY <1>3, <2>2, Zenon DEF SkipTake, objects
    <2>3. CASE ComposeStore
      BY <1>3, <2>3, Zenon DEF ComposeStore, objects
    <2>4. CASE ClearPut
      BY <1>3, <2>4, Zenon DEF ClearPut, objects
    <2>11. CASE CountRows \/ CountSource
      BY <1>3, <2>11, Zenon DEF CountRows, CountSource, objects
    <2>5. CASE AddPut
      BY <1>3, <2>5, Zenon DEF AddPut, objects
    <2>6. CASE AddDelete
      BY <1>3, <2>6, Zenon DEF AddDelete, objects
    <2>7. CASE WorkerWaits
      BY <1>3, <2>7, Zenon DEF WorkerWaits, objects
    <2>8. CASE WorkerExecutes
      BY <1>3, <2>8, Zenon DEF WorkerExecutes, objects
    <2>9. CASE MarkHandled
      BY <1>3, <2>9, Zenon DEF MarkHandled, objects
    <2>10. CASE Wake
      BY <1>3, <2>10, Zenon DEF Wake, objects
    <2>. QED
      BY <1>5, <1>8, <1>9, <2>1, <2>2, <2>3, <2>4, <2>5, <2>6, <2>7, <2>8, <2>9, <2>10,
         <2>11, Zenon DEF WorkerNext
  <1>10. CASE \E w \in Work : Finish(w)
    BY <1>3, <1>10, Zenon DEF Finish, objects
  <1>11. CASE HttpNext
    <2>1. ASSUME NEW h \in HttpThreads, NEW l \in Loc, Erase(h, l)
          PROVE  UNCHANGED result
      BY <2>1 DEF Erase
    <2>2. ASSUME NEW h \in HttpThreads, Serves(h)
          PROVE  UNCHANGED result
      BY <2>2, Zenon DEF Serves, ReadChange, DropRow, ClearText, AddInsert, HttpWaits, HttpBegins,
           HttpExecutes, objects
    <2>. QED
      BY <1>3, <1>6, <1>7, <1>11, <2>1, <2>2, Zenon DEF HttpNext
  <1>12. CASE UNCHANGED vars
    BY <1>3, <1>12 DEF vars, objects
  <1>. QED
    BY <1>4, <1>9, <1>10, <1>11, <1>12, Zenon DEF Next, Restart

-----------------------------------------------------------------------------
(***************************************************************************)
(* The transaction.                                                        *)
(***************************************************************************)

LEMMA TransactionInit == Init => OneTransaction
  BY DEF Init, OneTransaction, Inside, Asleep, At, Free

\* Nobody enters or leaves a transaction.
LEMMA NobodyMoves ==
  ASSUME OneTransaction, UNCHANGED InTransaction, Inside' = Inside,
         worker.pc = "exec" <=> worker'.pc = "exec"
  PROVE  OneTransaction'
  BY DEF OneTransaction

\* A thread that goes on.
LEMMA InsideFacts ==
  ASSUME TypeOK, NEW h \in HttpThreads, NEW s, http' = [http EXCEPT ![h] = s]
  PROVE  /\ s.pc = "exec" => Inside' = Inside \union {h}
         /\ s.pc # "exec" => Inside' = Inside \ {h}
  <1>1. \A g \in HttpThreads : http'[g] = IF g = h THEN s ELSE http[g]
    BY DEF TypeOK
  <1>. QED
    BY <1>1 DEF Inside

LEMMA TransactionStep ==
  ASSUME TypeOK, OneTransaction, [Next]_vars
  PROVE  OneTransaction'
  <1>1. CASE Emptied
    <2>1. Inside' = {}
      BY <1>1 DEF Emptied, Inside, Free
    <2>2. InTransaction' = FALSE /\ worker'.pc = "sleep"
      BY <1>1 DEF Emptied, Asleep, At
    <2>. QED
      BY <2>1, <2>2 DEF OneTransaction
  <1>2. CASE \E w \in Work : Finish(w)
    <2>1. UNCHANGED <<InTransaction, http, worker>>
      BY <1>2, Zenon DEF Finish, objects
    <2>2. Inside' = Inside
      BY <2>1 DEF Inside
    <2>. QED
      BY <2>1, <2>2, NobodyMoves
  <1>3. CASE UNCHANGED vars
    <2>1. UNCHANGED <<InTransaction, http, worker>>
      BY <1>3, Zenon DEF vars, objects
    <2>2. Inside' = Inside
      BY <2>1 DEF Inside
    <2>. QED
      BY <2>1, <2>2, NobodyMoves
  <1>4. CASE Wake
    <2>1. UNCHANGED <<InTransaction, http>>
      BY <1>4 DEF Wake, objects
    <2>2. worker.pc # "exec" /\ worker'.pc # "exec"
      BY <1>4 DEF Wake, At
    <2>3. Inside' = Inside
      BY <2>1 DEF Inside
    <2>. QED
      BY <2>1, <2>2, <2>3, NobodyMoves
  <1>5. CASE RoundEnds
    <2>1. UNCHANGED <<InTransaction, http>>
      BY <1>5 DEF RoundEnds, objects
    <2>2. worker.pc # "exec" /\ worker'.pc # "exec"
      BY <1>5 DEF RoundEnds, Asleep, At
    <2>3. Inside' = Inside
      BY <2>1 DEF Inside
    <2>. QED
      BY <2>1, <2>2, <2>3, NobodyMoves
  <1>6. CASE SkipTake
    <2>1. UNCHANGED <<InTransaction, http>>
      BY <1>6 DEF SkipTake, objects
    <2>2. worker.pc # "exec" /\ worker'.pc # "exec"
      BY <1>6 DEF SkipTake, Picks, GoesOn, At
    <2>3. Inside' = Inside
      BY <2>1 DEF Inside
    <2>. QED
      BY <2>1, <2>2, <2>3, NobodyMoves
  <1>7. CASE SelectPlace
    <2>1. UNCHANGED <<InTransaction, http>>
      BY <1>7 DEF SelectPlace, objects
    <2>2. worker.pc # "exec" /\ worker'.pc # "exec"
      BY <1>7, GoesFacts DEF SelectPlace, Picks
    <2>3. Inside' = Inside
      BY <2>1 DEF Inside
    <2>. QED
      BY <2>1, <2>2, <2>3, NobodyMoves
  <1>8. CASE ComposeStore
    <2>1. UNCHANGED <<InTransaction, http>>
      BY <1>8 DEF ComposeStore, objects
    <2>2. worker.pc # "exec" /\ worker'.pc # "exec"
      BY <1>8, GoesFacts DEF ComposeStore
    <2>3. Inside' = Inside
      BY <2>1 DEF Inside
    <2>. QED
      BY <2>1, <2>2, <2>3, NobodyMoves
  <1>9. CASE SelectSource
    <2>1. UNCHANGED <<InTransaction, http>>
      BY <1>9 DEF SelectSource, objects
    <2>2. worker.pc # "exec" /\ worker'.pc # "exec"
      BY <1>9, GoesFacts DEF SelectSource, Picks
    <2>3. Inside' = Inside
      BY <2>1 DEF Inside
    <2>. QED
      BY <2>1, <2>2, <2>3, NobodyMoves
  <1>10. CASE SelectTarget
    <2>1. UNCHANGED <<InTransaction, http>>
      BY <1>10 DEF SelectTarget, objects
    <2>2. worker.pc # "exec" /\ worker'.pc # "exec"
      BY <1>10, GoesFacts DEF SelectTarget
    <2>3. Inside' = Inside
      BY <2>1 DEF Inside
    <2>. QED
      BY <2>1, <2>2, <2>3, NobodyMoves
  <1>11. CASE ClearPut
    <2>1. UNCHANGED <<InTransaction, http>>
      BY <1>11 DEF ClearPut, objects
    <2>2. worker.pc # "exec" /\ worker'.pc # "exec"
      BY <1>11, GoesFacts DEF ClearPut
    <2>3. Inside' = Inside
      BY <2>1 DEF Inside
    <2>. QED
      BY <2>1, <2>2, <2>3, NobodyMoves
  <1>12. CASE AddPut
    <2>1. UNCHANGED <<InTransaction, http>>
      BY <1>12 DEF AddPut, objects
    <2>2. worker.pc # "exec" /\ worker'.pc # "exec"
      BY <1>12, GoesFacts DEF AddPut
    <2>3. Inside' = Inside
      BY <2>1 DEF Inside
    <2>. QED
      BY <2>1, <2>2, <2>3, NobodyMoves
  <1>13. CASE AddDelete
    <2>1. UNCHANGED <<InTransaction, http>>
      BY <1>13 DEF AddDelete, objects
    <2>2. worker.pc # "exec" /\ worker'.pc # "exec"
      BY <1>13, GoesFacts DEF AddDelete
    <2>3. Inside' = Inside
      BY <2>1 DEF Inside
    <2>. QED
      BY <2>1, <2>2, <2>3, NobodyMoves
  <1>14. CASE WorkerWaits
    <2>1. UNCHANGED <<InTransaction, http>>
      BY <1>14 DEF WorkerWaits, objects
    <2>2. worker.pc # "exec" /\ worker'.pc # "exec"
      BY <1>14, GoesFacts DEF WorkerWaits
    <2>3. Inside' = Inside
      BY <2>1 DEF Inside
    <2>. QED
      BY <2>1, <2>2, <2>3, NobodyMoves
  <1>15. CASE MarkHandled
    <2>1. UNCHANGED <<InTransaction, http>>
      BY <1>15 DEF MarkHandled, objects
    <2>2. worker.pc # "exec" /\ worker'.pc # "exec"
      BY <1>15 DEF MarkHandled, GoesOn, At
    <2>3. Inside' = Inside
      BY <2>1 DEF Inside
    <2>. QED
      BY <2>1, <2>2, <2>3, NobodyMoves
  <1>16. CASE ReadFirst \/ ReadRest
    <2>1. PICK p \in {"rest", "found"} : \E w : ReadTexts(p, w)
      BY <1>16 DEF ReadFirst, ReadRest
    <2>2. CASE UNCHANGED objects /\ UNCHANGED http /\ worker'.pc # "exec"
      <3>1. worker.pc # "exec" /\ UNCHANGED <<InTransaction, http>>
        BY <1>16, <2>2 DEF ReadFirst, ReadRest, objects
      <3>2. Inside' = Inside
        BY <3>1 DEF Inside
      <3>. QED
        BY <2>2, <3>1, <3>2, NobodyMoves
    <2>. QED
      BY <1>1, <2>1, <2>2 DEF ReadTexts, At
  <1>17. CASE CountSource
    <2>1. UNCHANGED <<InTransaction, http>>
      BY <1>17 DEF CountSource, objects
    <2>2. worker.pc # "exec" /\ worker'.pc # "exec"
      BY <1>17, GoesFacts DEF CountSource, GoesOn, At
    <2>3. Inside' = Inside
      BY <2>1 DEF Inside
    <2>. QED
      BY <2>1, <2>2, <2>3, NobodyMoves
  <1>18. CASE CountRows
    <2>1. UNCHANGED <<InTransaction, http>>
      BY <1>18 DEF CountRows, objects
    <2>2. worker.pc # "exec" /\ worker'.pc # "exec"
      BY <1>18 DEF CountRows, At
    <2>3. Inside' = Inside
      BY <2>1 DEF Inside
    <2>. QED
      BY <2>1, <2>2, <2>3, NobodyMoves
  <1>19. CASE WorkerBegins
    <2>1. CASE ~InTransaction /\ InTransaction' = TRUE /\ Goes("exec") /\ UNCHANGED http
      <3>1. worker'.pc = "exec" /\ Inside' = Inside
        BY <2>1, GoesFacts DEF Inside
      <3>. QED
        BY <2>1, <3>1 DEF OneTransaction
    <2>. QED
      BY <1>19, <1>1, <2>1, Zenon DEF WorkerBegins
  <1>20. CASE WorkerExecutes
    <2>1. InTransaction' = FALSE
      BY <1>20, Zenon DEF WorkerExecutes, Execute, Rollback
    <2>2. worker.pc = "exec" /\ worker'.pc = "mark" /\ UNCHANGED http
      BY <1>20, GoesFacts DEF WorkerExecutes
    <2>3. Inside' = Inside
      BY <2>2 DEF Inside
    <2>. QED
      BY <2>1, <2>2, <2>3 DEF OneTransaction
  <1>21. CASE WorkerNext
    BY <1>4, <1>5, <1>6, <1>7, <1>8, <1>9, <1>10, <1>11, <1>12, <1>13, <1>14, <1>15, <1>16,
       <1>17, <1>18, <1>19, <1>20,
       <1>21, Zenon DEF WorkerNext
  <1>22. ASSUME NEW h \in HttpThreads, NEW s, s.pc # "exec", http[h].pc # "exec",
               http' = [http EXCEPT ![h] = s], UNCHANGED <<InTransaction, worker>>
        PROVE  OneTransaction'
    <2>1. Inside' = Inside
      BY <1>22, InsideFacts DEF Inside
    <2>. QED
      BY <1>22, <2>1, NobodyMoves
  <1>23. ASSUME NEW h \in HttpThreads, Look(h)
        PROVE  OneTransaction'
    <2>1. UNCHANGED <<InTransaction, http, worker>>
      BY <1>23 DEF Look
    <2>2. Inside' = Inside
      BY <2>1 DEF Inside
    <2>. QED
      BY <2>1, <2>2, NobodyMoves
  <1>24. ASSUME NEW h \in HttpThreads, HttpBegins(h)
        PROVE  OneTransaction'
    <2>1. /\ InTransaction' = TRUE /\ UNCHANGED worker
          /\ http' = [http EXCEPT ![h] = IF InTransaction THEN Free
                                        ELSE [http[h] EXCEPT !.pc = "exec"]]
          /\ http[h].pc = "begin"
      BY <1>24 DEF HttpBegins
    <2>2. CASE InTransaction
      <3>1. Inside' = Inside \ {h} /\ h \notin Inside
        BY <2>1, <2>2, InsideFacts DEF Free, Inside
      <3>. QED
        BY <2>1, <2>2, <3>1 DEF OneTransaction
    <2>3. CASE ~InTransaction
      <3>1. [http[h] EXCEPT !.pc = "exec"].pc = "exec"
        <4>1. http[h] \in HttpStates /\ http[h].pc # "idle"
          BY <2>1 DEF TypeOK
        <4>. QED
          BY <4>1 DEF HttpStates, Free
      <3>2. Inside' = Inside \union {h}
        <4>1. http' = [http EXCEPT ![h] = [http[h] EXCEPT !.pc = "exec"]]
          BY <2>1, <2>3
        <4>. QED
          BY <3>1, <4>1, InsideFacts, Zenon
      <3>. QED
        BY <2>1, <2>3, <3>2 DEF OneTransaction
    <2>. QED
      BY <2>2, <2>3
  <1>25. ASSUME NEW h \in HttpThreads, HttpExecutes(h)
        PROVE  OneTransaction'
    <2>1. InTransaction' = FALSE
      BY <1>25, Zenon DEF HttpExecutes, Execute, Rollback
    <2>2. /\ UNCHANGED worker /\ h \in Inside
          /\ http' = [http EXCEPT ![h] = IF http[h].asks = "change"
                                        THEN [http[h] EXCEPT !.pc = "clear"] ELSE Free]
      BY <1>25 DEF HttpExecutes, Inside
    <2>3. [http[h] EXCEPT !.pc = "clear"].pc # "exec" /\ Free.pc # "exec"
      <3>1. http[h] \in HttpStates /\ http[h].pc # "idle"
        BY <2>2 DEF TypeOK, Inside
      <3>. QED
        BY <3>1 DEF HttpStates, Free
    <2>4. Inside' = Inside \ {h}
      <3>1. PICK s : s.pc # "exec" /\ http' = [http EXCEPT ![h] = s]
        BY <2>2, <2>3, Zenon
      <3>. QED
        BY <3>1, InsideFacts, Zenon
    <2>. QED
      BY <2>1, <2>2, <2>4 DEF OneTransaction
  <1>26. ASSUME NEW h \in HttpThreads, NEW l \in Loc, Erase(h, l)
        PROVE  OneTransaction'
    <2>1. /\ http[h].pc # "exec" /\ UNCHANGED <<InTransaction, worker>>
          /\ http' = [http EXCEPT ![h] = Asked("wait", "erase", l)]
      BY <1>26 DEF Erase, Asks
    <2>2. Asked("wait", "erase", l).pc # "exec"
      BY DEF Asked
    <2>. QED
      BY <1>22, <2>1, <2>2, Zenon
  <1>27. ASSUME NEW h \in HttpThreads, NEW l \in Loc, Change(h, l)
        PROVE  OneTransaction'
    <2>1. /\ http[h].pc # "exec" /\ UNCHANGED <<InTransaction, worker>>
          /\ http' = [http EXCEPT ![h] = Asked("read", "change", l)]
      BY <1>27 DEF Change, Asks
    <2>2. Asked("read", "change", l).pc # "exec"
      BY DEF Asked
    <2>. QED
      BY <1>22, <2>1, <2>2, Zenon
  <1>28. ASSUME NEW h \in HttpThreads, ReadChange(h)
        PROVE  OneTransaction'
    <2>1. PICK q \in {"drop", "clear", "add", "begin"} :
            /\ http[h].pc # "exec" /\ http[h].pc # "idle" /\ UNCHANGED <<InTransaction, worker>>
            /\ http' = [http EXCEPT ![h] = [http[h] EXCEPT !.pc = q]]
      BY <1>28 DEF ReadChange, Turns, objects
    <2>2. [http[h] EXCEPT !.pc = q].pc # "exec"
      <3>1. http[h] \in HttpStates
        BY DEF TypeOK
      <3>. QED
        BY <2>1, <3>1 DEF HttpStates, Free
    <2>. QED
      BY <1>22, <2>1, <2>2, Zenon
  <1>29. ASSUME NEW h \in HttpThreads, DropRow(h)
        PROVE  OneTransaction'
    <2>1. PICK q \in {"wait", "clear", "add", "begin"} :
            /\ http[h].pc # "exec" /\ http[h].pc # "idle" /\ UNCHANGED <<InTransaction, worker>>
            /\ http' = [http EXCEPT ![h] = [http[h] EXCEPT !.pc = q]]
      BY <1>29 DEF DropRow, Turns
    <2>2. [http[h] EXCEPT !.pc = q].pc # "exec"
      <3>1. http[h] \in HttpStates
        BY DEF TypeOK
      <3>. QED
        BY <2>1, <3>1 DEF HttpStates, Free
    <2>. QED
      BY <1>22, <2>1, <2>2, Zenon
  <1>30. ASSUME NEW h \in HttpThreads, ClearText(h)
        PROVE  OneTransaction'
    <2>1. PICK q \in {"wait", "clear", "add", "begin"} :
            /\ http[h].pc # "exec" /\ http[h].pc # "idle" /\ UNCHANGED <<InTransaction, worker>>
            /\ http' = [http EXCEPT ![h] = [http[h] EXCEPT !.pc = q]]
      BY <1>30 DEF ClearText, Turns
    <2>2. [http[h] EXCEPT !.pc = q].pc # "exec"
      <3>1. http[h] \in HttpStates
        BY DEF TypeOK
      <3>. QED
        BY <2>1, <3>1 DEF HttpStates, Free
    <2>. QED
      BY <1>22, <2>1, <2>2, Zenon
  <1>31. ASSUME NEW h \in HttpThreads, AddInsert(h)
        PROVE  OneTransaction'
    <2>1. /\ http[h].pc # "exec" /\ UNCHANGED <<InTransaction, worker>>
          /\ http' = [http EXCEPT ![h] = Asked("wait", "insert", http[h].loc)]
      BY <1>31 DEF AddInsert
    <2>2. Asked("wait", "insert", http[h].loc).pc # "exec"
      BY DEF Asked
    <2>. QED
      BY <1>22, <2>1, <2>2, Zenon
  <1>32. ASSUME NEW h \in HttpThreads, HttpWaits(h)
        PROVE  OneTransaction'
    <2>1. PICK q \in {"wait", "clear", "add", "begin"} :
            /\ http[h].pc # "exec" /\ http[h].pc # "idle" /\ UNCHANGED <<InTransaction, worker>>
            /\ http' = [http EXCEPT ![h] = [http[h] EXCEPT !.pc = q]]
      BY <1>32 DEF HttpWaits, Turns, objects
    <2>2. [http[h] EXCEPT !.pc = q].pc # "exec"
      <3>1. http[h] \in HttpStates
        BY DEF TypeOK
      <3>. QED
        BY <2>1, <3>1 DEF HttpStates, Free
    <2>. QED
      BY <1>22, <2>1, <2>2, Zenon
  <1>33. CASE HttpNext
    BY <1>23, <1>24, <1>25, <1>26, <1>27, <1>28, <1>29, <1>30, <1>31, <1>32, <1>33,
       Zenon DEF HttpNext, Serves
  <1>. QED
    BY <1>1, <1>2, <1>3, <1>21, <1>33, Zenon DEF Next, Restart

-----------------------------------------------------------------------------
(***************************************************************************)
(* An undisturbed worker.                                                  *)
(***************************************************************************)

\* Whoever touches the query objects ends the worker's being alone.
LEMMA AloneSteps ==
  ASSUME [Next]_vars, alone'
  PROVE  \/ \E w \in Work : Finish(w)
         \/ WorkerNext
         \/ UNCHANGED <<work, copy_unhandled, ware_storloc, result, sql, worker, alone>>
  <1>1. ASSUME NEW h \in HttpThreads, Serves(h)
        PROVE  UNCHANGED <<work, copy_unhandled, ware_storloc, result, sql, worker, alone>>
    <2>1. CASE HttpWaits(h)
      BY <2>1, Zenon DEF HttpWaits, memory, table, objects
    <2>2. CASE ReadChange(h)
      BY <2>2, Zenon DEF ReadChange, memory, table, objects
    <2>. QED
      BY <1>1, <2>1, <2>2, Zenon DEF Serves, DropRow, ClearText, AddInsert, HttpBegins,
           HttpExecutes
  <1>2. ASSUME NEW h \in HttpThreads, NEW l \in Loc, Erase(h, l) \/ Change(h, l)
        PROVE  FALSE
    BY <1>2, Zenon DEF Erase, Change
  <1>3. ASSUME NEW h \in HttpThreads, Look(h)
        PROVE  FALSE
    BY <1>3, Zenon DEF Look
  <1>4. CASE HttpNext
    BY <1>1, <1>2, <1>3, <1>4, Zenon DEF HttpNext
  <1>5. CASE UNCHANGED vars
    BY <1>5, Zenon DEF vars, memory, table, objects
  <1>6. CASE Restart
    BY <1>6, Zenon DEF Restart, Emptied
  <1>. QED
    BY <1>4, <1>5, <1>6, Zenon DEF Next

LEMMA AppendOne ==
  ASSUME NEW s, NEW d
  PROVE  Append(<<s>>, d) = <<s, d>>
  <1>1. Append(<<s>>, d) \in Seq({s, d}) /\ <<s, d>> \in Seq({s, d})
    OBVIOUS
  <1>2. Len(Append(<<s>>, d)) = 2 /\ Len(<<s, d>>) = 2
    OBVIOUS
  <1>3. Append(<<s>>, d)[1] = s /\ Append(<<s>>, d)[2] = d
    OBVIOUS
  <1>4. \A i \in 1 .. 2 : Append(<<s>>, d)[i] = <<s, d>>[i]
    <2>1. \A i \in 1 .. 2 : i = 1 \/ i = 2
      OBVIOUS
    <2>2. <<s, d>>[1] = s /\ <<s, d>>[2] = d
      OBVIOUS
    <2>. QED
      BY <1>3, <2>1, <2>2, Zenon
  <1>. QED
    BY <1>1, <1>2, <1>4, SeqEqual, Zenon

LEMMA AloneInit == Init => AloneInv
  BY DEF Init, AloneInv, PutsTo

LEMMA AloneStep ==
  ASSUME TypeOK, WorkInv, PlaceInv, ResultInv, AloneInv, [Next]_vars
  PROVE  AloneInv'
  <1>. USE DEF AtStore, AtMove, AtBoth
  <1>0. CASE ~alone'
    BY <1>0 DEF AloneInv, PutsTo
  <1>1. CASE worker'.pc \in {"sleep", "pick"}
    BY <1>1 DEF AloneInv, PutsTo
  <1>2. CASE \E w \in Work : Finish(w)
    <2>1. PICK w \in Work : Finish(w)
      BY <1>2
    <2>2. UNCHANGED <<ware_storloc, result, sql, alone>>
      BY <2>1 DEF Finish, table, objects
    <2>3. PICK t \in Task : /\ work[t] = NoWork
                            /\ \A u \in Task : work'[u] = IF u = t THEN w ELSE work[u]
                            /\ UNCHANGED <<copy_unhandled, worker>>
      BY <2>1, FinishFacts, Zenon
    <2>4. CASE worker.k \in DOMAIN copy_unhandled
      <3>1. Current \in Task /\ work[Current] # NoWork
        BY <2>4, CurrentFacts DEF WorkInv, Current
      <3>2. Current' = Current
        BY <2>3 DEF Current
      <3>3. work'[Current'] = work[Current]
        BY <2>3, <3>1, <3>2
      <3>. QED
        BY <2>2, <2>3, <3>2, <3>3 DEF AloneInv, PutsTo
    <2>5. CASE worker.k \notin DOMAIN copy_unhandled
      <3>1. worker.pc \in {"sleep", "pick"}
        BY <2>5, WorkerRecords DEF PlaceInv, Places
      <3>. QED
        BY <1>1, <2>3, <3>1
    <2>. QED
      BY <2>4, <2>5
  <1>3. CASE UNCHANGED <<work, copy_unhandled, ware_storloc, result, sql, worker, alone>>
    <2>1. Current' = Current
      BY <1>3 DEF Current
    <2>. QED
      BY <1>3, <2>1 DEF AloneInv, PutsTo
  <1>4. CASE Wake
    BY <1>1, <1>4 DEF Wake, At
  <1>5. CASE RoundEnds
    BY <1>1, <1>5 DEF RoundEnds, Asleep, At
  <1>6. CASE SkipTake
    BY <1>1, <1>6 DEF SkipTake, GoesOn, At
  <1>7. CASE MarkHandled
    BY <1>1, <1>7 DEF MarkHandled, GoesOn, At
  <1>8. CASE SelectPlace
    <2>1. /\ worker'.pc = "branch" /\ worker'.k = worker.k
          /\ worker'.found = worker.found /\ worker'.there = worker.there
          /\ UNCHANGED <<work, copy_unhandled, ware_storloc>>
      BY <1>8, GoesFacts DEF SelectPlace, At, memory, table, objects
    <2>2. Current' = Current
      BY <2>1 DEF Current
    <2>3. worker.k \in DOMAIN copy_unhandled
      <3>1. worker.k <= Len(copy_unhandled)
        BY <1>8 DEF SelectPlace, Picks
      <3>. QED
        BY <3>1, WorkerRecords DEF TypeOK
    <2>4. work[Current].to \in Loc
      BY <2>3, CurrentFacts, WorkFacts
    <2>5. result'.n > 0 <=> ware_storloc[work[Current].to] # Nothing
      BY <1>8, <2>4 DEF SelectPlace, Row, Rows
    <2>. QED
      BY <2>1, <2>2, <2>3, <2>4, <2>5, <1>0 DEF AloneInv, PutsTo
  <1>9. CASE CountRows
    <2>1. /\ worker'.pc = IF worker.pc = "branch" THEN "compose" ELSE "clear"
          /\ worker'.k = worker.k /\ worker'.found = worker.found
          /\ UNCHANGED <<work, copy_unhandled, ware_storloc, alone>>
      BY <1>9 DEF CountRows, At, memory, table
    <2>2. Current' = Current
      BY <2>1 DEF Current
    <2>3. worker'.there <=> result.n > 0
      BY <1>9, Zenon DEF CountRows, At
    <2>4. alone => /\ worker.pc = "choose" => ware_storloc[work[Current].from] = worker.found
                   /\ result.n > 0 <=> ware_storloc[work[Current].to] # Nothing
      BY <1>9 DEF CountRows, AloneInv, PutsTo
    <2>. QED
      BY <1>9, <2>1, <2>2, <2>3, <2>4, <1>0 DEF CountRows, AloneInv, PutsTo
  <1>10. CASE ComposeStore
    <2>1. /\ worker'.pc = "wait" /\ worker'.k = worker.k
          /\ worker'.found = worker.found /\ worker'.there = worker.there
          /\ UNCHANGED <<work, copy_unhandled, ware_storloc, alone>>
      BY <1>10, GoesFacts DEF ComposeStore, At, memory, table, objects
    <2>2. Current' = Current
      BY <2>1 DEF Current
    <2>3. alone => (worker.there <=> ware_storloc[work[Current].to] # Nothing)
      BY <1>10 DEF ComposeStore, AloneInv, PutsTo
    <2>4. work[Current].op = "store"
      BY <1>10 DEF ComposeStore, PlaceInv
    <2>5. sql' = <<Put(worker.there, work[Current].to, Current)>>
      BY <1>10 DEF ComposeStore
    <2>. QED
      BY <2>1, <2>2, <2>3, <2>4, <2>5, <1>0 DEF AloneInv, PutsTo, Put
  <1>11. CASE SelectSource
    <2>1. /\ worker'.pc = "source" /\ worker'.k = worker.k
          /\ worker'.found = worker.found /\ worker'.there = worker.there
          /\ UNCHANGED <<work, copy_unhandled, ware_storloc>>
      BY <1>11, GoesFacts DEF SelectSource, At, memory, table, objects
    <2>2. Current' = Current
      BY <2>1 DEF Current
    <2>3. result'.n > 0 => ware_storloc[work[Current].from] = result'.ware
      BY <1>11 DEF SelectSource, Row, Rows
    <2>. QED
      BY <2>1, <2>2, <2>3, <1>0 DEF AloneInv, PutsTo
  <1>12. CASE CountSource
    <2>1. CASE GoesOn
      BY <1>1, <2>1 DEF GoesOn, At
    <2>2. CASE result.n # 0 /\ Goes("first")
      <3>1. /\ worker'.pc = "first" /\ worker'.k = worker.k
            /\ UNCHANGED <<work, copy_unhandled, ware_storloc, result, alone>>
        BY <1>12, <2>2, GoesFacts DEF CountSource, memory, table, objects
      <3>2. Current' = Current
        BY <3>1 DEF Current
      <3>3. result.n > 0
        BY <2>2 DEF TypeOK
      <3>4. alone => ware_storloc[work[Current].from] = result.ware
        BY <1>12, <3>3 DEF CountSource, AloneInv, PutsTo
      <3>. QED
        BY <3>1, <3>2, <3>3, <3>4 DEF AloneInv, PutsTo
    <2>. QED
      BY <1>12, <2>1, <2>2, Zenon DEF CountSource
  <1>13. CASE ReadFirst \/ ReadRest
    <2>1. CASE Emptied
      BY <1>0, <2>1, Zenon DEF Emptied
    <2>2. CASE ~Emptied /\ ~alone
      BY <1>0, <1>13, <2>2 DEF ReadFirst, ReadRest, ReadTexts
    <2>3. CASE ~Emptied /\ alone
      <3>1. worker.pc \in {"first", "rest"}
        BY <1>13 DEF ReadFirst, ReadRest
      <3>2. /\ result.n > 0 /\ Text = result.ware /\ ware_storloc[work[Current].from] = Text
            /\ worker.pc = "rest" => worker.found = Text
        BY <2>3, <3>1 DEF AloneInv, PutsTo, Text
      <3>3. /\ worker' = At(IF worker.pc = "first" THEN "rest" ELSE "found",
                            worker.k, Text, FALSE)
            /\ UNCHANGED <<work, memory, table, objects, alone>>
        BY <1>13, <2>3, <3>2 DEF ReadFirst, ReadRest, ReadTexts
      <3>4. /\ worker'.pc \in {"rest", "found"} /\ worker'.k = worker.k
            /\ worker'.found = Text
            /\ UNCHANGED <<work, copy_unhandled, ware_storloc, result, alone>>
        BY <3>3 DEF At, memory, table, objects
      <3>5. Current' = Current
        BY <3>4 DEF Current
      <3>. QED
        BY <3>2, <3>4, <3>5 DEF AloneInv, PutsTo
    <2>. QED
      BY <2>1, <2>2, <2>3
  <1>14. CASE SelectTarget
    <2>1. /\ worker'.pc = "choose" /\ worker'.k = worker.k
          /\ worker'.found = worker.found /\ worker'.there = worker.there
          /\ UNCHANGED <<work, copy_unhandled, ware_storloc, alone>>
      BY <1>14, GoesFacts DEF SelectTarget, At, memory, table, objects
    <2>2. Current' = Current
      BY <2>1 DEF Current
    <2>3. worker.k \in DOMAIN copy_unhandled
      BY <1>14 DEF SelectTarget, PlaceInv
    <2>4. work[Current].to \in Loc
      BY <2>3, CurrentFacts, WorkFacts
    <2>5. result'.n > 0 <=> ware_storloc[work[Current].to] # Nothing
      BY <1>14, <2>4 DEF SelectTarget, Row, Rows
    <2>6. alone => ware_storloc[work[Current].from] = worker.found
      BY <1>14 DEF SelectTarget, AloneInv, PutsTo
    <2>. QED
      BY <2>1, <2>2, <2>3, <2>4, <2>5, <2>6, <1>0 DEF AloneInv, PutsTo
  <1>15. CASE ClearPut
    <2>1. /\ worker'.pc = "put" /\ worker'.k = worker.k
          /\ worker'.found = worker.found /\ worker'.there = worker.there
          /\ UNCHANGED <<work, copy_unhandled, ware_storloc, alone>>
      BY <1>15, GoesFacts DEF ClearPut, memory, table
    <2>2. Current' = Current
      BY <2>1 DEF Current
    <2>3. sql' = <<>>
      BY <1>15 DEF ClearPut
    <2>4. alone => /\ ware_storloc[work[Current].from] = worker.found
                   /\ worker.there <=> ware_storloc[work[Current].to] # Nothing
      BY <1>15 DEF ClearPut, AloneInv, PutsTo
    <2>. QED
      BY <2>1, <2>2, <2>3, <2>4, <1>0 DEF AloneInv, PutsTo
  <1>16. CASE AddPut
    <2>1. /\ worker'.pc = "drop" /\ worker'.k = worker.k
          /\ worker'.found = worker.found /\ worker'.there = worker.there
          /\ UNCHANGED <<work, copy_unhandled, ware_storloc, alone>>
      BY <1>16, GoesFacts DEF AddPut, At, memory, table, objects
    <2>2. Current' = Current
      BY <2>1 DEF Current
    <2>3. sql' = Append(sql, Put(worker.there, work[Current].to, worker.found))
      BY <1>16 DEF AddPut
    <2>4. alone => /\ ware_storloc[work[Current].from] = worker.found
                   /\ worker.there <=> ware_storloc[work[Current].to] # Nothing
                   /\ sql = <<>>
      BY <1>16 DEF AddPut, AloneInv, PutsTo
    <2>5. alone => sql' = <<PutsTo(work[Current].to, worker.found)>>
      <3>1. alone => Put(worker.there, work[Current].to, worker.found) =
                     PutsTo(work[Current].to, worker.found)
        BY <2>4 DEF PutsTo, Put
      <3>. QED
        BY <2>3, <2>4, <3>1
    <2>. QED
      BY <2>1, <2>2, <2>3, <2>4, <2>5, <1>0 DEF AloneInv, PutsTo
  <1>17. CASE AddDelete
    <2>1. /\ worker'.pc = "wait" /\ worker'.k = worker.k
          /\ worker'.found = worker.found /\ worker'.there = worker.there
          /\ UNCHANGED <<work, copy_unhandled, ware_storloc, alone>>
      BY <1>17, GoesFacts DEF AddDelete, At, memory, table, objects
    <2>2. Current' = Current
      BY <2>1 DEF Current
    <2>3. sql' = Append(sql, Statement("delete", work[Current].from, 0))
      BY <1>17 DEF AddDelete
    <2>4. alone => /\ ware_storloc[work[Current].from] = worker.found
                   /\ sql = <<PutsTo(work[Current].to, worker.found)>>
      BY <1>17 DEF AddDelete, AloneInv, PutsTo
    <2>5. work[Current].op = "move"
      BY <1>17 DEF AddDelete, PlaceInv
    <2>6. alone => sql' = <<PutsTo(work[Current].to, worker.found),
                             Statement("delete", work[Current].from, 0)>>
      <3>. DEFINE s == PutsTo(work[Current].to, worker.found)
                  d == Statement("delete", work[Current].from, 0)
      <3>. HIDE DEF s, d
      <3>1. sql' = Append(sql, d) /\ (alone => sql = <<s>>)
        BY <2>3, <2>4 DEF s, d
      <3>2. Append(<<s>>, d) = <<s, d>>
        BY AppendOne
      <3>3. alone => sql' = <<s, d>>
        BY <3>1, <3>2, Zenon
      <3>. QED
        BY <3>3 DEF s, d
    <2>. QED
      BY <2>1, <2>2, <2>3, <2>4, <2>5, <2>6, <1>0 DEF AloneInv, PutsTo
  <1>18. CASE WorkerWaits
    <2>1. /\ worker'.pc = "begin" /\ worker'.k = worker.k
          /\ worker'.found = worker.found /\ worker'.there = worker.there
          /\ UNCHANGED <<work, copy_unhandled, ware_storloc, sql, alone>>
      BY <1>18, GoesFacts DEF WorkerWaits, At, memory, table, objects
    <2>2. Current' = Current
      BY <2>1 DEF Current
    <2>3. worker.pc = "wait"
      BY <1>18 DEF WorkerWaits
    <2>. QED
      BY <2>1, <2>2, <2>3, <1>0 DEF AloneInv, PutsTo
  <1>19. CASE WorkerBegins
    <2>1. CASE Emptied
      BY <1>0, <2>1, Zenon DEF Emptied
    <2>2. CASE Goes("exec") /\ UNCHANGED <<work, memory, table, sql, alone>>
      <3>1. /\ worker'.pc = "exec" /\ worker'.k = worker.k /\ worker'.found = worker.found
            /\ UNCHANGED <<work, copy_unhandled, ware_storloc, sql, alone>>
        BY <2>2, GoesFacts DEF memory, table
      <3>2. Current' = Current
        BY <3>1 DEF Current
      <3>3. worker.pc = "begin"
        BY <1>19 DEF WorkerBegins
      <3>. QED
        BY <3>1, <3>2, <3>3 DEF AloneInv, PutsTo
    <2>. QED
      BY <1>19, <2>1, <2>2, Zenon DEF WorkerBegins
  <1>20. CASE WorkerExecutes
    <2>1. /\ worker'.pc = "mark" /\ worker'.k = worker.k /\ worker'.found = worker.found
          /\ UNCHANGED <<work, copy_unhandled>> /\ worker.pc = "exec"
          /\ alone' = (alone /\ faults' = faults)
      BY <1>20, GoesFacts DEF WorkerExecutes, memory
    <2>2. Current' = Current
      BY <2>1 DEF Current
    <2>3. worker.k \in DOMAIN copy_unhandled /\ work[Current].op \in {"store", "move"}
      BY <2>1 DEF PlaceInv
    <2>4. /\ work[Current].to \in Loc
          /\ work[Current].op = "move" => /\ work[Current].from \in Loc
                                          /\ work[Current].from # work[Current].to
      BY <2>3, CurrentFacts, WorkFacts
    <2>5. CASE alone /\ faults' = faults
      <3>1. ~Refused => ware_storloc' = [l \in Loc |-> Left(l)]
        <4>1. CASE ware_storloc' = [l \in Loc |-> Left(l)]
          BY <4>1
        <4>2. CASE ~Refused /\ faults' = IF Refused THEN faults ELSE faults + 1
          BY <2>5, <4>2 DEF TypeOK
        <4>. QED
          BY <1>20, <4>1, <4>2, Zenon DEF WorkerExecutes, Execute
      <3>2. CASE work[Current].op = "store"
        <4>1. sql = <<PutsTo(work[Current].to, Current)>>
          BY <2>1, <2>5, <3>2 DEF AloneInv, PutsTo
        <4>2. ~Refused /\ Left(work[Current].to) = Current
          BY <4>1, StoreExecuted, Zenon
        <4>3. ware_storloc'[work[Current].to] = Current
          BY <2>4, <3>1, <4>2
        <4>. QED
          BY <2>1, <2>2, <3>2, <4>3 DEF AloneInv, PutsTo
      <3>3. CASE work[Current].op = "move"
        <4>1. sql = <<PutsTo(work[Current].to, worker.found),
                      Statement("delete", work[Current].from, 0)>>
          BY <2>1, <2>5, <3>3 DEF AloneInv, PutsTo
        <4>2. /\ ~Refused /\ Left(work[Current].to) = worker.found
              /\ Left(work[Current].from) = Nothing
          BY <2>4, <3>3, <4>1, MoveExecuted, Zenon
        <4>3. /\ ware_storloc'[work[Current].to] = worker.found
              /\ ware_storloc'[work[Current].from] = Nothing
          BY <2>4, <3>1, <3>3, <4>2
        <4>. QED
          BY <2>1, <2>2, <3>3, <4>3 DEF AloneInv, PutsTo
      <3>. QED
        BY <2>3, <3>2, <3>3
    <2>. QED
      BY <1>0, <2>1, <2>5, Zenon
  <1>. QED
    BY <1>0, <1>2, <1>3, <1>4, <1>5, <1>6, <1>7, <1>8, <1>9, <1>10, <1>11, <1>12, <1>13,
       <1>14, <1>15, <1>16, <1>17, <1>18, <1>19, <1>20,
       AloneSteps, Zenon DEF WorkerNext

-----------------------------------------------------------------------------
(***************************************************************************)
(* Theorems.                                                               *)
(***************************************************************************)
Inv == TypeOK /\ WorkInv /\ PlaceInv /\ ResultInv /\ NoneMissed /\ OneTransaction
       /\ AloneInv

\* The ledger's invariant: types, the lists, the worker's place, what the last
\* SELECT left, the transaction, and what an undisturbed worker knows.
THEOREM Inductive == Spec => []Inv
  <1>1. Init => Inv
    BY TypeInit, WorkInit, PlaceInit, TransactionInit, AloneInit DEF Inv
  <1>2. ASSUME Inv, [Next]_vars PROVE Inv'
    BY <1>2, TypeStep, WorkStep, PlaceStep, ResultStep, TransactionStep, AloneStep DEF Inv
  <1>. QED
    BY <1>1, <1>2, PTL DEF Spec

\* Every variable keeps its type: whatever the threads put into the query objects
\* between two uses of the worker, it stays within its copy of the tasks, and a
\* location has no row or one with the texts of a stack, of several, or of none.
THEOREM TypeCorrect == Spec => []TypeOK
  BY Inductive, PTL DEF Inv

\* The worker's scan, which stops at the first handled task, misses none.
THEOREM NoTaskMissed == Spec => []NoneMissed
  BY Inductive, PTL DEF Inv

\* No two threads are in the transaction, and a failure leaves none open.
THEOREM TransactionsApart == Spec => []OneTransaction
  BY Inductive, PTL DEF Inv

\* A task nobody disturbed is in the table when it is marked handled.
THEOREM UndisturbedRecorded == Spec => Recorded
  <1>1. ASSUME Inv, [Next]_vars,
               NEW t \in Task, ~handled[t], handled'[t], alone
        PROVE  \/ work[t].op = "store" /\ ware_storloc[work[t].to] = t
               \/ /\ work[t].op = "move" /\ ware_storloc[work[t].to] = worker.found
                  /\ ware_storloc[work[t].from] = Nothing
    <2>1. MarkHandled
      <3>1. handled' # handled
        BY <1>1
      <3>2. ~Emptied
        <4>1. Emptied => ~handled'[t]
          BY DEF Emptied
        <4>. QED
          BY <1>1, <4>1, Zenon
      <3>. QED
        BY <1>1, <3>1, <3>2, MemorySteps, Zenon DEF Finish, Wake, memory
    <2>2. worker.pc = "mark" /\ t = Current
      BY <1>1, <2>1 DEF MarkHandled, Inv, TypeOK
    <2>. QED
      BY <1>1, <2>2 DEF Inv, AloneInv, PutsTo
  <1>2. ASSUME Inv, [Next]_vars
        PROVE  [\A t \in Task : ~handled[t] /\ handled'[t] /\ alone =>
                  \/ work[t].op = "store" /\ ware_storloc[work[t].to] = t
                  \/ /\ work[t].op = "move" /\ ware_storloc[work[t].to] = worker.found
                     /\ ware_storloc[work[t].from] = Nothing]_vars
    BY <1>1, <1>2
  <1>. QED
    BY <1>2, Inductive, PTL DEF Spec, Recorded
==============================================================================
