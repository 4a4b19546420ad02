------------------------------ MODULE TaskLife ------------------------------
(***************************************************************************)
(* What the hub (src/WareHub2) promises about a task a client issues: it   *)
(* is accepted at most once, finished at most once and only after it was   *)
(* accepted, and the finished tasks form a list to which a task is only    *)
(* ever added at the front.  The hub keeps its tasks in memory, so a       *)
(* restart forgets all of them, and none of them ever comes back.          *)
(***************************************************************************)
EXTENDS Sequences

CONSTANT Task       \* the tasks clients ask for

VARIABLES
  fresh,            \* tasks the hub has not taken in
  held,             \* tasks taken in and not finished
  done              \* finished tasks, the newest first

lifeVars == <<fresh, held, done>>

Init ==
  /\ fresh = Task
  /\ held = {}
  /\ done = <<>>

Accept(t) ==
  /\ t \in fresh
  /\ fresh' = fresh \ {t}
  /\ held' = held \union {t}
  /\ UNCHANGED done

\* The parameters of the request could not be read.
Refuse(t) ==
  /\ t \in fresh
  /\ fresh' = fresh \ {t}
  /\ UNCHANGED <<held, done>>

Finish(t) ==
  /\ t \in held
  /\ held' = held \ {t}
  /\ done' = <<t>> \o done
  /\ UNCHANGED fresh

\* The requests being served when the hub stops die with it.
Restart ==
  /\ \E died \in SUBSET fresh : fresh' = fresh \ died
  /\ held' = {}
  /\ done' = <<>>

Next ==
  \/ \E t \in Task : Accept(t) \/ Refuse(t) \/ Finish(t)
  \/ Restart

Spec == Init /\ [][Next]_lifeVars
=============================================================================
