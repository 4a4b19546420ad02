------------------------------ MODULE EndPick -------------------------------
(***************************************************************************)
(* How the user of a client chooses the two ends of a task on the map      *)
(* (TFrame1::stor_loc_display, FrmAGV.cpp): a click on a location puts it  *)
(* into one of the two fields Edit1 and Edit2, or takes it out again.  A   *)
(* chosen location is painted red; a dropped one gets the colour of its    *)
(* own back.  The client paints from its user interface thread only.       *)
(***************************************************************************)
EXTENDS FiniteSets

CONSTANTS
  Stor,      \* storage locations, circles on the map
  Spec1,     \* special locations, rectangles on the map
  Nowhere    \* an empty field, a null pointer

Loc == Stor \union Spec1

ASSUME LocAssumption == Nowhere \notin Loc

VARIABLES
  edit1,     \* Edit1->TagObject, where the task begins
  edit2,     \* Edit2->TagObject, where it ends
  red        \* the locations painted red

pickVars == <<edit1, edit2, red>>

PickTypeOK ==
  /\ edit1 \in Loc \union {Nowhere}
  /\ edit2 \in Loc \union {Nowhere}
  /\ red \in SUBSET Loc

PickInit == edit1 = Nowhere /\ edit2 = Nowhere /\ red = {}

Chosen(x) == x \in {edit1, edit2}

\* Both fields are in use and the click is on a third location.
ReplaceEnd(x) ==
  /\ Nowhere \notin {edit1, edit2} /\ ~Chosen(x)
  /\ edit2' = x
  /\ red' = (red \ {edit2}) \union {x}
  /\ UNCHANGED edit1

\* A slip: the colour is not restored.
DropEndRed(x) ==
  /\ edit1 # Nowhere /\ x # edit1 /\ x = edit2
  /\ edit2' = Nowhere
  /\ UNCHANGED <<edit1, red>>

\* A click on the chosen end drops it.
DropEnd(x) ==
  /\ edit1 # Nowhere /\ x # edit1 /\ x = edit2
  /\ edit2' = Nowhere
  /\ red' = red \ {x}
  /\ UNCHANGED edit1

PickEnd(x) ==
  /\ edit1 # Nowhere /\ x # edit1 /\ edit2 = Nowhere
  /\ edit2' = x
  /\ red' = red \union {x}
  /\ UNCHANGED edit1

\* A click on the chosen beginning drops it.
DropBegin(x) ==
  /\ x = edit1
  /\ edit1' = Nowhere
  /\ red' = red \ {x}
  /\ UNCHANGED edit2

PickBegin(x) ==
  /\ edit1 = Nowhere /\ x # edit2
  /\ edit1' = x
  /\ red' = red \union {x}
  /\ UNCHANGED edit2

\* A slip: the other field is not emptied.
EndToBoth(x) ==
  /\ edit1 = Nowhere /\ x = edit2
  /\ edit1' = x
  /\ UNCHANGED <<edit2, red>>

\* Without a beginning, a click on the end makes it the beginning.
EndToBegin(x) ==
  /\ edit1 = Nowhere /\ x = edit2
  /\ edit1' = x
  /\ edit2' = Nowhere
  /\ UNCHANGED red

stor_loc_display(x) ==
  \/ ReplaceEnd(x) \/ DropEnd(x) \/ PickEnd(x)
  \/ DropBegin(x) \/ PickBegin(x) \/ EndToBegin(x)

\* restore_task_end_point: the ends of the task `av` get their own colours
\* back, whatever is chosen, and both fields are emptied.  A task without
\* ends has type 0, that of a special location, and no rectangle: the access
\* violation leaves everything as it was.
RestoreEnds(s, e) ==
  IF s = Nowhere THEN UNCHANGED pickVars
  ELSE /\ edit1' = Nowhere
       /\ edit2' = Nowhere
       /\ red' = red \ {s, e}

\* A location gets a new colour of its own and shows it, chosen or not.
Repaint(X) == red' = red \ X /\ UNCHANGED <<edit1, edit2>>

\* No task begins where it ends.
EndsDiffer == edit1 = Nowhere \/ edit1 # edit2
=============================================================================
