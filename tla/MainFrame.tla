------------------------------ MODULE MainFrame ------------------------------
(***************************************************************************)
(* The main window of the client (MainForm.cpp, FrmAGV.cpp, http_conn.cpp):*)
(* the map, a button for each vehicle the hub knows, a table of one row    *)
(* that shows a vehicle or the ware of a location, and the buttons that    *)
(* select two regions.  A timer asks the hub for its vehicles (678005) and *)
(* merges the answer into info_agvs.  A request that fails leaves the      *)
(* array for the answer as it was allocated: with whatever was in memory.  *)
(*                                                                         *)
(* One storey is shown: the buttons that would choose another are hidden.  *)
(***************************************************************************)
EXTENDS AgvRegistry, WareMap

CONSTANTS
  Ghost,     \* what is in memory where the client looks for an address
  MaxLost    \* bound: requests that fail

ASSUME FrameAssumption ==
  /\ IsFiniteSet(Addr) /\ 0 \notin Addr /\ Ghost \notin Addr \union {0}
  /\ MaxLost \in Nat

VARIABLES
  conf,         \* the configuration read; 0 before the start
  info_agvs,
  highlighted,  \* the button of info_agvs that stands out, or 0
  head,         \* what the first column of the table is headed
  cells,        \* the row: vehicle id at addr, with the battery and task of `from`
  hittest,      \* [slct, schdl]: the two buttons are pressed
  shown,        \* the regions and buttons that are visible
  lost,
  again         \* history: the hub has started with a smaller number

panel == <<highlighted, head, cells>>
regions == <<hittest, shown>>
vars == <<regVars, conf, info_agvs, panel, regions, lost, again>>

NoCells == [kind |-> "none", id |-> 0, addr |-> 0, from |-> 0]
Hidden == [slct1 |-> FALSE, slct2 |-> FALSE, schdl |-> FALSE, confirm |-> FALSE]

btn_fsm(pressed) ==
  IF pressed.slct
  THEN [slct1 |-> TRUE, slct2 |-> pressed.schdl,
        schdl |-> TRUE, confirm |-> pressed.schdl]
  ELSE Hidden

Init ==
  /\ RegistryInit
  /\ conf = 0
  /\ info_agvs = <<>>
  /\ highlighted = 0 /\ head = "agv" /\ cells = NoCells
  /\ hittest = [slct |-> FALSE, schdl |-> FALSE] /\ shown = Hidden
  /\ lost = 0 /\ again = FALSE

-----------------------------------------------------------------------------
(* The hub                                                                 *)

\* The window does not show where a vehicle is; all are on the first storey.
HubHears ==
  /\ \E ip \in Addr : RegAgv(ip, 1)
  /\ UNCHANGED <<conf, info_agvs, panel, regions, lost, again>>

HubRestarts ==
  /\ load_agvs
  /\ again' = (again \/ id_agv_max' < id_agv_max)
  /\ UNCHANGED <<conf, info_agvs, panel, regions, lost>>

\* 678003 and 678005: all vehicles; the table gives its rows in no order.
Answers == SetToSeqs({[addr |-> ip, id |-> agvs[ip].id] : ip \in {ip \in Addr : Known(ip)}})

\* What a failed request leaves: any two entries, with no number or the last
\* one.  As many are taken from the front as have an address anywhere, so an
\* empty one may be.
Garbage ==
  LET entries == [addr : Addr \union {Ghost, 0}, id : {0, id_agv_max}]
  IN {SubSeq(g, 1, Cardinality({i \in 1..2 : g[i].addr # 0})) : g \in entries \X entries}

-----------------------------------------------------------------------------
(* Vehicles                                                                *)

Row1(agv) == [kind |-> "agv", id |-> agv.id, addr |-> agv.addr, from |-> agv.addr]

\* Without an answer the array stays empty.
query_agvs ==
  \/ info_agvs' \in Answers /\ UNCHANGED lost
  \/ lost < MaxLost /\ lost' = lost + 1 /\ info_agvs' = <<>>

\* add_color_buttons, and later the timer: one for each vehicle.
Buttons(infos) == DOMAIN infos

\* FormCreate: the configuration is read or first written, the map is built,
\* the first vehicle is shown, and of the regions what btn_fsm shows.
Start(f) ==
  /\ conf = 0 /\ conf' = f
  /\ query_agvs
  /\ IF Buttons(info_agvs') = {} THEN UNCHANGED <<highlighted, cells>>
     ELSE highlighted' = 1 /\ cells' = Row1(info_agvs'[1])
  /\ shown' = btn_fsm(hittest)
  /\ UNCHANGED <<regVars, head, hittest, again>>

\* A slip: entries are told apart by number.
PlaceByNumber(agv, infos) == SelectInSeq(infos, LAMBDA e : e.id = agv.id)

Place(agv, infos) == SelectInSeq(infos, LAMBDA e : e.addr = agv.addr)

\* The entry of that address is replaced, or one is appended with its button.
Merge(infos, agv) ==
  LET j == Place(agv, infos)
  IN IF j = 0 THEN Append(infos, agv) ELSE [infos EXCEPT ![j] = agv]

\* A slip: the last entry is shown.
LastShown(infos) == Len(infos)

\* The first entry with the number in the row.
Shown(infos) == SelectInSeq(infos, LAMBDA e : e.id = cells.id)

Refresh(temp_agvs) ==
  /\ conf # 0
  /\ info_agvs' = FoldLeft(Merge, info_agvs, temp_agvs)
  /\ LET i == Shown(info_agvs')
     IN cells' = IF head = "agv" /\ cells.kind = "agv" /\ i # 0
                 THEN [cells EXCEPT !.from = info_agvs'[i].addr] ELSE cells
  /\ UNCHANGED <<regVars, conf, highlighted, head, regions, again>>

FreshAnswered == (\E temp \in Answers : Refresh(temp)) /\ UNCHANGED lost

FreshLost ==
  /\ lost < MaxLost /\ lost' = lost + 1
  /\ \E temp \in Garbage : Refresh(temp)

\* ColorButton1Click; of a button that stands out already nothing more.
ColorButtonClick(k) ==
  /\ conf # 0 /\ k # highlighted
  /\ highlighted' = k /\ head' = "agv" /\ cells' = Row1(info_agvs[k])
  /\ UNCHANGED <<regVars, conf, info_agvs, regions, lost, again>>

\* Circle1Click: the row becomes the ware of a location.
CircleClick ==
  /\ conf # 0
  /\ head' = "ware" /\ cells' = [NoCells EXCEPT !.kind = "ware"]
  /\ UNCHANGED <<regVars, conf, info_agvs, highlighted, regions, lost, again>>

-----------------------------------------------------------------------------
(* Regions                                                                 *)

add_slct_title == head' = "slct"
add_schdl_title == head' = "schdl"

SlctClick ==   \* CornerButton9Click
  /\ conf # 0
  /\ hittest' = [hittest EXCEPT !.slct = ~@]
  /\ IF hittest'.slct
     THEN shown' = [shown EXCEPT !.slct1 = TRUE, !.schdl = TRUE] /\ add_slct_title
     ELSE shown' = Hidden /\ UNCHANGED head
  /\ UNCHANGED <<regVars, conf, info_agvs, highlighted, cells, lost, again>>

SchdlClick ==
  /\ conf # 0 /\ shown.schdl
  /\ hittest' = [hittest EXCEPT !.schdl = ~@]
  /\ shown' = [shown EXCEPT !.slct2 = hittest'.schdl, !.confirm = hittest'.schdl]
  /\ IF hittest'.schdl THEN add_schdl_title ELSE UNCHANGED head
  /\ UNCHANGED <<regVars, conf, info_agvs, highlighted, cells, lost, again>>

-----------------------------------------------------------------------------

Files == <<conf_template, release_ini>>

Next ==
  \/ HubHears
  \/ HubRestarts
  \/ \E f \in DOMAIN Files : Start(f)
  \/ FreshAnswered
  \/ FreshLost
  \/ \E k \in Buttons(info_agvs) : ColorButtonClick(k)
  \/ CircleClick
  \/ SlctClick
  \/ SchdlClick

Spec == Init /\ [][Next]_vars

-----------------------------------------------------------------------------
(* Properties                                                              *)

RightOf == [f \in DOMAIN Files |-> Right(parse_config(Files[f]))]

\* On the map that is read every location has a name of its own, which the
\* hub's table is keyed by, the numbers over a column are those of its
\* locations, no special location hides one, and the plan of columns is
\* complete and in order: arteries, areas, coordinates and special locations
\* are four lists of the file that say nothing of each other.
MapRight == conf = 0 \/ RightOf[conf]

\* No vehicle has two buttons, whatever a failed request left in memory and
\* however often the hub gave it a new number.
OneEach ==
  \A j, k \in DOMAIN info_agvs : info_agvs[j].addr = info_agvs[k].addr => j = k

\* A schedule can be confirmed only while both regions are on the map and
\* both buttons pressed, whatever order they were pressed and released in.
ConfirmNeedsBoth ==
  /\ shown.confirm => hittest.slct /\ hittest.schdl
  /\ shown.confirm = shown.slct2
  /\ shown.confirm => shown.slct1 /\ shown.schdl

\* The buttons of the window: of the vehicles, and of the regions.
ButtonsRight == OneEach /\ ConfirmNeedsBoth

\* Under the heading of vehicles the row is that of the button that stands
\* out, and never the ware of a location, which is no number.  While the hub
\* gave no number twice and no request failed, battery and task are its own,
\* although the row is found by number and merged by address.
GridOwn ==
  head = "agv" =>
    /\ cells.kind # "ware"
    /\ highlighted # 0 => cells.addr = info_agvs[highlighted].addr
    /\ ~again /\ lost = 0 => cells.from = cells.addr
=============================================================================
