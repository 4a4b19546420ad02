------------------------------- MODULE WareMap -------------------------------
(***************************************************************************)
(* The map of storage locations the client builds when it starts           *)
(* (MainForm.cpp, FrmAGV.cpp): the configuration is read, arteries are cut *)
(* out of the storeys, what is left are the locations, and the areas give  *)
(* each its numbers.  These make its name, which is the key of the hub's   *)
(* table ware_storloc.  A point p of the map is <<storey, y, x>>; a range  *)
(* is <<x1, y1, x2, y2>>.                                                  *)
(***************************************************************************)
EXTENDS Integers, SequencesExt

CONSTANT WordSpan   \* 2^32: the numbers of a location are unsigned

\* Far more than any number of a location: storeys are 36 by 28.
ASSUME WordAssumption == WordSpan \in Nat /\ WordSpan > 255

-----------------------------------------------------------------------------
(* Configuration files                                                     *)

\* What the program writes when it finds no file.  The text of an area is an
\* A and two digits; here it is their number.  Colours are left out.
template_storeys ==
  << [x |-> 36, y |-> 28,
      artery_y |-> << <<0, 0, 35, 4>>, <<0, 5, 15, 9>>, <<20, 5, 23, 9>>,
                         <<34, 4, 35, 9>>, <<0, 10, 35, 13>>,
                         <<16, 14, 17, 14>>, <<25, 14, 27, 14>> >>,
      artery_x |-> << <<0, 14, 15, 27>>, <<16, 24, 17, 27>>,
                         <<24, 14, 24, 27>>, <<25, 24, 27, 27>> >>],
     [x |-> 36, y |-> 28,
      artery_y |-> << <<11, 20, 11, 22>>, <<12, 20, 12, 21>>,
                         <<13, 20, 13, 20>> >>,
      artery_x |-> << <<0, 0, 35, 19>>, <<22, 20, 24, 20>>,
                         <<0, 20, 10, 27>>, <<33, 20, 33, 20>> >>] >>

template_areas ==
  << [range |-> <<16, 14, 35, 27>>, storey |-> 0, base_point |-> <<13, 19>>, txt |-> 0],
     [range |-> <<24, 5, 33, 9>>, storey |-> 0, base_point |-> <<0, 9>>, txt |-> 1],
     [range |-> <<16, 5, 19, 9>>, storey |-> 0, base_point |-> <<0, 3>>, txt |-> 2],
     [range |-> <<11, 20, 35, 27>>, storey |-> 1, base_point |-> <<7, 24>>, txt |-> 3],
     [range |-> <<16, 15, 17, 23>>, storey |-> 0, base_point |-> <<0, 19>>, txt |-> 0],
     [range |-> <<25, 15, 27, 23>>, storey |-> 0, base_point |-> <<0, 10>>, txt |-> 0] >>

template_specs ==
  << [txt |-> "D00", range |-> <<2, 11, 2, 12>>, storey |-> 0],
     [txt |-> "F01", range |-> <<6, 11, 6, 12>>, storey |-> 0],
     [txt |-> "F00", range |-> <<12, 11, 12, 11>>, storey |-> 0],
     [txt |-> "F02", range |-> <<12, 12, 12, 12>>, storey |-> 0],
     [txt |-> "L01", range |-> <<25, 14, 27, 14>>, storey |-> 0],
     [txt |-> "B00", range |-> <<26, 13, 26, 13>>, storey |-> 0],
     [txt |-> "P01", range |-> <<26, 12, 26, 12>>, storey |-> 0],
     [txt |-> "P00", range |-> <<26, 11, 26, 11>>, storey |-> 0],
     [txt |-> "O00", range |-> <<29, 11, 29, 11>>, storey |-> 0],
     [txt |-> "O01", range |-> <<29, 12, 29, 12>>, storey |-> 0],
     [txt |-> "G00", range |-> <<35, 8, 35, 8>>, storey |-> 0],
     [txt |-> "W00", range |-> <<20, 5, 23, 9>>, storey |-> 0],
     [txt |-> "L01", range |-> <<22, 16, 24, 16>>, storey |-> 1],
     [txt |-> "B02", range |-> <<23, 17, 23, 17>>, storey |-> 1],
     [txt |-> "P02", range |-> <<23, 18, 23, 18>>, storey |-> 1],
     [txt |-> "G02", range |-> <<27, 16, 27, 16>>, storey |-> 1],
     [txt |-> "O02", range |-> <<31, 18, 31, 18>>, storey |-> 1],
     [txt |-> "D01", range |-> <<2, 9, 2, 9>>, storey |-> 0] >>

template_coords ==
  << [x |-> 16, y |-> 10, axis |-> 0, base |-> 3, area |-> 2],
     [x |-> 15, y |-> 5, axis |-> 1, base |-> 0, len |-> 5],
     [x |-> 16, y |-> 13, axis |-> 0, base |-> 19, area |-> 0],
     [x |-> 15, y |-> 14, axis |-> 1, base |-> 13],
     [x |-> 24, y |-> 10, axis |-> 0, base |-> 9, area |-> 1],
     [x |-> 34, y |-> 5, axis |-> 1, base |-> 0, len |-> 5],
     [x |-> 11, y |-> 19, axis |-> 0, base |-> 24, storey |-> 1, area |-> 3],
     [x |-> 10, y |-> 20, axis |-> 1, base |-> 7, storey |-> 1] >>

conf_template ==
  [storeys |-> template_storeys, areas |-> template_areas,
   specs |-> template_specs, coords |-> template_coords]

\* The file that lies beside the released program: an older map, and nothing
\* about coordinates, of which there are eight then, all at zero.
release_ini ==
  [conf_template EXCEPT
     !.storeys[1].artery_x =
        << <<0, 14, 15, 27>>, <<16, 24, 17, 27>>, <<18, 14, 18, 25>>,
           <<24, 14, 24, 25>>, <<25, 24, 27, 27>> >>,
     !.specs = SubSeq(@, 1, 17) \o
        << [txt |-> "Q01", range |-> <<17, 3, 17, 3>>, storey |-> 0],
           [txt |-> "Q02", range |-> <<18, 3, 18, 3>>, storey |-> 0],
           [txt |-> "Q03", range |-> <<19, 3, 19, 3>>, storey |-> 0],
           [txt |-> "Q00", range |-> <<16, 3, 16, 3>>, storey |-> 0] >>,
     !.coords = [i \in 1..8 |-> [x |-> 0]]]

Setting(entry, key, default) == IF key \in DOMAIN entry THEN entry[key] ELSE default

\* A key that is missing has its default.
parse_config(file) ==
  [storeys  |-> file.storeys,
   arteries |-> UNION {{[range |-> r, storey |-> q - 1] :
                          r \in ToSet(file.storeys[q].artery_y)
                                \union ToSet(file.storeys[q].artery_x)} :
                        q \in DOMAIN file.storeys},
   areas    |-> file.areas,
   specs    |-> file.specs,
   coords   |-> [i \in DOMAIN file.coords |->
                   [key \in {"x", "y", "axis", "base", "len", "storey", "area"} |->
                      Setting(file.coords[i], key, IF key = "area" THEN -1 ELSE 0)]]]

-----------------------------------------------------------------------------
(* Locations                                                               *)

Inside(range, y, x) == y \in range[2]..range[4] /\ x \in range[1]..range[3]

\* build_matrix: a one where no artery runs.
Matrix(cf) ==
  {p \in UNION {{q - 1} \X (0..cf.storeys[q].y - 1) \X (0..cf.storeys[q].x - 1) :
                  q \in DOMAIN cf.storeys} :
     ~\E a \in cf.arteries : a.storey = p[1] /\ Inside(a.range, p[2], p[3])}

\* A slip: an area is found on every storey.
CoversAllStoreys(area, p) == Inside(area.range, p[2], p[3])

Covers(area, p) == area.storey = p[1] /\ Inside(area.range, p[2], p[3])

\* Down from the base point, or up from zero.
Number(base, offset) == IF base = 0 THEN offset ELSE (base - offset) % WordSpan

Unnumbered(p) == [at |-> p, storey |-> 0, area |-> 0, r |-> 0, c |-> 0, named |-> FALSE]

Numbered(p, area) ==
  [at     |-> p,
   storey |-> area.storey + 1,
   area   |-> area.txt,
   r      |-> Number(area.base_point[1], p[2] - area.range[2]),
   c      |-> Number(area.base_point[2], p[3] - area.range[1]),
   named  |-> TRUE]

\* draw_basis: the last area that covers the point numbers it.
Storloc(cf, p) ==
  LET k == SelectLastInSeq(cf.areas, LAMBDA area : Covers(area, p))
  IN IF k = 0 THEN Unnumbered(p) ELSE Numbered(p, cf.areas[k])

Storlocs(cf) == {Storloc(cf, p) : p \in Matrix(cf)}

\* txt, such as A00R04C12; without an area it is empty.
Txt(s) == IF s.named THEN <<s.area, s.r, s.c>> ELSE <<>>

\* query_available_storlocs: what a row of the hub's table colours.
Painted(locs, txt) == {s \in locs : Txt(s) = txt}

\* inavailable_storloc, which tells, against its name, what can be used.
Available(s) ==
  /\ s.area = 2 /\ s.c \in {1, 3} => s.r = 4
  /\ s.area = 3 => Txt(s) # <<3, 7, 0>>
  /\ s.area = 1 => s.c # 0
  /\ s.area = 0 => /\ s.c \notin {18, 19}
                   /\ s.c = 12 => s.r >= 4
                   /\ s.r = 8 => s.c \notin {8, 9, 10}

-----------------------------------------------------------------------------
(* What the full view shows, in units of a location, as <<x, y>>           *)

Width(cf) == cf.storeys[1].x

CircleAt(cf, s) == <<s.at[3] + s.at[1] * Width(cf), s.at[2]>>

\* Rectangles of the second storey are moved by 36, whatever the width is.
RectangleCovers(spec, place) ==
  Inside(spec.range, place[2], place[1] - IF spec.storey = 0 THEN 0 ELSE 36)

\* The numbers along the areas: down from the base, or up from zero.
Labels(cf) ==
  UNION {LET k == cf.coords[i]
             n == IF k.base = 0 THEN k.len ELSE k.base + 1
             left == k.x + IF k.storey = 0 THEN 0 ELSE Width(cf)
         IN {[place  |-> IF k.axis = 0 THEN <<left + e, k.y>> ELSE <<left, k.y + e>>,
              axis   |-> k.axis,
              area   |-> k.area,
              number |-> IF k.base = 0 THEN e ELSE k.base - e] : e \in 0..n - 1} :
         i \in DOMAIN cf.coords}

-----------------------------------------------------------------------------
(* build_column_plan: areas, their columns and the rows of these           *)

NewColumn(s) == [storey |-> s.storey, area |-> s.area, c |-> s.c, rows |-> <<s>>]
NewArea(s) == [area |-> s.area, columns |-> <<NewColumn(s)>>]

Enter(plan, s) ==
  LET a == SelectInSeq(plan, LAMBDA x : x.area = s.area)
      k == SelectInSeq(plan[a].columns, LAMBDA x : x.c = s.c)
  IN IF ~Available(s) \/ s.area = 2 THEN plan
     ELSE IF a = 0 THEN Append(plan, NewArea(s))
     ELSE IF k = 0 THEN [plan EXCEPT ![a].columns = Append(@, NewColumn(s))]
     ELSE [plan EXCEPT ![a].columns[k].rows = Append(@, s)]

\* std::sort by a member: each element goes to the place that as many come
\* before.  (Of equal ones the order is not said; here it is kept.)
Sort(seq, key) ==
  LET before(i, j) == \/ seq[i][key] < seq[j][key]
                      \/ seq[i][key] = seq[j][key] /\ i < j
      place(j) == Cardinality({i \in DOMAIN seq : before(i, j)}) + 1
  IN [n \in DOMAIN seq |-> seq[CHOOSE j \in DOMAIN seq : place(j) = n]]

Sorted(plan) ==
  LET rows(col) == [col EXCEPT !.rows = Sort(@, "r")]
      columns(a) == [a EXCEPT !.columns = Sort([k \in DOMAIN @ |-> rows(@[k])], "c")]
  IN Sort([a \in DOMAIN plan |-> columns(plan[a])], "area")

\* The three loops: the storeys, the rows of each, the columns of a row.  (Bound
\* to a variable, the plan is evaluated before the row and not in the midst.)
RowEntered(cf, q, i, plan) ==
  LET matrix == Matrix(cf)
      cell[j \in 0..cf.storeys[q].x] ==
        IF j = 0 THEN plan
        ELSE IF <<q - 1, i - 1, j - 1>> \in matrix
             THEN Enter(cell[j - 1], Storloc(cf, <<q - 1, i - 1, j - 1>>))
             ELSE cell[j - 1]
  IN cell[cf.storeys[q].x]

StoreyEntered(cf, q, plan) ==
  LET row[i \in 0..cf.storeys[q].y] ==
        IF i = 0 THEN plan
        ELSE CHOOSE after \in {RowEntered(cf, q, i, p) : p \in {row[i - 1]}} : TRUE
  IN row[cf.storeys[q].y]

ColumnsPlan(cf) ==
  LET plan[q \in 0..Len(cf.storeys)] ==
        IF q = 0 THEN <<>> ELSE StoreyEntered(cf, q, plan[q - 1])
  IN Sorted(plan[Len(cf.storeys)])

-----------------------------------------------------------------------------
(* Properties of a map                                                     *)

\* Every location has a name, and no two have the same, although names do not
\* tell the storey and three areas share the letter A00: a circle is coloured
\* by the name of a row of the hub's table, and a stack is recorded under it.
NamesUnique(cf) ==
  LET locs == Storlocs(cf)
  IN \A s \in locs : s.named /\ Painted(locs, Txt(s)) = {s}

\* The number over a column is that of its locations of the area.
LabelsRight(cf) ==
  \A k \in Labels(cf), s \in Storlocs(cf) :
    k.axis = 0 /\ k.area = s.area /\ k.place[1] = CircleAt(cf, s)[1]
      => k.number = s.c

\* No rectangle of a special location lies on a circle.
NothingHidden(cf) ==
  \A i \in DOMAIN cf.specs, s \in Storlocs(cf) :
    ~RectangleCovers(cf.specs[i], CircleAt(cf, s))

Ascends(seq, key) == \A i, j \in DOMAIN seq : i < j => seq[i][key] < seq[j][key]

\* The plan has every usable location outside area 2 once, in its column and
\* in order.
PlanComplete(cf) ==
  LET plan == ColumnsPlan(cf)
  IN /\ Ascends(plan, "area")
     /\ \A a \in ToSet(plan) :
          /\ Ascends(a.columns, "c")
          /\ \A k \in ToSet(a.columns) :
               /\ k.area = a.area
               /\ Ascends(k.rows, "r")
               /\ \A s \in ToSet(k.rows) : s.area = a.area /\ s.c = k.c
     /\ UNION {ToSet(k.rows) : k \in UNION {ToSet(a.columns) : a \in ToSet(plan)}} =
          {s \in Storlocs(cf) : Available(s) /\ s.area # 2}

Right(cf) ==
  NamesUnique(cf) /\ LabelsRight(cf) /\ NothingHidden(cf) /\ PlanComplete(cf)
=============================================================================
