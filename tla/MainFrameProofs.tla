--------------------------- MODULE MainFrameProofs ---------------------------
(***************************************************************************)
(* The window's buttons, its row and its regions are right: for every      *)
(* number of vehicles and requests, and whatever a failed request leaves.  *)
(* So is its map: the plan of columns for every map with names of its own, *)
(* and the rest for the two configurations there are.                      *)
(*                                                                         *)
(* The timer merges a whole answer (FoldLeft), so this is proved by        *)
(* induction on its length.  The library's induction takes an operator as  *)
(* a parameter, which the provers cannot be given; Induct below takes a    *)
(* set instead and follows from the least element of what is not in it.    *)
(***************************************************************************)
EXTENDS MainFrame, AgvRegistryProofs, SequenceTheorems, FiniteSetTheorems,
        WellFoundedInduction

-----------------------------------------------------------------------------
(* The inductive invariant                                                 *)

Vehicle == [addr : Addr \union {Ghost, 0}, id : Nat]

\* What is known of every variable of the window.
FrameTypes ==
  /\ info_agvs \in Seq(Vehicle)
  /\ highlighted \in 0..Len(info_agvs)
  /\ cells \in [kind : {"none", "agv", "ware"}, id : Nat,
                addr : Addr \union {Ghost, 0}, from : Addr \union {Ghost, 0}]
  /\ lost \in Nat /\ again \in BOOLEAN
  /\ hittest \in [slct : BOOLEAN, schdl : BOOLEAN]
  /\ shown \in [slct1 : BOOLEAN, slct2 : BOOLEAN, schdl : BOOLEAN, confirm : BOOLEAN]

\* Before the start there is nothing.
BeforeStart ==
  conf = 0 => /\ info_agvs = <<>> /\ highlighted = 0
              /\ head = "agv" /\ cells = NoCells

\* The row is that of the button that stands out.
RowInv ==
  head = "agv" => /\ cells.kind # "ware"
                  /\ highlighted # 0 => cells.addr = info_agvs[highlighted].addr

\* What number i is known to be the vehicle's at address a.
OwnNumber(i, a) ==
  /\ i \in 1..id_agv_max
  /\ \A ip \in Addr : agvs[ip].id = i => ip = a

\* A number that was ever given names one vehicle, in the hub, in info_agvs
\* and in the row: that is what finding the row by number rests on.
NumbersOwn ==
  ~again /\ lost = 0 =>
    /\ \A k \in 1..Len(info_agvs) : OwnNumber(info_agvs[k].id, info_agvs[k].addr)
    /\ \A j, k \in 1..Len(info_agvs) :
         info_agvs[j].id = info_agvs[k].id => info_agvs[j].addr = info_agvs[k].addr
    /\ cells.kind = "agv" =>
         /\ OwnNumber(cells.id, cells.addr)
         /\ \A k \in 1..Len(info_agvs) :
              info_agvs[k].id = cells.id => info_agvs[k].addr = cells.addr
    /\ cells.from = cells.addr

\* What btn_fsm and the two clicks leave visible.
RegionInv ==
  /\ shown.slct1 = shown.schdl /\ shown.slct2 = shown.confirm
  /\ shown.schdl => hittest.slct
  /\ shown.confirm => hittest.schdl /\ shown.schdl

FInv == FrameTypes /\ BeforeStart /\ OneEach /\ RowInv /\ NumbersOwn /\ RegionInv

-----------------------------------------------------------------------------
(* Induction and folds                                                     *)

\* A set of numbers with 0 and with the next of each of its own is all of Nat.
LEMMA Induct ==
  ASSUME NEW S \in SUBSET Nat, 0 \in S, \A n \in S : n + 1 \in S
  PROVE  S = Nat
<1> DEFINE R == {ss \in Nat \X Nat : ss[1] < ss[2]}
           T == Nat \ S
<1>1. IsWellFoundedOn(R, Nat)
  BY NatLessThanWellFounded, Zenon DEF OpToRel
<1>2. ASSUME T # {} PROVE FALSE
  <2>1. \E x \in T : \A y \in T : <<y, x>> \notin R
    <3> HIDE DEF R
    <3>1. T \subseteq Nat
      OBVIOUS
    <3> HIDE DEF T
    <3> QED BY <1>1, <1>2, <3>1, WFMin, Zenon
  <2>2. PICK x \in T : \A y \in T : <<y, x>> \notin R
    BY <2>1, Zenon
  <2>3. x \in Nat /\ x # 0 /\ x - 1 \in Nat
    OBVIOUS
  <2>4. <<x - 1, x>> \in R
    BY <2>3
  <2>5. x - 1 \in S
    BY <2>2, <2>3, <2>4
  <2> QED BY <2>3, <2>5
<1> QED BY <1>2

\* Some numbers up to n have a greatest.
LEMMA Greatest ==
  ASSUME NEW n \in Nat, NEW s \in SUBSET (1..n), s # {}
  PROVE  Max(s) \in s /\ \A y \in s : y <= Max(s)
<1> DEFINE Small == {k \in Nat : \A t \in SUBSET (1..k) :
                       t # {} => \E x \in t : \A y \in t : x >= y}
<1>1. 0 \in Small
  <2>1. 1..0 = {}
    OBVIOUS
  <2> QED BY <2>1
<1>2. ASSUME NEW k \in Small PROVE k + 1 \in Small
  <2>1. SUFFICES ASSUME NEW t \in SUBSET (1..k + 1), t # {}
                 PROVE  \E x \in t : \A y \in t : x >= y
    OBVIOUS
  <2>2. CASE k + 1 \in t
    BY <2>2
  <2>3. CASE k + 1 \notin t
    <3>1. t \in SUBSET (1..k)
      BY <2>3
    <3> QED BY <2>1, <3>1
  <2> QED BY <2>2, <2>3
<1>3. Small = Nat
  <2>1. Small \in SUBSET Nat
    OBVIOUS
  <2> HIDE DEF Small
  <2> QED BY <1>1, <1>2, <2>1, Induct
<1>4. \E x \in s : \A y \in s : x >= y
  BY <1>3
<1>5. Max(s) \in s /\ \A y \in s : Max(s) >= y
  BY <1>4, Zenon DEF Max
<1> QED BY <1>5

\* A set of which n + 1 is the greatest, and one without it.
LEMMA GreatestIs ==
  ASSUME NEW n \in Nat, NEW s \in SUBSET (1..n + 1)
  PROVE  /\ n + 1 \in s => Max(s) = n + 1 /\ s \ {Max(s)} \in SUBSET (1..n)
         /\ n + 1 \notin s => s \in SUBSET (1..n)
<1>1. CASE n + 1 \in s
  <2>1. n + 1 \in Nat /\ s # {}
    BY <1>1
  <2>2. Max(s) \in s /\ \A y \in s : y <= Max(s)
    BY <2>1, Greatest
  <2>3. Max(s) \in 1..n + 1 /\ n + 1 <= Max(s)
    BY <1>1, <2>2
  <2>4. Max(s) = n + 1
    BY <2>3
  <2> QED BY <1>1, <2>4
<1> QED BY <1>1

\* g folds F over every part of 1..N, from b.
IsFold(g, N, b, F) ==
  \A s \in SUBSET (1..N) :
    g[s] = IF s = {} THEN b ELSE F[<<g[s \ {Max(s)}], Max(s)>>]

\* There is such a g.
LEMMA FoldExists ==
  ASSUME NEW N \in Nat, NEW T, NEW b \in T, NEW F \in [T \X (1..N) -> T]
  PROVE  \E g \in [SUBSET (1..N) -> T] : IsFold(g, N, b, F)
<1> DEFINE S == {n \in Nat : n <= N => \E g \in [SUBSET (1..n) -> T] : IsFold(g, n, b, F)}
<1>1. 0 \in S
  <2> DEFINE g == [s \in SUBSET (1..0) |-> b]
  <2>1. g \in [SUBSET (1..0) -> T] /\ IsFold(g, 0, b, F)
    BY DEF IsFold
  <2> QED BY <2>1
<1>2. ASSUME NEW n \in S PROVE n + 1 \in S
  <2>1. SUFFICES ASSUME n + 1 <= N
                 PROVE  \E g \in [SUBSET (1..n + 1) -> T] : IsFold(g, n + 1, b, F)
    <3>1. n + 1 \in Nat
      OBVIOUS
    <3> QED BY <3>1
  <2>2. n \in Nat /\ n <= N /\ n + 1 \in 1..N
    BY <2>1
  <2>3. PICK h \in [SUBSET (1..n) -> T] : IsFold(h, n, b, F)
    BY <2>2
  <2> DEFINE g == [s \in SUBSET (1..n + 1) |->
                     IF n + 1 \in s THEN F[<<h[s \ {n + 1}], n + 1>>] ELSE h[s]]
  <2>4. ASSUME NEW s \in SUBSET (1..n + 1)
        PROVE  g[s] \in T /\ g[s] = IF s = {} THEN b ELSE F[<<g[s \ {Max(s)}], Max(s)>>]
    <3>1. CASE n + 1 \in s
      <4>1. Max(s) = n + 1 /\ s \ {n + 1} \in SUBSET (1..n) /\ n + 1 \notin s \ {n + 1}
        BY <3>1, <2>2, GreatestIs
      <4>2. s \ {n + 1} \in SUBSET (1..n + 1)
        OBVIOUS
      <4>3. h[s \ {n + 1}] \in T /\ g[s \ {n + 1}] = h[s \ {n + 1}]
        BY <4>1, <4>2
      <4> QED BY <2>2, <3>1, <4>1, <4>3
    <3>2. CASE n + 1 \notin s
      <4>1. s \in SUBSET (1..n) /\ g[s] = h[s]
        BY <3>2, <2>2, GreatestIs
      <4>2. CASE s # {}
        <5>1. s \ {Max(s)} \in SUBSET (1..n) /\ n + 1 \notin s \ {Max(s)}
          BY <4>1, <3>2
        <5>2. s \ {Max(s)} \in SUBSET (1..n + 1)
          OBVIOUS
        <5>3. g[s \ {Max(s)}] = h[s \ {Max(s)}]
          BY <5>1, <5>2
        <5> QED BY <2>3, <4>1, <4>2, <5>3 DEF IsFold
      <4>3. CASE s = {}
        BY <2>3, <4>1, <4>3 DEF IsFold
      <4> QED BY <4>2, <4>3
    <3> QED BY <3>1, <3>2
  <2> HIDE DEF g
  <2>5. g \in [SUBSET (1..n + 1) -> T]
    BY <2>4 DEF g
  <2> QED BY <2>4, <2>5 DEF IsFold
<1>3. S = Nat
  <2>1. S \in SUBSET Nat
    OBVIOUS
  <2> HIDE DEF S
  <2> QED BY <1>1, <1>2, <2>1, Induct
<1>4. N \in S /\ N <= N
  <2> HIDE DEF S
  <2> QED BY <1>3
<1> QED BY <1>4

\* Merged one after the other, the entries stay where each merge keeps them.
LEMMA FoldStays ==
  ASSUME NEW T, NEW infos \in T, NEW V, NEW temps \in Seq(V),
         \A s \in T, i \in 1..Len(temps) : Merge(s, temps[i]) \in T
  PROVE  FoldLeft(Merge, infos, temps) \in T
<1> DEFINE N == Len(temps)
           Body(iter) == [s \in SUBSET (1..N) |->
              IF s = {} THEN infos ELSE Merge(iter[s \ {Max(s)}], temps[Max(s)])]
           It == CHOOSE iter : iter = Body(iter)
           F == [p \in T \X (1..N) |-> Merge(p[1], temps[p[2]])]
<1>1. N \in Nat /\ DOMAIN temps = 1..N
  OBVIOUS
<1>2. FoldLeft(Merge, infos, temps) = It[1..N]
  BY <1>1 DEF FoldLeft, MapThenFoldSet
<1>3. F \in [T \X (1..N) -> T]
  OBVIOUS
<1>4. PICK g \in [SUBSET (1..N) -> T] : IsFold(g, N, infos, F)
  <2> HIDE DEF F, N
  <2> QED BY <1>1, <1>3, FoldExists, Zenon
<1>5. g = Body(g)
  <2>1. ASSUME NEW s \in SUBSET (1..N), s # {}
        PROVE  g[s] = Merge(g[s \ {Max(s)}], temps[Max(s)])
    <3>1. Max(s) \in 1..N
      BY <1>1, <2>1, Greatest
    <3>2. g[s \ {Max(s)}] \in T
      OBVIOUS
    <3> QED BY <1>4, <2>1, <3>1, <3>2 DEF IsFold
  <2> HIDE DEF F, N
  <2> QED BY <1>4, <2>1 DEF IsFold
<1>6. It = Body(It)
  <2> HIDE DEF Body
  <2> QED BY <1>5, Zenon
<1> DEFINE S == {n \in Nat : n <= N => It[1..n] \in T}
<1> HIDE DEF It
<1>7. 0 \in S
  BY <1>1, <1>6
<1>8. ASSUME NEW n \in S PROVE n + 1 \in S
  <2>1. SUFFICES ASSUME n + 1 <= N PROVE It[1..n + 1] \in T
    OBVIOUS
  <2>2. It[1..n] \in T /\ n + 1 \in 1..N /\ n \in Nat
    BY <1>1, <2>1
  <2>3. Max(1..n + 1) = n + 1
    BY <2>2, GreatestIs
  <2>4. (1..n + 1) \ {n + 1} = 1..n
    BY <2>2
  <2>5. 1..n + 1 \in SUBSET (1..N) /\ 1..n + 1 # {}
    BY <1>1, <2>2
  <2>6. It[1..n + 1] = Merge(It[1..n], temps[n + 1])
    <3> HIDE DEF N
    <3> QED BY <1>6, <2>3, <2>4, <2>5
  <2> QED BY <2>2, <2>6
<1>9. S = Nat
  <2>1. S \in SUBSET Nat
    OBVIOUS
  <2> HIDE DEF S
  <2> QED BY <1>7, <1>8, <2>1, Induct
<1> QED BY <1>1, <1>2, <1>9
-----------------------------------------------------------------------------
(* Places and merges                                                       *)

\* Among some natural numbers there is a least.
LEMMA Least ==
  ASSUME NEW T \in SUBSET Nat, T # {}
  PROVE  Min(T) \in T
<1> DEFINE R == {ss \in Nat \X Nat : ss[1] < ss[2]}
<1>1. IsWellFoundedOn(R, Nat)
  BY NatLessThanWellFounded, Zenon DEF OpToRel
<1>2. \E x \in T : \A y \in T : <<y, x>> \notin R
  <2> HIDE DEF R
  <2> QED BY <1>1, WFMin, Zenon
<1>3. PICK x \in T : \A y \in T : <<y, x>> \notin R
  BY <1>2, Zenon
<1>4. ASSUME NEW y \in T PROVE x <= y
  <2>1. <<y, x>> \notin R
    BY <1>3, Zenon
  <2> QED BY <2>1
<1> QED BY <1>4, Zenon DEF Min

\* The place of an address is that of an entry with it, or there is none.
LEMMA PlaceIs ==
  ASSUME NEW infos \in Seq(Vehicle), NEW agv \in Vehicle
  PROVE  /\ Place(agv, infos) \in 0..Len(infos)
         /\ Place(agv, infos) # 0 => infos[Place(agv, infos)].addr = agv.addr
         /\ Place(agv, infos) = 0 => \A k \in 1..Len(infos) : infos[k].addr # agv.addr
<1> DEFINE I == {i \in 1..Len(infos) : infos[i].addr = agv.addr}
<1>1. Place(agv, infos) = IF I # {} THEN Min(I) ELSE 0
  BY Zenon DEF Place, SelectInSeq
<1>2. I \in SUBSET Nat
  OBVIOUS
<1>3. I # {} => Min(I) \in I
  <2> HIDE DEF I
  <2> QED BY <1>2, Least
<1>4. 0 \notin I /\ Len(infos) \in Nat
  OBVIOUS
<1> QED BY <1>1, <1>3, <1>4

\* What the row shows is found by its number.
LEMMA ShownIs ==
  ASSUME NEW infos \in Seq(Vehicle)
  PROVE  /\ Shown(infos) \in 0..Len(infos)
         /\ Shown(infos) # 0 => infos[Shown(infos)].id = cells.id
<1> DEFINE I == {i \in 1..Len(infos) : infos[i].id = cells.id}
<1>1. Shown(infos) = IF I # {} THEN Min(I) ELSE 0
  BY Zenon DEF Shown, SelectInSeq
<1>2. I \in SUBSET Nat
  OBVIOUS
<1>3. I # {} => Min(I) \in I
  <2> HIDE DEF I
  <2> QED BY <1>2, Least
<1>4. Len(infos) \in Nat
  OBVIOUS
<1> QED BY <1>1, <1>3, <1>4

\* The entries with the buttons they had, no address twice, and each as it was
\* or as it was answered.
Kept(infos, temps) ==
  {s \in Seq(Vehicle) :
     /\ Len(infos) <= Len(s)
     /\ \A k \in 1..Len(infos) : s[k].addr = infos[k].addr
     /\ \A j, k \in 1..Len(s) : s[j].addr = s[k].addr => j = k
     /\ \A k \in 1..Len(s) : \/ \E i \in 1..Len(infos) : s[k] = infos[i]
                             \/ \E i \in 1..Len(temps) : s[k] = temps[i]}

LEMMA MergeKeeps ==
  ASSUME NEW infos \in Seq(Vehicle), NEW temps \in Seq(Vehicle),
         NEW s \in Kept(infos, temps), NEW i \in 1..Len(temps)
  PROVE  Merge(s, temps[i]) \in Kept(infos, temps)
<1> DEFINE agv == temps[i]
           j == Place(agv, s)
<1>1. /\ s \in Seq(Vehicle) /\ Len(s) \in Nat /\ Len(infos) \in Nat
      /\ agv \in Vehicle /\ DOMAIN s = 1..Len(s)
  BY DEF Kept
<1>2. /\ j \in 0..Len(s)
      /\ j # 0 => s[j].addr = agv.addr
      /\ j = 0 => \A k \in 1..Len(s) : s[k].addr # agv.addr
  BY <1>1, PlaceIs
<1>3. CASE j = 0
  <2>1. Merge(s, agv) = Append(s, agv)
    BY <1>3 DEF Merge
  <2>2. /\ Append(s, agv) \in Seq(Vehicle) /\ Len(Append(s, agv)) = Len(s) + 1
        /\ \A k \in 1..Len(s) : Append(s, agv)[k] = s[k]
        /\ Append(s, agv)[Len(s) + 1] = agv
    BY <1>1, AppendProperties
  <2> DEFINE u == Append(s, agv)
  <2> HIDE DEF u, agv, j
  <2>3. \A k \in 1..Len(u) : k = Len(s) + 1 \/ k \in 1..Len(s)
    BY <1>1, <2>2 DEF u
  <2>4. \A k, l \in 1..Len(u) : u[k].addr = u[l].addr => k = l
    BY <1>1, <1>2, <1>3, <2>2, <2>3 DEF u, Kept
  <2>5. \A k \in 1..Len(u) : \/ \E l \in 1..Len(infos) : u[k] = infos[l]
                             \/ \E l \in 1..Len(temps) : u[k] = temps[l]
    <3> TAKE k \in 1..Len(u)
    <3>1. CASE k = Len(s) + 1
      BY <2>2, <3>1 DEF u, agv
    <3>2. CASE k \in 1..Len(s)
      <4>1. u[k] = s[k]
        BY <2>2, <3>2 DEF u
      <4> QED BY <3>2, <4>1 DEF Kept
    <3> QED BY <2>3, <3>1, <3>2
  <2>6. Len(infos) <= Len(u) /\ \A k \in 1..Len(infos) : u[k].addr = infos[k].addr
    BY <1>1, <2>2 DEF u, Kept
  <2>7. u \in Kept(infos, temps)
    BY <2>2, <2>4, <2>5, <2>6 DEF Kept, u
  <2> QED BY <2>1, <2>7 DEF u, agv
<1>4. CASE j # 0
  <2>1. Merge(s, agv) = [s EXCEPT ![j] = agv]
    BY <1>4 DEF Merge
  <2> DEFINE u == [s EXCEPT ![j] = agv]
  <2>2. /\ u \in Seq(Vehicle) /\ Len(u) = Len(s)
        /\ \A k \in 1..Len(s) : u[k] = IF k = j THEN agv ELSE s[k]
    BY <1>1, <1>2, <1>4, ExceptSeq
  <2> HIDE DEF u, agv, j
  <2>3. \A k \in 1..Len(s) : u[k].addr = s[k].addr
    BY <1>2, <1>4, <2>2
  <2>4. \A k \in 1..Len(u) : \/ \E l \in 1..Len(infos) : u[k] = infos[l]
                             \/ \E l \in 1..Len(temps) : u[k] = temps[l]
    BY <2>2 DEF Kept, agv
  <2>5. /\ Len(infos) <= Len(u) /\ \A k \in 1..Len(infos) : u[k].addr = infos[k].addr
        /\ \A k, l \in 1..Len(u) : u[k].addr = u[l].addr => k = l
    BY <1>1, <2>2, <2>3 DEF Kept
  <2>6. u \in Kept(infos, temps)
    BY <2>2, <2>4, <2>5 DEF Kept
  <2> QED BY <2>1, <2>6 DEF u, agv, j
<1> QED BY <1>3, <1>4

\* The merge of a whole answer, by induction on its length.
LEMMA MergesKeep ==
  ASSUME NEW infos \in Seq(Vehicle), NEW temps \in Seq(Vehicle),
         \A j, k \in 1..Len(infos) : infos[j].addr = infos[k].addr => j = k
  PROVE  FoldLeft(Merge, infos, temps) \in Kept(infos, temps)
<1>1. infos \in Kept(infos, temps)
  BY DEF Kept
<1>2. \A s \in Kept(infos, temps), i \in 1..Len(temps) :
        Merge(s, temps[i]) \in Kept(infos, temps)
  BY MergeKeeps
<1> QED BY <1>1, <1>2, FoldStays

-----------------------------------------------------------------------------
(* Answers                                                                 *)

LEMMA AnswerIs ==
  ASSUME RInv, NEW temps \in Answers
  PROVE  /\ temps \in Seq(Vehicle)
         /\ \A i \in 1..Len(temps) :
              /\ temps[i].addr \in Addr /\ Known(temps[i].addr)
              /\ temps[i].id = agvs[temps[i].addr].id
         /\ \A i, j \in 1..Len(temps) : temps[i].addr = temps[j].addr => i = j
<1> DEFINE Here == {ip \in Addr : Known(ip)}
           S == {[addr |-> ip, id |-> agvs[ip].id] : ip \in Here}
<1>1. IsFiniteSet(Here)
  BY FrameAssumption, FS_Subset
<1>2. IsFiniteSet(S) /\ Cardinality(S) \in Nat
  <2> DEFINE f == [ip \in Here |-> [addr |-> ip, id |-> agvs[ip].id]]
  <2>1. f \in Surjection(Here, S)
    BY DEF Surjection
  <2> HIDE DEF f, S, Here
  <2>2. IsFiniteSet(S)
    BY <1>1, <2>1, FS_Surjection, Zenon
  <2> QED BY <2>2, FS_CardinalityType
<1> DEFINE D == 1..Cardinality(S)
<1>3. temps \in [D -> S] /\ \A i, j \in D : i # j => temps[i] # temps[j]
  BY DEF Answers, SetToSeqs
<1>4. \A ip \in Here : agvs[ip].id \in Nat
  BY DEF RInv, RegistryTypeOK, Agv
<1>5. \A v \in S : /\ v \in Vehicle /\ v.addr \in Addr /\ Known(v.addr)
                   /\ v.id = agvs[v.addr].id
                   /\ \A w \in S : v.addr = w.addr => v = w
  BY <1>4 DEF Vehicle
<1> HIDE DEF S
<1>6. temps \in Seq(Vehicle) /\ Len(temps) = Cardinality(S)
  <2>1. temps \in [D -> Vehicle]
    BY <1>3, <1>5
  <2> QED BY <1>2, <2>1
<1> QED BY <1>3, <1>5, <1>6

LEMMA GarbageIs ==
  ASSUME id_agv_max \in Nat, NEW temps \in Garbage
  PROVE  temps \in Seq(Vehicle)
<1> DEFINE entries == [addr : Addr \union {Ghost, 0}, id : {0, id_agv_max}]
<1>1. PICK g \in entries \X entries :
        temps = SubSeq(g, 1, Cardinality({i \in 1..2 : g[i].addr # 0}))
  BY DEF Garbage
<1> DEFINE I == {i \in 1..2 : g[i].addr # 0}
<1>2. Cardinality(I) \in 0..2
  <2>1. 1 \in Int /\ 2 \in Int /\ I \in SUBSET (1..2)
    OBVIOUS
  <2> HIDE DEF I
  <2>2. IsFiniteSet(1..2) /\ Cardinality(1..2) = IF 1 > 2 THEN 0 ELSE 2 - 1 + 1
    BY <2>1, FS_Interval, Zenon
  <2>3. IsFiniteSet(I) /\ Cardinality(I) <= Cardinality(1..2)
    BY <2>1, <2>2, FS_Subset, Zenon
  <2>4. Cardinality(I) \in Nat
    BY <2>3, FS_CardinalityType
  <2> QED BY <2>2, <2>3, <2>4
<1> HIDE DEF I
<1>3. \A i \in 1..2 : g[i] \in Vehicle
  <2>1. g[1] \in entries /\ g[2] \in entries
    BY <1>1
  <2>2. entries \subseteq Vehicle
    BY DEF Vehicle
  <2>3. \A i \in 1..2 : i = 1 \/ i = 2
    OBVIOUS
  <2> QED BY <2>1, <2>2, <2>3
<1>4. ASSUME NEW n \in 0..2 PROVE SubSeq(g, 1, n) \in Seq(Vehicle)
  <2>1. \A i \in 1..n : g[i] \in Vehicle
    BY <1>3
  <2>2. 1 \in Int /\ n \in Int
    OBVIOUS
  <2> QED BY <2>1, <2>2, SubSeqProperties, Zenon
<1> QED BY <1>1, <1>2, <1>4 DEF I

-----------------------------------------------------------------------------
(* Steps                                                                   *)

LEMMA FrameStarts == Init => FInv
<1> SUFFICES ASSUME Init PROVE FInv
  OBVIOUS
<1> USE DEF Init
<1>1. info_agvs \in Seq(Vehicle) /\ Len(info_agvs) = 0
  OBVIOUS
<1>2. FrameTypes /\ BeforeStart /\ RowInv
  <2>1. /\ hittest \in [slct : BOOLEAN, schdl : BOOLEAN]
        /\ shown \in [slct1 : BOOLEAN, slct2 : BOOLEAN, schdl : BOOLEAN, confirm : BOOLEAN]
    BY DEF Hidden
  <2>2. cells \in [kind : {"none", "agv", "ware"}, id : Nat,
                   addr : Addr \union {Ghost, 0}, from : Addr \union {Ghost, 0}]
    BY DEF NoCells
  <2>3. BeforeStart /\ RowInv
    BY DEF BeforeStart, RowInv, NoCells
  <2>4. highlighted \in 0..Len(info_agvs) /\ lost \in Nat
    BY <1>1
  <2>5. again \in BOOLEAN
    BY Zenon
  <2> QED BY <1>1, <2>1, <2>2, <2>3, <2>4, <2>5, Zenon DEF FrameTypes
<1>3. OneEach /\ RegionInv
  BY DEF OneEach, RegionInv, Hidden
<1>4. NumbersOwn
  BY <1>1 DEF NumbersOwn, NoCells
<1> QED BY <1>2, <1>3, <1>4 DEF FInv

\* What the hub does to its numbers: they stay, or there is a new one.
LEMMA HubKeeps ==
  ASSUME FInv, RInv, RInv',
         UNCHANGED <<conf, info_agvs, panel, regions, lost>>,
         again' \in BOOLEAN, ~again' => ~again /\ id_agv_max' >= id_agv_max,
         \A ip \in Addr : \/ agvs'[ip].id = agvs[ip].id
                          \/ agvs'[ip].id = 0
                          \/ agvs'[ip].id = id_agv_max + 1
  PROVE  FInv'
<1>1. FrameTypes' /\ BeforeStart' /\ OneEach' /\ RowInv' /\ RegionInv'
  BY DEF FInv, FrameTypes, BeforeStart, OneEach, RowInv, RegionInv, panel, regions
<1>2. ASSUME ~again', lost' = 0, NEW i, NEW a, OwnNumber(i, a) PROVE OwnNumber(i, a)'
  <2>1. id_agv_max \in Nat /\ id_agv_max' \in Nat
    BY DEF RInv, RegistryTypeOK
  <2> QED BY <1>2, <2>1 DEF OwnNumber
<1>3. NumbersOwn'
  <2>1. SUFFICES ASSUME ~again', lost' = 0 PROVE NumbersOwn!2'
    BY DEF NumbersOwn
  <2>2. ~again /\ lost = 0
    BY <2>1
  <2> QED BY <1>2, <2>1, <2>2 DEF FInv, NumbersOwn, panel
<1> QED BY <1>1, <1>3 DEF FInv

LEMMA HubHearsKeeps == ASSUME FInv, RInv, RInv', HubHears PROVE FInv'
<1>1. PICK ip \in Addr : RegAgv(ip, 1)
  BY DEF HubHears
<1>2. /\ id_agv_max' >= id_agv_max
      /\ \A jp \in Addr : \/ agvs'[jp].id = agvs[jp].id
                          \/ agvs'[jp].id = 0
                          \/ agvs'[jp].id = id_agv_max + 1
  <2>1. agvs \in [Addr -> Agv] /\ id_agv_max \in Nat
    BY DEF RInv, RegistryTypeOK
  <2>2. CASE UNCHANGED regVars
    BY <2>1, <2>2 DEF regVars
  <2>3. CASE agvs' = [agvs EXCEPT ![ip].storey = 1] /\ UNCHANGED id_agv_max
    BY <2>1, <2>3 DEF Agv
  <2>4. CASE /\ id_agv_max' = id_agv_max + 1
             /\ agvs' = [agvs EXCEPT ![ip] = [id |-> id_agv_max + 1, storey |-> 1]]
    BY <2>1, <2>4
  <2> QED BY <1>1, <2>2, <2>3, <2>4 DEF RegAgv
<1>3. /\ UNCHANGED <<conf, info_agvs, panel, regions, lost>>
      /\ again' \in BOOLEAN /\ again' = again
  BY DEF HubHears, FInv, FrameTypes
<1> QED BY <1>2, <1>3, HubKeeps

LEMMA HubRestartsKeeps == ASSUME FInv, RInv, RInv', HubRestarts PROVE FInv'
<1>1. \A ip \in Addr : \/ agvs'[ip].id = agvs[ip].id
                       \/ agvs'[ip].id = 0
                       \/ agvs'[ip].id = id_agv_max + 1
  BY DEF HubRestarts, load_agvs, RInv, RowsKnown
<1>2. id_agv_max \in Nat /\ id_agv_max' \in Nat
  BY DEF RInv, RegistryTypeOK
<1>3. again' = (again \/ id_agv_max' < id_agv_max) /\ again \in BOOLEAN
  BY DEF HubRestarts, FInv, FrameTypes
<1>4. again' \in BOOLEAN
  BY <1>3, Zenon
<1>5. ~again' => ~again /\ id_agv_max' >= id_agv_max
  <2>1. ~again' => ~again /\ ~(id_agv_max' < id_agv_max)
    BY <1>3, Zenon
  <2>2. id_agv_max' < id_agv_max \/ id_agv_max' >= id_agv_max
    BY <1>2
  <2> QED BY <2>1, <2>2, Zenon
<1>6. UNCHANGED <<conf, info_agvs, panel, regions, lost>>
  BY DEF HubRestarts
<1> QED BY <1>1, <1>4, <1>5, <1>6, HubKeeps

\* The number the hub answers for a vehicle is its own.
LEMMA AnsweredOwn ==
  ASSUME RInv, NEW temps \in Answers, NEW i \in 1..Len(temps)
  PROVE  OwnNumber(temps[i].id, temps[i].addr)
<1>1. /\ temps[i].addr \in Addr /\ Known(temps[i].addr)
      /\ temps[i].id = agvs[temps[i].addr].id
  BY AnswerIs
<1>2. agvs[temps[i].addr].id \in 1..id_agv_max
  BY <1>1 DEF Known, RInv, RegistryTypeOK, RowsKnown, Agv
<1>3. \A ip \in Addr : agvs[ip].id = temps[i].id => ip = temps[i].addr
  BY <1>1 DEF Known, RInv, IdsUnique
<1> QED BY <1>1, <1>2, <1>3 DEF OwnNumber

LEMMA StartKeeps == ASSUME FInv, RInv, NEW f \in DOMAIN Files, Start(f) PROVE FInv'
<1>1. /\ conf = 0 /\ conf' # 0 /\ info_agvs = <<>> /\ highlighted = 0
      /\ head = "agv" /\ head' = "agv" /\ cells = NoCells
      /\ UNCHANGED <<agvs, id_agv_max, hittest, again>>
  BY DEF Start, FInv, BeforeStart, regVars, Files
<1>2. /\ info_agvs' \in Seq(Vehicle) /\ lost' \in Nat
      /\ \A i, j \in 1..Len(info_agvs') : info_agvs'[i].addr = info_agvs'[j].addr => i = j
      /\ lost' = 0 => \A i \in 1..Len(info_agvs') : OwnNumber(info_agvs'[i].id, info_agvs'[i].addr)
      /\ lost' = 0 => \A i \in 1..Len(info_agvs') : info_agvs'[i].addr \in Addr
      /\ lost' = 0 => lost = 0
  <2>1. CASE info_agvs' \in Answers /\ UNCHANGED lost
    BY <2>1, AnswerIs, AnsweredOwn DEF FInv, FrameTypes
  <2>2. CASE lost < MaxLost /\ lost' = lost + 1 /\ info_agvs' = <<>>
    BY <2>2 DEF FInv, FrameTypes
  <2> QED BY <2>1, <2>2 DEF Start, query_agvs
<1>3. DOMAIN info_agvs' = 1..Len(info_agvs') /\ Len(info_agvs') \in Nat
  BY <1>2
<1>4. OneEach'
  BY <1>2, <1>3 DEF OneEach
<1>5. RegionInv' /\ hittest' \in [slct : BOOLEAN, schdl : BOOLEAN]
      /\ shown' \in [slct1 : BOOLEAN, slct2 : BOOLEAN, schdl : BOOLEAN, confirm : BOOLEAN]
  BY <1>1 DEF Start, btn_fsm, RegionInv, FInv, FrameTypes, Hidden
<1>6. CASE info_agvs' = <<>>
  <2>1. UNCHANGED <<highlighted, cells>>
    BY <1>6 DEF Start, Buttons
  <2>2. FrameTypes' /\ RowInv'
    BY <1>1, <1>2, <1>5, <1>6, <2>1 DEF FInv, FrameTypes, RowInv, NoCells
  <2>3. NumbersOwn'
    BY <1>1, <1>6, <2>1 DEF NumbersOwn, NoCells
  <2> QED BY <1>1, <1>4, <1>5, <2>2, <2>3 DEF FInv, BeforeStart
<1>7. CASE info_agvs' # <<>>
  <2>1. Len(info_agvs') >= 1 /\ info_agvs'[1] \in Vehicle
    BY <1>2, <1>7
  <2>2. highlighted' = 1 /\ cells' = Row1(info_agvs'[1])
    BY <1>3, <2>1 DEF Start, Buttons
  <2>3. FrameTypes' /\ RowInv'
    BY <1>1, <1>2, <1>5, <2>1, <2>2 DEF FInv, FrameTypes, RowInv, Row1, Vehicle
  <2>4. NumbersOwn'
    <3>1. SUFFICES ASSUME ~again', lost' = 0 PROVE NumbersOwn!2'
      BY DEF NumbersOwn
    <3>2. \A i \in 1..Len(info_agvs') : OwnNumber(info_agvs[i].id, info_agvs[i].addr)'
      BY <1>1, <1>2, <3>1 DEF OwnNumber
    <3>4. \A i, j \in 1..Len(info_agvs') :
            info_agvs'[i].id = info_agvs'[j].id => info_agvs'[i].addr = info_agvs'[j].addr
      <4> TAKE i \in 1..Len(info_agvs'), j \in 1..Len(info_agvs')
      <4>1. lost = 0 /\ info_agvs' \in Answers
        BY <1>1, <3>1, <2>1, <1>7 DEF Start, query_agvs, FInv, FrameTypes
      <4> QED BY <4>1, AnswerIs, AnsweredOwn DEF OwnNumber
    <3>5. 1 \in 1..Len(info_agvs')
      BY <1>3, <2>1
    <3> QED BY <2>2, <3>2, <3>4, <3>5 DEF Row1, OwnNumber
  <2> QED BY <1>1, <1>4, <1>5, <2>3, <2>4 DEF FInv, BeforeStart
<1> QED BY <1>6, <1>7

\* The timer: the buttons stay where they are, and the row finds its own.
LEMMA RefreshKeeps ==
  ASSUME FInv, NEW temps \in Seq(Vehicle), Refresh(temps), lost' \in Nat,
         lost' = 0 => lost = 0,
         lost' = 0 => /\ \A i \in 1..Len(temps) : OwnNumber(temps[i].id, temps[i].addr)
                      /\ \A i \in 1..Len(temps) : temps[i].addr \in Addr
                                               /\ temps[i].id = agvs[temps[i].addr].id
  PROVE  FInv'
<1>1. /\ info_agvs \in Seq(Vehicle) /\ Len(info_agvs) \in Nat /\ highlighted \in 0..Len(info_agvs)
      /\ DOMAIN info_agvs = 1..Len(info_agvs)
  BY DEF FInv, FrameTypes
<1>2. info_agvs' \in Kept(info_agvs, temps)
  <2>1. info_agvs' = FoldLeft(Merge, info_agvs, temps)
    BY DEF Refresh
  <2>2. \A j, k \in 1..Len(info_agvs) : info_agvs[j].addr = info_agvs[k].addr => j = k
    BY <1>1 DEF FInv, OneEach
  <2> QED BY <1>1, <2>1, <2>2, MergesKeep
<1>3. /\ info_agvs' \in Seq(Vehicle) /\ Len(info_agvs') \in Nat
      /\ DOMAIN info_agvs' = 1..Len(info_agvs')
      /\ Len(info_agvs) <= Len(info_agvs')
      /\ \A k \in 1..Len(info_agvs) : info_agvs'[k].addr = info_agvs[k].addr
      /\ \A j, k \in 1..Len(info_agvs') : info_agvs'[j].addr = info_agvs'[k].addr => j = k
      /\ \A k \in 1..Len(info_agvs') : \/ \E i \in 1..Len(info_agvs) : info_agvs'[k] = info_agvs[i]
                                       \/ \E i \in 1..Len(temps) : info_agvs'[k] = temps[i]
  BY <1>2 DEF Kept
<1> DEFINE i == Shown(info_agvs')
<1>4. /\ i \in 0..Len(info_agvs')
      /\ i # 0 => info_agvs'[i].id = cells.id
  BY <1>3, ShownIs
<1>5. cells' = IF head = "agv" /\ cells.kind = "agv" /\ i # 0
               THEN [cells EXCEPT !.from = info_agvs'[i].addr] ELSE cells
  BY DEF Refresh
<1> HIDE DEF i
<1>6. /\ conf # 0 /\ conf' = conf
      /\ UNCHANGED <<agvs, id_agv_max, highlighted, head, hittest, shown, again>>
  BY DEF Refresh, regVars, regions
<1>7. /\ cells \in [kind : {"none", "agv", "ware"}, id : Nat,
                   addr : Addr \union {Ghost, 0}, from : Addr \union {Ghost, 0}]
      /\ again \in BOOLEAN
  BY DEF FInv, FrameTypes
<1>8. /\ cells' \in [kind : {"none", "agv", "ware"}, id : Nat,
                    addr : Addr \union {Ghost, 0}, from : Addr \union {Ghost, 0}]
      /\ cells'.kind = cells.kind /\ cells'.id = cells.id /\ cells'.addr = cells.addr
      /\ \/ cells'.from = cells.from
         \/ cells.kind = "agv" /\ i # 0 /\ cells'.from = info_agvs'[i].addr
  <2>1. i # 0 => info_agvs'[i].addr \in Addr \union {Ghost, 0}
    <3>1. i # 0 => info_agvs'[i] \in Vehicle
      BY <1>3, <1>4
    <3> QED BY <3>1 DEF Vehicle
  <2> QED BY <1>5, <1>7, <2>1
<1>9. FrameTypes'
  BY <1>1, <1>3, <1>6, <1>8 DEF FInv, FrameTypes
<1>10. BeforeStart' /\ OneEach' /\ RegionInv'
  BY <1>3, <1>6 DEF FInv, BeforeStart, OneEach, RegionInv
<1>11. RowInv'
  BY <1>1, <1>3, <1>6, <1>8 DEF FInv, RowInv
<1>12. NumbersOwn'
  <2>1. SUFFICES ASSUME ~again', lost' = 0 PROVE NumbersOwn!2'
    BY DEF NumbersOwn
  <2>2. ~again /\ lost = 0
    BY <1>6, <2>1
  <2>3. /\ \A k \in 1..Len(info_agvs) : OwnNumber(info_agvs[k].id, info_agvs[k].addr)
        /\ \A j, k \in 1..Len(info_agvs) :
             info_agvs[j].id = info_agvs[k].id => info_agvs[j].addr = info_agvs[k].addr
        /\ cells.kind = "agv" =>
             /\ OwnNumber(cells.id, cells.addr)
             /\ \A k \in 1..Len(info_agvs) :
                  info_agvs[k].id = cells.id => info_agvs[k].addr = cells.addr
        /\ cells.from = cells.addr
    BY <2>2 DEF FInv, NumbersOwn
  <2>4. \A k \in 1..Len(info_agvs') :
          OwnNumber((info_agvs')[k].id, (info_agvs')[k].addr)
    BY <1>3, <2>1, <2>3
  <2>5. ASSUME NEW u \in Vehicle, OwnNumber(u.id, u.addr), NEW t \in 1..Len(temps),
               u.id = temps[t].id
        PROVE  u.addr = temps[t].addr
    BY <2>1, <2>5 DEF OwnNumber
  <2>6. \A j, k \in 1..Len(info_agvs') :
          info_agvs'[j].id = info_agvs'[k].id => info_agvs'[j].addr = info_agvs'[k].addr
    <3> SUFFICES ASSUME NEW j \in 1..Len(info_agvs'), NEW k \in 1..Len(info_agvs'),
                        info_agvs'[j].id = info_agvs'[k].id
                 PROVE  info_agvs'[j].addr = info_agvs'[k].addr
      OBVIOUS
    <3> DEFINE u == info_agvs'[j]
               w == info_agvs'[k]
    <3>1. u \in Vehicle /\ w \in Vehicle /\ OwnNumber(u.id, u.addr) /\ OwnNumber(w.id, w.addr)
      BY <1>3, <2>4
    <3>2. CASE \E t \in 1..Len(temps) : w = temps[t]
      BY <2>5, <3>1, <3>2
    <3>3. CASE \E t \in 1..Len(temps) : u = temps[t]
      BY <2>5, <3>1, <3>3
    <3>4. CASE /\ \E a \in 1..Len(info_agvs) : u = info_agvs[a]
               /\ \E a \in 1..Len(info_agvs) : w = info_agvs[a]
      BY <2>3, <3>4
    <3> QED BY <1>3, <3>2, <3>3, <3>4
  <2>7. cells.kind = "agv" =>
          \A k \in 1..Len(info_agvs') :
            info_agvs'[k].id = cells.id => info_agvs'[k].addr = cells.addr
    <3> SUFFICES ASSUME cells.kind = "agv", NEW k \in 1..Len(info_agvs'),
                        info_agvs'[k].id = cells.id
                 PROVE  info_agvs'[k].addr = cells.addr
      OBVIOUS
    <3>1. CASE \E t \in 1..Len(temps) : info_agvs'[k] = temps[t]
      BY <2>1, <2>3, <3>1 DEF OwnNumber
    <3>2. CASE \E a \in 1..Len(info_agvs) : info_agvs'[k] = info_agvs[a]
      BY <2>3, <3>2
    <3> QED BY <1>3, <3>1, <3>2
  <2>8. cells'.from = cells'.addr
    <3>1. i # 0 /\ cells.kind = "agv" => info_agvs'[i].addr = cells.addr
      BY <1>4, <2>7
    <3> QED BY <1>8, <2>3, <3>1
  <2>9. \A k \in 1..Len(info_agvs') : OwnNumber(info_agvs[k].id, info_agvs[k].addr)'
    BY <1>6, <2>4 DEF OwnNumber
  <2>10. cells'.kind = "agv" => OwnNumber(cells.id, cells.addr)'
    BY <1>6, <1>8, <2>3 DEF OwnNumber
  <2> QED BY <1>8, <2>6, <2>7, <2>8, <2>9, <2>10
<1> QED BY <1>9, <1>10, <1>11, <1>12 DEF FInv

LEMMA FreshAnsweredKeeps == ASSUME FInv, RInv, FreshAnswered PROVE FInv'
<1>1. PICK temps \in Answers : Refresh(temps)
  BY DEF FreshAnswered
<1>2. /\ temps \in Seq(Vehicle)
      /\ \A i \in 1..Len(temps) : OwnNumber(temps[i].id, temps[i].addr)
      /\ \A i \in 1..Len(temps) : temps[i].addr \in Addr
                               /\ temps[i].id = agvs[temps[i].addr].id
  BY AnswerIs, AnsweredOwn
<1>3. lost' = lost /\ lost \in Nat
  BY DEF FreshAnswered, FInv, FrameTypes
<1> QED BY <1>1, <1>2, <1>3, RefreshKeeps

LEMMA FreshLostKeeps == ASSUME FInv, RInv, FreshLost PROVE FInv'
<1>1. PICK temps \in Garbage : Refresh(temps)
  BY DEF FreshLost
<1>2. temps \in Seq(Vehicle)
  BY GarbageIs DEF RInv, RegistryTypeOK
<1>3. lost' \in Nat /\ lost' # 0
  BY DEF FreshLost, FInv, FrameTypes
<1> QED BY <1>1, <1>2, <1>3, RefreshKeeps

LEMMA ColorButtonKeeps ==
  ASSUME FInv, NEW k \in Buttons(info_agvs), ColorButtonClick(k) PROVE FInv'
<1>1. /\ conf # 0 /\ highlighted' = k /\ head' = "agv" /\ cells' = Row1(info_agvs[k])
      /\ UNCHANGED <<agvs, id_agv_max, conf, info_agvs, hittest, shown, lost, again>>
  BY DEF ColorButtonClick, regVars, regions
<1>2. /\ info_agvs \in Seq(Vehicle) /\ Len(info_agvs) \in Nat
      /\ k \in 1..Len(info_agvs) /\ info_agvs[k] \in Vehicle
  BY DEF FInv, FrameTypes, Buttons
<1>3. FrameTypes'
  <2>1. cells' \in [kind : {"none", "agv", "ware"}, id : Nat,
                    addr : Addr \union {Ghost, 0}, from : Addr \union {Ghost, 0}]
    BY <1>1, <1>2 DEF Row1, Vehicle
  <2> QED BY <1>1, <1>2, <2>1 DEF FInv, FrameTypes
<1>4. BeforeStart' /\ OneEach' /\ RowInv' /\ RegionInv'
  BY <1>1 DEF FInv, BeforeStart, OneEach, RowInv, RegionInv, Row1
<1>5. NumbersOwn'
  BY <1>1, <1>2 DEF FInv, NumbersOwn, OwnNumber, Row1
<1> QED BY <1>3, <1>4, <1>5 DEF FInv

LEMMA CircleKeeps == ASSUME FInv, CircleClick PROVE FInv'
<1>1. /\ conf # 0 /\ head' = "ware" /\ cells' = [NoCells EXCEPT !.kind = "ware"]
      /\ UNCHANGED <<agvs, id_agv_max, conf, info_agvs, highlighted, hittest, shown,
                     lost, again>>
  BY DEF CircleClick, regVars, regions
<1>2. FrameTypes'
  BY <1>1 DEF FInv, FrameTypes, NoCells
<1>3. BeforeStart' /\ OneEach' /\ RowInv' /\ RegionInv'
  BY <1>1 DEF FInv, BeforeStart, OneEach, RowInv, RegionInv
<1>4. NumbersOwn'
  BY <1>1 DEF FInv, NumbersOwn, OwnNumber, NoCells
<1> QED BY <1>2, <1>3, <1>4 DEF FInv

\* The two buttons of the regions.
LEMMA RegionsKeep ==
  ASSUME FInv, conf # 0,
         UNCHANGED <<regVars, conf, info_agvs, highlighted, cells, lost, again>>,
         head' = head \/ head' \in {"slct", "schdl"}, RegionInv',
         hittest' \in [slct : BOOLEAN, schdl : BOOLEAN],
         shown' \in [slct1 : BOOLEAN, slct2 : BOOLEAN, schdl : BOOLEAN, confirm : BOOLEAN]
  PROVE  FInv'
<1>1. FrameTypes' /\ BeforeStart' /\ OneEach' /\ RowInv'
  BY DEF FInv, FrameTypes, BeforeStart, OneEach, RowInv
<1>2. NumbersOwn'
  BY DEF FInv, NumbersOwn, OwnNumber, regVars
<1> QED BY <1>1, <1>2 DEF FInv

LEMMA SlctKeeps == ASSUME FInv, SlctClick PROVE FInv'
<1>1. /\ hittest \in [slct : BOOLEAN, schdl : BOOLEAN]
      /\ shown \in [slct1 : BOOLEAN, slct2 : BOOLEAN, schdl : BOOLEAN, confirm : BOOLEAN]
      /\ RegionInv
  BY DEF FInv, FrameTypes
<1>2. hittest' = [hittest EXCEPT !.slct = ~@]
  BY DEF SlctClick
<1>3. hittest' \in [slct : BOOLEAN, schdl : BOOLEAN]
  BY <1>1, <1>2
<1>4. CASE hittest'.slct
  <2>1. shown' = [shown EXCEPT !.slct1 = TRUE, !.schdl = TRUE] /\ head' = "slct"
    BY <1>4 DEF SlctClick, add_slct_title
  <2>2. shown' \in [slct1 : BOOLEAN, slct2 : BOOLEAN, schdl : BOOLEAN, confirm : BOOLEAN]
    BY <1>1, <2>1
  <2>3. RegionInv'
    BY <1>1, <1>2, <1>4, <2>1 DEF RegionInv
  <2> QED BY <1>3, <2>1, <2>2, <2>3, RegionsKeep DEF SlctClick
<1>5. CASE ~hittest'.slct
  <2>1. shown' = Hidden /\ head' = head
    BY <1>5 DEF SlctClick
  <2>2. /\ RegionInv'
        /\ shown' \in [slct1 : BOOLEAN, slct2 : BOOLEAN, schdl : BOOLEAN, confirm : BOOLEAN]
    BY <2>1 DEF RegionInv, Hidden
  <2> QED BY <1>3, <2>1, <2>2, RegionsKeep DEF SlctClick
<1> QED BY <1>4, <1>5

LEMMA SchdlKeeps == ASSUME FInv, SchdlClick PROVE FInv'
<1>1. /\ hittest \in [slct : BOOLEAN, schdl : BOOLEAN]
      /\ shown \in [slct1 : BOOLEAN, slct2 : BOOLEAN, schdl : BOOLEAN, confirm : BOOLEAN]
      /\ RegionInv
  BY DEF FInv, FrameTypes
<1>2. /\ hittest' = [hittest EXCEPT !.schdl = ~@] /\ shown.schdl
      /\ shown' = [shown EXCEPT !.slct2 = hittest'.schdl, !.confirm = hittest'.schdl]
      /\ head' = head \/ head' = "schdl"
  BY DEF SchdlClick, add_schdl_title
<1>3. hittest' \in [slct : BOOLEAN, schdl : BOOLEAN]
  BY <1>1, <1>2
<1>4. shown' \in [slct1 : BOOLEAN, slct2 : BOOLEAN, schdl : BOOLEAN, confirm : BOOLEAN]
  BY <1>1, <1>2, <1>3
<1>5. RegionInv'
  BY <1>1, <1>2 DEF RegionInv
<1> QED BY <1>2, <1>3, <1>4, <1>5, RegionsKeep DEF SchdlClick

LEMMA HubActs ==
  ASSUME Next
  PROVE  UNCHANGED regVars \/ load_agvs \/ \E ip \in Addr : RegAgv(ip, 1)
  BY DEF Next, HubHears, HubRestarts, Start, FreshAnswered, FreshLost, Refresh,
         ColorButtonClick, CircleClick, SlctClick, SchdlClick

\* Of the hub, a step is one of its registry.
LEMMA RegistryOnly == ASSUME [Next]_vars PROVE [RegistryNext]_regVars
<1>1. CASE UNCHANGED vars
  BY <1>1 DEF vars
<1>2. CASE Next
  <2>1. 1 \in 1..2
    OBVIOUS
  <2> QED BY <1>2, <2>1, HubActs DEF RegistryNext
<1> QED BY <1>1, <1>2

LEMMA HubStep == ASSUME RInv, [Next]_vars PROVE RInv'
BY RegistryOnly, RegistryStep

LEMMA FrameStep == ASSUME FInv, RInv, RInv', [Next]_vars PROVE FInv'
<1>1. CASE UNCHANGED vars
  BY <1>1 DEF vars, panel, regions, regVars, FInv, FrameTypes, BeforeStart,
              OneEach, RowInv, NumbersOwn, OwnNumber, RegionInv
<1>2. CASE Next
  <2>1. CASE HubHears BY <2>1, HubHearsKeeps
  <2>2. CASE HubRestarts BY <2>2, HubRestartsKeeps
  <2>3. CASE \E f \in DOMAIN Files : Start(f) BY <2>3, StartKeeps
  <2>4. CASE FreshAnswered BY <2>4, FreshAnsweredKeeps
  <2>5. CASE FreshLost BY <2>5, FreshLostKeeps
  <2>6. CASE \E k \in Buttons(info_agvs) : ColorButtonClick(k) BY <2>6, ColorButtonKeeps
  <2>7. CASE CircleClick BY <2>7, CircleKeeps
  <2>8. CASE SlctClick BY <2>8, SlctKeeps
  <2>9. CASE SchdlClick BY <2>9, SchdlKeeps
  <2> QED BY <1>2, <2>1, <2>2, <2>3, <2>4, <2>5, <2>6, <2>7, <2>8, <2>9 DEF Next
<1> QED BY <1>1, <1>2

\* The invariant of the window, together with that of the hub's numbers, from
\* which the window is answered (compones.cpp 678005, MainForm.cpp).
THEOREM FrameInvariant == Spec => [](FInv /\ RInv)
<1>1. Init => FInv /\ RInv
  BY FrameStarts, RegistryInits DEF Init
<1>2. FInv /\ RInv /\ [Next]_vars => (FInv /\ RInv)'
  BY HubStep, FrameStep
<1> QED BY <1>1, <1>2, PTL DEF Spec

\* No vehicle has two buttons, for any number of vehicles and whatever failed
\* requests left in memory, and a schedule is confirmed with both regions only
\* (http_conn.cpp timer_fresh_agvTimer; MainForm.cpp btn_fsm, the corner buttons).
THEOREM WindowButtons == Spec => []ButtonsRight
<1>1. FInv => ButtonsRight
  BY DEF FInv, RegionInv, ButtonsRight, ConfirmNeedsBoth
<1> QED BY <1>1, FrameInvariant, PTL

\* The row is that of the button that stands out and, while the hub gave no
\* number twice and no request failed, shows that vehicle's battery and task,
\* although the timer finds it by number and merges by address.
THEOREM RowOwn == Spec => []GridOwn
<1>1. FInv => GridOwn
  BY DEF FInv, RowInv, NumbersOwn, GridOwn
<1> QED BY <1>1, FrameInvariant, PTL

-----------------------------------------------------------------------------
(* Sorting and walking the map                                             *)

\* Sorted by a member that no two elements share, a sequence has the elements
\* it had, in ascending order.
LEMMA SortIs ==
  ASSUME NEW X, NEW seq \in Seq(X), NEW key,
         \A i \in 1..Len(seq) : seq[i][key] \in Int,
         \A i, j \in 1..Len(seq) : seq[i][key] = seq[j][key] => i = j
  PROVE  /\ Sort(seq, key) \in Seq(X) /\ Len(Sort(seq, key)) = Len(seq)
         /\ Ascends(Sort(seq, key), key)
         /\ ToSet(Sort(seq, key)) = ToSet(seq)
<1> DEFINE N == Len(seq)
           Below(j) == {i \in 1..N : seq[i][key] < seq[j][key]}
           f == [j \in 1..N |-> Cardinality(Below(j)) + 1]
           at(n) == CHOOSE j \in 1..N : f[j] = n
<1>1. /\ N \in Nat /\ DOMAIN seq = 1..N /\ \A j \in 1..N : seq[j] \in X
      /\ IsFiniteSet(1..N) /\ Cardinality(1..N) = N
  <2>1. N \in Nat /\ DOMAIN seq = 1..N /\ \A j \in 1..N : seq[j] \in X
    OBVIOUS
  <2> HIDE DEF N
  <2>2. 1 \in Int /\ N \in Int
    BY <2>1
  <2>3. IsFiniteSet(1..N) /\ Cardinality(1..N) = IF 1 > N THEN 0 ELSE N - 1 + 1
    BY <2>2, FS_Interval, Zenon
  <2> QED BY <2>1, <2>3
<1>2. ASSUME NEW j \in 1..N
      PROVE  /\ IsFiniteSet(Below(j)) /\ Cardinality(Below(j)) \in 0..N - 1
  <2>1. Below(j) \in SUBSET ((1..N) \ {j}) /\ Below(j) \in SUBSET (1..N)
    OBVIOUS
  <2>2. IsFiniteSet((1..N) \ {j}) /\ Cardinality((1..N) \ {j}) = N - 1
    <3> HIDE DEF N
    <3> QED BY <1>1, FS_RemoveElement
  <2> HIDE DEF Below, N
  <2>3. IsFiniteSet(Below(j)) /\ Cardinality(Below(j)) <= N - 1
    BY <2>1, <2>2, FS_Subset
  <2> QED BY <1>1, <2>3, FS_CardinalityType
<1>3. ASSUME NEW i \in 1..N, NEW j \in 1..N, seq[i][key] < seq[j][key]
      PROVE  f[i] < f[j]
  <2>1. Below(i) \in SUBSET Below(j) /\ Below(i) # Below(j)
    <3>1. \A k \in 1..N : seq[k][key] < seq[i][key] => seq[k][key] < seq[j][key]
      BY <1>3
    <3>2. i \in Below(j) /\ i \notin Below(i)
      BY <1>3
    <3> QED BY <3>1, <3>2
  <2>2. IsFiniteSet(Below(j)) /\ Cardinality(Below(j)) \in Int /\ Cardinality(Below(i)) \in Int
    <3> HIDE DEF Below, N
    <3> QED BY <1>2
  <2>3. /\ Cardinality(Below(i)) <= Cardinality(Below(j))
        /\ Cardinality(Below(i)) # Cardinality(Below(j))
    <3> HIDE DEF Below, N
    <3> QED BY <2>1, <2>2, FS_Subset
  <2>4. f[i] = Cardinality(Below(i)) + 1 /\ f[j] = Cardinality(Below(j)) + 1
    OBVIOUS
  <2> HIDE DEF Below, f
  <2> QED BY <2>2, <2>3, <2>4
<1>4. f \in [1..N -> 1..N]
  <2>1. ASSUME NEW j \in 1..N PROVE Cardinality(Below(j)) + 1 \in 1..N
    <3> HIDE DEF Below, N
    <3> QED BY <1>1, <1>2
  <2> HIDE DEF Below, N
  <2> QED BY <2>1
<1>5. \A i, j \in 1..N : f[i] = f[j] => i = j
  <2> SUFFICES ASSUME NEW i \in 1..N, NEW j \in 1..N, f[i] = f[j], i # j PROVE FALSE
    OBVIOUS
  <2>1. seq[i][key] < seq[j][key] \/ seq[j][key] < seq[i][key]
    OBVIOUS
  <2> HIDE DEF f
  <2>2. f[i] \in Int /\ f[j] \in Int
    BY <1>1, <1>4
  <2> QED BY <1>3, <2>1, <2>2
<1>6. \A n \in 1..N : at(n) \in 1..N /\ f[at(n)] = n
  <2> HIDE DEF f, N
  <2>1. f \in Injection(1..N, 1..N)
    BY <1>4, <1>5 DEF Injection, IsInjective
  <2>2. f \in Surjection(1..N, 1..N)
    BY <1>1, <2>1, FS_Injection
  <2>3. \A n \in 1..N : \E j \in 1..N : f[j] = n
    BY <2>2 DEF Surjection
  <2> QED BY <2>3
<1> DEFINE before(i, j) == \/ seq[i][key] < seq[j][key]
                           \/ seq[i][key] = seq[j][key] /\ i < j
           place(j) == Cardinality({i \in DOMAIN seq : before(i, j)}) + 1
<1>7. \A i, j \in 1..N : before(i, j) <=> seq[i][key] < seq[j][key]
  OBVIOUS
<1>8. Sort(seq, key) = [n \in 1..N |-> seq[at(n)]]
  <2>1. \A j \in 1..N : place(j) = f[j]
    <3> SUFFICES ASSUME NEW j \in 1..N PROVE {i \in DOMAIN seq : before(i, j)} = Below(j)
      OBVIOUS
    <3> HIDE DEF N, before
    <3> QED BY <1>1, <1>7
  <2>2. \A n \in 1..N : at(n) = CHOOSE j \in DOMAIN seq : place(j) = n
    <3> HIDE DEF f, N, place
    <3> QED BY <1>1, <2>1
  <2>3. Sort(seq, key) = [n \in DOMAIN seq |-> seq[CHOOSE j \in DOMAIN seq : place(j) = n]]
    BY Zenon DEF Sort
  <2> HIDE DEF f, N, at, place
  <2> QED BY <1>1, <2>2, <2>3
<1> DEFINE t == [n \in 1..N |-> seq[at(n)]]
<1>9. t \in Seq(X) /\ Len(t) = N /\ DOMAIN t = 1..N /\ \A n \in 1..N : t[n] = seq[at(n)]
  <2> HIDE DEF at, f, N
  <2>1. \A n \in 1..N : seq[at(n)] \in X
    BY <1>1, <1>6
  <2> QED BY <1>1, <2>1
<1>10. Ascends(t, key)
  <2> SUFFICES ASSUME NEW m \in 1..N, NEW n \in 1..N, m < n
               PROVE  seq[at(m)][key] < seq[at(n)][key]
    <3> HIDE DEF t, at
    <3> QED BY <1>9 DEF Ascends
  <2> HIDE DEF f, at, N
  <2>1. /\ at(m) \in 1..N /\ f[at(m)] = m /\ at(n) \in 1..N /\ f[at(n)] = n
    BY <1>6
  <2>2. ~seq[at(n)][key] < seq[at(m)][key] /\ at(m) # at(n)
    BY <1>3, <2>1
  <2> QED BY <2>1, <2>2 DEF N
<1>11. ToSet(t) = ToSet(seq)
  <2> HIDE DEF t, f, at, N
  <2>1. \A j \in 1..N : f[j] \in 1..N /\ at(f[j]) = j
    BY <1>4, <1>5, <1>6
  <2> QED BY <1>1, <1>6, <1>9, <2>1 DEF ToSet
<1> HIDE DEF t
<1> QED BY <1>8, <1>9, <1>10, <1>11 DEF t

-----------------------------------------------------------------------------
(* The plan while it is built                                              *)

Usable(s) == Available(s) /\ s.area # 2

Column(L) == [storey : {s.storey : s \in L}, area : Int, c : Int, rows : Seq(L)]
Area(L) == [area : Int, columns : Seq(Column(L))]

\* A column of area n has locations of U, each once, all of its own number.
ColumnOf(k, n, U) ==
  /\ k.area = n
  /\ \A i \in 1..Len(k.rows) : k.rows[i] \in U /\ k.rows[i].area = n /\ k.rows[i].c = k.c
  /\ \A i, j \in 1..Len(k.rows) : k.rows[i] = k.rows[j] => i = j

\* An area has its columns, no two of one number.
AreaOf(x, U) ==
  /\ \A k \in 1..Len(x.columns) : ColumnOf(x.columns[k], x.area, U)
  /\ \A j, k \in 1..Len(x.columns) : x.columns[j].c = x.columns[k].c => j = k

ColumnHas(k, s) == \E i \in 1..Len(k.rows) : k.rows[i] = s
AreaHas(x, s) == \E k \in 1..Len(x.columns) : ColumnHas(x.columns[k], s)

\* A plan has its areas, no two of one number, and in them all of U.
PlanOf(plan, U, L) ==
  /\ plan \in Seq(Area(L))
  /\ \A a \in 1..Len(plan) : AreaOf(plan[a], U)
  /\ \A a, b \in 1..Len(plan) : plan[a].area = plan[b].area => a = b
  /\ \A s \in U : \E a \in 1..Len(plan) : AreaHas(plan[a], s)

\* The numbers of a location are integers.
Keyed(L) == \A s \in L : s.area \in Int /\ s.c \in Int /\ s.r \in Int

LEMMA ColumnGrows ==
  ASSUME NEW L, NEW U \in SUBSET L, NEW k \in Column(L), NEW n, NEW s \in L,
         ColumnOf(k, n, U), s \notin U, s.area = n, s.c = k.c
  PROVE  LET l == [k EXCEPT !.rows = Append(@, s)]
         IN /\ l \in Column(L) /\ l.c = k.c /\ ColumnOf(l, n, U \union {s})
            /\ ColumnHas(l, s) /\ \A u : ColumnHas(k, u) => ColumnHas(l, u)
<1> DEFINE l == [k EXCEPT !.rows = Append(@, s)]
           t == Append(k.rows, s)
<1>1. k.rows \in Seq(L) /\ Len(k.rows) \in Nat
  BY DEF Column
<1>2. /\ t \in Seq(L) /\ Len(t) = Len(k.rows) + 1
      /\ \A i \in 1..Len(k.rows) : t[i] = k.rows[i]
      /\ t[Len(k.rows) + 1] = s
  BY <1>1, AppendProperties
<1>3. l \in Column(L) /\ l.c = k.c /\ l.area = k.area /\ l.rows = t
  <2> HIDE DEF t
  <2>1. l = [k EXCEPT !.rows = t]
    BY DEF t
  <2> QED BY <1>2, <2>1 DEF Column
<1> HIDE DEF t, l
<1>4. \A i \in 1..Len(t) : i = Len(k.rows) + 1 \/ i \in 1..Len(k.rows)
  BY <1>1, <1>2
<1>5. ColumnOf(l, n, U \union {s})
  <2>1. \A i \in 1..Len(t) : t[i] \in U \union {s} /\ t[i].area = n /\ t[i].c = k.c
    BY <1>2, <1>4 DEF ColumnOf
  <2>2. \A i, j \in 1..Len(t) : t[i] = t[j] => i = j
    BY <1>2, <1>4 DEF ColumnOf
  <2> QED BY <1>3, <2>1, <2>2 DEF ColumnOf
<1>6. ColumnHas(l, s) /\ \A u : ColumnHas(k, u) => ColumnHas(l, u)
  <2>1. Len(k.rows) + 1 \in 1..Len(t) /\ \A i \in 1..Len(k.rows) : i \in 1..Len(t)
    BY <1>1, <1>2
  <2> QED BY <1>2, <1>3, <2>1 DEF ColumnHas
<1> QED BY <1>3, <1>5, <1>6 DEF l

LEMMA ColumnBegins ==
  ASSUME NEW L, NEW s \in L, Keyed(L)
  PROVE  /\ NewColumn(s) \in Column(L) /\ NewColumn(s).c = s.c
         /\ \A U : ColumnOf(NewColumn(s), s.area, U \union {s})
         /\ ColumnHas(NewColumn(s), s)
<1>1. /\ NewColumn(s).rows = <<s>> /\ NewColumn(s).c = s.c
      /\ NewColumn(s).area = s.area
  BY DEF NewColumn
<1>2. <<s>> \in Seq(L) /\ Len(<<s>>) = 1 /\ <<s>>[1] = s /\ 1..1 = {1}
  OBVIOUS
<1>3. NewColumn(s) \in Column(L)
  BY <1>2 DEF NewColumn, Column, Keyed
<1>4. ASSUME NEW U PROVE ColumnOf(NewColumn(s), s.area, U \union {s})
  BY <1>1, <1>2 DEF ColumnOf
<1>5. ColumnHas(NewColumn(s), s)
  BY <1>1, <1>2 DEF ColumnHas
<1> QED BY <1>1, <1>3, <1>4, <1>5

\* More may be in a column than is.
LEMMA ColumnWidens ==
  ASSUME NEW U, NEW V, U \subseteq V, NEW k, NEW n, ColumnOf(k, n, U)
  PROVE  ColumnOf(k, n, V)
BY DEF ColumnOf

\* The area's column of the number of s, as Enter finds it.
ColumnFor(x, s) == SelectInSeq(x.columns, LAMBDA y : y.c = s.c)

LEMMA ColumnForIs ==
  ASSUME NEW L, NEW x \in Area(L), NEW s
  PROVE  LET k == ColumnFor(x, s)
         IN /\ k \in 0..Len(x.columns)
            /\ k # 0 => x.columns[k].c = s.c
            /\ k = 0 => \A j \in 1..Len(x.columns) : x.columns[j].c # s.c
<1> DEFINE I == {i \in 1..Len(x.columns) : x.columns[i].c = s.c}
<1>1. ColumnFor(x, s) = IF I # {} THEN Min(I) ELSE 0
  BY Zenon DEF ColumnFor, SelectInSeq
<1>2. I \in SUBSET Nat
  OBVIOUS
<1>3. I # {} => Min(I) \in I
  <2> HIDE DEF I
  <2> QED BY <1>2, Least
<1>4. 0 \notin I /\ Len(x.columns) \in Nat
  BY DEF Area
<1> QED BY <1>1, <1>3, <1>4

\* What Enter makes of the area.
Grown(x, s) ==
  IF ColumnFor(x, s) = 0 THEN [x EXCEPT !.columns = Append(@, NewColumn(s))]
  ELSE [x EXCEPT !.columns[ColumnFor(x, s)].rows = Append(@, s)]

LEMMA AreaGrows ==
  ASSUME NEW L, Keyed(L), NEW U \in SUBSET L, NEW x \in Area(L), NEW s \in L,
         AreaOf(x, U), s \notin U, s.area = x.area
  PROVE  /\ Grown(x, s) \in Area(L) /\ Grown(x, s).area = x.area
         /\ AreaOf(Grown(x, s), U \union {s})
         /\ AreaHas(Grown(x, s), s)
         /\ \A u : AreaHas(x, u) => AreaHas(Grown(x, s), u)
<1> DEFINE k == ColumnFor(x, s)
           cols == x.columns
           W == U \union {s}
<1>1. /\ cols \in Seq(Column(L)) /\ Len(cols) \in Nat /\ x.area \in Int
      /\ DOMAIN cols = 1..Len(cols)
  BY DEF Area
<1>2. /\ k \in 0..Len(cols)
      /\ k # 0 => cols[k].c = s.c
      /\ k = 0 => \A j \in 1..Len(cols) : cols[j].c # s.c
  BY ColumnForIs
<1>3. \A j \in 1..Len(cols) : ColumnOf(cols[j], x.area, W)
  BY ColumnWidens DEF AreaOf
<1>4. CASE k = 0
  <2> DEFINE t == Append(cols, NewColumn(s))
             y == [x EXCEPT !.columns = t]
  <2>1. /\ NewColumn(s) \in Column(L) /\ NewColumn(s).c = s.c
        /\ ColumnOf(NewColumn(s), x.area, W) /\ ColumnHas(NewColumn(s), s)
    BY ColumnBegins
  <2>2. /\ t \in Seq(Column(L)) /\ Len(t) = Len(cols) + 1
        /\ \A j \in 1..Len(cols) : t[j] = cols[j]
        /\ t[Len(cols) + 1] = NewColumn(s)
    <3> HIDE DEF cols
    <3> QED BY <1>1, <2>1, AppendProperties
  <2>3. Grown(x, s) = y
    BY <1>4 DEF Grown
  <2> HIDE DEF t
  <2>4. y \in Area(L) /\ y.area = x.area /\ y.columns = t
    BY <2>2 DEF Area
  <2> HIDE DEF y, cols, k, W
  <2>5. \A j \in 1..Len(t) : j = Len(cols) + 1 \/ j \in 1..Len(cols)
    BY <1>1, <2>2
  <2>6. AreaOf(y, W)
    <3>1. \A j \in 1..Len(t) : ColumnOf(t[j], x.area, W)
      BY <1>3, <2>1, <2>2, <2>5
    <3>2. \A i, j \in 1..Len(t) : t[i].c = t[j].c => i = j
      BY <1>2, <1>4, <2>1, <2>2, <2>5 DEF AreaOf, cols
    <3> QED BY <2>4, <3>1, <3>2 DEF AreaOf
  <2>7. AreaHas(y, s) /\ \A u : AreaHas(x, u) => AreaHas(y, u)
    <3>1. Len(cols) + 1 \in 1..Len(t) /\ \A j \in 1..Len(cols) : j \in 1..Len(t)
      BY <1>1, <2>2
    <3> QED BY <2>1, <2>2, <2>4, <3>1 DEF AreaHas, cols
  <2> QED BY <2>3, <2>4, <2>6, <2>7 DEF W
<1>5. CASE k # 0
  <2> DEFINE l == [cols[k] EXCEPT !.rows = Append(@, s)]
             t == [cols EXCEPT ![k] = l]
             y == [x EXCEPT !.columns = t]
  <2>1. k \in 1..Len(cols) /\ cols[k] \in Column(L)
    BY <1>1, <1>2, <1>5
  <2>2. /\ l \in Column(L) /\ l.c = cols[k].c /\ ColumnOf(l, x.area, W)
        /\ ColumnHas(l, s) /\ \A u : ColumnHas(cols[k], u) => ColumnHas(l, u)
    <3>1. ColumnOf(cols[k], x.area, U) /\ s.c = cols[k].c
      BY <1>2, <1>5, <2>1 DEF AreaOf
    <3> HIDE DEF cols, k
    <3> QED BY <2>1, <3>1, ColumnGrows
  <2>3. Grown(x, s) = y
    BY <1>5 DEF Grown
  <2> HIDE DEF l
  <2>4. /\ t \in Seq(Column(L)) /\ Len(t) = Len(cols)
        /\ \A j \in 1..Len(cols) : t[j] = IF j = k THEN l ELSE cols[j]
    <3> HIDE DEF cols, k
    <3> QED BY <1>1, <2>1, <2>2, ExceptSeq
  <2> HIDE DEF t
  <2>5. y \in Area(L) /\ y.area = x.area /\ y.columns = t
    BY <2>4 DEF Area
  <2> HIDE DEF y, cols, k, W
  <2>6. AreaOf(y, W)
    <3>1. \A j \in 1..Len(t) : ColumnOf(t[j], x.area, W)
      BY <1>3, <2>2, <2>4
    <3>2. \A i, j \in 1..Len(t) : t[i].c = t[j].c => i = j
      BY <2>1, <2>2, <2>4 DEF AreaOf, cols
    <3> QED BY <2>5, <3>1, <3>2 DEF AreaOf
  <2>7. AreaHas(y, s) /\ \A u : AreaHas(x, u) => AreaHas(y, u)
    BY <2>1, <2>2, <2>4, <2>5 DEF AreaHas, cols
  <2> QED BY <2>3, <2>5, <2>6, <2>7 DEF W
<1> QED BY <1>4, <1>5

LEMMA AreaBegins ==
  ASSUME NEW L, NEW s \in L, Keyed(L)
  PROVE  /\ NewArea(s) \in Area(L) /\ NewArea(s).area = s.area
         /\ \A U : AreaOf(NewArea(s), U \union {s})
         /\ AreaHas(NewArea(s), s)
<1> DEFINE k == NewColumn(s)
<1>1. /\ k \in Column(L) /\ ColumnHas(k, s)
      /\ \A U : ColumnOf(k, s.area, U \union {s})
  BY ColumnBegins
<1> HIDE DEF k
<1>2. <<k>> \in Seq(Column(L)) /\ Len(<<k>>) = 1 /\ <<k>>[1] = k /\ 1..1 = {1}
  BY <1>1
<1>3. /\ NewArea(s).columns = <<k>> /\ NewArea(s).area = s.area
      /\ NewArea(s) \in Area(L)
  BY <1>2 DEF NewArea, k, Area, Keyed
<1> QED BY <1>1, <1>2, <1>3 DEF AreaOf, AreaHas

LEMMA AreaWidens ==
  ASSUME NEW U, NEW V, U \subseteq V, NEW x, AreaOf(x, U)
  PROVE  AreaOf(x, V)
BY ColumnWidens DEF AreaOf

AreaFor(plan, s) == SelectInSeq(plan, LAMBDA x : x.area = s.area)

LEMMA AreaForIs ==
  ASSUME NEW L, NEW plan \in Seq(Area(L)), NEW s
  PROVE  LET a == AreaFor(plan, s)
         IN /\ a \in 0..Len(plan)
            /\ a # 0 => plan[a].area = s.area
            /\ a = 0 => \A j \in 1..Len(plan) : plan[j].area # s.area
<1> DEFINE I == {i \in 1..Len(plan) : plan[i].area = s.area}
<1>1. AreaFor(plan, s) = IF I # {} THEN Min(I) ELSE 0
  BY Zenon DEF AreaFor, SelectInSeq
<1>2. I \in SUBSET Nat
  OBVIOUS
<1>3. I # {} => Min(I) \in I
  <2> HIDE DEF I
  <2> QED BY <1>2, Least
<1>4. 0 \notin I /\ Len(plan) \in Nat
  OBVIOUS
<1> QED BY <1>1, <1>3, <1>4

\* A new location enters the plan if it is usable, and nothing else changes.
LEMMA EnterKeeps ==
  ASSUME NEW L, Keyed(L), NEW U \in SUBSET L, NEW plan, NEW s \in L,
         PlanOf(plan, U, L), s \notin U
  PROVE  PlanOf(Enter(plan, s), IF Usable(s) THEN U \union {s} ELSE U, L)
<1> DEFINE a == AreaFor(plan, s)
           W == U \union {s}
<1>1. plan \in Seq(Area(L)) /\ Len(plan) \in Nat /\ DOMAIN plan = 1..Len(plan)
  BY DEF PlanOf
<1>2. /\ a \in 0..Len(plan)
      /\ a # 0 => plan[a].area = s.area
      /\ a = 0 => \A j \in 1..Len(plan) : plan[j].area # s.area
  BY <1>1, AreaForIs
<1>3. Enter(plan, s) =
        IF ~Usable(s) THEN plan
        ELSE IF a = 0 THEN Append(plan, NewArea(s))
        ELSE IF ColumnFor(plan[a], s) = 0
             THEN [plan EXCEPT ![a].columns = Append(@, NewColumn(s))]
             ELSE [plan EXCEPT ![a].columns[ColumnFor(plan[a], s)].rows = Append(@, s)]
  BY Zenon DEF Enter, AreaFor, ColumnFor, Usable
<1>4. CASE ~Usable(s)
  BY <1>3, <1>4
<1>5. CASE Usable(s) /\ a = 0
  <2> DEFINE t == Append(plan, NewArea(s))
  <2>1. Enter(plan, s) = t
    BY <1>3, <1>5
  <2>2. /\ NewArea(s) \in Area(L) /\ NewArea(s).area = s.area
        /\ AreaOf(NewArea(s), W) /\ AreaHas(NewArea(s), s)
    BY AreaBegins
  <2>3. /\ t \in Seq(Area(L)) /\ Len(t) = Len(plan) + 1
        /\ \A j \in 1..Len(plan) : t[j] = plan[j]
        /\ t[Len(plan) + 1] = NewArea(s)
    BY <1>1, <2>2, AppendProperties
  <2>4. \A j \in 1..Len(plan) : AreaOf(plan[j], W)
    BY AreaWidens DEF PlanOf
  <2> HIDE DEF t, W, a
  <2>5. \A j \in 1..Len(t) : j = Len(plan) + 1 \/ j \in 1..Len(plan)
    BY <1>1, <2>3
  <2>6. Len(plan) + 1 \in 1..Len(t) /\ \A j \in 1..Len(plan) : j \in 1..Len(t)
    BY <1>1, <2>3
  <2>7. \A j \in 1..Len(t) : AreaOf(t[j], W)
    BY <2>2, <2>3, <2>4, <2>5
  <2>8. \A i, j \in 1..Len(t) : t[i].area = t[j].area => i = j
    BY <1>2, <1>5, <2>2, <2>3, <2>5 DEF PlanOf
  <2>9. \A u \in W : \E j \in 1..Len(t) : AreaHas(t[j], u)
    BY <2>2, <2>3, <2>6 DEF PlanOf, W
  <2>10. PlanOf(t, W, L)
    BY <2>3, <2>7, <2>8, <2>9 DEF PlanOf
  <2> QED BY <1>5, <2>1, <2>10 DEF W
<1>6. CASE Usable(s) /\ a # 0
  <2> DEFINE y == Grown(plan[a], s)
             t == [plan EXCEPT ![a] = y]
  <2>1. a \in 1..Len(plan) /\ plan[a] \in Area(L) /\ s.area = plan[a].area
    BY <1>1, <1>2, <1>6
  <2>2. Enter(plan, s) = t
    <3> HIDE DEF a
    <3> QED BY <1>1, <1>3, <1>6, <2>1 DEF Grown
  <2>3. /\ y \in Area(L) /\ y.area = plan[a].area /\ AreaOf(y, W)
        /\ AreaHas(y, s) /\ \A u : AreaHas(plan[a], u) => AreaHas(y, u)
    <3>1. AreaOf(plan[a], U)
      BY <2>1 DEF PlanOf
    <3> HIDE DEF a
    <3> DEFINE x == plan[a]
    <3>2. x \in Area(L) /\ AreaOf(x, U) /\ s.area = x.area
      BY <2>1, <3>1
    <3> HIDE DEF x
    <3>3. /\ Grown(x, s) \in Area(L) /\ Grown(x, s).area = x.area
          /\ AreaOf(Grown(x, s), U \union {s})
          /\ AreaHas(Grown(x, s), s)
          /\ \A u : AreaHas(x, u) => AreaHas(Grown(x, s), u)
      BY <3>2, AreaGrows
    <3> QED BY <3>3 DEF x
  <2> HIDE DEF y, a, W
  <2>4. /\ t \in Seq(Area(L)) /\ Len(t) = Len(plan)
        /\ \A j \in 1..Len(plan) : t[j] = IF j = a THEN y ELSE plan[j]
    BY <1>1, <2>1, <2>3, ExceptSeq
  <2> HIDE DEF t
  <2>5. \A j \in 1..Len(plan) : AreaOf(plan[j], W)
    BY AreaWidens DEF PlanOf, W
  <2>6. \A j \in 1..Len(t) : AreaOf(t[j], W) /\ t[j].area = plan[j].area
    BY <2>3, <2>4, <2>5
  <2>7. \A u \in W : \E j \in 1..Len(t) : AreaHas(t[j], u)
    BY <2>1, <2>3, <2>4 DEF PlanOf, W
  <2>8. \A i, j \in 1..Len(t) : t[i].area = t[j].area => i = j
    BY <2>4, <2>6 DEF PlanOf
  <2>9. PlanOf(t, W, L)
    BY <2>4, <2>6, <2>7, <2>8 DEF PlanOf
  <2> QED BY <1>6, <2>2, <2>9 DEF W
<1> QED BY <1>4, <1>5, <1>6

-----------------------------------------------------------------------------
(* Loops                                                                   *)

\* Round n takes what is in T[n - 1] to what is in T[n].
Rounds(N, T, F) == \A n \in 1..N : \A x \in T[n - 1] : F[<<n, x>>] \in T[n]

\* f has what the rounds make of b, one after the other.
Run(f, N, b, T, F) ==
  /\ f = [n \in 0..N |-> IF n = 0 THEN b ELSE F[<<n, f[n - 1]>>]]
  /\ \A n \in 0..N : f[n] \in T[n]

\* A loop goes through.
LEMMA LoopRuns ==
  ASSUME NEW N \in Nat, NEW T, NEW b \in T[0], NEW F, Rounds(N, T, F)
  PROVE  \E f : Run(f, N, b, T, F)
<1> DEFINE Runs(m, f) ==
             /\ f = [n \in 0..m |-> IF n = 0 THEN b ELSE F[<<n, f[n - 1]>>]]
             /\ \A n \in 0..m : f[n] \in T[n]
           S == {m \in Nat : m <= N => \E f : Runs(m, f)}
<1>1. 0 \in S
  <2>1. Runs(0, [n \in 0..0 |-> b])
    <3>1. 0..0 = {0}
      OBVIOUS
    <3> QED BY <3>1
  <2> HIDE DEF Runs
  <2> QED BY <2>1
<1>2. ASSUME NEW m \in S PROVE m + 1 \in S
  <2>1. SUFFICES ASSUME m + 1 <= N PROVE \E f : Runs(m + 1, f)
    <3> HIDE DEF Runs
    <3> QED OBVIOUS
  <2>2. m \in Nat /\ m <= N /\ m + 1 \in 1..N /\ m \in 0..m
    BY <2>1
  <2>3. PICK g : Runs(m, g)
    <3> HIDE DEF Runs
    <3> QED BY <2>2
  <2> DEFINE e == F[<<m + 1, g[m]>>]
             f == [n \in 0..m + 1 |-> IF n = m + 1 THEN e ELSE g[n]]
  <2>4. e \in T[m + 1]
    <3>1. g[m] \in T[m]
      BY <2>2, <2>3
    <3>2. (m + 1) - 1 = m
      BY <2>2
    <3> QED BY <2>2, <3>1, <3>2 DEF Rounds
  <2>5. \A n \in 0..m + 1 : f[n] \in T[n]
    <3>1. \A n \in 0..m : g[n] \in T[n]
      BY <2>3
    <3>2. \A n \in 0..m + 1 : n = m + 1 \/ n \in 0..m
      BY <2>2
    <3> HIDE DEF e, Runs
    <3> QED BY <2>4, <3>1, <3>2
  <2>6. ASSUME NEW n \in 0..m + 1
        PROVE  f[n] = IF n = 0 THEN b ELSE F[<<n, f[n - 1]>>]
    <3>1. CASE n = m + 1
      <4>1. n # 0 /\ n - 1 = m /\ m \in 0..m + 1 /\ m # m + 1
        BY <2>2, <3>1
      <4>2. f[n - 1] = g[m]
        <5> HIDE DEF e
        <5> QED BY <4>1
      <4>3. f[n] = e
        BY <3>1
      <4> QED BY <3>1, <4>1, <4>2, <4>3
    <3>2. CASE n # m + 1
      <4>1. n \in 0..m /\ (n # 0 => n - 1 \in 0..m + 1 /\ n - 1 # m + 1)
        BY <2>2, <3>2
      <4>2. f[n] = g[n] /\ (n # 0 => f[n - 1] = g[n - 1])
        <5> HIDE DEF e
        <5> QED BY <3>2, <4>1
      <4>3. g[n] = IF n = 0 THEN b ELSE F[<<n, g[n - 1]>>]
        BY <2>3, <4>1
      <4> HIDE DEF f
      <4> QED BY <4>2, <4>3
    <3> QED BY <3>1, <3>2
  <2>7. f = [n \in 0..m + 1 |-> f[n]]
    OBVIOUS
  <2>8. Runs(m + 1, f)
    <3> HIDE DEF f
    <3> QED BY <2>5, <2>6, <2>7
  <2> HIDE DEF Runs, f
  <2> QED BY <2>8
<1>3. S = Nat
  <2>1. S \in SUBSET Nat
    OBVIOUS
  <2> HIDE DEF S
  <2> QED BY <1>1, <1>2, <2>1, Induct
<1>4. N \in S /\ N <= N
  <2> HIDE DEF S
  <2> QED BY <1>3
<1>5. \E f : Runs(N, f)
  <2> HIDE DEF Runs
  <2> QED BY <1>4
<1> QED BY <1>5 DEF Run

\* What each round keeps, the loop keeps.
LEMMA LoopKeeps ==
  ASSUME NEW N \in Nat, NEW T, NEW f, f[0] \in T[0],
         \A n \in 1..N : f[n - 1] \in T[n - 1] => f[n] \in T[n]
  PROVE  f[N] \in T[N]
<1> DEFINE S == {m \in Nat : m <= N => f[m] \in T[m]}
<1>1. 0 \in S
  OBVIOUS
<1>2. ASSUME NEW m \in S PROVE m + 1 \in S
  <2>1. SUFFICES ASSUME m + 1 <= N PROVE f[m + 1] \in T[m + 1]
    OBVIOUS
  <2>2. m + 1 \in 1..N /\ (m + 1) - 1 = m /\ f[m] \in T[m]
    BY <2>1
  <2> QED BY <2>2
<1>3. S = Nat
  <2>1. S \in SUBSET Nat
    OBVIOUS
  <2> HIDE DEF S
  <2> QED BY <1>1, <1>2, <2>1, Induct
<1> QED BY <1>3

-----------------------------------------------------------------------------
(* Locations of a configuration                                            *)

\* What of a configuration the map is built from, of the kinds it has: sizes
\* that are natural numbers, and integers.
ProperConf(cf) ==
  /\ Len(cf.storeys) \in Nat
  /\ \A q \in 1..Len(cf.storeys) : cf.storeys[q].x \in Nat /\ cf.storeys[q].y \in Nat
  /\ DOMAIN cf.storeys = 1..Len(cf.storeys)
  /\ Len(cf.areas) \in Nat
  /\ \A k \in 1..Len(cf.areas) :
       /\ cf.areas[k].storey \in Int /\ cf.areas[k].txt \in Int
       /\ cf.areas[k].range[1] \in Int /\ cf.areas[k].range[2] \in Int
       /\ cf.areas[k].base_point[1] \in Int /\ cf.areas[k].base_point[2] \in Int

LEMMA NumberIs ==
  ASSUME NEW base \in Int, NEW offset \in Int
  PROVE  Number(base, offset) \in Int
<1>1. (base - offset) % WordSpan \in Int
  <2>1. WordSpan \in Int /\ WordSpan > 0
    BY WordAssumption
  <2> QED BY <2>1
<1> QED BY <1>1 DEF Number

\* A point of the matrix, and where its location is.
LEMMA PointIs ==
  ASSUME NEW cf, ProperConf(cf), NEW p \in Matrix(cf)
  PROVE  /\ p = <<p[1], p[2], p[3]>>
         /\ \E q \in 1..Len(cf.storeys) :
              /\ p[1] = q - 1 /\ p[2] \in 0..cf.storeys[q].y - 1
              /\ p[3] \in 0..cf.storeys[q].x - 1
         /\ p[1] \in Int /\ p[2] \in Int /\ p[3] \in Int
<1>1. PICK q \in 1..Len(cf.storeys) :
        p \in {q - 1} \X (0..cf.storeys[q].y - 1) \X (0..cf.storeys[q].x - 1)
  BY DEF Matrix, ProperConf
<1>2. /\ p = <<p[1], p[2], p[3]>> /\ p[1] = q - 1
      /\ p[2] \in 0..cf.storeys[q].y - 1 /\ p[3] \in 0..cf.storeys[q].x - 1
  BY <1>1
<1>3. p[1] \in Int /\ p[2] \in Int /\ p[3] \in Int
  BY <1>2 DEF ProperConf
<1> QED BY <1>2, <1>3

\* The last area that covers a point, as Storloc finds it.
AreaOver(cf, p) == SelectLastInSeq(cf.areas, LAMBDA area : Covers(area, p))

LEMMA AreaOverIs ==
  ASSUME NEW cf, Len(cf.areas) \in Nat, NEW p
  PROVE  LET k == AreaOver(cf, p)
         IN /\ k \in 0..Len(cf.areas)
            /\ k # 0 => Covers(cf.areas[k], p)
            /\ \A j \in 1..Len(cf.areas) : Covers(cf.areas[j], p) => j <= k
<1> DEFINE I == {i \in 1..Len(cf.areas) : Covers(cf.areas[i], p)}
<1>1. AreaOver(cf, p) = IF I # {} THEN Max(I) ELSE 0
  BY Zenon DEF AreaOver, SelectLastInSeq
<1>2. I \in SUBSET (1..Len(cf.areas))
  OBVIOUS
<1>3. I # {} => Max(I) \in I /\ \A j \in I : j <= Max(I)
  <2> HIDE DEF I
  <2> QED BY <1>2, Greatest
<1>4. \A j \in 1..Len(cf.areas) : Covers(cf.areas[j], p) <=> j \in I
  OBVIOUS
<1>5. 0 \notin I
  OBVIOUS
<1> DEFINE k == AreaOver(cf, p)
<1> HIDE DEF I, k
<1>6. CASE I = {}
  <2>1. k = 0
    BY <1>1, <1>6 DEF k
  <2> QED BY <1>4, <1>6, <2>1 DEF k
<1>7. CASE I # {}
  <2>1. k \in I /\ \A j \in I : j <= k
    BY <1>1, <1>3, <1>7, Zenon DEF k
  <2>2. k \in 1..Len(cf.areas)
    BY <1>2, <2>1
  <2>3. k \in 0..Len(cf.areas)
    BY <2>2
  <2>4. Covers(cf.areas[k], p) /\ \A j \in 1..Len(cf.areas) : Covers(cf.areas[j], p) => j <= k
    BY <1>4, <2>1, <2>2, Zenon
  <2> QED BY <2>3, <2>4, Zenon DEF k
<1> QED BY <1>6, <1>7

LEMMA StorlocIs ==
  ASSUME NEW cf, ProperConf(cf), NEW p, p[1] \in Int, p[2] \in Int, p[3] \in Int
  PROVE  /\ Storloc(cf, p).at = p
         /\ Storloc(cf, p).area \in Int /\ Storloc(cf, p).c \in Int
         /\ Storloc(cf, p).r \in Int
<1> DEFINE k == AreaOver(cf, p)
           area == cf.areas[k]
<1>1. Storloc(cf, p) = IF k = 0 THEN Unnumbered(p) ELSE Numbered(p, area)
  BY Zenon DEF Storloc, AreaOver
<1>2. k \in 0..Len(cf.areas)
  BY AreaOverIs DEF ProperConf
<1>3. CASE k = 0
  BY <1>1, <1>3 DEF Unnumbered
<1>4. CASE k # 0
  <2> HIDE DEF k
  <2>1. /\ area.txt \in Int /\ area.range[1] \in Int /\ area.range[2] \in Int
        /\ area.base_point[1] \in Int /\ area.base_point[2] \in Int
    <3>1. k \in 1..Len(cf.areas)
      BY <1>2, <1>4 DEF ProperConf
    <3> QED BY <3>1 DEF ProperConf
  <2> HIDE DEF area
  <2>2. /\ Number(area.base_point[1], p[2] - area.range[2]) \in Int
        /\ Number(area.base_point[2], p[3] - area.range[1]) \in Int
    <3>1. p[2] - area.range[2] \in Int /\ p[3] - area.range[1] \in Int
      BY <2>1
    <3> QED BY <2>1, <3>1, NumberIs, Zenon
  <2> QED BY <1>1, <1>4, <2>1, <2>2 DEF Numbered
<1> QED BY <1>3, <1>4

LEMMA StorlocsAre ==
  ASSUME NEW cf, ProperConf(cf)
  PROVE  /\ Keyed(Storlocs(cf))
         /\ \A s \in Storlocs(cf) : s.at \in Matrix(cf) /\ s = Storloc(cf, s.at)
<1>1. ASSUME NEW s \in Storlocs(cf)
      PROVE  /\ s.at \in Matrix(cf) /\ s = Storloc(cf, s.at)
             /\ s.area \in Int /\ s.c \in Int /\ s.r \in Int
  <2>1. PICK p \in Matrix(cf) : s = Storloc(cf, p)
    BY DEF Storlocs
  <2>2. p[1] \in Int /\ p[2] \in Int /\ p[3] \in Int
    BY PointIs
  <2> QED BY <2>1, <2>2, StorlocIs
<1> QED BY <1>1 DEF Keyed

-----------------------------------------------------------------------------
(* The walk over the map                                                   *)

\* The points before column j of row i of storey q, all counted from one.
Before(cf, q, i, j) ==
  {p \in Matrix(cf) :
     \/ p[1] < q - 1
     \/ p[1] = q - 1 /\ p[2] < i - 1
     \/ p[1] = q - 1 /\ p[2] = i - 1 /\ p[3] < j}

\* The usable locations at some points.
UsableAt(cf, P) == {s \in Storlocs(cf) : Usable(s) /\ s.at \in P}

\* The plan that has these, and no others.
PlanAt(plan, cf, P) == PlanOf(plan, UsableAt(cf, P), Storlocs(cf))

\* One round of the inner loop: point <<q - 1, i - 1, j - 1>>.
CellStep(cf, q, i, j, plan) ==
  IF <<q - 1, i - 1, j - 1>> \in Matrix(cf)
  THEN Enter(plan, Storloc(cf, <<q - 1, i - 1, j - 1>>)) ELSE plan

LEMMA CellKeeps ==
  ASSUME NEW cf, ProperConf(cf), NEW q \in Nat, NEW i \in Nat, NEW j \in Nat, j # 0,
         NEW plan, PlanAt(plan, cf, Before(cf, q, i, j - 1))
  PROVE  PlanAt(CellStep(cf, q, i, j, plan), cf, Before(cf, q, i, j))
<1> DEFINE p == <<q - 1, i - 1, j - 1>>
           P == Before(cf, q, i, j - 1)
           L == Storlocs(cf)
           U == UsableAt(cf, P)
<1>1. \A o \in Matrix(cf) : /\ o = <<o[1], o[2], o[3]>>
                            /\ o[1] \in Int /\ o[2] \in Int /\ o[3] \in Int
  BY PointIs
<1>2. \A o \in Matrix(cf) : o \in Before(cf, q, i, j) <=> o \in P \/ o = p
  <2> TAKE o \in Matrix(cf)
  <2>1. o = p <=> o[1] = q - 1 /\ o[2] = i - 1 /\ o[3] = j - 1
    BY <1>1
  <2>2. o[3] < j <=> o[3] < j - 1 \/ o[3] = j - 1
    BY <1>1
  <2> HIDE DEF p
  <2> QED BY <1>1, <2>1, <2>2 DEF Before
<1>3. CASE p \notin Matrix(cf)
  <2>1. Before(cf, q, i, j) = P
    <3> HIDE DEF p
    <3> QED BY <1>2, <1>3 DEF Before
  <2>2. CellStep(cf, q, i, j, plan) = plan
    BY <1>3 DEF CellStep
  <2> QED BY <2>1, <2>2
<1>4. CASE p \in Matrix(cf)
  <2> DEFINE s == Storloc(cf, p)
  <2>1. s \in L /\ s.at = p
    <3>1. s \in L
      BY <1>4 DEF Storlocs
    <3>2. p[1] \in Int /\ p[2] \in Int /\ p[3] \in Int
      OBVIOUS
    <3> HIDE DEF p
    <3> QED BY <3>1, <3>2, StorlocIs
  <2>2. CellStep(cf, q, i, j, plan) = Enter(plan, s)
    BY <1>4 DEF CellStep
  <2>3. p \notin P
    BY DEF Before
  <2>4. Keyed(L) /\ \A t \in L : t = Storloc(cf, t.at) /\ t.at \in Matrix(cf)
    BY StorlocsAre
  <2> HIDE DEF p, P
  <2>5. s \notin U /\ U \in SUBSET L
    BY <2>1, <2>3 DEF UsableAt
  <2>6. UsableAt(cf, Before(cf, q, i, j)) = IF Usable(s) THEN U \union {s} ELSE U
    <3>1. \A t \in L : t.at = p <=> t = s
      BY <2>1, <2>4
    <3>2. \A t \in L : t.at \in Before(cf, q, i, j) <=> t.at \in P \/ t = s
      BY <1>2, <2>4, <3>1
    <3> HIDE DEF s
    <3> QED BY <2>1, <3>2 DEF UsableAt
  <2>7. PlanOf(plan, U, L)
    BY DEF PlanAt, P
  <2> HIDE DEF s, L, U
  <2>8. PlanOf(Enter(plan, s), IF Usable(s) THEN U \union {s} ELSE U, L)
    BY <2>1, <2>4, <2>5, <2>7, EnterKeeps
  <2> QED BY <2>2, <2>6, <2>8 DEF PlanAt, L
<1> QED BY <1>3, <1>4

\* The inner loop: a row is entered.
LEMMA RowKeeps ==
  ASSUME NEW cf, ProperConf(cf), NEW q \in 1..Len(cf.storeys),
         NEW i \in 1..cf.storeys[q].y,
         NEW plan, PlanAt(plan, cf, Before(cf, q, i, 0))
  PROVE  PlanAt(RowEntered(cf, q, i, plan), cf, Before(cf, q, i, cf.storeys[q].x))
<1> DEFINE X == cf.storeys[q].x
           Plans == Seq(Area(Storlocs(cf)))
           T == [j \in 0..X |-> {pl \in Plans : PlanAt(pl, cf, Before(cf, q, i, j))}]
           F == [w \in (1..X) \X Plans |-> CellStep(cf, q, i, w[1], w[2])]
           Body(g) == [j \in 0..X |->
              IF j = 0 THEN plan
              ELSE IF <<q - 1, i - 1, j - 1>> \in Matrix(cf)
                   THEN Enter(g[j - 1], Storloc(cf, <<q - 1, i - 1, j - 1>>))
                   ELSE g[j - 1]]
           Cell == CHOOSE g : g = Body(g)
<1>1. RowEntered(cf, q, i, plan) = Cell[X]
  BY Zenon DEF RowEntered
<1>2. X \in Nat /\ q \in Nat /\ i \in Nat /\ cf.storeys[q].y \in Nat
  <2>1. cf.storeys[q].x \in Nat /\ cf.storeys[q].y \in Nat /\ Len(cf.storeys) \in Nat
    BY DEF ProperConf
  <2> QED BY <2>1
<1> HIDE DEF X
<1>3. \A pl, P : PlanAt(pl, cf, P) => pl \in Plans
  BY DEF PlanAt, PlanOf
<1>4. ASSUME NEW j \in 1..X, NEW pl \in T[j - 1]
      PROVE  CellStep(cf, q, i, j, pl) \in T[j] /\ pl \in Plans
  <2>1. j \in Nat /\ j # 0 /\ j - 1 \in 0..X /\ j \in 0..X
    BY <1>2
  <2>2. PlanAt(pl, cf, Before(cf, q, i, j - 1)) /\ pl \in Plans
    BY <2>1
  <2>3. PlanAt(CellStep(cf, q, i, j, pl), cf, Before(cf, q, i, j))
    BY <1>2, <2>1, <2>2, CellKeeps
  <2> HIDE DEF Plans
  <2> QED BY <1>3, <2>1, <2>2, <2>3
<1>5. plan \in T[0]
  <2>1. 0 \in 0..X
    BY <1>2
  <2> HIDE DEF Plans
  <2> QED BY <1>3, <2>1
<1>6. Rounds(X, T, F)
  <2> SUFFICES ASSUME NEW j \in 1..X, NEW pl \in T[j - 1] PROVE F[<<j, pl>>] \in T[j]
    BY DEF Rounds
  <2>1. CellStep(cf, q, i, j, pl) \in T[j] /\ pl \in Plans
    BY <1>4
  <2> HIDE DEF Plans, T
  <2> QED BY <2>1
<1> HIDE DEF T, Plans
<1>7. PICK f : Run(f, X, plan, T, F)
  <2> HIDE DEF F
  <2> QED BY <1>2, <1>5, <1>6, LoopRuns
<1>8. f = Body(f)
  <2>1. \A n \in 1..X : F[<<n, f[n - 1]>>] = CellStep(cf, q, i, n, f[n - 1])
    <3> TAKE n \in 1..X
    <3>1. n - 1 \in 0..X
      BY <1>2
    <3>2. f[n - 1] \in Plans
      BY <1>4, <1>7, <3>1 DEF Run
    <3> QED BY <3>2
  <2>2. \A n \in 0..X : n # 0 => n \in 1..X
    BY <1>2
  <2> HIDE DEF F
  <2> QED BY <1>7, <2>1, <2>2 DEF CellStep, Run
<1>9. Cell = Body(Cell)
  <2> HIDE DEF Body
  <2> QED BY <1>8, Zenon
<1> HIDE DEF Cell
<1>10. Cell[X] \in T[X]
  <2>1. 0 \in 0..X /\ \A n \in 1..X : n # 0 /\ n \in 0..X
    BY <1>2
  <2>2. Cell[0] = plan
    BY <1>9, <2>1
  <2>3. \A n \in 1..X : Cell[n] = CellStep(cf, q, i, n, Cell[n - 1])
    BY <1>9, <2>1 DEF CellStep
  <2>4. \A n \in 1..X : Cell[n - 1] \in T[n - 1] => Cell[n] \in T[n]
    BY <1>4, <2>3
  <2> HIDE DEF Body
  <2> QED BY <1>2, <1>5, <2>2, <2>4, LoopKeeps
<1>11. X \in 0..X
  BY <1>2
<1>12. PlanAt(Cell[X], cf, Before(cf, q, i, X))
  BY <1>10, <1>11 DEF T
<1> QED BY <1>1, <1>12 DEF X

\* After a row comes the next, after a storey the next.
LEMMA BeforeNext ==
  ASSUME NEW cf, ProperConf(cf), NEW q \in 1..Len(cf.storeys)
  PROVE  /\ \A i \in 1..cf.storeys[q].y :
              Before(cf, q, i, cf.storeys[q].x) = Before(cf, q, i + 1, 0)
         /\ Before(cf, q, cf.storeys[q].y + 1, 0) = Before(cf, q + 1, 1, 0)
<1>1. cf.storeys[q].x \in Nat /\ cf.storeys[q].y \in Nat /\ Len(cf.storeys) \in Nat
  BY DEF ProperConf
<1>2. ASSUME NEW p \in Matrix(cf)
      PROVE  /\ p[1] \in Nat /\ p[2] \in Nat /\ p[3] \in Nat
             /\ p[1] = q - 1 => p[2] < cf.storeys[q].y /\ p[3] < cf.storeys[q].x
  <2>1. PICK r \in 1..Len(cf.storeys) :
              /\ p[1] = r - 1 /\ p[2] \in 0..cf.storeys[r].y - 1
              /\ p[3] \in 0..cf.storeys[r].x - 1
    BY PointIs
  <2>2. cf.storeys[r].x \in Nat /\ cf.storeys[r].y \in Nat
    BY DEF ProperConf
  <2> DEFINE x == cf.storeys[r].x
             y == cf.storeys[r].y
  <2>3. p[1] = q - 1 => r = q
    BY <1>1, <2>1
  <2>4. p[1] \in Nat /\ p[2] \in Nat /\ p[3] \in Nat /\ p[2] < y /\ p[3] < x
    <3> HIDE DEF x, y
    <3>1. x \in Nat /\ y \in Nat
      BY <2>2 DEF x, y
    <3>2. p[1] = r - 1 /\ p[2] \in 0..y - 1 /\ p[3] \in 0..x - 1
      BY <2>1 DEF x, y
    <3> QED BY <3>1, <3>2
  <2> QED BY <2>3, <2>4, Zenon
<1>3. ASSUME NEW i \in 1..cf.storeys[q].y
      PROVE  Before(cf, q, i, cf.storeys[q].x) = Before(cf, q, i + 1, 0)
  BY <1>1, <1>2 DEF Before
<1>4. Before(cf, q, cf.storeys[q].y + 1, 0) = Before(cf, q + 1, 1, 0)
  BY <1>1, <1>2 DEF Before
<1> QED BY <1>3, <1>4

\* The middle loop: a storey is entered.
LEMMA StoreyKeeps ==
  ASSUME NEW cf, ProperConf(cf), NEW q \in 1..Len(cf.storeys),
         NEW plan, PlanAt(plan, cf, Before(cf, q, 1, 0))
  PROVE  PlanAt(StoreyEntered(cf, q, plan), cf, Before(cf, q + 1, 1, 0))
<1> DEFINE Y == cf.storeys[q].y
           Plans == Seq(Area(Storlocs(cf)))
           T == [i \in 0..Y |-> {pl \in Plans : PlanAt(pl, cf, Before(cf, q, i + 1, 0))}]
           F == [w \in (1..Y) \X Plans |-> RowEntered(cf, q, w[1], w[2])]
           Body(g) == [i \in 0..Y |->
              IF i = 0 THEN plan
              ELSE CHOOSE after \in {RowEntered(cf, q, i, p) : p \in {g[i - 1]}} : TRUE]
           Rows == CHOOSE g : g = Body(g)
<1>1. StoreyEntered(cf, q, plan) = Rows[Y]
  BY Zenon DEF StoreyEntered
<1>2. Y \in Nat
  BY DEF ProperConf
<1> HIDE DEF Y
<1>3. \A pl, P : PlanAt(pl, cf, P) => pl \in Plans
  BY DEF PlanAt, PlanOf
<1>4. ASSUME NEW i \in 1..Y, NEW pl \in T[i - 1]
      PROVE  RowEntered(cf, q, i, pl) \in T[i] /\ pl \in Plans
  <2>1. i - 1 \in 0..Y /\ i \in 0..Y /\ (i - 1) + 1 = i
    BY <1>2
  <2>2. PlanAt(pl, cf, Before(cf, q, i, 0)) /\ pl \in Plans
    BY <2>1
  <2>3. PlanAt(RowEntered(cf, q, i, pl), cf, Before(cf, q, i + 1, 0))
    <3>1. i \in 1..cf.storeys[q].y
      BY DEF Y
    <3>2. PlanAt(RowEntered(cf, q, i, pl), cf, Before(cf, q, i, cf.storeys[q].x))
      BY <2>2, <3>1, RowKeeps
    <3>3. Before(cf, q, i, cf.storeys[q].x) = Before(cf, q, i + 1, 0)
      BY <3>1, BeforeNext
    <3> QED BY <3>2, <3>3
  <2> HIDE DEF Plans
  <2> QED BY <1>3, <2>1, <2>2, <2>3
<1>5. plan \in T[0]
  <2>1. 0 \in 0..Y /\ 0 + 1 = 1
    BY <1>2
  <2> HIDE DEF Plans
  <2> QED BY <1>3, <2>1
<1>6. Rounds(Y, T, F)
  <2> SUFFICES ASSUME NEW i \in 1..Y, NEW pl \in T[i - 1] PROVE F[<<i, pl>>] \in T[i]
    BY DEF Rounds
  <2>1. RowEntered(cf, q, i, pl) \in T[i] /\ pl \in Plans
    BY <1>4
  <2> HIDE DEF Plans, T
  <2> QED BY <2>1
<1> HIDE DEF T, Plans
<1>7. PICK f : Run(f, Y, plan, T, F)
  <2> HIDE DEF F
  <2> QED BY <1>2, <1>5, <1>6, LoopRuns
<1> DEFINE After(n, pl) == CHOOSE after \in {RowEntered(cf, q, n, p) : p \in {pl}} : TRUE
<1>8. \A n, pl : After(n, pl) = RowEntered(cf, q, n, pl)
  <2> TAKE n, pl
  <2>1. {RowEntered(cf, q, n, p) : p \in {pl}} = {RowEntered(cf, q, n, pl)}
    BY Zenon
  <2> QED BY <2>1, Zenon
<1>9. \A g : Body(g) = [n \in 0..Y |-> IF n = 0 THEN plan ELSE After(n, g[n - 1])]
  BY Zenon
<1> HIDE DEF After, Body
<1>10. f = Body(f)
  <2>1. \A n \in 1..Y : F[<<n, f[n - 1]>>] = RowEntered(cf, q, n, f[n - 1])
    <3> TAKE n \in 1..Y
    <3>1. n - 1 \in 0..Y
      BY <1>2
    <3>2. f[n - 1] \in Plans
      BY <1>4, <1>7, <3>1 DEF Run
    <3> QED BY <3>2
  <2>2. \A n \in 0..Y : n # 0 => n \in 1..Y
    BY <1>2
  <2> HIDE DEF F
  <2> QED BY <1>7, <1>8, <1>9, <2>1, <2>2 DEF Run
<1>11. Rows = Body(Rows)
  BY <1>10, Zenon
<1> HIDE DEF Rows
<1>12. Rows[Y] \in T[Y]
  <2>1. 0 \in 0..Y /\ \A n \in 1..Y : n # 0 /\ n \in 0..Y
    BY <1>2
  <2>2. Rows[0] = plan
    BY <1>9, <1>11, <2>1
  <2>3. \A n \in 1..Y : Rows[n] = RowEntered(cf, q, n, Rows[n - 1])
    BY <1>8, <1>9, <1>11, <2>1
  <2>4. \A n \in 1..Y : Rows[n - 1] \in T[n - 1] => Rows[n] \in T[n]
    BY <1>4, <2>3
  <2> QED BY <1>2, <1>5, <2>2, <2>4, LoopKeeps
<1>13. Y \in 0..Y
  BY <1>2
<1>14. PlanAt(Rows[Y], cf, Before(cf, q, Y + 1, 0))
  BY <1>12, <1>13 DEF T
<1> QED BY <1>1, <1>14, BeforeNext DEF Y

\* The plan before it is sorted.
LEMMA WholeIs ==
  ASSUME NEW cf, ProperConf(cf)
  PROVE  \E plan : PlanAt(plan, cf, Matrix(cf)) /\ ColumnsPlan(cf) = Sorted(plan)
<1> DEFINE N == Len(cf.storeys)
           Plans == Seq(Area(Storlocs(cf)))
           T == [q \in 0..N |-> {pl \in Plans : PlanAt(pl, cf, Before(cf, q + 1, 1, 0))}]
           F == [w \in (1..N) \X Plans |-> StoreyEntered(cf, w[1], w[2])]
           Body(g) == [q \in 0..N |->
              IF q = 0 THEN <<>> ELSE StoreyEntered(cf, q, g[q - 1])]
           Whole == CHOOSE g : g = Body(g)
<1>1. ColumnsPlan(cf) = Sorted(Whole[N])
  BY Zenon DEF ColumnsPlan
<1>2. N \in Nat
  BY DEF ProperConf
<1>3. \A pl, P : PlanAt(pl, cf, P) => pl \in Plans
  BY DEF PlanAt, PlanOf
<1>4. ASSUME NEW q \in 1..N, NEW pl \in T[q - 1]
      PROVE  StoreyEntered(cf, q, pl) \in T[q] /\ pl \in Plans
  <2>1. q - 1 \in 0..N /\ q \in 0..N /\ (q - 1) + 1 = q
    BY <1>2
  <2>2. PlanAt(pl, cf, Before(cf, q, 1, 0)) /\ pl \in Plans
    BY <2>1
  <2>3. PlanAt(StoreyEntered(cf, q, pl), cf, Before(cf, q + 1, 1, 0))
    BY <2>2, StoreyKeeps
  <2> HIDE DEF Plans
  <2> QED BY <1>3, <2>1, <2>2, <2>3
<1>5. <<>> \in T[0]
  <2>1. 0 \in 0..N /\ 0 + 1 = 1
    BY <1>2
  <2>2. UsableAt(cf, Before(cf, 1, 1, 0)) = {}
    <3>1. ASSUME NEW p \in Before(cf, 1, 1, 0) PROVE FALSE
      <4>1. p \in Matrix(cf)
        BY DEF Before
      <4>2. /\ p[1] \in Int /\ p[2] \in Int /\ p[3] \in Int
            /\ \E q \in 1..N : /\ p[1] = q - 1 /\ p[2] \in 0..cf.storeys[q].y - 1
                               /\ p[3] \in 0..cf.storeys[q].x - 1
        BY <4>1, PointIs
      <4>3. p[1] >= 0 /\ p[2] >= 0 /\ p[3] >= 0
        <5>1. PICK q \in 1..N : /\ p[1] = q - 1 /\ p[2] \in 0..cf.storeys[q].y - 1
                                /\ p[3] \in 0..cf.storeys[q].x - 1
          BY <4>2
        <5>2. cf.storeys[q].x \in Nat /\ cf.storeys[q].y \in Nat
          BY DEF ProperConf
        <5> HIDE DEF N
        <5> QED BY <1>2, <5>1, <5>2
      <4> QED BY <4>2, <4>3 DEF Before
    <3> QED BY <3>1 DEF UsableAt
  <2>3. PlanAt(<<>>, cf, Before(cf, 1, 1, 0))
    <3>1. <<>> \in Plans /\ Len(<<>>) = 0 /\ 1..0 = {}
      OBVIOUS
    <3> QED BY <2>2, <3>1 DEF PlanAt, PlanOf
  <2> HIDE DEF Plans
  <2> QED BY <1>3, <2>1, <2>3
<1>6. Rounds(N, T, F)
  <2> SUFFICES ASSUME NEW q \in 1..N, NEW pl \in T[q - 1] PROVE F[<<q, pl>>] \in T[q]
    BY DEF Rounds
  <2>1. StoreyEntered(cf, q, pl) \in T[q] /\ pl \in Plans
    BY <1>4
  <2> HIDE DEF Plans, T
  <2> QED BY <2>1
<1> HIDE DEF T, Plans, N
<1>7. PICK f : Run(f, N, <<>>, T, F)
  <2> HIDE DEF F
  <2> QED BY <1>2, <1>5, <1>6, LoopRuns
<1>8. f = Body(f)
  <2>1. \A n \in 1..N : F[<<n, f[n - 1]>>] = StoreyEntered(cf, n, f[n - 1])
    <3> TAKE n \in 1..N
    <3>1. n - 1 \in 0..N
      BY <1>2
    <3>2. f[n - 1] \in Plans
      BY <1>4, <1>7, <3>1 DEF Run
    <3> QED BY <3>2
  <2>2. \A n \in 0..N : n # 0 => n \in 1..N
    BY <1>2
  <2> HIDE DEF F
  <2> QED BY <1>7, <2>1, <2>2 DEF Run
<1>9. Whole = Body(Whole)
  <2> HIDE DEF Body
  <2> QED BY <1>8, Zenon
<1> HIDE DEF Whole
<1>10. Whole[N] \in T[N]
  <2>1. 0 \in 0..N /\ \A n \in 1..N : n # 0 /\ n \in 0..N
    BY <1>2
  <2>2. Whole[0] = <<>>
    BY <1>9, <2>1
  <2>3. \A n \in 1..N : Whole[n] = StoreyEntered(cf, n, Whole[n - 1])
    BY <1>9, <2>1
  <2>4. \A n \in 1..N : Whole[n - 1] \in T[n - 1] => Whole[n] \in T[n]
    BY <1>4, <2>3
  <2> HIDE DEF Body
  <2> QED BY <1>2, <1>5, <2>2, <2>4, LoopKeeps
<1>11. N \in 0..N
  BY <1>2
<1>12. PlanAt(Whole[N], cf, Before(cf, N + 1, 1, 0))
  BY <1>10, <1>11 DEF T
<1>13. Before(cf, N + 1, 1, 0) = Matrix(cf)
  <2>1. ASSUME NEW p \in Matrix(cf) PROVE p[1] < (N + 1) - 1
    <3>1. PICK q \in 1..N : p[1] = q - 1
      BY PointIs DEF N
    <3> QED BY <1>2, <3>1
  <2> QED BY <2>1 DEF Before
<1> QED BY <1>1, <1>12, <1>13

-----------------------------------------------------------------------------
(* The plan when it is sorted                                              *)

\* No two locations of U share area, column and row.
Apart(U) == \A s, t \in U : s.area = t.area /\ s.c = t.c /\ s.r = t.r => s = t

SortedRows(k) == [k EXCEPT !.rows = Sort(@, "r")]
SortedColumns(x) ==
  [x EXCEPT !.columns = Sort([k \in DOMAIN @ |-> SortedRows(@[k])], "c")]

\* A column in order, with locations of U.
ColumnRight(k, n, U) ==
  /\ k.area = n
  /\ Ascends(k.rows, "r")
  /\ \A s \in ToSet(k.rows) : s \in U /\ s.area = n /\ s.c = k.c

AreaRight(x, U) ==
  /\ Ascends(x.columns, "c")
  /\ \A k \in ToSet(x.columns) : ColumnRight(k, x.area, U)

LEMMA ColumnSorts ==
  ASSUME NEW L, Keyed(L), NEW U \in SUBSET L, Apart(U), NEW k \in Column(L), NEW n,
         ColumnOf(k, n, U)
  PROVE  /\ SortedRows(k) \in Column(L) /\ SortedRows(k).c = k.c
         /\ ColumnRight(SortedRows(k), n, U)
         /\ \A s : ColumnHas(k, s) => s \in ToSet(SortedRows(k).rows)
<1> DEFINE rows == k.rows
           t == Sort(rows, "r")
<1>1. rows \in Seq(L) /\ Len(rows) \in Nat /\ DOMAIN rows = 1..Len(rows)
  BY DEF Column
<1>2. \A i \in 1..Len(rows) :
        /\ rows[i] \in U /\ rows[i].area = n /\ rows[i].c = k.c /\ rows[i]["r"] \in Int
  BY DEF ColumnOf, Keyed
<1>3. \A i, j \in 1..Len(rows) : rows[i]["r"] = rows[j]["r"] => i = j
  BY <1>2 DEF ColumnOf, Apart
<1>4. /\ t \in Seq(L) /\ Len(t) = Len(rows)
      /\ Ascends(t, "r") /\ ToSet(t) = ToSet(rows)
  <2> HIDE DEF rows
  <2> QED BY <1>1, <1>2, <1>3, SortIs
<1>5. SortedRows(k) = [k EXCEPT !.rows = t]
  BY DEF SortedRows
<1> HIDE DEF t
<1>6. /\ SortedRows(k) \in Column(L) /\ SortedRows(k).c = k.c
      /\ SortedRows(k).area = k.area /\ SortedRows(k).rows = t
  BY <1>4, <1>5 DEF Column
<1>7. ToSet(t) = {rows[i] : i \in 1..Len(rows)}
  BY <1>1, <1>4 DEF ToSet
<1>8. \A s \in ToSet(t) : s \in U /\ s.area = n /\ s.c = k.c
  <2> HIDE DEF rows
  <2> QED BY <1>2, <1>7
<1>9. ColumnRight(SortedRows(k), n, U)
  BY <1>4, <1>6, <1>8 DEF ColumnRight, ColumnOf
<1>10. \A s : ColumnHas(k, s) => s \in ToSet(t)
  BY <1>7 DEF ColumnHas
<1> QED BY <1>6, <1>9, <1>10

LEMMA AreaSorts ==
  ASSUME NEW L, Keyed(L), NEW U \in SUBSET L, Apart(U), NEW x \in Area(L), AreaOf(x, U)
  PROVE  /\ SortedColumns(x) \in Area(L) /\ SortedColumns(x).area = x.area
         /\ AreaRight(SortedColumns(x), U)
         /\ \A s : AreaHas(x, s) =>
              \E k \in ToSet(SortedColumns(x).columns) : s \in ToSet(k.rows)
<1> DEFINE cols == x.columns
           u == [k \in DOMAIN cols |-> SortedRows(cols[k])]
           t == Sort(u, "c")
<1>1. cols \in Seq(Column(L)) /\ Len(cols) \in Nat /\ DOMAIN cols = 1..Len(cols)
  BY DEF Area
<1>2. ASSUME NEW k \in 1..Len(cols)
      PROVE  /\ SortedRows(cols[k]) \in Column(L) /\ SortedRows(cols[k]).c = cols[k].c
             /\ ColumnRight(SortedRows(cols[k]), x.area, U)
             /\ \A s : ColumnHas(cols[k], s) => s \in ToSet(SortedRows(cols[k]).rows)
  <2>1. cols[k] \in Column(L) /\ ColumnOf(cols[k], x.area, U)
    BY <1>1 DEF AreaOf
  <2> HIDE DEF cols
  <2> QED BY <2>1, ColumnSorts
<1>3. /\ u \in Seq(Column(L)) /\ Len(u) = Len(cols) /\ DOMAIN u = 1..Len(cols)
      /\ \A k \in 1..Len(cols) : u[k] = SortedRows(cols[k])
  <2> HIDE DEF cols
  <2> QED BY <1>1, <1>2
<1>4. \A k \in 1..Len(u) : u[k]["c"] \in Int
  <2>1. \A k \in 1..Len(u) : u[k] \in Column(L)
    BY <1>3
  <2> HIDE DEF u
  <2> QED BY <2>1 DEF Column
<1>5. \A j, k \in 1..Len(u) : u[j]["c"] = u[k]["c"] => j = k
  <2> HIDE DEF u
  <2> QED BY <1>2, <1>3 DEF AreaOf
<1>6. /\ t \in Seq(Column(L)) /\ Ascends(t, "c") /\ ToSet(t) = ToSet(u)
  <2> HIDE DEF u
  <2> QED BY <1>3, <1>4, <1>5, SortIs
<1>7. SortedColumns(x) = [x EXCEPT !.columns = t]
  BY DEF SortedColumns
<1> HIDE DEF t
<1>8. /\ SortedColumns(x) \in Area(L) /\ SortedColumns(x).area = x.area
      /\ SortedColumns(x).columns = t
  BY <1>6, <1>7 DEF Area
<1> HIDE DEF u
<1>9. ToSet(t) = {u[k] : k \in 1..Len(cols)}
  BY <1>3, <1>6 DEF ToSet
<1> HIDE DEF cols
<1>10. \A k \in ToSet(t) : ColumnRight(k, x.area, U)
  BY <1>2, <1>3, <1>9
<1>11. ASSUME NEW s, AreaHas(x, s) PROVE \E k \in ToSet(t) : s \in ToSet(k.rows)
  <2>1. PICK k \in 1..Len(cols) : ColumnHas(cols[k], s)
    BY <1>11 DEF AreaHas, cols
  <2>2. s \in ToSet(u[k].rows) /\ u[k] \in ToSet(t)
    BY <1>2, <1>3, <1>9, <2>1
  <2> QED BY <2>2
<1> QED BY <1>6, <1>8, <1>10, <1>11 DEF AreaRight

\* Sorted, a plan has what it had, in order.
LEMMA PlanSorts ==
  ASSUME NEW L, Keyed(L), NEW U \in SUBSET L, Apart(U), NEW plan, PlanOf(plan, U, L)
  PROVE  /\ Ascends(Sorted(plan), "area")
         /\ \A x \in ToSet(Sorted(plan)) : AreaRight(x, U)
         /\ UNION {ToSet(k.rows) : k \in UNION {ToSet(x.columns) : x \in ToSet(Sorted(plan))}} = U
<1> DEFINE u == [a \in DOMAIN plan |-> SortedColumns(plan[a])]
           t == Sort(u, "area")
<1>1. plan \in Seq(Area(L)) /\ Len(plan) \in Nat /\ DOMAIN plan = 1..Len(plan)
  BY DEF PlanOf
<1>2. ASSUME NEW a \in 1..Len(plan)
      PROVE  /\ SortedColumns(plan[a]) \in Area(L)
             /\ SortedColumns(plan[a]).area = plan[a].area
             /\ AreaRight(SortedColumns(plan[a]), U)
             /\ \A s : AreaHas(plan[a], s) =>
                  \E k \in ToSet(SortedColumns(plan[a]).columns) : s \in ToSet(k.rows)
  <2>1. plan[a] \in Area(L) /\ AreaOf(plan[a], U)
    BY <1>1 DEF PlanOf
  <2> QED BY <2>1, AreaSorts
<1>3. /\ u \in Seq(Area(L)) /\ Len(u) = Len(plan) /\ DOMAIN u = 1..Len(plan)
      /\ \A a \in 1..Len(plan) : u[a] = SortedColumns(plan[a])
  BY <1>1, <1>2
<1>4. \A a \in 1..Len(u) : u[a]["area"] \in Int
  <2>1. \A a \in 1..Len(u) : u[a] \in Area(L)
    BY <1>3
  <2> HIDE DEF u
  <2> QED BY <2>1 DEF Area
<1>5. \A a, b \in 1..Len(u) : u[a]["area"] = u[b]["area"] => a = b
  <2> HIDE DEF u
  <2> QED BY <1>2, <1>3 DEF PlanOf
<1>6. /\ t \in Seq(Area(L)) /\ Ascends(t, "area") /\ ToSet(t) = ToSet(u)
  <2> HIDE DEF u
  <2> QED BY <1>3, <1>4, <1>5, SortIs
<1>7. Sorted(plan) = t
  BY Zenon DEF Sorted, SortedColumns, SortedRows
<1> HIDE DEF t, u
<1>8. ToSet(t) = {u[a] : a \in 1..Len(plan)}
  BY <1>3, <1>6 DEF ToSet
<1>9. \A x \in ToSet(t) : AreaRight(x, U)
  BY <1>2, <1>3, <1>8
<1> DEFINE cols == UNION {ToSet(x.columns) : x \in ToSet(t)}
<1>10. ASSUME NEW k \in cols, NEW s \in ToSet(k.rows) PROVE s \in U
  BY <1>9 DEF AreaRight, ColumnRight
<1>11. ASSUME NEW s \in U PROVE \E k \in cols : s \in ToSet(k.rows)
  <2>1. PICK a \in 1..Len(plan) : AreaHas(plan[a], s)
    BY DEF PlanOf
  <2>2. u[a] \in ToSet(t) /\ u[a] = SortedColumns(plan[a])
    BY <1>3, <1>8
  <2>3. PICK k \in ToSet(u[a].columns) : s \in ToSet(k.rows)
    BY <1>2, <2>1, <2>2
  <2>4. k \in cols
    BY <2>2
  <2> QED BY <2>3, <2>4
<1>12. UNION {ToSet(k.rows) : k \in cols} = U
  <2> HIDE DEF cols
  <2> QED BY <1>10, <1>11
<1> QED BY <1>6, <1>7, <1>9, <1>12

\* Whatever the configuration, if on its map every location has a name of its
\* own, the plan of columns has every usable location outside area 2 once, in
\* its column, and areas, columns and rows in order (FrmAGV.cpp build_column_plan).
THEOREM PlanOfNames ==
  ASSUME NEW cf, ProperConf(cf), NamesUnique(cf)
  PROVE  PlanComplete(cf)
<1> DEFINE L == Storlocs(cf)
           U == UsableAt(cf, Matrix(cf))
<1>1. Keyed(L) /\ \A s \in L : s.at \in Matrix(cf)
  BY StorlocsAre
<1>2. U = {s \in L : Available(s) /\ s.area # 2}
  BY <1>1 DEF UsableAt, Usable
<1>3. Apart(U)
  <2> SUFFICES ASSUME NEW s \in U, NEW t \in U, s.area = t.area, s.c = t.c, s.r = t.r
               PROVE  s = t
    BY DEF Apart
  <2>1. s \in L /\ t \in L
    BY <1>2
  <2>2. /\ s.named /\ {v \in L : Txt(v) = Txt(s)} = {s}
        /\ t.named /\ {v \in L : Txt(v) = Txt(t)} = {t}
    BY <2>1 DEF NamesUnique, Painted
  <2>3. Txt(s) = Txt(t)
    BY <2>2 DEF Txt
  <2> QED BY <2>1, <2>2, <2>3
<1>4. PICK plan : PlanOf(plan, U, L) /\ ColumnsPlan(cf) = Sorted(plan)
  BY WholeIs DEF PlanAt
<1>5. U \in SUBSET L
  BY <1>2
<1> HIDE DEF L, U
<1> DEFINE t == ColumnsPlan(cf)
<1>6. /\ Ascends(t, "area")
      /\ \A x \in ToSet(t) : AreaRight(x, U)
      /\ UNION {ToSet(k.rows) : k \in UNION {ToSet(x.columns) : x \in ToSet(t)}} = U
  BY <1>1, <1>3, <1>4, <1>5, PlanSorts
<1> HIDE DEF t
<1>7. \A a \in ToSet(t) :
          /\ Ascends(a.columns, "c")
          /\ \A k \in ToSet(a.columns) :
               /\ k.area = a.area
               /\ Ascends(k.rows, "r")
               /\ \A s \in ToSet(k.rows) : s.area = a.area /\ s.c = k.c
  BY <1>6 DEF AreaRight, ColumnRight
<1> QED BY <1>2, <1>6, <1>7 DEF PlanComplete, t, L

-----------------------------------------------------------------------------
(* The two configurations                                                  *)

\* What is the same in both: the storeys but for one list of arteries.
LEMMA FilesAre ==
  /\ conf_template.storeys = template_storeys
  /\ release_ini.storeys =
       [template_storeys EXCEPT
          ![1].artery_x = << <<0, 14, 15, 27>>, <<16, 24, 17, 27>>, <<18, 14, 18, 25>>,
                             <<24, 14, 24, 25>>, <<25, 24, 27, 27>> >>]
  /\ conf_template.areas = template_areas /\ release_ini.areas = template_areas
  /\ conf_template.specs = template_specs
  /\ release_ini.specs = SubSeq(template_specs, 1, 17) \o
        << [txt |-> "Q01", range |-> <<17, 3, 17, 3>>, storey |-> 0],
           [txt |-> "Q02", range |-> <<18, 3, 18, 3>>, storey |-> 0],
           [txt |-> "Q03", range |-> <<19, 3, 19, 3>>, storey |-> 0],
           [txt |-> "Q00", range |-> <<16, 3, 16, 3>>, storey |-> 0] >>
  /\ conf_template.coords = template_coords
  /\ release_ini.coords = [i \in 1..8 |-> [x |-> 0]]
<1>1. /\ conf_template.storeys = template_storeys /\ conf_template.areas = template_areas
      /\ conf_template.specs = template_specs /\ conf_template.coords = template_coords
  BY DEF conf_template
<1> QED BY <1>1, Zenon DEF release_ini, conf_template

\* What parse_config makes of a file.
LEMMA ParsedAre ==
  ASSUME NEW file
  PROVE  /\ parse_config(file).storeys = file.storeys
         /\ parse_config(file).areas = file.areas
         /\ parse_config(file).specs = file.specs
         /\ parse_config(file).arteries =
              UNION {{[range |-> r, storey |-> q - 1] :
                          r \in ToSet(file.storeys[q].artery_y)
                                \union ToSet(file.storeys[q].artery_x)} :
                        q \in DOMAIN file.storeys}
         /\ parse_config(file).coords =
              [i \in DOMAIN file.coords |->
                   [key \in {"x", "y", "axis", "base", "len", "storey", "area"} |->
                      Setting(file.coords[i], key, IF key = "area" THEN -1 ELSE 0)]]
BY Zenon DEF parse_config

\* An artery of the file is one of the configuration.
LEMMA ArteryThere ==
  ASSUME NEW file, NEW q \in DOMAIN file.storeys,
         NEW r \in ToSet(file.storeys[q].artery_y) \union ToSet(file.storeys[q].artery_x)
  PROVE  [range |-> r, storey |-> q - 1] \in parse_config(file).arteries
<1> DEFINE Of(h) == ToSet(file.storeys[h].artery_y) \union ToSet(file.storeys[h].artery_x)
<1> DEFINE A(h) == {[range |-> t, storey |-> h - 1] : t \in Of(h)}
<1>1. parse_config(file).arteries = UNION {A(h) : h \in DOMAIN file.storeys}
  BY ParsedAre, Zenon
<1>2. r \in Of(q)
  OBVIOUS
<1> HIDE DEF Of
<1>3. [range |-> r, storey |-> q - 1] \in A(q)
  BY <1>2
<1> HIDE DEF A
<1> QED BY <1>1, <1>3

\* An element of a sequence is in its set.
LEMMA AtIsIn ==
  ASSUME NEW seq, NEW i \in DOMAIN seq
  PROVE  seq[i] \in ToSet(seq)
BY DEF ToSet

\* No location lies in an artery.
LEMMA NotInArtery ==
  ASSUME NEW cf, NEW p \in Matrix(cf), NEW r, NEW z,
         [range |-> r, storey |-> z] \in cf.arteries, p[1] = z
  PROVE  ~Inside(r, p[2], p[3])
<1>1. ~\E a \in cf.arteries : a.storey = p[1] /\ Inside(a.range, p[2], p[3])
  BY DEF Matrix
<1> DEFINE b == [range |-> r, storey |-> z]
<1>2. b.range = r /\ b.storey = z
  OBVIOUS
<1> HIDE DEF b
<1>3. b \in cf.arteries
  BY DEF b
<1> QED BY <1>1, <1>2, <1>3

\* Where the arteries of the second storey are, and those of the first that
\* both files have.
Cut(cf, z, r) == [range |-> r, storey |-> z] \in cf.arteries

FirstCut(cf) ==
  /\ Cut(cf, 0, <<0, 0, 35, 4>>) /\ Cut(cf, 0, <<0, 5, 15, 9>>)
  /\ Cut(cf, 0, <<20, 5, 23, 9>>) /\ Cut(cf, 0, <<34, 4, 35, 9>>)
  /\ Cut(cf, 0, <<0, 10, 35, 13>>)
  /\ Cut(cf, 0, <<16, 14, 17, 14>>) /\ Cut(cf, 0, <<25, 14, 27, 14>>)
  /\ Cut(cf, 0, <<0, 14, 15, 27>>) /\ Cut(cf, 0, <<16, 24, 17, 27>>)
  /\ Cut(cf, 0, <<25, 24, 27, 27>>)

SecondCut(cf) == Cut(cf, 1, <<0, 0, 35, 19>>) /\ Cut(cf, 1, <<0, 20, 10, 27>>)

Big(cf) ==
  /\ Len(cf.storeys) = 2 /\ DOMAIN cf.storeys = 1..2
  /\ cf.storeys[1].x = 36 /\ cf.storeys[1].y = 28
  /\ cf.storeys[2].x = 36 /\ cf.storeys[2].y = 28

\* The two storeys of each file.
LEMMA TemplateStoreys ==
  /\ Big(conf_template)
  /\ conf_template.storeys[1].artery_y = template_storeys[1].artery_y
  /\ conf_template.storeys[1].artery_x =
       << <<0, 14, 15, 27>>, <<16, 24, 17, 27>>, <<24, 14, 24, 27>>, <<25, 24, 27, 27>> >>
  /\ conf_template.storeys[2] = template_storeys[2]
BY FilesAre DEF template_storeys, Big

LEMMA ReleaseStoreys ==
  /\ Big(release_ini)
  /\ release_ini.storeys[1].artery_y = template_storeys[1].artery_y
  /\ release_ini.storeys[1].artery_x =
       << <<0, 14, 15, 27>>, <<16, 24, 17, 27>>, <<18, 14, 18, 25>>,
          <<24, 14, 24, 25>>, <<25, 24, 27, 27>> >>
  /\ release_ini.storeys[2] = template_storeys[2]
<1> DEFINE t == template_storeys
           xs == << <<0, 14, 15, 27>>, <<16, 24, 17, 27>>, <<18, 14, 18, 25>>,
                    <<24, 14, 24, 25>>, <<25, 24, 27, 27>> >>
           first == [t[1] EXCEPT !.artery_x = xs]
<1>1. DOMAIN t = 1..2
  BY DEF template_storeys
<1>2. DOMAIN t[1] = {"x", "y", "artery_y", "artery_x"} /\ t[1].x = 36 /\ t[1].y = 28
  BY DEF template_storeys
<1>3. t[2].x = 36 /\ t[2].y = 28
  BY DEF template_storeys
<1>4. release_ini.storeys = [t EXCEPT ![1].artery_x = xs]
  BY FilesAre, Zenon
<1> HIDE DEF t, xs
<1>5. first.artery_x = xs /\ first.artery_y = t[1].artery_y /\ first.x = 36 /\ first.y = 28
  BY <1>2
<1>6. [t EXCEPT ![1].artery_x = xs] = [t EXCEPT ![1] = first]
  OBVIOUS
<1> HIDE DEF first
<1>7. /\ DOMAIN release_ini.storeys = 1..2
      /\ release_ini.storeys[1] = first /\ release_ini.storeys[2] = t[2]
  BY <1>1, <1>4, <1>6
<1>8. Len(release_ini.storeys) = 2
  BY <1>1, <1>4, <1>6 DEF t, template_storeys
<1> QED BY <1>3, <1>5, <1>7, <1>8 DEF t, xs, Big

\* A file of this shape cuts the arteries both files have.
LEMMA CutsOf ==
  ASSUME NEW file, Big(file),
         file.storeys[1].artery_y = template_storeys[1].artery_y,
         file.storeys[2] = template_storeys[2],
         NEW i \in DOMAIN file.storeys[1].artery_x,
         1 \in DOMAIN file.storeys[1].artery_x, 2 \in DOMAIN file.storeys[1].artery_x,
         file.storeys[1].artery_x[1] = <<0, 14, 15, 27>>,
         file.storeys[1].artery_x[2] = <<16, 24, 17, 27>>,
         file.storeys[1].artery_x[i] = <<25, 24, 27, 27>>
  PROVE  FirstCut(parse_config(file)) /\ SecondCut(parse_config(file))
<1> DEFINE cf == parse_config(file)
           y1 == file.storeys[1].artery_y
           x1 == file.storeys[1].artery_x
           x2 == file.storeys[2].artery_x
<1>1. /\ DOMAIN y1 = 1..7
      /\ y1[1] = <<0, 0, 35, 4>> /\ y1[2] = <<0, 5, 15, 9>> /\ y1[3] = <<20, 5, 23, 9>>
      /\ y1[4] = <<34, 4, 35, 9>> /\ y1[5] = <<0, 10, 35, 13>>
      /\ y1[6] = <<16, 14, 17, 14>> /\ y1[7] = <<25, 14, 27, 14>>
  BY DEF template_storeys
<1>2. DOMAIN x2 = 1..4 /\ x2[1] = <<0, 0, 35, 19>> /\ x2[3] = <<0, 20, 10, 27>>
  BY DEF template_storeys
<1>3. DOMAIN file.storeys = 1..2
  BY DEF Big
<1>4. ASSUME NEW j \in DOMAIN y1
      PROVE  Cut(cf, 0, y1[j])
  <2> DEFINE r == y1[j]
  <2>1. r \in ToSet(y1)
    BY AtIsIn
  <2> HIDE DEF r
  <2>2. [range |-> r, storey |-> 1 - 1] \in cf.arteries
    BY <1>3, <2>1, ArteryThere
  <2> QED BY <2>2 DEF Cut, r
<1>5. ASSUME NEW j \in DOMAIN x1
      PROVE  Cut(cf, 0, x1[j])
  <2> DEFINE r == x1[j]
  <2>1. r \in ToSet(x1)
    BY AtIsIn
  <2> HIDE DEF r
  <2>2. [range |-> r, storey |-> 1 - 1] \in cf.arteries
    BY <1>3, <2>1, ArteryThere
  <2> QED BY <2>2 DEF Cut, r
<1>6. ASSUME NEW j \in DOMAIN x2
      PROVE  Cut(cf, 1, x2[j])
  <2> DEFINE r == x2[j]
  <2>1. r \in ToSet(x2)
    BY AtIsIn
  <2> HIDE DEF r
  <2>2. [range |-> r, storey |-> 2 - 1] \in cf.arteries
    BY <1>3, <2>1, ArteryThere
  <2> QED BY <2>2 DEF Cut, r
<1> HIDE DEF cf, y1, x2
<1>7. /\ Cut(cf, 0, y1[1]) /\ Cut(cf, 0, y1[2]) /\ Cut(cf, 0, y1[3]) /\ Cut(cf, 0, y1[4])
      /\ Cut(cf, 0, y1[5]) /\ Cut(cf, 0, y1[6]) /\ Cut(cf, 0, y1[7])
  <2>1. /\ 1 \in DOMAIN y1 /\ 2 \in DOMAIN y1 /\ 3 \in DOMAIN y1 /\ 4 \in DOMAIN y1
        /\ 5 \in DOMAIN y1 /\ 6 \in DOMAIN y1 /\ 7 \in DOMAIN y1
    <3>1. DOMAIN y1 = 1..7
      BY <1>1
    <3> QED BY <3>1
  <2> QED BY <1>4, <2>1, Zenon
<1>8. Cut(cf, 0, x1[1]) /\ Cut(cf, 0, x1[2]) /\ Cut(cf, 0, x1[i])
  BY <1>5, Zenon
<1>9. Cut(cf, 1, x2[1]) /\ Cut(cf, 1, x2[3])
  <2>1. 1 \in DOMAIN x2 /\ 3 \in DOMAIN x2
    BY <1>2
  <2> QED BY <1>6, <2>1, Zenon
<1>10. FirstCut(cf)
  BY <1>1, <1>7, <1>8, Zenon DEF FirstCut
<1>11. SecondCut(cf)
  BY <1>2, <1>9, Zenon DEF SecondCut
<1> QED BY <1>10, <1>11 DEF cf

\* Both configurations cut them.
LEMMA CutsAre ==
  ASSUME NEW file \in {conf_template, release_ini}
  PROVE  FirstCut(parse_config(file)) /\ SecondCut(parse_config(file))
<1>1. CASE file = conf_template
  <2> DEFINE x1 == file.storeys[1].artery_x
  <2>1. DOMAIN x1 = 1..4 /\ x1[1] = <<0, 14, 15, 27>> /\ x1[2] = <<16, 24, 17, 27>>
        /\ x1[4] = <<25, 24, 27, 27>>
    BY <1>1, TemplateStoreys
  <2>2. Big(file) /\ file.storeys[1].artery_y = template_storeys[1].artery_y
        /\ file.storeys[2] = template_storeys[2]
    BY <1>1, TemplateStoreys
  <2>3. 1 \in DOMAIN x1 /\ 2 \in DOMAIN x1 /\ 4 \in DOMAIN x1
    BY <2>1
  <2> QED BY <2>1, <2>2, <2>3, CutsOf
<1>2. CASE file = release_ini
  <2> DEFINE x1 == file.storeys[1].artery_x
  <2>1. DOMAIN x1 = 1..5 /\ x1[1] = <<0, 14, 15, 27>> /\ x1[2] = <<16, 24, 17, 27>>
        /\ x1[5] = <<25, 24, 27, 27>>
    BY <1>2, ReleaseStoreys
  <2>2. Big(file) /\ file.storeys[1].artery_y = template_storeys[1].artery_y
        /\ file.storeys[2] = template_storeys[2]
    BY <1>2, ReleaseStoreys
  <2>3. 1 \in DOMAIN x1 /\ 2 \in DOMAIN x1 /\ 5 \in DOMAIN x1
    BY <2>1
  <2> QED BY <2>1, <2>2, <2>3, CutsOf
<1> QED BY <1>1, <1>2

-----------------------------------------------------------------------------
(* Where the locations are                                                 *)

\* A number counts up from zero, or down from the base, and does not wrap.
LEMMA CountsUp ==
  ASSUME NEW offset
  PROVE  Number(0, offset) = offset
BY DEF Number

LEMMA CountsDown ==
  ASSUME NEW base \in 1..255, NEW offset \in 0..base
  PROVE  Number(base, offset) = base - offset
<1> DEFINE d == base - offset
<1>1. d \in Int /\ d >= 0 /\ d <= 255
  OBVIOUS
<1>2. d % WordSpan = d
  <2>1. WordSpan \in Int /\ WordSpan > d /\ WordSpan > 0
    BY <1>1, WordAssumption
  <2> HIDE DEF d
  <2> QED BY <1>1, <2>1
<1> QED BY <1>2 DEF Number

\* What both configurations have.
Drawn(cf) ==
  Big(cf) /\ cf.areas = template_areas /\ FirstCut(cf) /\ SecondCut(cf)

LEMMA BothDrawn ==
  ASSUME NEW file \in {conf_template, release_ini}
  PROVE  Drawn(parse_config(file))
<1>1. Big(file) /\ file.areas = template_areas
  BY TemplateStoreys, ReleaseStoreys, FilesAre
<1>2. parse_config(file).storeys = file.storeys /\ parse_config(file).areas = file.areas
  BY ParsedAre, Zenon
<1>3. Big(parse_config(file))
  BY <1>1, <1>2, Zenon DEF Big
<1> QED BY <1>1, <1>2, <1>3, CutsAre DEF Drawn

\* The plots the areas leave: p is <<storey, y, x>>.
Plot0(p) == p[1] = 0 /\ p[2] \in 14..27 /\ p[3] \in (18..24) \union (28..35)
Plot0b(p) == p[1] = 0 /\ p[2] \in 15..23 /\ p[3] \in (16..17) \union (25..27)
Plot1(p) == p[1] = 0 /\ p[2] \in 5..9 /\ p[3] \in 24..33
Plot2(p) == p[1] = 0 /\ p[2] \in 5..9 /\ p[3] \in 16..19
Plot3(p) == p[1] = 1 /\ p[2] \in 20..27 /\ p[3] \in 11..35

\* A point outside the arteries is on one of them.
LEMMA PointPlot ==
  ASSUME NEW cf, Drawn(cf), NEW p \in Matrix(cf)
  PROVE  /\ p = <<p[1], p[2], p[3]>> /\ p[1] \in Int /\ p[2] \in Int /\ p[3] \in Int
         /\ Plot0(p) \/ Plot0b(p) \/ Plot1(p) \/ Plot2(p) \/ Plot3(p)
<1>1. PICK q \in 1..2 :
        p \in {q - 1} \X (0..cf.storeys[q].y - 1) \X (0..cf.storeys[q].x - 1)
  BY DEF Matrix, Drawn, Big
<1>2. /\ p = <<p[1], p[2], p[3]>> /\ p[1] = q - 1
      /\ p[2] \in 0..27 /\ p[3] \in 0..35
  <2>1. cf.storeys[q].y = 28 /\ cf.storeys[q].x = 36
    BY DEF Drawn, Big
  <2> QED BY <1>1, <2>1
<1>3. p[1] = 0 \/ p[1] = 1
  BY <1>2
<1>4. CASE p[1] = 0
  <2> DEFINE In(x1, y1, x2, y2) == p[2] \in y1..y2 /\ p[3] \in x1..x2
  <2>1. ASSUME NEW x1, NEW y1, NEW x2, NEW y2, Cut(cf, 0, <<x1, y1, x2, y2>>)
        PROVE  ~In(x1, y1, x2, y2)
    <3> DEFINE r == <<x1, y1, x2, y2>>
    <3>1. ~Inside(r, p[2], p[3])
      BY <1>4, <2>1, NotInArtery, Zenon DEF Cut
    <3> QED BY <3>1 DEF Inside
  <2> HIDE DEF In
  <2>2. /\ ~In(0, 0, 35, 4) /\ ~In(0, 5, 15, 9) /\ ~In(20, 5, 23, 9)
        /\ ~In(34, 4, 35, 9) /\ ~In(0, 10, 35, 13)
        /\ ~In(16, 14, 17, 14) /\ ~In(25, 14, 27, 14)
        /\ ~In(0, 14, 15, 27) /\ ~In(16, 24, 17, 27) /\ ~In(25, 24, 27, 27)
    BY <2>1, Zenon DEF Drawn, FirstCut
  <2>3. CASE p[2] <= 13
    <3>1. p[2] \in 5..9
      BY <1>2, <2>2, <2>3 DEF In
    <3> QED BY <1>2, <1>4, <2>2, <3>1 DEF In, Plot1, Plot2
  <2>4. CASE p[2] >= 14
    <3>1. p[3] >= 16
      BY <1>2, <2>2, <2>4 DEF In
    <3>2. p[3] \in (16..17) \union (25..27) => p[2] \in 15..23
      BY <1>2, <2>2, <2>4 DEF In
    <3> QED BY <1>2, <1>4, <2>4, <3>1, <3>2 DEF Plot0, Plot0b
  <2> QED BY <1>2, <2>3, <2>4
<1>5. CASE p[1] = 1
  <2>1. /\ ~Inside(<<0, 0, 35, 19>>, p[2], p[3])
        /\ ~Inside(<<0, 20, 10, 27>>, p[2], p[3])
    BY <1>5, NotInArtery, Zenon DEF Drawn, SecondCut, Cut
  <2> QED BY <1>2, <1>5, <2>1 DEF Inside, Plot3
<1> QED BY <1>2, <1>3, <1>4, <1>5

\* The configurations are such as the plan's proof supposes.
LEMMA DrawnProper ==
  ASSUME NEW cf, Drawn(cf)
  PROVE  ProperConf(cf)
<1>1. Len(template_areas) = 6
  BY DEF template_areas
<1>2. ASSUME NEW k \in 1..6
      PROVE  /\ template_areas[k].storey \in Int /\ template_areas[k].txt \in Int
             /\ template_areas[k].range[1] \in Int /\ template_areas[k].range[2] \in Int
             /\ template_areas[k].base_point[1] \in Int
             /\ template_areas[k].base_point[2] \in Int
  <2>1. k = 1 \/ k = 2 \/ k = 3 \/ k = 4 \/ k = 5 \/ k = 6
    OBVIOUS
  <2> QED BY <2>1 DEF template_areas
<1>3. \A q \in 1..2 : cf.storeys[q].x \in Nat /\ cf.storeys[q].y \in Nat
  <2> TAKE q \in 1..2
  <2>1. q = 1 \/ q = 2
    OBVIOUS
  <2> QED BY <2>1 DEF Drawn, Big
<1>4. Len(cf.storeys) = 2 /\ DOMAIN cf.storeys = 1..2 /\ cf.areas = template_areas
  BY DEF Drawn, Big
<1>5. Len(cf.areas) = 6
  BY <1>1, <1>4
<1>6. \A k \in 1..6 :
        /\ cf.areas[k].storey \in Int /\ cf.areas[k].txt \in Int
        /\ cf.areas[k].range[1] \in Int /\ cf.areas[k].range[2] \in Int
        /\ cf.areas[k].base_point[1] \in Int /\ cf.areas[k].base_point[2] \in Int
  BY <1>2, <1>4, Zenon
<1> QED BY <1>3, <1>4, <1>5, <1>6 DEF ProperConf

\* What a location is when area k is the last that covers its point.
LEMMA NumberedBy ==
  ASSUME NEW cf, Drawn(cf), NEW p, NEW k \in 1..6, Covers(template_areas[k], p),
         \A j \in 1..6 : Covers(template_areas[j], p) => j <= k
  PROVE  Storloc(cf, p) = Numbered(p, template_areas[k])
<1>1. Len(template_areas) = 6 /\ cf.areas = template_areas
  BY DEF template_areas, Drawn
<1> DEFINE n == AreaOver(cf, p)
<1>2. /\ n \in 0..6
      /\ n # 0 => Covers(template_areas[n], p)
      /\ \A j \in 1..6 : Covers(template_areas[j], p) => j <= n
  <2>1. Len(cf.areas) = 6 /\ Len(cf.areas) \in Nat
    BY <1>1
  <2>2. /\ n \in 0..Len(cf.areas)
        /\ n # 0 => Covers(cf.areas[n], p)
        /\ \A j \in 1..Len(cf.areas) : Covers(cf.areas[j], p) => j <= n
    BY <2>1, AreaOverIs, Zenon
  <2> QED BY <1>1, <2>1, <2>2, Zenon
<1> HIDE DEF n
<1>3. n = k
  BY <1>2
<1>4. Storloc(cf, p) = IF n = 0 THEN Unnumbered(p) ELSE Numbered(p, cf.areas[n])
  BY Zenon DEF Storloc, AreaOver, n
<1>5. n # 0
  BY <1>3
<1> QED BY <1>1, <1>3, <1>4, <1>5

Has(s, p, area, r, c) ==
  s.at = p /\ s.named /\ s.area = area /\ s.r = r /\ s.c = c

\* What an area says.
Bounds(area, txt, z, x1, y1, x2, y2, row, column) ==
  /\ area.txt = txt /\ area.storey = z
  /\ area.range = <<x1, y1, x2, y2>>
  /\ area.base_point = <<row, column>>

LEMMA AreaBounds ==
  LET t == template_areas
  IN /\ Bounds(t[1], 0, 0, 16, 14, 35, 27, 13, 19)
     /\ Bounds(t[2], 1, 0, 24, 5, 33, 9, 0, 9)
     /\ Bounds(t[3], 2, 0, 16, 5, 19, 9, 0, 3)
     /\ Bounds(t[4], 3, 1, 11, 20, 35, 27, 7, 24)
     /\ Bounds(t[5], 0, 0, 16, 15, 17, 23, 0, 19)
     /\ Bounds(t[6], 0, 0, 25, 15, 27, 23, 0, 10)
BY DEF template_areas, Bounds

LEMMA BoundsCover ==
  ASSUME NEW area, NEW txt, NEW z, NEW x1, NEW y1, NEW x2, NEW y2, NEW row, NEW column,
         Bounds(area, txt, z, x1, y1, x2, y2, row, column), NEW p
  PROVE  Covers(area, p) <=> p[1] = z /\ p[2] \in y1..y2 /\ p[3] \in x1..x2
BY DEF Bounds, Covers, Inside

\* The location an area makes of a point it covers, r and c being its numbers.
LEMMA BoundsNumber ==
  ASSUME NEW area, NEW txt, NEW z, NEW x1, NEW y1, NEW x2, NEW y2, NEW row, NEW column,
         Bounds(area, txt, z, x1, y1, x2, y2, row, column), NEW p, NEW r, NEW c,
         Number(row, p[2] - y1) = r, Number(column, p[3] - x1) = c
  PROVE  Has(Numbered(p, area), p, txt, r, c)
BY DEF Bounds, Numbered, Has

\* Numbers that count down to n, or up.
LEMMA Counted ==
  ASSUME NEW base \in 0..255, NEW offset \in Int, NEW n \in Int, n >= 0,
         IF base = 0 THEN n = offset ELSE offset >= 0 /\ n = base - offset
  PROVE  Number(base, offset) = n
<1>1. CASE base = 0
  BY <1>1, CountsUp
<1>2. CASE base # 0
  <2>1. base \in 1..255 /\ offset \in 0..base
    BY <1>2
  <2>2. Number(base, offset) = base - offset
    BY <2>1, CountsDown
  <2> QED BY <1>2, <2>2
<1> QED BY <1>1, <1>2

\* How the areas number the plots.
LEMMA PlotNumbers ==
  ASSUME NEW cf, Drawn(cf), NEW p, p[1] \in Int, p[2] \in Int, p[3] \in Int
  PROVE  LET s == Storloc(cf, p)
         IN /\ Plot0(p) => Has(s, p, 0, 27 - p[2], 35 - p[3])
            /\ Plot0b(p) => Has(s, p, 0, p[2] - 15, 35 - p[3])
            /\ Plot1(p) => Has(s, p, 1, p[2] - 5, 33 - p[3])
            /\ Plot2(p) => Has(s, p, 2, p[2] - 5, 19 - p[3])
            /\ Plot3(p) => Has(s, p, 3, 27 - p[2], 35 - p[3])
<1> DEFINE t == template_areas
           C(j) == Covers(t[j], p)
           y == p[2]
           x == p[3]
<1>1. /\ Bounds(t[1], 0, 0, 16, 14, 35, 27, 13, 19) /\ Bounds(t[2], 1, 0, 24, 5, 33, 9, 0, 9)
      /\ Bounds(t[3], 2, 0, 16, 5, 19, 9, 0, 3) /\ Bounds(t[4], 3, 1, 11, 20, 35, 27, 7, 24)
      /\ Bounds(t[5], 0, 0, 16, 15, 17, 23, 0, 19)
      /\ Bounds(t[6], 0, 0, 25, 15, 27, 23, 0, 10)
  BY AreaBounds, Zenon
<1>2. /\ C(1) <=> p[1] = 0 /\ y \in 14..27 /\ x \in 16..35
      /\ C(2) <=> p[1] = 0 /\ y \in 5..9 /\ x \in 24..33
      /\ C(3) <=> p[1] = 0 /\ y \in 5..9 /\ x \in 16..19
      /\ C(4) <=> p[1] = 1 /\ y \in 20..27 /\ x \in 11..35
      /\ C(5) <=> p[1] = 0 /\ y \in 15..23 /\ x \in 16..17
      /\ C(6) <=> p[1] = 0 /\ y \in 15..23 /\ x \in 25..27
  <2>1. C(1) <=> p[1] = 0 /\ y \in 14..27 /\ x \in 16..35
    BY <1>1, BoundsCover
  <2>2. C(2) <=> p[1] = 0 /\ y \in 5..9 /\ x \in 24..33
    BY <1>1, BoundsCover
  <2>3. C(3) <=> p[1] = 0 /\ y \in 5..9 /\ x \in 16..19
    BY <1>1, BoundsCover
  <2>4. C(4) <=> p[1] = 1 /\ y \in 20..27 /\ x \in 11..35
    BY <1>1, BoundsCover
  <2>5. C(5) <=> p[1] = 0 /\ y \in 15..23 /\ x \in 16..17
    BY <1>1, BoundsCover
  <2>6. C(6) <=> p[1] = 0 /\ y \in 15..23 /\ x \in 25..27
    BY <1>1, BoundsCover
  <2> QED BY <2>1, <2>2, <2>3, <2>4, <2>5, <2>6, Zenon
<1> HIDE DEF C, t
<1>3. ASSUME NEW k \in 1..6, C(k),
             C(1) => 1 <= k, C(2) => 2 <= k, C(3) => 3 <= k,
             C(4) => 4 <= k, C(5) => 5 <= k, C(6) => 6 <= k
      PROVE  Storloc(cf, p) = Numbered(p, t[k])
  <2>1. \A j \in 1..6 : C(j) => j <= k
    <3> TAKE j \in 1..6
    <3>1. j = 1 \/ j = 2 \/ j = 3 \/ j = 4 \/ j = 5 \/ j = 6
      OBVIOUS
    <3> QED BY <1>3, <3>1
  <2> QED BY <1>3, <2>1, NumberedBy, Zenon DEF C, t
<1>4. y \in Int /\ x \in Int
  OBVIOUS
<1> HIDE DEF y, x
<1>5. ASSUME Plot0(p)
      PROVE  Has(Storloc(cf, p), p, 0, 27 - y, 35 - x)
  <2>1. Storloc(cf, p) = Numbered(p, t[1])
    BY <1>2, <1>3, <1>5 DEF Plot0, y, x
  <2>2. Number(13, y - 14) = 27 - y
    <3>1. y \in 14..27
      BY <1>5 DEF Plot0, y
    <3> QED BY <3>1, Counted
  <2>3. Number(19, x - 16) = 35 - x
    <3>1. x \in 16..35
      BY <1>5 DEF Plot0, x
    <3> QED BY <3>1, Counted
  <2> QED BY <1>1, <2>1, <2>2, <2>3, BoundsNumber, Zenon DEF y, x
<1>6. ASSUME Plot0b(p)
      PROVE  Has(Storloc(cf, p), p, 0, y - 15, 35 - x)
  <2>1. CASE x \in 16..17
    <3>1. Storloc(cf, p) = Numbered(p, t[5])
      BY <1>2, <1>3, <1>6, <2>1 DEF Plot0b, y, x
    <3>2. Number(0, y - 15) = y - 15
      <4>1. y \in 15..23
        BY <1>6, <2>1 DEF Plot0b, y
      <4> QED BY <4>1, Counted
    <3>3. Number(19, x - 16) = 35 - x
      <4>1. x \in 16..17
        BY <1>6, <2>1 DEF Plot0b, x
      <4> QED BY <4>1, Counted
    <3> QED BY <1>1, <3>1, <3>2, <3>3, BoundsNumber, Zenon DEF y, x
  <2>2. CASE x \in 25..27
    <3>1. Storloc(cf, p) = Numbered(p, t[6])
      BY <1>2, <1>3, <1>6, <2>2 DEF Plot0b, y, x
    <3>2. Number(0, y - 15) = y - 15
      <4>1. y \in 15..23
        BY <1>6, <2>2 DEF Plot0b, y
      <4> QED BY <4>1, Counted
    <3>3. Number(10, x - 25) = 35 - x
      <4>1. x \in 25..27
        BY <1>6, <2>2 DEF Plot0b, x
      <4> QED BY <4>1, Counted
    <3> QED BY <1>1, <3>1, <3>2, <3>3, BoundsNumber, Zenon DEF y, x
  <2> QED BY <1>6, <2>1, <2>2 DEF Plot0b, x
<1>7. ASSUME Plot1(p)
      PROVE  Has(Storloc(cf, p), p, 1, y - 5, 33 - x)
  <2>1. Storloc(cf, p) = Numbered(p, t[2])
    BY <1>2, <1>3, <1>7 DEF Plot1, y, x
  <2>2. Number(0, y - 5) = y - 5
    <3>1. y \in 5..9
      BY <1>7 DEF Plot1, y
    <3> QED BY <3>1, Counted
  <2>3. Number(9, x - 24) = 33 - x
    <3>1. x \in 24..33
      BY <1>7 DEF Plot1, x
    <3> QED BY <3>1, Counted
  <2> QED BY <1>1, <2>1, <2>2, <2>3, BoundsNumber, Zenon DEF y, x
<1>8. ASSUME Plot2(p)
      PROVE  Has(Storloc(cf, p), p, 2, y - 5, 19 - x)
  <2>1. Storloc(cf, p) = Numbered(p, t[3])
    BY <1>2, <1>3, <1>8 DEF Plot2, y, x
  <2>2. Number(0, y - 5) = y - 5
    <3>1. y \in 5..9
      BY <1>8 DEF Plot2, y
    <3> QED BY <3>1, Counted
  <2>3. Number(3, x - 16) = 19 - x
    <3>1. x \in 16..19
      BY <1>8 DEF Plot2, x
    <3> QED BY <3>1, Counted
  <2> QED BY <1>1, <2>1, <2>2, <2>3, BoundsNumber, Zenon DEF y, x
<1>9. ASSUME Plot3(p)
      PROVE  Has(Storloc(cf, p), p, 3, 27 - y, 35 - x)
  <2>1. Storloc(cf, p) = Numbered(p, t[4])
    BY <1>2, <1>3, <1>9 DEF Plot3, y, x
  <2>2. Number(7, y - 20) = 27 - y
    <3>1. y \in 20..27
      BY <1>9 DEF Plot3, y
    <3> QED BY <3>1, Counted
  <2>3. Number(24, x - 11) = 35 - x
    <3>1. x \in 11..35
      BY <1>9 DEF Plot3, x
    <3> QED BY <3>1, Counted
  <2> QED BY <1>1, <2>1, <2>2, <2>3, BoundsNumber, Zenon DEF y, x
<1> QED BY <1>5, <1>6, <1>7, <1>8, <1>9, Zenon DEF y, x

\* Every location is on a plot, and is numbered by it.
PlottedAt(s, p) ==
  \/ Plot0(p) /\ Has(s, p, 0, 27 - p[2], 35 - p[3])
  \/ Plot0b(p) /\ Has(s, p, 0, p[2] - 15, 35 - p[3])
  \/ Plot1(p) /\ Has(s, p, 1, p[2] - 5, 33 - p[3])
  \/ Plot2(p) /\ Has(s, p, 2, p[2] - 5, 19 - p[3])
  \/ Plot3(p) /\ Has(s, p, 3, 27 - p[2], 35 - p[3])

LEMMA Located ==
  ASSUME NEW cf, Drawn(cf), NEW s \in Storlocs(cf)
  PROVE  /\ s.at = <<s.at[1], s.at[2], s.at[3]>> /\ s = Storloc(cf, s.at)
         /\ s.at[1] \in Int /\ s.at[2] \in Int /\ s.at[3] \in Int
         /\ PlottedAt(s, s.at)
<1>1. s.at \in Matrix(cf) /\ s = Storloc(cf, s.at)
  BY DrawnProper, StorlocsAre
<1> DEFINE p == s.at
<1> HIDE DEF p
<1>2. /\ p = <<p[1], p[2], p[3]>> /\ p[1] \in Int /\ p[2] \in Int /\ p[3] \in Int
      /\ Plot0(p) \/ Plot0b(p) \/ Plot1(p) \/ Plot2(p) \/ Plot3(p)
  BY <1>1, PointPlot DEF p
<1>3. s = Storloc(cf, p)
  BY <1>1 DEF p
<1>4. PlottedAt(s, p)
  BY <1>2, <1>3, PlotNumbers, Zenon DEF PlottedAt
<1> QED BY <1>2, <1>3, <1>4 DEF p

\* Every location has a name of its own.
LEMMA NamesOf ==
  ASSUME NEW cf, Drawn(cf)
  PROVE  NamesUnique(cf)
<1>1. ASSUME NEW s \in Storlocs(cf)
      PROVE  s.named
  BY <1>1, Located DEF PlottedAt, Has
<1>2. ASSUME NEW s \in Storlocs(cf), NEW o \in Storlocs(cf), Txt(s) = Txt(o)
      PROVE  s = o
  <2> DEFINE p == s.at
             d == o.at
  <2>1. s.area = o.area /\ s.r = o.r /\ s.c = o.c
    BY <1>1, <1>2 DEF Txt
  <2>2. /\ p = <<p[1], p[2], p[3]>> /\ s = Storloc(cf, p)
        /\ p[1] \in Int /\ p[2] \in Int /\ p[3] \in Int
        /\ d = <<d[1], d[2], d[3]>> /\ o = Storloc(cf, d)
        /\ d[1] \in Int /\ d[2] \in Int /\ d[3] \in Int
        /\ PlottedAt(s, p) /\ PlottedAt(o, d)
    BY Located
  <2> HIDE DEF p, d
  <2>3. \/ Plot0(p) /\ Has(s, p, 0, 27 - p[2], 35 - p[3])
           /\ Plot0(d) /\ Has(o, d, 0, 27 - d[2], 35 - d[3])
        \/ Plot0(p) /\ Has(s, p, 0, 27 - p[2], 35 - p[3])
           /\ Plot0b(d) /\ Has(o, d, 0, d[2] - 15, 35 - d[3])
        \/ Plot0b(p) /\ Has(s, p, 0, p[2] - 15, 35 - p[3])
           /\ Plot0(d) /\ Has(o, d, 0, 27 - d[2], 35 - d[3])
        \/ Plot0b(p) /\ Has(s, p, 0, p[2] - 15, 35 - p[3])
           /\ Plot0b(d) /\ Has(o, d, 0, d[2] - 15, 35 - d[3])
        \/ Plot1(p) /\ Has(s, p, 1, p[2] - 5, 33 - p[3])
           /\ Plot1(d) /\ Has(o, d, 1, d[2] - 5, 33 - d[3])
        \/ Plot2(p) /\ Has(s, p, 2, p[2] - 5, 19 - p[3])
           /\ Plot2(d) /\ Has(o, d, 2, d[2] - 5, 19 - d[3])
        \/ Plot3(p) /\ Has(s, p, 3, 27 - p[2], 35 - p[3])
           /\ Plot3(d) /\ Has(o, d, 3, 27 - d[2], 35 - d[3])
    BY <2>1, <2>2 DEF PlottedAt, Has
  <2>4. p[1] = d[1] /\ p[2] = d[2] /\ p[3] = d[3]
    BY <2>1, <2>2, <2>3 DEF Has, Plot0, Plot0b, Plot1, Plot2, Plot3
  <2> QED BY <2>2, <2>4
<1> QED BY <1>1, <1>2, Zenon DEF NamesUnique, Painted

\* Rectangles that lie off the plots.
Clear(spec) ==
  LET r == spec.range
  IN /\ r[1] \in 0..35 /\ r[2] \in 0..27 /\ r[3] \in 0..35 /\ r[4] \in 0..27
     /\ \/ spec.storey = 0
           /\ \/ r[4] <= 4 \/ r[3] <= 15
              \/ r[2] >= 10 /\ r[4] <= 13
              \/ r[1] >= 34 /\ r[4] <= 13
              \/ r[1] >= 20 /\ r[3] <= 23 /\ r[4] <= 13
              \/ r[2] >= 14 /\ r[4] <= 14 /\ r[1] >= 25 /\ r[3] <= 27
        \/ spec.storey = 1 /\ r[4] <= 18

LEMMA ClearCovers ==
  ASSUME NEW cf, Drawn(cf), NEW s \in Storlocs(cf), NEW spec, Clear(spec)
  PROVE  ~RectangleCovers(spec, CircleAt(cf, s))
<1> DEFINE p == s.at
           r == spec.range
           z == spec.storey
<1>1. /\ p[1] \in Int /\ p[2] \in Int /\ p[3] \in Int
      /\ Plot0(p) \/ Plot0b(p) \/ Plot1(p) \/ Plot2(p) \/ Plot3(p)
  BY Located DEF PlottedAt
<1>2. CircleAt(cf, s)[1] = p[3] + p[1] * 36 /\ CircleAt(cf, s)[2] = p[2]
  BY DEF CircleAt, Width, Drawn, Big
<1>3. RectangleCovers(spec, CircleAt(cf, s)) <=>
        /\ p[2] \in r[2]..r[4]
        /\ (p[3] + p[1] * 36) - (IF z = 0 THEN 0 ELSE 36) \in r[1]..r[3]
  <2> DEFINE place == CircleAt(cf, s)
             shift == IF z = 0 THEN 0 ELSE 36
             x == place[1] - shift
  <2>1. RectangleCovers(spec, place) <=> Inside(r, place[2], x)
    BY Zenon DEF RectangleCovers
  <2>2. Inside(r, place[2], x) <=> place[2] \in r[2]..r[4] /\ x \in r[1]..r[3]
    BY Zenon DEF Inside
  <2>3. place[2] = p[2] /\ place[1] = p[3] + p[1] * 36
    BY <1>2, Zenon
  <2> HIDE DEF shift
  <2>4. x = (p[3] + p[1] * 36) - shift
    BY <2>3, Zenon
  <2> HIDE DEF x
  <2>5. RectangleCovers(spec, place) <=> p[2] \in r[2]..r[4] /\ x \in r[1]..r[3]
    BY <2>1, <2>2, <2>3, Zenon
  <2> QED BY <2>4, <2>5, Zenon DEF shift
<1> HIDE DEF p, r
<1>4. p[1] = 0 \/ p[1] = 1
  BY <1>1 DEF Plot0, Plot0b, Plot1, Plot2, Plot3
<1>5. /\ r[1] \in 0..35 /\ r[2] \in 0..27 /\ r[3] \in 0..35 /\ r[4] \in 0..27
      /\ z = 0 \/ z = 1
  BY DEF Clear, r
<1>6. CASE p[1] = 1 /\ z = 0
  BY <1>1, <1>3, <1>5, <1>6 DEF Plot0, Plot0b, Plot1, Plot2, Plot3
<1>7. CASE p[1] = 0 /\ z = 1
  BY <1>1, <1>3, <1>5, <1>7 DEF Plot0, Plot0b, Plot1, Plot2, Plot3
<1>8. CASE p[1] = 1 /\ z = 1
  <2>1. r[4] <= 18
    BY <1>8 DEF Clear, r
  <2> QED BY <1>1, <1>3, <1>5, <1>8, <2>1 DEF Plot0, Plot0b, Plot1, Plot2, Plot3
<1>9. CASE p[1] = 0 /\ z = 0
  <2>1. \/ r[4] <= 4 \/ r[3] <= 15
        \/ r[2] >= 10 /\ r[4] <= 13
        \/ r[1] >= 34 /\ r[4] <= 13
        \/ r[1] >= 20 /\ r[3] <= 23 /\ r[4] <= 13
        \/ r[2] >= 14 /\ r[4] <= 14 /\ r[1] >= 25 /\ r[3] <= 27
    BY <1>9 DEF Clear, r
  <2> QED BY <1>1, <1>3, <1>5, <1>9, <2>1 DEF Plot0, Plot0b, Plot1, Plot2, Plot3
<1> QED BY <1>4, <1>5, <1>6, <1>7, <1>8, <1>9

\* The special locations of both files are clear of the plots.
LEMMA SpecsClear ==
  ASSUME NEW i \in 1..18
  PROVE  Clear(template_specs[i])
<1> DEFINE t == template_specs
<1>1. /\ t[1].range = <<2, 11, 2, 12>> /\ t[1].storey = 0
      /\ t[2].range = <<6, 11, 6, 12>> /\ t[2].storey = 0
      /\ t[3].range = <<12, 11, 12, 11>> /\ t[3].storey = 0
      /\ t[4].range = <<12, 12, 12, 12>> /\ t[4].storey = 0
      /\ t[5].range = <<25, 14, 27, 14>> /\ t[5].storey = 0
      /\ t[6].range = <<26, 13, 26, 13>> /\ t[6].storey = 0
      /\ t[7].range = <<26, 12, 26, 12>> /\ t[7].storey = 0
      /\ t[8].range = <<26, 11, 26, 11>> /\ t[8].storey = 0
      /\ t[9].range = <<29, 11, 29, 11>> /\ t[9].storey = 0
  BY DEF template_specs
<1>2. /\ t[10].range = <<29, 12, 29, 12>> /\ t[10].storey = 0
      /\ t[11].range = <<35, 8, 35, 8>> /\ t[11].storey = 0
      /\ t[12].range = <<20, 5, 23, 9>> /\ t[12].storey = 0
      /\ t[13].range = <<22, 16, 24, 16>> /\ t[13].storey = 1
      /\ t[14].range = <<23, 17, 23, 17>> /\ t[14].storey = 1
      /\ t[15].range = <<23, 18, 23, 18>> /\ t[15].storey = 1
      /\ t[16].range = <<27, 16, 27, 16>> /\ t[16].storey = 1
      /\ t[17].range = <<31, 18, 31, 18>> /\ t[17].storey = 1
      /\ t[18].range = <<2, 9, 2, 9>> /\ t[18].storey = 0
  BY DEF template_specs
<1> HIDE DEF t
<1>3. /\ Clear(t[1]) /\ Clear(t[2]) /\ Clear(t[3]) /\ Clear(t[4]) /\ Clear(t[5])
      /\ Clear(t[6]) /\ Clear(t[7]) /\ Clear(t[8]) /\ Clear(t[9])
  BY <1>1 DEF Clear
<1>4. /\ Clear(t[10]) /\ Clear(t[11]) /\ Clear(t[12]) /\ Clear(t[13]) /\ Clear(t[14])
      /\ Clear(t[15]) /\ Clear(t[16]) /\ Clear(t[17]) /\ Clear(t[18])
  BY <1>2 DEF Clear
<1>5. CASE i \in 1..9
  <2>1. \/ i = 1 \/ i = 2 \/ i = 3 \/ i = 4 \/ i = 5 \/ i = 6 \/ i = 7 \/ i = 8 \/ i = 9
    BY <1>5
  <2>2. Clear(t[i])
    BY <1>3, <2>1
  <2> QED BY <2>2 DEF t
<1>6. CASE i \in 10..18
  <2>1. \/ i = 10 \/ i = 11 \/ i = 12 \/ i = 13 \/ i = 14
        \/ i = 15 \/ i = 16 \/ i = 17 \/ i = 18
    BY <1>6
  <2>2. Clear(t[i])
    BY <1>4, <2>1
  <2> QED BY <2>2 DEF t
<1> QED BY <1>5, <1>6

LEMMA NothingHiddenOf ==
  ASSUME NEW file \in {conf_template, release_ini}
  PROVE  NothingHidden(parse_config(file))
<1> DEFINE cf == parse_config(file)
<1>1. cf.specs = file.specs /\ Drawn(cf)
  BY ParsedAre, BothDrawn, Zenon
<1>2. ASSUME NEW i \in DOMAIN file.specs
      PROVE  Clear(file.specs[i])
  <2>1. CASE file = conf_template
    <3>1. file.specs = template_specs
      BY <2>1, FilesAre
    <3>2. DOMAIN template_specs = 1..18
      BY DEF template_specs
    <3> QED BY <3>1, <3>2, SpecsClear
  <2>2. CASE file = release_ini
    <3> DEFINE front == SubSeq(template_specs, 1, 17)
               rest == << [txt |-> "Q01", range |-> <<17, 3, 17, 3>>, storey |-> 0],
                          [txt |-> "Q02", range |-> <<18, 3, 18, 3>>, storey |-> 0],
                          [txt |-> "Q03", range |-> <<19, 3, 19, 3>>, storey |-> 0],
                          [txt |-> "Q00", range |-> <<16, 3, 16, 3>>, storey |-> 0] >>
    <3>1. file.specs = front \o rest
      BY <2>2, FilesAre, Zenon
    <3>2. Len(front) = 17 /\ \A j \in 1..17 : front[j] = template_specs[j]
      BY DEF template_specs
    <3>3. /\ Len(rest) = 4
          /\ Clear(rest[1]) /\ Clear(rest[2]) /\ Clear(rest[3]) /\ Clear(rest[4])
      BY DEF Clear
    <3> DEFINE S == {template_specs[j] : j \in 1..18} \union {rest[j] : j \in 1..4}
    <3>4. front \in Seq(S)
      <4>1. template_specs = [j \in 1..18 |-> template_specs[j]]
        BY DEF template_specs
      <4> DEFINE t == template_specs
      <4> HIDE DEF t, rest
      <4>2. t \in Seq(S) /\ Len(t) = 18
        BY <4>1 DEF t
      <4> HIDE DEF S
      <4>3. SubSeq(t, 1, 17) \in Seq(S)
        <5>1. \A j \in 1..17 : t[j] \in S
          <6> TAKE j \in 1..17
          <6>1. j \in 1..Len(t)
            BY <4>2
          <6> QED BY <4>2, <6>1, ElementOfSeq
        <5> QED BY <5>1, SubSeqProperties, 1 \in Int, 17 \in Int, Zenon
      <4> QED BY <4>3 DEF t
    <3>5. rest \in Seq(S)
      <4>1. rest = [j \in 1..4 |-> rest[j]]
        OBVIOUS
      <4> HIDE DEF front, rest
      <4> QED BY <4>1
    <3> HIDE DEF front, rest, S
    <3> DEFINE both == front \o rest
    <3>6. /\ Len(both) = 21 /\ both \in Seq(S)
          /\ \A j \in 1..21 : both[j] = IF j <= 17 THEN front[j] ELSE rest[j - 17]
      <4>1. /\ both \in Seq(S) /\ Len(both) = Len(front) + Len(rest)
            /\ \A j \in 1..Len(front) + Len(rest) :
                 both[j] = IF j <= Len(front) THEN front[j] ELSE rest[j - Len(front)]
        BY <3>4, <3>5, ConcatProperties, Zenon
      <4>2. Len(front) = 17 /\ Len(rest) = 4
        BY <3>2, <3>3
      <4> HIDE DEF both
      <4> QED BY <4>1, <4>2
    <3>7. file.specs = both
      BY <3>1, Zenon
    <3> HIDE DEF both
    <3>8. DOMAIN both = 1..21
      BY <3>6
    <3>9. ASSUME NEW j \in 1..17
          PROVE  Clear(both[j])
      <4>1. both[j] = template_specs[j]
        <5>1. j \in 1..21 /\ j <= 17
          OBVIOUS
        <5>2. both[j] = front[j]
          BY <3>6, <5>1
        <5> QED BY <3>2, <5>2, Zenon
      <4>2. j \in 1..18
        OBVIOUS
      <4> QED BY <4>1, <4>2, SpecsClear
    <3>10. ASSUME NEW j \in 18..21
          PROVE  Clear(both[j])
      <4>1. both[j] = rest[j - 17]
        <5>1. j \in 1..21 /\ ~(j <= 17)
          OBVIOUS
        <5> QED BY <3>6, <5>1, Zenon
      <4>2. j - 17 = 1 \/ j - 17 = 2 \/ j - 17 = 3 \/ j - 17 = 4
        OBVIOUS
      <4> QED BY <3>3, <4>1, <4>2
    <3>11. i \in 1..17 \/ i \in 18..21
      BY <3>8, <3>7
    <3> QED BY <3>7, <3>9, <3>10, <3>11
  <2> QED BY <2>1, <2>2
<1> HIDE DEF cf
<1>3. \A i \in DOMAIN cf.specs, s \in Storlocs(cf) :
        ~RectangleCovers(cf.specs[i], CircleAt(cf, s))
  BY <1>1, <1>2, ClearCovers
<1> QED BY <1>3 DEF NothingHidden, cf

\* The numbers along the areas, from the coordinates of the first file.
Along(k, x, y, base, storey, area) ==
  /\ k.x = x /\ k.y = y /\ k.axis = 0 /\ k.base = base
  /\ k.storey = storey /\ k.area = area

LEMMA CoordsAre ==
  LET coords == parse_config(conf_template).coords
  IN /\ DOMAIN coords = 1..8
     /\ Along(coords[1], 16, 10, 3, 0, 2) /\ Along(coords[3], 16, 13, 19, 0, 0)
     /\ Along(coords[5], 24, 10, 9, 0, 1) /\ Along(coords[7], 11, 19, 24, 1, 3)
     /\ coords[2].axis = 1 /\ coords[4].axis = 1
     /\ coords[6].axis = 1 /\ coords[8].axis = 1
<1> DEFINE t == template_coords
           K == {"x", "y", "axis", "base", "len", "storey", "area"}
           Set(entry) == [key \in K |->
                            Setting(entry, key, IF key = "area" THEN -1 ELSE 0)]
           coords == parse_config(conf_template).coords
<1>1. coords = [i \in DOMAIN t |-> Set(t[i])]
  <2>1. conf_template.coords = t
    BY FilesAre
  <2>2. coords = [i \in DOMAIN conf_template.coords |-> Set(conf_template.coords[i])]
    BY ParsedAre, Zenon
  <2> QED BY <2>1, <2>2, Zenon
<1>2. DOMAIN t = 1..8
  BY DEF template_coords
<1>3. /\ t[1] = [x |-> 16, y |-> 10, axis |-> 0, base |-> 3, area |-> 2]
      /\ t[2] = [x |-> 15, y |-> 5, axis |-> 1, base |-> 0, len |-> 5]
      /\ t[3] = [x |-> 16, y |-> 13, axis |-> 0, base |-> 19, area |-> 0]
      /\ t[4] = [x |-> 15, y |-> 14, axis |-> 1, base |-> 13]
      /\ t[5] = [x |-> 24, y |-> 10, axis |-> 0, base |-> 9, area |-> 1]
      /\ t[6] = [x |-> 34, y |-> 5, axis |-> 1, base |-> 0, len |-> 5]
      /\ t[7] = [x |-> 11, y |-> 19, axis |-> 0, base |-> 24, storey |-> 1, area |-> 3]
      /\ t[8] = [x |-> 10, y |-> 20, axis |-> 1, base |-> 7, storey |-> 1]
  BY DEF template_coords
<1> HIDE DEF t, coords
<1>4. ASSUME NEW i \in 1..8
      PROVE  /\ coords[i].x = Setting(t[i], "x", 0) /\ coords[i].y = Setting(t[i], "y", 0)
             /\ coords[i].axis = Setting(t[i], "axis", 0)
             /\ coords[i].base = Setting(t[i], "base", 0)
             /\ coords[i].storey = Setting(t[i], "storey", 0)
             /\ coords[i].area = Setting(t[i], "area", -1)
  <2>1. coords[i] = Set(t[i])
    BY <1>1, <1>2
  <2> QED BY <2>1
<1>5. Along(coords[1], 16, 10, 3, 0, 2)
  BY <1>3, <1>4 DEF Along, Setting
<1>6. Along(coords[3], 16, 13, 19, 0, 0)
  BY <1>3, <1>4 DEF Along, Setting
<1>7. Along(coords[5], 24, 10, 9, 0, 1)
  BY <1>3, <1>4 DEF Along, Setting
<1>8. Along(coords[7], 11, 19, 24, 1, 3)
  BY <1>3, <1>4 DEF Along, Setting
<1>9. coords[2].axis = 1 /\ coords[4].axis = 1 /\ coords[6].axis = 1 /\ coords[8].axis = 1
  BY <1>3, <1>4 DEF Setting
<1>10. DOMAIN coords = 1..8
  BY <1>1, <1>2
<1> QED BY <1>5, <1>6, <1>7, <1>8, <1>9, <1>10 DEF coords

\* A label comes from one of the coordinates.
LEMMA LabelIs ==
  ASSUME NEW cf, NEW l \in Labels(cf)
  PROVE  \E i \in DOMAIN cf.coords :
           LET k == cf.coords[i]
           IN \E e \in 0..(IF k.base = 0 THEN k.len ELSE k.base + 1) - 1 :
                /\ l.axis = k.axis /\ l.area = k.area
                /\ l.number = IF k.base = 0 THEN e ELSE k.base - e
                /\ k.axis = 0 =>
                     l.place[1] = (k.x + IF k.storey = 0 THEN 0 ELSE Width(cf)) + e
<1> DEFINE N(k) == IF k.base = 0 THEN k.len ELSE k.base + 1
           left(k) == k.x + IF k.storey = 0 THEN 0 ELSE Width(cf)
           L(k, e) == [place  |-> IF k.axis = 0 THEN <<left(k) + e, k.y>>
                                                ELSE <<left(k), k.y + e>>,
                       axis   |-> k.axis,
                       area   |-> k.area,
                       number |-> IF k.base = 0 THEN e ELSE k.base - e]
<1>1. Labels(cf) = UNION {{L(cf.coords[i], e) : e \in 0..N(cf.coords[i]) - 1} :
                            i \in DOMAIN cf.coords}
  BY Zenon DEF Labels
<1>2. PICK i \in DOMAIN cf.coords : l \in {L(cf.coords[i], e) : e \in 0..N(cf.coords[i]) - 1}
  BY <1>1, Zenon
<1> DEFINE k == cf.coords[i]
<1> HIDE DEF k, N, left
<1>3. PICK e \in 0..N(k) - 1 : l = L(k, e)
  BY <1>2 DEF k
<1>4. /\ l.axis = k.axis /\ l.area = k.area
      /\ l.number = IF k.base = 0 THEN e ELSE k.base - e
      /\ k.axis = 0 => l.place[1] = left(k) + e
  BY <1>3
<1> QED BY <1>3, <1>4, Zenon DEF k, N, left

\* The numbers over the columns are those of the locations.
LEMMA TemplateLabels == LabelsRight(parse_config(conf_template))
<1> DEFINE cf == parse_config(conf_template)
<1>1. Drawn(cf)
  BY BothDrawn
<1>2. /\ DOMAIN cf.coords = 1..8
      /\ Along(cf.coords[1], 16, 10, 3, 0, 2) /\ Along(cf.coords[3], 16, 13, 19, 0, 0)
      /\ Along(cf.coords[5], 24, 10, 9, 0, 1) /\ Along(cf.coords[7], 11, 19, 24, 1, 3)
      /\ cf.coords[2].axis = 1 /\ cf.coords[4].axis = 1
      /\ cf.coords[6].axis = 1 /\ cf.coords[8].axis = 1
  BY CoordsAre
<1> HIDE DEF cf
<1>3. Width(cf) = 36
  BY <1>1 DEF Width, Drawn, Big
<1> SUFFICES ASSUME NEW l \in Labels(cf), NEW s \in Storlocs(cf), l.axis = 0,
                    l.area = s.area, l.place[1] = CircleAt(cf, s)[1]
             PROVE  l.number = s.c
  BY DEF LabelsRight, cf
<1>4. PICK i \in DOMAIN cf.coords :
        LET k == cf.coords[i]
        IN \E e \in 0..(IF k.base = 0 THEN k.len ELSE k.base + 1) - 1 :
             /\ l.axis = k.axis /\ l.area = k.area
             /\ l.number = IF k.base = 0 THEN e ELSE k.base - e
             /\ k.axis = 0 =>
                  l.place[1] = (k.x + IF k.storey = 0 THEN 0 ELSE Width(cf)) + e
  BY LabelIs, Zenon
<1> DEFINE k == cf.coords[i]
           p == s.at
<1>5. i = 1 \/ i = 2 \/ i = 3 \/ i = 4 \/ i = 5 \/ i = 6 \/ i = 7 \/ i = 8
  BY <1>2
<1>6. CircleAt(cf, s)[1] = p[3] + (p[1] * 36)
  BY <1>3 DEF CircleAt
<1>7. /\ p[1] \in Int /\ p[2] \in Int /\ p[3] \in Int
      /\ PlottedAt(s, p)
  BY <1>1, Located
<1> HIDE DEF k, p
<1>8. PICK e \in 0..(IF k.base = 0 THEN k.len ELSE k.base + 1) - 1 :
        /\ l.axis = k.axis /\ l.area = k.area
        /\ l.number = IF k.base = 0 THEN e ELSE k.base - e
        /\ k.axis = 0 => l.place[1] = (k.x + IF k.storey = 0 THEN 0 ELSE 36) + e
  BY <1>3, <1>4 DEF k
<1>9. \/ Along(k, 16, 10, 3, 0, 2) \/ Along(k, 16, 13, 19, 0, 0)
      \/ Along(k, 24, 10, 9, 0, 1) \/ Along(k, 11, 19, 24, 1, 3)
  BY <1>2, <1>5, <1>8 DEF k
<1>10. CASE Along(k, 16, 10, 3, 0, 2)
  <2>1. e \in 0..3 /\ l.area = 2 /\ l.number = 3 - e /\ p[3] + (p[1] * 36) = 16 + e
    BY <1>6, <1>8, <1>10 DEF Along
  <2> QED BY <1>7, <2>1 DEF PlottedAt, Has, Plot2
<1>11. CASE Along(k, 16, 13, 19, 0, 0)
  <2>1. e \in 0..19 /\ l.area = 0 /\ l.number = 19 - e /\ p[3] + (p[1] * 36) = 16 + e
    BY <1>6, <1>8, <1>11 DEF Along
  <2> QED BY <1>7, <2>1 DEF PlottedAt, Has, Plot0, Plot0b
<1>12. CASE Along(k, 24, 10, 9, 0, 1)
  <2>1. e \in 0..9 /\ l.area = 1 /\ l.number = 9 - e /\ p[3] + (p[1] * 36) = 24 + e
    BY <1>6, <1>8, <1>12 DEF Along
  <2> QED BY <1>7, <2>1 DEF PlottedAt, Has, Plot1
<1>13. CASE Along(k, 11, 19, 24, 1, 3)
  <2>1. /\ e \in 0..24 /\ l.area = 3 /\ l.number = 24 - e
        /\ p[3] + (p[1] * 36) = 47 + e
    BY <1>6, <1>8, <1>13 DEF Along
  <2> QED BY <1>7, <2>1 DEF PlottedAt, Has, Plot3
<1> QED BY <1>9, <1>10, <1>11, <1>12, <1>13

\* The released file has no coordinates, so no numbers are drawn.
LEMMA ReleaseLabels == LabelsRight(parse_config(release_ini))
<1> DEFINE cf == parse_config(release_ini)
           K == {"x", "y", "axis", "base", "len", "storey", "area"}
           Set(entry) == [key \in K |->
                            Setting(entry, key, IF key = "area" THEN -1 ELSE 0)]
           zero == [x |-> 0]
<1>1. cf.coords = [i \in 1..8 |-> Set(zero)]
  <2>1. release_ini.coords = [i \in 1..8 |-> zero]
    BY FilesAre, Zenon
  <2>2. cf.coords = [i \in DOMAIN release_ini.coords |-> Set(release_ini.coords[i])]
    BY ParsedAre, Zenon
  <2> HIDE DEF cf
  <2> QED BY <2>1, <2>2
<1>2. Set(zero).base = 0 /\ Set(zero).len = 0
  BY DEF Setting
<1> HIDE DEF cf, Set, zero
<1>3. \A i \in DOMAIN cf.coords : cf.coords[i].base = 0 /\ cf.coords[i].len = 0
  BY <1>1, <1>2
<1>4. Labels(cf) = {}
  <2> SUFFICES ASSUME NEW l \in Labels(cf) PROVE FALSE
    OBVIOUS
  <2>1. PICK i \in DOMAIN cf.coords :
          LET k == cf.coords[i]
          IN \E e \in 0..(IF k.base = 0 THEN k.len ELSE k.base + 1) - 1 : TRUE
    BY LabelIs, Zenon
  <2> QED BY <1>3, <2>1
<1> QED BY <1>4 DEF LabelsRight, cf

\* The configuration of either file is right.
LEMMA FilesRight ==
  ASSUME NEW file \in {conf_template, release_ini}
  PROVE  Right(parse_config(file))
<1>1. NamesUnique(parse_config(file)) /\ ProperConf(parse_config(file))
  BY BothDrawn, DrawnProper, NamesOf
<1>2. NothingHidden(parse_config(file))
  BY NothingHiddenOf
<1>3. LabelsRight(parse_config(file))
  BY TemplateLabels, ReleaseLabels
<1>4. PlanComplete(parse_config(file))
  BY <1>1, PlanOfNames
<1> QED BY <1>1, <1>2, <1>3, <1>4, Zenon DEF Right

\* The window has read no configuration or one of the two files.
ConfRead == conf \in 0..2

\* On the map the client builds from either file every location has a name of
\* its own, labels and circles agree, no special location hides one and the
\* plan of columns is complete and in order (FrmAGV.cpp, FormCreate).
THEOREM MapIsRight == Spec => []MapRight
<1>1. DOMAIN Files = 1..2 /\ Files[1] = conf_template /\ Files[2] = release_ini
  BY DEF Files
<1>2. \A f \in 1..2 : Right(parse_config(Files[f]))
  <2> TAKE f \in 1..2
  <2>1. f = 1 \/ f = 2
    OBVIOUS
  <2>2. Files[f] \in {conf_template, release_ini}
    BY <1>1, <2>1
  <2> QED BY <2>2, FilesRight
<1>3. Init => ConfRead
  BY DEF Init, ConfRead
<1>4. ConfRead /\ [Next]_vars => ConfRead'
  <2> SUFFICES ASSUME ConfRead, [Next]_vars PROVE ConfRead'
    OBVIOUS
  <2>1. CASE UNCHANGED conf
    BY <2>1 DEF ConfRead
  <2>2. ASSUME NEW f \in DOMAIN Files, Start(f)
        PROVE  ConfRead'
    BY <1>1, <2>2 DEF Start, ConfRead
  <2>3. (\E f \in DOMAIN Files : Start(f)) \/ UNCHANGED conf
    BY Zenon DEF Next, vars, HubHears, HubRestarts, FreshAnswered, FreshLost, Refresh,
                 ColorButtonClick, CircleClick, SlctClick, SchdlClick
  <2> QED BY <2>1, <2>2, <2>3
<1>5. ConfRead => MapRight
  <2> SUFFICES ASSUME ConfRead, conf # 0 PROVE RightOf[conf]
    BY Zenon DEF MapRight
  <2>1. conf \in DOMAIN Files
    BY <1>1 DEF ConfRead
  <2> QED BY <1>1, <1>2, <2>1, Zenon DEF RightOf
<1> QED BY <1>3, <1>4, <1>5, PTL DEF Spec
=============================================================================
