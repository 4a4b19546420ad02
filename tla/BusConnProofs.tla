---------------------------- MODULE BusConnProofs ----------------------------
(***************************************************************************)
(* The bus answers the one who registered, closes no connection on its own *)
(* and keeps every frame: for every number of connections, sockets and     *)
(* restarts, whatever peers send, whatever recv returns and whatever the   *)
(* allocator gives again.                                                  *)
(***************************************************************************)
EXTENDS BusConn, AgvRegistryProofs, SequenceTheorems, WellFoundedInduction

-----------------------------------------------------------------------------
(* The inductive invariant                                                 *)

Record == [fd : Sockets \union {0}, buf : Seq(Word)]

\* What is known of every variable of the bus.
MemoryInv ==
  /\ conns \in 0..MaxConns /\ starts \in 0..MaxStarts
  /\ closed \subseteq Conn /\ hurt \subseteq Conn /\ free \in [Rec -> Nat]
  /\ wire \in [Conn -> Seq(Word)]
  /\ owner \in [Sockets -> 0..MaxConns]
  /\ bus_conn \in Seq(Rec)
  /\ heap \in [Rec -> Record]
  /\ at \in Rec \union {0}
  /\ dispatcher \in Sockets \union {0}
  /\ registrant \in 0..MaxConns /\ answer \in 0..MaxConns

\* Sockets belong to connections that were made, and no two to one.
OwnerInv ==
  /\ \A s \in Sockets : owner[s] <= conns
  /\ \A s, t \in Sockets : owner[s] = owner[t] /\ owner[s] # 0 => s = t

\* A record that is parsed is that of an open socket.
ParseInv == at # 0 => heap[at].fd \in Sockets /\ owner[heap[at].fd] # 0

\* Only the record that is parsed may be full.
RoomInv ==
  \A r \in Rec : /\ Len(heap[r].buf) <= LEN_BUF_RCV
                 /\ r # at => Len(heap[r].buf) < LEN_BUF_RCV

\* The last to register is the owner of the dispatcher's socket.
AnswerInv ==
  /\ registrant <= conns
  /\ dispatcher # 0 => registrant # 0
  /\ dispatcher # 0 /\ Open(registrant) => owner[dispatcher] = registrant
  /\ ToRegistrant

BInv == MemoryInv /\ OwnerInv /\ ParseInv /\ RoomInv /\ AnswerInv

-----------------------------------------------------------------------------
(* Numbers and sequences                                                   *)

LEMMA Bounds ==
  /\ Sockets \subseteq Nat \ {0} /\ LEN_BUF_RCV \in Nat /\ LEN_BUF_RCV > 8
  /\ MaxConns \in Nat /\ MaxStarts \in Nat /\ LenDx = 8 /\ Mod = 3
  BY BusAssumption DEF LenDx, Mod

\* A set of numbers with 0 and with the next of each of its own is all of Nat.
LEMMA Inducts ==
  ASSUME NEW S \in SUBSET Nat, 0 \in S, \A n \in S : n + 1 \in S
  PROVE  S = Nat
<1> DEFINE R == {ss \in Nat \X Nat : ss[1] < ss[2]}
           T == Nat \ S
<1>1. IsWellFoundedOn(R, Nat)
  BY NatLessThanWellFounded, Zenon DEF OpToRel
<1>2. ASSUME T # {} PROVE FALSE
  <2>1. \E x \in T : \A y \in T : <<y, x>> \notin R
    <3> HIDE DEF R
    <3>1. T \subseteq Nat
      OBVIOUS
    <3> HIDE DEF T
    <3> QED BY <1>1, <1>2, <3>1, WFMin, Zenon
  <2>2. PICK x \in T : \A y \in T : <<y, x>> \notin R
    BY <2>1, Zenon
  <2>3. x \in Nat /\ x # 0 /\ x - 1 \in Nat
    OBVIOUS
  <2>4. <<x - 1, x>> \in R
    BY <2>3
  <2>5. x - 1 \in S
    BY <2>2, <2>3, <2>4
  <2> QED BY <2>3, <2>5
<1> QED BY <1>2

\* Among some natural numbers there is a least.
LEMMA LeastNat ==
  ASSUME NEW T \in SUBSET Nat, T # {}
  PROVE  Min(T) \in T /\ \A y \in T : Min(T) <= y
<1> DEFINE R == {ss \in Nat \X Nat : ss[1] < ss[2]}
<1>1. IsWellFoundedOn(R, Nat)
  BY NatLessThanWellFounded, Zenon DEF OpToRel
<1>2. \E x \in T : \A y \in T : <<y, x>> \notin R
  <2> HIDE DEF R
  <2> QED BY <1>1, WFMin, Zenon
<1>3. PICK x \in T : \A y \in T : <<y, x>> \notin R
  BY <1>2, Zenon
<1>4. ASSUME NEW y \in T PROVE x <= y
  <2>1. <<y, x>> \notin R
    BY <1>3, Zenon
  <2> QED BY <2>1
<1> QED BY <1>4, Zenon DEF Min

LEMMA Part ==
  ASSUME NEW b \in Seq(Word), NEW m \in Nat, m >= 1
  PROVE  /\ SubSeq(b, m, Len(b)) \in Seq(Word)
         /\ Len(SubSeq(b, m, Len(b))) = IF m <= Len(b) THEN Len(b) - m + 1 ELSE 0
<1>1. Len(b) \in Nat /\ \A i \in m..Len(b) : b[i] \in Word
  OBVIOUS
<1> QED BY <1>1, SubSeqProperties

LEMMA Start ==
  ASSUME NEW b \in Seq(Word), NEW n \in 0..Len(b)
  PROVE  SubSeq(b, 1, n) \in Seq(Word) /\ Len(SubSeq(b, 1, n)) = n
<1>1. Len(b) \in Nat /\ n \in Int /\ \A i \in 1..n : b[i] \in Word
  OBVIOUS
<1> QED BY <1>1, SubSeqProperties

\* Less is left after looking for a head, unless one is found at once.
LEMMA Resynced ==
  ASSUME NEW b \in Seq(Word), Len(b) >= 8
  PROVE  /\ Resync(b) \in Seq(Word)
         /\ Len(Resync(b)) <= Len(b)
         /\ Heads(b) = {} => Len(Resync(b)) < 3
<1> DEFINE q == IF Heads(b) = {} THEN Len(b) \div 3 ELSE Min(Heads(b))
<1>1. Len(b) \in Nat
  OBVIOUS
<1>2. q \in Nat /\ (Heads(b) = {} => q = Len(b) \div 3)
  <2>1. Heads(b) \subseteq Nat
    BY DEF Heads
  <2>2. Len(b) \div 3 \in Nat
    BY <1>1
  <2> QED BY <2>1, <2>2, LeastNat
<1>3. Resync(b) = SubSeq(b, 3 * q + 1, Len(b))
  BY Zenon DEF Resync, Mod
<1> HIDE DEF q
<1>4. 3 * q + 1 \in Nat /\ 3 * q + 1 >= 1
  BY <1>2
<1>5. /\ Resync(b) \in Seq(Word)
      /\ Len(Resync(b)) = IF 3 * q + 1 <= Len(b) THEN Len(b) - (3 * q + 1) + 1 ELSE 0
  BY <1>3, <1>4, Part, Zenon
<1> QED BY <1>1, <1>2, <1>4, <1>5

\* The first place of a socket's record.
LEMMA FirstPlace ==
  ASSUME MemoryInv, NEW s \in Sockets, Places(s) # {}
  PROVE  /\ Min(Places(s)) \in DOMAIN bus_conn
         /\ bus_conn[Min(Places(s))] \in Rec
         /\ heap[bus_conn[Min(Places(s))]].fd = s
<1>1. Places(s) \subseteq Nat
  BY DEF Places, MemoryInv
<1>2. Min(Places(s)) \in Places(s)
  BY <1>1, LeastNat, Zenon
<1> QED BY <1>2 DEF Places, MemoryInv

-----------------------------------------------------------------------------
(* Streams                                                                 *)

AWord(m, i, k) == [msg |-> m, i |-> i, k |-> k]

\* Words come in order; those of a message follow each other, and after the
\* last of them comes the first of another message.
Ordered(x) == \A p, q \in 1..Len(x) : p < q => Before(x[p], x[q])
Follows(x) ==
  \A p \in 1..Len(x), d \in Nat :
    p + d \in 1..Len(x) /\ x[p].k + d <= x[p].msg.len
      => x[p + d] = AWord(x[p].msg, x[p].i, x[p].k + d)
Begins(x) ==
  \A p \in 1..Len(x) :
    p + 1 <= Len(x) /\ x[p].k = x[p].msg.len => x[p + 1].k = 1
InOrder(x) == Ordered(x) /\ Follows(x) /\ Begins(x)

\* The words of x are those of the first n messages.
WordsTo(ms, n, x) ==
  /\ \A p \in 1..Len(x) : /\ x[p].i \in 1..n /\ x[p].msg = ms[x[p].i]
                          /\ x[p].k \in 1..x[p].msg.len
  /\ \A i \in 1..n : \A k \in 1..ms[i].len :
       \E p \in 1..Len(x) : x[p] = AWord(ms[i], i, k)

Ends(x) == Len(x) # 0 => x[Len(x)].k = x[Len(x)].msg.len

AnyWord(ms) == [msg : {ms[i] : i \in DOMAIN ms}, i : Nat, k : Nat]

Told(ms, n, x) ==
  x \in Seq(AnyWord(ms)) /\ InOrder(x) /\ WordsTo(ms, n, x) /\ Ends(x)

LEMMA ToldNone ==
  ASSUME NEW ms PROVE Told(ms, 0, <<>>)
<1>1. Len(<<>>) = 0 /\ <<>> \in Seq(AnyWord(ms))
  OBVIOUS
<1> QED BY <1>1 DEF Told, InOrder, Ordered, Follows, Begins, WordsTo, Ends

LEMMA ToldOne ==
  ASSUME NEW ms \in Streams, NEW n \in Nat, NEW x, Told(ms, n, x),
         n + 1 \in DOMAIN ms
  PROVE  Told(ms, n + 1, x \o Words(ms[n + 1], n + 1))
<1> DEFINE W == AnyWord(ms)
           m == ms[n + 1]
           w == Words(m, n + 1)
           y == x \o w
<1>1. m.len \in Nat
  BY StreamAssumption
<1>2. w \in Seq(W) /\ Len(w) = m.len /\ \A k \in 1..m.len : w[k] = AWord(m, n + 1, k)
  <2>1. \A k \in 1..m.len : AWord(m, n + 1, k) \in W
    BY <1>1 DEF AnyWord, AWord
  <2>2. w = [k \in 1..m.len |-> AWord(m, n + 1, k)]
    BY DEF Words, AWord
  <2>3. w \in [1..m.len -> W]
    <3> HIDE DEF W, w, m
    <3> QED BY <2>1, <2>2, Zenon
  <2> HIDE DEF W, w, m
  <2> QED BY <1>1, <2>2, <2>3
<1> HIDE DEF W, w, m
<1>3. x \in Seq(W) /\ Len(x) \in Nat
  BY DEF Told, W
<1>4. /\ y \in Seq(W) /\ Len(y) = Len(x) + m.len
      /\ \A p \in 1..Len(x) + m.len : y[p] = IF p <= Len(x) THEN x[p] ELSE w[p - Len(x)]
  <2>1. /\ y \in Seq(W) /\ Len(y) = Len(x) + Len(w)
        /\ \A p \in 1..Len(x) + Len(w) : y[p] = IF p <= Len(x) THEN x[p] ELSE w[p - Len(x)]
    BY <1>2, <1>3, ConcatProperties, Zenon
  <2> HIDE DEF y
  <2> QED BY <1>2, <2>1
<1> HIDE DEF y
<1>5. /\ Len(y) \in Nat
      /\ \A p \in 1..Len(x) : y[p] = x[p] /\ p \in 1..Len(y)
      /\ \A p \in 1..Len(y) : p > Len(x) =>
           /\ p - Len(x) \in 1..m.len
           /\ y[p] = AWord(m, n + 1, p - Len(x))
           /\ y[p].msg = m /\ y[p].i = n + 1 /\ y[p].k = p - Len(x)
  <2>1. ASSUME NEW p \in 1..Len(y), p > Len(x)
        PROVE  p - Len(x) \in 1..m.len /\ y[p] = AWord(m, n + 1, p - Len(x))
    BY <1>1, <1>2, <1>3, <1>4, <2>1, SMTT(20)
  <2>2. Len(y) \in Nat /\ \A p \in 1..Len(x) : y[p] = x[p] /\ p \in 1..Len(y)
    BY <1>1, <1>3, <1>4
  <2> QED BY <2>1, <2>2 DEF AWord
<1>6. \A p \in 1..Len(x) : x[p].i \in 1..n /\ x[p].k \in 1..x[p].msg.len /\ x[p].msg = ms[x[p].i]
  BY DEF Told, WordsTo
<1>7. Ordered(y)
  <2> SUFFICES ASSUME NEW p \in 1..Len(y), NEW q \in 1..Len(y), p < q
               PROVE  Before(y[p], y[q])
    BY DEF Ordered
  <2>1. CASE q <= Len(x)
    BY <1>3, <1>5, <2>1 DEF Told, InOrder, Ordered
  <2>2. CASE p <= Len(x) /\ q > Len(x)
    BY <1>3, <1>5, <1>6, <2>2 DEF Before
  <2>3. CASE p > Len(x) /\ q > Len(x)
    BY <1>3, <1>5, <2>3 DEF Before
  <2> QED BY <1>3, <2>1, <2>2, <2>3
<1>8. Follows(y)
  <2> SUFFICES ASSUME NEW p \in 1..Len(y), NEW d \in Nat,
                      p + d \in 1..Len(y), y[p].k + d <= y[p].msg.len
               PROVE  y[p + d] = AWord(y[p].msg, y[p].i, y[p].k + d)
    BY DEF Follows
  <2>1. CASE p + d <= Len(x)
    <3>1. p \in 1..Len(x) /\ p + d \in 1..Len(x)
      BY <1>3, <2>1
    <3> QED BY <1>5, <3>1, ZenonT(20) DEF Told, InOrder, Follows
  <2>2. CASE p <= Len(x) /\ p + d > Len(x)
    <3> DEFINE e == Len(x) - p
    <3>1. p \in 1..Len(x) /\ e \in Nat /\ p + e = Len(x) /\ p + e \in 1..Len(x) /\ e < d
      <4>1. Len(x) \in Nat /\ p \in Nat /\ p >= 1 /\ d \in Nat
        BY <1>3
      <4> HIDE DEF y
      <4> QED BY <2>2, <4>1
    <3>2. x[p].k \in Nat /\ x[p].msg.len \in Nat /\ x[p].k + d <= x[p].msg.len
      <4>1. x[p].i \in 1..n /\ n + 1 \in DOMAIN ms /\ x[p].msg = ms[x[p].i]
        BY <1>6, <3>1
      <4>2. x[p].i \in DOMAIN ms
        <5>1. ms \in Seq({ms[i] : i \in DOMAIN ms})
          BY StreamAssumption, Zenon
        <5> QED BY <4>1, <5>1
      <4>3. x[p].msg.len \in Nat
        BY <4>1, <4>2, StreamAssumption
      <4> QED BY <1>5, <1>6, <3>1, <4>3
    <3> HIDE DEF e
    <3>3. x[Len(x)] = AWord(x[p].msg, x[p].i, x[p].k + e)
      <4>1. x[p].k + e <= x[p].msg.len
        BY <3>1, <3>2, SMTT(20)
      <4> QED BY <3>1, <4>1 DEF Told, InOrder, Follows
    <3>4. x[Len(x)].k = x[p].k + e /\ x[Len(x)].msg = x[p].msg
      BY <3>3 DEF AWord
    <3>5. x[Len(x)].k = x[Len(x)].msg.len
      BY <3>1 DEF Told, Ends
    <3> QED BY <3>1, <3>2, <3>4, <3>5
  <2>3. CASE p > Len(x)
    <3>1. /\ y[p] = AWord(m, n + 1, p - Len(x))
          /\ y[p + d] = AWord(m, n + 1, p + d - Len(x))
      BY <1>3, <1>5, <2>3
    <3>2. y[p].msg = m /\ y[p].i = n + 1 /\ y[p].k = p - Len(x)
      BY <3>1 DEF AWord
    <3>3. p + d - Len(x) = p - Len(x) + d
      BY <1>3
    <3> QED BY <3>1, <3>2, <3>3
  <2> QED BY <1>3, <2>1, <2>2, <2>3
<1>9. Begins(y)
  <2> SUFFICES ASSUME NEW p \in 1..Len(y), p + 1 <= Len(y), y[p].k = y[p].msg.len
               PROVE  y[p + 1].k = 1
    BY DEF Begins
  <2>1. CASE p + 1 <= Len(x)
    <3>1. p \in 1..Len(x) /\ p + 1 \in 1..Len(x)
      BY <1>3, <2>1
    <3> QED BY <1>5, <2>1, <3>1 DEF Told, InOrder, Begins
  <2>2. CASE p = Len(x)
    <3>1. p + 1 \in 1..Len(y) /\ p + 1 > Len(x) /\ p + 1 - Len(x) = 1
      BY <1>3, <1>5, <2>2
    <3>2. y[p + 1] = AWord(m, n + 1, 1)
      BY <1>5, <3>1
    <3> QED BY <3>2 DEF AWord
  <2>3. CASE p > Len(x)
    <3>1. y[p] = AWord(m, n + 1, p - Len(x)) /\ p + 1 - Len(x) <= m.len
      BY <1>3, <1>5, <2>3
    <3>2. y[p].msg = m /\ y[p].k = p - Len(x)
      BY <3>1 DEF AWord
    <3> QED BY <1>1, <1>3, <3>1, <3>2
  <2> QED BY <1>3, <2>1, <2>2, <2>3
<1>10. WordsTo(ms, n + 1, y)
  <2>1. ASSUME NEW p \in 1..Len(y)
        PROVE  y[p].i \in 1..n + 1 /\ y[p].msg = ms[y[p].i] /\ y[p].k \in 1..y[p].msg.len
    <3>1. CASE p <= Len(x)
      BY <1>3, <1>5, <1>6, <3>1
    <3>2. CASE p > Len(x)
      BY <1>1, <1>3, <1>5, <3>2 DEF m
    <3> QED BY <1>3, <3>1, <3>2
  <2>2. ASSUME NEW i \in 1..n + 1, NEW k \in 1..ms[i].len
        PROVE  \E p \in 1..Len(y) : y[p] = AWord(ms[i], i, k)
    <3>1. CASE i = n + 1
      <4>1. Len(x) + k \in 1..Len(y) /\ Len(x) + k > Len(x) /\ Len(x) + k - Len(x) = k
        BY <1>1, <1>3, <1>4, <3>1 DEF m
      <4>2. y[Len(x) + k] = AWord(m, n + 1, k)
        BY <1>5, <4>1
      <4> QED BY <3>1, <4>1, <4>2 DEF m
    <3>2. CASE i # n + 1
      <4>1. i \in 1..n
        BY <3>2
      <4>2. PICK p \in 1..Len(x) : x[p] = AWord(ms[i], i, k)
        BY <4>1 DEF Told, WordsTo
      <4> QED BY <1>5, <4>2
    <3> QED BY <3>1, <3>2
  <2> QED BY <2>1, <2>2 DEF WordsTo
<1>11. Ends(y)
  <2>1. CASE m.len = 0
    <3>1. Len(y) = Len(x)
      BY <1>3, <1>4, <2>1
    <3>2. Len(x) # 0 => y[Len(x)] = x[Len(x)]
      BY <1>3, <1>5
    <3> QED BY <3>1, <3>2 DEF Told, Ends
  <2>2. CASE m.len # 0
    <3>1. Len(y) \in 1..Len(y) /\ Len(y) > Len(x) /\ Len(y) - Len(x) = m.len
      BY <1>1, <1>3, <1>4, <2>2
    <3>2. y[Len(y)] = AWord(m, n + 1, m.len)
      BY <1>5, <3>1
    <3> QED BY <3>2 DEF Ends, AWord
  <2> QED BY <2>1, <2>2
<1> QED BY <1>4, <1>7, <1>8, <1>9, <1>10, <1>11 DEF Told, InOrder, W, y, w, m


\* The messages one after the other.
LEMMA StreamTold ==
  ASSUME NEW ms \in Streams
  PROVE  Told(ms, Len(ms), Stream(ms)) /\ Len(ms) \in Nat /\ DOMAIN ms = 1..Len(ms)
<1> DEFINE N == Len(ms)
           S == [i \in DOMAIN ms |-> Words(ms[i], i)]
           Body(g) == [i \in 1..Len(S) |-> IF i = 1 THEN S[i] ELSE g[i - 1] \o S[i]]
           It == CHOOSE g : g = Body(g)
<1>1. N \in Nat /\ DOMAIN ms = 1..N
  <2>1. ms \in Seq({ms[i] : i \in DOMAIN ms})
    BY StreamAssumption, Zenon
  <2> QED BY <2>1
<1>2. Len(S) = N
  <2> DEFINE V == {S[i] : i \in 1..N}
  <2>1. S \in [1..N -> V]
    BY <1>1
  <2> HIDE DEF S, V
  <2> QED BY <1>1, <2>1
<1>3. Stream(ms) = IF N = 0 THEN S ELSE It[N]
  <2>1. CASE N = 0
    BY <1>2, <2>1 DEF Stream, FlattenSeq
  <2>2. CASE N # 0
    BY <1>2, <2>2 DEF Stream, FlattenSeq
  <2> QED BY <2>1, <2>2
<1>4. \A i \in 1..N : S[i] = Words(ms[i], i)
  BY <1>1
<1> HIDE DEF S
<1>5. \E g : g = Body(g)
  <2> DEFINE Upto(n, g) == g = [i \in 1..n |-> IF i = 1 THEN S[i] ELSE g[i - 1] \o S[i]]
             G == {n \in Nat : \E g : Upto(n, g)}
  <2>1. 0 \in G
    <3>1. Upto(0, [i \in 1..0 |-> 0])
      OBVIOUS
    <3> QED BY <3>1
  <2>2. ASSUME NEW n \in G PROVE n + 1 \in G
    <3>1. PICK h : Upto(n, h)
      OBVIOUS
    <3> DEFINE last == IF n = 0 THEN S[1] ELSE h[n] \o S[n + 1]
    <3> HIDE DEF last
    <3> DEFINE g == [i \in 1..n + 1 |-> IF i = n + 1 THEN last ELSE h[i]]
    <3>2. \A i \in 1..n + 1 : g[i] = IF i = 1 THEN S[i] ELSE g[i - 1] \o S[i]
      <4> TAKE i \in 1..n + 1
      <4>1. CASE i = n + 1
        <5>1. CASE n = 0
          BY <4>1, <5>1 DEF last
        <5>2. CASE n # 0
          <6>1. n \in 1..n + 1 /\ n # n + 1 /\ i - 1 = n /\ i # 1 /\ i \in 1..n + 1
            BY <4>1, <5>2
          <6>2. g[n] = h[n] /\ g[i] = last
            BY <4>1, <6>1
          <6>3. last = h[n] \o S[n + 1]
            BY <5>2 DEF last
          <6> HIDE DEF g
          <6> QED BY <4>1, <6>1, <6>2, <6>3
        <5> QED BY <5>1, <5>2
      <4>2. CASE i # n + 1
        <5>1. i \in 1..n /\ g[i] = h[i]
          BY <4>2
        <5>2. h[i] = IF i = 1 THEN S[i] ELSE h[i - 1] \o S[i]
          BY <3>1, <5>1, Zenon
        <5>3. i # 1 => g[i - 1] = h[i - 1]
          BY <4>2
        <5> HIDE DEF g
        <5> QED BY <5>1, <5>2, <5>3
      <4> QED BY <4>1, <4>2
    <3>3. Upto(n + 1, g)
      <4>1. g = [i \in 1..n + 1 |-> g[i]]
        OBVIOUS
      <4> HIDE DEF g
      <4> QED BY <3>2, <4>1
    <3>4. n + 1 \in Nat
      OBVIOUS
    <3> HIDE DEF g, Upto
    <3> QED BY <3>3, <3>4
  <2>3. G = Nat
    <3>1. G \in SUBSET Nat
      OBVIOUS
    <3> HIDE DEF G
    <3> QED BY <2>1, <2>2, <3>1, Inducts
  <2>4. N \in G
    <3> HIDE DEF G
    <3> QED BY <1>1, <2>3
  <2>5. \E g : Upto(N, g)
    BY <2>4
  <2> QED BY <1>2, <2>5
<1>6. It = Body(It)
  <2> HIDE DEF Body
  <2> QED BY <1>5, Zenon
<1> HIDE DEF It
<1>7. \A n \in 1..N : It[n] = IF n = 1 THEN S[1] ELSE It[n - 1] \o S[n]
  <2>1. It = [i \in 1..N |-> IF i = 1 THEN S[i] ELSE It[i - 1] \o S[i]]
    BY <1>2, <1>6
  <2> TAKE n \in 1..N
  <2>2. It[n] = IF n = 1 THEN S[n] ELSE It[n - 1] \o S[n]
    BY <2>1, Zenon
  <2> QED BY <2>2
<1>8. \A n \in Nat : n + 1 <= N => Told(ms, n + 1, It[n + 1])
  <2> DEFINE G == {n \in Nat : n + 1 <= N => Told(ms, n + 1, It[n + 1])}
  <2>1. 0 \in G
    <3>1. SUFFICES ASSUME 1 <= N PROVE Told(ms, 1, It[1])
      OBVIOUS
    <3>2. 1 \in 1..N /\ 0 \in Nat /\ 0 + 1 = 1
      BY <1>1, <3>1
    <3>3. It[1] = Words(ms[1], 1)
      BY <1>4, <1>7, <3>2
    <3>4. Told(ms, 1, <<>> \o Words(ms[1], 1))
      BY <1>1, <3>2, ToldNone, ToldOne
    <3>5. Words(ms[1], 1) \in Seq({Words(ms[1], 1)[k] : k \in 1..ms[1].len})
      <4>1. ms[1].len \in Nat
        BY <1>1, <3>2, StreamAssumption
      <4> DEFINE w == Words(ms[1], 1)
                 V == {w[k] : k \in 1..ms[1].len}
      <4>2. w \in [1..ms[1].len -> V]
        BY DEF Words
      <4> HIDE DEF w, V
      <4>3. w \in Seq(V)
        BY <4>1, <4>2
      <4> QED BY <4>3 DEF w, V
    <3>6. <<>> \o Words(ms[1], 1) = Words(ms[1], 1)
      BY <3>5, ConcatEmptySeq, Zenon
    <3> QED BY <3>3, <3>4, <3>6
  <2>2. ASSUME NEW n \in G PROVE n + 1 \in G
    <3>1. n \in Nat /\ n + 1 \in Nat
      OBVIOUS
    <3>2. ASSUME n + 1 + 1 <= N PROVE Told(ms, n + 1 + 1, It[n + 1 + 1])
      <4>1. Told(ms, n + 1, It[n + 1])
        BY <1>1, <3>2
      <4>2. n + 1 + 1 \in 1..N /\ n + 1 + 1 # 1 /\ n + 1 + 1 - 1 = n + 1
        BY <1>1, <3>2
      <4>3. It[n + 1 + 1] = It[n + 1] \o Words(ms[n + 1 + 1], n + 1 + 1)
        <5> DEFINE j == n + 1 + 1
        <5>1. j \in 1..N /\ j # 1 /\ j - 1 = n + 1
          BY <4>2
        <5> HIDE DEF j
        <5>2. It[j] = It[n + 1] \o S[j] /\ S[j] = Words(ms[j], j)
          BY <1>4, <1>7, <5>1
        <5> QED BY <5>2 DEF j
      <4> QED BY <1>1, <3>1, <4>1, <4>2, <4>3, ToldOne
    <3> QED BY <3>1, <3>2
  <2>3. G \in SUBSET Nat
    OBVIOUS
  <2>4. G = Nat
    <3> HIDE DEF G
    <3> QED BY <2>1, <2>2, <2>3, Inducts
  <2> QED BY <2>4
<1>9. CASE N = 0
  <2>1. S = <<>>
    <3>1. S = [i \in DOMAIN ms |-> Words(ms[i], i)]
      BY DEF S
    <3> QED BY <1>1, <1>9, <3>1
  <2> QED BY <1>1, <1>3, <1>9, <2>1, ToldNone
<1>10. CASE N # 0
  <2>1. N - 1 \in Nat /\ N - 1 + 1 = N /\ N - 1 + 1 <= N
    BY <1>1, <1>10
  <2>2. Told(ms, N, It[N])
    BY <1>8, <2>1
  <2> QED BY <1>1, <1>3, <1>10, <2>2
<1> QED BY <1>9, <1>10

\* What is known of a word that a peer sends.
LEMMA WordFacts ==
  ASSUME NEW w \in Word
  PROVE  /\ w.msg.len \in Nat /\ w.i \in Nat /\ w.k \in 1..w.msg.len
         /\ IsFrame(w.msg) => w.msg.len \in LenDx + 1..LEN_BUF_RCV
         /\ w.msg.cmd \in {"657185", "657186"} => w.msg.ip \in Addr
<1>1. PICK ms \in Streams : w \in {Stream(ms)[k] : k \in DOMAIN Stream(ms)}
  BY Zenon DEF Word
<1> DEFINE x == Stream(ms)
<1>2. PICK p \in DOMAIN x : w = x[p]
  BY <1>1
<1> HIDE DEF x
<1>3. Told(ms, Len(ms), x) /\ Len(ms) \in Nat /\ DOMAIN ms = 1..Len(ms)
  BY StreamTold, Zenon DEF x
<1>4. p \in 1..Len(x)
  BY <1>3 DEF Told
<1>5. w.i \in 1..Len(ms) /\ w.msg = ms[w.i] /\ w.k \in 1..w.msg.len
  BY <1>2, <1>3, <1>4 DEF Told, WordsTo
<1>6. PICK i \in DOMAIN ms : w.msg = ms[i]
  BY <1>3, <1>5
<1>7. /\ ms[i].len \in Nat
      /\ IsFrame(ms[i]) => ms[i].len \in LenDx + 1..LEN_BUF_RCV
      /\ ms[i].cmd \in {"657185", "657186"} => ms[i].ip \in Addr
  BY StreamAssumption, Zenon
<1>8. w.i \in Nat
  BY <1>3, <1>5
<1> QED BY <1>5, <1>6, <1>7, <1>8

LEMMA StreamWords ==
  ASSUME NEW ms \in Streams
  PROVE  Stream(ms) \in Seq(Word)
<1> DEFINE x == Stream(ms)
<1>1. x \in Seq(AnyWord(ms))
  BY StreamTold, Zenon DEF Told
<1>2. \A p \in DOMAIN x : x[p] \in Word
  <2> TAKE p \in DOMAIN x
  <2>1. x[p] \in {Stream(ms)[k] : k \in DOMAIN Stream(ms)}
    OBVIOUS
  <2> HIDE DEF x
  <2> QED BY <2>1, Zenon DEF Word
<1> HIDE DEF x
<1>3. x \in Seq(Word)
  BY <1>1, <1>2
<1> QED BY <1>3 DEF x


-----------------------------------------------------------------------------
(* What waits                                                              *)

NoiseEven(x) == \A p \in 1..Len(x) : IsFrame(x[p].msg) \/ x[p].msg.len % 3 = 0

\* A frame is waited for from its first word, noise from a multiple of Mod.
Starts1(w) == IF IsFrame(w.msg) THEN w.k = 1 ELSE w.k % 3 = 1
StartsWell(x) == Len(x) # 0 => Starts1(x[1])

\* The frames in x are those of d, and they are there in whole.
Awaited(x, d) ==
  /\ \A p \in 1..Len(x) :
       IsFrame(x[p].msg) => [msg |-> x[p].msg, i |-> x[p].i] \in d
  /\ \A f \in d :
       /\ f = [msg |-> f.msg, i |-> f.i] /\ IsFrame(f.msg)
       /\ f.msg.len \in LenDx + 1..LEN_BUF_RCV
       /\ \A k \in 1..f.msg.len : \E p \in 1..Len(x) : x[p] = AWord(f.msg, f.i, k)

Kept(x, d) ==
  x \in Seq(Word) /\ InOrder(x) /\ NoiseEven(x) /\ StartsWell(x) /\ Awaited(x, d)

LEMMA StreamKept ==
  ASSUME NEW ms \in Streams, Aligned(ms)
  PROVE  Kept(Stream(ms), FramesOf(ms))
<1> DEFINE x == Stream(ms)
           n == Len(ms)
<1>1. x \in Seq(Word)
  BY StreamWords, Zenon
<1>2. Told(ms, n, x) /\ n \in Nat /\ DOMAIN ms = 1..n
  BY StreamTold, Zenon
<1> HIDE DEF x, n
<1>3. Len(x) \in Nat /\ \A p \in 1..Len(x) : x[p] \in Word
  BY <1>1
<1>4. \A p \in 1..Len(x) : /\ x[p].i \in 1..n /\ x[p].msg = ms[x[p].i]
                           /\ x[p].k \in 1..x[p].msg.len
  BY <1>2 DEF Told, WordsTo
<1>5. \A i \in 1..n : \A k \in 1..ms[i].len :
        \E p \in 1..Len(x) : x[p] = AWord(ms[i], i, k)
  BY <1>2 DEF Told, WordsTo
<1>6. NoiseEven(x)
  <2> SUFFICES ASSUME NEW p \in 1..Len(x), ~IsFrame(x[p].msg)
               PROVE  x[p].msg.len % 3 = 0
    BY DEF NoiseEven
  <2>1. x[p].i \in DOMAIN ms /\ x[p].msg = ms[x[p].i]
    BY <1>2, <1>4
  <2> QED BY <2>1 DEF Aligned, Mod
<1>7. StartsWell(x)
  <2> SUFFICES ASSUME Len(x) # 0 PROVE x[1].k = 1 /\ 1 % 3 = 1
    BY DEF StartsWell, Starts1
  <2>1. 1 \in 1..Len(x)
    BY <1>3
  <2> DEFINE i == x[1].i
             k == x[1].k
  <2>2. i \in 1..n /\ x[1].msg = ms[i] /\ k \in 1..ms[i].len
    BY <1>4, <2>1
  <2>3. ms[i].len \in Nat
    BY <1>2, <2>2, StreamAssumption
  <2>4. PICK q \in 1..Len(x) : x[q] = AWord(ms[i], i, 1)
    <3> HIDE DEF i, k
    <3>1. 1 \in 1..ms[i].len
      BY <2>2, <2>3
    <3> QED BY <1>5, <2>2, <3>1
  <2>5. q > 1 => Before(x[1], x[q])
    BY <1>2, <2>1 DEF Told, InOrder, Ordered
  <2> HIDE DEF i, k
  <2>6. x[q].i = i /\ x[q].k = 1
    BY <2>4 DEF AWord
  <2>7. ~(q > 1)
    BY <2>2, <2>3, <2>5, <2>6 DEF Before, i, k
  <2>8. q = 1
    BY <2>7
  <2> QED BY <2>6, <2>8
<1>8. Awaited(x, FramesOf(ms))
  <2>1. ASSUME NEW p \in 1..Len(x), IsFrame(x[p].msg)
        PROVE  [msg |-> x[p].msg, i |-> x[p].i] \in FramesOf(ms)
    <3>1. x[p].i \in DOMAIN ms /\ x[p].msg = ms[x[p].i]
      BY <1>2, <1>4
    <3> QED BY <2>1, <3>1, Zenon DEF FramesOf
  <2>2. ASSUME NEW f \in FramesOf(ms)
        PROVE  /\ f = [msg |-> f.msg, i |-> f.i] /\ IsFrame(f.msg)
               /\ f.msg.len \in LenDx + 1..LEN_BUF_RCV
               /\ \A k \in 1..f.msg.len : \E p \in 1..Len(x) : x[p] = AWord(f.msg, f.i, k)
    <3>1. PICK i \in DOMAIN ms : IsFrame(ms[i]) /\ f = [msg |-> ms[i], i |-> i]
      BY Zenon DEF FramesOf
    <3>2. f.msg = ms[i] /\ f.i = i
      BY <3>1
    <3>3. ms[i].len \in LenDx + 1..LEN_BUF_RCV
      BY <3>1, StreamAssumption, Zenon
    <3>4. \A k \in 1..ms[i].len : \E p \in 1..Len(x) : x[p] = AWord(ms[i], i, k)
      BY <1>2, <1>5, Zenon
    <3> QED BY <3>1, <3>2, <3>3, <3>4, Zenon
  <2> QED BY <2>1, <2>2, Zenon DEF Awaited
<1> QED BY <1>1, <1>2, <1>6, <1>7, <1>8 DEF Kept, Told, x

\* The first n words go.
LEMMA Rest ==
  ASSUME NEW x \in Seq(Word), NEW n \in 0..Len(x)
  PROVE  LET y == SubSeq(x, n + 1, Len(x))
         IN /\ Len(x) \in Nat /\ n \in Nat
            /\ y \in Seq(Word) /\ Len(y) = Len(x) - n
            /\ \A p \in 1..Len(y) : y[p] = x[p + n]
<1> DEFINE y == SubSeq(x, n + 1, Len(x))
<1>1. /\ Len(x) \in Nat /\ n \in Nat /\ n + 1 \in Int /\ Len(x) \in Int
      /\ \A i \in n + 1..Len(x) : x[i] \in Word
  OBVIOUS
<1>2. /\ y \in Seq(Word)
      /\ Len(y) = IF n + 1 <= Len(x) THEN Len(x) - (n + 1) + 1 ELSE 0
      /\ \A i \in 1..Len(x) - (n + 1) + 1 : y[i] = x[n + 1 + i - 1]
  BY <1>1, SubSeqProperties
<1> HIDE DEF y
<1>3. Len(y) = Len(x) - n
  BY <1>1, <1>2
<1>4. ASSUME NEW p \in 1..Len(y) PROVE y[p] = x[p + n]
  <2>1. p \in 1..Len(x) - (n + 1) + 1 /\ n + 1 + p - 1 = p + n
    BY <1>1, <1>3
  <2>2. y[p] = x[n + 1 + p - 1]
    BY <1>2, <2>1, Zenon
  <2> QED BY <2>1, <2>2
<1> QED BY <1>1, <1>2, <1>3, <1>4 DEF y

LEMMA RestInOrder ==
  ASSUME NEW x \in Seq(Word), InOrder(x), NoiseEven(x), NEW n \in 0..Len(x)
  PROVE  LET y == SubSeq(x, n + 1, Len(x))
         IN /\ y \in Seq(Word) /\ Len(y) = Len(x) - n
            /\ \A p \in 1..Len(y) : y[p] = x[p + n]
            /\ InOrder(y) /\ NoiseEven(y)
<1> DEFINE y == SubSeq(x, n + 1, Len(x))
<1>1. Len(x) \in Nat /\ n \in Nat
  OBVIOUS
<1>2. y \in Seq(Word) /\ Len(y) = Len(x) - n /\ \A p \in 1..Len(y) : y[p] = x[p + n]
  BY Rest
<1> HIDE DEF y
<1>3. \A p \in 1..Len(y) : p + n \in 1..Len(x)
  BY <1>1, <1>2
<1>4. Ordered(y)
  <2> SUFFICES ASSUME NEW p \in 1..Len(y), NEW q \in 1..Len(y), p < q
               PROVE  Before(y[p], y[q])
    BY DEF Ordered
  <2>1. p + n < q + n
    BY <1>1
  <2> QED BY <1>2, <1>3, <2>1 DEF InOrder, Ordered
<1>5. Follows(y)
  <2> SUFFICES ASSUME NEW p \in 1..Len(y), NEW d \in Nat,
                      p + d \in 1..Len(y), y[p].k + d <= y[p].msg.len
               PROVE  y[p + d] = AWord(y[p].msg, y[p].i, y[p].k + d)
    BY DEF Follows
  <2>1. p + n \in 1..Len(x) /\ p + d + n \in 1..Len(x) /\ p + d + n = p + n + d
    BY <1>1, <1>3
  <2>2. y[p] = x[p + n] /\ y[p + d] = x[p + n + d]
    BY <1>2, <2>1
  <2>3. x[p + n + d] = AWord(x[p + n].msg, x[p + n].i, x[p + n].k + d)
    BY <2>1, <2>2 DEF InOrder, Follows
  <2> QED BY <2>2, <2>3
<1>6. Begins(y)
  <2> SUFFICES ASSUME NEW p \in 1..Len(y), p + 1 <= Len(y), y[p].k = y[p].msg.len
               PROVE  y[p + 1].k = 1
    BY DEF Begins
  <2>1. p + n \in 1..Len(x) /\ p + 1 + n <= Len(x) /\ p + 1 + n = p + n + 1 /\ p + 1 \in 1..Len(y)
    BY <1>1, <1>2, <1>3, SMTT(20)
  <2>2. y[p] = x[p + n] /\ y[p + 1] = x[p + n + 1]
    BY <1>2, <2>1
  <2> QED BY <2>1, <2>2 DEF InOrder, Begins
<1>7. NoiseEven(y)
  BY <1>2, <1>3 DEF NoiseEven
<1> QED BY <1>2, <1>4, <1>5, <1>6, <1>7 DEF InOrder, y

\* They go from the buffer.
LEMMA FirstGo ==
  ASSUME NEW b \in Seq(Word), NEW v \in Seq(Word), NEW n \in 0..Len(b)
  PROVE  /\ b \o v \in Seq(Word) /\ Len(b \o v) = Len(b) + Len(v)
         /\ Len(b) \in Nat /\ Len(v) \in Nat
         /\ \A p \in 1..Len(b) : (b \o v)[p] = b[p]
         /\ SubSeq(b, n + 1, Len(b)) \o v = SubSeq(b \o v, n + 1, Len(b \o v))
<1> DEFINE x == b \o v
           c == SubSeq(b, n + 1, Len(b))
           y == SubSeq(x, n + 1, Len(x))
           z == c \o v
<1>1. Len(b) \in Nat /\ Len(v) \in Nat /\ n \in Nat
  OBVIOUS
<1>2. /\ x \in Seq(Word) /\ Len(x) = Len(b) + Len(v)
      /\ \A i \in 1..Len(b) + Len(v) : x[i] = IF i <= Len(b) THEN b[i] ELSE v[i - Len(b)]
  BY ConcatProperties, Zenon
<1> HIDE DEF x
<1>3. /\ c \in Seq(Word) /\ Len(c) = Len(b) - n
      /\ \A i \in 1..Len(c) : c[i] = b[i + n]
  BY Rest
<1>4. /\ y \in Seq(Word) /\ Len(y) = Len(x) - n
      /\ \A i \in 1..Len(y) : y[i] = x[i + n]
  <2>1. n \in 0..Len(x)
    BY <1>1, <1>2
  <2> QED BY <1>2, <2>1, Rest
<1> HIDE DEF c, y
<1>5. /\ z \in Seq(Word) /\ Len(z) = Len(c) + Len(v)
      /\ \A i \in 1..Len(c) + Len(v) : z[i] = IF i <= Len(c) THEN c[i] ELSE v[i - Len(c)]
  BY <1>3, ConcatProperties, Zenon
<1> HIDE DEF z
<1>6. Len(z) = Len(y)
  BY <1>1, <1>2, <1>3, <1>4, <1>5
<1>7. \A i \in 1..Len(z) : z[i] = y[i]
  <2> TAKE i \in 1..Len(z)
  <2>1. /\ i + n \in 1..Len(b) + Len(v) /\ i \in 1..Len(y)
        /\ i \in 1..Len(c) + Len(v)
    BY <1>1, <1>2, <1>3, <1>4, <1>5, SMTT(20)
  <2>2. /\ y[i] = IF i + n <= Len(b) THEN b[i + n] ELSE v[i + n - Len(b)]
        /\ z[i] = IF i <= Len(c) THEN c[i] ELSE v[i - Len(c)]
    BY <1>2, <1>4, <1>5, <2>1, SMTT(20)
  <2>3. CASE i <= Len(c)
    <3>1. i + n <= Len(b) /\ i \in 1..Len(c)
      BY <1>1, <1>3, <2>3
    <3> QED BY <1>3, <2>2, <2>3, <3>1
  <2>4. CASE i > Len(c)
    <3>1. ~(i + n <= Len(b)) /\ i + n - Len(b) = i - Len(c) /\ ~(i <= Len(c))
      BY <1>1, <1>3, <2>4
    <3> QED BY <2>2, <3>1
  <2>5. Len(c) \in Nat
    BY <1>3
  <2> QED BY <2>3, <2>4, <2>5
<1>8. z = y
  BY <1>4, <1>5, <1>6, <1>7, SeqEqual, Zenon
<1>9. \A p \in 1..Len(b) : x[p] = b[p]
  BY <1>1, <1>2
<1> QED BY <1>1, <1>2, <1>8, <1>9 DEF x, y, z, c


\* A frame goes that begins x.
LEMMA FrameGoes ==
  ASSUME NEW x, NEW d, Kept(x, d), Len(x) # 0, IsFrame(x[1].msg),
         x[1].msg.len <= Len(x)
  PROVE  Kept(SubSeq(x, x[1].msg.len + 1, Len(x)),
              {f \in d : f.msg # x[1].msg \/ \E g \in d : g.i < f.i})
<1> USE Bounds
<1> DEFINE m == x[1].msg
           i == x[1].i
           n == m.len
           y == SubSeq(x, n + 1, Len(x))
           h == [msg |-> m, i |-> i]
           e == {f \in d : f.msg # m \/ \E g \in d : g.i < f.i}
<1>1. x \in Seq(Word) /\ Len(x) \in Nat /\ 1 \in 1..Len(x)
  BY DEF Kept
<1>2. n \in 9..LEN_BUF_RCV /\ n \in Nat /\ i \in Nat /\ x[1].k = 1
  <2>1. x[1] \in Word
    BY <1>1
  <2> QED BY <1>1, <2>1, WordFacts DEF Kept, StartsWell, Starts1
<1> HIDE DEF n, y, h, e
<1>3. \A p \in 1..n : /\ p \in 1..Len(x) /\ x[p] = AWord(m, i, p)
                      /\ x[p].msg = m /\ x[p].i = i /\ x[p].k = p
  <2> TAKE p \in 1..n
  <2>1. p - 1 \in Nat /\ 1 + (p - 1) = p /\ p \in 1..Len(x) /\ 1 + (p - 1) <= n
    BY <1>1, <1>2 DEF n
  <2>2. x[1 + (p - 1)] = AWord(m, i, x[1].k + (p - 1))
    BY <1>1, <1>2, <2>1 DEF Kept, InOrder, Follows, n
  <2>3. x[p] = AWord(m, i, p)
    BY <1>2, <2>1, <2>2
  <2> HIDE DEF m, i
  <2> QED BY <2>1, <2>3 DEF AWord
<1> HIDE DEF m, i
<1>4. /\ n \in 0..Len(x) /\ y \in Seq(Word) /\ Len(y) = Len(x) - n
      /\ \A p \in 1..Len(y) : y[p] = x[p + n]
      /\ InOrder(y) /\ NoiseEven(y)
  <2>1. n \in 0..Len(x)
    BY <1>2 DEF n, m
  <2> QED BY <1>1, <2>1, RestInOrder DEF Kept, y
<1>5. \A p \in 1..Len(x) : p > n => p - n \in 1..Len(y) /\ y[p - n] = x[p]
  BY <1>1, <1>2, <1>4
<1>6. ASSUME NEW p \in 1..Len(x), NEW q \in 1..Len(x), p < q PROVE Before(x[p], x[q])
  BY <1>6 DEF Kept, InOrder, Ordered
<1>7. \A p \in 1..Len(x) : x[p].i \in Nat /\ x[p].k \in Nat
  <2> TAKE p \in 1..Len(x)
  <2>1. x[p] \in Word
    BY <1>1
  <2>2. x[p].i \in Nat /\ x[p].k \in 1..x[p].msg.len /\ x[p].msg.len \in Nat
    BY <2>1, WordFacts, Zenon
  <2> QED BY <2>2
\* It is the first that is due.
<1>8. h \in d
  BY <1>1 DEF Kept, Awaited, h, m, i
<1>9. \A f \in d : /\ f = [msg |-> f.msg, i |-> f.i] /\ f.i \in Nat
                   /\ f = h \/ h.i < f.i
  <2> TAKE f \in d
  <2>1. /\ f = [msg |-> f.msg, i |-> f.i] /\ f.msg.len \in 9..LEN_BUF_RCV
        /\ \A k \in 1..f.msg.len : \E p \in 1..Len(x) : x[p] = AWord(f.msg, f.i, k)
    BY DEF Kept, Awaited
  <2>2. PICK p \in 1..Len(x) : x[p] = AWord(f.msg, f.i, 1)
    <3>1. 1 \in 1..f.msg.len
      BY <2>1
    <3> QED BY <2>1, <3>1
  <2>3. x[p].msg = f.msg /\ x[p].i = f.i /\ x[p].k = 1
    BY <2>2 DEF AWord
  <2>4. CASE p = 1
    BY <1>7, <2>1, <2>3, <2>4 DEF h, m, i
  <2>5. CASE p # 1
    <3>1. Before(x[1], x[p])
      BY <1>1, <1>6, <2>5
    <3>2. i < f.i
      BY <1>2, <1>7, <2>3, <3>1 DEF Before, i
    <3> QED BY <1>7, <2>1, <2>3, <3>2 DEF h
  <2> QED BY <2>4, <2>5
<1>10. e = d \ {h}
  <2>1. h.msg = m /\ h.i = i
    BY DEF h
  <2>2. ASSUME NEW f \in d, f # h PROVE f.msg # m \/ \E g \in d : g.i < f.i
    BY <1>8, <1>9, <2>2
  <2>3. \A g \in d : ~(g.i < h.i)
    BY <1>8, <1>9
  <2> QED BY <2>1, <2>2, <2>3 DEF e
\* Its words are gone, and no others.
<1>11. StartsWell(y)
  <2> SUFFICES ASSUME Len(y) # 0 PROVE y[1].k = 1 /\ 1 % 3 = 1
    BY DEF StartsWell, Starts1
  <2>1. n \in 1..Len(x) /\ n + 1 <= Len(x) /\ 1 \in 1..Len(y) /\ 1 + n = n + 1
    BY <1>1, <1>2, <1>4
  <2>2. x[n].k = n /\ x[n].msg = m
    BY <1>2, <1>3, <2>1
  <2>3. x[n + 1].k = 1
    BY <2>1, <2>2 DEF Kept, InOrder, Begins, n
  <2>4. y[1] = x[1 + n]
    BY <1>4, <2>1
  <2> QED BY <2>1, <2>3, <2>4
<1>12. ASSUME NEW p \in 1..Len(y), IsFrame(y[p].msg)
       PROVE  [msg |-> y[p].msg, i |-> y[p].i] \in d \ {h}
  <2>1. p + n \in 1..Len(x) /\ y[p] = x[p + n]
    BY <1>1, <1>2, <1>4
  <2>2. [msg |-> y[p].msg, i |-> y[p].i] \in d
    BY <1>12, <2>1 DEF Kept, Awaited
  <2>3. ASSUME [msg |-> y[p].msg, i |-> y[p].i] = h PROVE FALSE
    <3>1. y[p].msg = m /\ y[p].i = i
      BY <2>3 DEF h
    <3> DEFINE k == y[p].k
    <3>2. k \in 1..n
      <4>1. y[p] \in Word
        BY <1>4
      <4>2. y[p].k \in 1..y[p].msg.len
        BY <4>1, WordFacts, Zenon
      <4> QED BY <3>1, <4>2 DEF n
    <3>3. x[k].i = i /\ x[k].k = k /\ k \in 1..Len(x)
      BY <1>3, <3>2
    <3>4. k < p + n
      BY <1>2, <3>2
    <3>5. Before(x[k], x[p + n])
      BY <1>6, <2>1, <3>3, <3>4
    <3> QED BY <1>2, <2>1, <3>1, <3>2, <3>3, <3>5 DEF Before
  <2> QED BY <2>2, <2>3
<1>13. ASSUME NEW f \in d \ {h}
       PROVE  /\ f = [msg |-> f.msg, i |-> f.i] /\ IsFrame(f.msg)
              /\ f.msg.len \in LenDx + 1..LEN_BUF_RCV
              /\ \A k \in 1..f.msg.len : \E p \in 1..Len(y) : y[p] = AWord(f.msg, f.i, k)
  <2>1. /\ f = [msg |-> f.msg, i |-> f.i] /\ IsFrame(f.msg)
        /\ f.msg.len \in LenDx + 1..LEN_BUF_RCV
        /\ \A k \in 1..f.msg.len : \E p \in 1..Len(x) : x[p] = AWord(f.msg, f.i, k)
    BY DEF Kept, Awaited
  <2>2. ASSUME NEW k \in 1..f.msg.len
        PROVE  \E p \in 1..Len(y) : y[p] = AWord(f.msg, f.i, k)
    <3>1. PICK p \in 1..Len(x) : x[p] = AWord(f.msg, f.i, k)
      BY <2>1
    <3>2. p > n
      <4>1. ASSUME p \in 1..n PROVE FALSE
        <5>1. x[p] = AWord(m, i, p)
          BY <1>3, <4>1
        <5>2. f.msg = m /\ f.i = i
          BY <3>1, <5>1 DEF AWord
        <5> QED BY <2>1, <5>2 DEF h
      <4> QED BY <1>2, <4>1
    <3> QED BY <1>5, <3>1, <3>2
  <2> QED BY <2>1, <2>2
<1>14. Awaited(y, d \ {h})
  BY <1>12, <1>13, Zenon DEF Awaited
<1> QED BY <1>4, <1>10, <1>11, <1>14 DEF Kept, y, e, n, m


\* Up to the first head there is noise only, if heads are looked for at
\* multiples of Mod.
LEMMA NoiseFirst ==
  ASSUME NEW x \in Seq(Word), InOrder(x), NoiseEven(x), StartsWell(x),
         NEW q \in Nat, 3 * q <= Len(x),
         \A j \in Nat : j < q => ~(\A d \in 1..3 : IsMax(x[3 * j + d]))
  PROVE  /\ \A p \in 1..3 * q : ~IsFrame(x[p].msg)
         /\ 3 * q + 1 <= Len(x) => Starts1(x[3 * q + 1])
<1> USE Bounds
<1> DEFINE Noise(j) == \A p \in 1..3 * j : ~IsFrame(x[p].msg)
           Good(j) == 3 * j + 1 <= Len(x) => Starts1(x[3 * j + 1])
           G == {j \in Nat : j <= q => Noise(j) /\ Good(j)}
<1>1. Len(x) \in Nat /\ \A p \in 1..Len(x) : x[p] \in Word
  OBVIOUS
<1>2. 0 \in G
  <2>1. Noise(0)
    OBVIOUS
  <2>2. Good(0)
    BY <1>1 DEF StartsWell
  <2> QED BY <2>1, <2>2
<1>3. ASSUME NEW j \in G PROVE j + 1 \in G
  <2>1. SUFFICES ASSUME j + 1 <= q PROVE Noise(j + 1) /\ Good(j + 1)
    OBVIOUS
  <2>2. j \in Nat /\ Noise(j) /\ Good(j)
    BY <2>1
  <2> HIDE DEF G
  <2> DEFINE a == 3 * j
             w == x[a + 1]
  <2>3. a \in Nat /\ 3 * (j + 1) = a + 3 /\ {a + 1, a + 2, a + 3} \subseteq 1..Len(x)
    BY <1>1, <2>1, <2>2
  <2>4. Starts1(w)
    BY <2>2, <2>3
  <2>5. w.msg.len \in Nat /\ w.k \in 1..w.msg.len /\ (IsFrame(w.msg) => w.msg.len >= 9)
    <3>1. w \in Word
      BY <1>1, <2>3
    <3> HIDE DEF w
    <3>2. /\ w.msg.len \in Nat /\ w.k \in 1..w.msg.len
          /\ IsFrame(w.msg) => w.msg.len \in LenDx + 1..LEN_BUF_RCV
      BY <3>1, WordFacts, Zenon
    <3> QED BY <3>2
  <2>6. ASSUME NEW d \in Nat, a + 1 + d \in 1..Len(x), w.k + d <= w.msg.len
        PROVE  x[a + 1 + d].msg = w.msg /\ x[a + 1 + d].k = w.k + d
    <3>1. x[a + 1 + d] = AWord(w.msg, w.i, w.k + d)
      <4>1. a + 1 \in 1..Len(x)
        BY <2>3
      <4> QED BY <2>6, <4>1 DEF InOrder, Follows
    <3> HIDE DEF w, a
    <3> QED BY <3>1 DEF AWord
  <2>7. ~IsFrame(w.msg)
    <3>1. ASSUME IsFrame(w.msg) PROVE FALSE
      <4>1. w.k = 1
        BY <2>4, <3>1 DEF Starts1
      <4>2. /\ x[a + 2].msg = w.msg /\ x[a + 2].k = 2
            /\ x[a + 3].msg = w.msg /\ x[a + 3].k = 3
        <5>1. /\ 1 \in Nat /\ 2 \in Nat /\ a + 1 + 1 = a + 2 /\ a + 1 + 2 = a + 3
              /\ a + 2 \in 1..Len(x) /\ a + 3 \in 1..Len(x)
              /\ w.k + 1 = 2 /\ w.k + 2 = 3 /\ 2 <= w.msg.len /\ 3 <= w.msg.len
          BY <2>3, <2>5, <3>1, <4>1, SMTT(20)
        <5> HIDE DEF w, a
        <5>2. x[a + 1 + 1].msg = w.msg /\ x[a + 1 + 1].k = w.k + 1
          BY <2>6, <5>1
        <5>3. x[a + 1 + 2].msg = w.msg /\ x[a + 1 + 2].k = w.k + 2
          BY <2>6, <5>1
        <5> QED BY <5>1, <5>2, <5>3
      <4>3. \A d \in 1..3 : IsMax(x[a + d])
        <5> TAKE d \in 1..3
        <5>1. x[a + d].msg = w.msg /\ x[a + d].k = d
          <6>1. CASE d = 1
            BY <4>1, <6>1
          <6>2. CASE d = 2
            BY <4>2, <6>2
          <6>3. CASE d = 3
            BY <4>2, <6>3
          <6> QED BY <6>1, <6>2, <6>3
        <5> HIDE DEF w
        <5> QED BY <3>1, <5>1 DEF IsMax
      <4>4. j < q
        BY <2>1, <2>2
      <4> QED BY <2>2, <4>3, <4>4
    <3> QED BY <3>1
  <2>8. w.k % 3 = 1 /\ w.msg.len % 3 = 0
    <3>1. a + 1 \in 1..Len(x)
      BY <2>3
    <3> QED BY <2>4, <2>7, <3>1 DEF Starts1, NoiseEven
  <2>9. w.k + 2 <= w.msg.len
    <3> HIDE DEF w
    <3> QED BY <2>5, <2>8
  <2>10. x[a + 2].msg = w.msg /\ x[a + 3].msg = w.msg /\ x[a + 3].k = w.k + 2
    <3>1. /\ 1 \in Nat /\ 2 \in Nat /\ a + 1 + 1 = a + 2 /\ a + 1 + 2 = a + 3
          /\ a + 2 \in 1..Len(x) /\ a + 3 \in 1..Len(x)
          /\ w.k + 1 <= w.msg.len
      <4> HIDE DEF w, a
      <4> QED BY <2>3, <2>5, <2>9, SMTT(20)
    <3> HIDE DEF w, a
    <3>2. x[a + 1 + 1].msg = w.msg
      BY <2>6, <3>1
    <3>3. x[a + 1 + 2].msg = w.msg /\ x[a + 1 + 2].k = w.k + 2
      BY <2>6, <2>9, <3>1
    <3> QED BY <3>1, <3>2, <3>3
  <2>11. Noise(j + 1)
    <3> SUFFICES ASSUME NEW p \in 1..3 * (j + 1) PROVE ~IsFrame(x[p].msg)
      OBVIOUS
    <3>1. p \in 1..3 * j \/ p = a + 1 \/ p = a + 2 \/ p = a + 3
      BY <2>2
    <3> QED BY <2>2, <2>7, <2>10, <3>1
  <2>12. Good(j + 1)
    <3> SUFFICES ASSUME a + 3 + 1 <= Len(x) PROVE Starts1(x[a + 3 + 1])
      BY <2>3
    <3>1. CASE w.k + 2 = w.msg.len
      <4>1. a + 3 \in 1..Len(x) /\ x[a + 3].k = x[a + 3].msg.len
        BY <2>3, <2>10, <3>1
      <4>2. x[a + 3 + 1].k = 1
        BY <4>1 DEF InOrder, Begins
      <4> QED BY <4>2 DEF Starts1
    <3>2. CASE w.k + 2 # w.msg.len
      <4>1. w.k + 3 <= w.msg.len /\ (w.k + 3) % 3 = 1
        <5> HIDE DEF w
        <5> QED BY <2>5, <2>8, <2>9, <3>2
      <4>2. a + 1 + 3 = a + 3 + 1 /\ a + 1 + 3 \in 1..Len(x) /\ 3 \in Nat
        BY <2>3
      <4> HIDE DEF w, a
      <4>3. x[a + 1 + 3].msg = w.msg /\ x[a + 1 + 3].k = w.k + 3
        BY <2>6, <4>1, <4>2
      <4> QED BY <2>7, <4>1, <4>2, <4>3 DEF Starts1
    <3> QED BY <3>1, <3>2
  <2> QED BY <2>11, <2>12
<1>4. G = Nat
  <2>1. G \in SUBSET Nat
    OBVIOUS
  <2> HIDE DEF G
  <2> QED BY <1>2, <1>3, <2>1, Inducts
<1>5. q \in G /\ q <= q
  <2> HIDE DEF G
  <2> QED BY <1>4
<1> QED BY <1>5


\* What is no frame goes.
LEMMA SkipGoes ==
  ASSUME NEW b \in Seq(Word), NEW v \in Seq(Word), NEW d, Kept(b \o v, d)
  PROVE  Kept(Resync(b) \o v, d)
<1> USE Bounds
<1> DEFINE q == IF Heads(b) = {} THEN Len(b) \div 3 ELSE Min(Heads(b))
           x == b \o v
           y == SubSeq(x, 3 * q + 1, Len(x))
<1>1. Len(b) \in Nat /\ Len(b) \div 3 \in Nat /\ 3 * (Len(b) \div 3) <= Len(b)
  <2>1. Len(b) \in Nat
    OBVIOUS
  <2> QED BY <2>1
<1>2. Heads(b) \in SUBSET Nat /\ \A j \in Heads(b) : 3 * j + 3 <= Len(b)
  BY <1>1 DEF Heads
<1>3. q \in Nat /\ 3 * q <= Len(b) /\ \A j \in Nat : j < q => j \notin Heads(b) /\ 3 * j + 3 <= Len(b)
  <2>1. CASE Heads(b) = {}
    BY <1>1, <2>1
  <2>2. CASE Heads(b) # {}
    <3>1. Min(Heads(b)) \in Heads(b) /\ \A j \in Heads(b) : Min(Heads(b)) <= j
      BY <1>2, <2>2, LeastNat, Zenon
    <3> QED BY <1>1, <1>2, <2>2, <3>1
  <2> QED BY <2>1, <2>2
<1>4. Resync(b) = SubSeq(b, 3 * q + 1, Len(b))
  BY Zenon DEF Resync, Mod
<1> HIDE DEF q
<1>5. 3 * q \in 0..Len(b)
  BY <1>1, <1>3
<1>6. /\ x \in Seq(Word) /\ Len(x) = Len(b) + Len(v) /\ Len(v) \in Nat
      /\ \A p \in 1..Len(b) : x[p] = b[p]
      /\ Resync(b) \o v = y
  <2> DEFINE n == 3 * q
  <2>1. n \in 0..Len(b)
    BY <1>5
  <2>2. Resync(b) = SubSeq(b, n + 1, Len(b))
    BY <1>4
  <2> HIDE DEF n
  <2>3. /\ x \in Seq(Word) /\ Len(x) = Len(b) + Len(v) /\ Len(v) \in Nat
        /\ \A p \in 1..Len(b) : x[p] = b[p]
        /\ SubSeq(b, n + 1, Len(b)) \o v = SubSeq(x, n + 1, Len(x))
    BY <2>1, FirstGo, ZenonT(20)
  <2> QED BY <2>2, <2>3, Zenon DEF n
<1> HIDE DEF x
<1>7. InOrder(x) /\ NoiseEven(x) /\ StartsWell(x) /\ Awaited(x, d)
  BY DEF Kept, x
<1>8. /\ \A p \in 1..3 * q : ~IsFrame(x[p].msg)
      /\ 3 * q + 1 <= Len(x) => Starts1(x[3 * q + 1])
  <2>1. ASSUME NEW j \in Nat, j < q PROVE ~(\A e \in 1..3 : IsMax(x[3 * j + e]))
    <3>1. j \notin Heads(b) /\ 3 * j + 3 <= Len(b)
      BY <1>3, <2>1
    <3>2. ~HeadAt(b, j * 3)
      <4>1. j \in 0..(Len(b) \div Mod - 1)
        BY <1>1, <3>1
      <4> QED BY <3>1, <4>1, Zenon DEF Heads, Mod
    <3>3. ~(\A e \in 1..3 : IsMax(b[j * 3 + e]))
      BY <3>1, <3>2 DEF HeadAt
    <3>4. \A e \in 1..3 : j * 3 + e = 3 * j + e /\ x[3 * j + e] = b[3 * j + e]
      <4> TAKE e \in 1..3
      <4>1. j * 3 + e = 3 * j + e
        OBVIOUS
      <4>2. 3 * j + e \in 1..Len(b)
        BY <1>1, <3>1
      <4> QED BY <1>6, <4>1, <4>2, Zenon
    <3> QED BY <3>3, <3>4
  <2>2. 3 * q <= Len(x)
    BY <1>1, <1>3, <1>6
  <2> QED BY <1>3, <1>6, <1>7, <2>1, <2>2, NoiseFirst
<1>9. /\ 3 * q \in Nat /\ y \in Seq(Word) /\ Len(y) = Len(x) - 3 * q
      /\ Len(x) \in Nat
      /\ \A p \in 1..Len(y) : y[p] = x[p + 3 * q]
      /\ InOrder(y) /\ NoiseEven(y)
  <2> DEFINE n == 3 * q
  <2>1. n \in 0..Len(x) /\ n \in Nat
    BY <1>1, <1>5, <1>6
  <2> HIDE DEF n
  <2>2. LET z == SubSeq(x, n + 1, Len(x))
        IN /\ z \in Seq(Word) /\ Len(z) = Len(x) - n
           /\ \A p \in 1..Len(z) : z[p] = x[p + n]
           /\ InOrder(z) /\ NoiseEven(z)
    BY <1>6, <1>7, <2>1, RestInOrder, Zenon
  <2>3. Len(x) \in Nat
    BY <1>6
  <2> QED BY <2>1, <2>2, <2>3, Zenon DEF n
<1> HIDE DEF y
<1>10. StartsWell(y)
  <2> SUFFICES ASSUME Len(y) # 0 PROVE Starts1(y[1])
    BY DEF StartsWell
  <2>1. 1 \in 1..Len(y) /\ 3 * q + 1 <= Len(x) /\ 1 + 3 * q = 3 * q + 1
    BY <1>9
  <2>2. y[1] = x[1 + 3 * q]
    BY <1>9, <2>1, Zenon
  <2> QED BY <1>8, <2>1, <2>2
<1>11. Awaited(y, d)
  <2>1. ASSUME NEW p \in 1..Len(y), IsFrame(y[p].msg)
        PROVE  [msg |-> y[p].msg, i |-> y[p].i] \in d
    <3>1. p + 3 * q \in 1..Len(x) /\ y[p] = x[p + 3 * q]
      BY <1>9
    <3> QED BY <1>7, <2>1, <3>1 DEF Awaited
  <2>2. ASSUME NEW f \in d
        PROVE  /\ f = [msg |-> f.msg, i |-> f.i] /\ IsFrame(f.msg)
               /\ f.msg.len \in LenDx + 1..LEN_BUF_RCV
               /\ \A k \in 1..f.msg.len : \E p \in 1..Len(y) : y[p] = AWord(f.msg, f.i, k)
    <3>1. /\ f = [msg |-> f.msg, i |-> f.i] /\ IsFrame(f.msg)
          /\ f.msg.len \in LenDx + 1..LEN_BUF_RCV
          /\ \A k \in 1..f.msg.len : \E p \in 1..Len(x) : x[p] = AWord(f.msg, f.i, k)
      BY <1>7, Zenon DEF Awaited
    <3>2. ASSUME NEW k \in 1..f.msg.len
          PROVE  \E p \in 1..Len(y) : y[p] = AWord(f.msg, f.i, k)
      <4>1. PICK p \in 1..Len(x) : x[p] = AWord(f.msg, f.i, k)
        BY <3>1
      <4>2. IsFrame(x[p].msg)
        <5>1. x[p].msg = f.msg
          BY <4>1 DEF AWord
        <5> QED BY <3>1, <5>1
      <4>3. p \notin 1..3 * q
        BY <1>8, <4>2
      <4>4. p - 3 * q \in 1..Len(y) /\ p - 3 * q + 3 * q = p
        BY <1>9, <4>3
      <4> QED BY <1>9, <4>1, <4>4
    <3> QED BY <3>1, <3>2
  <2> QED BY <2>1, <2>2, Zenon DEF Awaited
<1>12. Kept(y, d)
  BY <1>9, <1>10, <1>11 DEF Kept
<1> QED BY <1>6, <1>12

\* What is kept is what FramesKept says.
LEMMA KeptSays ==
  ASSUME NEW x, NEW d, Kept(x, d)
  PROVE  /\ \A p, q \in DOMAIN x : p < q => Before(x[p], x[q])
         /\ {w \in Range(x) : IsFrame(w.msg)}
              = UNION {Range(Words(f.msg, f.i)) : f \in d}
<1>1. DOMAIN x = 1..Len(x) /\ x \in Seq(Word)
  BY DEF Kept
<1>2. \A p, q \in DOMAIN x : p < q => Before(x[p], x[q])
  BY <1>1 DEF Kept, InOrder, Ordered
<1>3. ASSUME NEW w \in Range(x), IsFrame(w.msg)
      PROVE  w \in UNION {Range(Words(f.msg, f.i)) : f \in d}
  <2>1. PICK p \in 1..Len(x) : w = x[p]
    BY <1>1 DEF Range
  <2> DEFINE f == [msg |-> w.msg, i |-> w.i]
  <2>2. f \in d
    BY <1>3, <2>1 DEF Kept, Awaited
  <2>3. f.msg = w.msg /\ f.i = w.i
    OBVIOUS
  <2> HIDE DEF f
  <2>4. w.k \in 1..w.msg.len
    <3>1. w \in Word
      BY <1>1, <2>1
    <3> QED BY <3>1, WordFacts, Zenon
  <2>5. PICK q \in 1..Len(x) : x[q] = AWord(w.msg, w.i, w.k)
    BY <2>2, <2>3, <2>4 DEF Kept, Awaited
  <2>6. x[q].i = w.i /\ x[q].k = w.k
    BY <2>5 DEF AWord
  <2>7. ~Before(x[q], x[p]) /\ ~Before(x[p], x[q])
    <3>1. w \in Word
      BY <1>1, <2>1
    <3>2. w.i \in Nat /\ w.k \in 1..w.msg.len /\ w.msg.len \in Nat
      BY <3>1, WordFacts, Zenon
    <3> QED BY <2>1, <2>6, <3>2 DEF Before
  <2>8. p = q
    BY <1>1, <1>2, <2>7
  <2>9. w = Words(f.msg, f.i)[w.k] /\ w.k \in DOMAIN Words(f.msg, f.i)
    BY <2>1, <2>3, <2>4, <2>5, <2>8 DEF Words, AWord
  <2>10. w \in Range(Words(f.msg, f.i))
    BY <2>9, Zenon DEF Range
  <2> QED BY <2>2, <2>10, Zenon
<1>4. ASSUME NEW f \in d, NEW w \in Range(Words(f.msg, f.i))
      PROVE  w \in Range(x) /\ IsFrame(w.msg)
  <2>1. PICK k \in 1..f.msg.len : w = AWord(f.msg, f.i, k)
    BY DEF Range, Words, AWord
  <2>2. PICK p \in 1..Len(x) : x[p] = AWord(f.msg, f.i, k)
    BY DEF Kept, Awaited
  <2>3. w.msg = f.msg
    BY <2>1 DEF AWord
  <2>4. IsFrame(f.msg)
    BY DEF Kept, Awaited
  <2>5. w = x[p] /\ p \in DOMAIN x
    BY <1>1, <2>1, <2>2
  <2>6. w \in Range(x)
    BY <2>5, Zenon DEF Range
  <2> QED BY <2>3, <2>4, <2>6
<1>5. ASSUME NEW w \in UNION {Range(Words(f.msg, f.i)) : f \in d}
      PROVE  w \in {u \in Range(x) : IsFrame(u.msg)}
  <2>1. PICK f \in d : w \in Range(Words(f.msg, f.i))
    OBVIOUS
  <2> QED BY <1>4, <2>1, Zenon
<1> QED BY <1>2, <1>3, <1>5

-----------------------------------------------------------------------------
(* Connections come and go                                                 *)

LEMMA NewRecord ==
  ASSUME NEW s \in Sockets \union {0}
  PROVE  [fd |-> s, buf |-> <<>>] \in Record
  BY DEF Record

LEMMA HolderType ==
  ASSUME MemoryInv, NEW r \in Rec
  PROVE  Holder(r) \in 0..MaxConns
<1>1. heap[r].fd \in Sockets \union {0}
  BY DEF MemoryInv, Record
<1>2. owner \in [Sockets -> 0..MaxConns] /\ MaxConns \in Nat
  BY Bounds DEF MemoryInv
<1>3. CASE heap[r].fd = 0
  BY <1>2, <1>3 DEF Holder
<1>4. CASE heap[r].fd \in Sockets
  <2>1. owner[heap[r].fd] \in 0..MaxConns
    BY <1>2, <1>4
  <2> QED BY <1>2, <2>1 DEF Holder
<1> QED BY <1>1, <1>3, <1>4

LEMMA HurtsType ==
  ASSUME MemoryInv, NEW C \in SUBSET (0..MaxConns), Hurts(C)
  PROVE  hurt' \subseteq Conn
  BY DEF Hurts, MemoryInv, Conn

LEMMA Starts == BusInit => BInv
<1> SUFFICES ASSUME BusInit PROVE BInv
  OBVIOUS
<1> USE Bounds DEF BusInit
<1>1. Unused \in Record
  BY NewRecord DEF Unused
<1>2. MemoryInv
  BY <1>1 DEF MemoryInv
<1>3. OwnerInv /\ ParseInv /\ AnswerInv
  BY DEF OwnerInv, ParseInv, AnswerInv, ToRegistrant
<1>4. RoomInv
  BY DEF RoomInv, Unused
<1> QED BY <1>2, <1>3, <1>4 DEF BInv

LEMMA RestartKeeps == ASSUME BInv, Restart PROVE BInv'
<1> USE Bounds DEF BInv, Restart
<1>1. Unused \in Record
  BY NewRecord DEF Unused
<1>2. MemoryInv'
  BY <1>1 DEF MemoryInv, Conn
<1>3. (OwnerInv /\ ParseInv /\ AnswerInv)'
  BY DEF MemoryInv, OwnerInv, ParseInv, AnswerInv, ToRegistrant
<1>4. RoomInv'
  BY DEF RoomInv, Unused
<1> QED BY <1>2, <1>3, <1>4

LEMMA AcceptKeeps == ASSUME BInv, NEW ms \in Streams, Accept(ms) PROVE BInv'
<1> USE Bounds DEF BInv
<1>1. /\ at = 0 /\ at' = 0 /\ conns < MaxConns /\ conns' = conns + 1 /\ answer' = 0
      /\ wire' = [wire EXCEPT ![conns + 1] = Stream(ms)]
      /\ UNCHANGED <<closed, dispatcher, registrant, starts>>
  BY DEF Accept, Idle, NoAnswer
<1>2. PICK s \in Sockets, r \in Rec :
        /\ owner[s] = 0
        /\ owner' = [owner EXCEPT ![s] = conns + 1]
        /\ heap' = [heap EXCEPT ![r] = [fd |-> s, buf |-> <<>>]]
        /\ free[r] > 0 /\ free' = [free EXCEPT ![r] = @ - 1]
        /\ bus_conn' = Append(bus_conn, r)
        /\ Hurts({Holder(r)} \union IF Places(s) = {} THEN {} ELSE {conns + 1})
  BY Zenon DEF Accept, Picks
<1>3. conns + 1 \in Conn /\ conns \in Nat
  BY <1>1 DEF MemoryInv, Conn
<1>4. Stream(ms) \in Seq(Word)
  BY StreamWords, Zenon
<1>5. MemoryInv'
  <2>1. wire' \in [Conn -> Seq(Word)]
    BY <1>1, <1>3, <1>4, Zenon DEF MemoryInv
  <2>2. heap' \in [Rec -> Record]
    BY <1>2, NewRecord DEF MemoryInv
  <2>3. bus_conn' \in Seq(Rec)
    BY <1>2 DEF MemoryInv
  <2>4. owner' \in [Sockets -> 0..MaxConns]
    BY <1>1, <1>2 DEF MemoryInv
  <2>5. free' \in [Rec -> Nat]
    <3>1. free[r] - 1 \in Nat
      BY <1>2 DEF MemoryInv
    <3> QED BY <1>2, <3>1 DEF MemoryInv
  <2>6. hurt' \subseteq Conn
    BY <1>2, <1>3, HolderType, HurtsType DEF Conn
  <2> QED BY <1>1, <1>2, <1>3, <2>1, <2>2, <2>3, <2>4, <2>5, <2>6 DEF MemoryInv
<1>6. OwnerInv'
  BY <1>1, <1>2, <1>3, SMTT(60) DEF OwnerInv, MemoryInv
<1>7. ParseInv'
  BY <1>1 DEF ParseInv
<1>8. RoomInv'
  BY <1>1, <1>2 DEF RoomInv, MemoryInv
<1>9. AnswerInv'
  <2>1. ASSUME dispatcher # 0, Open(registrant)' PROVE owner'[dispatcher] = registrant
    <3>1. registrant # 0 /\ registrant <= conns
      BY <2>1 DEF AnswerInv
    <3>2. PICK t \in Sockets : owner'[t] = registrant
      BY <1>1, <2>1 DEF Open
    <3>3. t # s /\ owner[t] = registrant
      BY <1>2, <1>3, <3>1, <3>2 DEF MemoryInv
    <3>4. owner[dispatcher] = registrant
      BY <2>1, <3>3 DEF AnswerInv, Open
    <3> QED BY <1>2, <2>1, <3>1, <3>4 DEF MemoryInv
  <2> QED BY <1>1, <1>3, <2>1 DEF AnswerInv, ToRegistrant, MemoryInv
<1> QED BY <1>5, <1>6, <1>7, <1>8, <1>9

LEMMA PeerKeeps == ASSUME BInv, NEW c \in Conn, PeerCloses(c) PROVE BInv'
<1> USE DEF BInv, PeerCloses, NoAnswer
<1>1. MemoryInv'
  <2>1. <<>> \in Seq(Word)
    OBVIOUS
  <2>2. wire' \in [Conn -> Seq(Word)]
    BY <2>1, Zenon DEF MemoryInv
  <2> QED BY <2>2, Bounds DEF MemoryInv
<1>2. (OwnerInv /\ ParseInv /\ RoomInv)'
  BY DEF OwnerInv, ParseInv, RoomInv
<1>3. AnswerInv'
  BY DEF AnswerInv, ToRegistrant, Open
<1> QED BY <1>1, <1>2, <1>3

LEMMA CloseKeeps == ASSUME BInv, NEW s \in Sockets, Close(s) PROVE BInv'
<1> USE Bounds DEF BInv
<1> DEFINE p == Min(Places(s))
           r == bus_conn[p]
           next == IF p < Len(bus_conn) THEN bus_conn[p + 1] ELSE r
<1>1. /\ at = 0 /\ at' = 0 /\ answer' = 0 /\ owner[s] # 0
      /\ owner' = [owner EXCEPT ![s] = 0]
      /\ bus_conn' = RemoveAt(bus_conn, p)
      /\ free' = Deleted(Deleted(free, r), next)
      /\ Hurts({Holder(next)} \ {owner[s]})
      /\ UNCHANGED <<conns, wire, closed, dispatcher, registrant, starts>>
  BY Zenon DEF Close, Idle, NoAnswer
<1>2. p \in DOMAIN bus_conn
  BY FirstPlace, Zenon DEF Close
<1>3. \A q \in Rec : \/ heap'[q] = Unused \/ heap'[q] = heap[q]
                     \/ heap'[q] = [heap[q] EXCEPT !.fd = 0]
  BY Zenon DEF Close
<1>4. heap' \in [Rec -> Record]
  <2>1. PICK gone \in SUBSET {r, next} :
          heap' = [q \in Rec |->
                     IF q \notin Range(bus_conn') THEN Unused
                     ELSE IF q \in gone THEN [heap[q] EXCEPT !.fd = 0]
                     ELSE heap[q]]
    BY Zenon DEF Close
  <2>2. Unused \in Record
    BY NewRecord DEF Unused
  <2>3. \A q \in Rec : heap[q] \in Record /\ [heap[q] EXCEPT !.fd = 0] \in Record
    BY DEF MemoryInv, Record
  <2> HIDE DEF next, r
  <2> QED BY <2>1, <2>2, <2>3, Zenon
<1>5. r \in Rec /\ next \in Rec
  <2>1. r \in Rec
    BY <1>2 DEF MemoryInv
  <2>2. CASE p < Len(bus_conn)
    BY <1>2, <2>1, <2>2 DEF MemoryInv
  <2>3. CASE ~(p < Len(bus_conn))
    BY <2>1, <2>3
  <2> QED BY <2>1, <2>2, <2>3
<1>6. hurt' \subseteq Conn
  <2> HIDE DEF next, p, r
  <2>1. {Holder(next)} \ {owner[s]} \in SUBSET (0..MaxConns)
    BY <1>5, HolderType
  <2> QED BY <1>1, <2>1, HurtsType
<1>7. bus_conn' \in Seq(Rec)
  <2>1. Len(bus_conn) \in Nat /\ p \in 1..Len(bus_conn)
    BY <1>2 DEF MemoryInv
  <2>2. SubSeq(bus_conn, 1, p - 1) \in Seq(Rec) /\ SubSeq(bus_conn, p + 1, Len(bus_conn)) \in Seq(Rec)
    <3> HIDE DEF p
    <3>1. bus_conn \in Seq(Rec)
      BY Zenon DEF MemoryInv
    <3>2. \A i \in 1..Len(bus_conn) : bus_conn[i] \in Rec
      BY <3>1
    <3>3. /\ \A i \in 1..(p - 1) : bus_conn[i] \in Rec
          /\ \A i \in (p + 1)..Len(bus_conn) : bus_conn[i] \in Rec
          /\ p - 1 \in Int /\ p + 1 \in Int
      BY <2>1, <3>2
    <3> QED BY <2>1, <3>1, <3>3, SubSeqProperties
  <2> QED BY <1>1, <2>2, ConcatProperties, Zenon DEF RemoveAt
<1> HIDE DEF p, r, next
<1>8. owner' \in [Sockets -> 0..MaxConns] /\ free' \in [Rec -> Nat]
  <2>1. owner' \in [Sockets -> 0..MaxConns]
    BY <1>1 DEF MemoryInv
  <2>2. \A f \in [Rec -> Nat] : \A q \in Rec : Deleted(f, q) \in [Rec -> Nat]
    BY DEF Deleted
  <2>3. Deleted(free, r) \in [Rec -> Nat]
    BY <1>5, <2>2 DEF MemoryInv
  <2>4. Deleted(Deleted(free, r), next) \in [Rec -> Nat]
    BY <1>5, <2>2, <2>3, Zenon
  <2> QED BY <1>1, <2>1, <2>4
<1>9. MemoryInv'
  BY <1>1, <1>4, <1>6, <1>7, <1>8 DEF MemoryInv
<1>10. OwnerInv'
  BY <1>1 DEF OwnerInv, MemoryInv
<1>11. ParseInv'
  BY <1>1 DEF ParseInv
<1>12. RoomInv'
  <2>1. \A q \in Rec : heap'[q].buf = <<>> \/ heap'[q].buf = heap[q].buf
    <3> TAKE q \in Rec
    <3>1. heap[q] \in Record
      BY DEF MemoryInv
    <3>2. [heap[q] EXCEPT !.fd = 0].buf = heap[q].buf /\ Unused.buf = <<>>
      BY <3>1 DEF Record, Unused
    <3> QED BY <1>3, <3>2
  <2>2. Len(<<>>) = 0
    OBVIOUS
  <2> QED BY <1>1, <2>1, <2>2 DEF RoomInv
<1>13. AnswerInv'
  <2>1. ASSUME dispatcher # 0, Open(registrant)' PROVE owner'[dispatcher] = registrant
    <3>1. registrant # 0
      BY <2>1 DEF AnswerInv
    <3>2. PICK t \in Sockets : owner'[t] = registrant
      BY <1>1, <2>1 DEF Open
    <3>3. t # s /\ owner[t] = registrant
      BY <1>1, <3>1, <3>2 DEF MemoryInv
    <3>4. owner[dispatcher] = registrant /\ dispatcher \in Sockets
      BY <2>1, <3>3 DEF AnswerInv, Open, MemoryInv
    <3>5. dispatcher = t
      BY <3>1, <3>3, <3>4 DEF OwnerInv
    <3> QED BY <3>2, <3>5
  <2> QED BY <1>1, <2>1 DEF AnswerInv, ToRegistrant
<1> QED BY <1>9, <1>10, <1>11, <1>12, <1>13

-----------------------------------------------------------------------------
(* The select loop                                                         *)

\* What recv moves from the wire into the record of a socket.
LEMMA Received ==
  ASSUME MemoryInv, NEW s \in Sockets, Recv(s)
  PROVE  LET r == bus_conn[Min(Places(s))]
             c == owner[s]
         IN /\ at = 0 /\ at' = r /\ answer' = 0 /\ c \in Conn
            /\ r \in Rec /\ heap[r].fd = s
            /\ heap[r].buf \in Seq(Word) /\ wire[c] \in Seq(Word)
            /\ \E n \in 0..Len(wire[c]) :
                 /\ n <= LEN_BUF_RCV - Len(heap[r].buf)
                 /\ heap'[r].buf = heap[r].buf \o SubSeq(wire[c], 1, n)
                 /\ Len(heap'[r].buf) = Len(heap[r].buf) + n
                 /\ wire' = [wire EXCEPT ![c] = SubSeq(wire[c], n + 1, Len(wire[c]))]
            /\ heap' \in [Rec -> Record] /\ wire' \in [Conn -> Seq(Word)]
            /\ \A q \in Rec : heap'[q].fd = heap[q].fd
            /\ \A q \in Rec \ {r} : heap'[q] = heap[q]
<1> USE Bounds
<1> DEFINE r == bus_conn[Min(Places(s))]
           c == owner[s]
<1>1. at = 0 /\ at' = r /\ answer' = 0 /\ c # 0
  BY Zenon DEF Recv, Idle, NoAnswer
<1>2. PICK n \in Arrives(c, LEN_BUF_RCV - Len(heap[r].buf)) :
        /\ n > 0
        /\ heap' = [heap EXCEPT ![r].buf = @ \o SubSeq(wire[c], 1, n)]
        /\ Takes(c, n)
  BY Zenon DEF Recv
<1>3. r \in Rec /\ heap[r].fd = s
  BY FirstPlace, Zenon DEF Recv
<1>4. c \in Conn
  BY <1>1 DEF MemoryInv, Conn
<1> HIDE DEF r, c
<1>5. /\ heap[r].buf \in Seq(Word) /\ wire[c] \in Seq(Word)
      /\ heap[r] \in Record
  BY <1>3, <1>4 DEF MemoryInv, Record
<1>6. Len(heap[r].buf) \in Nat /\ Len(wire[c]) \in Nat
  BY <1>5
<1>7. n \in 0..Len(wire[c]) /\ n <= LEN_BUF_RCV - Len(heap[r].buf)
  <2>1. \/ n \in Chunks \union {Len(wire[c])} /\ n <= Len(wire[c])
             /\ n <= LEN_BUF_RCV - Len(heap[r].buf)
        \/ /\ n = LEN_BUF_RCV - Len(heap[r].buf)
           /\ LEN_BUF_RCV - Len(heap[r].buf) < Len(wire[c])
    BY <1>2, Zenon DEF Arrives
  <2>2. n \in Int
    <3>1. Chunks \subseteq Nat
      BY BusAssumption, Zenon
    <3>2. LEN_BUF_RCV - Len(heap[r].buf) \in Int
      BY <1>6
    <3>3. Len(wire[c]) \in Int /\ Nat \subseteq Int
      BY <1>6
    <3> QED BY <2>1, <3>1, <3>2, <3>3, Zenon
  <2> QED BY <1>2, <1>6, <2>1, <2>2, SMTT(20)
<1>8. /\ SubSeq(wire[c], 1, n) \in Seq(Word)
      /\ Len(SubSeq(wire[c], 1, n)) = n
  BY <1>5, <1>7, Start, Zenon
<1> DEFINE b == heap[r].buf \o SubSeq(wire[c], 1, n)
<1>9. b \in Seq(Word) /\ Len(b) = Len(heap[r].buf) + n
  BY <1>5, <1>8, ConcatProperties, SMTT(20)
<1>10. /\ heap' \in [Rec -> Record] /\ heap'[r].buf = b
       /\ \A q \in Rec : heap'[q].fd = heap[q].fd
       /\ \A q \in Rec \ {r} : heap'[q] = heap[q]
  <2> HIDE DEF b
  <2>1. heap' = [heap EXCEPT ![r].buf = b]
    BY <1>2 DEF b
  <2>2. heap \in [Rec -> Record]
    BY DEF MemoryInv
  <2> QED BY <1>3, <1>9, <2>1, <2>2 DEF Record
<1>11. /\ wire' = [wire EXCEPT ![c] = SubSeq(wire[c], n + 1, Len(wire[c]))]
       /\ wire' \in [Conn -> Seq(Word)]
  <2>1. SubSeq(wire[c], n + 1, Len(wire[c])) \in Seq(Word)
    BY <1>5, <1>7, Part
  <2> QED BY <1>2, <2>1, Zenon DEF MemoryInv, Takes
<1> HIDE DEF b
<1>12. \E k \in 0..Len(wire[c]) :
         /\ k <= LEN_BUF_RCV - Len(heap[r].buf)
         /\ heap'[r].buf = heap[r].buf \o SubSeq(wire[c], 1, k)
         /\ Len(heap'[r].buf) = Len(heap[r].buf) + k
         /\ wire' = [wire EXCEPT ![c] = SubSeq(wire[c], k + 1, Len(wire[c]))]
  BY <1>7, <1>9, <1>10, <1>11, Zenon DEF b
<1> QED BY <1>1, <1>3, <1>4, <1>5, <1>10, <1>11, <1>12, Zenon DEF r, c

LEMMA RecvKeeps == ASSUME BInv, NEW s \in Sockets, Recv(s) PROVE BInv'
<1> USE Bounds DEF BInv
<1> DEFINE r == bus_conn[Min(Places(s))]
           c == owner[s]
<1>1. UNCHANGED <<conns, closed, owner, bus_conn, free, dispatcher, registrant,
                  rough, hurt, starts>>
  BY Zenon DEF Recv
<1>2. /\ at = 0 /\ at' = r /\ answer' = 0 /\ c \in Conn
      /\ r \in Rec /\ heap[r].fd = s
      /\ heap[r].buf \in Seq(Word) /\ wire[c] \in Seq(Word)
      /\ heap' \in [Rec -> Record] /\ wire' \in [Conn -> Seq(Word)]
      /\ \A q \in Rec : heap'[q].fd = heap[q].fd
      /\ \A q \in Rec \ {r} : heap'[q] = heap[q]
  BY Received, Zenon
<1>3. PICK n \in 0..Len(wire[c]) :
        /\ n <= LEN_BUF_RCV - Len(heap[r].buf)
        /\ Len(heap'[r].buf) = Len(heap[r].buf) + n
  BY Received, Zenon
<1> HIDE DEF r, c
<1>4. MemoryInv'
  <2>1. conns' \in 0..MaxConns /\ starts' \in 0..MaxStarts /\ closed' \subseteq Conn
        /\ hurt' \subseteq Conn /\ free' \in [Rec -> Nat]
    BY <1>1, Zenon DEF MemoryInv
  <2>2. owner' \in [Sockets -> 0..MaxConns] /\ bus_conn' \in Seq(Rec)
    BY <1>1, Zenon DEF MemoryInv
  <2>3. dispatcher' \in Sockets \union {0} /\ registrant' \in 0..MaxConns
    BY <1>1, Zenon DEF MemoryInv
  <2>4. answer' \in 0..MaxConns
    BY <1>2
  <2>5. at' \in Rec \union {0}
    BY <1>2, Zenon
  <2> QED BY <1>2, <2>1, <2>2, <2>3, <2>4, <2>5, Zenon DEF MemoryInv
<1>5. OwnerInv'
  BY <1>1 DEF OwnerInv
<1>6. ParseInv'
  <2>1. c # 0
    BY <1>2 DEF Conn
  <2> QED BY <1>1, <1>2, <2>1 DEF ParseInv, c
<1>7. RoomInv'
  <2>1. Len(heap[r].buf) \in Nat
    BY <1>2
  <2>2. Len(heap'[r].buf) <= LEN_BUF_RCV
    BY <1>2, <1>3, <2>1
  <2>3. ASSUME NEW q \in Rec, q # r
        PROVE  Len(heap'[q].buf) < LEN_BUF_RCV /\ Len(heap'[q].buf) <= LEN_BUF_RCV
    <3>1. heap'[q] = heap[q] /\ q # at
      BY <1>2, <2>3 DEF Rec
    <3>2. heap[q].buf \in Seq(Word)
      BY DEF MemoryInv, Record
    <3> QED BY <3>1, <3>2 DEF RoomInv
  <2> QED BY <1>2, <2>2, <2>3, Zenon DEF RoomInv
<1>8. AnswerInv'
  BY <1>1, <1>2 DEF AnswerInv, ToRegistrant, Open
<1> QED BY <1>4, <1>5, <1>6, <1>7, <1>8

LEMMA DiscardKeeps == ASSUME BInv, NEW s \in Sockets, Discard(s) PROVE BInv'
<1> USE DEF BInv, Discard, NoAnswer
<1>1. MemoryInv'
  <2>1. <<>> \in Seq(Word)
    OBVIOUS
  <2>2. wire' \in [Conn -> Seq(Word)]
    BY <2>1, Zenon DEF MemoryInv
  <2> QED BY <2>2, Bounds DEF MemoryInv
<1>2. (OwnerInv /\ ParseInv /\ RoomInv)'
  BY DEF OwnerInv, ParseInv, RoomInv
<1>3. AnswerInv'
  BY DEF AnswerInv, ToRegistrant, Open
<1> QED BY <1>1, <1>2, <1>3

-----------------------------------------------------------------------------
(* The buffer is parsed                                                    *)

\* What parsing leaves in the buffer of the record "at".
LEMMA Left ==
  ASSUME MemoryInv, at # 0, NEW b \in Seq(Word), Len(b) <= Len(Buf), Keeps(b)
  PROVE  /\ heap' \in [Rec -> Record]
         /\ heap'[at].buf = b
         /\ \A q \in Rec : heap'[q].fd = heap[q].fd
         /\ \A q \in Rec \ {at} : heap'[q] = heap[q]
<1>1. at \in Rec /\ heap \in [Rec -> Record]
  BY DEF MemoryInv
<1>2. heap' = [heap EXCEPT ![at].buf = b]
  BY DEF Keeps
<1> QED BY <1>1, <1>2 DEF Record

LEMMA BufType ==
  ASSUME MemoryInv, at # 0
  PROVE  at \in Rec /\ Buf \in Seq(Word) /\ Len(Buf) \in Nat
<1>1. at \in Rec /\ heap[at] \in Record
  BY DEF MemoryInv
<1>2. Buf \in Seq(Word)
  BY <1>1 DEF Buf, Record
<1> QED BY <1>1, <1>2

LEMMA SkipKeepsInv == ASSUME BInv, Skip PROVE BInv'
<1> USE Bounds DEF BInv
<1>1. /\ at # 0 /\ Len(Buf) >= 8 /\ answer' = 0 /\ Keeps(Resync(Buf))
      /\ at' = IF Heads(Buf) = {} THEN 0 ELSE at
      /\ UNCHANGED <<connVars, dispatcher, registrant>>
  BY Zenon DEF Skip, NoAnswer
<1>2. at \in Rec /\ Buf \in Seq(Word) /\ Len(Buf) \in Nat
  BY <1>1, BufType, Zenon
<1>3. /\ Resync(Buf) \in Seq(Word) /\ Len(Resync(Buf)) <= Len(Buf)
      /\ Heads(Buf) = {} => Len(Resync(Buf)) < 3
  BY <1>1, <1>2, Resynced, Zenon
<1>4. /\ heap' \in [Rec -> Record] /\ heap'[at].buf = Resync(Buf)
      /\ \A q \in Rec : heap'[q].fd = heap[q].fd
      /\ \A q \in Rec \ {at} : heap'[q] = heap[q]
  BY <1>1, <1>3, Left, Zenon
<1>5. MemoryInv'
  BY <1>1, <1>2, <1>4 DEF MemoryInv, connVars
<1>6. OwnerInv' /\ ParseInv'
  BY <1>1, <1>2, <1>4 DEF OwnerInv, ParseInv, connVars
<1>7. RoomInv'
  <2>1. Len(Buf) <= LEN_BUF_RCV
    BY <1>2 DEF RoomInv, Buf
  <2>2. Len(heap'[at].buf) <= LEN_BUF_RCV
    BY <1>2, <1>3, <1>4, <2>1
  <2>3. at' = 0 => Len(heap'[at].buf) < LEN_BUF_RCV
    BY <1>1, <1>2, <1>3, <1>4
  <2> QED BY <1>1, <1>4, <2>2, <2>3 DEF RoomInv
<1>8. AnswerInv'
  BY <1>1 DEF AnswerInv, ToRegistrant, Open, connVars
<1> QED BY <1>5, <1>6, <1>7, <1>8

\* A whole frame fits, so a full buffer never waits.
LEMMA WaitKeeps == ASSUME BInv, Wait PROVE BInv'
<1> USE Bounds DEF BInv
<1>1. /\ at # 0 /\ at' = 0 /\ answer' = 0
      /\ UNCHANGED <<connVars, heap, dispatcher, registrant>>
  BY Zenon DEF Wait, NoAnswer
<1>2. at \in Rec /\ Buf \in Seq(Word) /\ Len(Buf) \in Nat
  BY <1>1, BufType, Zenon
<1>3. Len(Buf) < LEN_BUF_RCV
  <2>1. CASE Len(Buf) < 8
    BY <1>2, <2>1
  <2>2. CASE HeadAt(Buf, 0) /\ Buf[1].msg.len > Len(Buf)
    <3>1. Len(Buf) >= 3 /\ IsMax(Buf[1])
      BY <1>2, <2>2 DEF HeadAt
    <3>2. Buf[1] \in Word
      BY <1>2, <3>1
    <3>3. Buf[1].msg.len \in Nat /\ Buf[1].msg.len <= LEN_BUF_RCV
      BY <3>1, <3>2, WordFacts DEF IsMax
    <3> QED BY <1>2, <2>2, <3>3
  <2> QED BY <2>1, <2>2 DEF Wait
<1>4. MemoryInv' /\ OwnerInv' /\ ParseInv' /\ AnswerInv'
  BY <1>1 DEF MemoryInv, OwnerInv, ParseInv, AnswerInv, ToRegistrant, Open, connVars
<1>5. RoomInv'
  BY <1>1, <1>3 DEF RoomInv, Buf
<1> QED BY <1>4, <1>5

\* The frame that is parsed: it fits, and names a vehicle if it registers one.
LEMMA Parsed ==
  ASSUME MemoryInv, at # 0, Len(Buf) >= LenDx, HeadAt(Buf, 0)
  PROVE  /\ Buf[1].msg.len \in Nat
         /\ Buf[1].msg.cmd \in {"657185", "657186"} => Buf[1].msg.ip \in Addr
<1>1. Buf \in Seq(Word) /\ Len(Buf) \in Nat /\ Len(Buf) >= 8
  BY BufType, Bounds
<1>2. Buf[1] \in Word
  BY <1>1
<1> QED BY <1>2, WordFacts, Zenon

LEMMA FrameKeeps == ASSUME BInv, Frame PROVE BInv'
<1> USE Bounds DEF BInv
<1> DEFINE m == Buf[1].msg
           b == SubSeq(Buf, m.len + 1, Len(Buf))
<1>1. /\ at # 0 /\ Len(Buf) >= LenDx /\ HeadAt(Buf, 0) /\ m.len <= Len(Buf)
      /\ Handle(m) /\ Keeps(b) /\ UNCHANGED <<connVars, at>>
  BY Zenon DEF Frame
<1>2. at \in Rec /\ Buf \in Seq(Word) /\ Len(Buf) \in Nat
  BY <1>1, BufType, Zenon
<1>3. m.len \in Nat
  BY <1>1, Parsed, Zenon
<1>4. b \in Seq(Word) /\ Len(b) <= Len(Buf)
  <2> HIDE DEF m
  <2>1. m.len + 1 \in Nat /\ m.len + 1 >= 1
    BY <1>3
  <2>2. b \in Seq(Word) /\ Len(b) = IF m.len + 1 <= Len(Buf) THEN Len(Buf) - (m.len + 1) + 1 ELSE 0
    BY <1>2, <2>1, Part, Zenon
  <2> QED BY <1>2, <1>3, <2>2
<1> HIDE DEF b
<1>5. /\ heap' \in [Rec -> Record] /\ heap'[at].buf = b
      /\ \A q \in Rec : heap'[q].fd = heap[q].fd
      /\ \A q \in Rec \ {at} : heap'[q] = heap[q]
  BY <1>1, <1>4, Left, Zenon
<1>6. heap[at].fd \in Sockets /\ owner[heap[at].fd] # 0
  BY <1>1 DEF ParseInv
<1>7. owner[heap[at].fd] \in 0..MaxConns /\ owner[heap[at].fd] <= conns
  BY <1>6 DEF OwnerInv, MemoryInv
<1>8. UNCHANGED <<conns, wire, closed, owner, bus_conn, free, rough, hurt, starts, at>>
  BY <1>1 DEF connVars
<1>9. \/ /\ dispatcher' = heap[at].fd
         /\ registrant' = owner[heap[at].fd]
         /\ answer' = 0
      \/ /\ answer' = IF dispatcher = 0 THEN 0 ELSE owner[dispatcher]
         /\ UNCHANGED <<dispatcher, registrant>>
      \/ answer' = 0 /\ UNCHANGED <<dispatcher, registrant>>
  <2> HIDE DEF m
  <2>1. CASE m.cmd \in {"657185", "657186"}
    BY <1>1, <2>1 DEF Handle, NoAnswer
  <2>2. CASE m.cmd \in {"657189", "damaged"}
    BY <1>1, <2>2 DEF Handle, Answers
  <2>3. CASE m.cmd \notin {"657185", "657186", "657189", "damaged"}
    BY <1>1, <2>3 DEF Handle, NoAnswer
  <2> QED BY <2>1, <2>2, <2>3
<1>10. MemoryInv'
  <2>1. dispatcher' \in Sockets \union {0} /\ registrant' \in 0..MaxConns
    BY <1>6, <1>7, <1>9 DEF MemoryInv
  <2>2. answer' \in 0..MaxConns
    BY <1>9 DEF MemoryInv
  <2> QED BY <1>5, <1>8, <2>1, <2>2 DEF MemoryInv
<1>11. OwnerInv'
  BY <1>8 DEF OwnerInv
<1>12. ParseInv'
  BY <1>2, <1>5, <1>8 DEF ParseInv
<1>13. RoomInv'
  <2>1. Len(Buf) <= LEN_BUF_RCV
    BY <1>2 DEF RoomInv, Buf
  <2>2. Len(b) <= LEN_BUF_RCV
    <3>1. Len(b) \in Nat
      BY <1>4
    <3> QED BY <1>2, <1>4, <2>1, <3>1
  <2> QED BY <1>5, <1>8, <2>2 DEF RoomInv
<1>14. AnswerInv'
  <2>1. CASE /\ dispatcher' = heap[at].fd
             /\ registrant' = owner[heap[at].fd]
             /\ answer' = 0
    BY <1>6, <1>7, <1>8, <2>1 DEF AnswerInv, ToRegistrant
  <2>2. CASE /\ answer' = IF dispatcher = 0 THEN 0 ELSE owner[dispatcher]
             /\ UNCHANGED <<dispatcher, registrant>>
    BY <1>8, <2>2 DEF AnswerInv, ToRegistrant, Open
  <2>3. CASE answer' = 0 /\ UNCHANGED <<dispatcher, registrant>>
    BY <1>8, <2>3 DEF AnswerInv, ToRegistrant, Open
  <2> QED BY <1>9, <2>1, <2>2, <2>3
<1> QED BY <1>10, <1>11, <1>12, <1>13, <1>14

-----------------------------------------------------------------------------
(* Frames                                                                  *)

\* The record of a socket is one, and no other has its number.
HasRecord(s, r) ==
  /\ heap[r].fd = s
  /\ Places(s) # {} /\ \A p \in Places(s) : bus_conn[p] = r

\* The connections FramesKept is about.
Sound(s) == owner[s] # 0 /\ owner[s] \notin closed \union hurt \union rough

\* What a record and the wire keep for a connection.
KeptFor(s, r) ==
  HasRecord(s, r) /\ Kept(heap[r].buf \o wire[owner[s]], due[owner[s]])

DueInv == due = [c \in Conn |-> due[c]]
PointedInv == at # 0 => \E p \in DOMAIN bus_conn : bus_conn[p] = at
SoundInv == \A s \in Sockets : Sound(s) => \E r \in Rec : KeptFor(s, r)

FramesInv == DueInv /\ PointedInv /\ SoundInv

LEMMA FramesStart == BusInit => FramesInv
<1> SUFFICES ASSUME BusInit PROVE FramesInv
  OBVIOUS
<1>1. DueInv
  BY DEF BusInit, DueInv
<1>2. PointedInv /\ SoundInv
  BY DEF BusInit, PointedInv, SoundInv, Sound
<1> QED BY <1>1, <1>2 DEF FramesInv

LEMMA RestartFrames == ASSUME Restart PROVE FramesInv'
<1>1. DueInv'
  <2>1. due' = [c \in Conn |-> {}]
    BY DEF Restart
  <2> QED BY <2>1 DEF DueInv
<1>2. PointedInv' /\ SoundInv'
  BY DEF Restart, PointedInv, SoundInv, Sound
<1> QED BY <1>1, <1>2 DEF FramesInv

\* The connection of a sound socket is of 1..MaxConns.
LEMMA SoundConn ==
  ASSUME BInv, NEW t \in Sockets, Sound(t)
  PROVE  owner[t] \in Conn /\ owner[t] \in 1..conns
  BY Bounds DEF BInv, MemoryInv, OwnerInv, Sound, Conn

\* No number changes: the places are the same.
LEMMA SamePlaces ==
  ASSUME MemoryInv, bus_conn' = bus_conn,
         \A q \in Rec : heap'[q].fd = heap[q].fd, NEW s
  PROVE  Places(s)' = Places(s)
<1>1. \A p \in DOMAIN bus_conn : bus_conn[p] \in Rec
  BY DEF MemoryInv
<1>2. \A p \in DOMAIN bus_conn : heap'[bus_conn[p]].fd = heap[bus_conn[p]].fd
  BY <1>1, Zenon
<1> QED BY <1>2, Zenon DEF Places

LEMMA PeerFrames ==
  ASSUME BInv, FramesInv, NEW c \in Conn, PeerCloses(c) PROVE FramesInv'
<1>1. /\ closed' = closed \union {c}
      /\ due' = [due EXCEPT ![c] = {}]
      /\ rough' = rough \ {c} /\ hurt' = hurt \ {c}
      /\ UNCHANGED <<owner, bus_conn, heap, at>>
      /\ \/ wire' = wire
         \/ wire' = [wire EXCEPT ![c] = <<>>]
  BY Zenon DEF PeerCloses
<1>2. \A d \in Conn : d # c => due'[d] = due[d] /\ wire'[d] = wire[d]
  <2>1. due = [d \in Conn |-> due[d]]
    BY DEF FramesInv, DueInv
  <2>2. wire \in [Conn -> Seq(Word)]
    BY DEF BInv, MemoryInv
  <2> QED BY <1>1, <2>1, <2>2
<1>3. DueInv'
  BY <1>1, Zenon DEF DueInv, FramesInv
<1>4. PointedInv'
  BY <1>1 DEF PointedInv, FramesInv
<1>5. SoundInv'
  <2> SUFFICES ASSUME NEW t \in Sockets, Sound(t)' PROVE (\E r \in Rec : KeptFor(t, r))'
    BY DEF SoundInv
  <2>1. Sound(t) /\ owner[t] # c
    BY <1>1 DEF Sound
  <2>2. PICK r \in Rec : KeptFor(t, r)
    BY <2>1 DEF FramesInv, SoundInv
  <2>3. wire'[owner[t]] = wire[owner[t]] /\ due'[owner[t]] = due[owner[t]]
    BY <1>2, <2>1, SoundConn, Zenon
  <2>4. HasRecord(t, r)'
    BY <1>1, <2>2 DEF KeptFor, HasRecord, Places
  <2> QED BY <1>1, <2>2, <2>3, <2>4 DEF KeptFor
<1> QED BY <1>3, <1>4, <1>5 DEF FramesInv

\* What recv takes goes to the end of the buffer.
LEMMA MovedOn ==
  ASSUME NEW b \in Seq(Word), NEW v \in Seq(Word), NEW n \in 0..Len(v)
  PROVE  (b \o SubSeq(v, 1, n)) \o SubSeq(v, n + 1, Len(v)) = b \o v
<1>1. Len(v) \in Nat /\ n \in Nat
  OBVIOUS
<1>2. SubSeq(v, 1, n) \in Seq(Word)
  BY Start
<1>3. SubSeq(v, n + 1, Len(v)) \in Seq(Word)
  BY <1>1, Part
<1>4. SubSeq(v, 1, n) \o SubSeq(v, n + 1, Len(v)) = v
  <2>1. 1 \in 1..Len(v) + 1 /\ n \in 1 - 1..Len(v) /\ Len(v) \in n..Len(v)
    BY <1>1
  <2>2. SubSeq(v, 1, n) \o SubSeq(v, n + 1, Len(v)) = SubSeq(v, 1, Len(v))
    BY <2>1, ConcatAdjacentSubSeq, Zenon
  <2> QED BY <2>2, SubSeqFull, Zenon
<1> DEFINE f == SubSeq(v, 1, n)
           g == SubSeq(v, n + 1, Len(v))
<1> HIDE DEF f, g
<1>5. (b \o f) \o g = b \o (f \o g)
  <2>1. f \in Seq(Word) /\ g \in Seq(Word)
    BY <1>2, <1>3 DEF f, g
  <2> QED BY <2>1, ConcatAssociative, SMTT(20)
<1>6. f \o g = v
  BY <1>4 DEF f, g
<1>7. (b \o f) \o g = b \o v
  BY <1>5, <1>6
<1> QED BY <1>7 DEF f, g

LEMMA RecvFrames ==
  ASSUME BInv, FramesInv, NEW s \in Sockets, Recv(s) PROVE FramesInv'
<1> DEFINE r == bus_conn[Min(Places(s))]
           c == owner[s]
<1>1. UNCHANGED <<closed, owner, bus_conn, free, due, rough, hurt>>
  BY Zenon DEF Recv
<1>2. /\ at' = r /\ c \in Conn /\ r \in Rec /\ heap[r].fd = s
      /\ heap[r].buf \in Seq(Word) /\ wire[c] \in Seq(Word)
      /\ \A q \in Rec : heap'[q].fd = heap[q].fd
      /\ \A q \in Rec \ {r} : heap'[q] = heap[q]
  BY Received, Zenon DEF BInv
<1>3. PICK n \in 0..Len(wire[c]) :
        /\ heap'[r].buf = heap[r].buf \o SubSeq(wire[c], 1, n)
        /\ wire' = [wire EXCEPT ![c] = SubSeq(wire[c], n + 1, Len(wire[c]))]
  BY Received, Zenon DEF BInv
<1>4. Min(Places(s)) \in Places(s) /\ Min(Places(s)) \in DOMAIN bus_conn
  <2>1. Places(s) \in SUBSET Nat
    BY DEF Places, BInv, MemoryInv
  <2>2. Min(Places(s)) \in Places(s)
    BY <2>1, LeastNat, Zenon DEF Recv
  <2> QED BY <2>2 DEF Places
<1> HIDE DEF r, c
<1>5. wire \in [Conn -> Seq(Word)]
  BY DEF BInv, MemoryInv
<1>6. DueInv'
  BY <1>1, Zenon DEF DueInv, FramesInv
<1>7. PointedInv'
  BY <1>1, <1>2, <1>4 DEF PointedInv, r
<1>8. SoundInv'
  <2> SUFFICES ASSUME NEW t \in Sockets, Sound(t)' PROVE (\E q \in Rec : KeptFor(t, q))'
    BY DEF SoundInv
  <2>1. Sound(t)
    BY <1>1 DEF Sound
  <2>2. PICK q \in Rec : KeptFor(t, q)
    BY <2>1 DEF FramesInv, SoundInv
  <2>3. HasRecord(t, q)'
    <3>1. Places(t)' = Places(t)
      BY <1>1, <1>2, SamePlaces DEF BInv
    <3> QED BY <1>1, <1>2, <2>2, <3>1 DEF KeptFor, HasRecord
  <2>4. heap'[q].buf \o wire'[owner[t]] = heap[q].buf \o wire[owner[t]]
    <3>1. CASE t = s
      <4>1. q = r /\ owner[t] = c
        BY <1>4, <2>2, <3>1 DEF KeptFor, HasRecord, r, c
      <4>2. wire'[c] = SubSeq(wire[c], n + 1, Len(wire[c]))
        BY <1>2, <1>3, <1>5
      <4>3. (heap[r].buf \o SubSeq(wire[c], 1, n)) \o SubSeq(wire[c], n + 1, Len(wire[c]))
              = heap[r].buf \o wire[c]
        BY <1>2, MovedOn, Zenon
      <4> QED BY <1>3, <4>1, <4>2, <4>3
    <3>2. CASE t # s
      <4>1. q # r
        BY <1>2, <2>2, <3>2 DEF KeptFor, HasRecord
      <4>2. owner[t] # c
        BY <2>1, <3>2 DEF BInv, OwnerInv, Sound, c
      <4>3. wire'[owner[t]] = wire[owner[t]]
        BY <1>3, <1>5, <4>2
      <4> QED BY <1>2, <4>1, <4>3
    <3> QED BY <3>1, <3>2
  <2> QED BY <1>1, <2>2, <2>3, <2>4 DEF KeptFor
<1> QED BY <1>6, <1>7, <1>8 DEF FramesInv

LEMMA DiscardFrames ==
  ASSUME BInv, FramesInv, NEW s \in Sockets, Discard(s) PROVE FramesInv'
<1>1. /\ Places(s) = {} /\ wire' = [wire EXCEPT ![owner[s]] = <<>>]
      /\ UNCHANGED <<closed, owner, bus_conn, heap, free, due, at, rough, hurt>>
  BY Zenon DEF Discard
<1>2. DueInv'
  BY <1>1, Zenon DEF DueInv, FramesInv
<1>3. PointedInv'
  BY <1>1 DEF PointedInv, FramesInv
<1>4. SoundInv'
  <2> SUFFICES ASSUME NEW t \in Sockets, Sound(t)' PROVE (\E q \in Rec : KeptFor(t, q))'
    BY DEF SoundInv
  <2>1. Sound(t)
    BY <1>1 DEF Sound
  <2>2. PICK q \in Rec : KeptFor(t, q)
    BY <2>1 DEF FramesInv, SoundInv
  <2>3. t # s
    BY <1>1, <2>2 DEF KeptFor, HasRecord
  <2>4. owner[t] # owner[s]
    BY <2>1, <2>3 DEF BInv, OwnerInv, Sound
  <2>5. wire'[owner[t]] = wire[owner[t]]
    BY <1>1, <2>4 DEF BInv, MemoryInv
  <2>6. HasRecord(t, q)'
    BY <1>1, <2>2 DEF KeptFor, HasRecord, Places
  <2> QED BY <1>1, <2>2, <2>5, <2>6 DEF KeptFor
<1> QED BY <1>2, <1>3, <1>4 DEF FramesInv

LEMMA WaitFrames == ASSUME FramesInv, Wait PROVE FramesInv'
<1>1. at' = 0 /\ UNCHANGED <<connVars, heap, due>>
  BY Zenon DEF Wait
<1>2. DueInv' /\ PointedInv'
  BY <1>1, Zenon DEF DueInv, PointedInv, FramesInv
<1>3. SoundInv'
  BY <1>1 DEF FramesInv, SoundInv, Sound, KeptFor, HasRecord, Places, connVars
<1> QED BY <1>2, <1>3 DEF FramesInv

LEMMA SkipFrames == ASSUME BInv, FramesInv, Skip PROVE FramesInv'
<1> USE Bounds
<1>1. /\ at # 0 /\ Len(Buf) >= 8 /\ Keeps(Resync(Buf))
      /\ at' = 0 \/ at' = at
      /\ UNCHANGED <<wire, closed, owner, bus_conn, free, rough, hurt, due>>
  BY Zenon DEF Skip, connVars
<1>2. at \in Rec /\ Buf \in Seq(Word)
  BY <1>1, BufType, Zenon DEF BInv
<1>3. Resync(Buf) \in Seq(Word) /\ Len(Resync(Buf)) <= Len(Buf)
  BY <1>1, <1>2, Resynced, Zenon
<1>4. /\ heap'[at].buf = Resync(Buf)
      /\ \A q \in Rec : heap'[q].fd = heap[q].fd
      /\ \A q \in Rec \ {at} : heap'[q] = heap[q]
  BY <1>1, <1>3, Left, Zenon DEF BInv
<1>5. DueInv'
  BY <1>1, Zenon DEF DueInv, FramesInv
<1>6. PointedInv'
  BY <1>1 DEF PointedInv, FramesInv
<1>7. SoundInv'
  <2> SUFFICES ASSUME NEW t \in Sockets, Sound(t)' PROVE (\E q \in Rec : KeptFor(t, q))'
    BY DEF SoundInv
  <2>1. Sound(t)
    BY <1>1 DEF Sound
  <2>2. PICK q \in Rec : KeptFor(t, q)
    BY <2>1 DEF FramesInv, SoundInv
  <2>3. HasRecord(t, q)'
    <3>1. Places(t)' = Places(t)
      BY <1>1, <1>4, SamePlaces DEF BInv
    <3> QED BY <1>1, <1>4, <2>2, <3>1 DEF KeptFor, HasRecord
  <2>4. Kept(heap'[q].buf \o wire[owner[t]], due[owner[t]])
    <3>1. CASE q = at
      <4>1. wire[owner[t]] \in Seq(Word)
        BY <2>1, SoundConn DEF BInv, MemoryInv
      <4>2. Kept(Buf \o wire[owner[t]], due[owner[t]])
        BY <2>2, <3>1 DEF KeptFor, Buf
      <4>3. Kept(Resync(Buf) \o wire[owner[t]], due[owner[t]])
        BY <1>2, <4>1, <4>2, SkipGoes, Zenon
      <4> QED BY <1>4, <3>1, <4>3
    <3>2. CASE q # at
      BY <1>4, <2>2, <3>2 DEF KeptFor
    <3> QED BY <3>1, <3>2
  <2> QED BY <1>1, <2>3, <2>4 DEF KeptFor
<1> QED BY <1>5, <1>6, <1>7 DEF FramesInv

LEMMA FrameFrames == ASSUME BInv, FramesInv, Frame PROVE FramesInv'
<1> USE Bounds
<1> DEFINE m == Buf[1].msg
           b == SubSeq(Buf, m.len + 1, Len(Buf))
           s == heap[at].fd
           Rests(d) == {f \in d : f.msg # m \/ \E g \in d : g.i < f.i}
<1>1. /\ at # 0 /\ Len(Buf) >= LenDx /\ HeadAt(Buf, 0) /\ m.len <= Len(Buf)
      /\ Keeps(b) /\ at' = at
      /\ due' = [due EXCEPT ![owner[s]] = Rests(due[owner[s]])]
      /\ UNCHANGED <<wire, closed, owner, bus_conn, free, rough, hurt>>
  BY Zenon DEF Frame, connVars
<1>2. at \in Rec /\ Buf \in Seq(Word) /\ Len(Buf) \in Nat
  BY <1>1, BufType, Zenon DEF BInv
<1>3. m.len \in Nat
  BY <1>1, Parsed, Zenon DEF BInv
<1>4. b \in Seq(Word) /\ Len(b) <= Len(Buf)
  <2> HIDE DEF m
  <2>1. m.len + 1 \in Nat /\ m.len + 1 >= 1
    BY <1>3
  <2>2. b \in Seq(Word) /\ Len(b) = IF m.len + 1 <= Len(Buf) THEN Len(Buf) - (m.len + 1) + 1 ELSE 0
    BY <1>2, <2>1, Part, Zenon
  <2> QED BY <1>2, <1>3, <2>2
<1> HIDE DEF b, Rests
<1>5. /\ heap'[at].buf = b
      /\ \A q \in Rec : heap'[q].fd = heap[q].fd
      /\ \A q \in Rec \ {at} : heap'[q] = heap[q]
  BY <1>1, <1>4, Left, Zenon DEF BInv
<1>6. due = [c \in Conn |-> due[c]]
  BY DEF FramesInv, DueInv
<1>7. DueInv'
  BY <1>1, <1>6, Zenon DEF DueInv
<1>8. PointedInv' /\ \E p \in DOMAIN bus_conn : bus_conn[p] = at
  BY <1>1 DEF PointedInv, FramesInv
<1>9. IsFrame(m)
  <2>1. IsMax(Buf[0 + 1])
    BY <1>1 DEF HeadAt
  <2> QED BY <2>1 DEF IsMax
<1>10. SoundInv'
  <2> SUFFICES ASSUME NEW t \in Sockets, Sound(t)' PROVE (\E q \in Rec : KeptFor(t, q))'
    BY DEF SoundInv
  <2>1. Sound(t)
    BY <1>1 DEF Sound
  <2>2. PICK q \in Rec : KeptFor(t, q)
    BY <2>1 DEF FramesInv, SoundInv
  <2>3. HasRecord(t, q)'
    <3>1. Places(t)' = Places(t)
      BY <1>1, <1>5, SamePlaces DEF BInv
    <3> QED BY <1>1, <1>5, <2>2, <3>1 DEF KeptFor, HasRecord
  <2>4. owner[t] \in Conn
    BY <2>1, SoundConn
  <2>5. CASE t = s
    <3> DEFINE v == wire[owner[t]]
               d == due[owner[t]]
               x == Buf \o v
    <3>1. q = at
      <4>1. PICK p \in DOMAIN bus_conn : bus_conn[p] = at
        BY <1>8
      <4>2. p \in Places(t)
        BY <2>5, <4>1 DEF Places
      <4> QED BY <2>2, <4>1, <4>2 DEF KeptFor, HasRecord
    <3>2. v \in Seq(Word) /\ m.len \in 0..Len(Buf)
      BY <1>1, <1>2, <1>3, <2>4 DEF BInv, MemoryInv
    <3>3. /\ Len(x) = Len(Buf) + Len(v) /\ Len(v) \in Nat
          /\ \A p \in 1..Len(Buf) : x[p] = Buf[p]
          /\ b \o v = SubSeq(x, m.len + 1, Len(x))
      <4> DEFINE n == m.len
      <4>1. n \in 0..Len(Buf)
        BY <3>2
      <4> HIDE DEF n
      <4>2. /\ Len(Buf \o v) = Len(Buf) + Len(v) /\ Len(v) \in Nat
            /\ \A p \in 1..Len(Buf) : (Buf \o v)[p] = Buf[p]
            /\ SubSeq(Buf, n + 1, Len(Buf)) \o v = SubSeq(Buf \o v, n + 1, Len(Buf \o v))
        <5> HIDE DEF v
        <5> QED BY <1>2, <3>2, <4>1, FirstGo, Zenon
      <4> QED BY <4>2 DEF b, n
    <3>4. Kept(x, d)
      BY <2>2, <3>1 DEF KeptFor, Buf
    <3> HIDE DEF x, v, d
    <3>5. x[1] = Buf[1] /\ Len(x) # 0 /\ m.len <= Len(x)
      BY <1>1, <1>2, <1>3, <3>3
    <3>6. x[1].msg = m
      BY <3>5
    <3>7. Kept(SubSeq(x, m.len + 1, Len(x)), Rests(d))
      <4> HIDE DEF m
      <4>1. Kept(SubSeq(x, x[1].msg.len + 1, Len(x)),
                 {f \in d : f.msg # x[1].msg \/ \E g \in d : g.i < f.i})
        BY <1>9, <3>4, <3>5, <3>6, FrameGoes
      <4> QED BY <3>6, <4>1 DEF Rests
    <3>8. due'[owner[t]] = Rests(d)
      BY <1>1, <1>6, <2>4, <2>5 DEF d
    <3>9. heap'[q].buf \o wire'[owner[t]] = b \o v /\ owner' = owner
      BY <1>1, <1>5, <3>1 DEF v
    <3> HIDE DEF m, s
    <3> QED BY <2>3, <3>3, <3>7, <3>8, <3>9 DEF KeptFor
  <2>6. CASE t # s
    <3>1. q # at
      BY <2>2, <2>6 DEF KeptFor, HasRecord
    <3>2. s \in Sockets
      BY <1>1 DEF BInv, ParseInv
    <3>3. owner[t] # owner[s]
      BY <2>1, <2>6, <3>2 DEF BInv, OwnerInv, Sound
    <3>4. due'[owner[t]] = due[owner[t]]
      <4> HIDE DEF s
      <4> QED BY <1>1, <1>6, <2>4, <3>3
    <3> QED BY <1>1, <1>5, <2>2, <2>3, <3>1, <3>4 DEF KeptFor
  <2> QED BY <2>5, <2>6
<1> QED BY <1>7, <1>8, <1>10 DEF FramesInv

LEMMA AcceptFrames ==
  ASSUME BInv, FramesInv, NEW ms \in Streams, Accept(ms) PROVE FramesInv'
<1> USE Bounds
<1> DEFINE c == conns + 1
<1>1. /\ at = 0 /\ at' = 0 /\ conns < MaxConns
      /\ wire' = [wire EXCEPT ![c] = Stream(ms)]
      /\ rough' = IF Aligned(ms) THEN rough ELSE rough \union {c}
      /\ due' = [d \in Conn |-> IF d \in hurt' \union rough' THEN {}
                                ELSE IF d = c THEN FramesOf(ms) ELSE due[d]]
      /\ closed' = closed
  BY Zenon DEF Accept, Idle
<1>2. PICK s \in Sockets, r \in Rec :
        /\ owner[s] = 0
        /\ owner' = [owner EXCEPT ![s] = c]
        /\ heap' = [heap EXCEPT ![r] = [fd |-> s, buf |-> <<>>]]
        /\ bus_conn' = Append(bus_conn, r)
        /\ Hurts({Holder(r)} \union IF Places(s) = {} THEN {} ELSE {c})
  BY Zenon DEF Accept, Picks
<1>3. c \in Conn /\ conns \in Nat
  BY <1>1 DEF BInv, MemoryInv, Conn
<1>4. due = [d \in Conn |-> due[d]] /\ wire \in [Conn -> Seq(Word)]
  BY DEF BInv, MemoryInv, FramesInv, DueInv
<1>5. DueInv'
  BY <1>1, Zenon DEF DueInv
<1>6. PointedInv'
  BY <1>1 DEF PointedInv
<1> HIDE DEF c
<1>7. /\ bus_conn \in Seq(Rec) /\ Len(bus_conn) \in Nat
      /\ DOMAIN bus_conn = 1..Len(bus_conn)
      /\ DOMAIN bus_conn' = 1..Len(bus_conn) + 1
      /\ bus_conn'[Len(bus_conn) + 1] = r
      /\ \A p \in 1..Len(bus_conn) : bus_conn'[p] = bus_conn[p] /\ bus_conn[p] \in Rec
  <2>1. bus_conn \in Seq(Rec)
    BY DEF BInv, MemoryInv
  <2> QED BY <1>2, <2>1
<1>8. /\ heap'[r].fd = s /\ heap'[r].buf = <<>>
      /\ \A q \in Rec : q # r => heap'[q] = heap[q]
  BY <1>2 DEF BInv, MemoryInv
<1>9. SoundInv'
  <2> SUFFICES ASSUME NEW t \in Sockets, Sound(t)' PROVE (\E q \in Rec : KeptFor(t, q))'
    BY DEF SoundInv
  <2>1. CASE t = s
    <3>1. owner'[s] = c
      BY <1>2 DEF BInv, MemoryInv
    <3>2. c \notin hurt' \union rough' /\ c # 0 /\ c \notin closed
      BY <1>1, <2>1, <3>1 DEF Sound
    <3>3. Aligned(ms) /\ Places(s) = {}
      BY <1>1, <1>2, <3>2 DEF Hurts
    <3>4. wire'[c] = Stream(ms) /\ due'[c] = FramesOf(ms)
      BY <1>1, <1>3, <1>4, <3>2
    <3>5. Kept(heap'[r].buf \o wire'[c], due'[c])
      <4>1. Kept(Stream(ms), FramesOf(ms))
        BY <3>3, StreamKept
      <4>2. Stream(ms) \in Seq(Word)
        BY StreamWords
      <4>3. <<>> \o Stream(ms) = Stream(ms)
        BY <4>2, ConcatEmptySeq, Zenon
      <4> QED BY <1>8, <3>4, <4>1, <4>3
    <3>6. HasRecord(s, r)'
      <4>1. Len(bus_conn) + 1 \in Places(s)'
        BY <1>7, <1>8 DEF Places
      <4>2. ASSUME NEW p \in Places(s)' PROVE bus_conn'[p] = r
        <5>1. p \in DOMAIN bus_conn' /\ heap'[bus_conn'[p]].fd = s
          BY <4>2 DEF Places
        <5>2. CASE p = Len(bus_conn) + 1
          BY <1>7, <5>2
        <5>3. CASE p # Len(bus_conn) + 1
          <6>1. p \in 1..Len(bus_conn)
            BY <1>7, <5>1, <5>3
          <6>2. p \notin Places(s)
            BY <3>3
          <6>3. heap[bus_conn[p]].fd # s
            BY <1>7, <6>1, <6>2 DEF Places
          <6> QED BY <1>7, <1>8, <5>1, <6>1, <6>3
        <5> QED BY <5>2, <5>3
      <4> QED BY <1>8, <4>1, <4>2 DEF HasRecord
    <3> QED BY <2>1, <3>1, <3>5, <3>6 DEF KeptFor
  <2>2. CASE t # s
    <3>1. owner'[t] = owner[t]
      BY <1>2, <2>2 DEF BInv, MemoryInv
    <3>2. Sound(t)
      BY <1>1, <1>2, <3>1 DEF Sound, Hurts
    <3>3. PICK q \in Rec : KeptFor(t, q)
      BY <3>2 DEF FramesInv, SoundInv
    <3>4. owner[t] \in Conn /\ owner[t] # c
      BY <1>3, <3>2, SoundConn DEF c
    <3>5. wire'[owner[t]] = wire[owner[t]] /\ due'[owner[t]] = due[owner[t]]
      <4>1. owner[t] \notin hurt' \union rough'
        BY <3>1 DEF Sound
      <4> QED BY <1>1, <1>4, <3>4, <4>1
    <3>6. q # r /\ heap'[q] = heap[q]
      <4>1. ASSUME q = r PROVE FALSE
        <5>1. heap[r].fd = t /\ t # 0
          BY <3>3, <4>1, Bounds DEF KeptFor, HasRecord
        <5>2. Holder(r) = owner[t]
          BY <5>1 DEF Holder
        <5>3. owner[t] \notin closed \union {0} /\ owner[t] \notin hurt'
          BY <1>1, <2>2, <3>1 DEF Sound
        <5> QED BY <1>2, <5>2, <5>3 DEF Hurts
      <4> QED BY <1>8, <4>1
    <3>7. HasRecord(t, q)'
      <4>1. heap[q].fd = t /\ Places(t) # {} /\ \A p \in Places(t) : bus_conn[p] = q
        BY <3>3 DEF KeptFor, HasRecord
      <4>2. ASSUME NEW p \in Places(t)' PROVE p \in 1..Len(bus_conn) /\ bus_conn'[p] = q
        <5>1. p \in DOMAIN bus_conn' /\ heap'[bus_conn'[p]].fd = t
          BY <4>2 DEF Places
        <5>2. bus_conn'[p] # r
          BY <1>8, <2>2, <5>1
        <5>3. p \in 1..Len(bus_conn)
          BY <1>7, <5>1, <5>2
        <5>4. p \in Places(t)
          BY <1>7, <1>8, <5>1, <5>2, <5>3 DEF Places
        <5> QED BY <1>7, <4>1, <5>3, <5>4
      <4>3. ASSUME NEW p \in Places(t) PROVE p \in Places(t)'
        <5>1. p \in 1..Len(bus_conn) /\ bus_conn[p] = q
          BY <1>7, <4>1, <4>3 DEF Places
        <5>2. p \in DOMAIN bus_conn' /\ bus_conn'[p] = q
          BY <1>7, <5>1
        <5> QED BY <3>6, <4>1, <5>2 DEF Places
      <4> QED BY <3>6, <4>1, <4>2, <4>3 DEF HasRecord
    <3> QED BY <3>1, <3>3, <3>5, <3>6, <3>7 DEF KeptFor
  <2> QED BY <2>1, <2>2
<1> QED BY <1>5, <1>6, <1>9 DEF FramesInv

LEMMA CloseFrames ==
  ASSUME BInv, FramesInv, NEW s \in Sockets, Close(s) PROVE FramesInv'
<1> USE Bounds
<1> DEFINE p == Min(Places(s))
           r == bus_conn[p]
           next == IF p < Len(bus_conn) THEN bus_conn[p + 1] ELSE r
<1>1. /\ at = 0 /\ at' = 0
      /\ owner' = [owner EXCEPT ![s] = 0]
      /\ bus_conn' = RemoveAt(bus_conn, p)
      /\ Hurts({Holder(next)} \ {owner[s]})
      /\ due' = [t \in Conn |-> IF t \in hurt' THEN {} ELSE due[t]]
      /\ UNCHANGED <<wire, closed, rough>>
  BY Zenon DEF Close, Idle
<1>2. PICK gone \in SUBSET {r, next} :
        heap' = [q \in Rec |->
                   IF q \notin Range(bus_conn') THEN Unused
                   ELSE IF q \in gone THEN [heap[q] EXCEPT !.fd = 0]
                   ELSE heap[q]]
  BY Zenon DEF Close
<1>3. p \in DOMAIN bus_conn /\ r \in Rec /\ heap[r].fd = s
  BY FirstPlace, Zenon DEF Close, BInv
<1>4. /\ bus_conn \in Seq(Rec) /\ Len(bus_conn) \in Nat
      /\ DOMAIN bus_conn = 1..Len(bus_conn) /\ p \in 1..Len(bus_conn)
  <2>1. bus_conn \in Seq(Rec)
    BY DEF BInv, MemoryInv
  <2> HIDE DEF p
  <2> QED BY <1>3, <2>1
<1> HIDE DEF p, r, next
<1>5. /\ DOMAIN bus_conn' = 1..Len(bus_conn) - 1
      /\ \A k \in 1..Len(bus_conn) - 1 :
           bus_conn'[k] = IF k < p THEN bus_conn[k] ELSE bus_conn[k + 1]
  <2> DEFINE u == SubSeq(bus_conn, 1, p - 1)
             v == SubSeq(bus_conn, p + 1, Len(bus_conn))
  <2>1. /\ u \in Seq(Rec) /\ Len(u) = p - 1
        /\ \A k \in 1..p - 1 : u[k] = bus_conn[k]
    <3>1. \A i \in 1..p - 1 : bus_conn[i] \in Rec
      BY <1>4
    <3>2. 1 \in Int /\ p - 1 \in Int
      BY <1>4
    <3>3. /\ u \in Seq(Rec)
          /\ Len(u) = IF 1 <= p - 1 THEN p - 1 - 1 + 1 ELSE 0
          /\ \A i \in 1..p - 1 - 1 + 1 : u[i] = bus_conn[1 + i - 1]
      BY <3>1, <3>2, SubSeqProperties
    <3> HIDE DEF u
    <3> QED BY <1>4, <3>3
  <2>2. /\ v \in Seq(Rec) /\ Len(v) = Len(bus_conn) - p
        /\ \A k \in 1..Len(bus_conn) - p : v[k] = bus_conn[k + p]
    <3>1. \A i \in p + 1..Len(bus_conn) : bus_conn[i] \in Rec
      BY <1>4
    <3>2. p + 1 \in Int /\ Len(bus_conn) \in Int
      BY <1>4
    <3>3. /\ v \in Seq(Rec)
          /\ Len(v) = IF p + 1 <= Len(bus_conn) THEN Len(bus_conn) - (p + 1) + 1 ELSE 0
          /\ \A i \in 1..Len(bus_conn) - (p + 1) + 1 : v[i] = bus_conn[p + 1 + i - 1]
      BY <3>1, <3>2, SubSeqProperties
    <3> HIDE DEF v
    <3>4. Len(v) = Len(bus_conn) - p
      <4> DEFINE n == Len(bus_conn)
      <4>1. n \in Nat /\ p \in 1..n /\ Len(v) = IF p + 1 <= n THEN n - (p + 1) + 1 ELSE 0
        BY <1>4, <3>3, Zenon
      <4> HIDE DEF n
      <4>2. Len(v) = n - p
        BY <4>1
      <4> QED BY <4>2 DEF n
    <3>5. ASSUME NEW k \in 1..Len(bus_conn) - p PROVE v[k] = bus_conn[k + p]
      <4>1. k \in 1..Len(bus_conn) - (p + 1) + 1 /\ p + 1 + k - 1 = k + p
        BY <1>4
      <4>2. v[k] = bus_conn[p + 1 + k - 1]
        BY <3>3, <4>1, Zenon
      <4> QED BY <4>1, <4>2
    <3> QED BY <3>3, <3>4, <3>5
  <2>3. bus_conn' = u \o v
    BY <1>1, Zenon DEF RemoveAt
  <2> HIDE DEF u, v
  <2>4. /\ bus_conn' \in Seq(Rec) /\ Len(bus_conn') = Len(u) + Len(v)
        /\ \A i \in 1..Len(u) + Len(v) : bus_conn'[i] = IF i <= Len(u) THEN u[i] ELSE v[i - Len(u)]
    BY <2>1, <2>2, <2>3, ConcatProperties, ZenonT(20)
  <2>5. Len(u) + Len(v) = Len(bus_conn) - 1
    BY <1>4, <2>1, <2>2
  <2>6. DOMAIN bus_conn' = 1..Len(bus_conn) - 1
    BY <2>4, <2>5
  <2>7. ASSUME NEW k \in 1..Len(bus_conn) - 1
        PROVE  bus_conn'[k] = IF k < p THEN bus_conn[k] ELSE bus_conn[k + 1]
    <3>1. bus_conn'[k] = IF k <= p - 1 THEN u[k] ELSE v[k - (p - 1)]
      BY <2>1, <2>4, <2>5
    <3>2. CASE k < p
      BY <1>4, <2>1, <3>1, <3>2
    <3>3. CASE ~(k < p)
      <4>1. /\ ~(k <= p - 1) /\ k - (p - 1) \in 1..Len(bus_conn) - p
            /\ k - (p - 1) + p = k + 1
        BY <1>4, <3>3
      <4>2. v[k - (p - 1)] = bus_conn[k + 1]
        BY <2>2, <4>1
      <4> QED BY <3>1, <3>3, <4>1, <4>2
    <3> QED BY <3>2, <3>3
  <2> QED BY <2>6, <2>7
<1>6. DueInv'
  BY <1>1, Zenon DEF DueInv
<1>7. PointedInv'
  BY <1>1 DEF PointedInv
<1>8. SoundInv'
  <2> SUFFICES ASSUME NEW t \in Sockets, Sound(t)' PROVE (\E q \in Rec : KeptFor(t, q))'
    BY DEF SoundInv
  <2>1. t # s /\ owner'[t] = owner[t]
    <3>1. owner \in [Sockets -> 0..MaxConns]
      BY DEF BInv, MemoryInv
    <3> QED BY <1>1, <3>1 DEF Sound
  <2>2. Sound(t) /\ owner[t] \notin hurt'
    BY <1>1, <2>1 DEF Sound, Hurts
  <2>3. PICK q \in Rec : KeptFor(t, q)
    BY <2>2 DEF FramesInv, SoundInv
  <2>4. /\ heap[q].fd = t
        /\ Places(t) # {} /\ \A k \in Places(t) : bus_conn[k] = q
    BY <2>3 DEF KeptFor, HasRecord
  <2>5. q # r
    BY <1>3, <2>1, <2>4
  <2>6. q # next
    <3>1. ASSUME q = next PROVE FALSE
      <4>1. Holder(next) = owner[t]
        BY <2>4, <3>1, Bounds DEF Holder
      <4>2. owner[t] # owner[s]
        BY <2>1, <2>2 DEF BInv, OwnerInv, Sound
      <4>3. owner[t] \notin closed \union {0} /\ owner[t] \notin hurt'
        BY <2>2 DEF Sound
      <4> QED BY <1>1, <4>1, <4>2, <4>3 DEF Hurts
    <3> QED BY <3>1
  <2>7. PICK k \in DOMAIN bus_conn : bus_conn[k] = q
    BY <2>4 DEF Places
  <2>8. k # p
    BY <2>5, <2>7 DEF r
  <2>9. \E j \in DOMAIN bus_conn' : bus_conn'[j] = q
    <3>1. CASE k < p
      BY <1>4, <1>5, <2>7, <3>1
    <3>2. CASE k > p
      <4>1. k - 1 \in 1..Len(bus_conn) - 1 /\ ~(k - 1 < p) /\ k - 1 + 1 = k
        BY <1>4, <2>7, <3>2
      <4> QED BY <1>5, <2>7, <4>1
    <3> QED BY <1>4, <2>7, <2>8, <3>1, <3>2
  <2>10. heap'[q] = heap[q]
    <3>1. q \in Range(bus_conn')
      BY <2>9, Zenon DEF Range
    <3> QED BY <1>2, <2>5, <2>6, <3>1
  <2>11. ASSUME NEW j \in Places(t)' PROVE bus_conn'[j] = q
    <3>1. j \in DOMAIN bus_conn' /\ heap'[bus_conn'[j]].fd = t
      BY <2>11 DEF Places
    <3>2. PICK i \in DOMAIN bus_conn : bus_conn'[j] = bus_conn[i]
      <4>1. j \in 1..Len(bus_conn) - 1
        BY <1>5, <3>1
      <4>2. j \in DOMAIN bus_conn /\ j + 1 \in DOMAIN bus_conn
        BY <1>4, <4>1
      <4>3. bus_conn'[j] = bus_conn[j] \/ bus_conn'[j] = bus_conn[j + 1]
        BY <1>5, <4>1
      <4> QED BY <4>2, <4>3
    <3> DEFINE e == bus_conn[i]
    <3>3. e \in Rec
      BY <1>4, <3>2
    <3> HIDE DEF e
    <3>4. heap'[e].fd = heap[e].fd \/ heap'[e].fd = 0
      <4>1. heap[e] \in Record
        BY <3>3 DEF BInv, MemoryInv
      <4>2. heap'[e] = Unused \/ heap'[e] = [heap[e] EXCEPT !.fd = 0] \/ heap'[e] = heap[e]
        BY <1>2, <3>3, Zenon
      <4>3. Unused.fd = 0 /\ [heap[e] EXCEPT !.fd = 0].fd = 0
        BY <4>1 DEF Record, Unused
      <4> QED BY <4>2, <4>3
    <3>5. t # 0
      BY BusAssumption
    <3>6. heap[e].fd = t
      BY <3>1, <3>2, <3>4, <3>5 DEF e
    <3>7. i \in Places(t)
      BY <3>2, <3>6 DEF Places, e
    <3> QED BY <2>4, <3>2, <3>7
  <2>12. HasRecord(t, q)'
    <3>1. Places(t)' # {}
      BY <2>4, <2>9, <2>10 DEF Places
    <3> QED BY <2>4, <2>10, <2>11, <3>1 DEF HasRecord
  <2>13. due'[owner[t]] = due[owner[t]]
    BY <1>1, <2>2, SoundConn
  <2> QED BY <1>1, <2>1, <2>3, <2>10, <2>12, <2>13 DEF KeptFor
<1> QED BY <1>6, <1>7, <1>8 DEF FramesInv

LEMMA FramesStep == BInv /\ FramesInv /\ [Next]_vars => FramesInv'
<1> SUFFICES ASSUME BInv, FramesInv, [Next]_vars PROVE FramesInv'
  OBVIOUS
<1>1. CASE UNCHANGED vars
  BY <1>1 DEF vars, connVars, FramesInv, DueInv, PointedInv, SoundInv, Sound,
              KeptFor, HasRecord, Places
<1>2. CASE \E ms \in Streams : Accept(ms)
  BY <1>2, AcceptFrames, Zenon
<1>3. CASE \E c \in Conn : PeerCloses(c)
  BY <1>3, PeerFrames, Zenon
<1>4. CASE \E s \in Sockets : Recv(s) \/ Discard(s) \/ Close(s)
  BY <1>4, RecvFrames, DiscardFrames, CloseFrames, Zenon
<1>5. CASE Frame \/ Skip \/ Wait
  BY <1>5, FrameFrames, SkipFrames, WaitFrames, Zenon
<1>6. CASE Restart
  BY <1>6, RestartFrames, Zenon
<1> QED BY <1>1, <1>2, <1>3, <1>4, <1>5, <1>6, Zenon DEF Next, Loop

LEMMA FramesSafe == BInv /\ FramesInv => FramesKept
<1> SUFFICES ASSUME BInv, FramesInv, NEW s \in Sockets, Sound(s)
             PROVE  LET waits == heap[bus_conn[Min(Places(s))]].buf \o wire[owner[s]]
                    IN /\ \A p, q \in DOMAIN waits : p < q => Before(waits[p], waits[q])
                       /\ {w \in Range(waits) : IsFrame(w.msg)}
                            = UNION {Range(Words(f.msg, f.i)) : f \in due[owner[s]]}
  BY Zenon DEF FramesKept, Sound
<1>1. PICK r \in Rec : KeptFor(s, r)
  BY DEF FramesInv, SoundInv
<1>2. bus_conn[Min(Places(s))] = r
  <2>1. Places(s) \in SUBSET Nat
    BY DEF Places, BInv, MemoryInv
  <2>2. Min(Places(s)) \in Places(s)
    BY <1>1, <2>1, LeastNat, Zenon DEF KeptFor, HasRecord
  <2> QED BY <1>1, <2>2, Zenon DEF KeptFor, HasRecord
<1> DEFINE x == heap[r].buf \o wire[owner[s]]
           d == due[owner[s]]
<1>3. Kept(x, d)
  BY <1>1 DEF KeptFor
<1> HIDE DEF x, d
<1>4. /\ \A p, q \in DOMAIN x : p < q => Before(x[p], x[q])
      /\ {w \in Range(x) : IsFrame(w.msg)} = UNION {Range(Words(f.msg, f.i)) : f \in d}
  BY <1>3, KeptSays
<1> QED BY <1>2, <1>4 DEF x, d

-----------------------------------------------------------------------------
(* Every step                                                              *)

LEMMA BusStep == BInv /\ [Next]_vars => BInv'
<1> SUFFICES ASSUME BInv, [Next]_vars PROVE BInv'
  OBVIOUS
<1>1. CASE UNCHANGED vars
  BY <1>1 DEF vars, connVars, BInv, MemoryInv, OwnerInv, ParseInv, RoomInv,
              AnswerInv, ToRegistrant, Open
<1>2. CASE \E ms \in Streams : Accept(ms)
  BY <1>2, AcceptKeeps, Zenon
<1>3. CASE \E c \in Conn : PeerCloses(c)
  BY <1>3, PeerKeeps, Zenon
<1>4. CASE \E s \in Sockets : Recv(s) \/ Discard(s) \/ Close(s)
  BY <1>4, RecvKeeps, DiscardKeeps, CloseKeeps, Zenon
<1>5. CASE Frame \/ Skip \/ Wait
  BY <1>5, FrameKeeps, SkipKeepsInv, WaitKeeps, Zenon
<1>6. CASE Restart
  BY <1>6, RestartKeeps, Zenon
<1> QED BY <1>1, <1>2, <1>3, <1>4, <1>5, <1>6, Zenon DEF Next, Loop

\* To the registry a frame is one registration, or nothing.
LEMMA BusToRegistry == BInv /\ [Next]_vars => [RegistryNext]_regVars
<1> SUFFICES ASSUME BInv, [Next]_vars PROVE [RegistryNext]_regVars
  OBVIOUS
<1>1. CASE UNCHANGED vars
  BY <1>1 DEF vars
<1>2. CASE \E ms \in Streams : Accept(ms)
  BY <1>2 DEF Accept
<1>3. CASE \E c \in Conn : PeerCloses(c)
  BY <1>3 DEF PeerCloses
<1>4. CASE \E s \in Sockets : Recv(s) \/ Discard(s) \/ Close(s)
  BY <1>4, Zenon DEF Recv, Discard, Close
<1>5. CASE Skip \/ Wait
  BY <1>5 DEF Skip, Wait
<1>6. CASE Restart
  BY <1>6 DEF Restart, RegistryNext
<1>7. CASE Frame
  <2> DEFINE m == Buf[1].msg
  <2>1. Handle(m) /\ (m.cmd \in {"657185", "657186"} => m.ip \in Addr)
    BY <1>7, Parsed, Zenon DEF Frame, BInv
  <2> HIDE DEF m
  <2>2. CASE m.cmd \in {"657185", "657186"}
    <3>1. RegAgv(m.ip, StoreyOf(m.cmd))
      BY <2>1, <2>2 DEF Handle
    <3>2. StoreyOf(m.cmd) \in 1..2
      BY DEF StoreyOf
    <3> QED BY <2>1, <2>2, <3>1, <3>2, Zenon DEF RegistryNext
  <2>3. CASE m.cmd \notin {"657185", "657186"}
    <3>1. UNCHANGED regVars
      BY <2>1, <2>3 DEF Handle
    <3> QED BY <3>1
  <2> QED BY <2>2, <2>3
<1> QED BY <1>1, <1>2, <1>3, <1>4, <1>5, <1>6, <1>7, Zenon DEF Next, Loop

\* A connection that was open and is not: its peer closed it, or its record
\* was lost.
LEMMA ClosesGiven ==
  ASSUME BInv, [Next]_vars, NEW c \in Conn, Open(c), ~Open(c)'
  PROVE  c \in closed' \union hurt'
<1> USE Bounds
<1>1. PICK s \in Sockets : owner[s] = c
  BY DEF Open
<1>2. c # 0 /\ c \in 1..conns
  BY <1>1 DEF Conn, BInv, OwnerInv, MemoryInv
<1>3. owner'[s] # c
  BY DEF Open
<1>4. CASE \E ms \in Streams : Accept(ms)
  <2>1. PICK t \in Sockets : owner[t] = 0 /\ owner' = [owner EXCEPT ![t] = conns + 1]
    BY <1>4, Zenon DEF Accept, Picks
  <2>2. t # s
    BY <1>1, <1>2, <2>1
  <2> QED BY <1>1, <1>3, <2>1, <2>2 DEF BInv, MemoryInv
<1>5. CASE \E t \in Sockets : Close(t)
  <2>1. PICK t \in Sockets : Close(t)
    BY <1>5
  <2> DEFINE r == bus_conn[Min(Places(t))]
  <2>2. /\ at = 0 /\ owner' = [owner EXCEPT ![t] = 0] /\ closed' = closed
        /\ owner[t] \in closed \/ Len(heap[r].buf) = LEN_BUF_RCV
    BY <2>1, Zenon DEF Close, Idle
  <2>3. r \in Rec
    BY <2>1, FirstPlace, Zenon DEF Close, BInv
  <2> HIDE DEF r
  <2>4. r # at
    BY <2>2, <2>3 DEF Rec
  <2>5. Len(heap[r].buf) # LEN_BUF_RCV
    <3>1. heap[r].buf \in Seq(Word)
      BY <2>3 DEF BInv, MemoryInv, Record
    <3> QED BY <2>3, <2>4, <3>1 DEF BInv, RoomInv
  <2>6. s = t
    BY <1>1, <1>3, <2>2 DEF BInv, MemoryInv
  <2> QED BY <1>1, <2>2, <2>5, <2>6
<1>6. CASE Restart
  BY <1>2, <1>6 DEF Restart
<1>7. CASE owner' = owner
  BY <1>1, <1>3, <1>7
<1>8. CASE UNCHANGED vars
  BY <1>7, <1>8 DEF vars, connVars
<1>9. CASE (\E d \in Conn : PeerCloses(d)) \/ (\E t \in Sockets : Recv(t) \/ Discard(t))
  BY <1>7, <1>9, Zenon DEF PeerCloses, Recv, Discard
<1>10. CASE Frame \/ Skip \/ Wait
  BY <1>7, <1>10 DEF Frame, Skip, Wait, connVars
<1> QED BY <1>4, <1>5, <1>6, <1>8, <1>9, <1>10, Zenon DEF Next, Loop

-----------------------------------------------------------------------------
(* Theorems                                                                *)

LEMMA BusInvariant == BusSpec => [](BInv /\ RInv)
<1>1. BusInit => BInv /\ RInv
  BY Starts, RegistryInits DEF BusInit
<1>2. BInv /\ RInv /\ [Next]_vars => (BInv /\ RInv)'
  BY BusStep, BusToRegistry, RegistryStep
<1> QED BY <1>1, <1>2, PTL DEF BusSpec

\* However the messages of all vehicles are cut and interleaved, the vector
\* and the table keep their numbers apart, and a restart finds every vehicle
\* none of whose transactions failed (data_handler, compones.cpp 561-664).
THEOREM VehiclesKept == BusSpec => [](IdsUnique /\ RowsFollow)
<1>1. BInv /\ RInv => IdsUnique /\ RowsFollow
  BY DEF RInv
<1> QED BY <1>1, BusInvariant, PTL

\* The records, sockets and buffers of the select loop stay in their ranges:
\* recv writes no word behind the end of buf_rcv (main.cpp 171).
THEOREM BusTyped == BusSpec => []BusTypeOK
<1>1. BInv /\ RInv => BusTypeOK
  <2> SUFFICES ASSUME BInv, RInv PROVE BusTypeOK
    OBVIOUS
  <2>1. {bus_conn[p] : p \in DOMAIN bus_conn} \subseteq Rec
    BY DEF BInv, MemoryInv
  <2>2. \A r \in Rec : heap[r].fd \in Sockets \union {0} /\ Len(heap[r].buf) <= LEN_BUF_RCV
    BY DEF BInv, MemoryInv, Record, RoomInv
  <2> QED BY <2>1, <2>2 DEF BusTypeOK, BInv, MemoryInv, RInv
<1> QED BY <1>1, BusInvariant, PTL

\* An answer is sent to the connection that registered last, as long as that
\* is open, although only the number of its socket is kept and numbers are
\* given again (common.cpp 272).
THEOREM AnswersRegistrant == BusSpec => []ToRegistrant
<1>1. BInv /\ RInv => ToRegistrant
  BY DEF BInv, AnswerInv
<1> QED BY <1>1, BusInvariant, PTL

\* The 0 bytes for which main.cpp 171 closes a connection are a close of the
\* peer, never a full buffer: one frame fits, and what is none is dropped.
THEOREM HubClosesNone == BusSpec => NoSelfClose
<1> DEFINE A == \A c \in Conn : Open(c) /\ ~Open(c)' => c \in closed' \union hurt'
<1>1. BInv /\ RInv /\ [Next]_vars => [A]_vars
  BY ClosesGiven
<1>2. BusSpec => [][A]_vars
  BY <1>1, BusInvariant, PTL DEF BusSpec
<1> QED BY <1>2 DEF NoSelfClose

\* A frame that recv cuts anywhere is handed to data_handler whole, once and
\* in order, after noise of a multiple of Mod words too, whatever other
\* connections do to the records (BUF_PARSE, main.cpp 181 to 239).
THEOREM FramesAllKept == BusSpec => []FramesKept
<1>1. BusInit => FramesInv
  BY FramesStart
<1>2. BInv /\ FramesInv /\ [Next]_vars => FramesInv'
  BY FramesStep
<1>3. BInv /\ FramesInv => FramesKept
  BY FramesSafe
<1> QED BY <1>1, <1>2, <1>3, BusInvariant, PTL DEF BusSpec
=============================================================================
