----------------------------- MODULE ModbusProofs -----------------------------
(***************************************************************************)
(* Proofs about Modbus.  First the bytes: whatever the request and the     *)
(* tables, the server understands the request as it was meant, and the     *)
(* client its answer (lemma ReplyFits).  Then the line: an inductive       *)
(* invariant about what is under way (IInv), one lemma per action.         *)
(***************************************************************************)
EXTENDS Modbus, SequenceTheorems, TLAPS
-----------------------------------------------------------------------------
(* Bytes                                                                   *)

LEMMA NotEmpty ==
  ASSUME NEW q, Len(q) # 0
  PROVE  q # <<>>
  OBVIOUS

LEMMA WordNat ==
  Word16 \subseteq Nat
  BY SMT DEF Word16

LEMMA InWord ==
  ASSUME NEW x \in Nat, x <= MaxWord
  PROVE  x \in Word16
<1>1. MaxWord \in Nat
  BY SMT DEF MaxWord
<1> QED BY <1>1, SMT DEF Word16

LEMMA WordIs ==
  ASSUME NEW x \in Nat
  PROVE  /\ W(x) \in Seq(Nat) /\ Len(W(x)) = 2
         /\ W(x)[1] = x \div 256 /\ W(x)[2] = x % 256
         /\ W(x)[1] * 256 + W(x)[2] = x
  BY DEF W

LEMMA WordsIs ==
  ASSUME NEW s \in Seq(Nat)
  PROVE  /\ Words(s) \in Seq(Nat) /\ Len(Words(s)) = 2 * Len(s)
         /\ \A k \in 1..Len(s) : Words(s)[2 * k - 1] * 256 + Words(s)[2 * k] = s[k]
<1>1. Len(s) \in Nat
  OBVIOUS
<1>2. ASSUME NEW i \in 1..2 * Len(s)
      PROVE  Words(s)[i] = IF i % 2 = 1 THEN s[(i + 1) \div 2] \div 256
                           ELSE s[(i + 1) \div 2] % 256
  <2>1. (i + 1) \div 2 \in 1..Len(s)
    BY <1>1
  <2>2. s[(i + 1) \div 2] \in Nat
    BY <2>1
  <2>3. Words(s)[i] = W(s[(i + 1) \div 2])[2 - (i % 2)]
    BY DEF Words
  <2>4. \/ i % 2 = 1 /\ 2 - (i % 2) = 1
        \/ i % 2 = 0 /\ 2 - (i % 2) = 2
    OBVIOUS
  <2>5. /\ W(s[(i + 1) \div 2])[1] = s[(i + 1) \div 2] \div 256
        /\ W(s[(i + 1) \div 2])[2] = s[(i + 1) \div 2] % 256
    BY <2>2, WordIs, ZenonT(20)
  <2> QED BY <2>3, <2>4, <2>5
<1>3. ASSUME NEW i \in 1..2 * Len(s) PROVE Words(s)[i] \in Nat
  <2>1. (i + 1) \div 2 \in 1..Len(s)
    BY <1>1
  <2>2. s[(i + 1) \div 2] \in Nat
    BY <2>1
  <2> QED BY <1>2, <2>2
<1>4. Words(s) \in Seq(Nat) /\ Len(Words(s)) = 2 * Len(s)
  BY <1>1, <1>3 DEF Words
<1>5. ASSUME NEW k \in 1..Len(s) PROVE Words(s)[2 * k - 1] * 256 + Words(s)[2 * k] = s[k]
  <2>1. 2 * k - 1 \in 1..2 * Len(s) /\ 2 * k \in 1..2 * Len(s)
    BY <1>1
  <2>2. /\ (2 * k - 1) % 2 = 1 /\ (2 * k) % 2 = 0
        /\ (2 * k - 1 + 1) \div 2 = k /\ (2 * k + 1) \div 2 = k
    OBVIOUS
  <2>3. Words(s)[2 * k - 1] = s[k] \div 256 /\ Words(s)[2 * k] = s[k] % 256
    BY <1>2, <2>1, <2>2
  <2>4. s[k] \in Nat
    OBVIOUS
  <2> QED BY <2>3, <2>4
<1> QED BY <1>4, <1>5

Byte == 0..255

\* The bits of a byte put together from bits.
ByteFrom(a, b, c, d, e, f, g, h) ==
  a + 2 * b + 4 * c + 8 * d + 16 * e + 32 * f + 64 * g + 128 * h
IsByteFrom(x, a, b, c, d, e, f, g, h) ==
  /\ x \in Byte
  /\ BitOf(x, 0) = a /\ BitOf(x, 1) = b /\ BitOf(x, 2) = c /\ BitOf(x, 3) = d
  /\ BitOf(x, 4) = e /\ BitOf(x, 5) = f /\ BitOf(x, 6) = g /\ BitOf(x, 7) = h

EightBits(a, b, c, d, e, f, g, h) ==
  /\ a \in {0, 1} /\ b \in {0, 1} /\ c \in {0, 1} /\ d \in {0, 1}
  /\ e \in {0, 1} /\ f \in {0, 1} /\ g \in {0, 1} /\ h \in {0, 1}

LEMMA ByteIs ==
  ASSUME NEW a, NEW b, NEW c, NEW d, NEW e, NEW f, NEW g, NEW h,
         EightBits(a, b, c, d, e, f, g, h)
  PROVE  IsByteFrom(ByteFrom(a, b, c, d, e, f, g, h), a, b, c, d, e, f, g, h)
<1> USE DEF EightBits
<1> DEFINE x == ByteFrom(a, b, c, d, e, f, g, h)
<1>1. x \in Byte
  BY SMT DEF ByteFrom, Byte
<1>2. /\ (x \div 2^0) % 2 = a /\ (x \div 2^1) % 2 = b
      /\ (x \div 2^2) % 2 = c /\ (x \div 2^3) % 2 = d
      /\ (x \div 2^4) % 2 = e /\ (x \div 2^5) % 2 = f
      /\ (x \div 2^6) % 2 = g /\ (x \div 2^7) % 2 = h
  BY SMT DEF ByteFrom
<1> HIDE DEF x
<1>3. IsByteFrom(x, a, b, c, d, e, f, g, h)
  BY <1>1, <1>2, Zenon DEF BitOf, IsByteFrom
<1> QED BY <1>3 DEF x

LEMMA BytesForIs ==
  ASSUME NEW n \in Nat
  PROVE  /\ BytesFor(n) \in Nat
         /\ 8 * BytesFor(n) >= n /\ 8 * BytesFor(n) <= n + 7
         /\ \A k \in 1..n : (k - 1) \div 8 \in 0..BytesFor(n) - 1
  BY DEF BytesFor

\* Where bit k stands.
LEMMA ByteOf ==
  ASSUME NEW n \in Nat, NEW k \in 1..n
  PROVE  /\ 1 + (k - 1) \div 8 \in 1..BytesFor(n) /\ (k - 1) % 8 \in 0..7
         /\ (k - 1) \div 8 \in Nat
         /\ 8 * (1 + (k - 1) \div 8) - 7 + ((k - 1) % 8) = k
<1>1. /\ BytesFor(n) \in Nat /\ (k - 1) \div 8 \in 0..BytesFor(n) - 1
  BY BytesForIs
<1>2. k - 1 \in Nat /\ 8 * ((k - 1) \div 8) + ((k - 1) % 8) = k - 1
  OBVIOUS
<1> QED BY <1>1, <1>2

\* Bit k of what was packed.
BitIn(p, k) == BitOf(p[1 + (k - 1) \div 8], (k - 1) % 8)

LEMMA PackIs ==
  ASSUME NEW bits \in Seq({0, 1})
  PROVE  /\ Pack(bits) \in Seq(Byte) /\ Pack(bits) \in Seq(Nat) /\ Len(Pack(bits)) = BytesFor(Len(bits))
         /\ \A k \in 1..Len(bits) : BitIn(Pack(bits), k) = bits[k]
<1> DEFINE n == Len(bits)
           bit(j, i) == At(bits, 8 * j - 7 + i)
<1>1. n \in Nat /\ DOMAIN bits = 1..n
  OBVIOUS
<1>2. \A i : At(bits, i) \in {0, 1}
  BY DEF At
<1>3. ASSUME NEW j \in 1..BytesFor(n)
      PROVE  Pack(bits)[j] \in Byte /\ \A i \in 0..7 : BitOf(Pack(bits)[j], i) = bit(j, i)
  <2> DEFINE x == Pack(bits)[j]
             b0 == bit(j, 0) b1 == bit(j, 1) b2 == bit(j, 2) b3 == bit(j, 3)
             b4 == bit(j, 4) b5 == bit(j, 5) b6 == bit(j, 6) b7 == bit(j, 7)
  <2>1. x = ByteFrom(b0, b1, b2, b3, b4, b5, b6, b7)
    BY DEF Pack, ByteFrom
  <2>2. /\ b0 \in {0, 1} /\ b1 \in {0, 1} /\ b2 \in {0, 1} /\ b3 \in {0, 1}
        /\ b4 \in {0, 1} /\ b5 \in {0, 1} /\ b6 \in {0, 1} /\ b7 \in {0, 1}
    BY <1>2
  <2>3. IsByteFrom(x, b0, b1, b2, b3, b4, b5, b6, b7)
    <3> HIDE DEF x, b0, b1, b2, b3, b4, b5, b6, b7
    <3>1. IsByteFrom(ByteFrom(b0, b1, b2, b3, b4, b5, b6, b7), b0, b1, b2, b3, b4, b5, b6, b7)
      <4>1. EightBits(b0, b1, b2, b3, b4, b5, b6, b7)
        BY <2>2, Zenon DEF EightBits
      <4> QED BY <4>1, ByteIs, Zenon
    <3> QED BY <2>1, <3>1, Zenon
  <2>4. \A i \in 0..7 : i \in {0, 1, 2, 3, 4, 5, 6, 7}
    OBVIOUS
  <2> HIDE DEF x, bit
  <2>5. \A i \in {0, 1, 2, 3, 4, 5, 6, 7} : BitOf(x, i) = bit(j, i)
    BY <2>3, Zenon DEF IsByteFrom
  <2>6. x \in Byte
    BY <2>3, Zenon DEF IsByteFrom
  <2> QED BY <2>4, <2>5, <2>6, Zenon DEF x
<1>4. /\ Pack(bits) \in Seq(Byte) /\ Pack(bits) \in Seq(Nat)
      /\ Len(Pack(bits)) = BytesFor(n)
  <2>1. BytesFor(n) \in Nat /\ DOMAIN Pack(bits) = 1..BytesFor(n)
    BY <1>1, BytesForIs DEF Pack
  <2>2. Pack(bits) = [j \in 1..BytesFor(n) |-> Pack(bits)[j]]
    BY DEF Pack
  <2>3. Byte \subseteq Nat
    BY SMT DEF Byte
  <2>4. Pack(bits) \in [1..BytesFor(n) -> Byte]
    BY <1>3, <2>2, Zenon
  <2>5. Pack(bits) \in [1..BytesFor(n) -> Nat]
    BY <1>3, <2>2, <2>3, Zenon
  <2> QED BY <2>1, <2>4, <2>5
<1>5. ASSUME NEW k \in 1..n PROVE BitIn(Pack(bits), k) = bits[k]
  <2> DEFINE j == 1 + (k - 1) \div 8
             i == (k - 1) % 8
  <2>1. j \in 1..BytesFor(n) /\ i \in 0..7 /\ 8 * j - 7 + i = k
    BY <1>1, ByteOf
  <2> HIDE DEF j, i
  <2>2. BitOf(Pack(bits)[j], i) = At(bits, k)
    BY <1>3, <2>1
  <2> QED BY <1>1, <2>2 DEF BitIn, At, j, i
<1> QED BY <1>4, <1>5

\* The bytes u stand in p after the first i.
Holds(p, i, u) == \A j \in 1..Len(u) : p[i + j] = u[j]

\* Where the packed bits stand in a message, they are read again.
LEMMA UnpackIs ==
  ASSUME NEW bits \in Seq({0, 1}), NEW p, NEW i \in Nat,
         Holds(p, i, Pack(bits)), NEW l, l = i + 1
  PROVE  Unpack(p, l, Len(bits)) = bits
<1>1. Len(bits) \in Nat
  OBVIOUS
<1>2. ASSUME NEW k \in 1..Len(bits)
      PROVE  BitOf(p[i + 1 + (k - 1) \div 8], (k - 1) % 8) = bits[k]
  <2> DEFINE j == 1 + (k - 1) \div 8
  <2>1. j \in 1..BytesFor(Len(bits)) /\ i + 1 + (k - 1) \div 8 = i + j
    BY <1>1, ByteOf
  <2>2. p[i + 1 + (k - 1) \div 8] = Pack(bits)[1 + (k - 1) \div 8]
    <3>1. Len(Pack(bits)) = BytesFor(Len(bits))
      BY PackIs
    <3> QED BY <2>1, <3>1 DEF Holds
  <2>3. BitIn(Pack(bits), k) = bits[k]
    BY PackIs
  <2> QED BY <2>2, <2>3 DEF BitIn
<1>3. bits = [k \in 1..Len(bits) |-> bits[k]]
  OBVIOUS
<1> QED BY <1>2, <1>3, Zenon DEF Unpack

\* Where the words of a message stand in it, they are read again.
Reads(p, i, s) == \A k \in 1..Len(s) : Word(p, i - 1 + 2 * k) = s[k]

LEMMA WordsRead ==
  ASSUME NEW s \in Seq(Nat), NEW p, NEW i \in Nat, Holds(p, i, Words(s))
  PROVE  Reads(p, i, s)
<1> SUFFICES ASSUME NEW k \in 1..Len(s) PROVE Word(p, i - 1 + 2 * k) = s[k]
  BY DEF Reads
<1>1. Len(s) \in Nat
  OBVIOUS
<1>2. 2 * k - 1 \in 1..2 * Len(s) /\ 2 * k \in 1..2 * Len(s)
  BY <1>1
<1>3. i - 1 + 2 * k = i + (2 * k - 1) /\ i - 1 + 2 * k + 1 = i + 2 * k
  OBVIOUS
<1>4. /\ Words(s)[2 * k - 1] * 256 + Words(s)[2 * k] = s[k]
      /\ Len(Words(s)) = 2 * Len(s)
  BY WordsIs
<1>5. p[i + (2 * k - 1)] = Words(s)[2 * k - 1] /\ p[i + 2 * k] = Words(s)[2 * k]
  BY <1>2, <1>4 DEF Holds
<1> QED BY <1>3, <1>4, <1>5 DEF Word

LEMMA UnpackWordsIs ==
  ASSUME NEW s \in Seq(Nat), NEW p, NEW i \in Nat, Holds(p, i, Words(s)),
         NEW l, l = i + 1
  PROVE  UnpackWords(p, l, Len(s)) = s
<1>1. Reads(p, i, s)
  BY WordsRead, Zenon
<1>2. ASSUME NEW k \in 1..Len(s) PROVE l + 2 * (k - 1) = i - 1 + 2 * k
  OBVIOUS
<1>3. \A k \in 1..Len(s) : Word(p, l + 2 * (k - 1)) = s[k]
  BY <1>1, <1>2, Zenon DEF Reads
<1>4. s = [k \in 1..Len(s) |-> s[k]]
  OBVIOUS
<1> QED BY <1>3, <1>4, Zenon DEF UnpackWords

\* What is put after a message leaves its bytes and words where they are.
LEMMA Joined ==
  ASSUME NEW h \in Seq(Nat), NEW u \in Seq(Nat)
  PROVE  /\ h \o u \in Seq(Nat) /\ Len(h \o u) = Len(h) + Len(u)
         /\ \A i \in 1..Len(h) : (h \o u)[i] = h[i]
         /\ \A i \in 1..Len(u) : (h \o u)[Len(h) + i] = u[i]
         /\ \A i \in 1..Len(h) - 1 : Word(h \o u, i) = Word(h, i)
<1>1. /\ h \o u \in Seq(Nat) /\ Len(h \o u) = Len(h) + Len(u)
      /\ \A i \in 1..Len(h) : (h \o u)[i] = h[i]
      /\ \A i \in 1..Len(u) : (h \o u)[Len(h) + i] = u[i]
  OBVIOUS
<1>2. ASSUME NEW i \in 1..Len(h) - 1 PROVE i \in 1..Len(h) /\ i + 1 \in 1..Len(h)
  OBVIOUS
<1> QED BY <1>1, <1>2 DEF Word

LEMMA WordJoined ==
  ASSUME NEW h \in Seq(Nat), NEW a \in Nat
  PROVE  /\ h \o W(a) \in Seq(Nat) /\ Len(h \o W(a)) = Len(h) + 2
         /\ \A i \in 1..Len(h) : (h \o W(a))[i] = h[i]
         /\ \A i \in 1..Len(h) - 1 : Word(h \o W(a), i) = Word(h, i)
         /\ Word(h \o W(a), Len(h) + 1) = a
<1>1. W(a) \in Seq(Nat) /\ Len(W(a)) = 2 /\ W(a)[1] * 256 + W(a)[2] = a
  BY WordIs, ZenonT(20)
<1> DEFINE u == W(a)
<1> HIDE DEF u
<1>2. u \in Seq(Nat) /\ Len(u) = 2 /\ u[1] * 256 + u[2] = a
  BY <1>1 DEF u
<1> DEFINE q == h \o u
<1>3. /\ q \in Seq(Nat) /\ Len(q) = Len(h) + Len(u)
      /\ \A i \in 1..Len(h) : q[i] = h[i]
      /\ \A i \in 1..Len(u) : q[Len(h) + i] = u[i]
      /\ \A i \in 1..Len(h) - 1 : Word(q, i) = Word(h, i)
  BY <1>2, Joined, Zenon
<1>4. q = h \o W(a)
  BY DEF u
<1> HIDE DEF q
<1>5. q[Len(h) + 1] = u[1] /\ q[Len(h) + 1 + 1] = u[2]
  <2>1. Len(h) \in Nat /\ 1 \in 1..2 /\ 2 \in 1..2
    OBVIOUS
  <2>2. Len(h) + 1 + 1 = Len(h) + 2
    BY <2>1
  <2> QED BY <1>2, <1>3, <2>1, <2>2
<1>6. Word(q, Len(h) + 1) = a
  BY <1>2, <1>5 DEF Word
<1>7. Len(q) = Len(h) + 2
  BY <1>2, <1>3
<1> QED BY <1>3, <1>4, <1>6, <1>7, Zenon

-----------------------------------------------------------------------------
(* Requests                                                                *)

\* A function, an address and a number.
Start(f, a, b) == <<f>> \o W(a) \o W(b)

IsStart(p, f, a, b) ==
  /\ p \in Seq(Nat) /\ Len(p) = 5 /\ p[1] = f
  /\ Word(p, 2) = a /\ Word(p, 4) = b

LEMMA StartIs ==
  ASSUME NEW f \in Nat, NEW a \in Nat, NEW b \in Nat
  PROVE  IsStart(Start(f, a, b), f, a, b)
<1> DEFINE h == <<f>>
           g == h \o W(a)
<1>1. h \in Seq(Nat) /\ Len(h) = 1 /\ h[1] = f
  OBVIOUS
<1> HIDE DEF h
<1>2. g \in Seq(Nat) /\ Len(g) = 3 /\ g[1] = f /\ Word(g, 2) = a
  <2>1. /\ g \in Seq(Nat) /\ Len(g) = Len(h) + 2
        /\ \A i \in 1..Len(h) : g[i] = h[i]
        /\ Word(g, Len(h) + 1) = a
    BY <1>1, WordJoined, Zenon
  <2> HIDE DEF g
  <2> QED BY <1>1, <2>1
<1> HIDE DEF g
<1> DEFINE q == g \o W(b)
<1>3. /\ q \in Seq(Nat) /\ Len(q) = Len(g) + 2
      /\ \A i \in 1..Len(g) : q[i] = g[i]
      /\ \A i \in 1..Len(g) - 1 : Word(q, i) = Word(g, i)
      /\ Word(q, Len(g) + 1) = b
  BY <1>2, WordJoined, Zenon
<1>4. Start(f, a, b) = q
  BY DEF Start, g, h
<1> HIDE DEF q
<1>5. IsStart(q, f, a, b)
  BY <1>2, <1>3 DEF IsStart
<1> QED BY <1>4, <1>5, Zenon

\* The same, a count of bytes and what it counts.
Counted(f, a, b, n, u) == Start(f, a, b) \o <<n>> \o u

IsCounted(p, f, a, b, n, u) ==
  /\ p \in Seq(Nat) /\ Len(p) = 6 + Len(u) /\ p[1] = f
  /\ Word(p, 2) = a /\ Word(p, 4) = b /\ p[6] = n
  /\ Holds(p, 6, u)

LEMMA CountedIs ==
  ASSUME NEW f \in Nat, NEW a \in Nat, NEW b \in Nat, NEW n \in Nat,
         NEW u \in Seq(Nat)
  PROVE  IsCounted(Counted(f, a, b, n, u), f, a, b, n, u)
<1> DEFINE h == Start(f, a, b)
           e == <<n>>
           g == h \o e
<1>0. IsStart(h, f, a, b)
  <2>1. f \in Nat
    OBVIOUS
  <2> QED BY <2>1, StartIs, Zenon
<1>1. /\ h \in Seq(Nat) /\ Len(h) = 5 /\ h[1] = f
      /\ Word(h, 2) = a /\ Word(h, 4) = b
  <2> HIDE DEF h
  <2> QED BY <1>0 DEF IsStart
<1>2. Counted(f, a, b, n, u) = g \o u
  BY DEF Counted
<1>3. e \in Seq(Nat) /\ Len(e) = 1 /\ e[1] = n
  OBVIOUS
<1> HIDE DEF h, e
<1>4. /\ g \in Seq(Nat) /\ Len(g) = 6 /\ g[6] = n /\ g[1] = f
      /\ Word(g, 2) = a /\ Word(g, 4) = b
  <2>1. /\ g \in Seq(Nat) /\ Len(g) = Len(h) + Len(e)
        /\ \A i \in 1..Len(h) : g[i] = h[i]
        /\ \A i \in 1..Len(e) : g[Len(h) + i] = e[i]
        /\ \A i \in 1..Len(h) - 1 : Word(g, i) = Word(h, i)
    BY <1>1, <1>3, Joined, Zenon
  <2> HIDE DEF g
  <2>2. g[5 + 1] = e[1]
    BY <1>1, <1>3, <2>1
  <2> QED BY <1>1, <1>3, <2>1, <2>2
<1> HIDE DEF g
<1> DEFINE q == g \o u
<1>q. Counted(f, a, b, n, u) = q
  BY <1>2
<1>5. /\ q \in Seq(Nat) /\ Len(q) = Len(g) + Len(u)
      /\ \A i \in 1..Len(g) : q[i] = g[i]
      /\ \A i \in 1..Len(u) : q[Len(g) + i] = u[i]
      /\ \A i \in 1..Len(g) - 1 : Word(q, i) = Word(g, i)
  BY <1>4, Joined, Zenon
<1> HIDE DEF q
<1>r. IsCounted(q, f, a, b, n, u)
  BY <1>4, <1>5 DEF IsCounted, Holds
<1> QED BY <1>q, <1>r, Zenon

\* The request to mask a register.
Masking(a, s) == <<22>> \o W(a) \o Words(s)

IsMasking(p, a, s) ==
  /\ p \in Seq(Nat) /\ Len(p) = 7 /\ p[1] = 22
  /\ Word(p, 2) = a /\ Word(p, 4) = s[1] /\ Word(p, 6) = s[2]

LEMMA MaskIs ==
  ASSUME NEW a \in Nat, NEW s \in Seq(Nat), Len(s) = 2
  PROVE  IsMasking(Masking(a, s), a, s)
<1> DEFINE h == <<22>>
           g == h \o W(a)
           u == Words(s)
<1>1. h \in Seq(Nat) /\ Len(h) = 1 /\ h[1] = 22
  OBVIOUS
<1>2. Masking(a, s) = g \o u
  BY DEF Masking
<1>3. u \in Seq(Nat) /\ Len(u) = 4
  <2>1. Words(s) \in Seq(Nat) /\ Len(Words(s)) = 2 * Len(s)
    BY WordsIs, Zenon
  <2> QED BY <2>1
<1> HIDE DEF h, u
<1>4. g \in Seq(Nat) /\ Len(g) = 3 /\ g[1] = 22 /\ Word(g, 2) = a
  <2>1. /\ g \in Seq(Nat) /\ Len(g) = Len(h) + 2
        /\ \A i \in 1..Len(h) : g[i] = h[i]
        /\ Word(g, Len(h) + 1) = a
    BY <1>1, WordJoined, Zenon
  <2> HIDE DEF g
  <2> QED BY <1>1, <2>1
<1> HIDE DEF g
<1> DEFINE q == g \o u
<1>q. Masking(a, s) = q
  BY <1>2
<1>5. /\ q \in Seq(Nat) /\ Len(q) = Len(g) + Len(u)
      /\ \A i \in 1..Len(g) : q[i] = g[i]
      /\ \A i \in 1..Len(u) : q[Len(g) + i] = u[i]
      /\ \A i \in 1..Len(g) - 1 : Word(q, i) = Word(g, i)
  BY <1>3, <1>4, Joined, Zenon
<1> HIDE DEF q
<1>6. Holds(q, 3, u)
  BY <1>3, <1>4, <1>5 DEF Holds
<1>7. Reads(q, 3, s)
  <2>1. 3 \in Nat
    OBVIOUS
  <2> QED BY <1>6, <2>1, WordsRead, Zenon DEF u
<1>8. Word(q, 3 - 1 + 2 * 1) = s[1] /\ Word(q, 3 - 1 + 2 * 2) = s[2]
  BY <1>7 DEF Reads
<1>9. Word(q, 4) = s[1] /\ Word(q, 6) = s[2]
  BY <1>8
<1>r. IsMasking(q, a, s)
  BY <1>3, <1>4, <1>5, <1>9 DEF IsMasking
<1> QED BY <1>q, <1>r, Zenon

\* The request to write and read.
Both(a, b, c, d, n, u) == Start(23, a, b) \o W(c) \o W(d) \o <<n>> \o u

IsBoth(p, a, b, c, d, n, u) ==
  /\ p \in Seq(Nat) /\ Len(p) = 10 + Len(u) /\ p[1] = 23
  /\ Word(p, 2) = a /\ Word(p, 4) = b /\ Word(p, 6) = c /\ Word(p, 8) = d
  /\ p[10] = n /\ Holds(p, 10, u)

LEMMA WriteAndReadIs ==
  ASSUME NEW a \in Nat, NEW b \in Nat, NEW c \in Nat, NEW d \in Nat, NEW n \in Nat,
         NEW u \in Seq(Nat)
  PROVE  IsBoth(Both(a, b, c, d, n, u), a, b, c, d, n, u)
<1> DEFINE h == Start(23, a, b)
           k == h \o W(c)
           l == k \o W(d)
           e == <<n>>
           g == l \o e
<1>0. IsStart(h, 23, a, b)
  <2>1. 23 \in Nat
    OBVIOUS
  <2> QED BY <2>1, StartIs, Zenon
<1>1. /\ h \in Seq(Nat) /\ Len(h) = 5 /\ h[1] = 23
      /\ Word(h, 2) = a /\ Word(h, 4) = b
  <2> HIDE DEF h
  <2> QED BY <1>0 DEF IsStart
<1>2. Both(a, b, c, d, n, u) = g \o u
  BY DEF Both
<1>3. e \in Seq(Nat) /\ Len(e) = 1 /\ e[1] = n
  OBVIOUS
<1> HIDE DEF h, e
<1>4. /\ k \in Seq(Nat) /\ Len(k) = 7 /\ k[1] = 23
      /\ Word(k, 2) = a /\ Word(k, 4) = b /\ Word(k, 6) = c
  <2>1. /\ k \in Seq(Nat) /\ Len(k) = Len(h) + 2
        /\ \A i \in 1..Len(h) : k[i] = h[i]
        /\ \A i \in 1..Len(h) - 1 : Word(k, i) = Word(h, i)
        /\ Word(k, Len(h) + 1) = c
    BY <1>1, WordJoined, Zenon
  <2> HIDE DEF k
  <2> QED BY <1>1, <2>1
<1> HIDE DEF k
<1>5. /\ l \in Seq(Nat) /\ Len(l) = 9 /\ l[1] = 23
      /\ Word(l, 2) = a /\ Word(l, 4) = b /\ Word(l, 6) = c /\ Word(l, 8) = d
  <2>1. /\ l \in Seq(Nat) /\ Len(l) = Len(k) + 2
        /\ \A i \in 1..Len(k) : l[i] = k[i]
        /\ \A i \in 1..Len(k) - 1 : Word(l, i) = Word(k, i)
        /\ Word(l, Len(k) + 1) = d
    BY <1>4, WordJoined, Zenon
  <2> HIDE DEF l
  <2> QED BY <1>4, <2>1
<1> HIDE DEF l
<1>6. /\ g \in Seq(Nat) /\ Len(g) = 10 /\ g[1] = 23 /\ g[10] = n
      /\ Word(g, 2) = a /\ Word(g, 4) = b /\ Word(g, 6) = c /\ Word(g, 8) = d
  <2>1. /\ g \in Seq(Nat) /\ Len(g) = Len(l) + Len(e)
        /\ \A i \in 1..Len(l) : g[i] = l[i]
        /\ \A i \in 1..Len(e) : g[Len(l) + i] = e[i]
        /\ \A i \in 1..Len(l) - 1 : Word(g, i) = Word(l, i)
    BY <1>3, <1>5, Joined, Zenon
  <2> HIDE DEF g
  <2>2. g[9 + 1] = e[1]
    BY <1>3, <1>5, <2>1
  <2> QED BY <1>3, <1>5, <2>1, <2>2
<1> HIDE DEF g
<1> DEFINE q == g \o u
<1>q. Both(a, b, c, d, n, u) = q
  BY <1>2
<1>7. /\ q \in Seq(Nat) /\ Len(q) = Len(g) + Len(u)
      /\ \A i \in 1..Len(g) : q[i] = g[i]
      /\ \A i \in 1..Len(u) : q[Len(g) + i] = u[i]
      /\ \A i \in 1..Len(g) - 1 : Word(q, i) = Word(g, i)
  BY <1>6, Joined, Zenon
<1> HIDE DEF q
<1>r. IsBoth(q, a, b, c, d, n, u)
  BY <1>6, <1>7 DEF IsBoth, Holds
<1> QED BY <1>q, <1>r, Zenon

-----------------------------------------------------------------------------
(* Sizes                                                                   *)

AnswerSize(p) == Size(p, TRUE)
RequestSize(p) == Size(p, FALSE)

LEMMA AnswerSizes ==
  ASSUME NEW p \in Seq(Nat), p # <<>>
  PROVE  /\ p[1] \in {1, 2, 3, 4, 17, 23} => AnswerSize(p) = 2 + At(p, 2)
         /\ p[1] \in {5, 6, 15, 16} => AnswerSize(p) = 5
         /\ p[1] = 22 => AnswerSize(p) = 7
         /\ p[1] >= 128 => AnswerSize(p) = 2
<1>1. p[1] \in Nat
  OBVIOUS
<1>2. At(p, 2) \in Nat
  BY DEF At
<1>3. CASE p[1] \in {1, 2, 3, 4, 17, 23}
  <2>1. Meta(p[1], TRUE) = 1
    BY <1>3, SMT DEF Meta
  <2>2. Data(p, TRUE) = At(p, 2)
    BY <1>3, SMT DEF Data
  <2>3. AnswerSize(p) = 1 + 1 + At(p, 2)
    BY <2>1, <2>2, Zenon DEF Size, AnswerSize, RequestSize
  <2>4. AnswerSize(p) = 2 + At(p, 2)
    BY <1>2, <2>3
  <2> QED BY <1>3, <2>4
<1>4. CASE p[1] \in {5, 6, 15, 16}
  <2>1. Meta(p[1], TRUE) = 4
    BY <1>4, SMT DEF Meta
  <2>2. Data(p, TRUE) = 0
    BY <1>4, SMT DEF Data
  <2>3. AnswerSize(p) = 1 + 4 + 0
    BY <2>1, <2>2, Zenon DEF Size, AnswerSize, RequestSize
  <2> QED BY <1>4, <2>3
<1>5. CASE p[1] = 22
  <2>1. Meta(p[1], TRUE) = 6
    BY <1>5, SMT DEF Meta
  <2>2. Data(p, TRUE) = 0
    BY <1>5, SMT DEF Data
  <2>3. AnswerSize(p) = 1 + 6 + 0
    BY <2>1, <2>2, Zenon DEF Size, AnswerSize, RequestSize
  <2> QED BY <1>5, <2>3
<1>6. CASE p[1] >= 128
  <2>1. Meta(p[1], TRUE) = 1
    BY <1>1, <1>6, SMT DEF Meta
  <2>2. Data(p, TRUE) = 0
    BY <1>1, <1>6, SMT DEF Data
  <2>3. AnswerSize(p) = 1 + 1 + 0
    BY <2>1, <2>2, Zenon DEF Size, AnswerSize, RequestSize
  <2> QED BY <1>1, <1>6, <2>3
<1> QED BY <1>3, <1>4, <1>5, <1>6

LEMMA RequestSizes ==
  ASSUME NEW p \in Seq(Nat), p # <<>>
  PROVE  /\ p[1] <= 6 => RequestSize(p) = 5
         /\ p[1] \in {15, 16} => RequestSize(p) = 6 + At(p, 6)
         /\ p[1] = 17 => RequestSize(p) = 1
         /\ p[1] = 22 => RequestSize(p) = 7
         /\ p[1] = 23 => RequestSize(p) = 10 + At(p, 10)
<1>1. p[1] \in Nat
  OBVIOUS
<1>2. At(p, 6) \in Nat /\ At(p, 10) \in Nat
  BY DEF At
<1>3. CASE p[1] <= 6
  <2>1. Meta(p[1], FALSE) = 4
    BY <1>1, <1>3, SMT DEF Meta
  <2>2. Data(p, FALSE) = 0
    BY <1>1, <1>3, SMT DEF Data
  <2>3. RequestSize(p) = 1 + 4 + 0
    BY <2>1, <2>2, Zenon DEF Size, AnswerSize, RequestSize
  <2> QED BY <1>1, <1>3, <2>3
<1>4. CASE p[1] \in {15, 16}
  <2>1. Meta(p[1], FALSE) = 5
    BY <1>4, SMT DEF Meta
  <2>2. Data(p, FALSE) = At(p, 6)
    BY <1>4, SMT DEF Data
  <2>3. RequestSize(p) = 1 + 5 + At(p, 6)
    BY <2>1, <2>2, Zenon DEF Size, AnswerSize, RequestSize
  <2> QED BY <1>2, <1>4, <2>3
<1>5. CASE p[1] = 17
  <2>1. Meta(p[1], FALSE) = 0
    BY <1>5, SMT DEF Meta
  <2>2. Data(p, FALSE) = 0
    BY <1>5, SMT DEF Data
  <2>3. RequestSize(p) = 1 + 0 + 0
    BY <2>1, <2>2, Zenon DEF Size, AnswerSize, RequestSize
  <2> QED BY <1>5, <2>3
<1>6. CASE p[1] = 22
  <2>1. Meta(p[1], FALSE) = 6
    BY <1>6, SMT DEF Meta
  <2>2. Data(p, FALSE) = 0
    BY <1>6, SMT DEF Data
  <2>3. RequestSize(p) = 1 + 6 + 0
    BY <2>1, <2>2, Zenon DEF Size, AnswerSize, RequestSize
  <2> QED BY <1>6, <2>3
<1>7. CASE p[1] = 23
  <2>1. Meta(p[1], FALSE) = 9
    BY <1>7, SMT DEF Meta
  <2>2. Data(p, FALSE) = At(p, 10)
    BY <1>7, SMT DEF Data
  <2>3. RequestSize(p) = 1 + 9 + At(p, 10)
    BY <2>1, <2>2, Zenon DEF Size, AnswerSize, RequestSize
  <2> QED BY <1>2, <1>7, <2>3
<1> QED BY <1>3, <1>4, <1>5, <1>6, <1>7

LEMMA SeqOfWords ==
  ASSUME NEW s \in Seq(Word16)
  PROVE  s \in Seq(Nat)
<1>1. Len(s) \in Nat /\ s = [i \in 1..Len(s) |-> s[i]]
  OBVIOUS
<1>2. \A i \in 1..Len(s) : s[i] \in Word16
  OBVIOUS
<1>3. \A i \in 1..Len(s) : s[i] \in Nat
  BY <1>2, WordNat
<1>4. s \in [1..Len(s) -> Nat]
  BY <1>1, <1>3, Zenon
<1> QED BY <1>1, <1>4

\* A well-formed call is made of words and, for coils, of bits.
LEMMA FormIs ==
  ASSUME NEW r, WellFormed(r)
  PROVE  /\ r.f \in {1, 2, 3, 4, 5, 6, 15, 16, 17, 22, 23} /\ r.f \in Nat
         /\ r.addr \in Nat /\ r.nb \in Nat /\ r.waddr \in Nat
         /\ r.f \in {5, 15} => r.vals \in Seq({0, 1})
         /\ r.f \notin {5, 15} => r.vals \in Seq(Word16) /\ r.vals \in Seq(Nat)
         /\ r.f \in {5, 6} => Len(r.vals) = 1
         /\ r.f = 22 => Len(r.vals) = 2
         /\ r.f \in {15, 16} => Len(r.vals) = r.nb
<1>1. Word16 \subseteq Nat
  BY WordNat
<1>2. r.f \in {1, 2, 3, 4, 5, 6, 15, 16, 17, 22, 23}
  BY DEF WellFormed
<1>3. r.addr \in Nat /\ r.nb \in Nat /\ r.waddr \in Nat
  BY <1>1 DEF WellFormed
<1>4. r.f \in {5, 15} => r.vals \in Seq({0, 1})
  BY DEF WellFormed
<1>5. r.f \notin {5, 15} => r.vals \in Seq(Word16)
  BY DEF WellFormed
<1>6. r.f \notin {5, 15} => r.vals \in Seq(Nat)
  BY <1>5, SeqOfWords
<1>7. /\ r.f \in {5, 6} => Len(r.vals) = 1
      /\ r.f = 22 => Len(r.vals) = 2
      /\ r.f \in {15, 16} => Len(r.vals) = r.nb
  BY DEF WellFormed
<1>8. r.f \in Nat
  BY <1>2
<1> QED BY <1>2, <1>3, <1>4, <1>5, <1>6, <1>7, <1>8

-----------------------------------------------------------------------------
(* What the server reads in a request                                      *)

\* The server reads as many bytes as were sent.
Whole(r) ==
  /\ Pdu(r) \in Seq(Nat) /\ Pdu(r) # <<>> /\ Pdu(r)[1] = r.f
  /\ RequestSize(Pdu(r)) = Len(Pdu(r))

LEMMA ReadSent ==
  ASSUME NEW r, WellFormed(r), r.f \in {1, 2, 3, 4}
  PROVE  Whole(r) /\ Word(Pdu(r), 2) = r.addr /\ Word(Pdu(r), 4) = r.nb
<1>1. r.f \in Nat /\ r.addr \in Nat /\ r.nb \in Nat
  BY FormIs
<1>2. Pdu(r) = Start(r.f, r.addr, r.nb)
  <2>1. Pdu(r) = ReadBits(r) \/ Pdu(r) = ReadRegisters(r)
    BY SMT DEF Pdu
  <2> QED BY <2>1, Zenon DEF ReadBits, ReadRegisters, Start
<1> DEFINE p == Pdu(r)
<1> DEFINE q == Start(r.f, r.addr, r.nb)
<1>q. IsStart(q, r.f, r.addr, r.nb)
  BY <1>1, StartIs, Zenon
<1>s. IsStart(p, r.f, r.addr, r.nb)
  BY <1>2, <1>q, Zenon
<1> HIDE DEF p, q
<1>x. /\ p \in Seq(Nat) /\ Len(p) = 5 /\ p[1] = r.f
      /\ Word(p, 2) = r.addr /\ Word(p, 4) = r.nb
  BY <1>s DEF IsStart, Holds
<1> HIDE DEF p
<1>4. p # <<>>
  BY <1>x
<1>5. RequestSize(p) = 5
  BY <1>x, <1>4, RequestSizes
<1> QED BY <1>x, <1>4, <1>5 DEF p, Whole

LEMMA SingleSent ==
  ASSUME NEW r, WellFormed(r), r.f \in {5, 6}
  PROVE  /\ Whole(r) /\ Word(Pdu(r), 2) = r.addr
         /\ Word(Pdu(r), 4) = IF r.f = 6 THEN r.vals[1] ELSE On * r.vals[1]
         /\ Len(Pdu(r)) = 5
<1> DEFINE v == IF r.f = 6 THEN r.vals[1] ELSE On * r.vals[1]
<1>1. r.f \in Nat /\ r.addr \in Nat /\ v \in Nat
  <2>0. On \in Nat
    BY DEF On
  <2>1. CASE r.f = 5
    <3>1. r.vals \in Seq({0, 1}) /\ Len(r.vals) = 1
      BY <2>1, FormIs
    <3> QED BY <2>1, <3>1, <2>0, FormIs
  <2>2. CASE r.f = 6
    <3>1. r.vals \in Seq(Nat) /\ Len(r.vals) = 1
      BY <2>2, FormIs
    <3> QED BY <2>2, <3>1, FormIs
  <2> QED BY <2>1, <2>2
<1>2. Pdu(r) = Start(r.f, r.addr, v)
  <2>1. Pdu(r) = WriteSingle(r)
    BY SMT DEF Pdu
  <2> QED BY <2>1, Zenon DEF WriteSingle, Start
<1> DEFINE p == Pdu(r)
<1> HIDE DEF v
<1> DEFINE q == Start(r.f, r.addr, v)
<1>q. IsStart(q, r.f, r.addr, v)
  BY <1>1, StartIs, Zenon
<1>s. IsStart(p, r.f, r.addr, v)
  BY <1>2, <1>q, Zenon
<1> HIDE DEF p, q
<1>x. /\ p \in Seq(Nat) /\ Len(p) = 5 /\ p[1] = r.f
      /\ Word(p, 2) = r.addr /\ Word(p, 4) = v
  BY <1>s DEF IsStart, Holds
<1> HIDE DEF p
<1>4. p # <<>>
  BY <1>x
<1>5. RequestSize(p) = 5
  BY <1>x, <1>4, RequestSizes
<1> QED BY <1>x, <1>4, <1>5 DEF p, v, Whole

LEMMA BitsSent ==
  ASSUME NEW r, WellFormed(r), r.f = 15
  PROVE  /\ Whole(r) /\ Word(Pdu(r), 2) = r.addr /\ Word(Pdu(r), 4) = r.nb
         /\ Pdu(r)[6] = BytesFor(r.nb) /\ Len(Pdu(r)) >= 6
         /\ \A k \in 1..BytesFor(r.nb) : Pdu(r)[6 + k] = Pack(r.vals)[k]
         /\ r.vals \in Seq({0, 1}) /\ Len(r.vals) = r.nb
<1>1. /\ 15 \in Nat /\ r.addr \in Nat /\ r.nb \in Nat
      /\ r.vals \in Seq({0, 1}) /\ Len(r.vals) = r.nb
  BY FormIs
<1> DEFINE u == Pack(r.vals)
           n == BytesFor(r.nb)
           p == Pdu(r)
<1>2. u \in Seq(Nat) /\ Len(u) = n /\ n \in Nat
  BY <1>1, PackIs, BytesForIs
<1>3. p = Counted(15, r.addr, r.nb, n, u)
  <2>1. Pdu(r) = WriteBits(r)
    BY SMT DEF Pdu
  <2> QED BY <2>1, Zenon DEF WriteBits, Counted, Start
<1> HIDE DEF u, n, p
<1> DEFINE q == Counted(15, r.addr, r.nb, n, u)
<1>q. IsCounted(q, 15, r.addr, r.nb, n, u)
  <2>1. 15 \in Nat
    OBVIOUS
  <2> QED BY <1>1, <1>2, <2>1, CountedIs, Zenon
<1>s. IsCounted(p, 15, r.addr, r.nb, n, u)
  BY <1>3, <1>q, Zenon
<1> HIDE DEF p, q
<1>4. /\ p \in Seq(Nat) /\ Len(p) = 6 + Len(u) /\ p[1] = 15
      /\ Word(p, 2) = r.addr /\ Word(p, 4) = r.nb /\ p[6] = n
      /\ \A i \in 1..Len(u) : p[6 + i] = u[i]
  BY <1>s DEF IsCounted, Holds
<1>5. p # <<>> /\ Len(p) >= 6 /\ At(p, 6) = n /\ Len(p) = 6 + n
  BY <1>2, <1>4 DEF At
<1>6. RequestSize(p) = 6 + n
  BY <1>4, <1>5, RequestSizes
<1> QED BY <1>1, <1>2, <1>4, <1>5, <1>6 DEF p, u, n, Whole

LEMMA RegistersSent ==
  ASSUME NEW r, WellFormed(r), r.f = 16
  PROVE  /\ Whole(r) /\ Word(Pdu(r), 2) = r.addr /\ Word(Pdu(r), 4) = r.nb
         /\ Pdu(r)[6] = 2 * r.nb /\ Len(Pdu(r)) >= 6
         /\ UnpackWords(Pdu(r), 7, r.nb) = r.vals
         /\ r.vals \in Seq(Word16) /\ Len(r.vals) = r.nb
<1>1. /\ 16 \in Nat /\ r.addr \in Nat /\ r.nb \in Nat
      /\ r.vals \in Seq(Word16) /\ Len(r.vals) = r.nb
  BY FormIs
<1>v. r.vals \in Seq(Nat)
  BY FormIs
<1> DEFINE u == Words(r.vals)
           n == 2 * r.nb
           p == Pdu(r)
<1>2. u \in Seq(Nat) /\ Len(u) = 2 * Len(r.vals)
  BY <1>v, WordsIs, Zenon
<1>3. p = Counted(16, r.addr, r.nb, n, u)
  <2>1. Pdu(r) = WriteRegisters(r)
    BY SMT DEF Pdu
  <2> QED BY <2>1, Zenon DEF WriteRegisters, Counted, Start
<1>n. n \in Nat
  BY <1>1
<1> HIDE DEF u, p
<1> DEFINE q == Counted(16, r.addr, r.nb, n, u)
<1>q. IsCounted(q, 16, r.addr, r.nb, n, u)
  <2>1. 16 \in Nat
    OBVIOUS
  <2> QED BY <1>1, <1>2, <1>n, <2>1, CountedIs, Zenon
<1>s. IsCounted(p, 16, r.addr, r.nb, n, u)
  BY <1>3, <1>q, Zenon
<1> HIDE DEF p, q
<1>4. /\ p \in Seq(Nat) /\ Len(p) = 6 + Len(u) /\ p[1] = 16
      /\ Word(p, 2) = r.addr /\ Word(p, 4) = r.nb /\ p[6] = n
      /\ \A i \in 1..Len(u) : p[6 + i] = u[i]
  BY <1>s DEF IsCounted, Holds
<1>l. Len(u) = n
  BY <1>1, <1>2
<1>5. p # <<>> /\ Len(p) >= 6 /\ At(p, 6) = n /\ Len(p) = 6 + n
  <2> HIDE DEF n
  <2> QED BY <1>n, <1>l, <1>4 DEF At
<1>6. RequestSize(p) = 6 + n
  BY <1>4, <1>5, RequestSizes
<1>7. UnpackWords(p, 7, Len(r.vals)) = r.vals
  <2>1. 6 \in Nat /\ 7 = 6 + 1
    OBVIOUS
  <2>2. Holds(p, 6, Words(r.vals))
    BY <1>s, Zenon DEF u, IsCounted
  <2> QED BY <1>v, <2>1, <2>2, UnpackWordsIs, Zenon
<1> QED BY <1>1, <1>4, <1>5, <1>6, <1>7 DEF p, Whole

LEMMA SlaveIdSent ==
  ASSUME NEW r, WellFormed(r), r.f = 17
  PROVE  Whole(r)
<1>1. Pdu(r) = <<17>>
  BY DEF Pdu, ReportSlaveId
<1>2. <<17>> \in Seq(Nat) /\ <<17>> # <<>> /\ <<17>>[1] = 17 /\ Len(<<17>>) = 1
  OBVIOUS
<1>3. RequestSize(<<17>>) = 1
  BY <1>2, RequestSizes
<1> QED BY <1>1, <1>2, <1>3 DEF Whole

LEMMA MaskSent ==
  ASSUME NEW r, WellFormed(r), r.f = 22
  PROVE  /\ Whole(r) /\ Word(Pdu(r), 2) = r.addr /\ Len(Pdu(r)) = 7
         /\ Word(Pdu(r), 4) = r.vals[1] /\ Word(Pdu(r), 6) = r.vals[2]
         /\ r.vals \in Seq(Word16) /\ Len(r.vals) = 2
<1>1. r.addr \in Nat /\ r.vals \in Seq(Word16) /\ Len(r.vals) = 2
  BY FormIs
<1>v. r.vals \in Seq(Nat)
  BY FormIs
<1> DEFINE p == Pdu(r)
<1>2. p = Masking(r.addr, r.vals)
  <2>1. Pdu(r) = MaskWrite(r)
    BY SMT DEF Pdu
  <2> QED BY <2>1, Zenon DEF MaskWrite, Masking
<1> HIDE DEF p
<1> DEFINE q == Masking(r.addr, r.vals)
<1>q. IsMasking(q, r.addr, r.vals)
  BY <1>1, <1>v, MaskIs, Zenon
<1>s. IsMasking(p, r.addr, r.vals)
  BY <1>2, <1>q, Zenon
<1> HIDE DEF p, q
<1>3. /\ p \in Seq(Nat) /\ Len(p) = 7 /\ p[1] = 22
      /\ Word(p, 2) = r.addr /\ Word(p, 4) = r.vals[1] /\ Word(p, 6) = r.vals[2]
  BY <1>s DEF IsMasking, Holds
<1>4. p # <<>>
  <2>1. Len(p) = 7
    BY <1>s, Zenon DEF IsMasking
  <2> QED BY <2>1
<1>5. RequestSize(p) = 7
  BY <1>3, <1>4, RequestSizes
<1> QED BY <1>1, <1>3, <1>4, <1>5 DEF p, Whole

LEMMA WriteAndReadSent ==
  ASSUME NEW r, WellFormed(r), Within(r), r.f = 23
  PROVE  /\ Whole(r) /\ Word(Pdu(r), 2) = r.addr /\ Word(Pdu(r), 4) = r.nb
         /\ Word(Pdu(r), 6) = r.waddr /\ Word(Pdu(r), 8) = Len(r.vals)
         /\ Pdu(r)[10] = 2 * Len(r.vals)
         /\ UnpackWords(Pdu(r), 11, Len(r.vals)) = r.vals
         /\ r.vals \in Seq(Word16)
<1>1. /\ r.addr \in Nat /\ r.nb \in Nat /\ r.waddr \in Nat
      /\ r.vals \in Seq(Word16) /\ Len(r.vals) \in Nat
  BY FormIs
<1>v. r.vals \in Seq(Nat)
  BY FormIs
<1> DEFINE u == Words(r.vals)
           m == Len(r.vals)
           n == 2 * m
           p == Pdu(r)
<1>2. u \in Seq(Nat) /\ Len(u) = 2 * Len(r.vals)
  BY <1>v, WordsIs, Zenon
<1>3. p = Both(r.addr, r.nb, r.waddr, m, n, u)
  <2>1. Pdu(r) = WriteAndRead(r)
    BY SMT DEF Pdu
  <2> QED BY <2>1, Zenon DEF WriteAndRead, Both, Start
<1>n. n \in Nat
  BY <1>1
<1> HIDE DEF u, p
<1> DEFINE q == Both(r.addr, r.nb, r.waddr, m, n, u)
<1>q. IsBoth(q, r.addr, r.nb, r.waddr, m, n, u)
  BY <1>1, <1>2, <1>n, WriteAndReadIs, Zenon
<1>s. IsBoth(p, r.addr, r.nb, r.waddr, m, n, u)
  BY <1>3, <1>q, Zenon
<1> HIDE DEF p, q
<1>4. /\ p \in Seq(Nat) /\ Len(p) = 10 + Len(u) /\ p[1] = 23
      /\ Word(p, 2) = r.addr /\ Word(p, 4) = r.nb
      /\ Word(p, 6) = r.waddr /\ Word(p, 8) = m /\ p[10] = n
      /\ \A i \in 1..Len(u) : p[10 + i] = u[i]
  BY <1>s DEF IsBoth, Holds
<1>l. Len(u) = n
  BY <1>1, <1>2
<1>5. p # <<>> /\ At(p, 10) = n /\ Len(p) = 10 + n
  <2> HIDE DEF n
  <2> QED BY <1>n, <1>l, <1>4 DEF At
<1>6. RequestSize(p) = 10 + n
  BY <1>4, <1>5, RequestSizes
<1>7. UnpackWords(p, 11, Len(r.vals)) = r.vals
  <2>1. 10 \in Nat /\ 11 = 10 + 1
    OBVIOUS
  <2>2. Holds(p, 10, Words(r.vals))
    BY <1>s, Zenon DEF u, IsBoth
  <2> QED BY <1>v, <2>1, <2>2, UnpackWordsIs, Zenon
<1> QED BY <1>1, <1>4, <1>5, <1>6, <1>7 DEF p, Whole

-----------------------------------------------------------------------------
(* Answers                                                                 *)

IsListed(q, f, n, u) ==
  /\ q \in Seq(Nat) /\ q # <<>> /\ Len(q) = 2 + Len(u)
  /\ q[1] = f /\ q[2] = n /\ At(q, 2) = n /\ Holds(q, 2, u)

\* An answer that says how many bytes it has, and lists them.
LEMMA ListedIs ==
  ASSUME NEW f \in Nat, NEW n \in Nat, NEW u \in Seq(Nat)
  PROVE  IsListed(Listed(f, n, u), f, n, u)
<1> DEFINE h == <<f, n>>
           q == h \o u
<1>1. h \in Seq(Nat) /\ Len(h) = 2 /\ h[1] = f /\ h[2] = n
  OBVIOUS
<1>2. Listed(f, n, u) = q
  BY DEF Listed
<1> HIDE DEF h
<1>3. /\ q \in Seq(Nat) /\ Len(q) = Len(h) + Len(u)
      /\ \A i \in 1..Len(h) : q[i] = h[i]
      /\ \A i \in 1..Len(u) : q[Len(h) + i] = u[i]
  BY <1>1, Joined, Zenon
<1> HIDE DEF q
<1>4. q[1] = f /\ q[2] = n /\ Len(q) = 2 + Len(u) /\ q # <<>>
  BY <1>1, <1>3
<1>5. At(q, 2) = n
  BY <1>3, <1>4 DEF At
<1>6. Holds(q, 2, u)
  BY <1>1, <1>3 DEF Holds
<1> QED BY <1>2, <1>3, <1>4, <1>5, <1>6, Zenon DEF IsListed

\* An answer with the function f whose length the client computes.
IsAnswer(q, f) ==
  q \in Seq(Nat) /\ q # <<>> /\ q[1] = f /\ AnswerSize(q) = Len(q)

LEMMA ListedSize ==
  ASSUME NEW f \in {1, 2, 3, 4, 17, 23}, NEW n, NEW u, Len(u) = n,
         NEW q, IsListed(q, f, n, u)
  PROVE  IsAnswer(q, f)
<1>1. /\ q \in Seq(Nat) /\ q # <<>> /\ Len(q) = 2 + Len(u)
      /\ q[1] = f /\ At(q, 2) = n
  BY Zenon DEF IsListed
<1>2. AnswerSize(q) = 2 + At(q, 2)
  BY <1>1, AnswerSizes
<1> QED BY <1>1, <1>2, Zenon DEF IsAnswer

\* The client reads the words that are listed.
LEMMA ListedWords ==
  ASSUME NEW q, NEW f, NEW n, NEW v \in Seq(Nat), IsListed(q, f, n, Words(v))
  PROVE  UnpackWords(q, 3, Len(v)) = v
<1>1. Holds(q, 2, Words(v))
  BY Zenon DEF IsListed
<1>2. 2 \in Nat /\ 3 = 2 + 1
  OBVIOUS
<1> QED BY <1>1, <1>2, UnpackWordsIs, Zenon

\* The client reads the bits that are listed.
LEMMA ListedBits ==
  ASSUME NEW q, NEW f, NEW n, NEW v \in Seq({0, 1}),
         IsListed(q, f, n, Pack(v))
  PROVE  Unpack(q, 3, Len(v)) = v
<1>1. Holds(q, 2, Pack(v))
  BY Zenon DEF IsListed
<1>2. 2 \in Nat /\ 3 = 2 + 1
  OBVIOUS
<1> QED BY <1>1, <1>2, UnpackIs, Zenon

\* The answer a to the call r, the tables being t before.
Fits(r, t, a) ==
  /\ a.tab \in Tables /\ Means(r, t, a.tab)
  /\ Legal(r) => IsAnswer(a.pdu, r.f) /\ Values(r, a.pdu) = Gets(r, a.tab)
  /\ ~Legal(r) => IsAnswer(a.pdu, r.f + 128)

LEMMA AnsweredFits ==
  ASSUME NEW r, Legal(r), NEW t, NEW u \in Tables, NEW q,
         Means(r, t, u), IsAnswer(q, r.f), Values(r, q) = Gets(r, u)
  PROVE  Fits(r, t, Answered(u, q))
<1>1. Answered(u, q).tab = u /\ Answered(u, q).pdu = q
  BY DEF Answered
<1> QED BY <1>1, Zenon DEF Fits

LEMMA RefusalFits ==
  ASSUME NEW r, WellFormed(r), ~Legal(r), NEW t \in Tables, NEW p, p[1] = r.f,
         NEW code \in Nat, NEW a, a \in {Refused(t, p, code), Rejected(t, p, code)}
  PROVE  Fits(r, t, a)
<1> DEFINE q == <<r.f + 128, code>>
<1>1. a.tab = t /\ a.pdu = q
  BY DEF Refused, Rejected
<1>2. r.f \in Nat
  BY FormIs
<1>3. q \in Seq(Nat) /\ q # <<>> /\ Len(q) = 2 /\ q[1] = r.f + 128 /\ q[1] >= 128
  BY <1>2
<1> HIDE DEF q
<1>4. AnswerSize(q) = 2
  BY <1>3, AnswerSizes
<1>5. Means(r, t, t)
  BY SMT DEF Means
<1> QED BY <1>1, <1>3, <1>4, <1>5, Zenon DEF Fits, IsAnswer

\* What an address and a number of a table stand for.
IsRow(v, R, n) == v \in Seq(R) /\ Len(v) = n

LEMMA FromIs ==
  ASSUME NEW D, NEW R, NEW table \in [D -> R], NEW a \in Nat, NEW n \in Nat,
         Span(a, n) \subseteq D
  PROVE  IsRow(From(table, a, n), R, n)
<1>1. ASSUME NEW k \in 1..n PROVE table[a + k - 1] \in R
  <2>1. a + k - 1 \in Span(a, n)
    BY DEF Span
  <2> QED BY <2>1
<1>2. From(table, a, n) \in [1..n -> R]
  BY <1>1, Zenon DEF From
<1> QED BY <1>2 DEF IsRow

LEMMA ReadBitsFits ==
  ASSUME NEW r, WellFormed(r), Within(r), NEW t \in Tables, r.f \in {1, 2},
         InputBits \in [DOMAIN InputBits -> {0, 1}]
  PROVE  Fits(r, t, Reply(t, Pdu(r)))
<1> DEFINE p == Pdu(r)
           table == IF r.f = 2 THEN InputBits ELSE t.bits
           nb == r.nb
           v == From(table, r.addr, nb)
           u == Pack(v)
           q == Listed(r.f, BytesFor(nb), u)
<1>1. Whole(r) /\ Word(p, 2) = r.addr /\ Word(p, 4) = nb
  BY ReadSent
<1>2. p[1] = r.f
  BY <1>1 DEF Whole
<1>3. table \in [DOMAIN table -> {0, 1}]
  BY DEF Tables
<1>4. Legal(r) <=> nb >= 1 /\ Span(r.addr, nb) \subseteq DOMAIN table
  BY SMT DEF Legal, Tables
<1>5. nb \in Nat /\ r.addr \in Nat /\ r.f \in Nat
  BY FormIs
<1>6. nb <= MaxReadBits /\ MaxReadBits \in Nat
  BY DEF Within, MaxReadBits
<1>7. Means(r, t, t)
  BY SMT DEF Means
<1>8. Values(r, q) = Unpack(q, 3, nb)
  BY SMT DEF Values
<1>9. Gets(r, t) = v
  BY SMT DEF Gets
<1>10. Reply(t, p) = ReplyReadBits(t, p)
  <2> HIDE DEF p
  <2> QED BY <1>2, SMT DEF Reply
<1>11. table = IF p[1] = 2 THEN InputBits ELSE t.bits
  BY <1>2
<1> HIDE DEF p, table
<1>12. CASE ~Legal(r)
  <2>1. CASE nb < 1
    <3>1. ReplyReadBits(t, p) = Rejected(t, p, IllegalValue)
      BY <2>1, <1>1, SMT DEF ReplyReadBits
    <3>2. IllegalValue \in Nat
      BY DEF IllegalValue
    <3> QED BY <3>1, <3>2, <1>2, <1>10, <1>12, RefusalFits, Zenon DEF p
  <2>2. CASE nb >= 1
    <3>1. nb \in 1..MaxReadBits /\ ~(Span(r.addr, nb) \subseteq DOMAIN table)
      BY <2>2, <1>12, <1>4, <1>5, <1>6
    <3>2. ReplyReadBits(t, p) = Refused(t, p, IllegalAddress)
      BY <3>1, <1>1, <1>11, SMT DEF ReplyReadBits
    <3>3. IllegalAddress \in Nat
      BY DEF IllegalAddress
    <3> QED BY <3>2, <3>3, <1>2, <1>10, <1>12, RefusalFits, Zenon DEF p
  <2> QED BY <2>1, <2>2, <1>5
<1>13. CASE Legal(r)
  <2>1. nb \in 1..MaxReadBits /\ Span(r.addr, nb) \subseteq DOMAIN table
    BY <1>13, <1>4, <1>5, <1>6
  <2>2. v \in Seq({0, 1}) /\ Len(v) = nb
    <3>1. IsRow(v, {0, 1}, nb)
      BY <1>3, <1>5, <2>1, FromIs, Zenon
    <3> QED BY <3>1, Zenon DEF IsRow
  <2>3. Reply(t, p) = Answered(t, q)
    <3>1. ReplyReadBits(t, p) = Answered(t, Listed(p[1], BytesFor(nb), u))
      BY <2>1, <1>1, <1>11, SMT DEF ReplyReadBits
    <3> QED BY <3>1, <1>2, <1>10, Zenon
  <2> HIDE DEF v
  <2>4. u \in Seq(Nat) /\ Len(u) = BytesFor(nb) /\ BytesFor(nb) \in Nat
    BY <2>2, <1>5, PackIs, BytesForIs
  <2>5. IsListed(q, r.f, BytesFor(nb), u)
    <3> HIDE DEF u
    <3> QED BY <2>4, <1>5, ListedIs, Zenon
  <2> HIDE DEF q
  <2>6. Unpack(q, 3, nb) = v
    BY <2>2, <2>5, ListedBits, Zenon
  <2> HIDE DEF u
  <2>7. IsAnswer(q, r.f)
    <3>1. r.f \in {1, 2, 3, 4, 17, 23}
      OBVIOUS
    <3> QED BY <2>4, <2>5, <3>1, ListedSize, Zenon
  <2>8. Values(r, q) = Gets(r, t)
    BY <1>8, <1>9, <2>6, Zenon
  <2> QED BY <1>7, <1>13, <2>3, <2>7, <2>8, AnsweredFits, Zenon DEF p
<1> QED BY <1>12, <1>13, Zenon DEF p

LEMMA ReadRegistersFits ==
  ASSUME NEW r, WellFormed(r), Within(r), NEW t \in Tables, r.f \in {3, 4},
         InputRegs \in [DOMAIN InputRegs -> Word16]
  PROVE  Fits(r, t, Reply(t, Pdu(r)))
<1> DEFINE p == Pdu(r)
           table == IF r.f = 4 THEN InputRegs ELSE t.regs
           nb == r.nb
           v == From(table, r.addr, nb)
           u == Words(v)
           q == Listed(r.f, 2 * nb, u)
<1>1. Whole(r) /\ Word(p, 2) = r.addr /\ Word(p, 4) = nb
  BY ReadSent
<1>2. p[1] = r.f
  BY <1>1 DEF Whole
<1>3. table \in [DOMAIN table -> Word16]
  BY DEF Tables
<1>4. Legal(r) <=> nb >= 1 /\ Span(r.addr, nb) \subseteq DOMAIN table
  BY SMT DEF Legal, Tables
<1>5. nb \in Nat /\ r.addr \in Nat /\ r.f \in Nat
  BY FormIs
<1>6. nb <= MaxReadRegisters /\ MaxReadRegisters \in Nat
  BY DEF Within, MaxReadRegisters
<1>7. Means(r, t, t)
  BY SMT DEF Means
<1>8. Values(r, q) = UnpackWords(q, 3, nb)
  BY SMT DEF Values
<1>9. Gets(r, t) = v
  BY SMT DEF Gets
<1>10. Reply(t, p) = ReplyReadRegisters(t, p)
  <2> HIDE DEF p
  <2> QED BY <1>2, SMT DEF Reply
<1>11. table = IF p[1] = 4 THEN InputRegs ELSE t.regs
  BY <1>2
<1> HIDE DEF p, table
<1>12. CASE ~Legal(r)
  <2>1. CASE nb < 1
    <3>1. ReplyReadRegisters(t, p) = Rejected(t, p, IllegalValue)
      BY <2>1, <1>1, SMT DEF ReplyReadRegisters
    <3>2. IllegalValue \in Nat
      BY DEF IllegalValue
    <3> QED BY <3>1, <3>2, <1>2, <1>10, <1>12, RefusalFits, Zenon DEF p
  <2>2. CASE nb >= 1
    <3>1. nb \in 1..MaxReadRegisters /\ ~(Span(r.addr, nb) \subseteq DOMAIN table)
      BY <2>2, <1>12, <1>4, <1>5, <1>6
    <3>2. ReplyReadRegisters(t, p) = Refused(t, p, IllegalAddress)
      BY <3>1, <1>1, <1>11, SMT DEF ReplyReadRegisters
    <3>3. IllegalAddress \in Nat
      BY DEF IllegalAddress
    <3> QED BY <3>2, <3>3, <1>2, <1>10, <1>12, RefusalFits, Zenon DEF p
  <2> QED BY <2>1, <2>2, <1>5
<1>13. CASE Legal(r)
  <2>1. nb \in 1..MaxReadRegisters /\ Span(r.addr, nb) \subseteq DOMAIN table
    BY <1>13, <1>4, <1>5, <1>6
  <2>2. v \in Seq(Word16) /\ Len(v) = nb
    <3>1. IsRow(v, Word16, nb)
      BY <1>3, <1>5, <2>1, FromIs, Zenon
    <3> QED BY <3>1, Zenon DEF IsRow
  <2>3. Reply(t, p) = Answered(t, q)
    <3>1. ReplyReadRegisters(t, p) = Answered(t, Listed(p[1], 2 * nb, u))
      BY <2>1, <1>1, <1>11, SMT DEF ReplyReadRegisters
    <3> QED BY <3>1, <1>2, <1>10, Zenon
  <2> HIDE DEF v
  <2>w. v \in Seq(Nat)
    BY <2>2, SeqOfWords
  <2>4. u \in Seq(Nat) /\ Len(u) = 2 * nb /\ 2 * nb \in Nat
    <3>1. u \in Seq(Nat) /\ Len(u) = 2 * Len(v)
      BY <2>w, WordsIs, Zenon
    <3>2. 2 * nb \in Nat
      BY <1>5
    <3> QED BY <2>2, <3>1, <3>2, Zenon
  <2>5. IsListed(q, r.f, 2 * nb, u)
    <3> HIDE DEF u
    <3> QED BY <2>4, <1>5, ListedIs, Zenon
  <2> HIDE DEF q
  <2>6. UnpackWords(q, 3, nb) = v
    BY <2>2, <2>w, <2>5, ListedWords, Zenon
  <2> HIDE DEF u
  <2>7. IsAnswer(q, r.f)
    <3>1. r.f \in {1, 2, 3, 4, 17, 23}
      OBVIOUS
    <3> QED BY <2>4, <2>5, <3>1, ListedSize, Zenon
  <2>8. Values(r, q) = Gets(r, t)
    BY <1>8, <1>9, <2>6, Zenon
  <2> QED BY <1>7, <1>13, <2>3, <2>7, <2>8, AnsweredFits, Zenon DEF p
<1> QED BY <1>12, <1>13, Zenon DEF p

-----------------------------------------------------------------------------
(* Writing                                                                 *)

LEMMA WroteIs ==
  ASSUME NEW D, NEW R, NEW table \in [D -> R], NEW a \in Nat, NEW v \in Seq(R),
         D \subseteq Nat
  PROVE  Wrote(table, a, v) \in [D -> R]
<1>1. ASSUME NEW x \in D, x \in Span(a, Len(v)) PROVE v[x - a + 1] \in R
  <2>1. x \in Nat /\ Len(v) \in Nat
    OBVIOUS
  <2>2. x - a + 1 \in 1..Len(v)
    BY <1>1, <2>1 DEF Span
  <2> QED BY <2>2
<1>2. \A x \in D : (IF x \in Span(a, Len(v)) THEN v[x - a + 1] ELSE table[x]) \in R
  BY <1>1
<1> QED BY <1>2 DEF Wrote

\* One value written.
OneWritten(table, a, v) == Wrote(table, a, v) = [table EXCEPT ![a] = v[1]]

LEMMA WroteOne ==
  ASSUME NEW D, NEW R, NEW table \in [D -> R], NEW a \in D, NEW v \in Seq(R),
         D \subseteq Nat, Len(v) = 1
  PROVE  OneWritten(table, a, v)
<1>1. ASSUME NEW x \in D PROVE x \in Span(a, Len(v)) <=> x = a
  <2>1. x \in Nat /\ a \in Nat
    OBVIOUS
  <2> QED BY <2>1 DEF Span
<1>2. \A x \in D : x = a => x - a + 1 = 1
  OBVIOUS
<1>3. \A x \in D : (IF x \in Span(a, Len(v)) THEN v[x - a + 1] ELSE table[x])
                   = IF x = a THEN v[1] ELSE table[x]
  BY <1>1, <1>2
<1>4. DOMAIN table = D
  OBVIOUS
<1>5. Wrote(table, a, v) = [x \in D |-> IF x = a THEN v[1] ELSE table[x]]
  BY <1>3, <1>4, Zenon DEF Wrote
<1>6. [table EXCEPT ![a] = v[1]] = [x \in D |-> IF x = a THEN v[1] ELSE table[x]]
  OBVIOUS
<1> QED BY <1>5, <1>6, Zenon DEF OneWritten

IsPut(u, bits, regs) == u \in Tables /\ u.bits = bits /\ u.regs = regs

LEMMA PutBitsIs ==
  ASSUME NEW t \in Tables, NEW a \in Nat, NEW v \in Seq({0, 1}), Bits \subseteq Nat
  PROVE  IsPut(PutBits(t, a, v), Wrote(t.bits, a, v), t.regs)
<1>1. t.bits \in [Bits -> {0, 1}]
  BY DEF Tables
<1> DEFINE w == Wrote(t.bits, a, v)
<1>2. w \in [Bits -> {0, 1}]
  BY <1>1, WroteIs, Zenon
<1>3. PutBits(t, a, v) = [t EXCEPT !.bits = w]
  BY DEF PutBits
<1> HIDE DEF w
<1>4. IsPut(PutBits(t, a, v), w, t.regs)
  BY <1>2, <1>3 DEF IsPut, Tables
<1> QED BY <1>4 DEF w

LEMMA PutRegsIs ==
  ASSUME NEW t \in Tables, NEW a \in Nat, NEW v \in Seq(Word16), Regs \subseteq Nat
  PROVE  IsPut(PutRegs(t, a, v), t.bits, Wrote(t.regs, a, v))
<1>1. t.regs \in [Regs -> Word16]
  BY DEF Tables
<1> DEFINE w == Wrote(t.regs, a, v)
<1>2. w \in [Regs -> Word16]
  BY <1>1, WroteIs, Zenon
<1>3. PutRegs(t, a, v) = [t EXCEPT !.regs = w]
  BY DEF PutRegs
<1> HIDE DEF w
<1>4. IsPut(PutRegs(t, a, v), t.bits, w)
  BY <1>2, <1>3 DEF IsPut, Tables
<1> QED BY <1>4 DEF w

\* An answer that is the request, or the head of it.
LEMMA EchoIs ==
  ASSUME NEW p \in Seq(Nat), NEW f, p[1] = f, p # <<>>,
         \/ f \in {5, 6} /\ Len(p) = 5
         \/ f = 22 /\ Len(p) = 7
  PROVE  IsAnswer(p, f)
<1>1. AnswerSize(p) = Len(p)
  BY AnswerSizes
<1> QED BY <1>1, Zenon DEF IsAnswer

LEMMA HeadIs ==
  ASSUME NEW p \in Seq(Nat), NEW f \in {15, 16}, p[1] = f, Len(p) >= 6
  PROVE  IsAnswer(SubSeq(p, 1, 5), f)
<1> DEFINE q == SubSeq(p, 1, 5)
<1>1. q \in Seq(Nat) /\ Len(q) = 5 /\ q[1] = f
  <2>1. \A i \in 1..5 : p[i] \in Nat
    OBVIOUS
  <2>2. /\ q \in Seq(Nat) /\ Len(q) = IF 1 <= 5 THEN 5 - 1 + 1 ELSE 0
        /\ \A i \in 1..5 - 1 + 1 : q[i] = p[1 + i - 1]
    BY <2>1, SubSeqProperties
  <2> HIDE DEF q
  <2>3. q[1] = p[1 + 1 - 1]
    BY <2>2
  <2> QED BY <2>2, <2>3
<1> HIDE DEF q
<1>2. q # <<>>
  <2>1. 5 # 0
    OBVIOUS
  <2> QED BY <1>1, <2>1, NotEmpty, Zenon
<1>3. AnswerSize(q) = 5
  BY <1>1, <1>2, AnswerSizes
<1> QED BY <1>1, <1>2, <1>3, Zenon DEF IsAnswer, q

LEMMA Codes ==
  IllegalFunction \in Nat /\ IllegalAddress \in Nat /\ IllegalValue \in Nat
  BY DEF IllegalFunction, IllegalAddress, IllegalValue

LEMMA WriteCoilFits ==
  ASSUME NEW r, WellFormed(r), NEW t \in Tables, r.f = 5, Bits \subseteq Nat
  PROVE  Fits(r, t, Reply(t, Pdu(r)))
<1> DEFINE p == Pdu(r)
           a == r.addr
           d == On * r.vals[1]
           v == r.vals
<1>1. Whole(r) /\ Word(p, 2) = a /\ Word(p, 4) = d /\ Len(p) = 5
  BY SingleSent
<1>2. p[1] = r.f /\ p \in Seq(Nat) /\ p # <<>>
  BY <1>1 DEF Whole
<1>3. Legal(r) <=> a \in Bits
  BY DEF Legal
<1>4. v \in Seq({0, 1}) /\ Len(v) = 1 /\ a \in Nat
  BY FormIs
<1>5. v[1] \in {0, 1}
  BY <1>4
<1>6. Values(r, p) = Gets(r, PutBits(t, a, v))
  BY SMT DEF Values, Gets
<1>7. IsPut(PutBits(t, a, v), Wrote(t.bits, a, v), t.regs)
  BY <1>4, PutBitsIs, Zenon
<1> HIDE DEF p, v
<1>8. Reply(t, p) = ReplyWriteCoil(t, p)
  BY <1>2, SMT DEF Reply
<1>9. CASE ~Legal(r)
  <2>1. ReplyWriteCoil(t, p) = Refused(t, p, IllegalAddress)
    BY <1>1, <1>3, <1>9, SMT DEF ReplyWriteCoil
  <2> QED BY <2>1, <1>2, <1>8, <1>9, Codes, RefusalFits, Zenon DEF p
<1>10. CASE Legal(r)
  <2>1. d \in {On, 0} /\ (IF d = 0 THEN 0 ELSE 1) = v[1]
    BY <1>5 DEF On, v
  <2> HIDE DEF d
  <2>2. ReplyWriteCoil(t, p) = Answered([t EXCEPT !.bits[a] = v[1]], p)
    BY <1>1, <1>3, <1>10, <2>1, SMT DEF ReplyWriteCoil
  <2>3. [t EXCEPT !.bits[a] = v[1]] = PutBits(t, a, v)
    <3>1. t.bits \in [Bits -> {0, 1}]
      BY DEF Tables
    <3>2. a \in Bits
      BY <1>3, <1>10
    <3>3. OneWritten(t.bits, a, v)
      BY <3>1, <3>2, <1>4, WroteOne, Zenon
    <3> QED BY <3>3, Zenon DEF PutBits, OneWritten
  <2>4. Means(r, t, PutBits(t, a, v))
    BY <1>7, <1>10 DEF Means, IsPut, v
  <2>5. PutBits(t, a, v) \in Tables
    BY <1>7, Zenon DEF IsPut
  <2>6. IsAnswer(p, r.f)
    BY <1>1, <1>2, EchoIs
  <2>7. Fits(r, t, Answered(PutBits(t, a, v), p))
    BY <1>6, <1>10, <2>4, <2>5, <2>6, AnsweredFits, Zenon
  <2> QED BY <1>8, <2>2, <2>3, <2>7, Zenon DEF p
<1> QED BY <1>9, <1>10, Zenon DEF p

LEMMA WriteRegisterFits ==
  ASSUME NEW r, WellFormed(r), NEW t \in Tables, r.f = 6, Regs \subseteq Nat
  PROVE  Fits(r, t, Reply(t, Pdu(r)))
<1> DEFINE p == Pdu(r)
           a == r.addr
           v == r.vals
<1>1. Whole(r) /\ Word(p, 2) = a /\ Word(p, 4) = v[1] /\ Len(p) = 5
  BY SingleSent
<1>2. p[1] = r.f /\ p \in Seq(Nat) /\ p # <<>>
  BY <1>1 DEF Whole
<1>3. Legal(r) <=> a \in Regs
  BY DEF Legal
<1>4. v \in Seq(Word16) /\ Len(v) = 1 /\ a \in Nat
  BY FormIs
<1>6. Values(r, p) = Gets(r, PutRegs(t, a, v))
  BY SMT DEF Values, Gets
<1>7. IsPut(PutRegs(t, a, v), t.bits, Wrote(t.regs, a, v))
  BY <1>4, PutRegsIs, Zenon
<1> HIDE DEF p, v
<1>8. Reply(t, p) = ReplyWriteRegister(t, p)
  BY <1>2, SMT DEF Reply
<1>9. CASE ~Legal(r)
  <2>1. ReplyWriteRegister(t, p) = Refused(t, p, IllegalAddress)
    BY <1>1, <1>3, <1>9, SMT DEF ReplyWriteRegister
  <2> QED BY <2>1, <1>2, <1>8, <1>9, Codes, RefusalFits, Zenon DEF p
<1>10. CASE Legal(r)
  <2>2. ReplyWriteRegister(t, p) = Answered([t EXCEPT !.regs[a] = v[1]], p)
    BY <1>1, <1>3, <1>10, SMT DEF ReplyWriteRegister
  <2>3. [t EXCEPT !.regs[a] = v[1]] = PutRegs(t, a, v)
    <3>1. t.regs \in [Regs -> Word16]
      BY DEF Tables
    <3>2. a \in Regs
      BY <1>3, <1>10
    <3>3. OneWritten(t.regs, a, v)
      BY <3>1, <3>2, <1>4, WroteOne, Zenon
    <3> QED BY <3>3, Zenon DEF PutRegs, OneWritten
  <2>4. Means(r, t, PutRegs(t, a, v))
    BY <1>7, <1>10 DEF Means, IsPut, v
  <2>5. PutRegs(t, a, v) \in Tables
    BY <1>7, Zenon DEF IsPut
  <2>6. IsAnswer(p, r.f)
    BY <1>1, <1>2, EchoIs
  <2>7. Fits(r, t, Answered(PutRegs(t, a, v), p))
    BY <1>6, <1>10, <2>4, <2>5, <2>6, AnsweredFits, Zenon
  <2> QED BY <1>8, <2>2, <2>3, <2>7, Zenon DEF p
<1> QED BY <1>9, <1>10, Zenon DEF p

LEMMA WriteBitsFits ==
  ASSUME NEW r, WellFormed(r), Within(r), NEW t \in Tables, r.f = 15,
         Bits \subseteq Nat
  PROVE  Fits(r, t, Reply(t, Pdu(r)))
<1> DEFINE p == Pdu(r)
           a == r.addr
           v == r.vals
           nb == r.nb
           u == PutBits(t, a, v)
           q == SubSeq(p, 1, 5)
<1>1. /\ Whole(r) /\ Word(p, 2) = a /\ Word(p, 4) = nb
      /\ p[6] = BytesFor(nb) /\ Len(p) >= 6
      /\ \A k \in 1..BytesFor(nb) : p[6 + k] = Pack(v)[k]
      /\ v \in Seq({0, 1}) /\ Len(v) = nb
  BY BitsSent
<1>2. p[1] = r.f /\ p \in Seq(Nat)
  BY <1>1 DEF Whole
<1>3. Legal(r) <=> nb >= 1 /\ Span(a, nb) \subseteq Bits
  BY DEF Legal
<1>4. a \in Nat /\ nb \in Nat /\ nb <= MaxWriteBits /\ MaxWriteBits \in Nat
  BY FormIs DEF Within, MaxWriteBits
<1>5. Values(r, q) = Gets(r, u)
  BY SMT DEF Values, Gets
<1>6. IsPut(u, Wrote(t.bits, a, v), t.regs)
  BY <1>1, <1>4, PutBitsIs, Zenon
<1>7. Unpack(p, 7, nb) = v
  <2>1. Len(Pack(v)) = BytesFor(nb)
    BY <1>1, PackIs
  <2>2. Holds(p, 6, Pack(v))
    BY <2>1, <1>1, Zenon DEF Holds
  <2>3. 6 \in Nat /\ 7 = 6 + 1
    OBVIOUS
  <2>4. Unpack(p, 7, Len(v)) = v
    BY <1>1, <2>2, <2>3, UnpackIs, Zenon
  <2> QED BY <1>1, <2>4, Zenon
<1>8. p[6] * 8 >= nb
  <2>1. BytesFor(nb) \in Nat /\ 8 * BytesFor(nb) >= nb
    BY <1>4, BytesForIs, Zenon
  <2>2. p[6] = BytesFor(nb)
    BY <1>1, Zenon
  <2> QED BY <1>4, <2>1, <2>2
<1> HIDE DEF p, v, nb, u, q
<1>9. Reply(t, p) = ReplyWriteBits(t, p)
  BY <1>2, SMT DEF Reply
<1>10. CASE ~Legal(r)
  <2>1. CASE nb < 1
    <3>1. nb \notin 1..MaxWriteBits
      BY <2>1
    <3>2. ReplyWriteBits(t, p) = Rejected(t, p, IllegalValue)
      BY <3>1, <1>1, SMT DEF ReplyWriteBits
    <3> QED BY <3>2, <1>2, <1>9, <1>10, Codes, RefusalFits, Zenon DEF p
  <2>2. CASE nb >= 1
    <3>1. nb \in 1..MaxWriteBits /\ ~(Span(a, nb) \subseteq Bits)
      BY <2>2, <1>10, <1>3, <1>4
    <3>2. ReplyWriteBits(t, p) = Refused(t, p, IllegalAddress)
      BY <3>1, <1>1, <1>8, SMT DEF ReplyWriteBits
    <3> QED BY <3>2, <1>2, <1>9, <1>10, Codes, RefusalFits, Zenon DEF p
  <2> QED BY <2>1, <2>2, <1>4
<1>11. CASE Legal(r)
  <2>1. nb \in 1..MaxWriteBits /\ Span(a, nb) \subseteq Bits
    BY <1>11, <1>3, <1>4
  <2>2. Reply(t, p) = Answered(u, q)
    <3>1. ReplyWriteBits(t, p) = Answered(PutBits(t, a, Unpack(p, 7, nb)), SubSeq(p, 1, 5))
      BY <2>1, <1>1, <1>8, SMT DEF ReplyWriteBits
    <3> QED BY <3>1, <1>7, <1>9, Zenon DEF u, q
  <2>3. Means(r, t, u)
    BY <1>6, <1>11 DEF Means, IsPut, v
  <2>4. u \in Tables
    BY <1>6, Zenon DEF IsPut
  <2>5. IsAnswer(q, r.f)
    <3>1. r.f \in {15, 16}
      OBVIOUS
    <3> QED BY <1>1, <1>2, <3>1, HeadIs, Zenon DEF q
  <2>6. Fits(r, t, Answered(u, q))
    BY <1>5, <1>11, <2>3, <2>4, <2>5, AnsweredFits, Zenon
  <2> QED BY <2>2, <2>6, Zenon DEF p
<1> QED BY <1>10, <1>11, Zenon DEF p

LEMMA WriteRegistersFits ==
  ASSUME NEW r, WellFormed(r), Within(r), NEW t \in Tables, r.f = 16,
         Regs \subseteq Nat
  PROVE  Fits(r, t, Reply(t, Pdu(r)))
<1> DEFINE p == Pdu(r)
           a == r.addr
           v == r.vals
           nb == r.nb
           u == PutRegs(t, a, v)
           q == SubSeq(p, 1, 5)
<1>1. /\ Whole(r) /\ Word(p, 2) = a /\ Word(p, 4) = nb
      /\ p[6] = 2 * nb /\ Len(p) >= 6 /\ UnpackWords(p, 7, nb) = v
      /\ v \in Seq(Word16) /\ Len(v) = nb
  BY RegistersSent
<1>2. p[1] = r.f /\ p \in Seq(Nat)
  BY <1>1 DEF Whole
<1>3. Legal(r) <=> nb >= 1 /\ Span(a, nb) \subseteq Regs
  BY DEF Legal
<1>4. a \in Nat /\ nb \in Nat /\ nb <= MaxWriteRegisters /\ MaxWriteRegisters \in Nat
  BY FormIs DEF Within, MaxWriteRegisters
<1>5. Values(r, q) = Gets(r, u)
  BY SMT DEF Values, Gets
<1>6. IsPut(u, t.bits, Wrote(t.regs, a, v))
  BY <1>1, <1>4, PutRegsIs, Zenon
<1> HIDE DEF p, v, nb, u, q
<1>9. Reply(t, p) = ReplyWriteRegisters(t, p)
  BY <1>2, SMT DEF Reply
<1>10. CASE ~Legal(r)
  <2>1. CASE nb < 1
    <3>1. nb \notin 1..MaxWriteRegisters
      BY <2>1
    <3>2. ReplyWriteRegisters(t, p) = Rejected(t, p, IllegalValue)
      BY <3>1, <1>1, SMT DEF ReplyWriteRegisters
    <3> QED BY <3>2, <1>2, <1>9, <1>10, Codes, RefusalFits, Zenon DEF p
  <2>2. CASE nb >= 1
    <3>1. nb \in 1..MaxWriteRegisters /\ ~(Span(a, nb) \subseteq Regs)
      BY <2>2, <1>10, <1>3, <1>4
    <3>2. ReplyWriteRegisters(t, p) = Refused(t, p, IllegalAddress)
      BY <3>1, <1>1, SMT DEF ReplyWriteRegisters
    <3> QED BY <3>2, <1>2, <1>9, <1>10, Codes, RefusalFits, Zenon DEF p
  <2> QED BY <2>1, <2>2, <1>4
<1>11. CASE Legal(r)
  <2>1. nb \in 1..MaxWriteRegisters /\ Span(a, nb) \subseteq Regs
    BY <1>11, <1>3, <1>4
  <2>2. Reply(t, p) = Answered(u, q)
    <3>1. ReplyWriteRegisters(t, p)
            = Answered(PutRegs(t, a, UnpackWords(p, 7, nb)), SubSeq(p, 1, 5))
      BY <2>1, <1>1, SMT DEF ReplyWriteRegisters
    <3> QED BY <3>1, <1>1, <1>9, Zenon DEF u, q
  <2>3. Means(r, t, u)
    BY <1>6, <1>11 DEF Means, IsPut, v
  <2>4. u \in Tables
    BY <1>6, Zenon DEF IsPut
  <2>5. IsAnswer(q, r.f)
    <3>1. r.f \in {15, 16}
      OBVIOUS
    <3> QED BY <1>1, <1>2, <3>1, HeadIs, Zenon DEF q
  <2>6. Fits(r, t, Answered(u, q))
    BY <1>5, <1>11, <2>3, <2>4, <2>5, AnsweredFits, Zenon
  <2> QED BY <2>2, <2>6, Zenon DEF p
<1> QED BY <1>10, <1>11, Zenon DEF p

LEMMA SlaveIdFits ==
  ASSUME NEW r, WellFormed(r), NEW t \in Tables, r.f = 17
  PROVE  Fits(r, t, Reply(t, Pdu(r)))
<1> DEFINE p == Pdu(r)
           s == SlaveId
           n == Len(s)
           q == Listed(17, n, s)
<1>1. p[1] = 17
  BY SlaveIdSent DEF Whole
<1>2. s \in Seq(Nat) /\ Len(s) = 5 /\ n \in Nat /\ n = 5
  BY DEF SlaveId
<1>3. Legal(r)
  BY DEF Legal
<1>4. Means(r, t, t)
  BY SMT DEF Means
<1>5. Gets(r, t) = s
  BY SMT DEF Gets
<1> HIDE DEF p, s, n
<1>7. IsListed(q, 17, n, s)
  <2>1. 17 \in Nat
    OBVIOUS
  <2> QED BY <1>2, <2>1, ListedIs, Zenon
<1> HIDE DEF q
<1>6. Values(r, q) = CountedBytes(q)
  BY SMT DEF Values
<1>8. Reply(t, p) = Answered(t, q)
  <2>1. Reply(t, p) = ReplySlaveId(t)
    BY <1>1, SMT DEF Reply
  <2> QED BY <2>1, Zenon DEF ReplySlaveId, q, n, s
<1>9. IsAnswer(q, r.f)
  <2>1. r.f \in {1, 2, 3, 4, 17, 23} /\ Len(s) = n
    BY DEF n
  <2> QED BY <1>7, <2>1, ListedSize, Zenon
<1>10. CountedBytes(q) = s
  <2>1. q \in Seq(Nat) /\ Len(q) = 2 + Len(s) /\ q[2] = n /\ Holds(q, 2, s)
    BY <1>7, Zenon DEF IsListed
  <2>2. 3 \in Int /\ 7 \in Int /\ 2 + q[2] = 7 /\ Len(q) = 7
    BY <2>1, <1>2
  <2>3. ASSUME NEW i \in 3..7 PROVE q[i] \in Nat
    <3>1. i \in 1..Len(q)
      BY <2>2
    <3> QED BY <2>1, <3>1
  <2>4. /\ SubSeq(q, 3, 7) \in Seq(Nat)
        /\ Len(SubSeq(q, 3, 7)) = IF 3 <= 7 THEN 7 - 3 + 1 ELSE 0
        /\ \A i \in 1..7 - 3 + 1 : SubSeq(q, 3, 7)[i] = q[3 + i - 1]
    BY <2>2, <2>3, SubSeqProperties
  <2> DEFINE w == SubSeq(q, 3, 7)
  <2> HIDE DEF w
  <2>5. /\ w \in Seq(Nat) /\ Len(w) = 5
        /\ \A i \in 1..5 : w[i] = q[2 + i]
    <3>1. /\ w \in Seq(Nat) /\ Len(w) = IF 3 <= 7 THEN 7 - 3 + 1 ELSE 0
          /\ \A i \in 1..7 - 3 + 1 : w[i] = q[3 + i - 1]
      BY <2>4 DEF w
    <3> QED BY <3>1
  <2>6. \A i \in 1..5 : w[i] = s[i]
    BY <2>1, <2>5, <1>2 DEF Holds
  <2>7. w = s
    BY <2>5, <2>6, <1>2, SeqEqual
  <2> QED BY <2>2, <2>7, Zenon DEF w, CountedBytes
<1>11. Values(r, q) = Gets(r, t)
  BY <1>5, <1>6, <1>10, Zenon
<1>12. Fits(r, t, Answered(t, q))
  BY <1>3, <1>4, <1>9, <1>11, AnsweredFits, Zenon
<1> QED BY <1>8, <1>12, Zenon DEF p

-----------------------------------------------------------------------------
(* Masked writing                                                          *)

\* Bit i of a word is that of one of its bytes.
BitsOf(x, b, c) ==
  \A i \in 0..7 : /\ BitOf(x, i) = BitOf(b, i)
                  /\ BitOf(x, 8 + i) = BitOf(c, i)

LEMMA EachBit ==
  ASSUME NEW x, NEW b, NEW c,
         BitOf(x, 0) = BitOf(b, 0), BitOf(x, 1) = BitOf(b, 1),
         BitOf(x, 2) = BitOf(b, 2), BitOf(x, 3) = BitOf(b, 3),
         BitOf(x, 4) = BitOf(b, 4), BitOf(x, 5) = BitOf(b, 5),
         BitOf(x, 6) = BitOf(b, 6), BitOf(x, 7) = BitOf(b, 7),
         BitOf(x, 8 + 0) = BitOf(c, 0), BitOf(x, 8 + 1) = BitOf(c, 1),
         BitOf(x, 8 + 2) = BitOf(c, 2), BitOf(x, 8 + 3) = BitOf(c, 3),
         BitOf(x, 8 + 4) = BitOf(c, 4), BitOf(x, 8 + 5) = BitOf(c, 5),
         BitOf(x, 8 + 6) = BitOf(c, 6), BitOf(x, 8 + 7) = BitOf(c, 7)
  PROVE  BitsOf(x, b, c)
<1>1. \A i \in {0, 1, 2, 3, 4, 5, 6, 7} : BitOf(x, i) = BitOf(b, i)
  BY Zenon
<1>2. \A i \in {0, 1, 2, 3, 4, 5, 6, 7} : BitOf(x, 8 + i) = BitOf(c, i)
  BY Zenon
<1>3. \A i \in 0..7 : i \in {0, 1, 2, 3, 4, 5, 6, 7}
  BY SMT
<1> QED BY <1>1, <1>2, <1>3, SMTT(20) DEF BitsOf

LEMMA ByteBits ==
  ASSUME NEW b \in Byte, NEW c \in Byte, NEW x, x = b + 256 * c
  PROVE  x \in Word16 /\ BitsOf(x, b, c)
<1>2. b \in Nat /\ c \in Nat /\ x \in Nat /\ b <= 255 /\ c <= 255
  BY SMT DEF Byte
<1>1. x \in Word16
  <2>1. x <= MaxWord
    BY <1>2, SMT DEF MaxWord
  <2> QED BY <1>2, <2>1, InWord
<1>a0. BitOf(x, 0) = BitOf(b, 0)
  <2>1. x \div 2^0 = b \div 2^0 + 256 * c
    BY SMT DEF Byte
  <2>2. b \div 2^0 \in Nat
    BY <1>2, SMT
  <2> QED BY <1>2, <2>1, <2>2, SMT DEF BitOf
<1>a1. BitOf(x, 1) = BitOf(b, 1)
  <2>1. x \div 2^1 = b \div 2^1 + 128 * c
    BY SMT DEF Byte
  <2>2. b \div 2^1 \in Nat
    BY <1>2, SMT
  <2> QED BY <1>2, <2>1, <2>2, SMT DEF BitOf
<1>a2. BitOf(x, 2) = BitOf(b, 2)
  <2>1. x \div 2^2 = b \div 2^2 + 64 * c
    BY SMT DEF Byte
  <2>2. b \div 2^2 \in Nat
    BY <1>2, SMT
  <2> QED BY <1>2, <2>1, <2>2, SMT DEF BitOf
<1>a3. BitOf(x, 3) = BitOf(b, 3)
  <2>1. x \div 2^3 = b \div 2^3 + 32 * c
    BY SMT DEF Byte
  <2>2. b \div 2^3 \in Nat
    BY <1>2, SMT
  <2> QED BY <1>2, <2>1, <2>2, SMT DEF BitOf
<1>a4. BitOf(x, 4) = BitOf(b, 4)
  <2>1. x \div 2^4 = b \div 2^4 + 16 * c
    BY SMT DEF Byte
  <2>2. b \div 2^4 \in Nat
    BY <1>2, SMT
  <2> QED BY <1>2, <2>1, <2>2, SMT DEF BitOf
<1>a5. BitOf(x, 5) = BitOf(b, 5)
  <2>1. x \div 2^5 = b \div 2^5 + 8 * c
    BY SMT DEF Byte
  <2>2. b \div 2^5 \in Nat
    BY <1>2, SMT
  <2> QED BY <1>2, <2>1, <2>2, SMT DEF BitOf
<1>a6. BitOf(x, 6) = BitOf(b, 6)
  <2>1. x \div 2^6 = b \div 2^6 + 4 * c
    BY SMT DEF Byte
  <2>2. b \div 2^6 \in Nat
    BY <1>2, SMT
  <2> QED BY <1>2, <2>1, <2>2, SMT DEF BitOf
<1>a7. BitOf(x, 7) = BitOf(b, 7)
  <2>1. x \div 2^7 = b \div 2^7 + 2 * c
    BY SMT DEF Byte
  <2>2. b \div 2^7 \in Nat
    BY <1>2, SMT
  <2> QED BY <1>2, <2>1, <2>2, SMT DEF BitOf
<1>b0. BitOf(x, 8 + 0) = BitOf(c, 0)
  <2>1. x \div 2^(8 + 0) = c \div 2^0
    BY SMT DEF Byte
  <2> QED BY <2>1, Zenon DEF BitOf
<1>b1. BitOf(x, 8 + 1) = BitOf(c, 1)
  <2>1. x \div 2^(8 + 1) = c \div 2^1
    BY SMT DEF Byte
  <2> QED BY <2>1, Zenon DEF BitOf
<1>b2. BitOf(x, 8 + 2) = BitOf(c, 2)
  <2>1. x \div 2^(8 + 2) = c \div 2^2
    BY SMT DEF Byte
  <2> QED BY <2>1, Zenon DEF BitOf
<1>b3. BitOf(x, 8 + 3) = BitOf(c, 3)
  <2>1. x \div 2^(8 + 3) = c \div 2^3
    BY SMT DEF Byte
  <2> QED BY <2>1, Zenon DEF BitOf
<1>b4. BitOf(x, 8 + 4) = BitOf(c, 4)
  <2>1. x \div 2^(8 + 4) = c \div 2^4
    BY SMT DEF Byte
  <2> QED BY <2>1, Zenon DEF BitOf
<1>b5. BitOf(x, 8 + 5) = BitOf(c, 5)
  <2>1. x \div 2^(8 + 5) = c \div 2^5
    BY SMT DEF Byte
  <2> QED BY <2>1, Zenon DEF BitOf
<1>b6. BitOf(x, 8 + 6) = BitOf(c, 6)
  <2>1. x \div 2^(8 + 6) = c \div 2^6
    BY SMT DEF Byte
  <2> QED BY <2>1, Zenon DEF BitOf
<1>b7. BitOf(x, 8 + 7) = BitOf(c, 7)
  <2>1. x \div 2^(8 + 7) = c \div 2^7
    BY SMT DEF Byte
  <2> QED BY <2>1, Zenon DEF BitOf
<1> QED BY <1>1, EachBit, <1>a0, <1>a1, <1>a2, <1>a3, <1>a4, <1>a5, <1>a6, <1>a7,
            <1>b0, <1>b1, <1>b2, <1>b3, <1>b4, <1>b5, <1>b6, <1>b7

LEMMA BitIs ==
  ASSUME NEW b \in Byte, NEW i \in 0..7
  PROVE  BitOf(b, i) \in {0, 1}
<1>1. b \in Nat
  BY SMT DEF Byte
<1>2. i = 0 \/ i = 1 \/ i = 2 \/ i = 3 \/ i = 4 \/ i = 5 \/ i = 6 \/ i = 7
  BY SMT
<1>a0. CASE i = 0
  <2>1. b \div 2^0 \in Nat
    BY <1>1, SMT
  <2>2. (b \div 2^0) % 2 \in {0, 1}
    BY <2>1, SMT
  <2> QED BY <2>2, <1>a0, Zenon DEF BitOf
<1>a1. CASE i = 1
  <2>1. b \div 2^1 \in Nat
    BY <1>1, SMT
  <2>2. (b \div 2^1) % 2 \in {0, 1}
    BY <2>1, SMT
  <2> QED BY <2>2, <1>a1, Zenon DEF BitOf
<1>a2. CASE i = 2
  <2>1. b \div 2^2 \in Nat
    BY <1>1, SMT
  <2>2. (b \div 2^2) % 2 \in {0, 1}
    BY <2>1, SMT
  <2> QED BY <2>2, <1>a2, Zenon DEF BitOf
<1>a3. CASE i = 3
  <2>1. b \div 2^3 \in Nat
    BY <1>1, SMT
  <2>2. (b \div 2^3) % 2 \in {0, 1}
    BY <2>1, SMT
  <2> QED BY <2>2, <1>a3, Zenon DEF BitOf
<1>a4. CASE i = 4
  <2>1. b \div 2^4 \in Nat
    BY <1>1, SMT
  <2>2. (b \div 2^4) % 2 \in {0, 1}
    BY <2>1, SMT
  <2> QED BY <2>2, <1>a4, Zenon DEF BitOf
<1>a5. CASE i = 5
  <2>1. b \div 2^5 \in Nat
    BY <1>1, SMT
  <2>2. (b \div 2^5) % 2 \in {0, 1}
    BY <2>1, SMT
  <2> QED BY <2>2, <1>a5, Zenon DEF BitOf
<1>a6. CASE i = 6
  <2>1. b \div 2^6 \in Nat
    BY <1>1, SMT
  <2>2. (b \div 2^6) % 2 \in {0, 1}
    BY <2>1, SMT
  <2> QED BY <2>2, <1>a6, Zenon DEF BitOf
<1>a7. CASE i = 7
  <2>1. b \div 2^7 \in Nat
    BY <1>1, SMT
  <2>2. (b \div 2^7) % 2 \in {0, 1}
    BY <2>1, SMT
  <2> QED BY <2>2, <1>a7, Zenon DEF BitOf
<1> QED BY <1>2, <1>a0, <1>a1, <1>a2, <1>a3, <1>a4, <1>a5, <1>a6, <1>a7, Zenon

LEMMA BitInWord ==
  ASSUME NEW x, NEW p, BitsOf(x, p[1], p[2]), NEW k \in 1..16
  PROVE  BitIn(p, k) = BitOf(x, k - 1)
<1> DEFINE i == (k - 1) % 8
<1>1. i \in 0..7
  OBVIOUS
<1>2. CASE (k - 1) \div 8 = 0
  <2>1. 1 + (k - 1) \div 8 = 1 /\ k - 1 = i
    BY <1>2
  <2> HIDE DEF i
  <2>2. BitOf(x, i) = BitOf(p[1], i)
    BY <1>1, Zenon DEF BitsOf
  <2> QED BY <2>1, <2>2, Zenon DEF BitIn, i
<1>3. CASE (k - 1) \div 8 = 1
  <2>1. 1 + (k - 1) \div 8 = 2 /\ k - 1 = 8 + i
    BY <1>3
  <2> HIDE DEF i
  <2>2. BitOf(x, 8 + i) = BitOf(p[2], i)
    BY <1>1, Zenon DEF BitsOf
  <2> QED BY <2>1, <2>2, Zenon DEF BitIn, i
<1>4. (k - 1) \div 8 = 0 \/ (k - 1) \div 8 = 1
  OBVIOUS
<1> QED BY <1>2, <1>3, <1>4

LEMMA WordBitsIs ==
  ASSUME NEW x \in Word16, NEW k \in 1..16
  PROVE  WordBits(x)[k] = BitOf(x, k - 1) /\ BitOf(x, k - 1) \in {0, 1}
<1> DEFINE b == x % 256
           c == x \div 256
           p == <<b, c>>
<1>1. x \in Nat /\ x <= MaxWord
  <2>1. MaxWord \in Nat
    BY DEF MaxWord
  <2> QED BY <2>1 DEF Word16
<1>2. b \in Byte /\ c \in Byte /\ x = b + 256 * c
  <2>1. c <= 255 /\ c \in Nat
    BY <1>1, SMT DEF MaxWord
  <2>2. b \in 0..255 /\ x = b + 256 * c
    BY <1>1, SMT
  <2> QED BY <2>1, <2>2, SMT DEF Byte
<1>3. p[1] = b /\ p[2] = c
  OBVIOUS
<1>4. WordBits(x)[k] = BitOf(p[1 + (k - 1) \div 8], (k - 1) % 8)
  BY DEF WordBits, Unpack
<1> HIDE DEF b, c, p
<1>5. BitsOf(x, b, c)
  BY <1>2, ByteBits, SMT
<1>6. BitsOf(x, p[1], p[2])
  BY <1>3, <1>5, Zenon
<1>7. WordBits(x)[k] = BitOf(x, k - 1)
  BY <1>4, <1>6, BitInWord, Zenon DEF BitIn
<1>8. BitIn(p, k) \in {0, 1}
  <2>1. 1 + (k - 1) \div 8 \in {1, 2} /\ (k - 1) % 8 \in 0..7
    BY SMT
  <2>2. p[1 + (k - 1) \div 8] \in Byte
    BY <2>1, <1>2, <1>3
  <2> QED BY <2>1, <2>2, BitIs, Zenon DEF BitIn
<1>9. BitIn(p, k) = BitOf(x, k - 1)
  BY <1>6, BitInWord, Zenon
<1> QED BY <1>7, <1>8, <1>9, Zenon

IsMaskedWord(m, d, and, or) ==
  /\ m \in Word16
  /\ \A k \in 1..16 : BitOf(m, k - 1) = IF BitOf(and, k - 1) = 1 THEN BitOf(d, k - 1)
                                        ELSE BitOf(or, k - 1)

LEMMA MaskedIs ==
  ASSUME NEW d \in Word16, NEW and \in Word16, NEW or \in Word16
  PROVE  IsMaskedWord(Masked(d, and, or), d, and, or)
<1> DEFINE bit(k) == IF WordBits(and)[k] = 1 THEN WordBits(d)[k] ELSE WordBits(or)[k]
           v == [k \in 1..16 |-> bit(k)]
           b == Pack(v)
           m == b[1] + 256 * b[2]
<1>1. ASSUME NEW k \in 1..16
      PROVE  /\ bit(k) = IF BitOf(and, k - 1) = 1 THEN BitOf(d, k - 1) ELSE BitOf(or, k - 1)
             /\ bit(k) \in {0, 1}
  <2>1. WordBits(d)[k] = BitOf(d, k - 1) /\ BitOf(d, k - 1) \in {0, 1}
    BY WordBitsIs, Zenon
  <2>2. WordBits(or)[k] = BitOf(or, k - 1) /\ BitOf(or, k - 1) \in {0, 1}
    BY WordBitsIs, Zenon
  <2>3. WordBits(and)[k] = BitOf(and, k - 1)
    BY WordBitsIs, Zenon
  <2> QED BY <2>1, <2>2, <2>3
<1> HIDE DEF bit
<1>2. v \in Seq({0, 1}) /\ Len(v) = 16 /\ \A k \in 1..16 : v[k] = bit(k)
  <2>1. v \in [1..16 -> {0, 1}]
    BY <1>1
  <2> QED BY <2>1
<1>3. Masked(d, and, or) = m
  BY DEF Masked, bit
<1> HIDE DEF v
<1>4. /\ b \in Seq(Byte) /\ Len(b) = BytesFor(16)
      /\ \A k \in 1..16 : BitIn(b, k) = v[k]
  <2>1. /\ b \in Seq(Byte) /\ Len(b) = BytesFor(Len(v))
        /\ \A k \in 1..Len(v) : BitIn(b, k) = v[k]
    BY <1>2, PackIs, Zenon
  <2> QED BY <1>2, <2>1, Zenon
<1> HIDE DEF b
<1>5. b[1] \in Byte /\ b[2] \in Byte
  <2>1. BytesFor(16) = 2
    BY DEF BytesFor
  <2> QED BY <1>4, <2>1
<1>6. m \in Word16 /\ BitsOf(m, b[1], b[2])
  BY <1>5, ByteBits
<1> HIDE DEF m
<1>7. ASSUME NEW k \in 1..16
      PROVE  BitOf(m, k - 1) = IF BitOf(and, k - 1) = 1 THEN BitOf(d, k - 1) ELSE BitOf(or, k - 1)
  <2>1. BitIn(b, k) = BitOf(m, k - 1)
    BY <1>6, BitInWord, Zenon
  <2> QED BY <2>1, <1>1, <1>2, <1>4, Zenon
<1>8. IsMaskedWord(m, d, and, or)
  BY <1>6, <1>7, Zenon DEF IsMaskedWord
<1> QED BY <1>3, <1>8, Zenon

LEMMA MaskFits ==
  ASSUME NEW r, WellFormed(r), NEW t \in Tables, r.f = 22, Regs \subseteq Nat
  PROVE  Fits(r, t, Reply(t, Pdu(r)))
<1> DEFINE p == Pdu(r)
           a == r.addr
           v == r.vals
           m == Masked(t.regs[a], v[1], v[2])
           u == [t EXCEPT !.regs[a] = m]
<1>1. /\ Whole(r) /\ Word(p, 2) = a /\ Len(p) = 7
      /\ Word(p, 4) = v[1] /\ Word(p, 6) = v[2]
      /\ v \in Seq(Word16) /\ Len(v) = 2
  BY MaskSent
<1>2. p[1] = r.f /\ p \in Seq(Nat) /\ p # <<>>
  BY <1>1 DEF Whole
<1>3. Legal(r) <=> a \in Regs
  BY DEF Legal
<1>4. v[1] \in Word16 /\ v[2] \in Word16
  BY <1>1
<1>5. Values(r, p) = Gets(r, u)
  BY SMT DEF Values, Gets
<1> HIDE DEF p
<1>6. Reply(t, p) = ReplyMaskWrite(t, p)
  BY <1>2, SMT DEF Reply
<1>7. CASE ~Legal(r)
  <2>1. ReplyMaskWrite(t, p) = Refused(t, p, IllegalAddress)
    BY <1>1, <1>3, <1>7, SMT DEF ReplyMaskWrite
  <2> QED BY <2>1, <1>2, <1>6, <1>7, Codes, RefusalFits, Zenon DEF p
<1>8. CASE Legal(r)
  <2>1. t.regs \in [Regs -> Word16] /\ t.bits \in [Bits -> {0, 1}]
    BY DEF Tables
  <2>2. a \in Regs /\ t.regs[a] \in Word16
    BY <1>3, <1>8, <2>1
  <2>3. IsMaskedWord(m, t.regs[a], v[1], v[2])
    BY <1>4, <2>2, MaskedIs, Zenon
  <2>4. ReplyMaskWrite(t, p) = Answered(u, p)
    <3>1. ReplyMaskWrite(t, p)
            = Answered([t EXCEPT !.regs[a] = Masked(@, v[1], v[2])], p)
      BY <1>1, <2>2, Zenon DEF ReplyMaskWrite
    <3>2. [t EXCEPT !.regs[a] = Masked(@, v[1], v[2])] = u
      BY <2>1, <2>2 DEF Tables
    <3> QED BY <3>1, <3>2, Zenon
  <2>5. m \in Word16 /\ IsMasked(m, t.regs[a], v)
    <3>1. m \in Word16
      BY <2>3, Zenon DEF IsMaskedWord
    <3>2. ASSUME NEW i \in 0..15
          PROVE  BitOf(m, i) = IF BitOf(v[1], i) = 1 THEN BitOf(t.regs[a], i)
                               ELSE BitOf(v[2], i)
      <4>1. i + 1 \in 1..16 /\ (i + 1) - 1 = i
        OBVIOUS
      <4>2. BitOf(m, (i + 1) - 1) = IF BitOf(v[1], (i + 1) - 1) = 1
                                    THEN BitOf(t.regs[a], (i + 1) - 1)
                                    ELSE BitOf(v[2], (i + 1) - 1)
        BY <2>3, <4>1, Zenon DEF IsMaskedWord
      <4> QED BY <4>1, <4>2, Zenon
    <3> QED BY <3>1, <3>2, Zenon DEF IsMasked
  <2> HIDE DEF m
  <2>6. /\ u \in Tables /\ u.bits = t.bits
        /\ u.regs = [t.regs EXCEPT ![a] = m]
    BY <2>1, <2>2, <2>5 DEF Tables
  <2>7. \A x \in Regs : u.regs[x] = IF x = a THEN m ELSE t.regs[x]
    BY <2>1, <2>6
  <2>8. Means(r, t, u)
    <3> HIDE DEF u
    <3>1. \A x \in Regs : IF x = a THEN IsMasked(u.regs[x], t.regs[x], v)
                          ELSE u.regs[x] = t.regs[x]
      BY <2>5, <2>7
    <3>2. r.f \notin {1, 2, 3, 4, 17} /\ r.f \notin {5, 15}
          /\ r.f \notin {6, 16} /\ r.f # 23
      OBVIOUS
    <3> QED BY <1>8, <2>6, <3>1, <3>2, Zenon DEF Means
  <2>9. IsAnswer(p, r.f)
    BY <1>1, <1>2, EchoIs
  <2>10. Fits(r, t, Answered(u, p))
    BY <1>5, <1>8, <2>6, <2>8, <2>9, AnsweredFits, Zenon DEF p
  <2> QED BY <1>6, <2>4, <2>10, Zenon DEF p
<1> QED BY <1>7, <1>8, Zenon DEF p

LEMMA BothFits ==
  ASSUME NEW r, WellFormed(r), Within(r), NEW t \in Tables, r.f = 23,
         Regs \subseteq Nat
  PROVE  Fits(r, t, Reply(t, Pdu(r)))
<1> DEFINE p == Pdu(r)
           a == r.addr
           b == r.waddr
           v == r.vals
           n == Len(v)
           nb == r.nb
           u == PutRegs(t, b, v)
           w == From(u.regs, a, nb)
           s == Words(w)
           q == Listed(23, 2 * nb, s)
           inside == Span(a, nb) \union Span(b, n) \subseteq Regs
<1>1. /\ Whole(r) /\ Word(p, 2) = a /\ Word(p, 4) = nb
      /\ Word(p, 6) = b /\ Word(p, 8) = n /\ p[10] = 2 * n
      /\ UnpackWords(p, 11, n) = v /\ v \in Seq(Word16)
  BY WriteAndReadSent
<1>2. p[1] = r.f /\ p \in Seq(Nat)
  BY <1>1 DEF Whole
<1>3. a \in Nat /\ b \in Nat /\ nb \in Nat /\ n \in Nat
  BY <1>1, FormIs
<1>4. /\ nb <= MaxReadRegisters /\ MaxReadRegisters \in Nat
      /\ n <= MaxWrRegisters /\ MaxWrRegisters \in Nat
  BY DEF Within, MaxReadRegisters, MaxWrRegisters
<1>5. Legal(r) <=> nb >= 1 /\ n >= 1 /\ inside
  <2>1. v # <<>> <=> n >= 1
    BY <1>1
  <2>2. Legal(r) <=> /\ nb >= 1 /\ v # <<>> /\ Span(a, nb) \subseteq Regs
                     /\ Span(b, n) \subseteq Regs
    BY DEF Legal
  <2> QED BY <2>1, <2>2
<1>6. IsPut(u, t.bits, Wrote(t.regs, b, v))
  BY <1>1, <1>3, PutRegsIs, Zenon
<1>7. Values(r, q) = UnpackWords(q, 3, nb) /\ Gets(r, u) = w
  BY SMT DEF Values, Gets
<1> HIDE DEF p, v, n, nb, u, inside
<1>8. Reply(t, p) = ReplyWriteAndRead(t, p)
  BY <1>2, SMT DEF Reply
<1> DEFINE legal == n \in 1..MaxWrRegisters /\ nb \in 1..MaxReadRegisters
<1>9. legal <=> nb >= 1 /\ n >= 1
  BY <1>3, <1>4
<1>10. CASE ~Legal(r)
  <2>1. CASE ~legal
    <3>1. ReplyWriteAndRead(t, p) = Rejected(t, p, IllegalValue)
      BY <2>1, <1>1, SMT DEF ReplyWriteAndRead
    <3> QED BY <3>1, <1>2, <1>8, <1>10, Codes, RefusalFits, Zenon DEF p
  <2>2. CASE legal
    <3>1. ~inside
      BY <2>2, <1>5, <1>9, <1>10, Zenon
    <3>2. ReplyWriteAndRead(t, p) = Refused(t, p, IllegalAddress)
      BY <2>2, <3>1, <1>1, SMT DEF ReplyWriteAndRead, inside
    <3> QED BY <3>2, <1>2, <1>8, <1>10, Codes, RefusalFits, Zenon DEF p
  <2> QED BY <2>1, <2>2
<1>11. CASE Legal(r)
  <2>1. legal /\ inside
    BY <1>5, <1>9, <1>11, Zenon
  <2>2. ReplyWriteAndRead(t, p) = Answered(u, q)
    <3>1. ReplyWriteAndRead(t, p)
            = LET x == PutRegs(t, b, UnpackWords(p, 11, n))
              IN  Answered(x, Listed(23, 2 * nb, Words(From(x.regs, a, nb))))
      BY <2>1, <1>1, SMT DEF ReplyWriteAndRead, inside
    <3> QED BY <3>1, <1>1, Zenon DEF u
  <2>3. u \in Tables /\ u.bits = t.bits /\ u.regs = Wrote(t.regs, b, v)
    BY <1>6, Zenon DEF IsPut
  <2>4. w \in Seq(Word16) /\ Len(w) = nb
    <3>1. u.regs \in [Regs -> Word16]
      BY <2>3 DEF Tables
    <3>2. Span(a, nb) \subseteq Regs
      BY <2>1 DEF inside
    <3>3. IsRow(w, Word16, nb)
      BY <3>1, <3>2, <1>3, FromIs, Zenon
    <3> QED BY <3>3, Zenon DEF IsRow
  <2> HIDE DEF w
  <2>5. w \in Seq(Nat)
    BY <2>4, SeqOfWords
  <2>6. s \in Seq(Nat) /\ Len(s) = 2 * nb /\ 2 * nb \in Nat
    <3>1. s \in Seq(Nat) /\ Len(s) = 2 * Len(w)
      BY <2>5, WordsIs, Zenon
    <3>2. 2 * nb \in Nat
      BY <1>3
    <3> QED BY <2>4, <3>1, <3>2, Zenon
  <2>7. IsListed(q, 23, 2 * nb, s)
    <3> HIDE DEF s
    <3>1. 23 \in Nat
      OBVIOUS
    <3> QED BY <2>6, <3>1, ListedIs, Zenon
  <2> HIDE DEF q
  <2>8. UnpackWords(q, 3, nb) = w
    BY <2>4, <2>5, <2>7, ListedWords, Zenon
  <2> HIDE DEF s
  <2>9. IsAnswer(q, r.f)
    <3>1. 23 \in {1, 2, 3, 4, 17, 23}
      OBVIOUS
    <3> QED BY <2>6, <2>7, <3>1, ListedSize, Zenon
  <2>10. Means(r, t, u)
    BY <2>3, <1>11 DEF Means, v
  <2>11. Fits(r, t, Answered(u, q))
    BY <1>7, <1>11, <2>3, <2>8, <2>9, <2>10, AnsweredFits, Zenon
  <2> QED BY <1>8, <2>2, <2>11, Zenon DEF p
<1> QED BY <1>10, <1>11, Zenon DEF p

-----------------------------------------------------------------------------
(* Every request the client can send                                       *)

\* The assumptions, without the sets of numbers in them.
LEMMA Configured ==
  /\ \A r \in Request : WellFormed(r)
  /\ Bits \subseteq Nat /\ Regs \subseteq Nat
  /\ InputBits \in [DOMAIN InputBits -> {0, 1}]
  /\ InputRegs \in [DOMAIN InputRegs -> Word16]
  BY ModbusAssumption

LEMMA ReplyFits ==
  ASSUME NEW r \in Request, Within(r), NEW t \in Tables
  PROVE  Fits(r, t, Reply(t, Pdu(r))) /\ Whole(r)
<1>1. WellFormed(r)
  BY Configured
<1>2. /\ Bits \subseteq Nat /\ Regs \subseteq Nat
      /\ InputBits \in [DOMAIN InputBits -> {0, 1}]
      /\ InputRegs \in [DOMAIN InputRegs -> Word16]
  BY Configured, Zenon
<1>3. r.f \in {1, 2, 3, 4, 5, 6, 15, 16, 17, 22, 23}
  BY <1>1, FormIs
<1>4. CASE r.f \in {1, 2}
  <2>1. r.f \in {1, 2, 3, 4}
    BY <1>4
  <2> QED BY <1>1, <1>2, <1>4, <2>1, ReadBitsFits, ReadSent, Zenon
<1>5. CASE r.f \in {3, 4}
  <2>1. r.f \in {1, 2, 3, 4}
    BY <1>5
  <2> QED BY <1>1, <1>2, <1>5, <2>1, ReadRegistersFits, ReadSent, Zenon
<1>6. CASE r.f = 5
  <2>1. r.f \in {5, 6}
    BY <1>6
  <2> QED BY <1>1, <1>2, <1>6, <2>1, WriteCoilFits, SingleSent, Zenon
<1>7. CASE r.f = 6
  <2>1. r.f \in {5, 6}
    BY <1>7
  <2> QED BY <1>1, <1>2, <1>7, <2>1, WriteRegisterFits, SingleSent, Zenon
<1>8. CASE r.f = 15
  BY <1>1, <1>2, <1>8, WriteBitsFits, BitsSent, Zenon
<1>9. CASE r.f = 16
  BY <1>1, <1>2, <1>9, WriteRegistersFits, RegistersSent, Zenon
<1>10. CASE r.f = 17
  BY <1>1, <1>10, SlaveIdFits, SlaveIdSent, Zenon
<1>11. CASE r.f = 22
  BY <1>1, <1>2, <1>11, MaskFits, MaskSent, Zenon
<1>12. CASE r.f = 23
  BY <1>1, <1>2, <1>12, BothFits, WriteAndReadSent, Zenon
<1> QED BY <1>3, <1>4, <1>5, <1>6, <1>7, <1>8, <1>9, <1>10, <1>11, <1>12
-----------------------------------------------------------------------------
(* The invariant.  Its parts are about the values of the variables: b is   *)
(* the backend, a the calls asked, v what was served.                      *)

IsSeq(s) == s \in Seq({s[i] : i \in 1..Len(s)})

IsCall(b, x) ==
  /\ x.r \in Request /\ Within(x.r) /\ x.unit \in {Broadcast, Own, Other}
  /\ b = "tcp" => x.unit = Own

\* The number and the request of a call.
Tid(b, c) == IF b = "tcp" THEN c ELSE 0
ReqOf(b, a, c) == Message(Tid(b, c), a[c].unit, Pdu(a[c].r), c)

GoodAnswer(q) == q \in Seq(Nat) /\ q # <<>> /\ AnswerSize(q) = Len(q)

\* The server finds requests: those of calls, and raw ones; and on the serial
\* line the answers of the other device.
IsRaw(m) == m.pdu \in Raw /\ m = Message(0, Own, m.pdu, 0)
IsRequest(b, a, m) == m.call \in 1..Len(a) /\ m = ReqOf(b, a, m.call)
IsOthers(b, a, m) ==
  b = "rtu" /\ m.unit = Other /\ m.call \in 1..Len(a) /\ GoodAnswer(m.pdu)
ForServer(b, a, m) ==
  m = Junk \/ IsRaw(m) \/ IsRequest(b, a, m) \/ IsOthers(b, a, m)

\* The client finds answers: of its own requests, which are refusals or have
\* the values that were served, and of raw ones, with number zero.
AnswersCall(b, a, v, m) ==
  /\ m.call \in 1..Len(a) /\ m.tid = Tid(b, m.call)
  /\ v[m.call] # NotServed
  /\ m.pdu[1] < 128 => /\ v[m.call].by \in {"own", "other"}
                       /\ v[m.call].val = Values(a[m.call].r, m.pdu)
AnswersRaw(m) == m.call = 0 /\ m.tid = 0
ForClient(b, a, v, m) ==
  m = Junk \/ (GoodAnswer(m.pdu) /\ (AnswersRaw(m) \/ AnswersCall(b, a, v, m)))

\* A request the server is to serve.
ToServe(m) == m.call > 0 /\ m.unit \in {Own, Broadcast}

AllForServer(b, a, s) == \A i \in 1..Len(s) : ForServer(b, a, s[i])
AllForClient(b, a, v, s) == \A i \in 1..Len(s) : ForClient(b, a, v, s[i])
AllUnserved(v, s) == \A i \in 1..Len(s) : ToServe(s[i]) => v[s[i].call] = NotServed
EachOnce(s) ==
  \A i, j \in 1..Len(s) :
    ToServe(s[i]) /\ ToServe(s[j]) /\ s[i].call = s[j].call => i = j

AllForOther(b, a, v, s) ==
  \A i \in 1..Len(s) : /\ IsRequest(b, a, s[i]) /\ s[i].unit = Other
                       /\ v[s[i].call] = NotServed
CallsOnce(s) == \A i, j \in 1..Len(s) : s[i].call = s[j].call => i = j

\* On the serial line, before a call has given up: at most one answer is
\* awaited or there, that of the call the client waits for.
Quiet(a, s, c, o, w) ==
  /\ \A i \in 1..Len(s) : s[i].unit = Own => /\ s[i].call = Len(a) /\ w # <<>>
                                             /\ c = <<>> /\ o = <<>>
  /\ \A i \in 1..Len(c) : c[i].call = Len(a) /\ w # <<>> /\ i = 1 /\ o = <<>>
  /\ \A i \in 1..Len(o) : o[i].call = Len(a) /\ w # <<>> /\ i = 1

WellGot(v, g) ==
  /\ g.from = g.call /\ v[g.call].by \in {"own", "other"}
  /\ v[g.call].val = g.val /\ g.call \in DOMAIN v

ServerOK(b, a, v, s) ==
  IsSeq(s) /\ AllForServer(b, a, s) /\ AllUnserved(v, s) /\ EachOnce(s)
OtherOK(b, a, v, o) ==
  /\ IsSeq(o) /\ AllForOther(b, a, v, o) /\ CallsOnce(o)
  /\ b = "tcp" => o = <<>>
ClientOK(b, a, v, c) == IsSeq(c) /\ AllForClient(b, a, v, c)
CallsOK(b, a, v) ==
  /\ IsSeq(a) /\ IsSeq(v) /\ Len(v) = Len(a) /\ Len(a) <= MaxCalls
  /\ \A c \in 1..Len(a) : IsCall(b, a[c])
WaitOK(b, a, w) == w # <<>> => Len(a) > 0 /\ w = ReqOf(b, a, Len(a))

Settings ==
  /\ backend \in Backend /\ recovery \in Recovery
  /\ alive \in BOOLEAN /\ ignore \in BOOLEAN /\ late \in BOOLEAN
  /\ tab \in Tables
  /\ t_id = Tid(backend, Len(asked))
  /\ backend = "rtu" => alive = TRUE

IInv ==
  /\ Settings
  /\ CallsOK(backend, asked, served)
  /\ WaitOK(backend, asked, waiting)
  /\ ServerOK(backend, asked, served, toServer)
  /\ OtherOK(backend, asked, served, other)
  /\ ClientOK(backend, asked, served, toClient)
  /\ backend = "rtu" /\ late = FALSE =>
       Quiet(asked, toServer, toClient, other, waiting)
  /\ got # Nothing /\ (backend = "tcp" \/ late = FALSE) => WellGot(served, got)

-----------------------------------------------------------------------------
(* Messages under way                                                      *)

LEMMA SeqIs ==
  ASSUME NEW S, NEW s \in Seq(S)
  PROVE  IsSeq(s)
<1> DEFINE R == {s[i] : i \in 1..Len(s)}
<1>1. Len(s) \in Nat /\ s = [i \in 1..Len(s) |-> s[i]]
  OBVIOUS
<1>2. \A i \in 1..Len(s) : s[i] \in R
  OBVIOUS
<1> HIDE DEF R
<1>3. s \in [1..Len(s) -> R]
  BY <1>1, <1>2, Zenon
<1>4. s \in Seq(R)
  BY <1>1, <1>3
<1> QED BY <1>4 DEF IsSeq, R

LEMMA EmptyIs ==
  IsSeq(<<>>) /\ Len(<<>>) = 0
<1>1. <<>> \in Seq({})
  OBVIOUS
<1> QED BY <1>1, SeqIs

LEMMA LenIs ==
  ASSUME NEW s, IsSeq(s)
  PROVE  Len(s) \in Nat /\ DOMAIN s = 1..Len(s) /\ (s = <<>> <=> Len(s) = 0)
  BY DEF IsSeq

Appended(s, e, u) ==
  /\ IsSeq(u) /\ Len(u) = Len(s) + 1 /\ u[Len(u)] = e
  /\ \A i \in 1..Len(s) : u[i] = s[i]

LEMMA AppendIs ==
  ASSUME NEW s, IsSeq(s), NEW e
  PROVE  Appended(s, e, Append(s, e))
<1> DEFINE S == {s[i] : i \in 1..Len(s)} \union {e}
           u == Append(s, e)
<1>1. s \in Seq(S)
  <2>1. {s[i] : i \in 1..Len(s)} \subseteq S
    OBVIOUS
  <2> HIDE DEF S
  <2> QED BY <2>1, SeqMonotonic, Zenon DEF IsSeq
<1>2. e \in S
  OBVIOUS
<1> HIDE DEF S
<1>3. u \in Seq(S) /\ Len(u) = Len(s) + 1 /\ u[Len(s) + 1] = e
      /\ \A i \in 1..Len(s) : u[i] = s[i]
  BY <1>1, <1>2
<1> HIDE DEF u
<1>4. IsSeq(u)
  BY <1>3, SeqIs, Zenon
<1>5. Appended(s, e, u)
  BY <1>3, <1>4 DEF Appended
<1> QED BY <1>5 DEF u

\* What is left of s without its first k messages, or more: what was read in
\* part is junk.
Left(s, k, u) ==
  /\ IsSeq(u)
  /\ \E d \in Nat : /\ d >= k /\ Len(u) + d = Len(s)
                    /\ \A i \in 1..Len(u) : u[i] = Junk \/ u[i] = s[i + d]

LEMMA TailLeft ==
  ASSUME NEW s, IsSeq(s), s # <<>>
  PROVE  /\ Left(s, 1, Tail(s)) /\ Head(s) = s[1] /\ Len(Tail(s)) + 1 = Len(s)
         /\ \A i \in 1..Len(Tail(s)) : Tail(s)[i] = s[i + 1]
<1> DEFINE S == {s[i] : i \in 1..Len(s)}
           u == Tail(s)
<1>1. s \in Seq(S)
  BY DEF IsSeq
<1> HIDE DEF S
<1>2. u \in Seq(S) /\ Len(u) = Len(s) - 1 /\ \A i \in 1..Len(u) : u[i] = s[i + 1]
  BY <1>1, HeadTailProperties, Zenon
<1>3. Head(s) = s[1] /\ Len(s) \in Nat
  BY <1>1
<1> HIDE DEF u
<1>4. IsSeq(u)
  BY <1>2, SeqIs, Zenon
<1>5. Len(u) + 1 = Len(s)
  BY <1>2, <1>3
<1>6. Left(s, 1, u)
  BY <1>2, <1>4, <1>5 DEF Left
<1> QED BY <1>2, <1>3, <1>5, <1>6 DEF u

LEMMA SuffixLeft ==
  ASSUME NEW s, IsSeq(s), NEW u \in Suffixes(s)
  PROVE  Left(s, 0, u)
<1> DEFINE S == {s[i] : i \in 1..Len(s)}
           n == Len(s)
<1>1. s \in Seq(S) /\ n \in Nat /\ DOMAIN s = 1..n
  BY DEF IsSeq
<1> HIDE DEF S
<1>2. CASE u = <<>>
  <2>1. Len(u) = 0 /\ IsSeq(u)
    BY <1>2, EmptyIs
  <2>2. n \in Nat /\ n >= 0 /\ Len(u) + n = Len(s)
    BY <1>1, <2>1
  <2>3. \A i \in 1..Len(u) : u[i] = Junk \/ u[i] = s[i + n]
    BY <2>1
  <2> HIDE DEF n
  <2> QED BY <2>1, <2>2, <2>3 DEF Left
<1>3. CASE \E l \in 1..n : u = SubSeq(s, l, n)
  <2>1. PICK l \in 1..n : u = SubSeq(s, l, n)
    BY <1>3
  <2>2. l \in Int /\ n \in Int /\ \A i \in l..n : s[i] \in S
    BY <1>1
  <2>3. /\ u \in Seq(S) /\ Len(u) = IF l <= n THEN n - l + 1 ELSE 0
        /\ \A i \in 1..n - l + 1 : u[i] = s[l + i - 1]
    <3>1. /\ SubSeq(s, l, n) \in Seq(S)
          /\ Len(SubSeq(s, l, n)) = IF l <= n THEN n - l + 1 ELSE 0
          /\ \A i \in 1..n - l + 1 : SubSeq(s, l, n)[i] = s[l + i - 1]
      BY <2>2, SubSeqProperties
    <3> QED BY <2>1, <3>1, Zenon
  <2>4. IsSeq(u)
    BY <2>3, SeqIs, Zenon
  <2>5. l - 1 \in Nat /\ l - 1 >= 0 /\ Len(u) = n - l + 1 /\ Len(u) + (l - 1) = n
    BY <1>1, <2>3
  <2>6. ASSUME NEW i \in 1..Len(u) PROVE u[i] = s[i + (l - 1)]
    <3>1. l + i - 1 = i + (l - 1)
      OBVIOUS
    <3> QED BY <2>3, <2>5, <3>1
  <2> QED BY <2>4, <2>5, <2>6 DEF Left
<1> QED BY <1>2, <1>3 DEF Suffixes

LEMMA LeftLeft ==
  ASSUME NEW s, NEW k \in Nat, NEW t, Left(s, k, t), NEW u, Left(t, 0, u), IsSeq(s)
  PROVE  Left(s, k, u)
<1>1. PICK d \in Nat : /\ d >= k /\ Len(t) + d = Len(s)
                       /\ \A i \in 1..Len(t) : t[i] = Junk \/ t[i] = s[i + d]
  BY DEF Left
<1>2. PICK e \in Nat : /\ e >= 0 /\ Len(u) + e = Len(t)
                       /\ \A i \in 1..Len(u) : u[i] = Junk \/ u[i] = t[i + e]
  BY DEF Left
<1>3. Len(u) \in Nat /\ Len(t) \in Nat /\ Len(s) \in Nat
  BY LenIs DEF Left
<1>4. e + d \in Nat /\ e + d >= k /\ Len(u) + (e + d) = Len(s)
  BY <1>1, <1>2, <1>3, SMTT(20)
<1>5. ASSUME NEW i \in 1..Len(u) PROVE u[i] = Junk \/ u[i] = s[i + (e + d)]
  <2>1. i + e \in 1..Len(t) /\ (i + e) + d = i + (e + d)
    BY <1>2, <1>3
  <2> QED BY <1>1, <1>2, <2>1
<1> QED BY <1>4, <1>5 DEF Left

LEMMA JunkLeft ==
  ASSUME NEW s, IsSeq(s), NEW t, Left(s, 1, t)
  PROVE  Left(s, 0, <<Junk>> \o t)
<1> DEFINE S == {t[i] : i \in 1..Len(t)} \union {Junk}
           j == <<Junk>>
           u == j \o t
<1>1. IsSeq(t)
  BY DEF Left
<1>2. t \in Seq(S)
  <2>1. {t[i] : i \in 1..Len(t)} \subseteq S
    OBVIOUS
  <2> HIDE DEF S
  <2> QED BY <1>1, <2>1, SeqMonotonic, Zenon DEF IsSeq
<1>3. j \in Seq(S) /\ Len(j) = 1 /\ j[1] = Junk
  OBVIOUS
<1> HIDE DEF S, j
<1>4. /\ u \in Seq(S) /\ Len(u) = Len(j) + Len(t)
      /\ \A i \in 1..Len(j) + Len(t) : u[i] = IF i <= Len(j) THEN j[i] ELSE t[i - Len(j)]
  BY <1>2, <1>3, ConcatProperties, Zenon
<1> HIDE DEF u
<1>5. IsSeq(u)
  BY <1>4, SeqIs, Zenon
<1>6. PICK d \in Nat : /\ d >= 1 /\ Len(t) + d = Len(s)
                       /\ \A i \in 1..Len(t) : t[i] = Junk \/ t[i] = s[i + d]
  BY DEF Left
<1>7. Len(t) \in Nat /\ Len(s) \in Nat
  BY <1>1, LenIs
<1>8. d - 1 \in Nat /\ d - 1 >= 0 /\ Len(u) + (d - 1) = Len(s)
  BY <1>3, <1>4, <1>6, <1>7
<1>9. ASSUME NEW i \in 1..Len(u) PROVE u[i] = Junk \/ u[i] = s[i + (d - 1)]
  <2>1. CASE i = 1
    BY <2>1, <1>3, <1>4
  <2>2. CASE i > 1
    <3>1. i - 1 \in 1..Len(t) /\ (i - 1) + d = i + (d - 1)
      BY <2>2, <1>3, <1>4, <1>7
    <3>2. u[i] = t[i - 1]
      BY <2>2, <1>3, <1>4, <1>7
    <3> QED BY <3>1, <3>2, <1>6
  <2> QED BY <2>1, <2>2
<1>10. Left(s, 0, u)
  BY <1>5, <1>8, <1>9 DEF Left
<1> QED BY <1>10 DEF u, j

LEMMA Weaker ==
  ASSUME NEW s, NEW u, Left(s, 1, u)
  PROVE  Left(s, 0, u)
  BY DEF Left

LEMMA LeftAfterIs ==
  ASSUME NEW s, IsSeq(s), s # <<>>, NEW n \in Nat, NEW u \in LeftAfter(s, n),
         Len(Head(s).pdu) \in Nat
  PROVE  Left(s, 0, u)
<1> DEFINE size == Len(Head(s).pdu)
           t == Tail(s)
<1>1. Left(s, 1, t) /\ IsSeq(t)
  BY TailLeft DEF Left
<1> HIDE DEF size, t
<1>2. size \in Nat
  BY DEF size
<1>3. LeftAfter(s, n) = CASE n = size -> {t}
                          [] n < size -> {<<Junk>> \o t}
                          [] n > size -> UNION {{w, <<Junk>> \o w} : w \in Suffixes(t)}
  BY Zenon DEF LeftAfter, size, t
<1> DEFINE A == {t}
           B == {<<Junk>> \o t}
           C == UNION {{w, <<Junk>> \o w} : w \in Suffixes(t)}
<1>4. CASE u \in A
  <2>1. u = t
    BY <1>4
  <2> QED BY <1>1, <2>1, Weaker
<1>5. CASE u \in B
  <2>1. u = <<Junk>> \o t
    BY <1>5
  <2> QED BY <1>1, <2>1, JunkLeft
<1>6. CASE u \in C
  <2>1. PICK w \in Suffixes(t) : u \in {w, <<Junk>> \o w}
    BY <1>6
  <2>2. Left(t, 0, w)
    BY <1>1, SuffixLeft, Zenon
  <2>3. Left(s, 1, w)
    <3>1. 1 \in Nat
      OBVIOUS
    <3> QED BY <1>1, <2>2, <3>1, LeftLeft, Zenon
  <2>4. u = w \/ u = <<Junk>> \o w
    BY <2>1
  <2> QED BY <2>3, <2>4, Weaker, JunkLeft
<1> HIDE DEF A, B, C
<1>7. LeftAfter(s, n) = CASE n = size -> A [] n < size -> B [] n > size -> C
  BY <1>3 DEF A, B, C
<1>8. n = size \/ n < size \/ n > size
  BY <1>2
<1>9. LeftAfter(s, n) = A \/ LeftAfter(s, n) = B \/ LeftAfter(s, n) = C
  BY <1>2, <1>7, <1>8, SMT
<1> QED BY <1>4, <1>5, <1>6, <1>9

-----------------------------------------------------------------------------
(* How the parts of the invariant are kept                                 *)

LEMMA JunkIs ==
  /\ Junk.tid = 0 /\ Junk.unit = 0 /\ Junk.pdu = <<>> /\ Junk.call = 0
  /\ ~ToServe(Junk) /\ Junk.unit # Own
<1>1. Junk.tid = 0 /\ Junk.unit = 0 /\ Junk.pdu = <<>> /\ Junk.call = 0
  BY DEF Junk, Message
<1> QED BY <1>1 DEF ToServe, Own

LEMMA Units ==
  /\ Broadcast = 0 /\ Own = 1 /\ Other = 2
  BY DEF Broadcast, Own, Other

LEMMA RequestIs ==
  ASSUME NEW b, NEW a, NEW m, IsRequest(b, a, m)
  PROVE  /\ m.call \in 1..Len(a) /\ m.tid = Tid(b, m.call)
         /\ m.unit = a[m.call].unit /\ m.pdu = Pdu(a[m.call].r)
  BY DEF IsRequest, ReqOf, Message

LEMMA RawIs ==
  ASSUME NEW m, IsRaw(m)
  PROVE  m.pdu \in Raw /\ m.call = 0 /\ m.tid = 0 /\ m.unit = Own
  BY DEF IsRaw, Message

\* Which messages the server is to serve.
LEMMA ServeIs ==
  ASSUME NEW b, NEW a, NEW m, ForServer(b, a, m), ToServe(m)
  PROVE  IsRequest(b, a, m)
<1>1. m # Junk
  BY JunkIs
<1>2. ~IsRaw(m)
  BY RawIs DEF ToServe
<1>3. ~IsOthers(b, a, m)
  BY Units DEF IsOthers, ToServe
<1> QED BY <1>1, <1>2, <1>3, Zenon DEF ForServer

LEMMA CallIs ==
  ASSUME NEW b, NEW a, NEW m, ForServer(b, a, m), Len(a) \in Nat
  PROVE  m.call \in 0..Len(a)
<1>1. CASE m = Junk
  BY <1>1, JunkIs
<1>2. CASE IsRaw(m)
  BY <1>2, RawIs
<1>3. CASE IsRequest(b, a, m)
  BY <1>3, RequestIs
<1>4. CASE IsOthers(b, a, m)
  BY <1>4 DEF IsOthers
<1> QED BY <1>1, <1>2, <1>3, <1>4, Zenon DEF ForServer

LEMMA ServerLeft ==
  ASSUME NEW b, NEW a, NEW v, NEW s, ServerOK(b, a, v, s),
         NEW u, Left(s, 0, u)
  PROVE  ServerOK(b, a, v, u)
<1>1. PICK d \in Nat : /\ d >= 0 /\ Len(u) + d = Len(s)
                       /\ \A i \in 1..Len(u) : u[i] = Junk \/ u[i] = s[i + d]
  BY DEF Left
<1>2. IsSeq(u) /\ IsSeq(s) /\ Len(u) \in Nat /\ Len(s) \in Nat
  BY LenIs DEF Left, ServerOK
<1>3. ASSUME NEW i \in 1..Len(u) PROVE i + d \in 1..Len(s)
  BY <1>1, <1>2
<1>4. ASSUME NEW i \in 1..Len(u) PROVE ForServer(b, a, u[i])
  <2>1. ForServer(b, a, s[i + d])
    BY <1>3, Zenon DEF ServerOK, AllForServer
  <2>2. ForServer(b, a, Junk)
    BY Zenon DEF ForServer
  <2> QED BY <1>1, <2>1, <2>2, Zenon
<1>5. ASSUME NEW i \in 1..Len(u), ToServe(u[i])
      PROVE  u[i] = s[i + d] /\ v[u[i].call] = NotServed
  <2>1. u[i] = s[i + d]
    BY <1>1, <1>5, JunkIs, Zenon
  <2> QED BY <1>3, <1>5, <2>1, Zenon DEF ServerOK, AllUnserved
<1>6. ASSUME NEW i \in 1..Len(u), NEW j \in 1..Len(u),
             ToServe(u[i]), ToServe(u[j]), u[i].call = u[j].call
      PROVE  i = j
  <2>1. u[i] = s[i + d] /\ u[j] = s[j + d]
    BY <1>5, <1>6
  <2>2. i + d = j + d
    BY <2>1, <1>3, <1>6, Zenon DEF ServerOK, EachOnce
  <2> QED BY <2>2
<1> QED BY <1>2, <1>4, <1>5, <1>6, Zenon DEF ServerOK, AllForServer, AllUnserved, EachOnce

\* The first message is taken and its call is noted as served.
Noted(v, c, w) == /\ IsSeq(w) /\ Len(w) = Len(v)
                  /\ \A i \in 1..Len(v) : i # c => w[i] = v[i]

LEMMA ServerServed ==
  ASSUME NEW b, NEW a, NEW v, NEW s, ServerOK(b, a, v, s), Len(v) = Len(a), s # <<>>,
         NEW w, NEW c, c = s[1].call, c > 0 => ToServe(s[1]), c = 0 => w = v,
         Noted(v, c, w), NEW u, Left(s, 1, u)
  PROVE  ServerOK(b, a, w, u)
<1>1. ServerOK(b, a, v, u)
  BY Weaker, ServerLeft, Zenon
<1>2. PICK d \in Nat : /\ d >= 1 /\ Len(u) + d = Len(s)
                       /\ \A i \in 1..Len(u) : u[i] = Junk \/ u[i] = s[i + d]
  BY DEF Left
<1>3. IsSeq(s) /\ Len(u) \in Nat /\ Len(s) \in Nat /\ 1 \in 1..Len(s)
  BY LenIs DEF Left, ServerOK
<1>4. ASSUME NEW i \in 1..Len(u), ToServe(u[i]) PROVE w[u[i].call] = NotServed
  <2>1. ForServer(b, a, u[i]) /\ v[u[i].call] = NotServed
    BY <1>1, <1>4, Zenon DEF ServerOK, AllForServer, AllUnserved
  <2>2. u[i].call \in 1..Len(v) /\ u[i].call > 0
    BY <2>1, <1>4, ServeIs, RequestIs
  <2>3. CASE c > 0
    <3>1. u[i] = s[i + d]
      BY <1>2, <1>4, JunkIs, Zenon
    <3>2. i + d \in 1..Len(s) /\ i + d # 1
      BY <1>2, <1>3
    <3>3. u[i].call # c
      BY <1>3, <1>4, <2>3, <3>1, <3>2, Zenon DEF ServerOK, EachOnce
    <3> QED BY <2>1, <2>2, <3>3, Zenon DEF Noted
  <2>4. CASE ~(c > 0)
    <3>1. CASE u[i].call = c
      BY <2>2, <2>4, <3>1
    <3>2. CASE u[i].call # c
      BY <2>1, <2>2, <3>2, Zenon DEF Noted
    <3> QED BY <3>1, <3>2
  <2> QED BY <2>3, <2>4
<1> QED BY <1>1, <1>4, Zenon DEF ServerOK, AllUnserved

\* Another device has served a call that is not the server's.
LEMMA ServerNoted ==
  ASSUME NEW b, NEW a, NEW v, NEW s, ServerOK(b, a, v, s), Len(v) = Len(a),
         NEW w, NEW c, Noted(v, c, w), a[c].unit \notin {Own, Broadcast}
  PROVE  ServerOK(b, a, w, s)
<1>1. ASSUME NEW i \in 1..Len(s), ToServe(s[i]) PROVE w[s[i].call] = NotServed
  <2>1. ForServer(b, a, s[i]) /\ v[s[i].call] = NotServed
    BY <1>1, Zenon DEF ServerOK, AllForServer, AllUnserved
  <2>2. IsRequest(b, a, s[i])
    BY <2>1, <1>1, ServeIs, Zenon
  <2>3. s[i].call \in 1..Len(v) /\ s[i].unit = a[s[i].call].unit
    BY <2>2, RequestIs
  <2>4. s[i].call # c
    BY <2>3, <1>1, Zenon DEF ToServe
  <2> QED BY <2>1, <2>3, <2>4, Zenon DEF Noted
<1> QED BY <1>1, Zenon DEF ServerOK, AllUnserved

LEMMA ServerAppend ==
  ASSUME NEW b, NEW a, NEW v, NEW s, ServerOK(b, a, v, s),
         NEW m, ForServer(b, a, m),
         ToServe(m) => /\ v[m.call] = NotServed
                       /\ \A i \in 1..Len(s) : s[i].call # m.call,
         NEW u, Appended(s, m, u)
  PROVE  ServerOK(b, a, v, u)
<1>1. /\ IsSeq(u) /\ Len(u) = Len(s) + 1 /\ u[Len(u)] = m /\ Len(s) \in Nat
      /\ \A i \in 1..Len(s) : u[i] = s[i]
  BY LenIs DEF Appended, ServerOK
<1>2. ASSUME NEW i \in 1..Len(u) PROVE i \in 1..Len(s) \/ i = Len(u)
  BY <1>1
<1>3. ASSUME NEW i \in 1..Len(u)
      PROVE  /\ ForServer(b, a, u[i])
             /\ ToServe(u[i]) => v[u[i].call] = NotServed
  <2>1. CASE i \in 1..Len(s)
    BY <1>1, <2>1, Zenon DEF ServerOK, AllForServer, AllUnserved
  <2>2. CASE i = Len(u)
    BY <1>1, <2>2, Zenon
  <2> QED BY <1>2, <2>1, <2>2, Zenon
<1>4. ASSUME NEW i \in 1..Len(u), NEW j \in 1..Len(u),
             ToServe(u[i]), ToServe(u[j]), u[i].call = u[j].call
      PROVE  i = j
  <2>1. CASE i \in 1..Len(s) /\ j \in 1..Len(s)
    BY <1>1, <1>4, <2>1, Zenon DEF ServerOK, EachOnce
  <2>2. CASE i = Len(u) /\ j \in 1..Len(s)
    <3>1. ToServe(m) /\ s[j].call = m.call
      BY <1>1, <1>4, <2>2, Zenon
    <3> QED BY <2>2, <3>1
  <2>3. CASE j = Len(u) /\ i \in 1..Len(s)
    <3>1. ToServe(m) /\ s[i].call = m.call
      BY <1>1, <1>4, <2>3, Zenon
    <3> QED BY <2>3, <3>1
  <2> QED BY <1>2, <2>1, <2>2, <2>3, Zenon
<1> QED BY <1>1, <1>3, <1>4, Zenon DEF ServerOK, AllForServer, AllUnserved, EachOnce

\* A call is added.
Grown(a, e) == Len(e) = Len(a) + 1 /\ Len(a) \in Nat /\ \A i \in 1..Len(a) : e[i] = a[i]

LEMMA RequestGrown ==
  ASSUME NEW b, NEW a, NEW e, Grown(a, e), NEW m, IsRequest(b, a, m)
  PROVE  IsRequest(b, e, m)
<1>1. m.call \in 1..Len(a) /\ m = ReqOf(b, a, m.call)
  BY Zenon DEF IsRequest
<1>2. e[m.call] = a[m.call] /\ m.call \in 1..Len(e)
  BY <1>1 DEF Grown
<1> QED BY <1>1, <1>2, Zenon DEF IsRequest, ReqOf

LEMMA ServerGrown ==
  ASSUME NEW b, NEW a, NEW v, NEW s, ServerOK(b, a, v, s), Len(v) = Len(a),
         NEW e, Grown(a, e), NEW w, Grown(v, w)
  PROVE  ServerOK(b, e, w, s)
<1>1. ASSUME NEW i \in 1..Len(s) PROVE ForServer(b, e, s[i])
  <2>1. ForServer(b, a, s[i])
    BY Zenon DEF ServerOK, AllForServer
  <2>2. IsOthers(b, a, s[i]) => IsOthers(b, e, s[i])
    BY DEF IsOthers, Grown
  <2> QED BY <2>1, <2>2, RequestGrown, Zenon DEF ForServer
<1>2. ASSUME NEW i \in 1..Len(s), ToServe(s[i]) PROVE w[s[i].call] = NotServed
  <2>1. ForServer(b, a, s[i]) /\ v[s[i].call] = NotServed
    BY <1>2, Zenon DEF ServerOK, AllForServer, AllUnserved
  <2>2. s[i].call \in 1..Len(v)
    BY <2>1, <1>2, ServeIs, RequestIs
  <2> QED BY <2>1, <2>2, Zenon DEF Grown
<1> QED BY <1>1, <1>2, Zenon DEF ServerOK, AllForServer, AllUnserved

\* No message is of a call not made yet.
LEMMA ServerOld ==
  ASSUME NEW b, NEW a, NEW v, NEW s, ServerOK(b, a, v, s), Len(a) \in Nat,
         NEW i \in 1..Len(s)
  PROVE  s[i].call \in 0..Len(a)
<1>1. ForServer(b, a, s[i])
  BY Zenon DEF ServerOK, AllForServer
<1> QED BY <1>1, CallIs, Zenon

LEMMA OtherGrown ==
  ASSUME NEW b, NEW a, NEW v, NEW o, OtherOK(b, a, v, o), Len(v) = Len(a),
         NEW e, Grown(a, e), NEW w, Grown(v, w)
  PROVE  OtherOK(b, e, w, o)
<1>1. ASSUME NEW i \in 1..Len(o)
      PROVE  /\ IsRequest(b, e, o[i]) /\ o[i].unit = Other /\ w[o[i].call] = NotServed
  <2>1. IsRequest(b, a, o[i]) /\ o[i].unit = Other /\ v[o[i].call] = NotServed
    BY Zenon DEF OtherOK, AllForOther
  <2>2. o[i].call \in 1..Len(v)
    BY <2>1, RequestIs
  <2> QED BY <2>1, <2>2, RequestGrown, Zenon DEF Grown
<1> QED BY <1>1, Zenon DEF OtherOK, AllForOther

LEMMA OtherAppend ==
  ASSUME NEW b, NEW a, NEW v, NEW o, OtherOK(b, a, v, o),
         NEW m, IsRequest(b, a, m), m.unit = Other, v[m.call] = NotServed,
         \A i \in 1..Len(o) : o[i].call # m.call, b # "tcp",
         NEW u, Appended(o, m, u)
  PROVE  OtherOK(b, a, v, u)
<1>1. /\ IsSeq(u) /\ Len(u) = Len(o) + 1 /\ u[Len(u)] = m /\ Len(o) \in Nat
      /\ \A i \in 1..Len(o) : u[i] = o[i]
  BY LenIs DEF Appended, OtherOK
<1>2. ASSUME NEW i \in 1..Len(u) PROVE i \in 1..Len(o) \/ i = Len(u)
  BY <1>1
<1>3. ASSUME NEW i \in 1..Len(u)
      PROVE  IsRequest(b, a, u[i]) /\ u[i].unit = Other /\ v[u[i].call] = NotServed
  <2>1. CASE i \in 1..Len(o)
    BY <1>1, <2>1, Zenon DEF OtherOK, AllForOther
  <2>2. CASE i = Len(u)
    BY <1>1, <2>2, Zenon
  <2> QED BY <1>2, <2>1, <2>2, Zenon
<1>4. ASSUME NEW i \in 1..Len(u), NEW j \in 1..Len(u), u[i].call = u[j].call
      PROVE  i = j
  <2>1. CASE i \in 1..Len(o) /\ j \in 1..Len(o)
    BY <1>1, <1>4, <2>1, Zenon DEF OtherOK, CallsOnce
  <2>2. CASE i = Len(u) /\ j \in 1..Len(o)
    BY <1>1, <1>4, <2>2, Zenon
  <2>3. CASE j = Len(u) /\ i \in 1..Len(o)
    BY <1>1, <1>4, <2>3, Zenon
  <2> QED BY <1>2, <2>1, <2>2, <2>3, Zenon
<1> QED BY <1>1, <1>3, <1>4, Zenon DEF OtherOK, AllForOther, CallsOnce

\* The other device answers its first request.
LEMMA OtherTail ==
  ASSUME NEW b, NEW a, NEW v, NEW o, OtherOK(b, a, v, o), Len(v) = Len(a), o # <<>>,
         NEW w, Noted(v, o[1].call, w)
  PROVE  OtherOK(b, a, w, Tail(o))
<1> DEFINE u == Tail(o)
<1>1. IsSeq(o) /\ Len(o) \in Nat /\ 1 \in 1..Len(o)
  BY LenIs DEF OtherOK
<1>2. IsSeq(u) /\ Len(u) + 1 = Len(o) /\ \A i \in 1..Len(u) : u[i] = o[i + 1]
  BY <1>1, TailLeft DEF Left
<1> HIDE DEF u
<1>3. Len(u) \in Nat
  BY <1>2, LenIs
<1>4. ASSUME NEW i \in 1..Len(u) PROVE i + 1 \in 1..Len(o) /\ i + 1 # 1
  BY <1>1, <1>2, <1>3
<1>5. ASSUME NEW i \in 1..Len(u)
      PROVE  IsRequest(b, a, u[i]) /\ u[i].unit = Other /\ w[u[i].call] = NotServed
  <2>1. IsRequest(b, a, o[i + 1]) /\ o[i + 1].unit = Other /\ v[o[i + 1].call] = NotServed
    BY <1>4, Zenon DEF OtherOK, AllForOther
  <2>2. o[i + 1].call # o[1].call
    BY <1>1, <1>4, Zenon DEF OtherOK, CallsOnce
  <2>3. o[i + 1].call \in 1..Len(v)
    BY <2>1, RequestIs
  <2>4. w[o[i + 1].call] = NotServed
    BY <2>1, <2>2, <2>3, Zenon DEF Noted
  <2> QED BY <1>2, <2>1, <2>4, Zenon
<1>6. ASSUME NEW i \in 1..Len(u), NEW j \in 1..Len(u), u[i].call = u[j].call
      PROVE  i = j
  <2>1. i + 1 = j + 1
    BY <1>2, <1>4, <1>6, SMTT(20) DEF OtherOK, CallsOnce
  <2> QED BY <2>1
<1>7. b = "tcp" => FALSE
  BY Zenon DEF OtherOK
<1> QED BY <1>2, <1>5, <1>6, <1>7, Zenon DEF OtherOK, AllForOther, CallsOnce, u

LEMMA OtherNoted ==
  ASSUME NEW b, NEW a, NEW v, NEW o, OtherOK(b, a, v, o), Len(v) = Len(a),
         NEW w, NEW c, Noted(v, c, w), a[c].unit # Other \/ w = v
  PROVE  OtherOK(b, a, w, o)
<1>1. ASSUME NEW i \in 1..Len(o)
      PROVE  w[o[i].call] = NotServed
  <2>1. IsRequest(b, a, o[i]) /\ o[i].unit = Other /\ v[o[i].call] = NotServed
    BY Zenon DEF OtherOK, AllForOther
  <2>2. o[i].call \in 1..Len(v) /\ o[i].unit = a[o[i].call].unit
    BY <2>1, RequestIs
  <2>3. o[i].call # c \/ w = v
    BY <2>1, <2>2, Zenon
  <2> QED BY <2>1, <2>2, <2>3, Zenon DEF Noted
<1> QED BY <1>1, Zenon DEF OtherOK, AllForOther

-----------------------------------------------------------------------------

LEMMA ClientLeft ==
  ASSUME NEW b, NEW a, NEW v, NEW s, ClientOK(b, a, v, s), NEW u, Left(s, 0, u)
  PROVE  ClientOK(b, a, v, u)
<1>1. PICK d \in Nat : /\ d >= 0 /\ Len(u) + d = Len(s)
                       /\ \A i \in 1..Len(u) : u[i] = Junk \/ u[i] = s[i + d]
  BY DEF Left
<1>2. IsSeq(u) /\ IsSeq(s) /\ Len(u) \in Nat /\ Len(s) \in Nat
  BY LenIs DEF Left, ClientOK
<1>3. ASSUME NEW i \in 1..Len(u) PROVE ForClient(b, a, v, u[i])
  <2>1. i + d \in 1..Len(s)
    BY <1>1, <1>2
  <2>2. ForClient(b, a, v, s[i + d])
    BY <2>1, Zenon DEF ClientOK, AllForClient
  <2>3. ForClient(b, a, v, Junk)
    BY Zenon DEF ForClient
  <2> QED BY <1>1, <2>2, <2>3, Zenon
<1> QED BY <1>2, <1>3, Zenon DEF ClientOK, AllForClient

LEMMA ClientGrown ==
  ASSUME NEW b, NEW a, NEW v, NEW s, ClientOK(b, a, v, s), Len(v) = Len(a),
         NEW e, Grown(a, e), NEW w, Grown(v, w)
  PROVE  ClientOK(b, e, w, s)
<1>1. ASSUME NEW i \in 1..Len(s) PROVE ForClient(b, e, w, s[i])
  <2>1. ForClient(b, a, v, s[i])
    BY Zenon DEF ClientOK, AllForClient
  <2>2. ASSUME AnswersCall(b, a, v, s[i]) PROVE AnswersCall(b, e, w, s[i])
    <3>1. s[i].call \in 1..Len(a) /\ s[i].call \in 1..Len(v)
      BY <2>2 DEF AnswersCall
    <3>2. e[s[i].call] = a[s[i].call] /\ w[s[i].call] = v[s[i].call]
      BY <3>1, Zenon DEF Grown
    <3>3. s[i].call \in 1..Len(e)
      BY <3>1 DEF Grown
    <3> QED BY <2>2, <3>2, <3>3, Zenon DEF AnswersCall
  <2> QED BY <2>1, <2>2, Zenon DEF ForClient
<1> QED BY <1>1, Zenon DEF ClientOK, AllForClient

LEMMA ClientNoted ==
  ASSUME NEW b, NEW a, NEW v, NEW s, ClientOK(b, a, v, s), Len(v) = Len(a),
         NEW w, NEW c, Noted(v, c, w), v[c] = NotServed \/ w = v
  PROVE  ClientOK(b, a, w, s)
<1>1. ASSUME NEW i \in 1..Len(s) PROVE ForClient(b, a, w, s[i])
  <2>1. ForClient(b, a, v, s[i])
    BY Zenon DEF ClientOK, AllForClient
  <2>2. ASSUME AnswersCall(b, a, v, s[i]) PROVE AnswersCall(b, a, w, s[i])
    <3>1. s[i].call \in 1..Len(v) /\ v[s[i].call] # NotServed
      BY <2>2 DEF AnswersCall
    <3>2. w[s[i].call] = v[s[i].call]
      BY <3>1, Zenon DEF Noted
    <3> QED BY <2>2, <3>2, Zenon DEF AnswersCall
  <2> QED BY <2>1, <2>2, Zenon DEF ForClient
<1> QED BY <1>1, Zenon DEF ClientOK, AllForClient

LEMMA ClientAppend ==
  ASSUME NEW b, NEW a, NEW v, NEW s, ClientOK(b, a, v, s),
         NEW m, ForClient(b, a, v, m), NEW u, Appended(s, m, u)
  PROVE  ClientOK(b, a, v, u)
<1>1. /\ IsSeq(u) /\ Len(u) = Len(s) + 1 /\ u[Len(u)] = m /\ Len(s) \in Nat
      /\ \A i \in 1..Len(s) : u[i] = s[i]
  BY LenIs DEF Appended, ClientOK
<1>2. ASSUME NEW i \in 1..Len(u) PROVE i \in 1..Len(s) \/ i = Len(u)
  BY <1>1
<1>3. ASSUME NEW i \in 1..Len(u) PROVE ForClient(b, a, v, u[i])
  <2>1. CASE i \in 1..Len(s)
    BY <1>1, <2>1, Zenon DEF ClientOK, AllForClient
  <2>2. CASE i = Len(u)
    BY <1>1, <2>2, Zenon
  <2> QED BY <1>2, <2>1, <2>2, Zenon
<1> QED BY <1>1, <1>3, Zenon DEF ClientOK, AllForClient

LEMMA ClientOld ==
  ASSUME NEW b, NEW a, NEW v, NEW s, ClientOK(b, a, v, s), Len(a) \in Nat,
         NEW i \in 1..Len(s)
  PROVE  s[i].call \in 0..Len(a)
<1>1. ForClient(b, a, v, s[i])
  BY Zenon DEF ClientOK, AllForClient
<1>2. CASE s[i] = Junk
  BY <1>2, JunkIs
<1>3. CASE AnswersRaw(s[i])
  BY <1>3 DEF AnswersRaw
<1>4. CASE AnswersCall(b, a, v, s[i])
  BY <1>4 DEF AnswersCall
<1> QED BY <1>1, <1>2, <1>3, <1>4, Zenon DEF ForClient

-----------------------------------------------------------------------------
(* Raw requests are answered, and change nothing                           *)

LEMMA AnswerGood ==
  ASSUME NEW q, NEW f, IsAnswer(q, f)
  PROVE  GoodAnswer(q)
  BY Zenon DEF IsAnswer, GoodAnswer

Harmless(t, a) == a.tab = t /\ (a.pdu = <<>> \/ GoodAnswer(a.pdu))

LEMMA RefusalGood ==
  ASSUME NEW t, NEW p, p[1] \in Nat, NEW code \in Nat,
         NEW a, a \in {Refused(t, p, code), Rejected(t, p, code)}
  PROVE  Harmless(t, a)
<1> DEFINE q == <<p[1] + 128, code>>
<1>1. a.tab = t /\ a.pdu = q
  BY DEF Refused, Rejected
<1>2. q \in Seq(Nat) /\ q # <<>> /\ Len(q) = 2 /\ q[1] >= 128
  OBVIOUS
<1> HIDE DEF q
<1>3. AnswerSize(q) = 2
  BY <1>2, AnswerSizes
<1> QED BY <1>1, <1>2, <1>3, Zenon DEF GoodAnswer, Harmless

LEMMA AnsweredGood ==
  ASSUME NEW t, NEW q, GoodAnswer(q)
  PROVE  Harmless(t, Answered(t, q))
<1>1. Answered(t, q).tab = t /\ Answered(t, q).pdu = q
  BY DEF Answered
<1> QED BY <1>1, Zenon DEF Harmless

LEMMA ListedGood ==
  ASSUME NEW f \in {1, 2, 3, 4, 17, 23}, NEW n \in Nat, NEW u \in Seq(Nat), Len(u) = n
  PROVE  GoodAnswer(Listed(f, n, u))
<1>1. f \in Nat
  OBVIOUS
<1>2. IsListed(Listed(f, n, u), f, n, u)
  BY <1>1, ListedIs, Zenon
<1> QED BY <1>2, ListedSize, AnswerGood, Zenon

\* What a raw request of four bytes after the function reads.
LEMMA WordIn ==
  ASSUME NEW p \in Seq(Nat), Len(p) = 5
  PROVE  Word(p, 2) \in Nat /\ Word(p, 4) \in Nat /\ p[1] \in Nat
<1>1. p[1] \in Nat /\ p[2] \in Nat /\ p[3] \in Nat /\ p[4] \in Nat /\ p[5] \in Nat
  <2>1. \A i \in 1..5 : p[i] \in Nat
    BY ElementOfSeq, Zenon
  <2>2. 1 \in 1..5 /\ 2 \in 1..5 /\ 3 \in 1..5 /\ 4 \in 1..5 /\ 5 \in 1..5
    OBVIOUS
  <2> QED BY <2>1, <2>2, Zenon
<1>2. p[2] * 256 + p[2 + 1] \in Nat /\ p[4] * 256 + p[4 + 1] \in Nat
  BY <1>1, SMTT(20)
<1> QED BY <1>1, <1>2, Zenon DEF Word

LEMMA RawBits ==
  ASSUME NEW p \in Seq(Nat), Len(p) = 5, p[1] \in {1, 2}, NEW t \in Tables,
         InputBits \in [DOMAIN InputBits -> {0, 1}]
  PROVE  Harmless(t, ReplyReadBits(t, p))
<1> DEFINE table == IF p[1] = 2 THEN InputBits ELSE t.bits
           a == Word(p, 2)
           nb == Word(p, 4)
           v == From(table, a, nb)
           u == Pack(v)
           q == Listed(p[1], BytesFor(nb), u)
           legal == nb \in 1..MaxReadBits
           inside == Span(a, nb) \subseteq DOMAIN table
<1>1. a \in Nat /\ nb \in Nat /\ p[1] \in Nat
  BY WordIn
<1>2. table \in [DOMAIN table -> {0, 1}]
  BY DEF Tables
<1> HIDE DEF a, nb, table
<1>3. CASE ~legal
  <2>1. ReplyReadBits(t, p) = Rejected(t, p, IllegalValue)
    BY <1>3, SMT DEF ReplyReadBits, a, nb, table
  <2> QED BY <2>1, <1>1, Codes, RefusalGood, Zenon
<1>4. CASE legal /\ ~inside
  <2>1. ReplyReadBits(t, p) = Refused(t, p, IllegalAddress)
    BY <1>4, SMT DEF ReplyReadBits, a, nb, table
  <2> QED BY <2>1, <1>1, Codes, RefusalGood, Zenon
<1>5. CASE legal /\ inside
  <2>1. ReplyReadBits(t, p) = Answered(t, q)
    BY <1>5, SMT DEF ReplyReadBits, a, nb, table
  <2>2. v \in Seq({0, 1}) /\ Len(v) = nb
    <3>1. IsRow(v, {0, 1}, nb)
      BY <1>1, <1>2, <1>5, FromIs, Zenon
    <3> QED BY <3>1, Zenon DEF IsRow
  <2> HIDE DEF v
  <2>3. u \in Seq(Nat) /\ Len(u) = BytesFor(nb) /\ BytesFor(nb) \in Nat
    BY <2>2, <1>1, PackIs, BytesForIs
  <2> HIDE DEF u
  <2>4. p[1] \in {1, 2, 3, 4, 17, 23}
    OBVIOUS
  <2>5. GoodAnswer(q)
    BY <2>3, <2>4, ListedGood, Zenon
  <2> QED BY <2>1, <2>5, AnsweredGood, Zenon
<1> QED BY <1>3, <1>4, <1>5

LEMMA RawRegisters ==
  ASSUME NEW p \in Seq(Nat), Len(p) = 5, p[1] \in {3, 4}, NEW t \in Tables,
         InputRegs \in [DOMAIN InputRegs -> Word16]
  PROVE  Harmless(t, ReplyReadRegisters(t, p))
<1> DEFINE table == IF p[1] = 4 THEN InputRegs ELSE t.regs
           a == Word(p, 2)
           nb == Word(p, 4)
           v == From(table, a, nb)
           u == Words(v)
           q == Listed(p[1], 2 * nb, u)
           legal == nb \in 1..MaxReadRegisters
           inside == Span(a, nb) \subseteq DOMAIN table
<1>1. a \in Nat /\ nb \in Nat /\ p[1] \in Nat
  BY WordIn
<1>2. table \in [DOMAIN table -> Word16]
  BY DEF Tables
<1> HIDE DEF a, nb, table
<1>3. CASE ~legal
  <2>1. ReplyReadRegisters(t, p) = Rejected(t, p, IllegalValue)
    BY <1>3, SMT DEF ReplyReadRegisters, a, nb, table
  <2> QED BY <2>1, <1>1, Codes, RefusalGood, Zenon
<1>4. CASE legal /\ ~inside
  <2>1. ReplyReadRegisters(t, p) = Refused(t, p, IllegalAddress)
    BY <1>4, SMT DEF ReplyReadRegisters, a, nb, table
  <2> QED BY <2>1, <1>1, Codes, RefusalGood, Zenon
<1>5. CASE legal /\ inside
  <2>1. ReplyReadRegisters(t, p) = Answered(t, q)
    BY <1>5, SMT DEF ReplyReadRegisters, a, nb, table
  <2>2. v \in Seq(Word16) /\ Len(v) = nb
    <3>1. IsRow(v, Word16, nb)
      BY <1>1, <1>2, <1>5, FromIs, Zenon
    <3> QED BY <3>1, Zenon DEF IsRow
  <2> HIDE DEF v
  <2>w. v \in Seq(Nat)
    BY <2>2, SeqOfWords
  <2>3. u \in Seq(Nat) /\ Len(u) = 2 * nb /\ 2 * nb \in Nat
    <3>1. u \in Seq(Nat) /\ Len(u) = 2 * Len(v)
      BY <2>w, WordsIs, Zenon
    <3>2. 2 * nb \in Nat
      BY <1>1
    <3> QED BY <2>2, <3>1, <3>2, Zenon
  <2> HIDE DEF u
  <2>4. p[1] \in {1, 2, 3, 4, 17, 23}
    OBVIOUS
  <2>5. GoodAnswer(q)
    BY <2>3, <2>4, ListedGood, Zenon
  <2> QED BY <2>1, <2>5, AnsweredGood, Zenon
<1> QED BY <1>3, <1>4, <1>5

LEMMA RawPdu ==
  ASSUME NEW p \in Raw
  PROVE  /\ p \in Seq(Nat) /\ p # <<>> /\ RequestSize(p) = Len(p)
         /\ p[1] \in Nat /\ p[1] < 128 /\ p[1] \notin {5, 6, 15, 16, 22, 23}
<1>1. /\ p \in Seq(0..255) /\ p # <<>> /\ Size(p, FALSE) = Len(p)
      /\ p[1] \in 1..127 \ {5, 6, 15, 16, 22, 23}
  BY RawAssumption
<1>2. 0..255 \subseteq Nat
  BY SMT
<1>3. p \in Seq(Nat)
  BY <1>1, <1>2, SeqMonotonic, Zenon
<1> DEFINE f == p[1]
<1>4. f \in Nat /\ f < 128 /\ f \notin {5, 6, 15, 16, 22, 23}
  <2>1. f \in 1..127 \ {5, 6, 15, 16, 22, 23}
    BY <1>1, Zenon
  <2> HIDE DEF f
  <2> QED BY <2>1, SMT
<1> QED BY <1>1, <1>3, <1>4, Zenon DEF RequestSize

LEMMA RawReply ==
  ASSUME NEW p \in Raw, NEW t \in Tables
  PROVE  Harmless(t, Reply(t, p))
<1>1. /\ p \in Seq(Nat) /\ p # <<>> /\ RequestSize(p) = Len(p)
      /\ p[1] \in Nat /\ p[1] < 128 /\ p[1] \notin {5, 6, 15, 16, 22, 23}
  BY RawPdu, Zenon
<1>2. CASE p[1] \in {1, 2}
  <2>1. Len(p) = 5
    <3>1. p[1] <= 6
      BY <1>2
    <3> QED BY <1>1, <3>1, RequestSizes
  <2>2. Reply(t, p) = ReplyReadBits(t, p)
    BY <1>2, SMT DEF Reply
  <2> QED BY <1>1, <1>2, <2>1, <2>2, RawBits, Configured, Zenon
<1>3. CASE p[1] \in {3, 4}
  <2>1. Len(p) = 5
    <3>1. p[1] <= 6
      BY <1>3
    <3> QED BY <1>1, <3>1, RequestSizes
  <2>2. Reply(t, p) = ReplyReadRegisters(t, p)
    BY <1>3, SMT DEF Reply
  <2> QED BY <1>1, <1>3, <2>1, <2>2, RawRegisters, Configured, Zenon
<1>4. CASE p[1] = 7
  <2> DEFINE e == <<>>
  <2>1. Answered(t, e).tab = t /\ Answered(t, e).pdu = e
    BY DEF Answered
  <2>2. Reply(t, p) = Answered(t, e)
    <3> HIDE DEF e
    <3> QED BY <1>4, SMT DEF Reply, e
  <2> QED BY <2>1, <2>2, Zenon DEF Harmless
<1>5. CASE p[1] = 17
  <2> DEFINE s == SlaveId
  <2>1. s \in Seq(Nat) /\ Len(s) \in Nat /\ 17 \in {1, 2, 3, 4, 17, 23}
    BY DEF SlaveId
  <2>2. Reply(t, p) = ReplySlaveId(t)
    BY <1>5, SMT DEF Reply
  <2>3. GoodAnswer(Listed(17, Len(s), s))
    <3> HIDE DEF s
    <3> QED BY <2>1, ListedGood, Zenon
  <2> QED BY <2>2, <2>3, AnsweredGood, Zenon DEF ReplySlaveId
<1>6. CASE p[1] \notin {1, 2, 3, 4, 7, 17}
  <2>1. Reply(t, p) = Rejected(t, p, IllegalFunction)
    BY <1>1, <1>6, SMT DEF Reply
  <2> QED BY <2>1, <1>1, Codes, RefusalGood, Zenon
<1> QED BY <1>2, <1>3, <1>4, <1>5, <1>6

-----------------------------------------------------------------------------
(* Noting what was served                                                  *)

LEMMA ExceptIs ==
  ASSUME NEW v, IsSeq(v), NEW c \in 1..Len(v), NEW e
  PROVE  Noted(v, c, [v EXCEPT ![c] = e]) /\ [v EXCEPT ![c] = e][c] = e
<1> DEFINE S == {v[i] : i \in 1..Len(v)} \union {e}
           w == [v EXCEPT ![c] = e]
<1>1. v \in Seq(S)
  <2>1. {v[i] : i \in 1..Len(v)} \subseteq S
    OBVIOUS
  <2> HIDE DEF S
  <2> QED BY <2>1, SeqMonotonic, Zenon DEF IsSeq
<1>2. e \in S
  OBVIOUS
<1> HIDE DEF S
<1>3. /\ w \in Seq(S) /\ Len(w) = Len(v)
      /\ \A i \in 1..Len(v) : w[i] = IF i = c THEN e ELSE v[i]
  BY <1>1, <1>2, ExceptSeq
<1> HIDE DEF w
<1>4. IsSeq(w)
  BY <1>3, SeqIs, Zenon
<1>5. Noted(v, c, w) /\ w[c] = e
  BY <1>3, <1>4, Zenon DEF Noted
<1> QED BY <1>5 DEF w

\* What is noted about the answer of a device.
Note(r, by, u) ==
  [by |-> IF Legal(r) THEN by ELSE "refused",
   val |-> IF Legal(r) THEN Gets(r, u) ELSE <<>>]

LEMMA NoteIs ==
  ASSUME NEW r \in Request, NEW t, NEW x, Fits(r, t, x),
         NEW by \in {"own", "other"}, NEW e, e = Note(r, by, x.tab)
  PROVE  /\ e # NotServed /\ GoodAnswer(x.pdu)
         /\ x.pdu[1] < 128 => e.by \in {"own", "other"} /\ e.val = Values(r, x.pdu)
<1>1. r.f \in Nat
  BY Configured, FormIs
<1>2. CASE Legal(r)
  <2>1. IsAnswer(x.pdu, r.f) /\ Values(r, x.pdu) = Gets(r, x.tab)
    BY <1>2, Zenon DEF Fits
  <2>2. e.by = by /\ e.val = Gets(r, x.tab)
    <3> DEFINE z == Gets(r, x.tab)
    <3> HIDE DEF z
    <3>1. e = [by |-> by, val |-> z]
      BY <1>2, Zenon DEF Note, z
    <3> QED BY <3>1 DEF z
  <2>3. e # NotServed
    <3>1. NotServed.by = "none"
      BY DEF NotServed
    <3>2. by # "none"
      OBVIOUS
    <3> QED BY <2>2, <3>1, <3>2, Zenon
  <2> QED BY <2>1, <2>2, <2>3, AnswerGood, Zenon
<1>3. CASE ~Legal(r)
  <2>1. IsAnswer(x.pdu, r.f + 128)
    BY <1>3, Zenon DEF Fits
  <2>2. e.by = "refused"
    <3>1. e = [by |-> "refused", val |-> <<>>]
      BY <1>3, Zenon DEF Note
    <3> QED BY <3>1
  <2>3. e # NotServed
    BY <2>2 DEF NotServed
  <2>4. ~(x.pdu[1] < 128)
    <3>1. x.pdu[1] = r.f + 128
      BY <2>1, Zenon DEF IsAnswer
    <3> QED BY <1>1, <3>1
  <2> QED BY <2>1, <2>3, <2>4, AnswerGood, Zenon
<1> QED BY <1>2, <1>3

\* What was got stays what was served.
LEMMA GotNoted ==
  ASSUME NEW v, NEW g, WellGot(v, g), IsSeq(v), NEW w, NEW c, Noted(v, c, w),
         v[c] = NotServed \/ w = v
  PROVE  WellGot(w, g)
<1>1. g.call \in 1..Len(v) /\ DOMAIN w = 1..Len(w) /\ Len(w) = Len(v)
  BY LenIs DEF WellGot, Noted
<1>2. v[g.call].by # "none" /\ NotServed.by = "none"
  BY DEF WellGot, NotServed
<1>3. g.call # c \/ w = v
  BY <1>2, Zenon
<1>4. w[g.call] = v[g.call]
  BY <1>1, <1>3, Zenon DEF Noted
<1> QED BY <1>1, <1>4, Zenon DEF WellGot

-----------------------------------------------------------------------------
(* The serial line is quiet                                                *)

LEMMA NoneIn ==
  ASSUME NEW s, IsSeq(s), \A i \in 1..Len(s) : FALSE
  PROVE  s = <<>>
  BY LenIs

LEMMA QuietIdle ==
  ASSUME NEW a, NEW s, NEW c, NEW o, Quiet(a, s, c, o, <<>>), IsSeq(c), IsSeq(o)
  PROVE  c = <<>> /\ o = <<>> /\ \A i \in 1..Len(s) : s[i].unit # Own
<1>1. c = <<>> /\ o = <<>>
  BY NoneIn, Zenon DEF Quiet
<1> QED BY <1>1, Zenon DEF Quiet

\* Messages to the server may go.
LEMMA QuietLeft ==
  ASSUME NEW a, NEW s, NEW c, NEW o, NEW w, Quiet(a, s, c, o, w), IsSeq(s),
         NEW u, Left(s, 0, u)
  PROVE  Quiet(a, u, c, o, w)
<1>1. PICK d \in Nat : /\ d >= 0 /\ Len(u) + d = Len(s)
                       /\ \A i \in 1..Len(u) : u[i] = Junk \/ u[i] = s[i + d]
  BY DEF Left
<1>2. Len(u) \in Nat /\ Len(s) \in Nat
  BY LenIs DEF Left
<1>3. ASSUME NEW i \in 1..Len(u), u[i].unit = Own
      PROVE  u[i].call = Len(a) /\ w # <<>> /\ c = <<>> /\ o = <<>>
  <2>1. u[i] = s[i + d]
    BY <1>1, <1>3, JunkIs, Zenon
  <2>2. i + d \in 1..Len(s)
    BY <1>1, <1>2
  <2> QED BY <1>3, <2>1, <2>2, Zenon DEF Quiet
<1> QED BY <1>3, Zenon DEF Quiet

\* A line with no answer on its way and no request of the server's.
LEMMA QuietNone ==
  ASSUME NEW a, NEW s, NEW w, \A i \in 1..Len(s) : s[i].unit # Own
  PROVE  Quiet(a, s, <<>>, <<>>, w)
<1>1. \A i \in 1..Len(<<>>) : FALSE
  BY EmptyIs
<1> QED BY <1>1, Zenon DEF Quiet

\* A request to the server, or an answer of it.
LEMMA OneIn ==
  ASSUME NEW e, NEW u, Appended(<<>>, e, u)
  PROVE  \A i \in 1..Len(u) : i = 1 /\ u[i] = e
  BY EmptyIs DEF Appended

LEMMA QuietServer ==
  ASSUME NEW a, NEW s, IsSeq(s), \A i \in 1..Len(s) : s[i].unit # Own,
         NEW m, m.call = Len(a), NEW u, Appended(s, m, u), NEW w, w # <<>>
  PROVE  Quiet(a, u, <<>>, <<>>, w)
<1>1. /\ Len(u) = Len(s) + 1 /\ u[Len(u)] = m /\ Len(s) \in Nat
      /\ \A i \in 1..Len(s) : u[i] = s[i]
  BY LenIs DEF Appended
<1>2. ASSUME NEW i \in 1..Len(u), u[i].unit = Own PROVE u[i].call = Len(a)
  <2>1. CASE i \in 1..Len(s)
    BY <1>1, <1>2, <2>1, Zenon
  <2>2. CASE i = Len(u)
    BY <1>1, <2>2, Zenon
  <2>3. i \in 1..Len(s) \/ i = Len(u)
    BY <1>1
  <2> QED BY <2>1, <2>2, <2>3, Zenon
<1>3. \A i \in 1..Len(<<>>) : FALSE
  BY EmptyIs
<1> QED BY <1>2, <1>3, Zenon DEF Quiet

LEMMA QuietOther ==
  ASSUME NEW a, NEW s, \A i \in 1..Len(s) : s[i].unit # Own,
         NEW m, m.call = Len(a), NEW u, Appended(<<>>, m, u), NEW w, w # <<>>
  PROVE  Quiet(a, s, <<>>, u, w) /\ Quiet(a, s, u, <<>>, w)
<1>1. \A i \in 1..Len(u) : i = 1 /\ u[i] = m
  BY OneIn, Zenon
<1>2. \A i \in 1..Len(<<>>) : FALSE
  BY EmptyIs
<1> QED BY <1>1, <1>2, Zenon DEF Quiet

LEMMA NotOwn ==
  ASSUME NEW s, IsSeq(s), \A i \in 1..Len(s) : s[i].unit # Own, NEW m, m.unit # Own,
         NEW u, Appended(s, m, u)
  PROVE  \A i \in 1..Len(u) : u[i].unit # Own
<1>1. /\ Len(u) = Len(s) + 1 /\ u[Len(u)] = m /\ Len(s) \in Nat
      /\ \A i \in 1..Len(s) : u[i] = s[i]
  BY LenIs DEF Appended
<1> TAKE i \in 1..Len(u)
<1>2. i \in 1..Len(s) \/ i = Len(u)
  BY <1>1
<1> QED BY <1>1, <1>2, Zenon

-----------------------------------------------------------------------------
(* The steps of the client                                                 *)

LEMMA EmptyOK ==
  ASSUME NEW b, NEW a, NEW v
  PROVE  ServerOK(b, a, v, <<>>) /\ ClientOK(b, a, v, <<>>) /\ OtherOK(b, a, v, <<>>)
<1>1. IsSeq(<<>>) /\ \A i \in 1..Len(<<>>) : FALSE
  BY EmptyIs
<1> QED BY <1>1, Zenon DEF ServerOK, ClientOK, OtherOK, AllForServer, AllUnserved,
                          EachOnce, AllForClient, AllForOther, CallsOnce

LEMMA BlankIs ==
  Blank \in Tables
<1>1. 0 \in Word16
  <2>1. 0 \in Nat /\ 0 <= MaxWord
    BY SMT DEF MaxWord
  <2> QED BY <2>1, InWord
<1>2. [x \in Bits |-> 0] \in [Bits -> {0, 1}] /\ [x \in Regs |-> 0] \in [Regs -> Word16]
  BY <1>1
<1> QED BY <1>2 DEF Blank, Tables

\* The system starts with nothing under way.
LEMMA InitIInv ==
  ASSUME Init
  PROVE  IInv
<1>1. Settings
  <2>1. Tid(backend, 0) = 0
    BY DEF Tid
  <2>2. Len(asked) = 0
    BY EmptyIs DEF Init
  <2>3. /\ backend \in Backend /\ recovery \in Recovery
        /\ alive \in BOOLEAN /\ ignore \in BOOLEAN /\ late \in BOOLEAN /\ alive = TRUE
    BY Zenon DEF Init
  <2>4. tab \in Tables /\ t_id = 0
    BY BlankIs DEF Init
  <2> QED BY <2>1, <2>2, <2>3, <2>4, Zenon DEF Settings
<1>2. CallsOK(backend, asked, served)
  <2>1. asked = <<>> /\ served = <<>>
    BY DEF Init
  <2>2. 0 <= MaxCalls
    BY ModbusAssumption
  <2>3. Len(<<>>) = 0 /\ \A i \in 1..Len(<<>>) : FALSE
    BY EmptyIs
  <2> QED BY <2>1, <2>2, <2>3, EmptyIs, Zenon DEF CallsOK
<1>3. /\ toServer = <<>> /\ toClient = <<>> /\ other = <<>> /\ waiting = <<>>
      /\ got = Nothing
  BY DEF Init
<1>4. Quiet(asked, toServer, toClient, other, waiting)
  <2>1. \A i \in 1..Len(<<>>) : FALSE
    BY EmptyIs
  <2>2. \A i \in 1..Len(toServer) : toServer[i].unit # Own
    BY <1>3, <2>1, Zenon
  <2> QED BY <1>3, <2>2, QuietNone, Zenon
<1> QED BY <1>1, <1>2, <1>3, <1>4, EmptyOK, Zenon DEF IInv, WaitOK

LEMMA NumberIs ==
  ASSUME Settings, Len(asked) \in Nat, Len(asked) < MaxCalls
  PROVE  NextTid = Tid(backend, Len(asked) + 1)
<1>1. TidSpan \in Nat /\ MaxCalls \in Nat /\ Len(asked) + 1 < TidSpan
  BY ModbusAssumption
<1>2. (Len(asked) + 1) % TidSpan = Len(asked) + 1
  BY <1>1
<1>3. t_id = Tid(backend, Len(asked))
  BY Zenon DEF Settings
<1> QED BY <1>2, <1>3, Zenon DEF NextTid, Tid

LEMMA NotNone ==
  ASSUME NEW t, NEW u, NEW p, NEW c
  PROVE  Message(t, u, p, c) # <<>>
<1>1. "tid" \in DOMAIN Message(t, u, p, c)
  BY DEF Message
<1>2. DOMAIN <<>> = {}
  OBVIOUS
<1> QED BY <1>1, <1>2

LEMMA CallKeeps ==
  ASSUME IInv, NEW r \in Request, NEW unit \in {Broadcast, Own, Other}, Call(r, unit)
  PROVE  IInv'
<1> DEFINE n == Len(asked)
           x == [r |-> r, unit |-> unit]
           m == Message(NextTid, unit, Pdu(r), n + 1)
<1>1. /\ waiting = <<>> /\ n < MaxCalls /\ Within(r)
      /\ backend = "tcp" => unit = Own
      /\ t_id' = NextTid /\ waiting' = (IF alive' THEN m ELSE <<>>)
      /\ asked' = Append(asked, x) /\ served' = Append(served, NotServed)
      /\ got' = Nothing
      /\ backend' = backend /\ recovery' = recovery
      /\ UNCHANGED <<toClient, ignore, tab, late>>
  BY Zenon DEF Call, setting
<1>2. /\ alive' = (alive \/ "link" \in recovery)
      /\ toServer' = (IF alive' THEN Append(toServer, m) ELSE toServer)
      /\ other' = IF backend = "rtu" /\ m.unit = Other THEN Append(other, m) ELSE other
  BY Zenon DEF Call, Send
<1>3. n \in Nat /\ Len(served) = n /\ IsSeq(asked) /\ IsSeq(served)
  BY LenIs DEF IInv, CallsOK
<1>4. Appended(asked, x, asked') /\ Appended(served, NotServed, served')
  BY <1>1, <1>3, AppendIs, Zenon
<1>5. /\ Len(asked') = n + 1 /\ Len(served') = n + 1
      /\ asked'[n + 1] = x /\ served'[n + 1] = NotServed
      /\ IsSeq(asked') /\ IsSeq(served')
      /\ Grown(asked, asked') /\ Grown(served, served')
  BY <1>3, <1>4, Zenon DEF Appended, Grown
<1>6. m.tid = NextTid /\ m.unit = unit /\ m.pdu = Pdu(r) /\ m.call = n + 1 /\ m # <<>>
  <2>1. m # <<>>
    BY NotNone, Zenon
  <2> QED BY <2>1 DEF Message
<1>7. x.r = r /\ x.unit = unit
  OBVIOUS
<1>8. Settings /\ NextTid = Tid(backend, n + 1)
  BY <1>1, <1>3, NumberIs, Zenon DEF IInv
<1>9. m = ReqOf(backend, asked', n + 1)
  BY <1>5, <1>7, <1>8, Zenon DEF ReqOf
<1> HIDE DEF m, x
<1>10. IsRequest(backend, asked', m)
  <2>1. m.call \in 1..Len(asked')
    BY <1>3, <1>5, <1>6
  <2> QED BY <2>1, <1>6, <1>9, Zenon DEF IsRequest
<1>11. CallsOK(backend, asked', served')
  <2>1. n + 1 <= MaxCalls
    BY <1>1, <1>3, ModbusAssumption
  <2>2. IsCall(backend, x)
    BY <1>1, <1>7, Zenon DEF IsCall
  <2>3. ASSUME NEW c \in 1..n + 1 PROVE IsCall(backend, asked'[c])
    <3>1. c \in 1..n \/ c = n + 1
      BY <1>3
    <3>2. CASE c \in 1..n
      BY <1>5, <3>2, Zenon DEF Grown, IInv, CallsOK
    <3> QED BY <1>5, <2>2, <3>1, <3>2, Zenon
  <2> QED BY <1>5, <2>1, <2>3, Zenon DEF CallsOK
<1>12. WaitOK(backend, asked', waiting')
  <2>1. n + 1 > 0
    BY <1>3
  <2> QED BY <1>1, <1>5, <1>9, <2>1, Zenon DEF WaitOK
<1>13. ServerOK(backend, asked', served', toServer')
  <2>1. ServerOK(backend, asked', served', toServer)
    BY <1>3, <1>5, ServerGrown, Zenon DEF IInv
  <2>2. \A i \in 1..Len(toServer) : toServer[i].call # m.call
    <3>1. \A i \in 1..Len(toServer) : toServer[i].call \in 0..n
      BY <1>3, ServerOld, Zenon DEF IInv
    <3> QED BY <1>3, <1>6, <3>1
  <2>3. ForServer(backend, asked', m) /\ served'[m.call] = NotServed
    BY <1>5, <1>6, <1>10, Zenon DEF ForServer
  <2>4. Appended(toServer, m, Append(toServer, m))
    BY AppendIs, Zenon DEF IInv, ServerOK
  <2>5. ServerOK(backend, asked', served', Append(toServer, m))
    BY <2>1, <2>2, <2>3, <2>4, ServerAppend, Zenon
  <2> QED BY <1>2, <2>1, <2>5, Zenon
<1>14. OtherOK(backend, asked', served', other')
  <2>1. OtherOK(backend, asked', served', other)
    BY <1>3, <1>5, OtherGrown, Zenon DEF IInv
  <2>2. \A i \in 1..Len(other) : other[i].call # m.call
    <3>1. \A i \in 1..Len(other) : other[i].call \in 1..n
      <4>1. \A i \in 1..Len(other) : IsRequest(backend, asked, other[i])
        BY Zenon DEF IInv, OtherOK, AllForOther
      <4> QED BY <4>1, RequestIs, Zenon
    <3> QED BY <1>3, <1>6, <3>1
  <2>3. served'[m.call] = NotServed
    BY <1>5, <1>6, Zenon
  <2>4. Appended(other, m, Append(other, m))
    BY AppendIs, Zenon DEF IInv, OtherOK
  <2>5. CASE backend = "rtu" /\ m.unit = Other
    <3>1. backend # "tcp"
      BY <2>5
    <3>2. OtherOK(backend, asked', served', Append(other, m))
      BY <1>10, <2>1, <2>2, <2>3, <2>4, <2>5, <3>1, OtherAppend, Zenon
    <3> QED BY <1>2, <2>5, <3>2, Zenon
  <2>6. CASE ~(backend = "rtu" /\ m.unit = Other)
    BY <1>2, <2>1, <2>6, Zenon
  <2> QED BY <2>5, <2>6
<1>15. ClientOK(backend, asked', served', toClient)
  BY <1>3, <1>5, ClientGrown, Zenon DEF IInv
<1>16. ASSUME backend = "rtu", late = FALSE
       PROVE  Quiet(asked', toServer', toClient, other', waiting')
  <2>1. Quiet(asked, toServer, toClient, other, <<>>)
    BY <1>1, <1>16, Zenon DEF IInv
  <2>2. IsSeq(toServer) /\ IsSeq(toClient) /\ IsSeq(other)
    BY Zenon DEF IInv, ServerOK, ClientOK, OtherOK
  <2>3. toClient = <<>> /\ other = <<>> /\ \A i \in 1..Len(toServer) : toServer[i].unit # Own
    BY <2>1, <2>2, QuietIdle, Zenon
  <2>4. alive' = TRUE
    BY <1>2, <1>8, <1>16, Zenon DEF Settings
  <2>5. waiting' # <<>> /\ toServer' = Append(toServer, m)
    BY <1>1, <1>2, <1>6, <2>4, Zenon DEF m
  <2>6. Appended(toServer, m, toServer') /\ m.call = Len(asked')
    BY <1>5, <1>6, <2>2, <2>5, AppendIs, Zenon
  <2>7. CASE unit = Other
    <3>1. other' = Append(<<>>, m)
      BY <1>2, <1>6, <1>16, <2>3, <2>7, Zenon
    <3>2. Appended(<<>>, m, other')
      BY <3>1, EmptyIs, AppendIs, Zenon
    <3>3. m.unit # Own
      BY <1>6, <2>7, Units
    <3>4. \A i \in 1..Len(toServer') : toServer'[i].unit # Own
      BY <2>2, <2>3, <2>6, <3>3, NotOwn, Zenon
    <3> QED BY <2>3, <2>5, <2>6, <3>2, <3>4, QuietOther, Zenon
  <2>8. CASE unit # Other
    <3>1. other' = <<>>
      BY <1>2, <1>6, <2>3, <2>8, Zenon
    <3>2. Quiet(asked', toServer', <<>>, <<>>, waiting')
      BY <2>2, <2>3, <2>5, <2>6, QuietServer, Zenon
    <3> QED BY <2>3, <3>1, <3>2, Zenon
  <2> QED BY <2>7, <2>8
<1>17. Settings'
  <2>1. alive' \in BOOLEAN
    BY <1>2, Zenon
  <2>2. t_id' = Tid(backend, Len(asked'))
    BY <1>1, <1>5, <1>8, Zenon
  <2>3. backend = "rtu" => alive' = TRUE
    BY <1>2, <1>8, Zenon DEF Settings
  <2> QED BY <1>1, <1>8, <2>1, <2>2, <2>3, Zenon DEF Settings
<1> QED BY <1>1, <1>11, <1>12, <1>13, <1>14, <1>15, <1>16, <1>17, Zenon DEF IInv

LEMMA SendRawKeeps ==
  ASSUME IInv, NEW p \in Raw, SendRaw(p)
  PROVE  IInv'
<1> DEFINE m == Message(0, Own, p, 0)
<1>1. /\ alive = TRUE /\ late' = TRUE
      /\ UNCHANGED <<backend, recovery, t_id, toClient, waiting, ignore, tab, asked, served, got>>
  BY Zenon DEF SendRaw, setting, history
<1>2. /\ alive' = (alive \/ "link" \in recovery)
      /\ toServer' = (IF alive' THEN Append(toServer, m) ELSE toServer)
      /\ other' = IF backend = "rtu" /\ m.unit = Other THEN Append(other, m) ELSE other
  BY Zenon DEF SendRaw, Send
<1>3. m.unit = Own /\ m.pdu = p /\ m.call = 0
  BY DEF Message
<1>4. IsRaw(m) /\ ~ToServe(m)
  <2>1. m = Message(0, Own, m.pdu, 0)
    BY <1>3, Zenon
  <2>2. ~(m.call > 0)
    BY <1>3
  <2> QED BY <1>3, <2>1, <2>2, Zenon DEF IsRaw, ToServe
<1> HIDE DEF m
<1>5. alive' = TRUE /\ toServer' = Append(toServer, m) /\ other' = other
  <2>1. Own # Other
    BY Units
  <2> QED BY <1>1, <1>2, <1>3, <2>1, Zenon
<1>6. ServerOK(backend, asked, served, toServer')
  <2>1. Appended(toServer, m, toServer')
    BY <1>5, AppendIs, Zenon DEF IInv, ServerOK
  <2> QED BY <1>4, <2>1, ServerAppend, Zenon DEF IInv, ForServer
<1>7. Settings'
  BY <1>1, <1>5, Zenon DEF IInv, Settings
<1>8. ~(late' = FALSE)
  BY <1>1
<1> QED BY <1>1, <1>5, <1>6, <1>7, <1>8, Zenon DEF IInv

\* A confirmation that is accepted is a message that passed the first check
\* and is no exception.
LEMMA AcceptedIs ==
  ASSUME NEW m, m.pdu[1] \in Nat, Check(m) = "ok"
  PROVE  m # Junk /\ PreCheck(m) /\ m.pdu[1] < 128
<1> DEFINE f == m.pdu[1]
           p == waiting.pdu
           mine == m # Junk /\ PreCheck(m)
           A == IF Received(m) = 2 /\ p[1] = f - 128 THEN "exception" ELSE "badexception"
           B == IF /\ Expected(p) \in {-1, Received(m)}
                   /\ f = p[1]
                   /\ f \in {15, 16} => Word(m.pdu, 4) = Word(p, 4)
                THEN "ok" ELSE "bad"
<1>1. Check(m) = CASE ~mine -> "bad" [] mine /\ f >= 128 -> A [] mine /\ f < 128 -> B
  BY Zenon DEF Check
<1>2. A # "ok"
  OBVIOUS
<1> HIDE DEF mine, f, A, B
<1>3. f \in Nat
  BY DEF f
<1>4. CASE ~mine
  <2>1. Check(m) = "bad"
    BY <1>1, <1>4, SMT
  <2> QED BY <2>1
<1>5. CASE mine /\ f >= 128
  <2>1. ~(f < 128)
    BY <1>3, <1>5
  <2>2. Check(m) = A
    BY <1>1, <1>5, <2>1, SMT
  <2> QED BY <2>2, <1>2
<1>6. CASE mine /\ ~(f >= 128)
  <2>1. f < 128
    BY <1>3, <1>6
  <2> QED BY <2>1, <1>6, Zenon DEF mine, f
<1> QED BY <1>4, <1>5, <1>6

LEMMA LeftSelf ==
  ASSUME NEW s, IsSeq(s)
  PROVE  Left(s, 0, s)
<1>1. 0 \in Nat /\ 0 >= 0 /\ Len(s) + 0 = Len(s)
  BY LenIs
<1>2. \A i \in 1..Len(s) : s[i] = s[i + 0]
  OBVIOUS
<1> QED BY <1>1, <1>2 DEF Left

LEMMA ConfirmKeeps ==
  ASSUME IInv, Confirm
  PROVE  IInv'
<1> DEFINE m == Head(toClient)
           verdict == Check(m)
           n == Len(asked)
           ok == [call |-> waiting.call, from |-> m.call,
                  val |-> Values(asked[waiting.call].r, m.pdu)]
<1>1. /\ waiting # <<>> /\ toClient # <<>> /\ waiting' = <<>>
      /\ UNCHANGED <<backend, recovery, alive, t_id, toServer, other, ignore, tab, asked, served>>
      /\ IF verdict = "bad" /\ "protocol" \in recovery
         THEN toClient' \in Flushed(Tail(toClient)) ELSE toClient' = Tail(toClient)
      /\ got' = IF verdict = "ok" THEN ok ELSE Nothing
      /\ late' = (late \/ verdict \in {"bad", "badexception"})
  BY Zenon DEF Confirm, setting
<1>2. IsSeq(toClient) /\ IsSeq(toServer) /\ n \in Nat
  BY LenIs DEF IInv, ClientOK, ServerOK, CallsOK
<1>3. /\ Left(toClient, 1, Tail(toClient)) /\ m = toClient[1] /\ 1 \in 1..Len(toClient)
      /\ Len(Tail(toClient)) + 1 = Len(toClient) /\ Len(toClient) \in Nat
      /\ IsSeq(Tail(toClient))
  <2>1. Len(toClient) \in Nat /\ 1 \in 1..Len(toClient)
    BY <1>1, <1>2, LenIs
  <2> QED BY <1>1, <1>2, <2>1, TailLeft, Zenon DEF Left
<1> HIDE DEF m
<1>4. Left(toClient, 0, toClient')
  <2>1. Left(toClient, 0, Tail(toClient))
    BY <1>3, Weaker, Zenon
  <2>2. CASE toClient' = Tail(toClient)
    BY <2>1, <2>2, Zenon
  <2>3. CASE toClient' \in Flushed(Tail(toClient))
    <3>1. Left(Tail(toClient), 0, toClient')
      BY <1>3, <2>3, SuffixLeft, Zenon DEF Flushed
    <3>2. 0 \in Nat
      OBVIOUS
    <3> QED BY <1>2, <2>1, <3>1, <3>2, LeftLeft, Zenon
  <2> QED BY <1>1, <2>2, <2>3, Zenon
<1>5. ClientOK(backend, asked, served, toClient')
  BY <1>4, ClientLeft, Zenon DEF IInv
<1> HIDE DEF verdict, ok
<1>6. late' = FALSE => late = FALSE /\ verdict # "bad"
  <2>1. late \in BOOLEAN
    BY Zenon DEF IInv, Settings
  <2>2. late = FALSE \/ late = TRUE
    BY <2>1, Zenon
  <2> QED BY <1>1, <2>2, Zenon
<1>7. ASSUME backend = "rtu", late' = FALSE
      PROVE  Quiet(asked, toServer, toClient', other, <<>>)
  <2>1. Quiet(asked, toServer, toClient, other, waiting)
    BY <1>6, <1>7, Zenon DEF IInv
  <2>2. other = <<>> /\ \A i \in 1..Len(toClient) : i = 1
    BY <1>3, <2>1, Zenon DEF Quiet
  <2>3. \A i \in 1..Len(toServer) : toServer[i].unit # Own
    BY <1>1, <2>1, Zenon DEF Quiet
  <2>4. toClient' = <<>>
    <3>1. toClient' = Tail(toClient)
      BY <1>1, <1>6, <1>7, Zenon
    <3>2. Len(toClient) \in 1..Len(toClient)
      BY <1>3
    <3>3. Len(toClient) = 1
      BY <2>2, <3>2, Zenon
    <3>4. Len(Tail(toClient)) = 0
      <4>1. Len(Tail(toClient)) \in Nat
        BY <1>3, LenIs, Zenon
      <4> QED BY <1>3, <3>3, <4>1
    <3> QED BY <1>3, <3>1, <3>4, LenIs, Zenon
  <2> QED BY <2>2, <2>3, <2>4, QuietNone, Zenon
<1>8. ASSUME got' # Nothing, backend = "tcp" \/ late' = FALSE
      PROVE  WellGot(served, got')
  <2>1. verdict = "ok" /\ got' = ok
    BY <1>1, <1>8, Zenon
  <2>2. got'.call = waiting.call /\ got'.from = m.call
        /\ got'.val = Values(asked[waiting.call].r, m.pdu)
    BY <2>1 DEF ok
  <2>3. n > 0 /\ waiting = ReqOf(backend, asked, n)
    BY <1>1, Zenon DEF IInv, WaitOK
  <2>4. waiting.call = n /\ waiting.tid = Tid(backend, n)
    BY <2>3 DEF ReqOf, Message
  <2>5. ForClient(backend, asked, served, m)
    BY <1>3, Zenon DEF IInv, ClientOK, AllForClient
  <2>6. m.pdu[1] \in Nat \/ m = Junk
    <3>1. m = Junk \/ GoodAnswer(m.pdu)
      BY <2>5, Zenon DEF ForClient
    <3>2. ASSUME GoodAnswer(m.pdu) PROVE m.pdu[1] \in Nat
      BY <3>2 DEF GoodAnswer
    <3> QED BY <3>1, <3>2
  <2>7. m # Junk /\ PreCheck(m) /\ m.pdu[1] < 128
    <3>1. CASE m = Junk
      <4>1. ~(m # Junk /\ PreCheck(m))
        BY <3>1, Zenon
      <4>2. Check(m) = "bad"
        BY <4>1, SMT DEF Check
      <4> QED BY <2>1, <4>2 DEF verdict
    <3>2. CASE m.pdu[1] \in Nat
      BY <2>1, <3>2, AcceptedIs, Zenon DEF verdict
    <3> QED BY <2>6, <3>1, <3>2
  <2>8. m.call = n /\ AnswersCall(backend, asked, served, m)
    <3>1. AnswersRaw(m) \/ AnswersCall(backend, asked, served, m)
      BY <2>5, <2>7, Zenon DEF ForClient
    <3>2. CASE backend = "tcp"
      <4>1. m.tid = n
        BY <2>4, <2>7, <3>2, Zenon DEF PreCheck, Tid
      <4>2. n # 0
        BY <2>3
      <4>3. AnswersCall(backend, asked, served, m)
        BY <3>1, <4>1, <4>2, Zenon DEF AnswersRaw
      <4>4. m.tid = m.call
        BY <3>2, <4>3, Zenon DEF AnswersCall, Tid
      <4> QED BY <4>1, <4>3, <4>4
    <3>3. CASE backend # "tcp"
      <4>1. backend = "rtu" /\ late = FALSE
        <5>1. backend \in {"tcp", "rtu"}
          BY ModbusAssumption, Zenon DEF IInv, Settings
        <5> QED BY <3>3, <5>1, <1>6, <1>8
      <4>2. m.call = n
        BY <1>3, <4>1, Zenon DEF IInv, Quiet
      <4>3. n # 0
        BY <2>3
      <4> QED BY <3>1, <4>2, <4>3, Zenon DEF AnswersRaw
    <3> QED BY <3>2, <3>3
  <2>9. n \in DOMAIN served
    <3>1. Len(served) = n /\ IsSeq(served)
      BY Zenon DEF IInv, CallsOK
    <3>2. DOMAIN served = 1..n
      BY <3>1, LenIs, Zenon
    <3> QED BY <1>2, <2>3, <3>2
  <2> QED BY <2>2, <2>4, <2>7, <2>8, <2>9, Zenon DEF AnswersCall, WellGot
<1>9. Settings'
  <2>1. late' \in BOOLEAN
    BY <1>1, Zenon
  <2> QED BY <1>1, <2>1, Zenon DEF IInv, Settings
<1> QED BY <1>1, <1>5, <1>7, <1>8, <1>9, Zenon DEF IInv, WaitOK

LEMMA TimesOutKeeps ==
  ASSUME IInv, TimesOut
  PROVE  IInv'
<1> DEFINE Cut == {<<Junk>> \o Tail(s) : s \in {toClient} \ {<<>>}}
<1>1. /\ waiting # <<>> /\ waiting' = <<>>
      /\ UNCHANGED <<backend, recovery, alive, t_id, toServer, other, ignore, tab, asked, served, got>>
      /\ late' = (late \/ waiting.unit # Broadcast \/ toClient # <<>>)
  BY Zenon DEF TimesOut, setting, history
<1>2. PICK left \in {toClient} \union Cut :
        toClient' \in IF "link" \in recovery THEN Flushed(left) ELSE {left}
  BY Zenon DEF TimesOut
<1>3. IsSeq(toClient) /\ IsSeq(toServer) /\ IsSeq(other)
  BY Zenon DEF IInv, ClientOK, ServerOK, OtherOK
<1>4. Left(toClient, 0, left)
  <2>1. CASE left = toClient
    BY <1>3, <2>1, LeftSelf, Zenon
  <2>2. CASE left \in Cut
    <3>1. toClient # <<>> /\ left = <<Junk>> \o Tail(toClient)
      BY <2>2
    <3>2. Left(toClient, 1, Tail(toClient))
      BY <1>3, <3>1, TailLeft, Zenon
    <3> QED BY <1>3, <3>1, <3>2, JunkLeft, Zenon
  <2> QED BY <1>2, <2>1, <2>2
<1>5. Left(toClient, 0, toClient')
  <2>1. CASE toClient' = left
    BY <1>4, <2>1, Zenon
  <2>2. CASE toClient' \in Flushed(left)
    <3>1. Left(left, 0, toClient')
      BY <1>4, <2>2, SuffixLeft, Zenon DEF Flushed, Left
    <3>2. 0 \in Nat
      OBVIOUS
    <3> QED BY <1>3, <1>4, <3>1, <3>2, LeftLeft, Zenon
  <2> QED BY <1>2, <2>1, <2>2
<1>6. ClientOK(backend, asked, served, toClient')
  BY <1>5, ClientLeft, Zenon DEF IInv
<1>7. late' = FALSE => late = FALSE /\ waiting.unit = Broadcast /\ toClient = <<>>
  <2>1. late \in BOOLEAN
    BY Zenon DEF IInv, Settings
  <2>2. late = FALSE \/ late = TRUE
    BY <2>1, Zenon
  <2> QED BY <1>1, <2>2, Zenon
<1>8. ASSUME backend = "rtu", late' = FALSE
      PROVE  Quiet(asked, toServer, toClient', other, <<>>)
  <2>1. Quiet(asked, toServer, toClient, other, waiting)
    BY <1>7, <1>8, Zenon DEF IInv
  <2>2. toClient' = <<>>
    <3>1. Left(<<>>, 0, toClient')
      BY <1>5, <1>7, <1>8, Zenon
    <3>2. Len(toClient') \in Nat /\ IsSeq(toClient')
      BY <3>1, LenIs DEF Left
    <3>3. Len(toClient') = 0
      BY <3>1, <3>2, EmptyIs DEF Left
    <3> QED BY <3>2, <3>3, LenIs, Zenon
  <2>3. /\ waiting = ReqOf(backend, asked, Len(asked)) /\ Len(asked) \in Nat
        /\ Len(asked) > 0
    BY <1>1, LenIs DEF IInv, WaitOK, CallsOK
  <2>4. asked[Len(asked)].unit = Broadcast
    <3>1. waiting.unit = asked[Len(asked)].unit
      BY <2>3 DEF ReqOf, Message
    <3> QED BY <3>1, <1>7, <1>8, Zenon
  <2>5. ASSUME NEW i \in 1..Len(toServer) PROVE toServer[i].unit # Own
    <3>1. SUFFICES ASSUME toServer[i].unit = Own PROVE FALSE
      OBVIOUS
    <3>2. toServer[i].call = Len(asked)
      BY <2>1, <3>1, Zenon DEF Quiet
    <3>3. ToServe(toServer[i]) /\ ForServer(backend, asked, toServer[i])
      <4>1. toServer[i].call > 0
        BY <2>3, <3>2
      <4>2. toServer[i].unit \in {Own, Broadcast}
        BY <3>1
      <4> QED BY <4>1, <4>2, Zenon DEF ToServe, IInv, ServerOK, AllForServer
    <3>4. toServer[i].unit = asked[Len(asked)].unit
      <4>1. IsRequest(backend, asked, toServer[i])
        BY <3>3, ServeIs, Zenon
      <4>2. toServer[i].unit = asked[toServer[i].call].unit
        BY <4>1, RequestIs
      <4> QED BY <3>2, <4>2, Zenon
    <3>5. Own = Broadcast
      BY <2>4, <3>1, <3>4, Zenon
    <3> QED BY <3>5, Units
  <2>6. other = <<>>
    <3>1. ASSUME NEW i \in 1..Len(other) PROVE FALSE
      <4>1. other[i].call = Len(asked)
        BY <2>1, Zenon DEF Quiet
      <4>2. IsRequest(backend, asked, other[i]) /\ other[i].unit = Other
        BY Zenon DEF IInv, OtherOK, AllForOther
      <4>3. other[i].unit = asked[Len(asked)].unit
        <5>1. other[i].unit = asked[other[i].call].unit
          BY <4>2, RequestIs
        <5> QED BY <4>1, <5>1, Zenon
      <4>4. Other = Broadcast
        BY <2>4, <4>2, <4>3, Zenon
      <4> QED BY <4>4, Units
    <3> QED BY <1>3, <3>1, NoneIn, Zenon
  <2> QED BY <2>2, <2>5, <2>6, QuietNone, Zenon
<1>9. got' # Nothing /\ (backend = "tcp" \/ late' = FALSE) => WellGot(served, got')
  BY <1>1, <1>7, Zenon DEF IInv
<1>10. Settings'
  <2>1. late' \in BOOLEAN
    BY <1>1, Zenon
  <2> QED BY <1>1, <2>1, Zenon DEF IInv, Settings
<1> QED BY <1>1, <1>6, <1>8, <1>9, <1>10, Zenon DEF IInv, WaitOK

LEMMA Tcp ==
  ASSUME backend = "tcp"
  PROVE  ~(backend = "rtu")
  OBVIOUS

LEMMA BreaksKeeps ==
  ASSUME IInv, Breaks
  PROVE  IInv'
<1>1. /\ backend = "tcp" /\ alive' = FALSE /\ toServer' = <<>> /\ toClient' = <<>>
      /\ UNCHANGED <<backend, recovery, t_id, other, waiting, ignore, tab, asked, served, got, late>>
  BY Zenon DEF Breaks, setting, history
<1>2. ~(backend = "rtu")
  BY <1>1, Tcp
<1> QED BY <1>1, <1>2, EmptyOK, Zenon DEF IInv, Settings

LEMMA ReconnectKeeps ==
  ASSUME IInv, Reconnect
  PROVE  IInv'
<1>1. /\ backend = "tcp" /\ alive' = TRUE /\ toServer' = <<>> /\ toClient' = <<>>
      /\ UNCHANGED <<backend, recovery, t_id, other, waiting, ignore, tab, asked, served, got, late>>
  BY Zenon DEF Reconnect, setting, history
<1>2. ~(backend = "rtu")
  BY <1>1, Tcp
<1> QED BY <1>1, <1>2, EmptyOK, Zenon DEF IInv, Settings

LEMMA ResetKeeps ==
  ASSUME IInv, Reset
  PROVE  IInv'
<1>1. /\ ~alive /\ alive' = ("link" \in recovery) /\ waiting' = <<>>
      /\ UNCHANGED <<backend, recovery, t_id, toServer, toClient, other, ignore, tab, asked, served, got, late>>
  BY Zenon DEF Reset, setting, history
<1>2. ~(backend = "rtu")
  BY <1>1, Zenon DEF IInv, Settings
<1>3. alive' \in BOOLEAN
  BY <1>1
<1> QED BY <1>1, <1>2, <1>3, Zenon DEF IInv, Settings, WaitOK

-----------------------------------------------------------------------------
(* The steps of the server and of the other device                         *)

LEMMA SizeNat ==
  ASSUME NEW p \in Seq(Nat), p # <<>>, NEW x \in BOOLEAN
  PROVE  Size(p, x) \in Nat
<1>1. p[1] \in Nat /\ At(p, 2) \in Nat /\ At(p, 6) \in Nat /\ At(p, 10) \in Nat
  BY DEF At
<1>2. Meta(p[1], TRUE) \in Nat /\ Meta(p[1], FALSE) \in Nat
  BY <1>1, SMT DEF Meta
<1>3. Data(p, TRUE) \in Nat /\ Data(p, FALSE) \in Nat
  BY <1>1, SMT DEF Data
<1>4. AnswerSize(p) \in Nat /\ RequestSize(p) \in Nat
  <2>1. /\ 1 + Meta(p[1], TRUE) + Data(p, TRUE) \in Nat
        /\ 1 + Meta(p[1], FALSE) + Data(p, FALSE) \in Nat
    <3> DEFINE c == Meta(p[1], TRUE)
               d == Meta(p[1], FALSE)
               e == Data(p, TRUE)
               g == Data(p, FALSE)
    <3>1. c \in Nat /\ d \in Nat /\ e \in Nat /\ g \in Nat
      BY <1>2, <1>3, Zenon
    <3> HIDE DEF c, d, e, g
    <3>2. 1 + c + e \in Nat /\ 1 + d + g \in Nat
      BY <3>1
    <3> QED BY <3>2, Zenon DEF c, d, e, g
  <2> QED BY <2>1, Zenon DEF AnswerSize, RequestSize, Size
<1>5. x = TRUE \/ x = FALSE
  OBVIOUS
<1> QED BY <1>4, <1>5, Zenon DEF AnswerSize, RequestSize

\* Every message that is not junk has bytes.
LEMMA PduIs ==
  ASSUME NEW b, NEW a, NEW m, ForServer(b, a, m), m # Junk,
         \A c \in 1..Len(a) : IsCall(b, a[c])
  PROVE  m.pdu \in Seq(Nat) /\ m.pdu # <<>>
<1>1. CASE IsRaw(m)
  BY <1>1, RawIs, RawPdu, Zenon
<1>2. CASE IsRequest(b, a, m)
  <2>1. m.call \in 1..Len(a) /\ m.pdu = Pdu(a[m.call].r)
    BY <1>2, RequestIs
  <2>2. a[m.call].r \in Request /\ Within(a[m.call].r)
    BY <2>1, Zenon DEF IsCall
  <2>3. Whole(a[m.call].r)
    BY <2>2, BlankIs, ReplyFits, Zenon
  <2> QED BY <2>1, <2>3, Zenon DEF Whole
<1>3. CASE IsOthers(b, a, m)
  BY <1>3, Zenon DEF IsOthers, GoodAnswer
<1> QED BY <1>1, <1>2, <1>3, Zenon DEF ForServer

\* A message is read, and not served.
Skips(m) ==
  /\ toServer' \in LeftAfter(toServer, IF m = Junk THEN 1 ELSE Size(m.pdu, ignore))
  /\ ignore' \in BOOLEAN
  /\ UNCHANGED <<backend, recovery, alive, t_id, other, waiting, asked, got, late,
                 tab, served, toClient>>

LEMMA SkipKeeps ==
  ASSUME IInv, toServer # <<>>, Skips(Head(toServer))
  PROVE  IInv'
<1> DEFINE m == Head(toServer)
           n == IF m = Junk THEN 1 ELSE Size(m.pdu, ignore)
<1>1. /\ IsSeq(toServer) /\ \A c \in 1..Len(asked) : IsCall(backend, asked[c])
  BY Zenon DEF IInv, ServerOK, CallsOK
<1>2. m = toServer[1] /\ 1 \in 1..Len(toServer)
  <2>1. Len(toServer) \in Nat /\ Len(toServer) # 0
    BY <1>1, LenIs, Zenon
  <2> QED BY <1>1, <2>1, TailLeft
<1> HIDE DEF m
<1>3. ForServer(backend, asked, m)
  BY <1>2, Zenon DEF IInv, ServerOK, AllForServer
<1>4. n \in Nat /\ Len(m.pdu) \in Nat
  <2>1. CASE m = Junk
    BY <2>1, JunkIs
  <2>2. CASE m # Junk
    <3>1. m.pdu \in Seq(Nat) /\ m.pdu # <<>>
      BY <1>1, <1>3, <2>2, PduIs, Zenon
    <3>2. ignore \in BOOLEAN
      BY Zenon DEF IInv, Settings
    <3>3. Size(m.pdu, ignore) \in Nat
      BY <3>1, <3>2, SizeNat, Zenon
    <3>4. Len(m.pdu) \in Nat
      BY <3>1
    <3> QED BY <2>2, <3>3, <3>4, Zenon
  <2> QED BY <2>1, <2>2
<1> HIDE DEF n
<1>5. toServer' \in LeftAfter(toServer, n)
  BY Zenon DEF Skips, n, m
<1>6. Left(toServer, 0, toServer')
  BY <1>1, <1>4, <1>5, LeftAfterIs, Zenon DEF m
<1>7. /\ ignore' \in BOOLEAN
      /\ UNCHANGED <<backend, recovery, alive, t_id, other, waiting, asked, got, late,
                     tab, served, toClient>>
  BY Zenon DEF Skips
<1>8. ServerOK(backend, asked, served, toServer')
  BY <1>6, ServerLeft, Zenon DEF IInv
<1>9. backend = "rtu" /\ late = FALSE => Quiet(asked, toServer', toClient, other, waiting)
  BY <1>1, <1>6, QuietLeft, Zenon DEF IInv
<1> QED BY <1>7, <1>8, <1>9, Zenon DEF IInv, Settings

\* A message is served and the answer x is put under way.
Serves(m, x) ==
  /\ toServer' \in IF x.flush THEN Flushed(Tail(toServer)) ELSE {Tail(toServer)}
  /\ tab' = x.tab
  /\ toClient' = IF x.pdu = <<>> \/ (backend = "rtu" /\ m.unit = Broadcast)
                 THEN toClient
                 ELSE Append(toClient, Message(m.tid, m.unit, x.pdu, m.call))
  /\ served' = IF m.call = 0 THEN served
               ELSE [served EXCEPT ![m.call] = Note(asked[m.call].r, "own", x.tab)]
  /\ UNCHANGED <<backend, recovery, alive, t_id, ignore, other, waiting, asked, got, late>>

LEMMA ServedLeft ==
  ASSUME IInv, toServer # <<>>, NEW x, Serves(Head(toServer), x)
  PROVE  Left(toServer, 1, toServer')
<1>1. IsSeq(toServer) /\ 1 \in Nat
  BY Zenon DEF IInv, ServerOK
<1>2. Left(toServer, 1, Tail(toServer)) /\ IsSeq(Tail(toServer))
  BY <1>1, TailLeft, Zenon DEF Left
<1>3. CASE toServer' = Tail(toServer)
  BY <1>2, <1>3, Zenon
<1>4. CASE toServer' \in Flushed(Tail(toServer))
  <2>1. Left(Tail(toServer), 0, toServer')
    BY <1>2, <1>4, SuffixLeft, Zenon DEF Flushed
  <2> QED BY <1>1, <1>2, <2>1, LeftLeft, Zenon
<1>5. toServer' \in IF x.flush THEN Flushed(Tail(toServer)) ELSE {Tail(toServer)}
  BY Zenon DEF Serves
<1> QED BY <1>3, <1>4, <1>5

\* A raw request: only the line to the client changes.
LEMMA ServeRawKeeps ==
  ASSUME IInv, toServer # <<>>, NEW x, Serves(Head(toServer), x),
         IsRaw(Head(toServer)), Harmless(tab, x)
  PROVE  IInv' /\ tab' = tab /\ served' = served
<1> DEFINE m == Head(toServer)
           ans == Message(m.tid, m.unit, x.pdu, m.call)
<1>1. m.call = 0 /\ m.tid = 0 /\ m.unit = Own
  BY RawIs, Zenon
<1>2. IsSeq(toServer) /\ IsSeq(toClient) /\ Len(asked) \in Nat
  BY LenIs DEF IInv, ServerOK, ClientOK, CallsOK
<1>3. m = toServer[1] /\ 1 \in 1..Len(toServer)
  <2>1. Len(toServer) \in Nat /\ Len(toServer) # 0
    BY <1>2, LenIs, Zenon
  <2> QED BY <1>2, <2>1, TailLeft
<1>4. /\ tab' = tab /\ served' = served
      /\ UNCHANGED <<backend, recovery, alive, t_id, ignore, other, waiting, asked, got, late>>
  BY <1>1, Zenon DEF Serves, Harmless
<1>5. Left(toServer, 1, toServer')
  BY ServedLeft, Zenon
<1>6. ServerOK(backend, asked, served, toServer')
  BY <1>5, Weaker, ServerLeft, Zenon DEF IInv
<1>7. ClientOK(backend, asked, served, toClient')
  <2>1. CASE toClient' = toClient
    BY <2>1, Zenon DEF IInv
  <2>2. CASE x.pdu # <<>> /\ toClient' = Append(toClient, ans)
    <3>1. ans.pdu = x.pdu /\ ans.call = 0 /\ ans.tid = 0
      BY <1>1 DEF Message
    <3> HIDE DEF ans
    <3>2. ForClient(backend, asked, served, ans)
      BY <2>2, <3>1, Zenon DEF ForClient, AnswersRaw, Harmless
    <3>3. Appended(toClient, ans, toClient')
      BY <1>2, <2>2, AppendIs, Zenon
    <3> QED BY <3>2, <3>3, ClientAppend, Zenon DEF IInv
  <2> QED BY <2>1, <2>2, Zenon DEF Serves
<1>8. ~(backend = "rtu" /\ late = FALSE)
  <2>1. SUFFICES ASSUME backend = "rtu", late = FALSE PROVE FALSE
    OBVIOUS
  <2>2. m.call = Len(asked) /\ waiting # <<>>
    BY <1>1, <1>3, <2>1, Zenon DEF IInv, Quiet
  <2>3. Len(asked) > 0
    BY <2>2, Zenon DEF IInv, WaitOK
  <2> QED BY <1>1, <2>2, <2>3
<1> QED BY <1>4, <1>6, <1>7, <1>8, Zenon DEF IInv, Settings

\* What happens to the tables when a call is served: it is a call to the
\* server or to all, not served yet, and the tables change as it means.
ServedCall(c) ==
  /\ c \in DOMAIN asked /\ asked[c].unit \in {Own, Broadcast}
  /\ served[c] = NotServed /\ Means(asked[c].r, tab, tab')

\* The request of a call.
LEMMA ServeCallKeeps ==
  ASSUME IInv, toServer # <<>>, NEW x, Serves(Head(toServer), x),
         IsRequest(backend, asked, Head(toServer)),
         Head(toServer).unit \in {Own, Broadcast},
         Fits(asked[Head(toServer).call].r, tab, x)
  PROVE  IInv' /\ ServedCall(Head(toServer).call)
<1> DEFINE m == Head(toServer)
           c == m.call
           r == asked[c].r
           e == Note(r, "own", x.tab)
           ans == Message(m.tid, m.unit, x.pdu, c)
           silent == x.pdu = <<>> \/ (backend = "rtu" /\ m.unit = Broadcast)
<1>1. IsSeq(toServer) /\ IsSeq(toClient) /\ IsSeq(other) /\ IsSeq(asked)
      /\ IsSeq(served) /\ Len(served) = Len(asked) /\ Len(asked) \in Nat
  BY LenIs DEF IInv, ServerOK, ClientOK, OtherOK, CallsOK
<1>2. m = toServer[1] /\ 1 \in 1..Len(toServer)
  <2>1. Len(toServer) \in Nat /\ Len(toServer) # 0
    BY <1>1, LenIs, Zenon
  <2> QED BY <1>1, <2>1, TailLeft
<1>3. /\ c \in 1..Len(asked) /\ m.tid = Tid(backend, c)
      /\ m.unit = asked[c].unit
  BY RequestIs
<1>4. c \in DOMAIN asked /\ c \in 1..Len(served) /\ c # 0 /\ c > 0
  <2>1. c \in DOMAIN asked
    BY <1>1, <1>3, LenIs, Zenon
  <2>2. c # 0 /\ c > 0
    BY <1>3
  <2> QED BY <1>1, <1>3, <2>1, <2>2, Zenon
<1>5. ToServe(m)
  BY <1>4, Zenon DEF ToServe
<1>6. served[c] = NotServed
  BY <1>2, <1>5, Zenon DEF IInv, ServerOK, AllUnserved
<1>7. r \in Request /\ x.tab \in Tables /\ Means(r, tab, x.tab)
  BY <1>3, Zenon DEF IInv, CallsOK, IsCall, Fits
<1>8. /\ tab' = x.tab /\ served' = [served EXCEPT ![c] = e]
      /\ toClient' = IF silent THEN toClient ELSE Append(toClient, ans)
      /\ UNCHANGED <<backend, recovery, alive, t_id, ignore, other, waiting, asked, got, late>>
  BY <1>4, Zenon DEF Serves
<1>9. Noted(served, c, served') /\ served'[c] = e
  <2> HIDE DEF e, c
  <2>1. Noted(served, c, [served EXCEPT ![c] = e]) /\ [served EXCEPT ![c] = e][c] = e
    BY <1>1, <1>4, ExceptIs
  <2> QED BY <2>1, <1>8, Zenon
<1>10. /\ e # NotServed /\ GoodAnswer(x.pdu)
       /\ x.pdu[1] < 128 => e.by \in {"own", "other"} /\ e.val = Values(r, x.pdu)
  <2>1. "own" \in {"own", "other"}
    OBVIOUS
  <2> QED BY <1>7, <2>1, NoteIs, Zenon
<1>11. ans.tid = m.tid /\ ans.unit = m.unit /\ ans.pdu = x.pdu /\ ans.call = c
  BY DEF Message
<1>12. ServedCall(c)
  BY <1>3, <1>4, <1>6, <1>7, <1>8, Zenon DEF ServedCall
<1> HIDE DEF m, e, ans
<1>13. Left(toServer, 1, toServer')
  BY ServedLeft, Zenon
<1>14. ServerOK(backend, asked, served', toServer')
  BY <1>1, <1>2, <1>4, <1>5, <1>9, <1>13, ServerServed, Zenon DEF IInv
<1>15. OtherOK(backend, asked, served', other)
  <2>1. asked[c].unit # Other
    <3>1. Other \notin {Own, Broadcast}
      BY Units
    <3> QED BY <1>3, <3>1, Zenon DEF m
  <2> QED BY <1>1, <1>9, <2>1, OtherNoted, Zenon DEF IInv
<1>16. ClientOK(backend, asked, served', toClient')
  <2>1. ClientOK(backend, asked, served', toClient)
    BY <1>1, <1>6, <1>9, ClientNoted, Zenon DEF IInv
  <2>2. ForClient(backend, asked, served', ans)
    <3>1. AnswersCall(backend, asked, served', ans)
      BY <1>3, <1>9, <1>10, <1>11, Zenon DEF AnswersCall
    <3> QED BY <1>10, <1>11, <3>1, Zenon DEF ForClient
  <2>3. Appended(toClient, ans, Append(toClient, ans))
    BY <1>1, AppendIs, Zenon
  <2>4. ClientOK(backend, asked, served', Append(toClient, ans))
    BY <2>1, <2>2, <2>3, ClientAppend, Zenon
  <2> QED BY <1>8, <2>1, <2>4, Zenon
<1>17. ASSUME backend = "rtu", late = FALSE
       PROVE  Quiet(asked, toServer', toClient', other, waiting)
  <2>1. Quiet(asked, toServer, toClient, other, waiting)
    BY <1>17, Zenon DEF IInv
  <2>2. CASE m.unit = Broadcast
    <3>1. toClient' = toClient
      BY <1>8, <1>17, <2>2, Zenon
    <3>2. Left(toServer, 0, toServer')
      BY <1>13, Weaker, Zenon
    <3> QED BY <1>1, <2>1, <3>1, <3>2, QuietLeft, Zenon
  <2>3. CASE m.unit = Own
    <3>1. /\ c = Len(asked) /\ waiting # <<>> /\ toClient = <<>> /\ other = <<>>
      BY <1>2, <2>1, <2>3, Zenon DEF Quiet
    <3>2. ASSUME NEW i \in 1..Len(toServer'), toServer'[i].unit = Own PROVE FALSE
      <4>1. PICK d \in Nat :
               /\ d >= 1 /\ Len(toServer') + d = Len(toServer)
               /\ \A k \in 1..Len(toServer') :
                    toServer'[k] = Junk \/ toServer'[k] = toServer[k + d]
        BY <1>13 DEF Left
      <4>2. toServer'[i] = toServer[i + d]
        BY <3>2, <4>1, JunkIs, Zenon
      <4>3. i + d \in 1..Len(toServer) /\ i + d # 1
        <5>1. Len(toServer) \in Nat /\ Len(toServer') \in Nat
          BY <1>1, <1>13, LenIs DEF Left
        <5> QED BY <4>1, <5>1
      <4>4. toServer[i + d].call = c /\ toServer[i + d].unit = Own
        BY <2>1, <3>1, <3>2, <4>2, <4>3, Zenon DEF Quiet
      <4>5. ToServe(toServer[i + d])
        BY <1>4, <4>4, Zenon DEF ToServe
      <4> QED BY <1>2, <1>5, <4>3, <4>4, <4>5, Zenon DEF IInv, ServerOK, EachOnce
    <3>3. toClient' = Append(<<>>, ans)
      <4>1. x.pdu # <<>>
        BY <1>10, Zenon DEF GoodAnswer
      <4>2. m.unit # Broadcast
        <5>1. Own # Broadcast
          BY Units
        <5> QED BY <2>3, <5>1, Zenon
      <4> QED BY <1>8, <3>1, <4>1, <4>2, Zenon
    <3>4. Appended(<<>>, ans, toClient')
      BY <3>3, EmptyIs, AppendIs, Zenon
    <3>5. ans.call = Len(asked)
      BY <1>11, <3>1, Zenon
    <3>6. \A i \in 1..Len(toServer') : toServer'[i].unit # Own
      BY <3>2, Zenon
    <3> QED BY <3>1, <3>4, <3>5, <3>6, QuietOther, Zenon
  <2> QED BY <2>2, <2>3, Zenon DEF m
<1>18. got # Nothing /\ (backend = "tcp" \/ late = FALSE) => WellGot(served', got)
  BY <1>1, <1>6, <1>9, GotNoted, Zenon DEF IInv
<1>19. CallsOK(backend, asked, served')
  BY <1>9, Zenon DEF Noted, IInv, CallsOK
<1>20. Settings'
  BY <1>7, <1>8, Zenon DEF IInv, Settings
<1> QED BY <1>8, <1>12, <1>14, <1>15, <1>16, <1>17, <1>18, <1>19, <1>20, Zenon DEF IInv, m

\* The server takes a message: it skips it, answers a raw request, or serves
\* a call.
TakesOne ==
  \/ tab' = tab /\ served' = served
  \/ \E c \in 1..Len(asked) : ServedCall(c)

LEMMA ServeKeeps ==
  ASSUME IInv, Serve
  PROVE  IInv' /\ TakesOne
<1> DEFINE m == Head(toServer)
           n == IF m = Junk THEN 1 ELSE Size(m.pdu, ignore)
           x == Reply(tab, m.pdu)
           skipped == backend = "rtu" /\ Ignored(m)
<1>1. toServer # <<>>
  BY Zenon DEF Serve
<1>2. IsSeq(toServer) /\ \A c \in 1..Len(asked) : IsCall(backend, asked[c])
  BY Zenon DEF IInv, ServerOK, CallsOK
<1>3. ForServer(backend, asked, m)
  <2>1. Len(toServer) \in Nat /\ Len(toServer) # 0
    BY <1>1, <1>2, LenIs, Zenon
  <2>2. m = toServer[1] /\ 1 \in 1..Len(toServer)
    BY <1>1, <1>2, <2>1, TailLeft
  <2> HIDE DEF m
  <2> QED BY <2>2, Zenon DEF IInv, ServerOK, AllForServer
<1>4. ignore \in BOOLEAN /\ tab \in Tables
  BY Zenon DEF IInv, Settings
<1>5. UNCHANGED <<backend, recovery, alive, t_id, other, waiting, asked, got, late>>
  BY Zenon DEF Serve, setting
<1>6. CASE skipped
  <2>1. ignore' = ~ignore /\ toServer' \in LeftAfter(toServer, n)
        /\ UNCHANGED <<tab, served, toClient>>
    BY <1>6, Zenon DEF Serve
  <2>2. ignore' \in BOOLEAN
    BY <2>1, Zenon
  <2>3. Skips(m)
    BY <1>5, <2>1, <2>2, Zenon DEF Skips
  <2> QED BY <1>1, <2>1, <2>3, SkipKeeps, Zenon DEF TakesOne
<1>7. CASE ~skipped /\ (m = Junk \/ n # Len(m.pdu))
  <2>1. toServer' \in LeftAfter(toServer, n)
        /\ UNCHANGED <<tab, served, toClient>>
    BY <1>7, Zenon DEF Serve
  <2>2. ignore' \in BOOLEAN
    <3>1. UNCHANGED ignore \/ TakenForForeign(m)
      BY <1>7, Zenon DEF Serve
    <3> QED BY <1>4, <3>1, Zenon DEF TakenForForeign
  <2>3. Skips(m)
    BY <1>5, <2>1, <2>2, Zenon DEF Skips
  <2> QED BY <1>1, <2>1, <2>3, SkipKeeps, Zenon DEF TakesOne
<1>8. CASE ~skipped /\ ~(m = Junk \/ n # Len(m.pdu))
  <2>1. Serves(m, x)
    <3>1. /\ toServer' \in IF x.flush THEN Flushed(Tail(toServer)) ELSE {Tail(toServer)}
          /\ tab' = x.tab
          /\ toClient' = IF x.pdu = <<>> \/ (backend = "rtu" /\ m.unit = Broadcast)
                         THEN toClient
                         ELSE Append(toClient, Message(m.tid, m.unit, x.pdu, m.call))
          /\ Remember(m.call, "own", tab') /\ UNCHANGED ignore
      BY <1>8, Zenon DEF Serve
    <3> HIDE DEF x, m
    <3>2. Remember(m.call, "own", x.tab)
      BY <3>1, Zenon DEF Remember
    <3> QED BY <1>5, <3>1, <3>2, Zenon DEF Serves, Remember, Note
  <2>2. CASE IsRaw(m)
    <3>1. Harmless(tab, x)
      BY <1>4, <2>2, RawIs, RawReply, Zenon
    <3> QED BY <1>1, <2>1, <2>2, <3>1, ServeRawKeeps, Zenon DEF TakesOne
  <2>3. CASE IsRequest(backend, asked, m)
    <3> DEFINE c == m.call
    <3>1. c \in 1..Len(asked) /\ m.unit = asked[c].unit /\ m.pdu = Pdu(asked[c].r)
      BY <2>3, RequestIs
    <3>2. IsCall(backend, asked[c])
      BY <1>2, <3>1, Zenon
    <3>3. m.unit \in {Own, Broadcast}
      <4>1. CASE backend = "tcp"
        <5>1. m.unit = Own
          BY <3>1, <3>2, <4>1, Zenon DEF IsCall
        <5> QED BY <5>1
      <4>2. CASE backend # "tcp"
        <5>1. backend \in {"tcp", "rtu"}
          BY ModbusAssumption, Zenon DEF IInv, Settings
        <5>2. backend = "rtu"
          BY <4>2, <5>1
        <5>3. ~Ignored(m)
          BY <1>8, <5>2, Zenon
        <5> QED BY <1>8, <5>3, Zenon DEF Ignored
      <4> QED BY <4>1, <4>2
    <3>4. Fits(asked[c].r, tab, x)
      <4>1. asked[c].r \in Request /\ Within(asked[c].r)
        BY <3>2, Zenon DEF IsCall
      <4> QED BY <1>4, <3>1, <4>1, ReplyFits, Zenon
    <3>5. IInv' /\ ServedCall(c)
      BY <1>1, <2>1, <2>3, <3>3, <3>4, ServeCallKeeps, Zenon
    <3> QED BY <3>1, <3>5, Zenon DEF TakesOne
  <2>4. CASE IsOthers(backend, asked, m)
    <3>1. backend = "rtu" /\ m.unit = Other
      BY <2>4, Zenon DEF IsOthers
    <3>2. Other \notin {Own, Broadcast}
      BY Units
    <3> QED BY <1>8, <3>1, <3>2, Zenon DEF Ignored
  <2> QED BY <1>3, <1>8, <2>2, <2>3, <2>4, Zenon DEF ForServer
<1> QED BY <1>6, <1>7, <1>8

LEMMA OtherAnswersKeeps ==
  ASSUME IInv, OtherAnswers
  PROVE  /\ IInv' /\ tab' = tab
         /\ \E c \in 1..Len(asked) : asked[c].unit = Other /\ served[c] = NotServed
<1> DEFINE m == Head(other)
           c == m.call
           x == Reply(Blank, m.pdu)
           r == asked[c].r
           e == Note(r, "other", x.tab)
           ans == Message(0, Other, x.pdu, c)
<1>1. other # <<>>
  BY Zenon DEF OtherAnswers
<1>2. /\ IsSeq(toServer) /\ IsSeq(toClient) /\ IsSeq(other) /\ IsSeq(asked)
      /\ IsSeq(served) /\ Len(served) = Len(asked) /\ Len(asked) \in Nat
  BY LenIs DEF IInv, ServerOK, ClientOK, OtherOK, CallsOK
<1>3. m = other[1] /\ 1 \in 1..Len(other)
  <2>1. Len(other) \in Nat /\ Len(other) # 0
    BY <1>1, <1>2, LenIs, Zenon
  <2> QED BY <1>1, <1>2, <2>1, TailLeft
<1> HIDE DEF m
<1>4. IsRequest(backend, asked, m) /\ m.unit = Other /\ served[c] = NotServed
  BY <1>3, Zenon DEF IInv, OtherOK, AllForOther
<1>5. c \in 1..Len(asked) /\ m.unit = asked[c].unit /\ m.pdu = Pdu(r)
  BY <1>4, RequestIs
<1>6. c \in 1..Len(served) /\ c # 0 /\ asked[c].unit = Other
  <2>1. c # 0
    BY <1>5
  <2> QED BY <1>2, <1>4, <1>5, <2>1, Zenon
<1>7. backend # "tcp" /\ backend = "rtu"
  <2>1. backend \in {"tcp", "rtu"}
    BY ModbusAssumption, Zenon DEF IInv, Settings
  <2>2. backend # "tcp"
    BY <1>1, Zenon DEF IInv, OtherOK
  <2> QED BY <2>1, <2>2
<1>8. r \in Request /\ Within(r)
  BY <1>5, Zenon DEF IInv, CallsOK, IsCall
<1>9. Fits(r, Blank, x)
  BY <1>5, <1>8, BlankIs, ReplyFits, Zenon
<1>10. /\ e # NotServed /\ GoodAnswer(x.pdu)
       /\ x.pdu[1] < 128 => e.by \in {"own", "other"} /\ e.val = Values(r, x.pdu)
  <2>1. "other" \in {"own", "other"}
    OBVIOUS
  <2> QED BY <1>8, <1>9, <2>1, NoteIs, Zenon
<1>11. ans.tid = 0 /\ ans.unit = Other /\ ans.pdu = x.pdu /\ ans.call = c
  BY DEF Message
<1>12. /\ other' = Tail(other)
       /\ toClient' = Append(toClient, ans) /\ toServer' = Append(toServer, ans)
       /\ Remember(c, "other", x.tab)
       /\ UNCHANGED <<backend, recovery, alive, t_id, waiting, ignore, tab, asked, got, late>>
  BY Zenon DEF OtherAnswers, setting, m
<1> HIDE DEF x, ans
<1>13. served' = [served EXCEPT ![c] = e]
  BY <1>6, <1>12, Zenon DEF Remember, Note
<1> HIDE DEF e
<1>14. Noted(served, c, served') /\ served'[c] = e
  <2>1. Noted(served, c, [served EXCEPT ![c] = e]) /\ [served EXCEPT ![c] = e][c] = e
    <3> HIDE DEF c
    <3> QED BY <1>2, <1>6, ExceptIs
  <2> QED BY <1>13, <2>1, Zenon
<1>15. Appended(toServer, ans, toServer') /\ Appended(toClient, ans, toClient')
  BY <1>2, <1>12, AppendIs, Zenon
<1>16. ServerOK(backend, asked, served', toServer')
  <2>1. Other \notin {Own, Broadcast}
    BY Units
  <2>2. ServerOK(backend, asked, served', toServer)
    BY <1>2, <1>6, <1>14, <2>1, ServerNoted, Zenon DEF IInv
  <2>3. ForServer(backend, asked, ans)
    BY <1>5, <1>7, <1>10, <1>11, Zenon DEF ForServer, IsOthers
  <2>4. ~ToServe(ans)
    BY <1>11, <2>1, Zenon DEF ToServe
  <2> QED BY <1>15, <2>2, <2>3, <2>4, ServerAppend, Zenon
<1>17. OtherOK(backend, asked, served', other')
  BY <1>1, <1>2, <1>3, <1>12, <1>14, OtherTail, Zenon DEF IInv
<1>18. ClientOK(backend, asked, served', toClient')
  <2>1. ClientOK(backend, asked, served', toClient)
    BY <1>2, <1>4, <1>14, ClientNoted, Zenon DEF IInv
  <2>2. Tid(backend, c) = 0
    BY <1>7, Zenon DEF Tid
  <2>3. AnswersCall(backend, asked, served', ans)
    BY <1>5, <1>10, <1>11, <1>14, <2>2, Zenon DEF AnswersCall
  <2>4. ForClient(backend, asked, served', ans)
    BY <1>10, <1>11, <2>3, Zenon DEF ForClient
  <2> QED BY <1>15, <2>1, <2>4, ClientAppend, Zenon
<1>19. ASSUME late = FALSE
       PROVE  Quiet(asked, toServer', toClient', other', waiting)
  <2>1. Quiet(asked, toServer, toClient, other, waiting)
    BY <1>7, <1>19, Zenon DEF IInv
  <2>2. c = Len(asked) /\ waiting # <<>> /\ \A i \in 1..Len(other) : i = 1
    BY <1>3, <2>1, Zenon DEF Quiet
  <2>3. toClient = <<>>
    <3>1. \A i \in 1..Len(toClient) : FALSE
      BY <1>1, <2>1, Zenon DEF Quiet
    <3> QED BY <1>2, <3>1, NoneIn, Zenon
  <2>4. other' = <<>>
    <3>1. Len(other) \in Nat /\ Len(other) \in 1..Len(other)
      BY <1>2, <1>3, LenIs
    <3>2. Len(other) = 1
      BY <2>2, <3>1, Zenon
    <3>3. IsSeq(Tail(other)) /\ Len(Tail(other)) + 1 = 1 /\ Len(Tail(other)) \in Nat
      BY <1>1, <1>2, <3>2, TailLeft, LenIs DEF Left
    <3>4. Len(Tail(other)) = 0
      BY <3>3
    <3> QED BY <1>12, <3>3, <3>4, LenIs, Zenon
  <2>5. \A i \in 1..Len(toServer) : toServer[i].unit # Own
    BY <1>1, <2>1, Zenon DEF Quiet
  <2>6. ans.unit # Own
    BY <1>11, Units
  <2>7. \A i \in 1..Len(toServer') : toServer'[i].unit # Own
    BY <1>2, <1>15, <2>5, <2>6, NotOwn, Zenon
  <2>8. Appended(<<>>, ans, toClient') /\ ans.call = Len(asked)
    BY <1>11, <1>15, <2>2, <2>3, Zenon
  <2> QED BY <2>2, <2>4, <2>7, <2>8, QuietOther, Zenon
<1>20. got # Nothing /\ (backend = "tcp" \/ late = FALSE) => WellGot(served', got)
  BY <1>2, <1>4, <1>14, GotNoted, Zenon DEF IInv
<1>21. CallsOK(backend, asked, served')
  BY <1>14, Zenon DEF Noted, IInv, CallsOK
<1>22. Settings'
  BY <1>12, Zenon DEF IInv, Settings
<1>23. IInv'
  BY <1>12, <1>16, <1>17, <1>18, <1>19, <1>20, <1>21, <1>22, Zenon DEF IInv
<1> QED BY <1>4, <1>5, <1>6, <1>12, <1>23, Zenon

-----------------------------------------------------------------------------
(* The theorems                                                            *)

LEMMA StayKeeps ==
  ASSUME IInv, UNCHANGED vars
  PROVE  IInv' /\ tab' = tab /\ served' = served
<1>1. UNCHANGED <<backend, recovery, alive, t_id, toServer, toClient, other, waiting,
                  ignore, tab, asked, served, got, late>>
  BY Zenon DEF vars
<1> QED BY <1>1, Zenon DEF IInv, Settings

LEMMA NextKeeps ==
  ASSUME IInv, [Next]_vars
  PROVE  IInv'
<1>1. ASSUME NEW r \in Request, NEW unit \in {Broadcast, Own, Other}, Call(r, unit)
      PROVE  IInv'
  BY <1>1, CallKeeps, Zenon
<1>2. ASSUME NEW p \in Raw, SendRaw(p)
      PROVE  IInv'
  BY <1>2, SendRawKeeps, Zenon
<1>3. CASE Confirm
  BY <1>3, ConfirmKeeps, Zenon
<1>4. CASE TimesOut
  BY <1>4, TimesOutKeeps, Zenon
<1>5. CASE Breaks
  BY <1>5, BreaksKeeps, Zenon
<1>6. CASE Reset
  BY <1>6, ResetKeeps, Zenon
<1>7. CASE Reconnect
  BY <1>7, ReconnectKeeps, Zenon
<1>8. CASE Serve
  BY <1>8, ServeKeeps, Zenon
<1>9. CASE OtherAnswers
  BY <1>9, OtherAnswersKeeps, Zenon
<1>10. CASE UNCHANGED vars
  BY <1>10, StayKeeps, Zenon
<1> QED BY <1>1, <1>2, <1>3, <1>4, <1>5, <1>6, <1>7, <1>8, <1>9, <1>10, Zenon DEF Next

\* The line as it stands between any two steps of client, server and the other
\* device (modbus.c: send_msg, _modbus_receive_msg, check_confirmation,
\* modbus_reply): what is under way belongs to calls or raw requests and has
\* the length its reader computes; and on a serial line where no call has
\* given up, at most one answer is awaited or there.
THEOREM LineInvariant == Spec => []IInv
<1>1. Init => IInv
  BY InitIInv, Zenon
<1>2. IInv /\ [Next]_vars => IInv'
  BY NextKeeps, Zenon
<1> QED BY <1>1, <1>2, PTL DEF Spec

LEMMA TypeIs ==
  ASSUME IInv
  PROVE  TypeOK
<1>1. /\ Len(asked) \in Nat /\ Len(served) = Len(asked) /\ Len(asked) <= MaxCalls
      /\ DOMAIN asked = 1..Len(asked) /\ DOMAIN served = 1..Len(served)
  BY LenIs DEF IInv, CallsOK
<1>2. t_id \in 0..(TidSpan - 1)
  <2>1. t_id = IF backend = "tcp" THEN Len(asked) ELSE 0
    BY Zenon DEF IInv, Settings, Tid
  <2> QED BY <1>1, <2>1, ModbusAssumption
<1>3. waiting # <<>> => waiting.call = Len(asked)
  <2> SUFFICES ASSUME waiting # <<>> PROVE waiting.call = Len(asked)
    OBVIOUS
  <2>1. waiting = ReqOf(backend, asked, Len(asked))
    BY Zenon DEF IInv, WaitOK
  <2> QED BY <2>1 DEF ReqOf, Message
<1>4. \A i \in DOMAIN toClient : toClient[i].call \in 0..Len(asked)
  <2>1. DOMAIN toClient = 1..Len(toClient)
    BY LenIs, Zenon DEF IInv, ClientOK
  <2> QED BY <1>1, <2>1, ClientOld, Zenon DEF IInv
<1>5. \A i \in DOMAIN toServer : toServer[i].call \in 0..Len(asked)
  <2>1. DOMAIN toServer = 1..Len(toServer)
    BY LenIs, Zenon DEF IInv, ServerOK
  <2> QED BY <1>1, <2>1, ServerOld, Zenon DEF IInv
<1>6. {alive, ignore, late} \subseteq BOOLEAN
  BY Zenon DEF IInv, Settings
<1> QED BY <1>1, <1>2, <1>3, <1>4, <1>5, <1>6, Zenon DEF TypeOK, IInv, Settings

\* Transaction numbers stay in their word, and every message under way belongs
\* to a call that was made, or to none (modbus.c, modbus-tcp.c: t_id).
THEOREM Types == Spec => []TypeOK
BY LineInvariant, TypeIs, PTL

LEMMA SizesAre ==
  ASSUME IInv
  PROVE  SizesAgree
<1>1. ASSUME NEW i \in DOMAIN toClient, toClient[i] # Junk
      PROVE  Size(toClient[i].pdu, TRUE) = Len(toClient[i].pdu)
  <2>1. ForClient(backend, asked, served, toClient[i])
    BY LenIs, Zenon DEF IInv, ClientOK, AllForClient
  <2>2. GoodAnswer(toClient[i].pdu)
    BY <1>1, <2>1, Zenon DEF ForClient
  <2> QED BY <2>2, Zenon DEF GoodAnswer, AnswerSize
<1>2. ASSUME NEW i \in DOMAIN toServer
      PROVE  LET m == toServer[i]
             IN \/ m = Junk
                \/ Size(m.pdu, FALSE) = Len(m.pdu)
                \/ m.unit = Other /\ Size(m.pdu, TRUE) = Len(m.pdu)
  <2> DEFINE m == toServer[i]
  <2>1. ForServer(backend, asked, m)
    BY LenIs, Zenon DEF IInv, ServerOK, AllForServer
  <2>2. CASE IsRaw(m)
    <3>1. RequestSize(m.pdu) = Len(m.pdu)
      BY <2>2, RawIs, RawPdu, Zenon
    <3> QED BY <3>1, Zenon DEF RequestSize
  <2>3. CASE IsRequest(backend, asked, m)
    <3>1. m.call \in 1..Len(asked) /\ m.pdu = Pdu(asked[m.call].r)
      BY <2>3, RequestIs
    <3>2. asked[m.call].r \in Request /\ Within(asked[m.call].r)
      BY <3>1, Zenon DEF IInv, CallsOK, IsCall
    <3>3. Whole(asked[m.call].r)
      BY <3>2, BlankIs, ReplyFits, Zenon
    <3> QED BY <3>1, <3>3, Zenon DEF Whole, RequestSize
  <2>4. CASE IsOthers(backend, asked, m)
    BY <2>4, Zenon DEF IsOthers, GoodAnswer, AnswerSize
  <2>5. CASE m = Junk
    BY <2>5
  <2> QED BY <2>1, <2>2, <2>3, <2>4, <2>5, Zenon DEF ForServer
<1> QED BY <1>1, <1>2, Zenon DEF SizesAgree

\* Whatever the requests and the tables: a receiver reads exactly the bytes of
\* every message that was put together (modbus.c:
\* compute_meta_length_after_function and compute_data_length_after_meta
\* against the functions that build requests and modbus_reply).
THEOREM SameSizes == Spec => []SizesAgree
BY LineInvariant, SizesAre, PTL

LEMMA AnswerIs ==
  ASSUME IInv
  PROVE  AnswerOwn
<1>1. late = TRUE \/ late = FALSE
  BY Zenon DEF IInv, Settings
<1>2. got # Nothing /\ (backend = "tcp" \/ late = FALSE) => WellGot(served, got)
  BY Zenon DEF IInv
<1> QED BY <1>1, <1>2, Zenon DEF AnswerOwn, WellGot

\* A call that succeeds has the answer to itself, with the values of the tables
\* when it was served: over TCP whatever comes late, breaks or connects again,
\* on the serial line as long as no call has given up (modbus.c:
\* check_confirmation; modbus-tcp.c: _modbus_tcp_pre_check_confirmation;
\* modbus-rtu.c: _modbus_rtu_pre_check_confirmation).
THEOREM OwnAnswer == Spec => []AnswerOwn
BY LineInvariant, AnswerIs, PTL

\* What a step does to the tables and to the calls that were served.
Once ==
  tab' # tab \/ served' # served =>
    \/ \E c \in DOMAIN asked :
         /\ asked[c].unit \in {Own, Broadcast} /\ served[c] = NotServed
         /\ Means(asked[c].r, tab, tab')
    \/ tab' = tab /\ \E c \in DOMAIN served' :
         \/ c \notin DOMAIN served
         \/ asked[c].unit = Other /\ served[c] = NotServed

LEMMA NextOnce ==
  ASSUME IInv, [Next]_vars
  PROVE  Once
<1>1. ASSUME NEW r \in Request, NEW unit \in {Broadcast, Own, Other}, Call(r, unit)
      PROVE  Once
  <2>1. tab' = tab /\ served' = Append(served, NotServed)
    BY <1>1, Zenon DEF Call
  <2>2. IsSeq(served)
    BY Zenon DEF IInv, CallsOK
  <2>3. Appended(served, NotServed, served')
    BY <2>1, <2>2, AppendIs, Zenon
  <2>4. /\ DOMAIN served = 1..Len(served) /\ Len(served) \in Nat
        /\ DOMAIN served' = 1..Len(served')
    BY <2>2, <2>3, LenIs, Zenon DEF Appended
  <2>5. Len(served') = Len(served) + 1
    BY <2>3, Zenon DEF Appended
  <2>6. Len(served') \in DOMAIN served' /\ Len(served') \notin DOMAIN served
    BY <2>4, <2>5
  <2> QED BY <2>1, <2>6, Zenon DEF Once
<1>2. ASSUME NEW p \in Raw, SendRaw(p)
      PROVE  Once
  BY <1>2, Zenon DEF Once, SendRaw, history
<1>3. CASE Confirm
  BY <1>3, Zenon DEF Once, Confirm
<1>4. CASE TimesOut
  BY <1>4, Zenon DEF Once, TimesOut, history
<1>5. CASE Breaks
  BY <1>5, Zenon DEF Once, Breaks, history
<1>6. CASE Reset
  BY <1>6, Zenon DEF Once, Reset, history
<1>7. CASE Reconnect
  BY <1>7, Zenon DEF Once, Reconnect, history
<1>8. CASE Serve
  BY <1>8, ServeKeeps, Zenon DEF TakesOne, ServedCall, Once
<1>9. CASE OtherAnswers
  <2>1. /\ IInv' /\ tab' = tab
        /\ \E c \in 1..Len(asked) : asked[c].unit = Other /\ served[c] = NotServed
    BY <1>9, OtherAnswersKeeps, Zenon
  <2>2. asked' = asked
    BY <1>9, Zenon DEF OtherAnswers
  <2>3. DOMAIN served' = 1..Len(asked)
    <3>1. IsSeq(served') /\ Len(served') = Len(asked')
      BY <2>1, Zenon DEF IInv, CallsOK
    <3> QED BY <2>2, <3>1, LenIs, Zenon
  <2> QED BY <2>1, <2>3, Zenon DEF Once
<1>10. CASE UNCHANGED vars
  BY <1>10, StayKeeps, Zenon DEF Once
<1> QED BY <1>1, <1>2, <1>3, <1>4, <1>5, <1>6, <1>7, <1>8, <1>9, <1>10, Zenon DEF Next

\* The server's tables change only by a call to it or to all that was not
\* served before, and then as the call means (modbus.c: modbus_reply), for
\* every request, every content of the tables and every flush, junk and break
\* in between.
THEOREM OneServing == Spec => ServedOnce
<1>1. IInv /\ [Next]_vars => [Once]_vars
  BY NextOnce, Zenon
<1> QED BY <1>1, LineInvariant, PTL DEF Spec, ServedOnce, Once
=============================================================================
