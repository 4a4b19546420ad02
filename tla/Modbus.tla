------------------------------- MODULE Modbus -------------------------------
(***************************************************************************)
(* The modbus library in WareHub2/src: a client and a server joined by a   *)
(* TCP connection or a serial line with another device on it.  Requests    *)
(* and answers are the bytes after the header, "PDU"s; the header is the   *)
(* transaction number (TCP only) and the unit.  What is left of a message  *)
(* that was read in part is Junk: whoever reads it fails.  That junk could *)
(* by chance have the number a client waits for is left out.               *)
(***************************************************************************)
EXTENDS Integers, SequencesExt

CONSTANTS
  Backend,   \* subset of {"tcp", "rtu"}: what the context was made for
  Recovery,  \* sets of error recovery modes, subsets of {"link", "protocol"}
  Request,   \* calls of the client: see Call
  Raw,       \* PDUs sent with modbus_send_raw_request, none of them a write
  Bits, Regs,        \* addresses in the server's tables
  InputBits, InputRegs,  \* the read-only tables
  TidSpan,   \* transaction numbers, 2^16 in the code
  MaxCalls, MaxFaults    \* bounds

MaxWord == 65535
Word16 == 0..MaxWord

\* Addresses, numbers and values are words, those of coils are bits, and
\* there are as many values as the function takes.
WellFormed(r) ==
  /\ r.f \in {1, 2, 3, 4, 5, 6, 15, 16, 17, 22, 23}
  /\ {r.addr, r.nb, r.waddr} \subseteq Word16
  /\ r.vals \in Seq(IF r.f \in {5, 15} THEN {0, 1} ELSE Word16)
  /\ r.f \in {5, 6} => Len(r.vals) = 1
  /\ r.f = 22 => Len(r.vals) = 2
  /\ r.f \in {15, 16} => Len(r.vals) = r.nb

ASSUME ModbusAssumption ==
  /\ MaxCalls \in Nat /\ MaxFaults \in Nat
  /\ TidSpan \in Nat /\ TidSpan > MaxCalls + 1
  /\ Backend \subseteq {"tcp", "rtu"} /\ Recovery \subseteq SUBSET {"link", "protocol"}
  /\ \A r \in Request : WellFormed(r)
  /\ Bits \subseteq Nat /\ Regs \subseteq Nat
  /\ DOMAIN InputBits \subseteq Nat /\ InputBits \in [DOMAIN InputBits -> {0, 1}]
  /\ DOMAIN InputRegs \subseteq Nat /\ InputRegs \in [DOMAIN InputRegs -> Word16]

Broadcast == 0
Own == 1     \* the server's unit
Other == 2   \* the unit of the other device

VARIABLES
  backend, recovery,
  alive,     \* the connection stands
  t_id,      \* the client's last transaction number
  toServer, toClient,  \* messages under way
  other,     \* requests the other device has not answered
  waiting,   \* the request the client waits for, <<>>: none
  ignore,    \* confirmation_to_ignore of the server
  tab,       \* modbus_mapping_t
  asked,     \* history: the calls so far, and to which unit
  served,    \* history: which device served a call, what it is to answer
  got,       \* the client's last call, if it succeeded
  late,      \* history: a call gave up, so its answer may still come
  faults

vars == <<backend, recovery, alive, t_id, toServer, toClient, other, waiting,
          ignore, tab, asked, served, got, late, faults>>

Message(tid, unit, pdu, call) ==
  [tid |-> tid, unit |-> unit, pdu |-> pdu, call |-> call]
Junk == Message(0, 0, <<>>, 0)

-----------------------------------------------------------------------------
(* Bytes and words                                                         *)

W(x) == <<x \div 256, x % 256>>
Word(p, i) == p[i] * 256 + p[i + 1]
Words(s) == [i \in 1..2 * Len(s) |-> W(s[(i + 1) \div 2])[2 - (i % 2)]]
At(p, i) == IF i \in DOMAIN p THEN p[i] ELSE 0

BytesFor(nb) == nb \div 8 + (IF nb % 8 = 0 THEN 0 ELSE 1)

\* response_io_status: the first bit is the lowest of the first byte.
Pack(bits) ==
  LET bit(j, i) == At(bits, 8 * j - 7 + i)
  IN [j \in 1..BytesFor(Len(bits)) |->
        bit(j, 0) + 2 * bit(j, 1) + 4 * bit(j, 2) + 8 * bit(j, 3)
        + 16 * bit(j, 4) + 32 * bit(j, 5) + 64 * bit(j, 6) + 128 * bit(j, 7)]

BitOf(x, i) == (x \div 2^i) % 2
Unpack(p, i, nb) ==
  [k \in 1..nb |-> BitOf(p[i + (k - 1) \div 8], (k - 1) % 8)]
UnpackWords(p, i, nb) == [k \in 1..nb |-> Word(p, i + 2 * (k - 1))]

-----------------------------------------------------------------------------
(* The most values of a message                                            *)

MaxReadBits == 2000
MaxReadRegisters == 125
MaxWriteBits == 1968
MaxWriteRegisters == 123
MaxWrRegisters == 121    \* written, by the function that reads, too

-----------------------------------------------------------------------------
(* Requests: function r.f, address, number and values                      *)

ReadBits(r) == <<r.f>> \o W(r.addr) \o W(r.nb)
ReadRegisters(r) == <<r.f>> \o W(r.addr) \o W(r.nb)
On == 65280
WriteSingle(r) ==
  <<r.f>> \o W(r.addr)
          \o W(IF r.f = 6 THEN r.vals[1] ELSE On * r.vals[1])
WriteBits(r) ==
  <<15>> \o W(r.addr) \o W(r.nb) \o <<BytesFor(r.nb)>> \o Pack(r.vals)
WriteRegisters(r) ==
  <<16>> \o W(r.addr) \o W(r.nb) \o <<2 * r.nb>> \o Words(r.vals)
MaskWrite(r) == <<22>> \o W(r.addr) \o Words(r.vals)
WriteAndRead(r) ==
  <<23>> \o W(r.addr) \o W(r.nb) \o W(r.waddr) \o W(Len(r.vals))
         \o <<2 * Len(r.vals)>> \o Words(r.vals)
ReportSlaveId == <<17>>

Pdu(r) ==
  CASE r.f \in {1, 2} -> ReadBits(r)
    [] r.f \in {3, 4} -> ReadRegisters(r)
    [] r.f \in {5, 6} -> WriteSingle(r)
    [] r.f = 15       -> WriteBits(r)
    [] r.f = 16       -> WriteRegisters(r)
    [] r.f = 17       -> ReportSlaveId
    [] r.f = 22       -> MaskWrite(r)
    [] r.f = 23       -> WriteAndRead(r)

CountedBytes(p) == SubSeq(p, 3, 2 + p[2])

\* What the client takes from an answer it accepts.
Values(r, p) ==
  CASE r.f \in {1, 2}     -> Unpack(p, 3, r.nb)
    [] r.f \in {3, 4, 23} -> UnpackWords(p, 3, r.nb)
    [] r.f = 17           -> CountedBytes(p)
    [] OTHER              -> <<>>

-----------------------------------------------------------------------------
(* Lengths                                                                 *)

\* A slip: the answer to a masked write is taken for that of a write.
MetaOfWrites(f, confirmation) ==
  IF confirmation THEN (IF f \in {5, 6, 15, 16, 22} THEN 4 ELSE 1)
  ELSE CASE f <= 6        -> 4
         [] f \in {15, 16} -> 5
         [] f = 22        -> 6
         [] f = 23        -> 9
         [] OTHER         -> 0

\* compute_meta_length_after_function
Meta(f, confirmation) ==
  IF confirmation
  THEN CASE f \in {5, 6, 15, 16} -> 4
         [] f = 22               -> 6
         [] OTHER                -> 1
  ELSE CASE f <= 6         -> 4
         [] f \in {15, 16} -> 5
         [] f = 22         -> 6
         [] f = 23         -> 9
         [] OTHER          -> 0

\* compute_data_length_after_meta, the checksum left out
Data(p, confirmation) ==
  IF confirmation
  THEN IF p[1] <= 4 \/ p[1] \in {17, 23} THEN At(p, 2) ELSE 0
  ELSE CASE p[1] \in {15, 16} -> At(p, 6)
         [] p[1] = 23         -> At(p, 10)
         [] OTHER             -> 0

\* _modbus_receive_msg: the bytes a receiver reads for a message.
Size(p, confirmation) == 1 + Meta(p[1], confirmation) + Data(p, confirmation)

\* What is sent raw is a request the server can read, and writes nothing.
ASSUME RawAssumption ==
  \A p \in Raw : /\ p \in Seq(0..255) /\ p # <<>> /\ Size(p, FALSE) = Len(p)
                /\ p[1] \in 1..127 \ {5, 6, 15, 16, 22, 23}

\* compute_response_length_from_request; -1 is MSG_LENGTH_UNDEFINED.
Expected(p) ==
  CASE p[1] \in {1, 2}     -> 2 + BytesFor(Word(p, 4))
    [] p[1] \in {3, 4, 23} -> 2 + 2 * Word(p, 4)
    [] p[1] = 7            -> 3
    [] p[1] = 17           -> -1
    [] p[1] = 22           -> 7
    [] OTHER               -> 5

-----------------------------------------------------------------------------
(* modbus_reply: the answer, the tables and whether the input is flushed   *)

Answered(t, p) == [tab |-> t, pdu |-> p, flush |-> FALSE]
Refused(t, p, code) ==
  [tab |-> t, pdu |-> <<p[1] + 128, code>>, flush |-> FALSE]
\* Refused, and what has arrived is flushed.
Rejected(t, p, code) == [Refused(t, p, code) EXCEPT !.flush = TRUE]
IllegalFunction == 1
IllegalAddress == 2
IllegalValue == 3

Span(a, n) == a..(a + n - 1)
From(table, a, n) == [k \in 1..n |-> table[a + k - 1]]

\* An answer that counts its bytes.
Listed(f, n, bytes) == <<f, n>> \o bytes

ReplyReadBits(t, p) ==
  LET table == IF p[1] = 2 THEN InputBits ELSE t.bits
      a == Word(p, 2)
      nb == Word(p, 4)
      legal == nb \in 1..MaxReadBits
  IN CASE ~legal -> Rejected(t, p, IllegalValue)
       [] legal /\ ~(Span(a, nb) \subseteq DOMAIN table) ->
            Refused(t, p, IllegalAddress)
       [] OTHER ->
            Answered(t, Listed(p[1], BytesFor(nb), Pack(From(table, a, nb))))

ReplyReadRegisters(t, p) ==
  LET table == IF p[1] = 4 THEN InputRegs ELSE t.regs
      a == Word(p, 2)
      nb == Word(p, 4)
      legal == nb \in 1..MaxReadRegisters
  IN CASE ~legal -> Rejected(t, p, IllegalValue)
       [] legal /\ ~(Span(a, nb) \subseteq DOMAIN table) ->
            Refused(t, p, IllegalAddress)
       [] OTHER -> Answered(t, Listed(p[1], 2 * nb, Words(From(table, a, nb))))

\* A slip: the table gets the word of the request.
ReplyWriteCoilWord(t, p) ==
  LET a == Word(p, 2)
  IN IF a \in Bits THEN Answered([t EXCEPT !.bits[a] = Word(p, 4)], p)
     ELSE Refused(t, p, IllegalAddress)

ReplyWriteCoil(t, p) ==
  LET a == Word(p, 2)
      data == Word(p, 4)
  IN CASE a \notin Bits -> Refused(t, p, IllegalAddress)
       [] a \in Bits /\ data \notin {On, 0} ->
            Refused(t, p, IllegalValue)
       [] OTHER -> Answered([t EXCEPT !.bits[a] = IF data = 0 THEN 0 ELSE 1], p)

ReplyWriteRegister(t, p) ==
  IF Word(p, 2) \in Regs
  THEN Answered([t EXCEPT !.regs[Word(p, 2)] = Word(p, 4)], p)
  ELSE Refused(t, p, IllegalAddress)

\* The table with the values written from address a on.
Wrote(table, a, values) ==
  [x \in DOMAIN table |->
     IF x \in Span(a, Len(values)) THEN values[x - a + 1] ELSE table[x]]
PutBits(t, a, values) == [t EXCEPT !.bits = Wrote(@, a, values)]
PutRegs(t, a, values) == [t EXCEPT !.regs = Wrote(@, a, values)]

ReplyWriteBits(t, p) ==
  LET a == Word(p, 2)
      nb == Word(p, 4)
      legal == nb \in 1..MaxWriteBits /\ p[6] * 8 >= nb
  IN CASE ~legal -> Rejected(t, p, IllegalValue)
       [] legal /\ ~(Span(a, nb) \subseteq Bits) ->
            Refused(t, p, IllegalAddress)
       [] OTHER -> Answered(PutBits(t, a, Unpack(p, 7, nb)), SubSeq(p, 1, 5))

ReplyWriteRegisters(t, p) ==
  LET a == Word(p, 2)
      nb == Word(p, 4)
      legal == nb \in 1..MaxWriteRegisters /\ p[6] = 2 * nb
  IN CASE ~legal -> Rejected(t, p, IllegalValue)
       [] legal /\ ~(Span(a, nb) \subseteq Regs) ->
            Refused(t, p, IllegalAddress)
       [] OTHER ->
            Answered(PutRegs(t, a, UnpackWords(p, 7, nb)), SubSeq(p, 1, 5))

\* The identifier, the run indicator, and "LMB" for the text.
SlaveId == <<180, 255, 76, 77, 66>>
ReplySlaveId(t) == Answered(t, Listed(17, Len(SlaveId), SlaveId))

\* (d & and) | (or & ~and)
WordBits(x) == Unpack(<<x % 256, x \div 256>>, 1, 16)
Masked(d, and, or) ==
  LET bit(k) == IF WordBits(and)[k] = 1 THEN WordBits(d)[k] ELSE WordBits(or)[k]
      b == Pack([k \in 1..16 |-> bit(k)])
  IN b[1] + 256 * b[2]

ReplyMaskWrite(t, p) ==
  IF Word(p, 2) \in Regs
  THEN Answered([t EXCEPT !.regs[Word(p, 2)] =
                            Masked(@, Word(p, 4), Word(p, 6))], p)
  ELSE Refused(t, p, IllegalAddress)

\* Written first, then read.
ReplyWriteAndRead(t, p) ==
  LET a == Word(p, 2)
      nb == Word(p, 4)
      wa == Word(p, 6)
      wnb == Word(p, 8)
      legal == /\ wnb \in 1..MaxWrRegisters /\ nb \in 1..MaxReadRegisters
               /\ p[10] = 2 * wnb
      u == PutRegs(t, wa, UnpackWords(p, 11, wnb))
  IN CASE ~legal -> Rejected(t, p, IllegalValue)
       [] legal /\ ~(Span(a, nb) \union Span(wa, wnb) \subseteq Regs) ->
            Refused(t, p, IllegalAddress)
       [] OTHER ->
            Answered(u, Listed(23, 2 * nb, Words(From(u.regs, a, nb))))

\* Function 7 is not answered: `FIXME Not implemented'.
Reply(t, p) ==
  CASE p[1] \in {1, 2} -> ReplyReadBits(t, p)
    [] p[1] \in {3, 4} -> ReplyReadRegisters(t, p)
    [] p[1] = 5        -> ReplyWriteCoil(t, p)
    [] p[1] = 6        -> ReplyWriteRegister(t, p)
    [] p[1] = 7        -> Answered(t, <<>>)
    [] p[1] = 15       -> ReplyWriteBits(t, p)
    [] p[1] = 16       -> ReplyWriteRegisters(t, p)
    [] p[1] = 17       -> ReplySlaveId(t)
    [] p[1] = 22       -> ReplyMaskWrite(t, p)
    [] p[1] = 23       -> ReplyWriteAndRead(t, p)
    [] OTHER           -> Rejected(t, p, IllegalFunction)

-----------------------------------------------------------------------------
(* What a call means, with no byte in it                                   *)

Legal(r) ==
  /\ r.f = 1         => r.nb >= 1 /\ Span(r.addr, r.nb) \subseteq Bits
  /\ r.f = 2         => r.nb >= 1 /\ Span(r.addr, r.nb) \subseteq DOMAIN InputBits
  /\ r.f = 3         => r.nb >= 1 /\ Span(r.addr, r.nb) \subseteq Regs
  /\ r.f = 4         => r.nb >= 1 /\ Span(r.addr, r.nb) \subseteq DOMAIN InputRegs
  /\ r.f = 5         => r.addr \in Bits
  /\ r.f \in {6, 22} => r.addr \in Regs
  /\ r.f = 15        => r.nb >= 1 /\ Span(r.addr, r.nb) \subseteq Bits
  /\ r.f = 16        => r.nb >= 1 /\ Span(r.addr, r.nb) \subseteq Regs
  /\ r.f = 23        => /\ r.nb >= 1 /\ r.vals # <<>>
                        /\ Span(r.addr, r.nb) \subseteq Regs
                        /\ Span(r.waddr, Len(r.vals)) \subseteq Regs

\* Each bit of the word is kept where the first mask has a one, and is that
\* of the second mask elsewhere.
IsMasked(x, d, masks) ==
  \A i \in 0..15 :
    BitOf(x, i) = IF BitOf(masks[1], i) = 1 THEN BitOf(d, i)
                  ELSE BitOf(masks[2], i)

\* The tables t become u.
Means(r, t, u) ==
  /\ ~Legal(r) \/ r.f \in {1, 2, 3, 4, 17} => u = t
  /\ Legal(r) /\ r.f \in {5, 15} =>
       u.regs = t.regs /\ u.bits = Wrote(t.bits, r.addr, r.vals)
  /\ Legal(r) /\ r.f \in {6, 16} =>
       u.bits = t.bits /\ u.regs = Wrote(t.regs, r.addr, r.vals)
  /\ Legal(r) /\ r.f = 22 =>
       /\ u.bits = t.bits
       /\ \A x \in Regs : IF x = r.addr THEN IsMasked(u.regs[x], t.regs[x], r.vals)
                          ELSE u.regs[x] = t.regs[x]
  /\ Legal(r) /\ r.f = 23 =>
       u.bits = t.bits /\ u.regs = Wrote(t.regs, r.waddr, r.vals)

\* What the client is to get, the tables being u then.
Gets(r, u) ==
  LET from(table) == From(table, r.addr, r.nb)
  IN CASE r.f = 1          -> from(u.bits)
       [] r.f = 2          -> from(InputBits)
       [] r.f \in {3, 23}  -> from(u.regs)
       [] r.f = 4          -> from(InputRegs)
       [] r.f = 17         -> SlaveId
       [] OTHER            -> <<>>

-----------------------------------------------------------------------------
Tables == [bits : [Bits -> {0, 1}], regs : [Regs -> Word16]]
Blank == [bits |-> [x \in Bits |-> 0], regs |-> [x \in Regs |-> 0]]
Nothing == [call |-> 0, from |-> 0, val |-> <<>>]
NotServed == [by |-> "none", val |-> <<>>]

TypeOK ==
  /\ backend \in Backend /\ recovery \in Recovery
  /\ {alive, ignore, late} \subseteq BOOLEAN
  /\ t_id \in 0..(TidSpan - 1)
  /\ tab \in Tables
  /\ Len(asked) <= MaxCalls /\ DOMAIN served = DOMAIN asked
  /\ waiting # <<>> => waiting.call = Len(asked)
  /\ \A i \in DOMAIN toClient : toClient[i].call \in 0..Len(asked)
  /\ \A i \in DOMAIN toServer : toServer[i].call \in 0..Len(asked)

\* modbus_new_tcp or modbus_new_rtu, modbus_set_error_recovery, connected.
Init ==
  /\ backend \in Backend /\ recovery \in Recovery
  /\ alive = TRUE /\ t_id = 0
  /\ toServer = <<>> /\ toClient = <<>> /\ other = <<>> /\ waiting = <<>>
  /\ ignore = FALSE /\ late = FALSE /\ faults = 0
  /\ tab = Blank
  /\ asked = <<>> /\ served = <<>> /\ got = Nothing

history == <<asked, served, got>>
setting == <<backend, recovery>>

-----------------------------------------------------------------------------
(* The client                                                              *)

\* More values than a message holds are refused before anything is sent.
Within(r) ==
  /\ r.f \in {1, 2} => r.nb <= MaxReadBits
  /\ r.f \in {3, 4, 23} => r.nb <= MaxReadRegisters
  /\ r.f = 15 => r.nb <= MaxWriteBits
  /\ r.f = 16 => r.nb <= MaxWriteRegisters
  /\ r.f = 23 => Len(r.vals) <= MaxWrRegisters

\* The next transaction number; the serial line has none.
NextTid == IF backend = "tcp" THEN (t_id + 1) % TidSpan ELSE 0

\* send_msg of a request.  On a dead connection it fails, or, with the
\* recovery of links, connects again and sends once more.
Send(m) ==
  /\ alive' = (alive \/ "link" \in recovery)
  /\ toServer' = IF alive' THEN Append(toServer, m) ELSE toServer
  /\ other' = IF backend = "rtu" /\ m.unit = Other THEN Append(other, m)
              ELSE other

\* A call of the client, up to its wait for the confirmation.
Call(r, unit) ==
  LET m == Message(NextTid, unit, Pdu(r), Len(asked) + 1)
  IN /\ waiting = <<>> /\ Len(asked) < MaxCalls /\ Within(r)
     /\ backend = "tcp" => unit = Own
     /\ t_id' = NextTid
     /\ Send(m)
     /\ waiting' = IF alive' THEN m ELSE <<>>
     /\ asked' = Append(asked, [r |-> r, unit |-> unit])
     /\ served' = Append(served, NotServed)
     /\ got' = Nothing
     /\ UNCHANGED <<setting, toClient, ignore, tab, late, faults>>

\* modbus_send_raw_request: number zero, and nobody waits.
SendRaw(p) ==
  /\ waiting = <<>> /\ alive /\ faults < MaxFaults
  /\ Send(Message(0, Own, p, 0))
  /\ late' = TRUE
  /\ faults' = faults + 1
  /\ UNCHANGED <<setting, t_id, toClient, waiting, ignore, tab, history>>

\* modbus_flush takes what has arrived.
Flushed(s) == Suffixes(s)

\* A slip: any transaction number will do.
PreCheckNoTid(m) == backend = "tcp" \/ waiting.unit \in {m.unit, Broadcast}

PreCheck(m) ==
  IF backend = "tcp" THEN m.tid = waiting.tid
  ELSE waiting.unit \in {m.unit, Broadcast}

\* check_integrity: on the serial line a message of another unit has length 0.
Received(m) ==
  IF backend = "rtu" /\ m.unit # waiting.unit THEN 0 ELSE Len(m.pdu)

\* check_confirmation.  The byte count of an answer to a reading agrees with
\* its length.
Check(m) ==
  LET f == m.pdu[1]
      p == waiting.pdu
      mine == m # Junk /\ PreCheck(m)
  IN CASE ~mine -> "bad"
       [] mine /\ f >= 128 ->
            IF Received(m) = 2 /\ p[1] = f - 128 THEN "exception"
            ELSE "badexception"
       [] mine /\ f < 128 ->
            IF /\ Expected(p) \in {-1, Received(m)}
               /\ f = p[1]
               /\ f \in {15, 16} => Word(m.pdu, 4) = Word(p, 4)
            THEN "ok" ELSE "bad"

\* The call returns.  With the recovery of the protocol, a message that does
\* not fit is answered by a pause and a flush.
Confirm ==
  LET m == Head(toClient)
      verdict == Check(m)
  IN /\ waiting # <<>> /\ toClient # <<>>
     /\ IF verdict = "bad" /\ "protocol" \in recovery
        THEN toClient' \in Flushed(Tail(toClient))
        ELSE toClient' = Tail(toClient)
     /\ got' = IF verdict = "ok"
               THEN [call |-> waiting.call, from |-> m.call,
                     val |-> Values(asked[waiting.call].r, m.pdu)]
               ELSE Nothing
     /\ late' = (late \/ verdict \in {"bad", "badexception"})
     /\ waiting' = <<>>
     /\ UNCHANGED <<setting, alive, t_id, toServer, other, ignore, tab, asked,
                    served, faults>>

\* The wait ends with nothing, or after a part of a message.  A broadcast
\* has no answer.
TimesOut ==
  /\ waiting # <<>>
  /\ waiting.unit = Broadcast \/ faults < MaxFaults
  /\ faults' = IF waiting.unit = Broadcast THEN faults ELSE faults + 1
  /\ \E left \in {toClient} \union
                 {<<Junk>> \o Tail(s) : s \in {toClient} \ {<<>>}} :
       toClient' \in IF "link" \in recovery THEN Flushed(left) ELSE {left}
  /\ waiting' = <<>>
  /\ late' = (late \/ waiting.unit # Broadcast \/ toClient # <<>>)
  /\ UNCHANGED <<setting, alive, t_id, toServer, other, ignore, tab, history>>

\* The connection breaks; what was under way is gone.
Breaks ==
  /\ backend = "tcp" /\ alive /\ faults < MaxFaults
  /\ alive' = FALSE
  /\ toServer' = <<>> /\ toClient' = <<>>
  /\ faults' = faults + 1
  /\ UNCHANGED <<setting, t_id, other, waiting, ignore, tab, history, late>>

\* The wait ends with a connection that was reset.
Reset ==
  /\ waiting # <<>> /\ ~alive
  /\ alive' = ("link" \in recovery)
  /\ waiting' = <<>>
  /\ UNCHANGED <<setting, t_id, toServer, toClient, other, ignore, tab,
                 history, late, faults>>

\* modbus_close and modbus_connect by the program.
Reconnect ==
  /\ backend = "tcp" /\ waiting = <<>>
  /\ ~alive \/ toClient # <<>> \/ toServer # <<>>
  /\ alive' = TRUE
  /\ toServer' = <<>> /\ toClient' = <<>>
  /\ UNCHANGED <<setting, t_id, other, waiting, ignore, tab, history, late,
                 faults>>

-----------------------------------------------------------------------------
(* The server and the other device                                         *)

\* What is left of s when the first message was read as n bytes.
LeftAfter(s, n) ==
  LET size == Len(Head(s).pdu)
  IN CASE n = size -> {Tail(s)}
       [] n < size -> {<<Junk>> \o Tail(s)}
       [] n > size -> UNION {{t, <<Junk>> \o t} : t \in Suffixes(Tail(s))}

\* A slip: the messages for others are served too.
NoneIgnored(m) == ignore

\* A message for another unit, whose answer is to be ignored, or that answer,
\* or anything that stands where it was expected.
Ignored(m) == ignore \/ (m # Junk /\ m.unit \notin {Own, Broadcast})

\* Junk that begins with another byte than the own unit is a message for
\* another unit to a serial server, so the next one will be ignored.
TakenForForeign(m) == backend = "rtu" /\ m = Junk /\ ignore' = TRUE

\* Note what device `by`, with the tables u, did about a call.
Remember(c, by, u) ==
  served' = IF c = 0 THEN served
            ELSE [served EXCEPT ![c] =
                    [by |-> IF Legal(asked[c].r) THEN by ELSE "refused",
                     val |-> IF Legal(asked[c].r) THEN Gets(asked[c].r, u)
                             ELSE <<>>]]

\* modbus_receive and modbus_reply.
Serve ==
  LET m == Head(toServer)
      n == IF m = Junk THEN 1 ELSE Size(m.pdu, ignore)
      answer == Reply(tab, m.pdu)
      silent == answer.pdu = <<>> \/ (backend = "rtu" /\ m.unit = Broadcast)
  IN /\ toServer # <<>>
     /\ IF backend = "rtu" /\ Ignored(m)
        THEN /\ ignore' = ~ignore
             /\ toServer' \in LeftAfter(toServer, n)
             /\ UNCHANGED <<tab, served, toClient>>
        ELSE IF m = Junk \/ n # Len(m.pdu)
        THEN /\ toServer' \in LeftAfter(toServer, n)
             /\ UNCHANGED ignore \/ TakenForForeign(m)
             /\ UNCHANGED <<tab, served, toClient>>
        ELSE /\ toServer' \in IF answer.flush THEN Flushed(Tail(toServer))
                              ELSE {Tail(toServer)}
             /\ tab' = answer.tab
             /\ toClient' = IF silent THEN toClient
                            ELSE Append(toClient, Message(m.tid, m.unit,
                                                          answer.pdu, m.call))
             /\ Remember(m.call, "own", tab')
             /\ UNCHANGED ignore
     /\ UNCHANGED <<setting, alive, t_id, other, waiting, asked, got, late,
                    faults>>

\* The other device forgets what it is told; the server hears its answers.
OtherAnswers ==
  LET m == Head(other)
      reply == Reply(Blank, m.pdu)
      answer == Message(0, Other, reply.pdu, m.call)
  IN /\ other # <<>>
     /\ other' = Tail(other)
     /\ toClient' = Append(toClient, answer)
     /\ toServer' = Append(toServer, answer)
     /\ Remember(m.call, "other", reply.tab)
     /\ UNCHANGED <<setting, alive, t_id, waiting, ignore, tab, asked, got,
                    late, faults>>

-----------------------------------------------------------------------------
Next ==
  \/ \E r \in Request, unit \in {Broadcast, Own, Other} : Call(r, unit)
  \/ \E p \in Raw : SendRaw(p)
  \/ Confirm \/ TimesOut \/ Breaks \/ Reset \/ Reconnect
  \/ Serve \/ OtherAnswers

Spec == Init /\ [][Next]_vars

-----------------------------------------------------------------------------
(* Properties                                                              *)

\* Both ends agree on the length of every message they exchange: what the
\* receiver computes from the function and the counts while it reads
\* (_modbus_receive_msg) is what the sender has put together.  The server
\* hears the answers of the other device, too.
SizesAgree ==
  /\ \A i \in DOMAIN toClient : toClient[i] # Junk =>
       Size(toClient[i].pdu, TRUE) = Len(toClient[i].pdu)
  /\ \A i \in DOMAIN toServer :
       LET m == toServer[i]
       IN \/ m = Junk
          \/ Size(m.pdu, FALSE) = Len(m.pdu)
          \/ m.unit = Other /\ Size(m.pdu, TRUE) = Len(m.pdu)

\* What a call returns is the answer to that very call, and the values are
\* those of the tables when it was served.  Over TCP this is so although
\* answers come late; a serial line has no transaction numbers, and it is so
\* as long as no call has given up.
AnswerOwn ==
  got # Nothing /\ (backend = "tcp" \/ ~late) =>
    /\ got.from = got.call
    /\ served[got.call].by \in {"own", "other"}
    /\ served[got.call].val = got.val

\* The server's tables change only by a call to it or to all, once per call,
\* and as that call means: the bytes of the request are understood as they
\* were put together, and a refused call changes nothing.
ServedOnce ==
  [][tab' # tab \/ served' # served =>
       \/ \E c \in DOMAIN asked :
            /\ asked[c].unit \in {Own, Broadcast} /\ served[c] = NotServed
            /\ Means(asked[c].r, tab, tab')
       \/ tab' = tab /\ \E c \in DOMAIN served' :
            \/ c \notin DOMAIN served
            \/ asked[c].unit = Other /\ served[c] = NotServed]_vars
=============================================================================
