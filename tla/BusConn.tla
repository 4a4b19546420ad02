------------------------------ MODULE BusConn -------------------------------
(***************************************************************************)
(* The bus of the hub: the select loop of main.cpp, which accepts          *)
(* connections, cuts what they send into frames, and hands each frame to   *)
(* data_handler; here with the registration of vehicles and the answers to *)
(* the dispatcher.  One thread does all of it.                             *)
(*                                                                         *)
(* The unit is the word of 4 bytes.  A record of a connection (sock_kit)   *)
(* is memory: bus_conn holds pointers, deleted memory is given to the next *)
(* record, and a pointer to it may be used all the same.  Memory deleted   *)
(* twice may be given to two.                                              *)
(***************************************************************************)
EXTENDS AgvRegistry, Sequences, SequencesExt, FiniteSetsExt

CONSTANTS
  Streams,     \* what a peer may send: sequences of messages
  Sockets,     \* numbers of sockets, given again after a close
  LEN_BUF_RCV, \* in words
  Chunks,      \* bound: the words a recv returns, or all there are
  MaxConns,    \* bound: connections
  MaxStarts    \* bound: restarts

LenDx == 8     \* the words of a dx; a check sum follows
Mod == 3       \* the words of its head, all UINT_MAX

ASSUME BusAssumption ==
  /\ Sockets \subseteq Nat \ {0} /\ Chunks \subseteq Nat \ {0}
  /\ {LEN_BUF_RCV, MaxConns, MaxStarts} \subseteq Nat /\ LEN_BUF_RCV > LenDx

Conn == 1..MaxConns
Rec == 1..MaxConns

VARIABLES
  conns,       \* connections made so far
  wire,        \* what the peer of each has sent and was not received
  closed,      \* connections the peer has closed
  owner,       \* the connection of each socket, 0: none
  bus_conn,    \* pointers to records
  heap,        \* the records: fd and what is in buf_rcv up to buf_offset
  free,        \* how often the allocator has each record to give
  at,          \* the record whose buffer is being parsed, 0: none
  dispatcher,  \* the number of a socket, 0: none yet
  registrant,  \* history: the connection of the last registration
  due,         \* history: frames of a connection data_handler is yet to get
  rough,       \* history: those with noise that is no multiple of Mod
  answer,      \* history: the connection sent to in the last step
  hurt,        \* history: those whose record was deleted early or given to
               \* another, or that came upon a deleted one; the peer is there
  starts

connVars == <<conns, wire, closed, owner, bus_conn, free, rough, hurt, starts>>
vars == <<regVars, connVars, heap, due, at, dispatcher, registrant, answer>>

-----------------------------------------------------------------------------
(* Frames                                                                  *)

\* A message: what it is, for which vehicle, and its words.
Message(cmd, ip, len) == [cmd |-> cmd, ip |-> ip, len |-> len]

Words(m, i) == [k \in 1..m.len |-> [msg |-> m, i |-> i, k |-> k]]
Stream(ms) == FlattenSeq([i \in DOMAIN ms |-> Words(ms[i], i)])

IsFrame(m) == m.cmd # "noise"

\* The frames of a stream, each with its place.
FramesOf(ms) == {[msg |-> ms[i], i |-> i] : i \in {j \in DOMAIN ms : IsFrame(ms[j])}}

Word == UNION {{Stream(ms)[k] : k \in DOMAIN Stream(ms)} : ms \in Streams}

\* A frame is a dx with its check sum, maybe with data before that, and fits
\* the buffer; one that registers names a vehicle.
ASSUME StreamAssumption ==
  \A ms \in Streams :
    /\ ms \in Seq({ms[i] : i \in DOMAIN ms})
    /\ \A i \in DOMAIN ms :
         /\ ms[i].len \in Nat
         /\ IsFrame(ms[i]) => ms[i].len \in LenDx + 1..LEN_BUF_RCV
         /\ ms[i].cmd \in {"657185", "657186"} => ms[i].ip \in Addr

\* Noise lasts a multiple of the words that are looked at.
Aligned(ms) == \A i \in DOMAIN ms : IsFrame(ms[i]) \/ ms[i].len % Mod = 0
IsMax(w) == IsFrame(w.msg) /\ w.k <= Mod
HeadAt(b, p) == p + Mod <= Len(b) /\ \A d \in 1..Mod : IsMax(b[p + d])

\* A slip: the last multiple is not looked at.
HeadsShort(b) == {q \in 0..(Len(b) \div Mod - 2) : HeadAt(b, q * Mod)}

\* The multiples of Mod at which a head is found.
Heads(b) == {q \in 0..(Len(b) \div Mod - 1) : HeadAt(b, q * Mod)}

\* What is left of b when no frame begins it: from the first head found, or
\* else what exceeds the last multiple.
Resync(b) ==
  SubSeq(b, Mod * (IF Heads(b) = {} THEN Len(b) \div Mod ELSE Min(Heads(b))) + 1,
         Len(b))

-----------------------------------------------------------------------------
Unused == [fd |-> 0, buf |-> <<>>]

BusInit ==
  /\ RegistryInit
  /\ conns = 0 /\ starts = 0
  /\ wire = [c \in Conn |-> <<>>] /\ due = [c \in Conn |-> {}]
  /\ closed = {} /\ hurt = {} /\ rough = {}
  /\ owner = [s \in Sockets |-> 0]
  /\ bus_conn = <<>> /\ free = [r \in Rec |-> 1]
  /\ heap = [r \in Rec |-> Unused]
  /\ at = 0 /\ dispatcher = 0 /\ registrant = 0 /\ answer = 0

\* The process ends, of memory used wrongly or otherwise, and starts again.
Restart ==
  /\ starts < MaxStarts /\ starts' = starts + 1
  /\ load_agvs
  /\ closed' = closed \union 1..conns
  /\ wire' = [c \in Conn |-> <<>>] /\ due' = [c \in Conn |-> {}]
  /\ owner' = [s \in Sockets |-> 0]
  /\ bus_conn' = <<>> /\ free' = [r \in Rec |-> 1]
  /\ heap' = [r \in Rec |-> Unused]
  /\ at' = 0 /\ dispatcher' = 0 /\ registrant' = 0 /\ answer' = 0
  /\ rough' = {} /\ hurt' = {}
  /\ UNCHANGED conns

Idle == at = 0
Open(c) == \E s \in Sockets : owner[s] = c
NoAnswer == answer' = 0

\* The places of bus_conn whose record has socket s.
Places(s) == {p \in DOMAIN bus_conn : heap[bus_conn[p]].fd = s}

\* The connection that finds r by its socket, 0: none.
Holder(r) == IF heap[r].fd = 0 THEN 0 ELSE owner[heap[r].fd]

Hurts(C) == hurt' = (hurt \union C) \ (closed \union {0})

\* A number or a record for a new connection: one that is told apart, since
\* something refers to it or it is to be had twice, or any other; the others
\* are alike.
Picks(from, apart) ==
  (from \intersect apart) \union {x \in from \ apart : \A y \in from \ apart : x <= y}

\* accept, SET_SOCK_KIT: any memory the allocator has may become the record,
\* although it may be that of an open connection.
Accept(ms) ==
  /\ Idle /\ conns < MaxConns
  /\ LET c == conns + 1
         pointed == Range(bus_conn)
     IN \E s \in Picks({t \in Sockets : owner[t] = 0},
                      {dispatcher} \union {heap[r].fd : r \in pointed}),
          r \in Picks({q \in Rec : free[q] > 0},
                      pointed \union {q \in Rec : free[q] > 1}) :
          /\ owner' = [owner EXCEPT ![s] = c]
          /\ conns' = c
          /\ wire' = [wire EXCEPT ![c] = Stream(ms)]
          /\ heap' = [heap EXCEPT ![r] = [fd |-> s, buf |-> <<>>]]
          /\ free' = [free EXCEPT ![r] = @ - 1]
          /\ bus_conn' = Append(bus_conn, r)
          /\ Hurts({Holder(r)} \union IF Places(s) = {} THEN {} ELSE {c})
          /\ rough' = IF Aligned(ms) THEN rough ELSE rough \union {c}
          /\ due' = [d \in Conn |-> IF d \in hurt' \union rough' THEN {}
                                    ELSE IF d = c THEN FramesOf(ms) ELSE due[d]]
  /\ NoAnswer
  /\ UNCHANGED <<regVars, closed, at, dispatcher, registrant, starts>>

\* A peer closes; what it has sent arrives, or is lost.
PeerCloses(c) ==
  /\ c <= conns /\ c \notin closed
  /\ closed' = closed \union {c}
  /\ \/ UNCHANGED wire
     \/ wire[c] # <<>> /\ wire' = [wire EXCEPT ![c] = <<>>]
  /\ due' = [due EXCEPT ![c] = {}]
  /\ rough' = rough \ {c} /\ hurt' = hurt \ {c}
  /\ NoAnswer
  /\ UNCHANGED <<regVars, conns, owner, bus_conn, heap, free, at, dispatcher,
                 registrant, starts>>

-----------------------------------------------------------------------------
(* The select loop                                                         *)

\* A slip: recv may write all there is.
ArrivesAll(c, room) == {Len(wire[c])} \ {0}

\* recv takes the next words of c, as many as there is room for.
Arrives(c, room) ==
  {n \in Chunks \union {Len(wire[c])} : n > 0 /\ n <= Len(wire[c]) /\ n <= room}
  \union IF room < Len(wire[c]) THEN {room} ELSE {}

Takes(c, n) == wire' = [wire EXCEPT ![c] = SubSeq(@, n + 1, Len(@))]

Recv(s) ==
  /\ Idle /\ owner[s] # 0 /\ Places(s) # {}
  /\ LET r == bus_conn[Min(Places(s))]
         c == owner[s]
     IN /\ \E n \in Arrives(c, LEN_BUF_RCV - Len(heap[r].buf)) :
             /\ n > 0
             /\ heap' = [heap EXCEPT ![r].buf = @ \o SubSeq(wire[c], 1, n)]
             /\ Takes(c, n)
        /\ at' = r
  /\ NoAnswer
  /\ UNCHANGED <<regVars, conns, closed, owner, bus_conn, free, due,
                 dispatcher, registrant, rough, hurt, starts>>

\* No record has the socket: what comes is read and thrown away.
Discard(s) ==
  /\ Idle /\ owner[s] # 0 /\ Places(s) = {} /\ wire[owner[s]] # <<>>
  /\ wire' = [wire EXCEPT ![owner[s]] = <<>>]
  /\ NoAnswer
  /\ UNCHANGED <<regVars, conns, closed, owner, bus_conn, heap, free, due,
                 at, dispatcher, registrant, rough, hurt, starts>>

\* delete: the allocator has r once more, even if it had it.  One that takes
\* notice never gives r twice, as this one need not either.
Deleted(f, r) == [f EXCEPT ![r] = @ + 1]

\* recv returns nothing: the peer has closed, or there is no room.  The
\* record r is deleted and its place erased, and then the record the iterator
\* is left at is deleted too: the next one, which stays in bus_conn, or, when
\* r was the last, what the erased place still holds, r again.  A record
\* deleted keeps its socket or loses it.
Close(s) ==
  /\ Idle /\ owner[s] # 0 /\ Places(s) # {}
  /\ LET p == Min(Places(s))
         r == bus_conn[p]
         c == owner[s]
         next == IF p < Len(bus_conn) THEN bus_conn[p + 1] ELSE r
     IN /\ \/ c \in closed /\ wire[c] = <<>>
           \/ Len(heap[r].buf) = LEN_BUF_RCV
        /\ owner' = [owner EXCEPT ![s] = 0]
        /\ bus_conn' = RemoveAt(bus_conn, p)
        /\ free' = Deleted(Deleted(free, r), next)
        /\ Hurts({Holder(next)} \ {c})
        /\ due' = [d \in Conn |-> IF d \in hurt' THEN {} ELSE due[d]]
        /\ \E lost \in SUBSET {r, next} :
             heap' = [q \in Rec |->
                        IF q \notin Range(bus_conn') THEN Unused
                        ELSE IF q \in lost THEN [heap[q] EXCEPT !.fd = 0]
                        ELSE heap[q]]
  /\ NoAnswer
  /\ UNCHANGED <<regVars, conns, wire, closed, at, dispatcher, registrant,
                 rough, starts>>

-----------------------------------------------------------------------------
(* BUF_PARSE: the buffer of the record "at"                                *)

Buf == heap[at].buf
Keeps(b) == heap' = [heap EXCEPT ![at].buf = b]

\* A slip: the answer goes to the connection that asks.
AnswersAsker == answer' = owner[heap[at].fd]

\* send(dispatcher, ...): to whom the socket belongs now.
Answers == answer' = IF dispatcher = 0 THEN 0 ELSE owner[dispatcher]

StoreyOf(cmd) == IF cmd = "657185" THEN 1 ELSE 2

\* data_handler, and CRC_ERROR.
Handle(m) ==
  CASE m.cmd \in {"657185", "657186"} ->
         /\ dispatcher' = heap[at].fd
         /\ RegAgv(m.ip, StoreyOf(m.cmd))
         /\ registrant' = owner[heap[at].fd]
         /\ NoAnswer
    [] m.cmd \in {"657189", "damaged"} ->
         /\ Answers /\ UNCHANGED <<regVars, dispatcher, registrant>>
    [] OTHER -> NoAnswer /\ UNCHANGED <<regVars, dispatcher, registrant>>

\* A frame begins the buffer and is there in whole.
Frame ==
  LET m == Buf[1].msg
  IN /\ at # 0 /\ Len(Buf) >= LenDx /\ HeadAt(Buf, 0) /\ m.len <= Len(Buf)
     /\ Handle(m)
     /\ Keeps(SubSeq(Buf, m.len + 1, Len(Buf)))
     /\ due' = [due EXCEPT ![owner[heap[at].fd]] =
                  {f \in @ : f.msg # m \/ \E g \in @ : g.i < f.i}]
     /\ UNCHANGED <<connVars, at>>

\* A slip: words without a head are kept, to wait for one.
SkipKeeps ==
  /\ at # 0 /\ Len(Buf) >= LenDx /\ ~HeadAt(Buf, 0)
  /\ Keeps(IF Heads(Buf) = {} THEN Buf ELSE Resync(Buf))
  /\ at' = IF Heads(Buf) = {} THEN 0 ELSE at
  /\ NoAnswer
  /\ UNCHANGED <<regVars, connVars, due, dispatcher, registrant>>

\* No frame begins it: on to one, or back to select with less than Mod.
Skip ==
  /\ at # 0 /\ Len(Buf) >= LenDx /\ ~HeadAt(Buf, 0)
  /\ Keeps(Resync(Buf))
  /\ at' = IF Heads(Buf) = {} THEN 0 ELSE at
  /\ NoAnswer
  /\ UNCHANGED <<regVars, connVars, due, dispatcher, registrant>>

\* A slip: a frame that fills the buffer exactly waits for more.
WaitLonger ==
  /\ at # 0
  /\ \/ Len(Buf) < LenDx
     \/ HeadAt(Buf, 0) /\ Buf[1].msg.len >= Len(Buf)
  /\ at' = 0
  /\ NoAnswer
  /\ UNCHANGED <<regVars, connVars, heap, due, dispatcher, registrant>>

\* Too little for a frame, or for this one: back to select.
Wait ==
  /\ at # 0
  /\ \/ Len(Buf) < LenDx
     \/ HeadAt(Buf, 0) /\ Buf[1].msg.len > Len(Buf)
  /\ at' = 0
  /\ NoAnswer
  /\ UNCHANGED <<regVars, connVars, heap, due, dispatcher, registrant>>

-----------------------------------------------------------------------------
Loop ==
  \/ \E s \in Sockets : Recv(s) \/ Discard(s) \/ Close(s)
  \/ Frame \/ Skip \/ Wait

Next ==
  \/ \E ms \in Streams : Accept(ms)
  \/ \E c \in Conn : PeerCloses(c)
  \/ Loop
  \/ Restart

BusSpec == BusInit /\ [][Next]_vars

\* The main thread goes on; peers need not close and the hub need not die.
LiveSpec == BusSpec /\ WF_vars(Loop)

-----------------------------------------------------------------------------
(* Properties                                                              *)

BusTypeOK ==
  /\ RegistryTypeOK
  /\ conns \in 0..MaxConns /\ starts \in 0..MaxStarts
  /\ closed \subseteq Conn /\ hurt \subseteq Conn /\ free \in [Rec -> Nat]
  /\ owner \in [Sockets -> 0..MaxConns]
  /\ {bus_conn[p] : p \in DOMAIN bus_conn} \subseteq Rec
  /\ \A r \in Rec : /\ heap[r].fd \in Sockets \union {0}
                    /\ Len(heap[r].buf) <= LEN_BUF_RCV
  /\ at \in Rec \union {0}
  /\ dispatcher \in Sockets \union {0}
  /\ {registrant, answer} \subseteq 0..MaxConns

Before(w, v) == w.i < v.i \/ (w.i = v.i /\ w.k < v.k)

\* However recv cuts the stream of a connection, its frames reach
\* data_handler whole, once and in order: what still waits, in the buffer or
\* on the wire, is in order and is what is due, and noise.  A multiple of Mod
\* words of noise costs no frame.  This is so for every connection whose
\* record was neither deleted nor given to another while it was open,
\* whatever became of the records of others.
FramesKept ==
  \A s \in Sockets : LET c == owner[s] IN
    c # 0 /\ c \notin closed \union hurt \union rough =>
      LET waits == heap[bus_conn[Min(Places(s))]].buf \o wire[c]
      IN /\ \A p, q \in DOMAIN waits : p < q => Before(waits[p], waits[q])
         /\ {w \in Range(waits) : IsFrame(w.msg)}
              = UNION {Range(Words(f.msg, f.i)) : f \in due[c]}

\* The hub closes no connection on its own: a buffer is never full between
\* two frames, even if no frame is found in it.
NoSelfClose ==
  [][\A c \in Conn : Open(c) /\ ~Open(c)' => c \in closed' \union hurt']_vars

\* An answer goes to the connection of the last registration as long as that
\* is open; after it is closed the number may be another connection's.
ToRegistrant ==
  answer # 0 /\ Open(registrant) => answer = registrant

\* In the end every frame is handled, of peers that stay and whose record is
\* not deleted or given to another while they do.
EveryFrameHandled == <>[](\A c \in Conn : due[c] = {})
=============================================================================
