------------------------------ MODULE MCModbus ------------------------------
(***************************************************************************)
(* Modbus on a small instance: every function of the library, with numbers *)
(* of bits on both sides of a byte, two words, and requests the server has *)
(* to refuse.                                                              *)
(***************************************************************************)
EXTENDS Modbus

MCBits == 0..8
MCRegs == 0..1
MCInputBits == [x \in 0..8 |-> x % 2]
MCInputRegs == [x \in 0..1 |-> 258 + 257 * x]

Ask(f, addr, nb) == [f |-> f, addr |-> addr, nb |-> nb, vals |-> <<>>, waddr |-> 0]
Put(f, addr, vals) ==
  [f |-> f, addr |-> addr, nb |-> Len(vals), vals |-> vals, waddr |-> 0]

MCRequest ==
  { Ask(1, 0, 9), Ask(2, 1, 8), Ask(3, 0, 2), Ask(4, 1, 1), Ask(17, 0, 0),
    Ask(3, 1, 2), Ask(3, 0, 0),
    Put(5, 8, <<1>>), Put(6, 0, <<513>>),
    Put(15, 0, <<1, 0, 1, 1, 0, 0, 0, 0, 1>>), Put(16, 0, <<65535, 256>>),
    Put(22, 0, <<65520, 13>>),
    [f |-> 23, addr |-> 0, nb |-> 2, vals |-> <<772>>, waddr |-> 1] }

MCRaw == {<<7>>, <<8>>, <<3, 0, 0, 0, 200>>}
MCRecovery == SUBSET {"link", "protocol"}
=============================================================================
