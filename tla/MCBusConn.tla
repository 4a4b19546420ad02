----------------------------- MODULE MCBusConn ------------------------------
(***************************************************************************)
(* BusConn on a small instance: frames without data, one with data that    *)
(* fills the buffer and comes damaged, and noise of 2 and of 3 words.      *)
(***************************************************************************)
EXTENDS BusConn

Reg1 == Message("657185", 1, 9)
Reg2 == Message("657186", 1, 9)
Damaged == Message("damaged", 1, 10)   \* of 657203, with the battery
Noise(n) == Message("noise", 0, n)

MCStreams == {<<Reg1, Damaged>>, <<Noise(3), Reg2>>, <<Noise(2), Reg1>>}
=============================================================================
