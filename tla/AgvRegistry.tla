---------------------------- MODULE AgvRegistry -----------------------------
(***************************************************************************)
(* The vehicles the hub knows (compones.cpp): the vector agvs, filled from *)
(* the table agvs at the start and by the first message of a vehicle.  The *)
(* storey of a vehicle decides which way the lift is sent for it.  A       *)
(* transaction that fails is rolled back and forgotten.                    *)
(*                                                                         *)
(* Neither the vector nor the table holds two entries of one address, so   *)
(* both are functions of it; an entry with number 0 is not there.          *)
(***************************************************************************)
EXTENDS Naturals

CONSTANTS
  Addr,      \* addresses of vehicles
  MaxFails   \* bound: transactions that fail

ASSUME RegistryAssumption == MaxFails \in Nat

VARIABLES
  agvs,        \* in memory
  table,       \* in the database
  id_agv_max,
  behind,      \* history: the addresses whose row missed something
  fails

regVars == <<agvs, table, id_agv_max, behind, fails>>

Absent == [id |-> 0, storey |-> 0]
Known(ip) == agvs[ip].id # 0

RegistryInit ==
  /\ agvs = [ip \in Addr |-> Absent] /\ table = agvs
  /\ id_agv_max = 0
  /\ behind = {} /\ fails = 0

\* A transaction that makes the table t: committed, or rolled back.
Commits(t, ip) ==
  \/ /\ table' = t
     /\ behind' = IF t[ip] = agvs'[ip] THEN behind \ {ip} ELSE behind
     /\ UNCHANGED fails
  \/ /\ fails < MaxFails /\ fails' = fails + 1
     /\ behind' = behind \union {ip}
     /\ UNCHANGED table

\* The row of ip with another storey; without a row nothing.
Updated(ip, s) ==
  IF table[ip].id = 0 THEN table ELSE [table EXCEPT ![ip].storey = s]

\* A slip: only the vector learns the new storey.
RegAgvInMemory(ip, s) ==
  IF Known(ip)
  THEN /\ agvs' = [agvs EXCEPT ![ip].storey = s]
       /\ UNCHANGED <<table, id_agv_max, behind, fails>>
  ELSE /\ id_agv_max' = id_agv_max + 1
       /\ agvs' = [agvs EXCEPT ![ip] = [id |-> id_agv_max + 1, storey |-> s]]
       /\ Commits([table EXCEPT ![ip] = agvs'[ip]], ip)

\* 657185 and 657186: the vehicle is on storey s.
RegAgv(ip, s) ==
  \/ /\ Known(ip) /\ agvs[ip].storey = s
     /\ UNCHANGED regVars
  \/ /\ Known(ip) /\ agvs[ip].storey # s
     /\ agvs' = [agvs EXCEPT ![ip].storey = s]
     /\ Commits(Updated(ip, s), ip)
     /\ UNCHANGED id_agv_max
  \/ /\ ~Known(ip)
     /\ id_agv_max' = id_agv_max + 1
     /\ agvs' = [agvs EXCEPT ![ip] = [id |-> id_agv_max + 1, storey |-> s]]
     /\ Commits([table EXCEPT ![ip] = agvs'[ip]], ip)

Ids == {table[ip].id : ip \in Addr} \union {0}

\* A slip: the counter is not raised while the rows are read.
LoadFromZero ==
  /\ agvs' = table /\ id_agv_max' = 0
  /\ behind' = {}
  /\ UNCHANGED <<table, fails>>

\* The process starts again.
load_agvs ==
  /\ agvs' = table
  /\ \E m \in Ids : (\A n \in Ids : n <= m) /\ id_agv_max' = m
  /\ behind' = {}
  /\ UNCHANGED <<table, fails>>

RegistryNext ==
  \/ \E ip \in Addr, s \in 1..2 : RegAgv(ip, s)
  \/ load_agvs

RegistrySpec == RegistryInit /\ [][RegistryNext]_regVars

-----------------------------------------------------------------------------
(* Properties                                                              *)

Agv == [id : Nat, storey : 0..2]

RegistryTypeOK ==
  /\ agvs \in [Addr -> Agv] /\ table \in [Addr -> Agv]
  /\ id_agv_max \in Nat
  /\ behind \subseteq Addr /\ fails \in Nat

\* No two vehicles have one number, in memory or in the table, although the
\* counter starts again from the table and rows may be missing there.
IdsUnique ==
  \A ip, jp \in Addr :
    ip # jp => /\ agvs[ip].id # 0 => agvs[ip].id # agvs[jp].id
               /\ table[ip].id # 0 => table[ip].id # table[jp].id

\* A restart brings every vehicle back as it was, unless a transaction of
\* its own failed and no later one made up for it.
RowsFollow == \A ip \in Addr \ behind : table[ip] = agvs[ip]
=============================================================================
