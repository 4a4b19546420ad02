------------------------- MODULE AgvRegistryProofs --------------------------
(***************************************************************************)
(* The vehicles keep their own numbers, and the table is behind the vector *)
(* only where a transaction failed: for every set of addresses.            *)
(***************************************************************************)
EXTENDS AgvRegistry, TLAPS

\* Every row is that of a vehicle in memory, and the counter is not below any
\* number: so a new number is new in both.
RowsKnown ==
  /\ \A ip \in Addr : agvs[ip].id <= id_agv_max
  /\ \A ip \in Addr : table[ip].id # 0 => table[ip].id = agvs[ip].id

RInv == RegistryTypeOK /\ IdsUnique /\ RowsFollow /\ RowsKnown

Entry(i, s) == [id |-> i, storey |-> s]

LEMMA EntryType ==
  ASSUME NEW i \in Nat, NEW s \in 0..2
  PROVE  Entry(i, s) \in Agv /\ Entry(i, s).id = i /\ Entry(i, s).storey = s
  BY DEF Entry, Agv

LEMMA RegistryInits == RegistryInit => RInv
  BY DEF RegistryInit, RInv, RegistryTypeOK, IdsUnique, RowsFollow, RowsKnown,
         Absent, Agv

\* A vehicle that is known, on another storey.
LEMMA StoreyChanges ==
  ASSUME RInv, NEW ip \in Addr, NEW s \in 1..2, Known(ip),
         agvs' = [agvs EXCEPT ![ip].storey = s],
         Commits(Updated(ip, s), ip), id_agv_max' = id_agv_max
  PROVE  RInv'
<1> USE DEF RInv, RegistryTypeOK
<1>1. /\ agvs' \in [Addr -> Agv]
      /\ \A jp \in Addr : agvs'[jp].id = agvs[jp].id
      /\ \A jp \in Addr \ {ip} : agvs'[jp] = agvs[jp]
  BY DEF Agv
<1>2. /\ Updated(ip, s) \in [Addr -> Agv]
      /\ \A jp \in Addr : Updated(ip, s)[jp].id = table[jp].id
      /\ \A jp \in Addr \ {ip} : Updated(ip, s)[jp] = table[jp]
  BY DEF Updated, Agv
<1>3. CASE /\ table' = Updated(ip, s)
           /\ behind' = IF Updated(ip, s)[ip] = agvs'[ip] THEN behind \ {ip} ELSE behind
           /\ UNCHANGED fails
  <2>1. \A jp \in Addr : table'[jp].id = table[jp].id
    BY <1>2, <1>3
  <2>2. IdsUnique' /\ RowsKnown'
    BY <1>1, <2>1 DEF IdsUnique, RowsKnown
  <2>3. ip \in behind \/ table[ip] = agvs[ip]
    BY DEF RowsFollow
  <2>4. ASSUME table[ip] = agvs[ip] PROVE Updated(ip, s)[ip] = agvs'[ip]
    BY <2>4 DEF Updated, Known, Agv
  <2>5. RowsFollow'
    BY <1>1, <1>2, <1>3, <2>3, <2>4 DEF RowsFollow
  <2> QED BY <1>1, <1>2, <1>3, <2>2, <2>5
<1>4. CASE /\ fails < MaxFails /\ fails' = fails + 1
           /\ behind' = behind \union {ip}
           /\ UNCHANGED table
  <2>1. IdsUnique' /\ RowsKnown' /\ RowsFollow'
    BY <1>1, <1>4 DEF IdsUnique, RowsKnown, RowsFollow
  <2> QED BY <1>1, <1>4, <2>1
<1> QED BY <1>3, <1>4 DEF Commits

\* A vehicle that is new.
LEMMA VehicleComes ==
  ASSUME RInv, NEW ip \in Addr, NEW s \in 1..2, ~Known(ip),
         id_agv_max' = id_agv_max + 1,
         agvs' = [agvs EXCEPT ![ip] = [id |-> id_agv_max + 1, storey |-> s]],
         Commits([table EXCEPT ![ip] = agvs'[ip]], ip)
  PROVE  RInv'
<1> USE DEF RInv, RegistryTypeOK
<1> DEFINE new == id_agv_max + 1
           t == [table EXCEPT ![ip] = agvs'[ip]]
<1>1. /\ agvs' \in [Addr -> Agv] /\ agvs'[ip].id = new
      /\ \A jp \in Addr \ {ip} : agvs'[jp] = agvs[jp]
  BY EntryType DEF Entry, Agv
<1>2. \A jp \in Addr : agvs[jp].id < new /\ table[jp].id < new
  BY DEF RowsKnown, Agv
<1>3. new \in Nat /\ new > 0
  OBVIOUS
<1>4. table[ip].id = 0
  BY DEF RowsKnown, Known, Agv
<1>5. /\ t \in [Addr -> Agv] /\ t[ip] = agvs'[ip]
      /\ \A jp \in Addr \ {ip} : t[jp] = table[jp]
  BY <1>1
<1> HIDE DEF new
<1>6. \A jp \in Addr : agvs'[jp].id <= new
  BY <1>1, <1>2, <1>3 DEF Agv
<1>7. \A jp, kp \in Addr : jp # kp /\ agvs'[jp].id # 0 => agvs'[jp].id # agvs'[kp].id
  <2> TAKE jp \in Addr, kp \in Addr
  <2>1. CASE jp = ip BY <1>1, <1>2, <1>3, <2>1 DEF Agv
  <2>2. CASE kp = ip BY <1>1, <1>2, <1>3, <2>2 DEF Agv
  <2>3. CASE jp # ip /\ kp # ip BY <1>1, <2>3 DEF IdsUnique
  <2> QED BY <2>1, <2>2, <2>3
<1> HIDE DEF t
<1>8. CASE /\ table' = t
           /\ behind' = IF t[ip] = agvs'[ip] THEN behind \ {ip} ELSE behind
           /\ UNCHANGED fails
  <2>1. \A jp \in Addr : table'[jp].id # 0 => table'[jp].id = agvs'[jp].id
    BY <1>1, <1>5, <1>8 DEF RowsKnown
  <2>2. \A jp, kp \in Addr : jp # kp /\ table'[jp].id # 0 => table'[jp].id # table'[kp].id
    BY <1>7, <2>1
  <2>3. RowsFollow'
    BY <1>1, <1>5, <1>8 DEF RowsFollow
  <2>4. IdsUnique' /\ RowsKnown'
    BY <1>6, <1>7, <2>1, <2>2 DEF IdsUnique, RowsKnown, new
  <2> QED BY <1>1, <1>3, <1>5, <1>8, <2>3, <2>4 DEF new
<1>9. CASE /\ fails < MaxFails /\ fails' = fails + 1
           /\ behind' = behind \union {ip}
           /\ UNCHANGED table
  <2>1. \A jp \in Addr : table'[jp].id # 0 => table'[jp].id = agvs'[jp].id
    BY <1>1, <1>4, <1>9 DEF RowsKnown
  <2>2. RowsFollow'
    BY <1>1, <1>9 DEF RowsFollow
  <2>3. IdsUnique' /\ RowsKnown'
    BY <1>6, <1>7, <1>9, <2>1 DEF IdsUnique, RowsKnown, new
  <2> QED BY <1>1, <1>3, <1>9, <2>2, <2>3 DEF new
<1> QED BY <1>8, <1>9 DEF Commits, t

LEMMA RegAgvKeeps ==
  ASSUME RInv, NEW ip \in Addr, NEW s \in 1..2, RegAgv(ip, s)
  PROVE  RInv'
<1>1. CASE Known(ip) /\ agvs[ip].storey = s /\ UNCHANGED regVars
  BY <1>1 DEF regVars, RInv, RegistryTypeOK, IdsUnique, RowsFollow, RowsKnown
<1>2. CASE /\ Known(ip)
           /\ agvs' = [agvs EXCEPT ![ip].storey = s]
           /\ Commits(Updated(ip, s), ip) /\ UNCHANGED id_agv_max
  BY <1>2, StoreyChanges, Zenon
<1>3. CASE /\ ~Known(ip) /\ id_agv_max' = id_agv_max + 1
           /\ agvs' = [agvs EXCEPT ![ip] = [id |-> id_agv_max + 1, storey |-> s]]
           /\ Commits([table EXCEPT ![ip] = agvs'[ip]], ip)
  BY <1>3, VehicleComes, Zenon
<1> QED BY <1>1, <1>2, <1>3 DEF RegAgv

LEMMA LoadKeeps == RInv /\ load_agvs => RInv'
<1> SUFFICES ASSUME RInv, load_agvs PROVE RInv'
  OBVIOUS
<1> USE DEF RInv, RegistryTypeOK
<1>1. PICK m \in Ids : (\A n \in Ids : n <= m) /\ id_agv_max' = m
  BY DEF load_agvs
<1>2. m \in Nat /\ \A ip \in Addr : table[ip].id <= m
  BY <1>1 DEF Ids, Agv
<1>3. agvs' = table /\ table' = table /\ behind' = {} /\ fails' = fails
  BY DEF load_agvs
<1> QED BY <1>1, <1>2, <1>3 DEF IdsUnique, RowsFollow, RowsKnown

LEMMA RegistryStep == RInv /\ [RegistryNext]_regVars => RInv'
<1> SUFFICES ASSUME RInv, [RegistryNext]_regVars PROVE RInv'
  OBVIOUS
<1>1. CASE \E ip \in Addr, s \in 1..2 : RegAgv(ip, s)
  BY <1>1, RegAgvKeeps
<1>2. CASE load_agvs
  BY <1>2, LoadKeeps
<1>3. CASE UNCHANGED regVars
  BY <1>3 DEF regVars, RInv, RegistryTypeOK, IdsUnique, RowsFollow, RowsKnown
<1> QED BY <1>1, <1>2, <1>3 DEF RegistryNext

\* Two vehicles never have one number, in the vector or in the table, over
\* registrations, failed transactions and restarts (compones.cpp 561-664).
THEOREM NumbersUnique == RegistrySpec => []IdsUnique
<1>1. RInv => IdsUnique
  BY DEF RInv
<1> QED BY <1>1, RegistryInits, RegistryStep, PTL DEF RegistrySpec

\* The rows a restart reads are what the vector held, for every vehicle none
\* of whose transactions failed and was not made up for.
THEOREM RestartFindsAll == RegistrySpec => []RowsFollow
<1>1. RInv => RowsFollow
  BY DEF RInv
<1> QED BY <1>1, RegistryInits, RegistryStep, PTL DEF RegistrySpec
=============================================================================
