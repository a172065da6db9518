--------------------------- MODULE GasFloor_proofs ---------------------------
(***************************************************************************)
(* What the gas floor is for, for every word size, data and declared gas.  *)
(***************************************************************************)
EXTENDS GasFloor, FiniteSetTheorems, TLAPS

(* The larger of three numbers is one of them and no smaller than any. *)
LEMMA MaxOfThree ==
  ASSUME NEW a \in Nat, NEW b \in Nat, NEW c \in Nat
  PROVE  /\ Max({a, b, c}) \in {a, b, c}
         /\ Max({a, b, c}) >= a /\ Max({a, b, c}) >= b /\ Max({a, b, c}) >= c
<1> \E x \in {a, b, c} : \A y \in {a, b, c} : x >= y
  <2>1. CASE a >= b /\ a >= c  BY <2>1
  <2>2. CASE b >= a /\ b >= c  BY <2>2
  <2>3. CASE c >= a /\ c >= b  BY <2>3
  <2> QED  BY <2>1, <2>2, <2>3
<1> QED  BY DEF Max

(* Data has no more zero bytes than bytes. *)
LEMMA ZeroBytesBound ==
  ASSUME NEW data \in Seq(Nat)
  PROVE  ZeroBytes(data) \in Nat /\ ZeroBytes(data) <= Len(data)
<1>1. IsFiniteSet(1 .. Len(data)) /\ Cardinality(1 .. Len(data)) = Len(data)
  <2>1. 1 \in Int /\ Len(data) \in Int /\ Len(data) \in Nat  OBVIOUS
  <2>2. /\ IsFiniteSet(1 .. Len(data))
        /\ Cardinality(1 .. Len(data)) = IF 1 > Len(data) THEN 0 ELSE Len(data) - 1 + 1
    BY <2>1, FS_Interval, Zenon
  <2> QED  BY <2>1, <2>2
<1>2. {i \in DOMAIN data : data[i] = 0} \subseteq 1 .. Len(data)
  OBVIOUS
<1> QED  BY <1>1, <1>2, FS_Subset, FS_CardinalityType DEF ZeroBytes

(* There are no more words than bytes. *)
LEMMA WordsOfBytes ==
  ASSUME NEW n \in Nat, NEW w \in Nat \ {0}
  PROVE  (n + w - 1) \div w \in Nat /\ (n + w - 1) \div w <= n
<1> DEFINE q == (n + w - 1) \div w
           r == (n + w - 1) % w
<1>1. q \in Nat /\ r \in 0 .. w - 1 /\ n + w - 1 = w * q + r
  OBVIOUS
<1> HIDE DEF q, r
<1>2. ASSUME q > n PROVE FALSE
  <2> DEFINE d == q - n - 1
  <2>1. d \in Nat /\ q = n + 1 + d  BY <1>1, <1>2
  <2> HIDE DEF d
  <2>2. w * q = w * n + w + w * d  BY <2>1
  <2>3. w * n \in Nat /\ w * d \in Nat /\ w * q \in Nat  BY <1>1, <2>1
  <2>4. w * n >= n
    <3>1. w - 1 \in Nat /\ (w - 1) * n \in Nat /\ w * n = (w - 1) * n + n  OBVIOUS
    <3> QED  BY <3>1
  <2> HIDE <1>2, <2>1
  <2> QED  BY <1>1, <2>2, <2>3, <2>4
<1> QED  BY <1>1, <1>2 DEF q

(* The two costs, with the prices of the protocol put in. *)
LEMMA CostsInFull ==
  ASSUME NEW data \in Seq(Nat), NEW creates \in BOOLEAN
  PROVE  /\ TransactionIntrinsicGas(data, creates)
              = 21000 + (ZeroBytes(data) * 4 + (Len(data) - ZeroBytes(data)) * 16)
                  + (IF creates THEN 32000 + ((Len(data) + WordBytes - 1) \div WordBytes) * 2
                     ELSE 0)
         /\ TransactionFloorDataGas(data, creates)
              = 21000 + (ZeroBytes(data) * 1 + (Len(data) - ZeroBytes(data)) * 4) * 10
                  + (IF creates THEN 32000 ELSE 0)
<1>1. TransactionIntrinsicGas(data, creates)
        = 21000 + (ZeroBytes(data) * 4 + (Len(data) - ZeroBytes(data)) * 16)
            + (IF creates THEN 32000 + ((Len(data) + WordBytes - 1) \div WordBytes) * 2
               ELSE 0)
  BY DEF TransactionIntrinsicGas, ForEachByte, TX_BASE_INTRINSIC_GAS,
     TX_CREATE_INTRINSIC_GAS, TX_ZERO_DATA_INTRINSIC_GAS, TX_NONZERO_DATA_INTRINSIC_GAS,
     TX_INITCODE_WORD_INTRINSIC_GAS
<1>2. TransactionFloorDataGas(data, creates)
        = 21000 + (ZeroBytes(data) * 1 + (Len(data) - ZeroBytes(data)) * 4) * 10
            + (IF creates THEN 32000 ELSE 0)
  BY DEF TransactionFloorDataGas, ForEachByte, TX_BASE_INTRINSIC_GAS,
     TX_CREATE_INTRINSIC_GAS, TX_ZERO_DATA_FLOOR_TOKEN, TX_NONZERO_DATA_FLOOR_TOKEN,
     TX_DATA_FLOOR_GAS_PER_TOKEN
<1> QED  BY <1>1, <1>2

(***************************************************************************)
(* The data floor of _transaction_floor_data_gas is never below the cost   *)
(* of _transaction_intrinsic_gas, for initcode neither, which pays for its *)
(* words as well: a byte costs 6 or 24 more under the floor, and a word 2. *)
(* So the floor decides alone, and a transaction pays it on chains that    *)
(* know no floor, too.                                                     *)
(***************************************************************************)
THEOREM FloorCoversIntrinsic ==
  ASSUME NEW data \in Seq(Nat), NEW creates \in BOOLEAN
  PROVE  /\ TransactionIntrinsicGas(data, creates) \in Nat
         /\ TransactionFloorDataGas(data, creates) \in Nat
         /\ TransactionIntrinsicGas(data, creates) <= TransactionFloorDataGas(data, creates)
<1> DEFINE bytes == Len(data)
           zeros == ZeroBytes(data)
           words == (bytes + WordBytes - 1) \div WordBytes
<1>1. bytes \in Nat /\ zeros \in Nat /\ zeros <= bytes
  BY ZeroBytesBound
<1>2. words \in Nat /\ words <= bytes
  BY <1>1, WordsOfBytes, WordsAssumption
<1>3. /\ TransactionIntrinsicGas(data, creates)
           = 21000 + (zeros * 4 + (bytes - zeros) * 16) + (IF creates THEN 32000 + words * 2 ELSE 0)
      /\ TransactionFloorDataGas(data, creates)
           = 21000 + (zeros * 1 + (bytes - zeros) * 4) * 10 + (IF creates THEN 32000 ELSE 0)
  BY CostsInFull
<1> HIDE DEF bytes, zeros, words
<1> QED  BY <1>1, <1>2, <1>3

(***************************************************************************)
(* _prepare_transaction sends a transaction with at least the gas the case *)
(* declares, its intrinsic cost and its data floor, and with no more than  *)
(* the larger of the declared gas (the profile's, if there is none) and    *)
(* the floor.                                                              *)
(***************************************************************************)
THEOREM PreparedGasSuffices ==
  ASSUME NEW declared \in Nat, NEW data \in Seq(Nat), NEW creates \in BOOLEAN
  PROVE  /\ PreparedGas(declared, data, creates) >= declared
         /\ PreparedGas(declared, data, creates) >= TransactionIntrinsicGas(data, creates)
         /\ PreparedGas(declared, data, creates) >= TransactionFloorDataGas(data, creates)
         /\ PreparedGas(declared, data, creates)
              \in {declared, DefaultGas, TransactionFloorDataGas(data, creates)}
<1> DEFINE asked == IF declared = Undeclared THEN DefaultGas ELSE declared
           intrinsic == TransactionIntrinsicGas(data, creates)
           floor == TransactionFloorDataGas(data, creates)
<1>1. asked \in Nat /\ asked >= declared /\ asked \in {declared, DefaultGas}
  BY GasFloorAssumption DEF Undeclared
<1>2. intrinsic \in Nat /\ floor \in Nat /\ intrinsic <= floor
  BY FloorCoversIntrinsic
<1>3. PreparedGas(declared, data, creates) = Max({asked, intrinsic, floor})
  BY DEF PreparedGas, GasWithIntrinsicFloor, Max
<1> HIDE DEF asked, intrinsic, floor
<1>4. /\ Max({asked, intrinsic, floor}) \in {asked, intrinsic, floor}
      /\ Max({asked, intrinsic, floor}) >= asked
      /\ Max({asked, intrinsic, floor}) >= intrinsic
      /\ Max({asked, intrinsic, floor}) >= floor
  BY <1>1, <1>2, MaxOfThree
<1>5. Max({asked, intrinsic, floor}) \in {declared, DefaultGas, floor}
  BY <1>1, <1>2, <1>4
<1> QED  BY <1>1, <1>2, <1>3, <1>4, <1>5 DEF intrinsic, floor
=============================================================================
