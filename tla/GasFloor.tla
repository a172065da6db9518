------------------------------ MODULE GasFloor ------------------------------
(***************************************************************************)
(* The gas a transaction of the JSON-RPC backend is sent with: what the    *)
(* case declares, raised to what its bytes cost before they run and to the *)
(* floor their data pays in any case.  A node refuses it below either.     *)
(***************************************************************************)
EXTENDS Words, FiniteSetsExt

CONSTANT DefaultGas              \* the profile's gas_policy.gas_limit
ASSUME GasFloorAssumption == DefaultGas \in Nat

Undeclared == 0                  \* stands for a step without "gas"

TX_BASE_INTRINSIC_GAS == 21000
TX_CREATE_INTRINSIC_GAS == 32000
TX_ZERO_DATA_INTRINSIC_GAS == 4
TX_NONZERO_DATA_INTRINSIC_GAS == 16
TX_INITCODE_WORD_INTRINSIC_GAS == 2
TX_ZERO_DATA_FLOOR_TOKEN == 1
TX_NONZERO_DATA_FLOOR_TOKEN == 4
TX_DATA_FLOOR_GAS_PER_TOKEN == 10

ZeroBytes(data) == Cardinality({i \in DOMAIN data : data[i] = 0})
ForEachByte(data, zero, nonzero) ==
    ZeroBytes(data) * zero + (Len(data) - ZeroBytes(data)) * nonzero

TransactionIntrinsicGas(data, creates) ==
    TX_BASE_INTRINSIC_GAS
      + ForEachByte(data, TX_ZERO_DATA_INTRINSIC_GAS, TX_NONZERO_DATA_INTRINSIC_GAS)
      + IF creates
        THEN TX_CREATE_INTRINSIC_GAS
               + ((Len(data) + WordBytes - 1) \div WordBytes) * TX_INITCODE_WORD_INTRINSIC_GAS
        ELSE 0

TransactionFloorDataGas(data, creates) ==
    TX_BASE_INTRINSIC_GAS
      + ForEachByte(data, TX_ZERO_DATA_FLOOR_TOKEN, TX_NONZERO_DATA_FLOOR_TOKEN)
          * TX_DATA_FLOOR_GAS_PER_TOKEN
      + IF creates THEN TX_CREATE_INTRINSIC_GAS ELSE 0

(* Variant: the gas is raised to the intrinsic cost only. *)
GasWithoutDataFloor(declared, data, creates) ==
    Max({declared, TransactionIntrinsicGas(data, creates)})
(* _gas_with_intrinsic_floor *)
GasWithIntrinsicFloor(declared, data, creates) ==
    Max({declared, TransactionIntrinsicGas(data, creates), TransactionFloorDataGas(data, creates)})

(* _prepare_transaction *)
PreparedGas(declared, data, creates) ==
    GasWithIntrinsicFloor(IF declared = Undeclared THEN DefaultGas ELSE declared, data, creates)
=============================================================================
