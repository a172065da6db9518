------------------------ MODULE ControlFlowPrograms ------------------------
(***************************************************************************)
(* The control-flow generator: one small program per mode, with its jump   *)
(* targets written as literals.                                            *)
(***************************************************************************)
EXTENDS GeneratedCase

SSTORE == 85
STOP == 0
JUMPDEST == 91

StoreInSlot0(value) == value \o PushInt(0) \o <<SSTORE, STOP>>

(* JUMPI to position 8: falls through to storing 0, or is taken and        *)
(* stores 1.                                                               *)
JumpiRuntime(condition) ==
    condition \o PushInt(8) \o <<87>>
      \o StoreInSlot0(PushInt(0))
      \o <<JUMPDEST>> \o StoreInSlot0(PushInt(1))

ControlFlowRuntime(mode) ==
    CASE mode = "gas" -> StoreInSlot0(<<90, 21, 21>>)                   \* GAS ISZERO ISZERO
      [] mode = "pc" -> StoreInSlot0(<<88>> \o PushInt(0) \o <<20>>)    \* PC = 0
      [] mode = "jump" ->
            PushInt(4) \o <<86, STOP, JUMPDEST>> \o StoreInSlot0(PushInt(1))
      [] mode = "jump_pc_relative" ->
            <<88>> \o PushInt(5) \o <<1, 86, JUMPDEST>> \o StoreInSlot0(PushInt(1))
      [] mode = "jumpi_fallthrough" -> JumpiRuntime(PushInt(0))
      [] mode = "jumpi_taken" -> JumpiRuntime(<<67>>)                   \* NUMBER
      [] mode = "jumpdest" -> <<JUMPDEST>> \o StoreInSlot0(PushInt(1))

ControlFlowModes == {"gas", "pc", "jump", "jump_pc_relative", "jumpi_fallthrough",
                     "jumpi_taken", "jumpdest"}

RenderControlFlowCase(mode) ==
    DeployAndInvoke(<<"control_flow", mode>>, ControlFlowRuntime(mode), <<>>, InvokeGas50000,
                    [s \in {0} |-> Literal(IF mode = "jumpi_fallthrough" THEN 0 ELSE 1)],
                    [key |-> "control_flow_probe", mode |-> mode])

=============================================================================
