---------------------------- MODULE LogPrograms ----------------------------
(***************************************************************************)
(* The log generator: a program fills memory with ff bytes, pushes topics  *)
(* and logs a window of that memory at offset 0 or at a dynamic offset     *)
(* kept in slot 2; the case expects one receipt log.                       *)
(***************************************************************************)
EXTENDS GeneratedCase
LOCAL INSTANCE FiniteSetsExt

CONSTANT ExactLimit      \* EXACT_LOG_DATA_MAX_BYTES

DynamicOffsetSlot == 2

(* A template: topics (0 to 4) of a word, log_size bytes of a memory whose *)
(* first seed bytes are ff, at offset 0 or dynamic.                        *)
LogTemplate(topics, word, log_size, seed, dynamic) ==
    [topic_count |-> topics, topic_word |-> word, log_size |-> log_size,
     memory_seed_size |-> seed, dynamic |-> dynamic,
     witness_mode |-> IF log_size <= ExactLimit THEN "exact" ELSE "digest"]

-----------------------------------------------------------------------------
LogRuntime(t) ==
    FillFfPrefix(t.memory_seed_size)
      \o Concat([i \in 1 .. t.topic_count |-> PushInt(t.topic_word)])
      \o PushInt(t.log_size)
      \o (IF t.dynamic THEN GasOffset(DynamicOffsetSlot) ELSE PushInt(0))
      \o <<160 + t.topic_count, 0>>

-----------------------------------------------------------------------------
(* _payload_bytes: log_size bytes from offset of the seed, zeros after it. *)
PayloadBytes(t, offset) ==
    LET window == SubSeq([i \in 1 .. t.memory_seed_size |-> 255], offset + 1,
                         Min({offset + t.log_size, t.memory_seed_size}))
    IN  window \o Zeros(t.log_size - Len(window))

(* An expected log keeps the payload, or its digest and its length. *)
ExpectedReceiptLog(t, offset) ==
    [topics |-> [i \in 1 .. t.topic_count |-> t.topic_word],
     witness |-> t.witness_mode,
     length |-> t.log_size,
     content |-> IF t.witness_mode = "exact" THEN PayloadBytes(t, offset)
                 ELSE <<Keccak(PayloadBytes(t, offset))>>]

NeedsLargeGas(t) == t.memory_seed_size > 0 \/ t.log_size >= Kibibyte
LogDeployGas(t) == IF NeedsLargeGas(t) THEN 2097152 ELSE DeployGas100000
LogInvokeGas(t) == IF NeedsLargeGas(t) THEN 16777215 ELSE InvokeGas50000

(* No storage_address: storage is read from the runner's default, the      *)
(* admin account.                                                          *)
RenderLogCase(t) ==
    [DeployAndInvoke(<<"log", t>>, LogRuntime(t), <<>>, LogInvokeGas(t), <<>>,
                     IF t.dynamic THEN [key |-> "log_probe", mode |-> "log", template |-> t,
                                        dynamic_offset_slot |-> DynamicOffsetSlot]
                     ELSE [key |-> "log_probe", mode |-> "log", template |-> t])
     EXCEPT !.deployGas = LogDeployGas(t),
            !.storageAddress = "$admin_account",
            !.expectedLogs = <<ExpectedReceiptLog(t, 0)>>]
=============================================================================
