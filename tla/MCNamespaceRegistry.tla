-------------------------- MODULE MCNamespaceRegistry ---------------------------
EXTENDS NamespaceRegistry
MCRuns == {1, 2, 3}
JuChain == [name |-> "juchain", prefix |-> "evmtest", always_new |-> FALSE]
Fresh == [name |-> "fresh", prefix |-> "evmtest", always_new |-> TRUE]
MCProfileOf == <<JuChain, JuChain, Fresh>>
MCCases == <<[id |-> "a", seed |-> "s"], [id |-> "b", seed |-> "s"]>>
=============================================================================
