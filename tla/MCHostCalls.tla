---------------------------- MODULE MCHostCalls ----------------------------
(* Host calls under two request ids, with two bodies that fight for each. *)
EXTENDS HostCalls, TLC

Set == [id |-> 1, service |-> "kv", method |-> "set", expected |-> None]
Delete == [id |-> 2, service |-> "kv", method |-> "delete", expected |-> 1]
Statement == [id |-> 1, service |-> "sql", method |-> "execute", expected |-> None]
Event == [id |-> 1, service |-> "logging", method |-> "write", expected |-> None]

MCRequests == {Set, Delete, Statement, Event}

Symmetry == Permutations(Threads) \cup Permutations(Processes)
=============================================================================
