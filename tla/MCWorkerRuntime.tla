-------------------------- MODULE MCWorkerRuntime --------------------------
(* Small instances of WorkerRuntime. *)
EXTENDS WorkerRuntime, TLC

CONSTANTS d1, w1, e1

\* All workers in one database, of one extension.
OneDatabase == [w \in Workers |-> d1]
OneExtension == [w \in Workers |-> e1]

\* A transaction with a process more, or with a fault, two transactions that drop, or
\* one that drops with a fault.
FaultOrDrops ==
    {[ops |-> {"deregister", "alter_database"}, txns |-> 1, faults |-> 0, slots |-> 3],
     [ops |-> {"register", "deregister", "wake"}, txns |-> 1, faults |-> 1, slots |-> 2],
     [ops |-> {"drop_extension", "drop_runtime", "drop_database"},
      txns |-> 2, faults |-> 0, slots |-> 2],
     [ops |-> {"drop_extension", "drop_runtime", "drop_database"},
      txns |-> 1, faults |-> 1, slots |-> 2]}

\* Either a transaction or a fault.
OneEvent ==
    {[ops |-> {"deregister", "wake"}, txns |-> 1, faults |-> 0, slots |-> 2],
     [ops |-> {}, txns |-> 0, faults |-> 1, slots |-> 2]}

\* A transaction that drops, and a fault.
FaultyDrop == {[ops |-> {"drop_runtime"}, txns |-> 1, faults |-> 1, slots |-> 3]}

Symmetry == Permutations(Pids)
===========================================================================
