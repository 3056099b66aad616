--------------------------- MODULE MCDpiPipeline ---------------------------
(***************************************************************************)
(* Small instances of DpiPipeline for TLC: the captures of MCLength        *)
(* packets over the given five-tuples, whose hashes are 0, 1, 2, ...       *)
(***************************************************************************)
EXTENDS DpiPipeline

CONSTANTS MCLength     \* packets of a capture

MCTuples(n) == 0 .. n - 1
MCHash(n) == [t \in MCTuples(n) |-> t]
MCInputs(n) == [1 .. MCLength -> MCTuples(n)]
MCTuples2 == MCTuples(2)
MCHash2 == MCHash(2)
MCInputs2 == MCInputs(2)
=============================================================================
