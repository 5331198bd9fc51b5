--------------------------- MODULE MCAiScheduler ---------------------------
(***************************************************************************)
(* Instances of AiScheduler for TLC.                                       *)
(***************************************************************************)
EXTENDS AiScheduler

CONSTANT Room                            \* capacity of every queue

MCCapacity == [p \in Prio |-> Room]

Symmetry == Permutations(Task) \cup Permutations(Caller) \cup Permutations(Worker)

=============================================================================
