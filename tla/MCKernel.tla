------------------------------ MODULE MCKernel ------------------------------
(***************************************************************************)
(* The parts of the kernel modules that share nothing, for TLC: the model  *)
(* table and the context table of kernel/ai-syscalls-main.c, and the       *)
(* tracking table and the power policy of kernel/ai-scheduler-main.c.      *)
(* Each has a lock of its own, so a step of one commutes with every step   *)
(* of the others: it is enough to run each while the others are still as   *)
(* they were loaded.                                                       *)
(***************************************************************************)
EXTENDS ModelTable, ContextTable, TaskTrack, PowerPolicy

KernelInit == ModelInit /\ ContextInit /\ Init /\ PowerInit

ModelCalls ==
  ContextInit /\ Init /\ PowerInit /\ ModelNext /\ UNCHANGED <<contextVars, vars, powerVars>>

ContextCalls ==
  ModelInit /\ Init /\ PowerInit /\ ContextNext /\ UNCHANGED <<modelVars, vars, powerVars>>

TrackCalls ==
  ModelInit /\ ContextInit /\ PowerInit /\ Next /\ UNCHANGED <<modelVars, contextVars, powerVars>>

PowerSteps ==
  ModelInit /\ ContextInit /\ Init /\ PowerNext /\ UNCHANGED <<modelVars, contextVars, vars>>

KernelSpec ==
  /\ KernelInit
  /\ [][ModelCalls \/ ContextCalls \/ TrackCalls \/ PowerSteps]_<<modelVars, contextVars, vars, powerVars>>
  /\ PowerFairness

=============================================================================
