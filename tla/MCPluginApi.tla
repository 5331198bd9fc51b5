---------------------------- MODULE MCPluginApi ----------------------------
(***************************************************************************)
(* The parts of the plugin system that stand on their own, for TLC: the    *)
(* event bus and the service registry of plugins/api.py and the dependency *)
(* graph of plugins/plugin_manager.py.  They share nothing, so it is       *)
(* enough to run each while the others are as they were made.              *)
(***************************************************************************)
EXTENDS EventBus, ServiceRegistry, DependencyGraph

\* The priorities cross the lists: "late" is for the type, "all" for "*".
MCPriority == [s \in Sub |-> IF s = "late" THEN 2 ELSE IF s = "all" THEN 1 ELSE 0]

MCSubOwner == [s \in Sub |-> IF s \in Wild THEN "logger" ELSE "app"]

ApiInit == BusInit /\ RegistryInit /\ GraphInit

BusCalls == RegistryInit /\ GraphInit /\ BusNext /\ UNCHANGED <<registryVars, graphVars>>

RegistryCalls == BusInit /\ GraphInit /\ RegistryNext /\ UNCHANGED <<busVars, graphVars>>

GraphCalls == BusInit /\ RegistryInit /\ GraphNext /\ UNCHANGED <<busVars, registryVars>>

ApiSpec == ApiInit /\ [][BusCalls \/ RegistryCalls \/ GraphCalls]_<<busVars, registryVars, graphVars>>

=============================================================================
