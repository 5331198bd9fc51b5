----------------------------- MODULE ModelTable -----------------------------
(***************************************************************************)
(* kernel/ai-syscalls-main.c: the table of loaded models behind the        *)
(* system calls ai_model_load (453), ai_model_unload (454) and the count   *)
(* in ai_status (457).  Every search and update runs under g_model_lock,   *)
(* so each call is one step; the id reaches the process by copy_to_user,   *)
(* which may fail after the model has been entered.                        *)
(***************************************************************************)
EXTENDS Naturals

CONSTANTS
  Name,        \* model names
  MaxModels,   \* AI_MAX_MODELS
  MaxLoads,    \* bound: how many ids are handed out
  NoName       \* the name of an unused entry

ASSUME ModelTableAssumption ==
  /\ MaxModels \in Nat \ {0}
  /\ MaxLoads \in Nat
  /\ NoName \notin Name

ModelEntry == 0..(MaxModels - 1)

VARIABLES
  models,      \* g_model_table: the name and id of every entry
  nextModelId, \* g_next_model_id
  told,        \* auxiliary: the id each name was last answered with, or 0
  retired      \* auxiliary: ids that were unloaded

modelVars == <<models, nextModelId, told, retired>>

NoModel == [name |-> NoName, id |-> 0]

Loaded == {e \in ModelEntry : models[e].name # NoName}

EntriesOf(name) == {e \in Loaded : models[e].name = name}

FirstModel(S) == CHOOSE e \in S : \A f \in S : e <= f

ModelInit ==
  /\ models = [e \in ModelEntry |-> NoModel]
  /\ nextModelId = 1
  /\ told = [n \in Name |-> 0]
  /\ retired = {}

\* copy_to_user of the id: -EFAULT leaves the caller without it.
Tell(name, id) == told' = [told EXCEPT ![name] = id] \/ UNCHANGED told

\* filp_open of the path fails.
LoadNoFile(name) == UNCHANGED modelVars

\* The first search: no entry is free, whatever the name.
LoadTableFull(name) ==
  /\ Loaded = ModelEntry
  /\ UNCHANGED modelVars

\* Faulty variant: the id of the first entry in use, whatever its name.
LoadAgainFirstUsed(name) ==
  /\ Loaded # ModelEntry
  /\ EntriesOf(name) # {}
  /\ Tell(name, models[FirstModel(Loaded)].id)
  /\ UNCHANGED <<models, nextModelId, retired>>

\* The second search: the name is loaded already, its id is returned.
LoadAgain(name) ==
  /\ Loaded # ModelEntry
  /\ EntriesOf(name) # {}
  /\ Tell(name, models[FirstModel(EntriesOf(name))].id)
  /\ UNCHANGED <<models, nextModelId, retired>>

\* Faulty variant: the second search is left out.
LoadAlwaysNew(name) ==
  /\ Loaded # ModelEntry
  /\ nextModelId <= MaxLoads
  /\ models' = [models EXCEPT ![FirstModel(ModelEntry \ Loaded)] =
                  [name |-> name, id |-> nextModelId]]
  /\ nextModelId' = nextModelId + 1
  /\ Tell(name, nextModelId)
  /\ UNCHANGED retired

\* Faulty variant: the id is taken from the position in the table.
LoadNewByPosition(name) ==
  /\ Loaded # ModelEntry
  /\ EntriesOf(name) = {}
  /\ nextModelId <= MaxLoads
  /\ models' = [models EXCEPT ![FirstModel(ModelEntry \ Loaded)] =
                  [name |-> name, id |-> FirstModel(ModelEntry \ Loaded) + 1]]
  /\ nextModelId' = nextModelId + 1
  /\ Tell(name, FirstModel(ModelEntry \ Loaded) + 1)
  /\ UNCHANGED retired

\* The third search: the first free entry takes the model under a new id.
LoadNew(name) ==
  /\ Loaded # ModelEntry
  /\ EntriesOf(name) = {}
  /\ nextModelId <= MaxLoads
  /\ models' = [models EXCEPT ![FirstModel(ModelEntry \ Loaded)] =
                  [name |-> name, id |-> nextModelId]]
  /\ nextModelId' = nextModelId + 1
  /\ Tell(name, nextModelId)
  /\ UNCHANGED retired

\* Faulty variant: the id is read after the entry has been cleared.
UnloadCleared(id) ==
  \E e \in Loaded :
    /\ models[e].id = id
    /\ models' = [models EXCEPT ![e] = NoModel]
    /\ retired' = retired \cup {models'[e].id}
    /\ UNCHANGED <<nextModelId, told>>

\* model_table_remove: the entry is cleared; ids are never handed out again.
Unload(id) ==
  \/ \E e \in Loaded :
       /\ models[e].id = id
       /\ models' = [models EXCEPT ![e] = NoModel]
       /\ retired' = retired \cup {id}
       /\ UNCHANGED <<nextModelId, told>>
  \/ /\ \A e \in Loaded : models[e].id # id
     /\ UNCHANGED modelVars

ModelNext ==
  \/ \E n \in Name : LoadNoFile(n) \/ LoadTableFull(n) \/ LoadAgain(n) \/ LoadNew(n)
  \/ \E id \in 1..MaxLoads : Unload(id)

ModelSpec == ModelInit /\ [][ModelNext]_modelVars

-----------------------------------------------------------------------------

\* Type invariant.
ModelTypeOK ==
  /\ models \in [ModelEntry -> [name: Name \cup {NoName}, id: 0..MaxLoads]]
  /\ nextModelId \in 1..(MaxLoads + 1)
  /\ told \in [Name -> 0..MaxLoads]
  /\ retired \subseteq 1..MaxLoads

(***************************************************************************)
(* A name is loaded at most once and an id identifies one entry, whatever  *)
(* the order of loads, failed loads and unloads (model_table_add).         *)
(***************************************************************************)
OneEntryPerModel ==
  \A e, f \in Loaded :
    models[e].name = models[f].name \/ models[e].id = models[f].id => e = f

(***************************************************************************)
(* An id a process still holds after the model was unloaded never comes to *)
(* mean another model: the counter is not reset and entries are not ids.   *)
(***************************************************************************)
RetiredStaysRetired ==
  /\ \A e \in Loaded : models[e].id \notin retired /\ models[e].id < nextModelId
  /\ \A id \in retired : id < nextModelId

(***************************************************************************)
(* An id that was returned for one name never denotes a model of another   *)
(* name, through unloads, reloads and loads that ended in EFAULT.          *)
(***************************************************************************)
ToldIdsMeanTheirModel ==
  \A n \in Name : \A e \in Loaded :
    told[n] # 0 /\ models[e].id = told[n] => models[e].name = n

(***************************************************************************)
(* What an id means never changes, whatever order of loads, failed copies  *)
(* to the caller and unloads: one entry for a model, no id that comes back *)
(* after an unload, and no caller whose id is now another's model          *)
(* (model_table_add, model_table_remove).                                  *)
(***************************************************************************)
ModelInv == ModelTypeOK /\ OneEntryPerModel /\ RetiredStaysRetired /\ ToldIdsMeanTheirModel

=============================================================================
