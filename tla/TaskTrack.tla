------------------------------ MODULE TaskTrack ------------------------------
(***************************************************************************)
(* The tracking table on its own: workers and the watchdog record the      *)
(* results of asynchronous tasks, callers of ai_sched_query take them out. *)
(* The promise the table makes is the module ResultMap.                    *)
(***************************************************************************)
EXTENDS TaskTrackOps

CONSTANT MaxId                           \* bound: largest task id considered

ASSUME MaxIdAssumption == MaxId \in Nat

Ids == 1..MaxId

\* The statuses the two callers of task_track_add pass.
Final == {"COMPLETED", "FAILED"}

VARIABLE table                           \* task_track[] and track_evict_idx

vars == <<table>>

Held(t) == {t.slot[i].id : i \in Slot} \ {0}

Init == table = EmptyTrack

Record(id, st) == table' = TrackAdd(table, id, st)

TakeResult(id) ==
  /\ TrackFound(table, id)
  /\ table' = TrackTake(table, id)

Next ==
  \E id \in Ids :
    \/ TakeResult(id)
    \/ \E st \in Final : Record(id, st)

Spec == Init /\ [][Next]_vars

-----------------------------------------------------------------------------

\* Type invariant: task_track[] is an array of records, the index is a slot.
TrackTypeOK == table \in TrackTable

(***************************************************************************)
(* Of the slots in use no two carry the same task id (task_track_add's     *)
(* first loop).  task_track_query stops at the first match, so a second    *)
(* copy would survive the query and answer a later one with a result that  *)
(* was already handed out.                                                 *)
(***************************************************************************)
OneRecordPerTask ==
  \A i, j \in Slot :
    table.slot[i].id = table.slot[j].id /\ InUse(table, i) => i = j

(***************************************************************************)
(* The table is a bounded map with take-once semantics: update, free slot, *)
(* circular overwrite and removal together implement ResultMap.            *)
(***************************************************************************)
ResultOf(id) == table.slot[CHOOSE i \in Slot : table.slot[i].id = id].status

Abstract == INSTANCE ResultMap WITH
              Id <- Ids, Result <- Final, Size <- TrackSize,
              results <- [id \in Held(table) |-> ResultOf(id)]

ImplementsResultMap == Abstract!Spec

(***************************************************************************)
(* The array of results is sound: its index stays inside it and no task    *)
(* has two records, so that task_track_query hands out each result once.   *)
(***************************************************************************)
TrackInv == TrackTypeOK /\ OneRecordPerTask

=============================================================================
