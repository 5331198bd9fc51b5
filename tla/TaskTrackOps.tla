---------------------------- MODULE TaskTrackOps ----------------------------
(***************************************************************************)
(* The two operations of the scheduler's task tracking table,              *)
(* kernel/ai-scheduler-main.c: task_track_add and task_track_query.  Each  *)
(* runs to completion under task_track_lock, so each is one function from  *)
(* table to table.                                                         *)
(*                                                                         *)
(* A slot is a record [id, status].  alloc_task_id starts at 1, so id 0    *)
(* stands for in_use = false.  The response body is abstracted to its      *)
(* status; the static track_evict_idx is the field evict of the table.     *)
(***************************************************************************)
EXTENDS Naturals

CONSTANT TrackSize                       \* AI_TASK_TRACK_SIZE

ASSUME TrackSizeAssumption == TrackSize \in Nat \ {0}

Slot == 0..(TrackSize - 1)

Status == {"PENDING", "RUNNING", "COMPLETED", "FAILED", "CANCELLED"}

FreeSlot == [id |-> 0, status |-> "PENDING"]

SlotRecord == [id: Nat, status: Status]

TrackTable == [slot: [Slot -> SlotRecord], evict: Slot]

EmptyTrack == [slot |-> [i \in Slot |-> FreeSlot], evict |-> 0]

InUse(table, i) == table.slot[i].id # 0

Holding(table, id) == {i \in Slot : table.slot[i].id = id}

\* The index the C loops stop at: the lowest one of a nonempty set of slots.
FirstSlot(S) == CHOOSE i \in S : \A j \in S : i <= j

\* Faulty variant: the index is advanced without wrapping around.
TrackAddNoWrap(table, id, status) ==
  LET entry == [id |-> id, status |-> status]
      mine  == Holding(table, id)
      free  == {i \in Slot : ~InUse(table, i)}
      at    == IF mine # {} THEN FirstSlot(mine)
               ELSE IF free # {} THEN FirstSlot(free)
               ELSE table.evict
  IN  [slot  |-> [table.slot EXCEPT ![at] = entry],
       evict |-> IF mine \cup free = {} THEN table.evict + 1 ELSE table.evict]

\* Faulty variant: an existing record of the id is not looked for.
TrackAddAgain(table, id, status) ==
  LET free == {i \in Slot : ~InUse(table, i)}
      at   == IF free # {} THEN FirstSlot(free) ELSE table.evict
  IN  [slot  |-> [table.slot EXCEPT ![at] = [id |-> id, status |-> status]],
       evict |-> IF free = {} THEN (table.evict + 1) % TrackSize ELSE table.evict]

\* Faulty variant: free slots are not looked for, the index is always used.
TrackAddNoSearch(table, id, status) ==
  LET mine == Holding(table, id)
      at   == IF mine # {} THEN FirstSlot(mine) ELSE table.evict
  IN  [slot  |-> [table.slot EXCEPT ![at] = [id |-> id, status |-> status]],
       evict |-> IF mine = {} THEN (table.evict + 1) % TrackSize ELSE table.evict]

(***************************************************************************)
(* task_track_add: update the record of this id, else take the first free  *)
(* slot, else overwrite the slot at track_evict_idx and advance the index. *)
(***************************************************************************)
TrackAdd(table, id, status) ==
  LET entry == [id |-> id, status |-> status]
      mine  == Holding(table, id)
      free  == {i \in Slot : ~InUse(table, i)}
      full  == mine = {} /\ free = {}
      at    == IF mine # {} THEN FirstSlot(mine)
               ELSE IF free # {} THEN FirstSlot(free)
               ELSE table.evict
  IN  [slot  |-> [table.slot EXCEPT ![at] = entry],
       evict |-> IF full THEN (table.evict + 1) % TrackSize ELSE table.evict]

(***************************************************************************)
(* task_track_query: the first record of the id is copied out and its slot *)
(* marked free.  TrackFound is the return code, TrackStatus what is copied *)
(* out, TrackTake the table afterwards.                                    *)
(***************************************************************************)
TrackFound(table, id) == id # 0 /\ Holding(table, id) # {}

TrackStatus(table, id) == table.slot[FirstSlot(Holding(table, id))].status

TrackTake(table, id) ==
  [table EXCEPT !.slot[FirstSlot(Holding(table, id))] = FreeSlot]

=============================================================================
