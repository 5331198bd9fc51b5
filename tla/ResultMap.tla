------------------------------ MODULE ResultMap ------------------------------
(***************************************************************************)
(* What the task tracking table promises to a caller of ai_sched_query: a  *)
(* map from task ids to final results that holds at most Size of them.     *)
(* Recording a result for an id replaces the id's earlier result; only a   *)
(* full map loses another id's result, and only one.  Taking a result      *)
(* removes it, so that a result is handed out at most once per recording.  *)
(***************************************************************************)
EXTENDS Naturals, FiniteSets

CONSTANTS Id, Result, Size

VARIABLE results

\* results is a function whose domain is the set of recorded ids.
Recorded == DOMAIN results

Init == results = [i \in {} |-> i]

Keep(id, st, S) == [i \in S \cup {id} |-> IF i = id THEN st ELSE results[i]]

Put(id, st) ==
  \/ /\ id \in Recorded \/ Cardinality(Recorded) < Size
     /\ results' = Keep(id, st, Recorded)
  \/ /\ id \notin Recorded /\ Cardinality(Recorded) = Size
     /\ \E lost \in Recorded : results' = Keep(id, st, Recorded \ {lost})

Take(id) ==
  /\ id \in Recorded
  /\ results' = [i \in Recorded \ {id} |-> results[i]]

Next == \E id \in Id : Take(id) \/ \E st \in Result : Put(id, st)

Spec == Init /\ [][Next]_results

=============================================================================
