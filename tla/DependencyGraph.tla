-------------------------- MODULE DependencyGraph --------------------------
(***************************************************************************)
(* DependencyGraph of plugins/plugin_manager.py: the graph the dependency  *)
(* resolver builds from the manifests, its depth-first search for a cycle  *)
(* and its topological sort.  The graph is the state; the algorithms are   *)
(* operators checked on every graph the add operations can build.  Plugin  *)
(* names are 1..GraphSize: sorted() of the code is their order.  Optional  *)
(* dependencies are kept apart in the code and read by no algorithm.       *)
(***************************************************************************)
EXTENDS Naturals, Sequences, FiniteSets, SequencesExt, Relation

CONSTANTS GraphSize   \* bound: plugins in a graph

GraphNode == 1..GraphSize

VARIABLES nodes, edges   \* _nodes and _edges, as pairs <<plugin, dependency>>

graphVars == <<nodes, edges>>

GraphInit == nodes = {} /\ edges = {}

(* add_node; add_optional_dependency adds both ends and, for the           *)
(* algorithms, no edge.                                                    *)
AddNode(p) == nodes' = nodes \cup {p} /\ UNCHANGED edges

AddOptionalDependency(p, d) == nodes' = nodes \cup {p, d} /\ UNCHANGED edges

AddDependency(p, d) ==
  /\ nodes' = nodes \cup {p, d}
  /\ edges' = edges \cup {<<p, d>>}

GraphNext ==
  \/ \E p \in GraphNode : AddNode(p)
  \/ \E p, d \in GraphNode : AddOptionalDependency(p, d)
  \/ \E p, d \in GraphNode : AddDependency(p, d)

-----------------------------------------------------------------------------
Sorted(S) == SetToSortSeq(S, <)

Dependencies(p) == {d \in nodes : <<p, d>> \in edges}

(* has_circular_dependency: depth-first search that keeps the current      *)
(* path; an edge to a node of the path closes a cycle.  A search yields    *)
(* the nodes visited and the cycle, empty while none is found.  The code   *)
(* iterates over a set of dependencies, in no fixed order: order[p] is the *)
(* order it meets those of p in.                                           *)
RECURSIVE Search(_, _, _, _)
Search(order, path, todo, s) ==
  IF s.cycle # <<>> \/ todo = <<>> THEN s
  ELSE LET d == Head(todo) IN
       IF d \notin s.visited
         THEN Search(order, path, Tail(todo),
                     Search(order, Append(path, d), order[d], [s EXCEPT !.visited = @ \cup {d}]))
       ELSE IF Contains(path, d)
         THEN [s EXCEPT !.cycle = SubSeq(path, SelectInSeq(path, LAMBDA x : x = d), Len(path)) \o <<d>>]
       ELSE Search(order, path, Tail(todo), s)

(* Faulty variant: the search begins at the first plugin only.             *)
HasCircularDependencyFirst(order) ==
  IF nodes = {} THEN <<>>
  ELSE Search(order, <<>>, <<Head(Sorted(nodes))>>, [visited |-> {}, cycle |-> <<>>]).cycle

HasCircularDependency(order) ==
  Search(order, <<>>, Sorted(nodes), [visited |-> {}, cycle |-> <<>>]).cycle

(* topological_sort after its cycle check: visit the dependencies of a     *)
(* node in sorted order, then append the node.                             *)
RECURSIVE Visit(_, _)
Visit(todo, s) ==
  IF todo = <<>> THEN s
  ELSE LET p == Head(todo)
           t == IF p \in s.visited THEN s
                ELSE LET below == Visit(Sorted(Dependencies(p)), [s EXCEPT !.visited = @ \cup {p}])
                     IN [below EXCEPT !.result = Append(@, p)]
       IN Visit(Tail(todo), t)

(* Faulty variant: by name, dependencies or not.                           *)
TopologicalSortNames == Sorted(nodes)

TopologicalSort == Visit(Sorted(nodes), [visited |-> {}, result |-> <<>>]).result

(* get_all_dependencies: a work list of dependencies still to follow.      *)
RECURSIVE Follow(_, _)
Follow(todo, found) ==
  IF todo = {} THEN found
  ELSE LET d == CHOOSE x \in todo : TRUE IN
       Follow((todo \ {d}) \cup (IF d \in found THEN {} ELSE Dependencies(d)), found \cup {d})

(* Faulty variant: one level is followed.                                  *)
GetAllDependenciesOneLevel(p) == Dependencies(p)

GetAllDependencies(p) == Follow(Dependencies(p), {})

-----------------------------------------------------------------------------
(* Every way to iterate over the sets of dependencies, and the transitive  *)
(* closure of the edges as the reference.                                  *)
Orders == {f \in [nodes -> UNION {SetToSeqs(Dependencies(p)) : p \in nodes}] :
             \A p \in nodes : f[p] \in SetToSeqs(Dependencies(p))}

Closure == TransitiveClosure([x \in nodes \X nodes |-> x \in edges], nodes)

(* topological_sort lists every plugin once and, when the graph has no     *)
(* cycle, each plugin after everything it depends on: the order            *)
(* load_all_plugins loads in and stop_all_plugins stops in, reversed.      *)
DependenciesFirst ==
  /\ ToSet(TopologicalSort) = nodes /\ Len(TopologicalSort) = Cardinality(nodes)
  /\ (\A p \in nodes : ~Closure[p, p]) =>
       \A i, j \in DOMAIN TopologicalSort :
         <<TopologicalSort[i], TopologicalSort[j]>> \in edges => j < i

(* In whatever order the sets are iterated, the search reports a cycle     *)
(* exactly when some plugin depends on itself, and what it reports is a    *)
(* closed path of required dependencies.                                   *)
CycleReported ==
  \A order \in Orders :
    LET cycle == HasCircularDependency(order) IN
    IF \A p \in nodes : ~Closure[p, p] THEN cycle = <<>>
    ELSE /\ Len(cycle) > 1 /\ cycle[1] = cycle[Len(cycle)]
         /\ \A k \in 1..(Len(cycle) - 1) : <<cycle[k], cycle[k + 1]>> \in edges

(* The work list of get_all_dependencies ends with the transitive closure, *)
(* cycles included.                                                        *)
AllDependenciesFound ==
  \A p \in nodes : GetAllDependencies(p) = {d \in nodes : Closure[p, d]}

(***************************************************************************)
(* The three algorithms on the graph agree with its transitive closure:    *)
(* dependencies come first, cycles are reported as cycles and only then,   *)
(* and the work list finds all that is reached.                            *)
(***************************************************************************)
GraphAgrees == DependenciesFirst /\ CycleReported /\ AllDependenciesFound

=============================================================================
