------------------------------ MODULE VectorDb ------------------------------
(***************************************************************************)
(* One collection of the vector database with the default index:           *)
(* VectorDatabase of vector-db/database.py, FlatIndex of index/flat.py and *)
(* the metadata table of storage/sqlite.py, called by the threads the      *)
(* server starts, one for each client.  drop_index, insert, delete and     *)
(* search run under the database lock and are one step.  create_index      *)
(* looks for the name before it takes the lock; persist holds the lock and *)
(* writes one file after the other in place; load reads the files without  *)
(* the lock and takes it to install what it read.  A vector is the number  *)
(* of its insertion.  The vector storage of a collection is written and    *)
(* never read, and is left out.                                            *)
(*                                                                         *)
(* The index keeps an array of vectors, a list of ids, a map from id to    *)
(* row and a set of deleted ids; insert takes ids from the number of       *)
(* active vectors.  live, gone and the flags after them are history: what  *)
(* callers have put in and taken out.                                      *)
(***************************************************************************)
EXTENDS Integers, Sequences, FiniteSets, SequencesExt, FiniteSetsExt, Functions

CONSTANTS MaxVectors,   \* bound: vectors inserted
          MaxBatch,     \* bound: vectors in one insert
          MaxDeletes,   \* bound: calls of delete
          MaxLoads,     \* bound: calls of load that read the files
          MaxCreators   \* bound: threads in create_index at a time

ASSUME VectorDbAssumption ==
  MaxVectors \in Nat /\ MaxBatch \in Nat \ {0} /\ MaxDeletes \in Nat
  /\ MaxLoads \in Nat /\ MaxCreators \in Nat

Vector == 1..MaxVectors
Id == (-MaxVectors)..MaxVectors   \* the count, and so an id, may go below 0 after a failed load
None == 0

VARIABLES
  exists,    \* the collection is in _collections
  vecs,      \* _vectors: the rows written so far
  size,      \* _size: rows in use
  ids,       \* _ids
  index,     \* _id_to_index
  deleted,   \* _deleted_ids
  count,     \* _vector_count
  meta,      \* the vector whose metadata is stored for each id
  file,      \* on disk: rows of vectors.npy, ids of index.json, database.json written
  saving,    \* where persist is: "no", "vectors", "between" or "index"
  creators,  \* threads in create_index that did not find the name
  reader,    \* the thread in load: what it has read so far
  used, deletes, loads,      \* vectors inserted, calls of delete and load
  live, gone,                \* vectors inserted and not deleted; vectors deleted
  reused,                    \* an insert was given an id that was given before
  torn,                      \* a load read files of two different saves
  replaced,                  \* create_index replaced a collection that was there
  mark                       \* history as of the last complete persist

indexVars == <<vecs, size, ids, index, deleted, count>>
bounds == <<used, deletes, loads>>
history == <<live, gone, reused, torn, replaced>>
vars == <<exists, indexVars, meta, file, saving, creators, reader, bounds, history, mark>>

Empty == [k \in {} |-> None]
NoMark == [live |-> {}, gone |-> {}, reused |-> FALSE, torn |-> FALSE, replaced |-> FALSE, seen |-> {}]

(* No load under way.  whole: no persist came between its two reads.       *)
Idle == [pc |-> "no", ids |-> <<>>, vecs |-> <<>>, whole |-> FALSE, mark |-> NoMark]

FreshIndex ==
  /\ vecs' = <<>> /\ size' = 0 /\ ids' = <<>> /\ index' = Empty
  /\ deleted' = {} /\ count' = 0

Init ==
  /\ exists = FALSE
  /\ vecs = <<>> /\ size = 0 /\ ids = <<>> /\ index = Empty /\ deleted = {} /\ count = 0
  /\ meta = [i \in Id |-> None]
  /\ file = [vecs |-> <<>>, ids |-> <<>>, db |-> FALSE, mixed |-> FALSE]
  /\ saving = "no" /\ creators = 0 /\ reader = Idle
  /\ used = 0 /\ deletes = 0 /\ loads = 0
  /\ live = {} /\ gone = {} /\ reused = FALSE /\ torn = FALSE /\ replaced = FALSE
  /\ mark = NoMark

-----------------------------------------------------------------------------
(* What a search can return: the rows in use whose id is not deleted.      *)
Visible == {k \in 1..size : ids[k] \notin deleted}

Row(k) == <<ids[k], vecs[k]>>

(* The k nearest rows of S; rank orders the rows by distance to the query. *)
Nearest(S, rank, k) == {r \in S : Cardinality({q \in S : rank[q] < rank[r]}) < k}

(* Faulty variant: deleted rows take the place of results.                 *)
SearchNoSlack(rank, topK) ==
  Nearest(Nearest(1..size, rank, Min({topK, size})) \cap Visible, rank, topK)

(* FlatIndex.search: the top_k + |_deleted_ids| nearest rows, without the  *)
(* deleted ones, and the first top_k of those.                             *)
Search(rank, topK) ==
  Nearest(Nearest(1..size, rank, Min({topK + Cardinality(deleted), size})) \cap Visible, rank, topK)

(* FlatIndex.get.                                                          *)
Get(i) == IF i \in DOMAIN index THEN vecs[index[i]] ELSE None

-----------------------------------------------------------------------------
(* A collection that is new, or gone: nothing is in it.                    *)
Cleared ==
  /\ FreshIndex
  /\ meta' = [i \in Id |-> None]
  /\ reused' = FALSE /\ torn' = FALSE

Forgotten == live' = {} /\ gone' = {} /\ replaced' = FALSE

(* create_index looks for the name without the lock ...                    *)
CreateTest ==
  /\ ~exists /\ creators < MaxCreators /\ creators' = creators + 1
  /\ UNCHANGED <<exists, indexVars, meta, file, saving, reader, bounds, history, mark>>

(* ... and with the lock installs an empty collection, whatever is there   *)
(* under the name by now.                                                  *)
CreateInstall ==
  /\ creators > 0 /\ saving = "no" /\ creators' = creators - 1
  /\ exists' = TRUE
  /\ Cleared
  /\ IF exists THEN live' = live /\ gone' = gone /\ replaced' = TRUE ELSE Forgotten
  /\ UNCHANGED <<file, saving, reader, bounds, mark>>

(* drop_index tests and removes under the lock.                            *)
DropIndex ==
  /\ exists /\ saving = "no" /\ exists' = FALSE
  /\ Cleared /\ Forgotten
  /\ UNCHANGED <<file, saving, creators, reader, bounds, mark>>

(* FlatIndex.add writes the rows behind those in use.                      *)
WriteRows(rows) ==
  [k \in 1..Max({Len(vecs), size + Len(rows)}) |->
     IF k > size /\ k <= size + Len(rows) THEN rows[k - size] ELSE vecs[k]]

(* Faulty variant: the id of the last vector instead of the next.          *)
StartIdOfLast == IF count = 0 THEN 0 ELSE count - 1

StartId == count

(* insert: ids from index.size() on; metadata is stored when it is given.  *)
Insert(n, described) ==
  LET rows == [k \in 1..n |-> used + k]
      new == [k \in 1..n |-> StartId + k - 1]
      at(i) == CHOOSE k \in 1..n : new[k] = i
  IN /\ exists /\ saving = "no" /\ used + n <= MaxVectors
     /\ vecs' = WriteRows(rows) /\ size' = size + n
     /\ ids' = ids \o new
     /\ index' = [i \in DOMAIN index \cup ToSet(new) |-> IF i \in ToSet(new) THEN size + at(i) ELSE index[i]]
     /\ count' = size' - Cardinality(deleted)
     /\ meta' = IF described THEN [i \in Id |-> IF i \in ToSet(new) THEN rows[at(i)] ELSE meta[i]] ELSE meta
     /\ used' = used + n
     /\ live' = live \cup ToSet(rows)
     /\ reused' = (reused \/ ToSet(new) \cap ToSet(ids) # {})
     /\ UNCHANGED <<exists, deleted, file, saving, creators, reader, deletes, loads, gone, torn, replaced, mark>>

(* Faulty variant: the metadata of a deleted vector stays.                 *)
KeepMetadata(S) == meta

DeleteMetadata(S) == [i \in Id |-> IF i \in S THEN None ELSE meta[i]]

(* delete of the ids S: those in the map go to the deleted set.            *)
Delete(S) ==
  /\ exists /\ saving = "no" /\ deletes < MaxDeletes /\ deletes' = deletes + 1
  /\ deleted' = deleted \cup (S \cap DOMAIN index)
  /\ index' = Restrict(index, DOMAIN index \ S)
  /\ count' = size - Cardinality(deleted')
  /\ meta' = DeleteMetadata(S)
  /\ LET hit == {vecs[k] : k \in {q \in 1..size : ids[q] \in S \cap DOMAIN index}} IN
     /\ live' = live \ hit
     /\ gone' = gone \cup hit
  /\ UNCHANGED <<exists, vecs, size, ids, file, saving, creators, reader, used, loads, reused, torn, replaced, mark>>

-----------------------------------------------------------------------------
(* FlatIndex.save keeps the rows that are not deleted, in their order.     *)
(* Faulty variants: the deleted ones are kept; all ids are written.        *)
ValidAll == [k \in 1..size |-> k]

Valid == CHOOSE s \in SetToSeqs(Visible) : \A j, k \in DOMAIN s : j < k => s[j] < s[k]

SavedIdsAll == ids

SavedIds == [k \in DOMAIN Valid |-> ids[Valid[k]]]

SavedVecs == [k \in DOMAIN Valid |-> vecs[Valid[k]]]

(* persist, with the lock held throughout, opens vectors.npy when a row is *)
(* valid, which empties it, and writes the rows; then the same with        *)
(* index.json.  config.json and database.json come last and are part of    *)
(* the last step: a load that meets them cut short, or a database.json     *)
(* that is not there, fails and changes nothing.  An empty sequence stands *)
(* for a file cut short as well: load then leaves the index empty, as for  *)
(* a file without rows.                                                    *)
PersistStart ==
  /\ exists /\ saving = "no" /\ saving' = "vectors"
  /\ file' = [file EXCEPT !.vecs = IF Valid = <<>> THEN @ ELSE <<>>, !.mixed = TRUE]
  /\ reader' = [reader EXCEPT !.whole = @ /\ reader.pc = "read"]
  /\ UNCHANGED <<exists, indexVars, meta, creators, bounds, history, mark>>

PersistVectors ==
  /\ saving = "vectors" /\ saving' = "between"
  /\ file' = [file EXCEPT !.vecs = IF Valid = <<>> THEN @ ELSE SavedVecs]
  /\ UNCHANGED <<exists, indexVars, meta, creators, reader, bounds, history, mark>>

PersistOpen ==
  /\ saving = "between" /\ saving' = "index"
  /\ file' = [file EXCEPT !.ids = <<>>]
  /\ UNCHANGED <<exists, indexVars, meta, creators, reader, bounds, history, mark>>

PersistIndex ==
  /\ saving = "index" /\ saving' = "no"
  /\ file' = [file EXCEPT !.ids = SavedIds, !.db = TRUE, !.mixed = FALSE]
  /\ mark' = [live |-> live, gone |-> gone, reused |-> reused, torn |-> torn, replaced |-> replaced,
              seen |-> {Row(k) : k \in Visible}]
  /\ UNCHANGED <<exists, indexVars, meta, creators, reader, bounds, history>>

(* FlatIndex.save fails, before its first write or later: it returns       *)
(* False, and persist does not look at that and writes database.json.      *)
SaveFails ==
  /\ exists /\ saving' = "no"
  /\ file' = [file EXCEPT !.db = TRUE]
  /\ UNCHANGED <<exists, indexVars, meta, creators, reader, bounds, history, mark>>

(* The process dies: what is in memory is lost.                            *)
Crash ==
  /\ exists \/ creators > 0 \/ reader.pc # "no"
  /\ exists' = FALSE /\ saving' = "no" /\ creators' = 0 /\ reader' = Idle
  /\ Cleared /\ Forgotten
  /\ UNCHANGED <<file, bounds, mark>>

(* load without the lock: index.json first, then vectors.npy.              *)
LoadIds ==
  /\ reader.pc = "no" /\ file.db /\ loads < MaxLoads
  /\ reader' = [pc |-> "ids", ids |-> file.ids, vecs |-> <<>>, whole |-> ~file.mixed, mark |-> mark]
  /\ UNCHANGED <<exists, indexVars, meta, file, saving, creators, bounds, history, mark>>

LoadVectors ==
  /\ reader.pc = "ids"
  /\ reader' = [reader EXCEPT !.pc = "read", !.vecs = file.vecs]
  /\ UNCHANGED <<exists, indexVars, meta, file, saving, creators, bounds, history, mark>>

(* The ids add() enters: one for each vector, as long as there are ids.    *)
(* Faulty variant: one for each id.                                        *)
EnteredIdsAll == reader.ids

EnteredIds == SubSeq(reader.ids, 1, Min({Len(reader.vecs), Len(reader.ids)}))

(* load replaces the collection by a new index with what it has read.      *)
(* With fewer ids than vectors add raises in the middle, with the rows     *)
(* written, the ids entered and _size still 0; the result of               *)
(* FlatIndex.load is ignored.  Metadata is not in the files.               *)
LoadInstall ==
  LET n == Len(reader.vecs) IN
  /\ reader.pc = "read" /\ saving = "no" /\ loads' = loads + 1
  /\ exists' = TRUE
  /\ vecs' = reader.vecs
  /\ ids' = EnteredIds
  /\ index' = [i \in ToSet(ids') |-> Max({k \in DOMAIN ids' : ids'[k] = i})]
  /\ size' = IF Len(reader.ids) < n THEN 0 ELSE n
  /\ deleted' = {} /\ count' = size'
  /\ meta' = [i \in Id |-> None]
  /\ live' = reader.mark.live /\ gone' = reader.mark.gone
  /\ reused' = reader.mark.reused /\ replaced' = reader.mark.replaced
  /\ torn' = (~reader.whole \/ reader.mark.torn)
  /\ reader' = Idle
  /\ UNCHANGED <<file, saving, creators, used, deletes, mark>>

Next ==
  \/ CreateTest \/ CreateInstall \/ DropIndex
  \/ \E n \in 1..MaxBatch, described \in BOOLEAN : Insert(n, described)
  \/ \E S \in SUBSET ToSet(ids) : S # {} /\ Delete(S)
  \/ PersistStart \/ PersistVectors \/ PersistOpen \/ PersistIndex \/ SaveFails \/ Crash
  \/ LoadIds \/ LoadVectors \/ LoadInstall

Spec == Init /\ [][Next]_vars

-----------------------------------------------------------------------------
TypeOK ==
  /\ {exists, reused, torn, replaced} \subseteq BOOLEAN
  /\ saving \in {"no", "vectors", "between", "index"} /\ creators \in 0..MaxCreators
  /\ reader.pc \in {"no", "ids", "read"} /\ reader.whole \in BOOLEAN
  /\ reader.ids \in Seq(Id) /\ reader.vecs \in Seq(Vector)
  /\ vecs \in Seq(Vector) /\ ids \in Seq(Id) /\ size \in 0..Len(vecs)
  /\ DOMAIN index \subseteq Id /\ \A i \in DOMAIN index : index[i] \in DOMAIN vecs
  /\ deleted \subseteq Id /\ count \in Int
  /\ meta \in [Id -> Vector \cup {None}]
  /\ file \in [vecs : Seq(Vector), ids : Seq(Id), db : BOOLEAN, mixed : BOOLEAN]
  /\ used \in 0..MaxVectors /\ deletes \in 0..MaxDeletes /\ loads \in 0..MaxLoads
  /\ live \subseteq Vector /\ gone \subseteq Vector

(* Every order of the rows by distance.                                    *)
Ranks == {r \in [1..size -> 1..size] : IsInjective(r)}

(* While no id was given twice, search over any query returns the nearest  *)
(* of the rows that are not deleted, get finds the vectors of exactly      *)
(* those, and size() is their number; and those are the vectors inserted   *)
(* and not deleted, through persist, crash and load, as long as no         *)
(* create_index replaced the collection.                                   *)
ExactWhileIdsUnique ==
  exists /\ ~reused /\ ~torn =>
    /\ ~replaced => {vecs[k] : k \in Visible} = live
    /\ {Get(i) : i \in Id} \ {None} = {vecs[k] : k \in Visible}
    /\ count = Cardinality(Visible)
    /\ \A rank \in Ranks, topK \in 1..MaxVectors : Search(rank, topK) = Nearest(Visible, rank, topK)

(* The only way to be given an id that is taken is to insert after a       *)
(* delete (now or before the last save), or after a load of files of two   *)
(* different saves: a collection that only grows never mixes up its ids.   *)
ReuseOnlyAfterDelete == reused => gone # {} \/ torn

(* Even when ids are reused, a vector a delete() removed is not returned   *)
(* by search or get again, through persist and load as well.               *)
DeletedGone ==
  exists /\ ~torn =>
    /\ {vecs[k] : k \in Visible} \cap gone = {}
    /\ {Get(i) : i \in Id} \cap gone = {}

(* A load that read index.json as one complete persist left it, and        *)
(* vectors.npy before another persist began, brings back exactly the rows, *)
(* ids with vectors, that search saw at that persist, however many         *)
(* persists, inserts and deletes other threads finish until it installs    *)
(* them.                                                                   *)
RoundTrip ==
  [][loads' # loads /\ reader.whole => {Row(k) : k \in Visible}' = reader.mark.seen]_vars

(* While no id was given twice, the metadata returned with a vector is its *)
(* own.                                                                    *)
MetadataOwn ==
  exists /\ ~reused /\ ~torn => \A i \in Id : meta[i] # None => Get(i) = meta[i]

(***************************************************************************)
(* What was deleted stays deleted through inserts, saves and loads,        *)
(* metadata goes with its vector, and only a delete or files of two saves  *)
(* lead to an id given twice.                                              *)
(***************************************************************************)
CollectionInv == TypeOK /\ ReuseOnlyAfterDelete /\ DeletedGone /\ MetadataOwn

=============================================================================
