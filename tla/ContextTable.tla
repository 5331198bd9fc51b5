---------------------------- MODULE ContextTable ----------------------------
(***************************************************************************)
(* kernel/ai-syscalls-main.c: the context table behind the system calls    *)
(* ai_context_store (455) and ai_context_retrieve (456).  Entries are      *)
(* found by (session, key) or by entry id and may expire.  Every call runs *)
(* under g_context_lock and is one step.                                   *)
(*                                                                         *)
(* A session and a key that name an entry are abstracted to one Key.  Time *)
(* is a counter of ticks; a time to live of 0 never expires.               *)
(***************************************************************************)
EXTENDS Naturals, FiniteSets

CONSTANTS
  Key,         \* pairs (session_id, key)
  Value,       \* contents
  Ttl,         \* the times to live that are used, 0 for none
  MaxEntries,  \* AI_MAX_CONTEXT_ENTRIES
  MaxStores,   \* bound: how many entry ids are handed out
  MaxTime,     \* bound: ticks of the clock
  Null         \* no value, no key

ASSUME ContextAssumption ==
  /\ Ttl \subseteq Nat
  /\ {MaxEntries, MaxStores, MaxTime} \subseteq Nat
  /\ Null \notin Key \cup Value

ContextEntry == 1..MaxEntries

VARIABLES
  contexts,    \* g_context_table
  nextId,      \* g_next_context_id
  now,         \* ktime_get()
  stuck,       \* a call died in memcpy from NULL holding g_context_lock
  stored,      \* auxiliary: what the last store of each key left behind
  got          \* what the last retrieve returned

contextVars == <<contexts, nextId, now, stuck, stored, got>>

EntryRecord ==
  [used: BOOLEAN, key: Key \cup {Null}, id: Nat, value: Value \cup {Null},
   created: Nat, ttl: Nat]

NoContext ==
  [used |-> FALSE, key |-> Null, id |-> 0, value |-> Null, created |-> 0, ttl |-> 0]

Nothing == [id |-> 0, value |-> Null]

ContextInit ==
  /\ contexts = [e \in ContextEntry |-> NoContext]
  /\ nextId = 1
  /\ now = 0
  /\ stuck = FALSE
  /\ stored = [k \in Key |-> Nothing]
  /\ got = [key |-> Null, id |-> 0, value |-> Null]

Free == {e \in ContextEntry : ~contexts[e].used}

Matching(k) == {e \in ContextEntry : contexts[e].used /\ contexts[e].key = k}

FirstContext(S) == CHOOSE e \in S : \A f \in S : e <= f

\* Faulty variant: the search stops at the first free entry.
PlaceFirstFree(k) == IF Free # {} THEN Free ELSE Matching(k)

\* The entry the search loop of context_table_store ends with, if any: the
\* entry of the key, else the first free one.
Place(k) == IF Matching(k) # {} THEN Matching(k) ELSE Free

Expired(e) ==
  contexts[e].ttl > 0 /\ now - contexts[e].created >= contexts[e].ttl

NothingGot == got' = [key |-> Null, id |-> 0, value |-> Null]

-----------------------------------------------------------------------------
(* A retrieve by entry id can reach every used entry, one by key the entry  *)
(* of the key; the parameter e of the retrieving steps is the entry found.  *)

\* The table is full: -AI_ERR_OUT_OF_MEMORY.  Expired entries count as full.
StoreFull(k) ==
  /\ ~stuck
  /\ Place(k) = {}
  /\ NothingGot
  /\ UNCHANGED <<contexts, nextId, now, stuck, stored>>

\* Faulty variant: a counter so narrow that ids come round to 0.
StoreWrapping(k, v, ttl) ==
  /\ ~stuck
  /\ Place(k) # {}
  /\ contexts' = [contexts EXCEPT ![FirstContext(Place(k))] =
       [used |-> TRUE, key |-> k, id |-> nextId, value |-> v, created |-> now, ttl |-> ttl]]
  /\ nextId' = (nextId + 1) % MaxStores
  /\ stored' = [stored EXCEPT ![k] = [id |-> nextId, value |-> v]]
  /\ NothingGot
  /\ UNCHANGED <<now, stuck>>

\* kvmalloc succeeds.
Store(k, v, ttl) ==
  /\ ~stuck
  /\ Place(k) # {}
  /\ nextId <= MaxStores
  /\ contexts' = [contexts EXCEPT ![FirstContext(Place(k))] =
       [used |-> TRUE, key |-> k, id |-> nextId, value |-> v, created |-> now, ttl |-> ttl]]
  /\ nextId' = nextId + 1
  /\ stored' = [stored EXCEPT ![k] = [id |-> nextId, value |-> v]]
  /\ NothingGot
  /\ UNCHANGED <<now, stuck>>

\* kvmalloc fails: the value of an entry that was to be overwritten has been
\* freed and set to NULL already, the rest of the entry stays.
StoreNoMemory(k) ==
  /\ ~stuck
  /\ Place(k) # {}
  /\ contexts' = [contexts EXCEPT ![FirstContext(Place(k))].value = Null]
  /\ stored' = [stored EXCEPT ![k] = Nothing]
  /\ NothingGot
  /\ UNCHANGED <<nextId, now, stuck>>

\* Faulty variant: the value is freed and the entry left in use.
RetrieveExpiredFreesValue(e) ==
  /\ ~stuck
  /\ contexts[e].used
  /\ Expired(e)
  /\ contexts' = [contexts EXCEPT ![e].value = Null]
  /\ NothingGot
  /\ UNCHANGED <<nextId, now, stuck, stored>>

\* An expired entry is cleared: -AI_ERR_TIMEOUT.
RetrieveExpired(e) ==
  /\ ~stuck
  /\ contexts[e].used
  /\ Expired(e)
  /\ contexts' = [contexts EXCEPT ![e] = NoContext]
  /\ NothingGot
  /\ UNCHANGED <<nextId, now, stuck, stored>>

\* Faulty variant: the time to live is not looked at.
RetrieveAnyAge(e) ==
  /\ ~stuck
  /\ contexts[e].used
  /\ contexts[e].value # Null
  /\ got' = [key |-> contexts[e].key, id |-> contexts[e].id, value |-> contexts[e].value]
  /\ UNCHANGED <<contexts, nextId, now, stuck, stored>>

\* The value is copied out, by key or by entry id.
RetrieveValue(e) ==
  /\ ~stuck
  /\ contexts[e].used
  /\ ~Expired(e)
  /\ contexts[e].value # Null
  /\ got' = [key |-> contexts[e].key, id |-> contexts[e].id, value |-> contexts[e].value]
  /\ UNCHANGED <<contexts, nextId, now, stuck, stored>>

\* The value is NULL and value_len still that of the freed one: the copy
\* faults with the lock held.
RetrieveNull(e) ==
  /\ ~stuck
  /\ contexts[e].used
  /\ ~Expired(e)
  /\ contexts[e].value = Null
  /\ stuck' = TRUE
  /\ NothingGot
  /\ UNCHANGED <<contexts, nextId, now, stored>>

\* No entry matches (-AI_ERR_INVALID_PARAM), or the buffer is too small.
RetrieveNothing ==
  /\ ~stuck
  /\ NothingGot
  /\ UNCHANGED <<contexts, nextId, now, stuck, stored>>

Tick ==
  /\ now < MaxTime
  /\ now' = now + 1
  /\ NothingGot
  /\ UNCHANGED <<contexts, nextId, stuck, stored>>

ContextNext ==
  \/ \E k \in Key :
       \/ StoreFull(k)
       \/ StoreNoMemory(k)
       \/ \E v \in Value, ttl \in Ttl : Store(k, v, ttl)
  \/ \E e \in ContextEntry : RetrieveExpired(e) \/ RetrieveValue(e) \/ RetrieveNull(e)
  \/ RetrieveNothing
  \/ Tick

ContextSpec == ContextInit /\ [][ContextNext]_contextVars

-----------------------------------------------------------------------------

\* Type invariant.
ContextTypeOK ==
  /\ contexts \in [ContextEntry -> EntryRecord]
  /\ nextId \in Nat \ {0}
  /\ now \in Nat
  /\ stuck \in BOOLEAN
  /\ stored \in [Key -> [id: Nat, value: Value \cup {Null}]]
  /\ got \in [key: Key \cup {Null}, id: Nat, value: Value \cup {Null}]

(***************************************************************************)
(* A key has one entry and an entry id one owner: overwriting finds the    *)
(* entry of the key even if a free entry comes before it in the table.     *)
(***************************************************************************)
OneEntryPerKey ==
  \A e, f \in ContextEntry :
    /\ contexts[e].used /\ contexts[f].used
    /\ contexts[e].key = contexts[f].key \/ contexts[e].id = contexts[f].id
    => e = f

(***************************************************************************)
(* A retrieve, by key or by an entry id from any time ago, returns what    *)
(* the most recent store of that key put there, and only while that is not *)
(* expired: an id from before an overwrite finds nothing.                  *)
(***************************************************************************)
RetrieveReturnsLatest ==
  got.value # Null =>
    /\ stored[got.key] = [id |-> got.id, value |-> got.value]
    /\ \E e \in ContextEntry : contexts[e].used /\ contexts[e].id = got.id /\ ~Expired(e)

(***************************************************************************)
(* The table only locks up after an overwriting store ran out of memory:   *)
(* no other sequence of calls leaves a used entry without a value.         *)
(***************************************************************************)
NullOnlyAfterFailedStore ==
  /\ stuck => \E e \in ContextEntry : contexts[e].used /\ contexts[e].value = Null
  /\ \A e \in ContextEntry :
       contexts[e].used /\ contexts[e].value = Null => stored[contexts[e].key] = Nothing

(***************************************************************************)
(* The table answers as a map with expiry would: one entry for a key, the  *)
(* latest unexpired store or nothing, and an entry without a value only    *)
(* where context_table_store failed to allocate one.                       *)
(***************************************************************************)
ContextInv == ContextTypeOK /\ OneEntryPerKey /\ RetrieveReturnsLatest /\ NullOnlyAfterFailedStore

=============================================================================
