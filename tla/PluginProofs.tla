---------------------------- MODULE PluginProofs ----------------------------
(***************************************************************************)
(* Proofs about the plugin system: the service registry and the event bus  *)
(* of plugins/api.py, for any names, plugins, subscriptions and events,    *)
(* and PluginManager, for any plugins, dependencies and threads.           *)
(***************************************************************************)
EXTENDS PluginManager, EventBus, ServiceRegistry,
        FiniteSetTheorems, SequenceTheorems, WellFoundedInduction, TLAPS

-----------------------------------------------------------------------------
(* The service registry *)

\* The registry (plugins/api.py, ServiceRegistry) keeps its type.
THEOREM RegistryTyped == RegistrySpec => []RegistryTypeOK
<1>1. RegistryInit => RegistryTypeOK
  BY RegistryAssumption DEF RegistryInit, RegistryTypeOK, Unused
<1>2. RegistryTypeOK /\ [RegistryNext]_registryVars => RegistryTypeOK'
  <2> SUFFICES ASSUME RegistryTypeOK, [RegistryNext]_registryVars
               PROVE  RegistryTypeOK'
    OBVIOUS
  <2> USE DEF RegistryTypeOK
  <2>1. ASSUME NEW n \in Name, NEW p \in Owner, NEW overwrite \in BOOLEAN,
               RegisterService(n, p, overwrite)
        PROVE  RegistryTypeOK'
    BY <2>1 DEF RegisterService, Metadata, Registers
  <2>2. ASSUME NEW n \in Name, NEW p \in Owner, NEW overwrite \in BOOLEAN,
               RegisterFactory(n, p, overwrite)
        PROVE  RegistryTypeOK'
    BY <2>2 DEF RegisterFactory, Metadata, Registers
  <2>3. ASSUME NEW a \in Name, NEW n \in Name, RegisterAlias(a, n)
        PROVE  RegistryTypeOK'
    BY <2>3 DEF RegisterAlias
  <2>4. ASSUME NEW n \in Name, Get(n)
        PROVE  RegistryTypeOK'
    <3>1. hung' \in BOOLEAN
      BY <2>4, Zenon DEF Get, Endless
    <3> QED
      BY <2>4, <3>1 DEF Get
  <2>5. ASSUME NEW n \in Name, Unregister(n)
        PROVE  RegistryTypeOK'
    BY <2>5 DEF Unregister
  <2>6. ASSUME NEW p \in Owner, UnregisterPlugin(p)
        PROVE  RegistryTypeOK'
    BY <2>6 DEF UnregisterPlugin, Without
  <2>7. CASE ClearRegistry
    BY <2>7 DEF ClearRegistry, Unused
  <2>8. CASE UNCHANGED registryVars
    BY <2>8 DEF registryVars
  <2> QED
    BY <2>1, <2>2, <2>3, <2>4, <2>5, <2>6, <2>7, <2>8 DEF RegistryNext
<1> QED
  BY <1>1, <1>2, PTL DEF RegistrySpec

-----------------------------------------------------------------------------
(***************************************************************************)
(* Why get() ends.  GetEnds is not inductive: it needs that an alias never *)
(* has the name of a service or factory.  An alias is made for a target    *)
(* that is one, so that the target has no alias of its own and the new     *)
(* alias closes no circle; unregistering only shortens the ways.           *)
(***************************************************************************)
AliasesEnd ==
  shadowed = {} =>
    /\ ~hung
    /\ \A n \in Name : aliases[n] # NoOne => ~Taken(n)
    /\ \A S \in SUBSET Name : S # {} => ~Closed(S)

\* No circle of aliases means that get() ends for every name.
LEMMA AliasesEndSuffices == AliasesEnd => GetEnds
  BY DEF AliasesEnd, GetEnds, Endless

\* The empty registry, new or cleared.
LEMMA UnusedHasNoCircle ==
  ASSUME NEW S \in SUBSET Name, S # {}, aliases = Unused
  PROVE  ~Closed(S)
  BY RegistryAssumption DEF Unused, Closed

\* One step of the registry makes no circle of aliases, unless a service
\* or factory is registered under a name that is an alias.
LEMMA AliasesEndStep ==
  ASSUME RegistryTypeOK, AliasesEnd, [RegistryNext]_registryVars
  PROVE  AliasesEnd'
<1> SUFFICES ASSUME shadowed' = {}
             PROVE  /\ ~hung'
                    /\ \A n \in Name : aliases'[n] # NoOne => ~Taken(n)'
                    /\ \A S \in SUBSET Name : S # {} => ~Closed(S)'
  BY DEF AliasesEnd
<1>1. ASSUME NEW n \in Name, NEW p \in Owner, NEW overwrite \in BOOLEAN,
             RegisterService(n, p, overwrite) \/ RegisterFactory(n, p, overwrite)
      PROVE  AliasesEnd'
  <2>1. shadowed = {} /\ aliases[n] = NoOne
    BY <1>1 DEF RegisterService, RegisterFactory, Registers
  <2>2. aliases' = aliases /\ hung' = hung
    BY <1>1 DEF RegisterService, RegisterFactory
  <2>3. \A m \in Name : m # n => (Taken(m)' <=> Taken(m))
    BY <1>1 DEF RegisterService, RegisterFactory, Taken, RegistryTypeOK
  <2> QED
    BY <2>1, <2>2, <2>3 DEF AliasesEnd, Closed
<1>2. ASSUME NEW a \in Name, NEW n \in Name, RegisterAlias(a, n)
      PROVE  AliasesEnd'
  <2>1. shadowed = {} /\ aliases[n] = NoOne /\ a # n /\ ~Taken(a)
    BY <1>2 DEF RegisterAlias, AliasesEnd
  <2>2. aliases' = [aliases EXCEPT ![a] = n] /\ hung' = hung
    BY <1>2 DEF RegisterAlias
  <2>3. \A m \in Name : Taken(m)' <=> Taken(m)
    BY <1>2 DEF RegisterAlias, Taken
  <2>4. ASSUME NEW S \in SUBSET Name, S # {}, Closed(S)'
        PROVE  FALSE
    <3>1. CASE a \in S
      <4>1. n \in S
        BY <2>2, <2>4, <3>1 DEF Closed, RegistryTypeOK
      <4>2. aliases'[n] = NoOne
        BY <2>1, <2>2 DEF RegistryTypeOK
      <4> QED
        BY <2>4, <4>1, <4>2, RegistryAssumption DEF Closed
    <3>2. CASE a \notin S
      <4>1. \A m \in S : aliases[m] = aliases'[m]
        BY <2>2, <3>2 DEF RegistryTypeOK
      <4>2. Closed(S)
        BY <2>4, <4>1 DEF Closed
      <4> QED
        BY <2>1, <2>4, <4>2 DEF AliasesEnd
    <3> QED
      BY <3>1, <3>2
  <2>5. \A m \in Name : aliases'[m] # NoOne => ~Taken(m)'
    BY <2>1, <2>2, <2>3 DEF AliasesEnd, RegistryTypeOK
  <2> QED
    BY <2>1, <2>2, <2>4, <2>5 DEF AliasesEnd
<1>3. ASSUME NEW n \in Name, Get(n)
      PROVE  AliasesEnd'
  <2>1. shadowed = {} /\ aliases' = aliases /\ services' = services /\ factories' = factories
    BY <1>3 DEF Get
  <2>2. ~Endless(n)
    BY <2>1, AliasesEndSuffices DEF GetEnds
  <2>3. ~hung'
    BY <1>3, <2>2 DEF Get
  <2> QED
    BY <2>1, <2>3 DEF AliasesEnd, Closed, Taken
<1>4. ASSUME NEW n \in Name, Unregister(n)
      PROVE  AliasesEnd'
  <2>1. shadowed = {} /\ hung' = hung
    BY <1>4 DEF Unregister
  <2>2. \A m \in Name : aliases'[m] = aliases[m] \/ aliases'[m] = NoOne
    BY <1>4 DEF Unregister, RegistryTypeOK
  <2>3. \A m \in Name : Taken(m)' => Taken(m)
    BY <1>4 DEF Unregister, Taken, RegistryTypeOK
  <2>4. ASSUME NEW S \in SUBSET Name, Closed(S)'
        PROVE  Closed(S)
    BY <2>2, <2>4, RegistryAssumption DEF Closed
  <2>5. \A m \in Name : aliases'[m] # NoOne => ~Taken(m)'
    BY <2>1, <2>2, <2>3 DEF AliasesEnd
  <2> QED
    BY <2>1, <2>4, <2>5 DEF AliasesEnd
<1>5. ASSUME NEW p \in Owner, UnregisterPlugin(p)
      PROVE  AliasesEnd'
  <2>1. shadowed = {} /\ hung' = hung /\ aliases' = aliases
    BY <1>5 DEF UnregisterPlugin
  <2>2. \A m \in Name : Taken(m)' => Taken(m)
    BY <1>5 DEF UnregisterPlugin, Without, Taken
  <2> QED
    BY <2>1, <2>2 DEF AliasesEnd, Closed
<1>6. CASE ClearRegistry
  <2>1. ~hung' /\ aliases' = Unused /\ services' = Unused /\ factories' = Unused
    BY <1>6 DEF ClearRegistry
  <2>2. \A S \in SUBSET Name : S # {} => ~Closed(S)'
    BY <2>1, RegistryAssumption DEF Unused, Closed
  <2> QED
    BY <2>1, <2>2 DEF Taken, Unused
<1>7. CASE UNCHANGED registryVars
  BY <1>7 DEF registryVars, AliasesEnd, Closed, Taken
<1> QED
  BY <1>1, <1>2, <1>3, <1>4, <1>5, <1>6, <1>7 DEF RegistryNext, AliasesEnd

\* ServiceRegistry.get ends for every name, and with it every call of the
\* registry, unless something was registered under the name of an alias.
THEOREM RegistryGetEnds == RegistrySpec => []GetEnds
<1>1. RegistryInit => AliasesEnd
  <2> SUFFICES ASSUME RegistryInit
               PROVE  AliasesEnd
    OBVIOUS
  <2>1. \A S \in SUBSET Name : S # {} => ~Closed(S)
    BY UnusedHasNoCircle DEF RegistryInit
  <2> QED
    BY <2>1 DEF RegistryInit, AliasesEnd, Unused, Taken
<1>2. AliasesEnd /\ RegistryTypeOK /\ [RegistryNext]_registryVars => AliasesEnd'
  BY AliasesEndStep
<1> QED
  BY <1>1, <1>2, RegistryTyped, AliasesEndSuffices, PTL DEF RegistrySpec

-----------------------------------------------------------------------------

\* One step of the registry keeps the metadata in agreement with the tables.
LEMMA OwnerKnownStep ==
  ASSUME RegistryTypeOK, OwnerKnown, [RegistryNext]_registryVars
  PROVE  OwnerKnown'
<1> USE RegistryAssumption DEF RegistryTypeOK, OwnerKnown, Taken
<1>1. ASSUME NEW n \in Name, NEW p \in Owner, NEW overwrite \in BOOLEAN,
             RegisterService(n, p, overwrite)
      PROVE  OwnerKnown'
  BY <1>1 DEF RegisterService, Metadata, Registers
<1>2. ASSUME NEW n \in Name, NEW p \in Owner, NEW overwrite \in BOOLEAN,
             RegisterFactory(n, p, overwrite)
      PROVE  OwnerKnown'
  BY <1>2 DEF RegisterFactory, Metadata, Registers
<1>3. ASSUME NEW a \in Name, NEW n \in Name, RegisterAlias(a, n)
      PROVE  OwnerKnown'
  BY <1>3 DEF RegisterAlias
<1>4. ASSUME NEW n \in Name, Get(n)
      PROVE  OwnerKnown'
  BY <1>4 DEF Get
<1>5. ASSUME NEW n \in Name, Unregister(n)
      PROVE  OwnerKnown'
  <2>1. CASE services[n] # NoOne
    BY <1>5, <2>1 DEF Unregister
  <2>2. CASE services[n] = NoOne /\ factories[n] # NoOne
    BY <1>5, <2>2 DEF Unregister
  <2>3. CASE ~Taken(n)
    BY <1>5, <2>3 DEF Unregister
  <2> QED
    BY <2>1, <2>2, <2>3
<1>6. ASSUME NEW p \in Owner, UnregisterPlugin(p)
      PROVE  OwnerKnown'
  BY <1>6 DEF UnregisterPlugin, Without
<1>7. CASE ClearRegistry
  BY <1>7 DEF ClearRegistry, Unused
<1>8. CASE UNCHANGED registryVars
  BY <1>8 DEF registryVars
<1> QED
  BY <1>1, <1>2, <1>3, <1>4, <1>5, <1>6, <1>7, <1>8 DEF RegistryNext

\* The metadata of a service or factory names its owner, unless the name is
\* both (register and register_factory share _metadata).
THEOREM RegistryOwnerKnown == RegistrySpec => []OwnerKnown
<1>1. RegistryInit => OwnerKnown
  BY DEF RegistryInit, OwnerKnown, Unused, Taken
<1>2. OwnerKnown /\ RegistryTypeOK /\ [RegistryNext]_registryVars => OwnerKnown'
  BY OwnerKnownStep
<1> QED
  BY <1>1, <1>2, RegistryTyped, PTL DEF RegistrySpec

\* unregister_plugin removes what the plugin registered and nothing else,
\* apart from names that are both a service and a factory.
THEOREM RegistryUnloadExact == RegistrySpec => UnloadExact
<1> DEFINE Exact == \A p \in Owner : UnregisterPlugin(p) =>
                      \A n \in Name \ shared :
                        /\ services'[n] = (IF services[n] = p THEN NoOne ELSE services[n])
                        /\ factories'[n] = (IF factories[n] = p THEN NoOne ELSE factories[n])
<1>1. RegistryTypeOK /\ OwnerKnown => Exact
  <2> SUFFICES ASSUME RegistryTypeOK, OwnerKnown, NEW p \in Owner, UnregisterPlugin(p),
                      NEW n \in Name \ shared
               PROVE  /\ services'[n] = (IF services[n] = p THEN NoOne ELSE services[n])
                      /\ factories'[n] = (IF factories[n] = p THEN NoOne ELSE factories[n])
    BY Zenon
  <2>1. /\ services'[n] = (IF meta[n] = p THEN NoOne ELSE services[n])
        /\ factories'[n] = (IF meta[n] = p THEN NoOne ELSE factories[n])
    BY DEF UnregisterPlugin, Without, Own
  <2>2. p # NoOne
    BY RegistryAssumption
  <2> QED
    BY <2>1, <2>2 DEF OwnerKnown, Taken
<1>2. RegistryTypeOK /\ OwnerKnown => [Exact]_registryVars
  BY <1>1
<1> QED
  BY <1>2, RegistryTyped, RegistryOwnerKnown, PTL DEF UnloadExact

\* The tables of the registry stay consistent: types, owners and alias chains.
THEOREM RegistrySafe == RegistrySpec => []RegistryInv
<1>1. RegistryTypeOK /\ OwnerKnown /\ GetEnds => RegistryInv
  BY DEF RegistryInv
<1> QED
  BY <1>1, RegistryTyped, RegistryOwnerKnown, RegistryGetEnds, PTL

-----------------------------------------------------------------------------
(* The event bus: lists *)

\* Positions can be listed by any priorities, equal ones in their order: the
\* k-th is the one that k - 1 others come before.
LEMMA SortedListing ==
  ASSUME NEW n \in Nat, NEW T \in SUBSET (1..n), NEW P \in [T -> Nat]
  PROVE  \E o \in SetToSeqs(T) : \A j, k \in DOMAIN o :
           j < k => P[o[j]] < P[o[k]] \/ (P[o[j]] = P[o[k]] /\ o[j] < o[k])
<1> DEFINE Before(i, j) == P[i] < P[j] \/ (P[i] = P[j] /\ i < j)
           Prior(i) == {j \in T : Before(j, i)}
           c == Cardinality(T)
<1>1. IsFiniteSet(T) /\ c \in Nat
  <2>1. IsFiniteSet(1..n)
    BY FS_Interval
  <2> QED  BY <2>1, FS_Subset, FS_CardinalityType
<1>2. \A i \in T : i \in Nat /\ P[i] \in Nat
  OBVIOUS
<1>3. /\ \A i \in T : ~Before(i, i)
      /\ \A i, j \in T : i # j => Before(i, j) \/ Before(j, i)
      /\ \A i, j, k \in T : Before(i, j) /\ Before(j, k) => Before(i, k)
  BY <1>2
<1> HIDE DEF Before
<1>4. ASSUME NEW i \in T
      PROVE  IsFiniteSet(Prior(i)) /\ Cardinality(Prior(i)) \in Nat /\ Cardinality(Prior(i)) < c
  <2>1. Prior(i) \in SUBSET T /\ i \notin Prior(i)
    BY <1>3
  <2>2. IsFiniteSet(Prior(i)) /\ Cardinality(Prior(i)) <= c /\ c # Cardinality(Prior(i))
    <3> HIDE DEF Prior
    <3> QED  BY <2>1, <1>1, FS_Subset
  <2>3. Cardinality(Prior(i)) \in Nat
    BY <2>2, FS_CardinalityType
  <2> HIDE DEF c, Prior
  <2> QED  BY <2>2, <2>3, <1>1
<1>5. ASSUME NEW i \in T, NEW j \in T, Before(i, j)
      PROVE  Cardinality(Prior(i)) < Cardinality(Prior(j))
  <2>1. Prior(i) \in SUBSET Prior(j)
    BY <1>3, <1>5
  <2>2. i \in Prior(j) /\ i \notin Prior(i)
    BY <1>3, <1>5
  <2> HIDE DEF Prior
  <2>3. Cardinality(Prior(i)) <= Cardinality(Prior(j)) /\ Cardinality(Prior(i)) # Cardinality(Prior(j))
    BY <2>1, <2>2, <1>4, FS_Subset
  <2> QED  BY <2>3, <1>4
<1> DEFINE rank == [i \in T |-> Cardinality(Prior(i)) + 1]
<1>6. \A i \in T : rank[i] \in 1..c /\ rank[i] = Cardinality(Prior(i)) + 1
  <2> HIDE DEF Prior, c
  <2> QED  BY <1>1, <1>4
<1>7. \A i, j \in T : Before(i, j) => rank[i] < rank[j]
  <2> HIDE DEF Prior, rank
  <2> QED  BY <1>4, <1>5, <1>6
<1>8. \A i, j \in T : rank[i] = rank[j] => i = j
  <2>1. \A i \in T : rank[i] \in Nat
    <3> HIDE DEF Prior, rank
    <3> QED  BY <1>4, <1>6
  <2> HIDE DEF rank
  <2> QED  BY <2>1, <1>3, <1>7
<1>9. rank \in Injection(T, 1..c)
  <2>1. rank \in [T -> 1..c]
    BY <1>6
  <2>2. IsInjective(rank)
    BY <1>8 DEF IsInjective
  <2> HIDE DEF rank, c
  <2> QED  BY <2>1, <2>2 DEF Injection
<1>10. rank \in Surjection(T, 1..c)
  <2>1. IsFiniteSet(1..c) /\ Cardinality(1..c) = c
    <3> HIDE DEF c
    <3> QED  BY <1>1, FS_Interval
  <2> HIDE DEF rank
  <2> QED  BY <2>1, <1>9, FS_Injection
<1> DEFINE o == [r \in 1..c |-> CHOOSE i \in T : rank[i] = r]
<1>11. \A r \in 1..c : o[r] \in T /\ rank[o[r]] = r
  <2>1. \A r \in 1..c : \E i \in T : rank[i] = r
    <3> HIDE DEF rank
    <3> QED  BY <1>10 DEF Surjection
  <2> HIDE DEF rank
  <2> QED  BY <2>1
<1>12. DOMAIN o = 1..c /\ o \in [1..c -> T]
  <2> HIDE DEF rank
  <2> QED  BY <1>11
<1> HIDE DEF o, rank
<1>13. o \in SetToSeqs(T)
  BY <1>11, <1>12 DEF SetToSeqs
<1>14. \A j, k \in 1..c : j < k => Before(o[j], o[k])
  <2> SUFFICES ASSUME NEW j \in 1..c, NEW k \in 1..c, j < k PROVE Before(o[j], o[k])
    OBVIOUS
  <2>1. o[j] # o[k] /\ ~(k < j)
    BY <1>11, <1>1
  <2>2. ~Before(o[k], o[j])
    BY <2>1, <1>7, <1>11
  <2> QED  BY <2>1, <2>2, <1>3, <1>11
<1> QED
  BY <1>12, <1>13, <1>14 DEF Before

\* A listing of a finite set of positions has every element of it.
LEMMA ListingOnto ==
  ASSUME NEW n \in Nat, NEW T \in SUBSET (1..n), NEW o \in SetToSeqs(T)
  PROVE  /\ Cardinality(T) \in Nat /\ o \in [1..Cardinality(T) -> T]
         /\ \A i, j \in 1..Cardinality(T) : i # j => o[i] # o[j]
         /\ \A x \in T : \E i \in 1..Cardinality(T) : o[i] = x
<1> DEFINE c == Cardinality(T)
<1>1. IsFiniteSet(T) /\ c \in Nat
  <2>1. IsFiniteSet(1..n)
    BY FS_Interval
  <2> QED  BY <2>1, FS_Subset, FS_CardinalityType
<1>2. o \in [1..c -> T] /\ \A i, j \in 1..c : i # j => o[i] # o[j]
  BY DEF SetToSeqs
<1>3. o \in Injection(1..c, T)
  BY <1>2 DEF Injection, IsInjective
<1>4. Cardinality(1..c) = c
  <2> HIDE DEF c
  <2> QED  BY <1>1, FS_Interval
<1>5. o \in Surjection(1..c, T)
  BY <1>1, <1>3, <1>4, FS_Injection
<1> QED
  BY <1>1, <1>2, <1>5 DEF Surjection

\* A listing of all positions.
LEMMA ListingAll ==
  ASSUME NEW n \in Nat, NEW o \in SetToSeqs(1..n)
  PROVE  /\ o \in [1..n -> 1..n]
         /\ \A i, j \in 1..n : i # j => o[i] # o[j]
         /\ \A x \in 1..n : \E i \in 1..n : o[i] = x
<1>1. IsFiniteSet(1..n) /\ Cardinality(1..n) = n
  BY FS_Interval
<1>2. o \in [1..n -> 1..n] /\ \A i, j \in 1..n : i # j => o[i] # o[j]
  BY <1>1 DEF SetToSeqs
<1>3. o \in Injection(1..n, 1..n)
  BY <1>2 DEF Injection, IsInjective
<1>4. o \in Surjection(1..n, 1..n)
  BY <1>1, <1>3, FS_Injection
<1> QED
  BY <1>2, <1>4 DEF Surjection

\* Its values are the values at all positions.
LEMMA SameValues ==
  ASSUME NEW D, NEW s, NEW o, \A k \in D : o[k] \in D, \A x \in D : \E i \in D : o[i] = x
  PROVE  {s[o[k]] : k \in D} = {s[k] : k \in D}
OBVIOUS

\* list.sort (EventBus.subscribe, EventBus._deliver): the same elements, by
\* priority.
LEMMA SortFacts ==
  ASSUME NEW subs \in Seq(Sub), IsInjective(subs)
  PROVE  /\ ByPriority(subs) \in Seq(Sub) /\ Len(ByPriority(subs)) = Len(subs)
         /\ IsInjective(ByPriority(subs))
         /\ ToSet(ByPriority(subs)) = ToSet(subs)
         /\ \A i, j \in DOMAIN ByPriority(subs) :
              i < j => Priority[ByPriority(subs)[i]] <= Priority[ByPriority(subs)[j]]
<1> DEFINE n == Len(subs)
           P == [i \in 1..n |-> Priority[subs[i]]]
           Sorted(o) == \A j, k \in DOMAIN o :
                          j < k => \/ Priority[subs[o[j]]] < Priority[subs[o[k]]]
                                   \/ Priority[subs[o[j]]] = Priority[subs[o[k]]] /\ o[j] < o[k]
           o == CHOOSE x \in SetToSeqs(DOMAIN subs) : Sorted(x)
<1>1. n \in Nat /\ DOMAIN subs = 1..n /\ \A i \in 1..n : subs[i] \in Sub
  BY ElementOfSeq
<1>2. P \in [1..n -> Nat] /\ \A i \in 1..n : P[i] = Priority[subs[i]]
  BY <1>1, EventBusAssumption
<1>3. Cardinality(1..n) = n
  <2> HIDE DEF n
  <2> QED  BY <1>1, FS_Interval
<1>4. \E x \in SetToSeqs(1..n) : Sorted(x)
  <2>1. PICK x \in SetToSeqs(1..n) : \A j, k \in DOMAIN x :
           j < k => P[x[j]] < P[x[k]] \/ (P[x[j]] = P[x[k]] /\ x[j] < x[k])
    <3> HIDE DEF P, n
    <3> QED  BY <1>1, <1>2, SortedListing
  <2>2. x \in [1..n -> 1..n]
    BY <1>1, <1>3, ListingOnto
  <2>3. DOMAIN x = 1..n /\ \A j \in 1..n : x[j] \in 1..n /\ P[x[j]] = Priority[subs[x[j]]]
    <3> HIDE DEF P, n
    <3> QED  BY <1>2, <2>2
  <2>4. Sorted(x)
    <3> HIDE DEF P, n
    <3> QED  BY <2>1, <2>3
  <2> HIDE DEF Sorted, P, n
  <2> QED  BY <2>4
<1>5. o \in SetToSeqs(1..n) /\ Sorted(o)
  <2>1. \E x \in SetToSeqs(DOMAIN subs) : Sorted(x)
    BY <1>1, <1>4
  <2> HIDE DEF Sorted, n
  <2>2. o \in SetToSeqs(DOMAIN subs) /\ Sorted(o)
    BY <2>1, Zenon
  <2> QED  BY <2>2, <1>1
<1>6. /\ o \in [1..n -> 1..n]
      /\ \A i, j \in 1..n : i # j => o[i] # o[j]
      /\ \A x \in 1..n : \E i \in 1..n : o[i] = x
  <2> HIDE DEF o, n, Sorted
  <2>1. o \in SetToSeqs(1..n)
    BY <1>5
  <2> QED  BY <1>1, <2>1, ListingAll
<1>7. ByPriority(subs) = [k \in DOMAIN subs |-> subs[o[k]]]
  BY DEF ByPriority
<1>8. Sorted(o)
  BY <1>5
<1> DEFINE b == [k \in 1..n |-> subs[o[k]]]
<1>9. ByPriority(subs) = b
  BY <1>1, <1>7
<1> HIDE DEF o, n
<1>10. b \in Seq(Sub) /\ Len(b) = n /\ DOMAIN b = 1..n /\ \A k \in 1..n : b[k] = subs[o[k]]
  BY <1>1, <1>6
<1> HIDE DEF b
<1>11. IsInjective(b)
  <2>1. \A i, j \in 1..n : subs[i] = subs[j] => i = j
    BY <1>1 DEF IsInjective
  <2>2. ASSUME NEW i \in 1..n, NEW j \in 1..n, b[i] = b[j] PROVE i = j
    <3>1. o[i] \in 1..n /\ o[j] \in 1..n
      BY <1>6
    <3>2. subs[o[i]] = subs[o[j]]
      BY <1>10, <2>2
    <3>3. o[i] = o[j]
      BY <2>1, <3>1, <3>2
    <3> QED  BY <3>3, <1>6
  <2> QED  BY <1>10, <2>2 DEF IsInjective
<1>12. ToSet(b) = ToSet(subs)
  <2>1. ToSet(b) = {subs[o[k]] : k \in 1..n}
    BY <1>10 DEF ToSet
  <2>2. ToSet(subs) = {subs[k] : k \in 1..n}
    BY <1>1 DEF ToSet
  <2>3. {subs[o[k]] : k \in 1..n} = {subs[k] : k \in 1..n}
    <3> DEFINE D == 1..n
    <3>1. (\A k \in D : o[k] \in D) /\ \A x \in D : \E i \in D : o[i] = x
      BY <1>6
    <3> HIDE DEF D
    <3>2. {subs[o[k]] : k \in D} = {subs[k] : k \in D}
      BY <3>1, SameValues
    <3> QED  BY <3>2 DEF D
  <2> QED  BY <2>1, <2>2, <2>3
<1>13. \A i, j \in 1..n : i < j => Priority[b[i]] <= Priority[b[j]]
  <2> SUFFICES ASSUME NEW i \in 1..n, NEW j \in 1..n, i < j PROVE Priority[b[i]] <= Priority[b[j]]
    OBVIOUS
  <2>1. Priority[subs[o[i]]] \in Nat /\ Priority[subs[o[j]]] \in Nat
    BY <1>1, <1>6, EventBusAssumption
  <2>2. Priority[subs[o[i]]] < Priority[subs[o[j]]] \/ Priority[subs[o[i]]] = Priority[subs[o[j]]]
    BY <1>8, <1>6
  <2> QED  BY <2>1, <2>2, <1>10
<1> QED
  BY <1>9, <1>10, <1>11, <1>12, <1>13 DEF n

\* A list comprehension (EventBus.unsubscribe_plugin): what is left.
LEMMA ExceptFacts ==
  ASSUME NEW X, NEW subs \in Seq(X), IsInjective(subs), NEW S
  PROVE  /\ Except(subs, S) \in Seq(X)
         /\ IsInjective(Except(subs, S))
         /\ ToSet(Except(subs, S)) = ToSet(subs) \ S
<1> DEFINE n == Len(subs)
           T == {i \in DOMAIN subs : subs[i] \notin S}
           Rising(o) == \A j, k \in DOMAIN o : j < k => o[j] < o[k]
           o == CHOOSE x \in SetToSeqs(T) : Rising(x)
           c == Cardinality(T)
<1>1. n \in Nat /\ DOMAIN subs = 1..n /\ \A i \in 1..n : subs[i] \in X
  BY ElementOfSeq
<1>2. T \in SUBSET (1..n) /\ \A i \in 1..n : i \in T <=> subs[i] \notin S
  BY <1>1
<1>3. \E x \in SetToSeqs(T) : Rising(x)
  <2> DEFINE Z == [i \in T |-> 0]
  <2>1. Z \in [T -> Nat] /\ \A i \in T : Z[i] = 0
    OBVIOUS
  <2> HIDE DEF Z, n, T
  <2>2. PICK x \in SetToSeqs(T) : \A j, k \in DOMAIN x :
           j < k => Z[x[j]] < Z[x[k]] \/ (Z[x[j]] = Z[x[k]] /\ x[j] < x[k])
    BY <1>1, <1>2, <2>1, SortedListing
  <2>3. x \in [1..Cardinality(T) -> T]
    BY <1>1, <1>2, ListingOnto
  <2>4. \A j \in DOMAIN x : x[j] \in T
    BY <2>3
  <2> QED  BY <2>1, <2>2, <2>4
<1>4. o \in SetToSeqs(T)
  BY <1>3
<1>5. /\ c \in Nat /\ o \in [1..c -> T]
      /\ \A i, j \in 1..c : i # j => o[i] # o[j]
      /\ \A x \in T : \E i \in 1..c : o[i] = x
  <2> HIDE DEF o, T, n
  <2> QED  BY <1>1, <1>2, <1>4, ListingOnto
<1> DEFINE b == [k \in DOMAIN o |-> subs[o[k]]]
<1>6. Except(subs, S) = b
  BY DEF Except
<1> HIDE DEF o, c, T, n
<1>7. b \in Seq(X) /\ DOMAIN b = 1..c /\ \A k \in 1..c : b[k] = subs[o[k]]
  <2>1. \A k \in 1..c : o[k] \in T /\ o[k] \in DOMAIN subs /\ subs[o[k]] \in X
    BY <1>1, <1>2, <1>5
  <2>2. DOMAIN b = 1..c /\ \A k \in 1..c : b[k] = subs[o[k]]
    BY <1>5
  <2>3. b \in [1..c -> X]
    BY <2>1, <1>5
  <2> HIDE DEF b
  <2> QED  BY <2>2, <2>3, <1>5
<1> HIDE DEF b
<1>8. IsInjective(b)
  <2> SUFFICES ASSUME NEW i \in 1..c, NEW j \in 1..c, b[i] = b[j] PROVE i = j
    BY <1>7 DEF IsInjective
  <2>1. o[i] \in DOMAIN subs /\ o[j] \in DOMAIN subs
    BY <1>1, <1>2, <1>5
  <2>2. o[i] = o[j]
    BY <2>1, <1>7 DEF IsInjective
  <2> QED  BY <2>2, <1>5
<1>9. ToSet(b) = ToSet(subs) \ S
  <2>1. ASSUME NEW y \in ToSet(b) PROVE y \in ToSet(subs) \ S
    <3>1. PICK k \in 1..c : b[k] = y
      BY <1>7 DEF ToSet
    <3>2. o[k] \in T
      BY <1>5
    <3>3. o[k] \in DOMAIN subs /\ subs[o[k]] \notin S
      BY <3>2, <1>1, <1>2
    <3> QED  BY <3>1, <3>3, <1>7 DEF ToSet
  <2>2. ASSUME NEW y \in ToSet(subs) \ S PROVE y \in ToSet(b)
    <3>1. PICK i \in 1..n : subs[i] = y
      BY <1>1 DEF ToSet
    <3>2. i \in T
      BY <3>1, <1>2
    <3> QED  BY <3>1, <3>2, <1>5, <1>7 DEF ToSet
  <2> QED  BY <2>1, <2>2
<1> QED
  BY <1>6, <1>7, <1>8, <1>9

-----------------------------------------------------------------------------
(* The event bus: the inductive invariant *)

Delivery ==
  [pc : {"new", "dropped", "started", "calling", "failed", "done"}, to : Seq(Sub), once : SUBSET OneShot]

BusTyped ==
  /\ named \in Seq(Sub \ Wild) /\ wild \in Seq(Wild) /\ fresh \in SUBSET Sub
  /\ thread \in [Event -> Delivery]
  /\ calls \in [Event -> Seq(Sub)] /\ steady \in [Event -> SUBSET Sub]
  /\ refused \in SUBSET Filtered /\ spent \in SUBSET OneShot /\ again \in SUBSET OneShot

(* A subscription is in the lists once, and not before it is made.         *)
BusLists == IsInjective(named) /\ IsInjective(wild) /\ fresh \cap Subscribed = {}

InOrderOf(s) == \A i, j \in DOMAIN s : i < j => Priority[s[i]] <= Priority[s[j]]

(* What is called and what is still to be called are one list by priority. *)
BusOrder ==
  \A e \in Event :
    /\ IsInjective(calls[e]) /\ IsInjective(thread[e].to)
    /\ InOrderOf(calls[e]) /\ InOrderOf(thread[e].to)
    /\ \A x \in ToSet(calls[e]), y \in ToSet(thread[e].to) : x # y /\ Priority[x] <= Priority[y]
    /\ thread[e].pc \in {"new", "dropped", "started"} =>
         calls[e] = <<>> /\ thread[e].to = <<>> /\ thread[e].once = {}

(* Who has stayed is on the list of the delivery until it is called.       *)
BusSteady ==
  \A e \in Event :
    /\ steady[e] \subseteq Subscribed
    /\ thread[e].pc = "calling" => steady[e] \subseteq ToSet(calls[e]) \cup ToSet(thread[e].to)
    /\ thread[e].pc = "done" => steady[e] \subseteq ToSet(calls[e])

(* A one-shot subscription is called by a delivery that has it among its   *)
(* once_subs; two deliveries have it only if they overlap or one failed.   *)
BusOnce ==
  \A e \in Event :
    /\ (ToSet(calls[e]) \cup ToSet(thread[e].to)) \cap OneShot \subseteq thread[e].once
    /\ thread[e].once \cap fresh = {}
    /\ thread[e].pc = "calling" => thread[e].once \subseteq refused \cup ToSet(calls[e]) \cup ToSet(thread[e].to)
    /\ thread[e].pc = "done" => thread[e].once \cap Subscribed = {}
    /\ thread[e].pc = "failed" => thread[e].once \subseteq again
    /\ \A d \in Event \ {e} : thread[e].once \cap thread[d].once \subseteq again

BusIInv == BusTyped /\ BusLists /\ BusOrder /\ BusSteady /\ BusOnce /\ OneShotNotLost

\* A subscription or a call is added at the end of a list.
LEMMA AppendFacts ==
  ASSUME NEW X, NEW s \in Seq(X), NEW x \in X, IsInjective(s), x \notin ToSet(s)
  PROVE  /\ Append(s, x) \in Seq(X)
         /\ IsInjective(Append(s, x)) /\ ToSet(Append(s, x)) = ToSet(s) \cup {x}
<1>1. /\ Len(s) \in Nat /\ DOMAIN s = 1..Len(s)
      /\ Append(s, x) \in Seq(X) /\ DOMAIN Append(s, x) = 1..(Len(s) + 1)
      /\ \A i \in 1..Len(s) : Append(s, x)[i] = s[i]
      /\ Append(s, x)[Len(s) + 1] = x
  BY AppendProperties
<1>2. \A i \in 1..(Len(s) + 1) : i \in 1..Len(s) \/ i = Len(s) + 1
  BY <1>1
<1>3. \A i \in 1..Len(s) : i \in 1..(Len(s) + 1) /\ s[i] # x /\ s[i] \in ToSet(s)
  BY <1>1 DEF ToSet
<1>4. IsInjective(Append(s, x))
  BY <1>1, <1>2, <1>3 DEF IsInjective
<1>5. Len(s) + 1 \in 1..(Len(s) + 1)
  BY <1>1
<1>6. ToSet(Append(s, x)) = ToSet(s) \cup {x}
  BY <1>1, <1>2, <1>3, <1>5 DEF ToSet
<1> QED
  BY <1>1, <1>4, <1>6

\* The first of a list is taken.
LEMMA TailFacts ==
  ASSUME NEW s \in Seq(Sub), s # <<>>, IsInjective(s), InOrderOf(s)
  PROVE  /\ Head(s) \in Sub /\ Tail(s) \in Seq(Sub)
         /\ IsInjective(Tail(s)) /\ InOrderOf(Tail(s))
         /\ ToSet(s) = {Head(s)} \cup ToSet(Tail(s))
         /\ \A y \in ToSet(Tail(s)) : y # Head(s) /\ Priority[Head(s)] <= Priority[y]
<1>1. /\ Len(s) \in Nat /\ Len(s) # 0 /\ DOMAIN s = 1..Len(s)
      /\ Head(s) = s[1] /\ Head(s) \in Sub /\ Tail(s) \in Seq(Sub)
      /\ Len(Tail(s)) = Len(s) - 1 /\ DOMAIN Tail(s) = 1..(Len(s) - 1)
      /\ \A i \in 1..(Len(s) - 1) : Tail(s)[i] = s[i + 1]
  BY HeadTailProperties, EmptySeq
<1>2. /\ 1 \in 1..Len(s)
      /\ \A i \in 1..(Len(s) - 1) : i + 1 \in 1..Len(s) /\ i + 1 # 1 /\ 1 < i + 1
      /\ \A i \in 1..Len(s) : i = 1 \/ \E j \in 1..(Len(s) - 1) : i = j + 1
      /\ \A i, j \in 1..(Len(s) - 1) : (i + 1 = j + 1 => i = j) /\ (i < j => i + 1 < j + 1)
  <2>1. \A i \in 1..Len(s) : i # 1 => i - 1 \in 1..(Len(s) - 1) /\ i = (i - 1) + 1
    BY <1>1
  <2>2. \A i \in 1..Len(s) : i = 1 \/ \E j \in 1..(Len(s) - 1) : i = j + 1
    BY <2>1
  <2>3. /\ 1 \in 1..Len(s)
        /\ \A i \in 1..(Len(s) - 1) : i + 1 \in 1..Len(s) /\ i + 1 # 1 /\ 1 < i + 1
        /\ \A i, j \in 1..(Len(s) - 1) : (i + 1 = j + 1 => i = j) /\ (i < j => i + 1 < j + 1)
    BY <1>1
  <2> QED  BY <2>2, <2>3
<1>3. IsInjective(Tail(s))
  <2> SUFFICES ASSUME NEW i \in 1..(Len(s) - 1), NEW j \in 1..(Len(s) - 1), s[i + 1] = s[j + 1]
               PROVE  i = j
    BY <1>1 DEF IsInjective
  <2> QED  BY <1>1, <1>2 DEF IsInjective
<1>4. InOrderOf(Tail(s))
  <2> SUFFICES ASSUME NEW i \in 1..(Len(s) - 1), NEW j \in 1..(Len(s) - 1), i < j
               PROVE  Priority[s[i + 1]] <= Priority[s[j + 1]]
    BY <1>1 DEF InOrderOf
  <2>1. i + 1 \in DOMAIN s /\ j + 1 \in DOMAIN s /\ i + 1 < j + 1
    BY <1>1, <1>2
  <2> QED  BY <2>1 DEF InOrderOf
<1>5. ToSet(s) = {Head(s)} \cup ToSet(Tail(s))
  <2>1. ASSUME NEW y \in ToSet(s) PROVE y \in {Head(s)} \cup ToSet(Tail(s))
    <3>1. PICK i \in 1..Len(s) : s[i] = y
      BY <1>1 DEF ToSet
    <3>2. CASE i = 1
      BY <3>1, <3>2, <1>1
    <3>3. CASE i # 1
      <4>1. PICK j \in 1..(Len(s) - 1) : i = j + 1
        BY <3>3, <1>2
      <4> QED  BY <3>1, <4>1, <1>1 DEF ToSet
    <3> QED  BY <3>2, <3>3
  <2>2. ASSUME NEW y \in {Head(s)} \cup ToSet(Tail(s)) PROVE y \in ToSet(s)
    BY <1>1, <1>2 DEF ToSet
  <2> QED  BY <2>1, <2>2
<1>6. ASSUME NEW y \in ToSet(Tail(s)) PROVE y # Head(s) /\ Priority[Head(s)] <= Priority[y]
  <2>1. PICK j \in 1..(Len(s) - 1) : s[j + 1] = y
    BY <1>1 DEF ToSet
  <2>2. 1 \in DOMAIN s /\ j + 1 \in DOMAIN s /\ 1 < j + 1 /\ j + 1 # 1
    BY <1>1, <1>2
  <2> QED  BY <2>1, <2>2, <1>1 DEF IsInjective, InOrderOf
<1> QED
  BY <1>1, <1>3, <1>4, <1>5, <1>6

\* What _deliver collects: everything subscribed, by priority.
LEMMA CollectedFacts ==
  ASSUME BusTyped, BusLists
  PROVE  /\ Collected \in Seq(Sub) /\ IsInjective(Collected)
         /\ ToSet(Collected) = Subscribed /\ InOrderOf(Collected)
<1> DEFINE s == named \o wild
<1>1. named \in Seq(Sub) /\ wild \in Seq(Sub)
  BY EventBusAssumption DEF BusTyped
<1>2. /\ s \in Seq(Sub) /\ Len(s) = Len(named) + Len(wild)
      /\ \A i \in 1..Len(named) : s[i] = named[i]
      /\ \A i \in 1..Len(wild) : s[Len(named) + i] = wild[i]
  <2>1. s \in Seq(Sub)
    BY <1>1, ConcatProperties
  <2> QED  BY <1>1, <2>1
<1>3. /\ Len(named) \in Nat /\ Len(wild) \in Nat /\ DOMAIN s = 1..(Len(named) + Len(wild))
      /\ DOMAIN named = 1..Len(named) /\ DOMAIN wild = 1..Len(wild)
  BY <1>1, <1>2
<1>4. /\ \A i \in 1..Len(named) : named[i] \notin Wild
      /\ \A i \in 1..Len(wild) : wild[i] \in Wild
  BY ElementOfSeq DEF BusTyped
<1> HIDE DEF s
<1>5. \A i \in DOMAIN s : i \in 1..Len(named) \/ \E k \in 1..Len(wild) : i = Len(named) + k
  <2> SUFFICES ASSUME NEW i \in DOMAIN s, i \notin 1..Len(named)
               PROVE  \E k \in 1..Len(wild) : i = Len(named) + k
    OBVIOUS
  <2>1. i - Len(named) \in 1..Len(wild) /\ i = Len(named) + (i - Len(named))
    BY <1>3
  <2> QED  BY <2>1
<1>6. IsInjective(s)
  <2> SUFFICES ASSUME NEW i \in DOMAIN s, NEW j \in DOMAIN s, s[i] = s[j] PROVE i = j
    BY DEF IsInjective
  <2>1. CASE i \in 1..Len(named) /\ j \in 1..Len(named)
    BY <2>1, <1>2, <1>3 DEF BusLists, IsInjective
  <2>2. ASSUME NEW k \in 1..Len(wild), i = Len(named) + k, NEW m \in 1..Len(wild), j = Len(named) + m
        PROVE  i = j
    BY <2>2, <1>2, <1>3 DEF BusLists, IsInjective
  <2>3. ASSUME i \in 1..Len(named), NEW m \in 1..Len(wild), j = Len(named) + m
        PROVE  i = j
    BY <2>3, <1>2, <1>4
  <2>4. ASSUME j \in 1..Len(named), NEW m \in 1..Len(wild), i = Len(named) + m
        PROVE  i = j
    BY <2>4, <1>2, <1>4
  <2> QED  BY <2>1, <2>2, <2>3, <2>4, <1>5
<1>7. ToSet(s) = Subscribed
  <2>1. ASSUME NEW y \in ToSet(s) PROVE y \in Subscribed
    <3>1. PICK i \in DOMAIN s : s[i] = y
      BY DEF ToSet
    <3>2. CASE i \in 1..Len(named)
      BY <3>1, <3>2, <1>2, <1>3 DEF ToSet, Subscribed
    <3>3. ASSUME NEW k \in 1..Len(wild), i = Len(named) + k PROVE y \in Subscribed
      BY <3>1, <3>3, <1>2, <1>3 DEF ToSet, Subscribed
    <3> QED  BY <3>2, <3>3, <1>5
  <2>2. ASSUME NEW y \in ToSet(named) PROVE y \in ToSet(s)
    <3>1. PICK i \in 1..Len(named) : named[i] = y
      BY <1>3 DEF ToSet
    <3>2. i \in DOMAIN s /\ s[i] = y
      BY <3>1, <1>2, <1>3
    <3> QED  BY <3>2 DEF ToSet
  <2>3. ASSUME NEW y \in ToSet(wild) PROVE y \in ToSet(s)
    <3>1. PICK i \in 1..Len(wild) : wild[i] = y
      BY <1>3 DEF ToSet
    <3>2. PICK k \in DOMAIN s : k = Len(named) + i
      BY <1>3
    <3> QED  BY <3>1, <3>2, <1>2 DEF ToSet
  <2> QED  BY <2>1, <2>2, <2>3 DEF Subscribed
<1> QED
  BY <1>2, <1>6, <1>7, SortFacts DEF Collected, s, InOrderOf

-----------------------------------------------------------------------------
(* The event bus: one lemma for each kind of step *)

\* Sorting a list after an append (EventBus.subscribe).
LEMMA SubscribeList ==
  ASSUME NEW X \in SUBSET Sub, NEW subs \in Seq(X), IsInjective(subs), NEW s \in X, s \notin ToSet(subs)
  PROVE  /\ ByPriority(Append(subs, s)) \in Seq(X) /\ IsInjective(ByPriority(Append(subs, s)))
         /\ ToSet(ByPriority(Append(subs, s))) = ToSet(subs) \cup {s}
<1>1. /\ Append(subs, s) \in Seq(X) /\ IsInjective(Append(subs, s))
      /\ ToSet(Append(subs, s)) = ToSet(subs) \cup {s}
  BY AppendFacts
<1> DEFINE a == Append(subs, s)
           b == ByPriority(a)
<1>2. a \in Seq(Sub)
  BY <1>1
<1> HIDE DEF a
<1>3. b \in Seq(Sub) /\ IsInjective(b) /\ ToSet(b) = ToSet(a)
  BY <1>1, <1>2, SortFacts DEF a
<1>4. ToSet(a) \subseteq X
  BY <1>1, ElementOfSeq DEF ToSet, a
<1>5. b \in Seq(X)
  <2> HIDE DEF b
  <2>1. DOMAIN b = 1..Len(b) /\ \A k \in DOMAIN b : b[k] \in ToSet(b)
    BY <1>3 DEF ToSet
  <2>2. \A k \in 1..Len(b) : b[k] \in X
    BY <2>1, <1>3, <1>4
  <2> QED  BY <1>3, <2>2
<1> QED
  BY <1>1, <1>3, <1>5 DEF a

\* subscribe.
LEMMA SubscribeStep ==
  ASSUME BusIInv, NEW s \in Sub, Subscribe(s)
  PROVE  BusIInv'
<1> USE DEF BusIInv
<1>1. s \in fresh /\ s \notin ToSet(named) /\ s \notin ToSet(wild)
  BY DEF Subscribe, BusLists, Subscribed
<1>2. /\ named' \in Seq(Sub \ Wild) /\ wild' \in Seq(Wild)
      /\ IsInjective(named') /\ IsInjective(wild')
      /\ Subscribed' = Subscribed \cup {s}
  <2>1. CASE s \in Wild
    <3>1. Wild \in SUBSET Sub /\ wild \in Seq(Wild) /\ IsInjective(wild)
      BY EventBusAssumption DEF BusTyped, BusLists
    <3>2. wild' = ByPriority(Append(wild, s)) /\ named' = named
      BY <2>1 DEF Subscribe
    <3> QED  BY <2>1, <3>1, <3>2, <1>1, SubscribeList DEF Subscribed, BusTyped, BusLists
  <2>2. CASE s \notin Wild
    <3>1. Sub \ Wild \in SUBSET Sub /\ named \in Seq(Sub \ Wild) /\ IsInjective(named) /\ s \in Sub \ Wild
      BY <2>2 DEF BusTyped, BusLists
    <3>2. named' = ByPriority(Append(named, s)) /\ wild' = wild
      BY <2>2 DEF Subscribe
    <3> QED  BY <3>1, <3>2, <1>1, SubscribeList DEF Subscribed, BusTyped, BusLists
  <2> QED  BY <2>1, <2>2
<1>3. /\ fresh' = fresh \ {s} /\ UNCHANGED <<thread, calls, steady, refused, spent, again>>
  BY DEF Subscribe
<1>4. BusTyped'
  BY <1>2, <1>3 DEF BusTyped
<1>5. BusLists'
  BY <1>1, <1>2, <1>3 DEF BusLists
<1>6. BusOrder'
  BY <1>3 DEF BusOrder, InOrderOf
<1>7. BusSteady'
  BY <1>2, <1>3 DEF BusSteady
<1>8. BusOnce'
  BY <1>1, <1>2, <1>3 DEF BusOnce
<1>9. OneShotNotLost'
  BY <1>3 DEF OneShotNotLost
<1> QED
  BY <1>4, <1>5, <1>6, <1>7, <1>8, <1>9

\* Subscriptions leave the lists: what is left.
LEMMA TakeOutLists ==
  ASSUME BusTyped, BusLists, NEW S, TakeOut(S)
  PROVE  /\ named' \in Seq(Sub \ Wild) /\ wild' \in Seq(Wild)
         /\ IsInjective(named') /\ IsInjective(wild')
         /\ Subscribed' = Subscribed \ S
         /\ steady' \in [Event -> SUBSET Sub] /\ \A e \in Event : steady'[e] = steady[e] \ S
<1>1. named \in Seq(Sub \ Wild) /\ IsInjective(named) /\ named' = Except(named, S)
  BY DEF BusTyped, BusLists, TakeOut
<1>2. wild \in Seq(Wild) /\ IsInjective(wild) /\ wild' = Except(wild, S)
  BY DEF BusTyped, BusLists, TakeOut
<1>3. named' \in Seq(Sub \ Wild) /\ IsInjective(named') /\ ToSet(named') = ToSet(named) \ S
  BY <1>1, ExceptFacts
<1>4. wild' \in Seq(Wild) /\ IsInjective(wild') /\ ToSet(wild') = ToSet(wild) \ S
  BY <1>2, ExceptFacts
<1>5. steady' \in [Event -> SUBSET Sub] /\ \A e \in Event : steady'[e] = steady[e] \ S
  BY DEF TakeOut, BusTyped
<1> QED
  BY <1>3, <1>4, <1>5 DEF Subscribed

\* unsubscribe, unsubscribe_plugin and clear.
LEMMA TakeOutStep ==
  ASSUME BusIInv, NEW S, TakeOut(S), UNCHANGED <<fresh, thread, calls, refused, spent, again>>
  PROVE  BusIInv'
<1> USE DEF BusIInv
<1>1. /\ named' \in Seq(Sub \ Wild) /\ wild' \in Seq(Wild)
      /\ IsInjective(named') /\ IsInjective(wild')
      /\ Subscribed' = Subscribed \ S
      /\ steady' \in [Event -> SUBSET Sub] /\ \A e \in Event : steady'[e] = steady[e] \ S
  BY TakeOutLists
<1>2. BusTyped'
  BY <1>1 DEF BusTyped
<1>3. BusLists'
  BY <1>1 DEF BusLists
<1>4. BusOrder'
  BY DEF BusOrder, InOrderOf
<1>5. BusSteady'
  BY <1>1 DEF BusSteady
<1>6. BusOnce'
  BY <1>1 DEF BusOnce
<1>7. OneShotNotLost'
  BY DEF OneShotNotLost
<1> QED
  BY <1>2, <1>3, <1>4, <1>5, <1>6, <1>7

\* publish: the delivery is not started, or takes note of who is there.
LEMMA PublishStep ==
  ASSUME BusIInv, NEW e \in Event, Drop(e) \/ Publish(e)
  PROVE  BusIInv'
<1> USE DEF BusIInv
<1>1. PICK pc \in {"dropped", "started"} : thread' = [thread EXCEPT ![e].pc = pc]
  BY DEF Drop, Publish
<1>2. /\ thread[e].pc = "new" /\ UNCHANGED <<named, wild, fresh, calls, refused, spent, again>>
      /\ \A d \in Event \ {e} : steady'[d] = steady[d]
      /\ steady'[e] \in {steady[e], Subscribed} /\ steady' \in [Event -> SUBSET Sub]
  <2>1. Subscribed \in SUBSET Sub
    BY EventBusAssumption, ElementOfSeq DEF BusTyped, Subscribed, ToSet
  <2> QED  BY <2>1 DEF Drop, Publish, BusTyped
<1>3. /\ thread' \in [Event -> Delivery]
      /\ thread'[e].pc = pc /\ thread'[e].to = thread[e].to /\ thread'[e].once = thread[e].once
      /\ \A d \in Event \ {e} : thread'[d] = thread[d]
  BY <1>1 DEF BusTyped, Delivery
<1>4. Subscribed' = Subscribed
  BY <1>2 DEF Subscribed
<1>5. BusTyped'
  BY <1>2, <1>3 DEF BusTyped
<1>6. BusLists'
  BY <1>2, <1>4 DEF BusLists
<1>7. BusOrder'
  BY <1>2, <1>3 DEF BusOrder, InOrderOf
<1>8. BusSteady'
  BY <1>2, <1>3, <1>4 DEF BusSteady
<1>9. BusOnce'
  BY <1>2, <1>3, <1>4 DEF BusOnce, BusOrder
<1>10. OneShotNotLost'
  BY <1>2 DEF OneShotNotLost
<1> QED
  BY <1>5, <1>6, <1>7, <1>8, <1>9, <1>10

\* _deliver collects.
LEMMA CollectStep ==
  ASSUME BusIInv, NEW e \in Event, Collect(e)
  PROVE  BusIInv'
<1> USE DEF BusIInv
<1>1. /\ Collected \in Seq(Sub) /\ IsInjective(Collected)
      /\ ToSet(Collected) = Subscribed /\ InOrderOf(Collected)
  BY CollectedFacts
<1>2. /\ thread[e].pc = "started"
      /\ thread' = [thread EXCEPT ![e] = [pc |-> "calling", to |-> Collected, once |-> Subscribed \cap OneShot]]
      /\ again' = again \cup {s \in Subscribed \cap OneShot : Pending(s) # {}}
      /\ UNCHANGED <<named, wild, fresh, calls, steady, refused, spent>>
  BY <1>1 DEF Collect, Once
<1>3. /\ thread' \in [Event -> Delivery]
      /\ thread'[e].pc = "calling" /\ thread'[e].to = Collected /\ thread'[e].once = Subscribed \cap OneShot
      /\ \A d \in Event \ {e} : thread'[d] = thread[d]
  BY <1>1, <1>2 DEF BusTyped, Delivery
<1>4. Subscribed' = Subscribed
  BY <1>2 DEF Subscribed
<1>5. calls[e] = <<>> /\ thread[e].once = {} /\ ToSet(calls[e]) = {}
  BY <1>2 DEF BusOrder, ToSet
<1>6. BusTyped'
  BY <1>2, <1>3 DEF BusTyped
<1>7. BusLists'
  BY <1>2, <1>4 DEF BusLists
<1>8. BusOrder'
  BY <1>1, <1>2, <1>3, <1>5 DEF BusOrder, InOrderOf
<1>9. BusSteady'
  BY <1>1, <1>2, <1>3, <1>4 DEF BusSteady
<1>10. ASSUME NEW d \in Event \ {e}
       PROVE  Subscribed \cap OneShot \cap thread[d].once \subseteq again'
  <2> SUFFICES ASSUME NEW s \in Subscribed \cap OneShot, s \in thread[d].once PROVE s \in again'
    OBVIOUS
  <2>1. thread[d].pc \in {"calling", "failed"}
    BY DEF BusTyped, Delivery, BusOrder, BusOnce
  <2>2. CASE thread[d].pc = "calling"
    BY <2>2, <1>2 DEF Pending
  <2>3. CASE thread[d].pc = "failed"
    BY <2>3, <1>2 DEF BusOnce
  <2> QED  BY <2>1, <2>2, <2>3
<1>11. BusOnce'
  <2> SUFFICES ASSUME NEW d \in Event
      PROVE  /\ (ToSet(calls'[d]) \cup ToSet(thread'[d].to)) \cap OneShot \subseteq thread'[d].once
             /\ thread'[d].once \cap fresh' = {}
             /\ thread'[d].pc = "calling" => thread'[d].once \subseteq refused' \cup ToSet(calls'[d]) \cup ToSet(thread'[d].to)
             /\ thread'[d].pc = "done" => thread'[d].once \cap Subscribed' = {}
             /\ thread'[d].pc = "failed" => thread'[d].once \subseteq again'
             /\ \A c \in Event \ {d} : thread'[d].once \cap thread'[c].once \subseteq again'
    BY DEF BusOnce
  <2>1. CASE d = e
    <3>1. \A c \in Event \ {d} : thread'[d].once \cap thread'[c].once \subseteq again'
      BY <2>1, <1>3, <1>10
    <3> QED  BY <2>1, <3>1, <1>1, <1>2, <1>3, <1>4, <1>5 DEF BusLists
  <2>2. CASE d # e
    <3>1. \A c \in Event \ {d} : thread'[d].once \cap thread'[c].once \subseteq again'
      BY <2>2, <1>2, <1>3, <1>10 DEF BusOnce
    <3> QED  BY <2>2, <3>1, <1>2, <1>3, <1>4 DEF BusOnce
  <2> QED  BY <2>1, <2>2
<1>12. OneShotNotLost'
  BY <1>2 DEF OneShotNotLost
<1> QED
  BY <1>6, <1>7, <1>8, <1>9, <1>11, <1>12

\* A callback is run, or its filter says no.
LEMMA CallStep ==
  ASSUME BusIInv, NEW e \in Event, Call(e) \/ Skip(e)
  PROVE  BusIInv'
<1> USE DEF BusIInv
<1> DEFINE to == thread[e].to
           s == Head(thread[e].to)
<1>1. /\ to \in Seq(Sub) /\ to # <<>> /\ IsInjective(to) /\ InOrderOf(to)
      /\ thread[e].pc = "calling" /\ thread' = [thread EXCEPT ![e].to = Tail(@)]
      /\ UNCHANGED <<named, wild, fresh, spent, again>>
  BY DEF BusTyped, Delivery, BusOrder, Call, Skip
<1>2. /\ s \in Sub /\ Tail(to) \in Seq(Sub)
      /\ IsInjective(Tail(to)) /\ InOrderOf(Tail(to))
      /\ ToSet(to) = {s} \cup ToSet(Tail(to))
      /\ \A y \in ToSet(Tail(to)) : y # s /\ Priority[s] <= Priority[y]
  BY <1>1, TailFacts
<1>3. /\ thread' \in [Event -> Delivery]
      /\ thread'[e].pc = "calling" /\ thread'[e].to = Tail(to) /\ thread'[e].once = thread[e].once
      /\ \A d \in Event \ {e} : thread'[d] = thread[d]
  BY <1>1, <1>2 DEF BusTyped, Delivery
<1>4. Subscribed' = Subscribed
  BY <1>1 DEF Subscribed
<1> HIDE DEF to, s
<1>5. CASE Call(e)
  <2>1. calls' = [calls EXCEPT ![e] = Append(@, s)] /\ UNCHANGED <<steady, refused>>
    BY <1>5 DEF Call, s
  <2>2. calls[e] \in Seq(Sub) /\ IsInjective(calls[e]) /\ s \notin ToSet(calls[e])
    BY <1>2 DEF BusTyped, BusOrder, to
  <2>3. /\ Append(calls[e], s) \in Seq(Sub) /\ IsInjective(Append(calls[e], s))
        /\ ToSet(Append(calls[e], s)) = ToSet(calls[e]) \cup {s}
    BY <2>2, <1>2, AppendFacts
  <2>4. /\ calls' \in [Event -> Seq(Sub)] /\ calls'[e] = Append(calls[e], s)
        /\ \A d \in Event \ {e} : calls'[d] = calls[d]
    BY <2>1, <2>3 DEF BusTyped
  <2>5. InOrderOf(Append(calls[e], s))
    <3>1. /\ Len(calls[e]) \in Nat /\ DOMAIN calls[e] = 1..Len(calls[e])
          /\ DOMAIN Append(calls[e], s) = 1..(Len(calls[e]) + 1)
          /\ \A i \in 1..Len(calls[e]) : Append(calls[e], s)[i] = calls[e][i]
          /\ Append(calls[e], s)[Len(calls[e]) + 1] = s
      BY <2>2, <1>2, AppendProperties
    <3> SUFFICES ASSUME NEW i \in 1..(Len(calls[e]) + 1), NEW j \in 1..(Len(calls[e]) + 1), i < j
                 PROVE  Priority[Append(calls[e], s)[i]] <= Priority[Append(calls[e], s)[j]]
      BY <3>1 DEF InOrderOf
    <3>2. i \in 1..Len(calls[e]) /\ (j \in 1..Len(calls[e]) \/ j = Len(calls[e]) + 1)
      BY <3>1
    <3>3. CASE j \in 1..Len(calls[e])
      BY <3>1, <3>2, <3>3 DEF BusOrder, InOrderOf
    <3>4. CASE j = Len(calls[e]) + 1
      <4>1. calls[e][i] \in ToSet(calls[e]) /\ s \in ToSet(thread[e].to)
        BY <3>1, <3>2, <1>2 DEF ToSet, to
      <4>2. Priority[calls[e][i]] <= Priority[s]
        BY <4>1 DEF BusOrder
      <4> QED  BY <3>1, <3>2, <3>4, <4>2
    <3> QED  BY <3>2, <3>3, <3>4
  <2>6. BusTyped'
    BY <2>1, <2>4, <1>1, <1>3 DEF BusTyped
  <2>7. BusLists'
    BY <1>1, <1>4 DEF BusLists
  <2>8. BusOrder'
    <3>1. \A x \in ToSet(calls[e]) \cup {s}, y \in ToSet(Tail(to)) : x # y /\ Priority[x] <= Priority[y]
      BY <1>2 DEF BusOrder, to
    <3>2. /\ IsInjective(calls'[e]) /\ IsInjective(thread'[e].to)
          /\ InOrderOf(calls'[e]) /\ InOrderOf(thread'[e].to)
          /\ \A x \in ToSet(calls'[e]), y \in ToSet(thread'[e].to) : x # y /\ Priority[x] <= Priority[y]
      BY <3>1, <2>3, <2>4, <2>5, <1>2, <1>3
    <3> QED  BY <3>2, <2>4, <1>3, ZenonT(60) DEF BusOrder, InOrderOf
  <2>9. BusSteady'
    BY <2>1, <2>3, <2>4, <1>1, <1>2, <1>3, <1>4 DEF BusSteady, to
  <2>10. BusOnce'
    <3>1. ToSet(calls'[e]) \cup ToSet(thread'[e].to) = ToSet(calls[e]) \cup ToSet(thread[e].to)
      BY <2>3, <2>4, <1>2, <1>3 DEF to
    <3> QED  BY <3>1, <2>1, <2>4, <1>1, <1>3, <1>4 DEF BusOnce
  <2>11. OneShotNotLost'
    <3>1. \A d \in Event : ToSet(calls[d]) \subseteq ToSet(calls'[d])
      BY <2>3, <2>4
    <3> QED  BY <3>1, <2>1, <1>1 DEF OneShotNotLost
  <2> QED  BY <2>6, <2>7, <2>8, <2>9, <2>10, <2>11
<1>6. CASE Skip(e)
  <2>1. /\ s \in Filtered /\ refused' = refused \cup {s} /\ steady' = [steady EXCEPT ![e] = @ \ {s}]
        /\ UNCHANGED calls
    BY <1>6 DEF Skip, s
  <2>2. /\ steady' \in [Event -> SUBSET Sub] /\ steady'[e] = steady[e] \ {s}
        /\ \A d \in Event \ {e} : steady'[d] = steady[d]
    BY <2>1 DEF BusTyped
  <2>3. BusTyped'
    BY <2>1, <2>2, <1>1, <1>3 DEF BusTyped
  <2>4. BusLists'
    BY <1>1, <1>4 DEF BusLists
  <2>5. BusOrder'
    <3>1. /\ IsInjective(thread'[e].to) /\ InOrderOf(thread'[e].to)
          /\ \A x \in ToSet(calls[e]), y \in ToSet(thread'[e].to) : x # y /\ Priority[x] <= Priority[y]
      BY <1>2, <1>3 DEF BusOrder, to
    <3> QED  BY <3>1, <2>1, <1>3 DEF BusOrder, InOrderOf
  <2>6. BusSteady'
    BY <2>1, <2>2, <1>1, <1>2, <1>3, <1>4 DEF BusSteady, to
  <2>7. BusOnce'
    BY <2>1, <1>1, <1>2, <1>3, <1>4 DEF BusOnce, to
  <2>8. OneShotNotLost'
    BY <2>1, <1>1 DEF OneShotNotLost
  <2> QED  BY <2>3, <2>4, <2>5, <2>6, <2>7, <2>8
<1> QED
  BY <1>5, <1>6

\* A filter raises.
LEMMA FilterRaisesStep ==
  ASSUME BusIInv, NEW e \in Event, FilterRaises(e)
  PROVE  BusIInv'
<1> USE DEF BusIInv
<1>1. /\ thread[e].pc = "calling" /\ thread' = [thread EXCEPT ![e].pc = "failed"]
      /\ again' = again \cup thread[e].once
      /\ UNCHANGED <<named, wild, fresh, calls, steady, refused, spent>>
  BY DEF FilterRaises
<1>2. /\ thread' \in [Event -> Delivery]
      /\ thread'[e].pc = "failed" /\ thread'[e].to = thread[e].to /\ thread'[e].once = thread[e].once
      /\ \A d \in Event \ {e} : thread'[d] = thread[d]
  BY <1>1 DEF BusTyped, Delivery
<1>3. Subscribed' = Subscribed
  BY <1>1 DEF Subscribed
<1>4. BusTyped'
  BY <1>1, <1>2 DEF BusTyped, Delivery
<1>5. BusLists'
  BY <1>1, <1>3 DEF BusLists
<1>6. BusOrder'
  BY <1>1, <1>2 DEF BusOrder, InOrderOf
<1>7. BusSteady'
  BY <1>1, <1>2, <1>3 DEF BusSteady
<1>8. BusOnce'
  BY <1>1, <1>2, <1>3 DEF BusOnce
<1>9. OneShotNotLost'
  BY <1>1 DEF OneShotNotLost
<1> QED
  BY <1>4, <1>5, <1>6, <1>7, <1>8, <1>9

\* The end of _deliver.
LEMMA FinishStep ==
  ASSUME BusIInv, NEW e \in Event, Finish(e)
  PROVE  BusIInv'
<1> USE DEF BusIInv
<1>1. /\ thread[e].pc = "calling" /\ thread[e].to = <<>> /\ ToSet(thread[e].to) = {}
      /\ thread' = [thread EXCEPT ![e].pc = "done"]
      /\ spent' = spent \cup (thread[e].once \cap Subscribed)
      /\ UNCHANGED <<fresh, calls, refused, again>>
  BY DEF Finish, ToSet
<1>2. /\ named' \in Seq(Sub \ Wild) /\ wild' \in Seq(Wild)
      /\ IsInjective(named') /\ IsInjective(wild')
      /\ Subscribed' = Subscribed \ thread[e].once
      /\ steady' \in [Event -> SUBSET Sub] /\ \A d \in Event : steady'[d] = steady[d] \ thread[e].once
  BY TakeOutLists DEF Finish
<1>3. /\ thread' \in [Event -> Delivery]
      /\ thread'[e].pc = "done" /\ thread'[e].to = thread[e].to /\ thread'[e].once = thread[e].once
      /\ \A d \in Event \ {e} : thread'[d] = thread[d]
  BY <1>1 DEF BusTyped, Delivery
<1>4. BusTyped'
  BY <1>1, <1>2, <1>3 DEF BusTyped, Delivery
<1>5. BusLists'
  BY <1>1, <1>2 DEF BusLists
<1>6. BusOrder'
  BY <1>1, <1>3 DEF BusOrder, InOrderOf
<1>7. BusSteady'
  BY <1>1, <1>2, <1>3 DEF BusSteady
<1>8. BusOnce'
  BY <1>1, <1>2, <1>3 DEF BusOnce
<1>9. OneShotNotLost'
  <2>1. thread[e].once \subseteq refused \cup ToSet(calls[e])
    BY <1>1 DEF BusOnce
  <2> QED  BY <2>1, <1>1 DEF OneShotNotLost
<1> QED
  BY <1>4, <1>5, <1>6, <1>7, <1>8, <1>9

\* A bus without subscriptions and events not yet published.
LEMMA InitBusIInv == BusInit => BusIInv
<1> SUFFICES ASSUME BusInit PROVE BusIInv
  OBVIOUS
<1> USE DEF BusInit
<1>1. <<>> \in Seq(Sub \ Wild) /\ <<>> \in Seq(Wild) /\ <<>> \in Seq(Sub) /\ ToSet(<<>>) = {}
  BY DEF ToSet
<1>2. /\ thread \in [Event -> Delivery]
      /\ \A e \in Event : thread[e].pc = "new" /\ thread[e].to = <<>> /\ thread[e].once = {}
  BY <1>1 DEF Idle, Delivery
<1>3. IsInjective(<<>>) /\ InOrderOf(<<>>)
  BY DEF IsInjective, InOrderOf
<1>4. BusTyped
  BY <1>1, <1>2 DEF BusTyped
<1>5. Subscribed = {}
  BY <1>1 DEF Subscribed
<1>6. BusLists
  BY <1>3, <1>5 DEF BusLists
<1>7. BusOrder
  BY <1>1, <1>2, <1>3 DEF BusOrder
<1>8. BusSteady
  BY <1>2, <1>5 DEF BusSteady
<1>9. BusOnce
  BY <1>1, <1>2 DEF BusOnce
<1>10. OneShotNotLost
  BY DEF OneShotNotLost
<1> QED
  BY <1>4, <1>6, <1>7, <1>8, <1>9, <1>10 DEF BusIInv

\* Every step of the bus keeps the inductive invariant.
LEMMA NextBusIInv == BusIInv /\ [BusNext]_busVars => BusIInv'
<1> SUFFICES ASSUME BusIInv, [BusNext]_busVars PROVE BusIInv'
  OBVIOUS
<1>1. ASSUME NEW s \in Sub, Subscribe(s) PROVE BusIInv'
  BY <1>1, SubscribeStep
<1>2. ASSUME NEW s \in Sub, Unsubscribe(s) PROVE BusIInv'
  BY <1>2, TakeOutStep DEF Unsubscribe
<1>3. ASSUME NEW p, UnsubscribePlugin(p) PROVE BusIInv'
  BY <1>3, TakeOutStep DEF UnsubscribePlugin
<1>4. CASE ClearBus
  BY <1>4, TakeOutStep DEF ClearBus
<1>5. ASSUME NEW e \in Event, Drop(e) \/ Publish(e) PROVE BusIInv'
  BY <1>5, PublishStep
<1>6. ASSUME NEW e \in Event, Collect(e) PROVE BusIInv'
  BY <1>6, CollectStep
<1>7. ASSUME NEW e \in Event, Call(e) \/ Skip(e) PROVE BusIInv'
  BY <1>7, CallStep
<1>8. ASSUME NEW e \in Event, FilterRaises(e) PROVE BusIInv'
  BY <1>8, FilterRaisesStep
<1>9. ASSUME NEW e \in Event, Finish(e) PROVE BusIInv'
  BY <1>9, FinishStep
<1>10. CASE UNCHANGED busVars
  BY <1>10 DEF busVars, BusIInv, BusTyped, BusLists, BusOrder, BusSteady, BusOnce, OneShotNotLost,
               InOrderOf, Subscribed
<1> QED
  BY <1>1, <1>2, <1>3, <1>4, <1>5, <1>6, <1>7, <1>8, <1>9, <1>10 DEF BusNext

-----------------------------------------------------------------------------
(* The event bus: the theorems *)

\* The inductive invariant of EventBus (plugins/api.py).
THEOREM BusInvariant == BusSpec => []BusIInv
BY InitBusIInv, NextBusIInv, PTL DEF BusSpec

\* _deliver calls every subscription that was there from the publish on, once
\* and by priority across both lists, for any subscriptions and events.
THEOREM BusSafe == BusSpec => []BusInv
<1>1. BusIInv => BusInv
  <2> SUFFICES ASSUME BusIInv PROVE BusInv
    OBVIOUS
  <2> USE DEF BusIInv
  <2>1. BusTypeOK
    BY DEF BusTyped, Delivery, BusTypeOK
  <2>2. CalledInOrder
    BY DEF BusOrder, InOrderOf, CalledInOrder
  <2>3. SteadyServed
    BY DEF BusOrder, BusSteady, SteadyServed
  <2> QED  BY <2>1, <2>2, <2>3 DEF BusInv
<1> QED
  BY <1>1, BusInvariant, PTL

\* A one-shot subscription is not called twice unless deliveries overlap or a
\* filter raises, nor taken out uncalled unless its filter rejected the event.
THEOREM BusOneShots == BusSpec => []OneShotServed
<1>1. BusIInv => OneShotServed
  <2> SUFFICES ASSUME BusIInv PROVE OneShotServed
    OBVIOUS
  <2> USE DEF BusIInv
  <2>1. ASSUME NEW s \in OneShot \ again
        PROVE  Cardinality({e \in Event : s \in ToSet(calls[e])}) <= 1
    <3> DEFINE E == {e \in Event : s \in ToSet(calls[e])}
    <3>1. \A d, e \in E : d = e
      <4> SUFFICES ASSUME NEW d \in Event, NEW e \in Event, d # e,
                          s \in ToSet(calls[d]), s \in ToSet(calls[e])
                   PROVE  FALSE
        OBVIOUS
      <4>1. s \in thread[d].once /\ s \in thread[e].once
        BY DEF BusOnce
      <4> QED  BY <4>1 DEF BusOnce
    <3>2. CASE E = {}
      <4>1. Cardinality(E) = 0
        BY <3>2, FS_EmptySet
      <4> QED  BY <4>1
    <3>3. CASE E # {}
      <4>1. PICK d \in E : E = {d}
        BY <3>1, <3>3
      <4>2. Cardinality(E) = 1
        BY <4>1, FS_Singleton
      <4> QED  BY <4>2
    <3> QED  BY <3>2, <3>3
  <2> QED  BY <2>1 DEF OneShotServed, OneShotOnce
<1> QED
  BY <1>1, BusInvariant, PTL

-----------------------------------------------------------------------------
(* The plugin manager: the inductive invariant *)

(* What a frame stands for.                                                *)
Inside == {"need", "load", "make", "store"}

CleanOps == {"cleanup", "cleanupread", "cleanuprun", "cleanupend"}

Reading == {"startread", "startrun", "stopread", "stoprun", "cleanupread", "cleanuprun"}

AllOps == {"startall", "stopleft", "cleanupall", "startedon", "startedoff", "watch", "clear", "wipe"}

ObjectsOf(n) == {n} \X (1..MaxInst)

FrameOK(f) ==
  /\ f.op \in AllOps <=> f.n = All
  /\ f.op \in HasObject => f.i \in ObjectsOf(f.n)

DataTyped ==
  /\ registered \in SUBSET Plugin
  /\ plugins \in [Plugin -> Inst \cup {None}] /\ service \in [Plugin -> Inst \cup {None}]
  /\ \A n \in Plugin : {plugins[n], service[n]} \subseteq ObjectsOf(n) \cup {None}
  /\ phase \in [Inst -> Phase] /\ detached \in SUBSET Inst

SettingsTyped ==
  /\ known \in SUBSET Plugin /\ saved \in [Plugin -> Setting]
  /\ watched \in [Plugin -> {"no", "path", "hash", "empty"}]
  /\ watching \in BOOLEAN /\ started \in BOOLEAN

CountsTyped ==
  /\ mixed \in SUBSET Plugin
  /\ callCount \in 0..MaxCalls /\ faults \in 0..MaxFaults /\ scans \in 0..MaxScans

(* The place of a plugin in the load order.                                *)
Pos(n) == CHOOSE i \in DOMAIN LoadOrder : LoadOrder[i] = n

(* How the frames of a thread may follow each other: "unlock" ends the     *)
(* frames of load_plugin, which wait for it; an object is worked on first; *)
(* unload_plugin and cleanup_all_plugins clean up before they forget.      *)
UnlockAt(s, k) == s[k].op = "unlock" => \A j \in 1..(k - 1) : s[j].op \in Inside

InsideAt(s, k) ==
  s[k].op \in {"need", "make", "store"} => \E j \in 1..Len(s) : k < j /\ s[j].op = "unlock"

ObjectAt(s, k) == s[k].op \in HasObject => k = 1

PopAt(s, k) == s[k].op = "pop" /\ k > 1 => s[k - 1].op \in CleanOps /\ s[k - 1].n = s[k].n

CleanAt(s, k) ==
  s[k].op \in CleanOps =>
    \/ k + 1 \in 1..Len(s) /\ s[k + 1].op = "pop" /\ s[k + 1].n = s[k].n
    \/ \E j \in 1..Len(s) : k < j /\ s[j].op = "clear" /\ s[j - 1].op # "cleanupall"

ClearAt(s, k) ==
  s[k].op = "clear" => \/ \A j \in 1..(k - 1) : s[j].op \in CleanOps
                       \/ k > 1 /\ s[k - 1].op = "cleanupall"

CleanupAllAt(s, k) == s[k].op = "cleanupall" => k + 1 \in 1..Len(s) /\ s[k + 1].op = "clear"

WipeAt(s, k) == s[k].op = "wipe" /\ k > 1 => s[k - 1].op = "clear"

MakeAt(s, k) == s[k].op = "make" => \A j \in 1..(k - 1) : Pos(s[j].n) < Pos(s[k].n)

Shape(s) ==
  \A k \in 1..Len(s) :
    /\ UnlockAt(s, k) /\ InsideAt(s, k) /\ ObjectAt(s, k)
    /\ PopAt(s, k) /\ CleanAt(s, k) /\ ClearAt(s, k)
    /\ CleanupAllAt(s, k) /\ WipeAt(s, k) /\ MakeAt(s, k)

GoodStack(s) == s \in Seq(Frame) /\ (\A k \in 1..Len(s) : FrameOK(s[k])) /\ Shape(s)

HasUnlock(s) == \E k \in 1..Len(s) : s[k].op = "unlock"

(* The lock is held by the thread that is inside load_plugin.              *)
Stacks ==
  /\ lock \in Thread \cup {None} /\ todo \in [Thread -> Seq(Frame)]
  /\ \A t \in Thread : GoodStack(todo[t]) /\ (lock = t <=> HasUnlock(todo[t]))

(* The plugins that load_plugin is making objects for.                     *)
Making(s) == {n \in Plugin : \E k \in 1..Len(s) : s[k].op \in {"make", "store"} /\ s[k].n = n}

MadeRegistered == \A t \in Thread : Making(todo[t]) \subseteq registered

ManagerCore == DataTyped /\ SettingsTyped /\ Stacks /\ MadeRegistered /\ LoadedIsRegistered

ManagerIInv == ManagerCore /\ CountsTyped

(* No call about n is half done.                                           *)
Dead(n) == \A i \in ObjectsOf(n) : ~Live(i)

Settled(n) ==
  /\ plugins[n] # None => plugins[n] \notin detached /\ Live(plugins[n]) /\ service[n] = plugins[n]
  /\ \A i \in ObjectsOf(n) : Live(i) => plugins[n] = i
  /\ service[n] # None => service[n] = plugins[n] \/ phase[service[n]] = "failed"

(* Cleaned up, and perhaps still in _plugins.                              *)
Emptied(n) ==
  /\ Dead(n)
  /\ plugins[n] = None \/ plugins[n] \in detached
  /\ service[n] # None => phase[service[n]] = "failed"

(* Initialised and not yet in _plugins.                                    *)
Made(n, i) ==
  /\ plugins[n] = None /\ service[n] = i /\ i \notin detached /\ Live(i)
  /\ \A j \in ObjectsOf(n) : Live(j) => j = i

(* Cleaned up, with the descriptor not yet cleared.                        *)
Half(n, i) == plugins[n] = i /\ Dead(n) /\ service[n] = None

HeadIs(s, ops, n) == s # <<>> /\ s[1].op \in ops /\ s[1].n = n

(* cleanup_all_plugins has listed what it cleans up.                       *)
SweepAt(s, k) == s[k].op = "clear" /\ \A j \in 1..(k - 1) : s[j].op \in CleanOps

Sweep(s) == \E k \in 1..Len(s) : SweepAt(s, k)

(* The frames s of a thread explain why a call about n is half done.       *)
Explains(s, n) ==
  \/ HeadIs(s, {"store", "cleanupend"}, n)
  \/ Emptied(n) /\ (HeadIs(s, CleanOps \cup {"pop"}, n) \/ Sweep(s))

(* What a thread with the frames s may rely on when it goes on about n.    *)
Relies(s, n) ==
  /\ HeadIs(s, {"pop"}, n) => Emptied(n)
  /\ HeadIs(s, {"store"}, n) => Made(n, s[1].i)
  /\ HeadIs(s, {"cleanupend"}, n) => Half(n, s[1].i)
  /\ HeadIs(s, Reading, n) => s[1].i = plugins[n]
  /\ HeadIs(s, {"cleanuprun"}, n) => s[1].i \notin detached
  /\ HeadIs(s, {"wipe"}, All) => Settled(n) /\ plugins[n] = None
  /\ \A k \in 1..Len(s) :
       /\ SweepAt(s, k) => Emptied(n) \/ \E j \in 1..(k - 1) : s[j].n = n
       /\ s[k].op = "make" /\ s[k].n = n => plugins[n] = None

Accounted(n) == Settled(n) \/ \E t \in Thread : Explains(todo[t], n)

Whole == \A n \in Plugin \ mixed : Accounted(n) /\ \A t \in Thread : Relies(todo[t], n)

(* The plugins that no two threads ever worked on at the same time.        *)
WholeIInv == ManagerIInv /\ Overlap \subseteq mixed /\ Whole

(* A dependency is there, or will be before the plugin is stored.          *)
LoadComing(m) == \E t \in Thread : \E k \in 1..Len(todo[t]) : todo[t][k].op = "load" /\ todo[t][k].n = m

Provided(m) == plugins[m] # None \/ saved[m] = "off" \/ LoadComing(m)

Ahead(s, k, m) == \E j \in 1..(k - 1) : s[j].n = m /\ s[j].op \in Inside

DepsIn(s) ==
  \A k \in 1..Len(s) : s[k].op \in {"make", "store"} /\ s[k].n \notin mixed =>
    \A m \in Requires[s[k].n] : Provided(m) \/ Ahead(s, k, m)

DepsComing == \A t \in Thread : DepsIn(todo[t])

PluginIInv == WholeIInv /\ DepsComing

-----------------------------------------------------------------------------
(* The load order *)

\* A nonempty set of naturals has a least element.
LEMMA LeastNumber ==
  ASSUME NEW S \in SUBSET Nat, S # {}
  PROVE  Min(S) \in S /\ \A k \in S : Min(S) <= k
<1> DEFINE R == OpToRel(<, Nat)
<1>1. IsWellFoundedOn(R, Nat)
  BY NatLessThanWellFounded
<1>2. \E m \in S : \A k \in S : ~ (<<k, m>> \in R)
  <2> HIDE DEF R
  <2> QED  BY <1>1, WFMin
<1>3. PICK m \in S : \A k \in S : ~ (<<k, m>> \in R)
  BY <1>2
<1>4. \A k \in S : ~(k < m)
  BY <1>3 DEF OpToRel
<1>5. \E x \in S : \A y \in S : x <= y
  BY <1>4
<1> QED
  BY <1>5 DEF Min

\* Every plugin has its place in the load order, after what it requires.
LEMMA PosFacts ==
  /\ \A n \in Plugin : Pos(n) \in Nat
  /\ \A n \in Plugin : \A m \in Requires[n] : m \in Plugin /\ Pos(m) < Pos(n)
<1> DEFINE c == Cardinality(Plugin)
<1>1. IsFiniteSet(Plugin) /\ c \in Nat
  BY PluginAssumption, FS_CardinalityType
<1>2. LoadOrder \in [1..c -> Plugin] /\ \A i, j \in 1..c : i # j => LoadOrder[i] # LoadOrder[j]
  BY PluginAssumption DEF SetToSeqs
<1>3. LoadOrder \in Injection(1..c, Plugin)
  BY <1>2 DEF Injection, IsInjective
<1>4. Cardinality(1..c) = c
  <2> HIDE DEF c
  <2> QED  BY <1>1, FS_Interval
<1>5. LoadOrder \in Surjection(1..c, Plugin)
  BY <1>1, <1>3, <1>4, FS_Injection
<1>6. DOMAIN LoadOrder = 1..c
  BY <1>2
<1>7. \A n \in Plugin : \E i \in DOMAIN LoadOrder : LoadOrder[i] = n
  BY <1>5, <1>6 DEF Surjection
<1>8. \A n \in Plugin : Pos(n) \in DOMAIN LoadOrder /\ LoadOrder[Pos(n)] = n
  BY <1>7 DEF Pos
<1>9. ASSUME NEW n \in Plugin, NEW m \in Requires[n] PROVE m \in Plugin /\ Pos(m) < Pos(n)
  <2>1. m \in Plugin
    BY PluginAssumption
  <2> QED  BY <2>1, <1>8, PluginAssumption
<1> QED
  BY <1>1, <1>6, <1>8, <1>9

\* The dependencies the resolver finds: the required ones are among them, and
\* all come earlier in the load order.
LEMMA ReachFacts ==
  ASSUME NEW n \in Plugin
  PROVE  /\ Reach(n) \in SUBSET Plugin /\ Requires[n] \subseteq Reach(n)
         /\ \A m \in Reach(n) : Pos(m) < Pos(n)
<1>1. Reach(n) \in SUBSET Plugin
  BY DEF Reach
<1>2. Requires[n] \subseteq Reach(n)
  BY PluginAssumption DEF Reach
<1>3. ASSUME NEW m \in Reach(n) PROVE Pos(m) < Pos(n)
  <2> DEFINE S == {k \in Plugin : Pos(k) < Pos(n)}
  <2>1. S \in SUBSET Plugin
    OBVIOUS
  <2>2. Requires[n] \subseteq S
    BY PosFacts
  <2>3. \A k \in S : Requires[k] \subseteq S
    <3> SUFFICES ASSUME NEW k \in S, NEW l \in Requires[k] PROVE l \in S
      OBVIOUS
    <3>1. k \in Plugin /\ Pos(k) < Pos(n)
      OBVIOUS
    <3>2. l \in Plugin /\ Pos(l) < Pos(k)
      BY <3>1, PosFacts
    <3>3. Pos(l) \in Nat /\ Pos(k) \in Nat /\ Pos(n) \in Nat
      BY <3>1, <3>2, PosFacts
    <3>4. Pos(l) < Pos(n)
      BY <3>1, <3>2, <3>3
    <3> QED  BY <3>2, <3>4
  <2>4. m \in S
    <3> HIDE DEF S
    <3> QED  BY <2>1, <2>2, <2>3 DEF Reach
  <2> QED  BY <2>4
<1> QED
  BY <1>1, <1>2, <1>3

\* A listing of plugins has every one of them.
LEMMA ListingOf ==
  ASSUME NEW S \in SUBSET Plugin, NEW o \in SetToSeqs(S)
  PROVE  o \in Seq(S) /\ \A x \in S : \E i \in 1..Len(o) : o[i] = x
<1> DEFINE c == Cardinality(S)
<1>1. IsFiniteSet(S) /\ c \in Nat
  BY PluginAssumption, FS_Subset, FS_CardinalityType
<1>2. o \in [1..c -> S] /\ \A i, j \in 1..c : i # j => o[i] # o[j]
  BY DEF SetToSeqs
<1>3. o \in Injection(1..c, S)
  BY <1>2 DEF Injection, IsInjective
<1>4. Cardinality(1..c) = c
  <2> HIDE DEF c
  <2> QED  BY <1>1, FS_Interval
<1>5. o \in Surjection(1..c, S)
  BY <1>1, <1>3, <1>4, FS_Injection
<1>6. o \in Seq(S) /\ Len(o) = c
  <2> HIDE DEF c
  <2> QED  BY <1>1, <1>2
<1> QED
  BY <1>5, <1>6 DEF Surjection

-----------------------------------------------------------------------------
(* Lists of frames *)

(* r is s without its first c frames.                                      *)
Suffix(r, s, c) ==
  /\ r \in Seq(Frame) /\ s \in Seq(Frame) /\ c \in 0..Len(s) /\ Len(r) = Len(s) - c
  /\ \A k \in 1..Len(r) : r[k] = s[k + c]

(* r has the frames new in place of the first of s.                        *)
Pushed(r, new, s) ==
  /\ r \in Seq(Frame) /\ new \in Seq(Frame) /\ s \in Seq(Frame) /\ s # <<>>
  /\ Len(r) = Len(new) + Len(s) - 1
  /\ \A k \in 1..Len(new) : r[k] = new[k]
  /\ \A k \in 2..Len(s) : r[k + Len(new) - 1] = s[k]

\* Lists of frames and their lengths.
LEMMA StackFacts ==
  ASSUME NEW s \in Seq(Frame)
  PROVE  /\ Len(s) \in Nat /\ DOMAIN s = 1..Len(s) /\ (s = <<>> <=> Len(s) = 0)
         /\ \A k \in 1..Len(s) : s[k] \in Frame
BY EmptySeq, ElementOfSeq

\* The first frame is taken away.
LEMMA TailIsSuffix ==
  ASSUME NEW s \in Seq(Frame), s # <<>>
  PROVE  Suffix(Tail(s), s, 1)
<1>1. Len(s) \in Nat /\ Len(s) # 0
  BY StackFacts
<1>2. Tail(s) \in Seq(Frame) /\ Len(Tail(s)) = Len(s) - 1 /\ \A k \in 1..Len(Tail(s)) : Tail(s)[k] = s[k + 1]
  BY HeadTailProperties
<1>3. 1 \in 0..Len(s)
  BY <1>1
<1> QED
  BY <1>2, <1>3 DEF Suffix

\* Frames take the place of the first.
LEMMA ConcatIsPushed ==
  ASSUME NEW s \in Seq(Frame), s # <<>>, NEW new \in Seq(Frame)
  PROVE  Pushed(new \o Tail(s), new, s)
<1> DEFINE z == Tail(s)
           r == new \o z
<1>1. Len(s) \in Nat /\ Len(s) # 0 /\ Len(new) \in Nat
  BY StackFacts
<1>2. z \in Seq(Frame) /\ Len(z) = Len(s) - 1 /\ \A k \in 1..Len(z) : z[k] = s[k + 1]
  BY HeadTailProperties
<1> HIDE DEF z
<1>3. r \in Seq(Frame) /\ Len(r) = Len(new) + Len(z)
  BY <1>2, ConcatProperties
<1>4. \A k \in 1..Len(new) : r[k] = new[k]
  BY <1>2
<1>5. \A k \in 1..Len(z) : r[Len(new) + k] = z[k]
  BY <1>2
<1>6. ASSUME NEW k \in 2..Len(s) PROVE r[k + Len(new) - 1] = s[k]
  <2> HIDE DEF r
  <2>1. k - 1 \in 1..Len(z) /\ Len(new) + (k - 1) = k + Len(new) - 1 /\ (k - 1) + 1 = k
    BY <1>1, <1>2
  <2>2. r[Len(new) + (k - 1)] = z[k - 1] /\ z[k - 1] = s[(k - 1) + 1]
    BY <2>1, <1>2, <1>5
  <2> QED  BY <2>1, <2>2
<1> HIDE DEF r
<1>7. Len(r) = Len(new) + Len(s) - 1
  BY <1>1, <1>2, <1>3
<1>8. Pushed(r, new, s)
  BY <1>3, <1>4, <1>6, <1>7 DEF Pushed
<1> QED
  BY <1>8 DEF r, z

\* Frames are taken away from the front: the rest follow each other as before.
LEMMA SuffixGood ==
  ASSUME NEW r, NEW s, NEW c, Suffix(r, s, c), GoodStack(s)
  PROVE  GoodStack(r)
<1>1. /\ r \in Seq(Frame) /\ s \in Seq(Frame) /\ c \in 0..Len(s) /\ Len(r) = Len(s) - c
      /\ \A k \in 1..Len(r) : r[k] = s[k + c]
  BY DEF Suffix
<1>2. Len(s) \in Nat /\ Len(r) \in Nat /\ c \in Nat /\ DOMAIN s = 1..Len(s) /\ DOMAIN r = 1..Len(r)
  BY <1>1, StackFacts
<1>3. Shape(s) /\ \A k \in 1..Len(s) : FrameOK(s[k])
  BY DEF GoodStack
<1>4. \A k \in 1..Len(r) : FrameOK(r[k])
  BY <1>1, <1>2, <1>3
<1>5. ASSUME NEW k \in 1..Len(r)
      PROVE  /\ UnlockAt(r, k) /\ InsideAt(r, k) /\ ObjectAt(r, k)
             /\ PopAt(r, k) /\ CleanAt(r, k) /\ ClearAt(r, k)
             /\ CleanupAllAt(r, k) /\ WipeAt(r, k) /\ MakeAt(r, k)
  <2>1. PICK K \in 1..Len(s) : K = k + c
    BY <1>1, <1>2
  <2>2. r[k] = s[K]
    BY <1>1, <2>1
  <2>3. \A j \in 1..(k - 1) : j + c \in 1..(K - 1) /\ r[j] = s[j + c]
    BY <1>1, <1>2, <2>1
  <2>4. \A J \in 1..Len(s) : K < J => \E j \in 1..Len(r) : k < j /\ r[j] = s[J] /\ r[j - 1] = s[J - 1]
    <3> SUFFICES ASSUME NEW J \in 1..Len(s), K < J
                 PROVE  \E j \in 1..Len(r) : k < j /\ r[j] = s[J] /\ r[j - 1] = s[J - 1]
      OBVIOUS
    <3>1. J - c \in 1..Len(r) /\ k < J - c /\ (J - c) - 1 \in 1..Len(r)
          /\ (J - c) + c = J /\ ((J - c) - 1) + c = J - 1
      BY <1>1, <1>2, <2>1
    <3>2. r[J - c] = s[(J - c) + c] /\ r[(J - c) - 1] = s[((J - c) - 1) + c]
      BY <3>1, <1>1
    <3> QED  BY <3>1, <3>2
  <2>5. k > 1 => K > 1 /\ r[k - 1] = s[K - 1]
    <3> SUFFICES ASSUME k > 1 PROVE K > 1 /\ r[k - 1] = s[K - 1]
      OBVIOUS
    <3>1. k - 1 \in 1..Len(r) /\ (k - 1) + c = K - 1 /\ K > 1
      BY <1>1, <1>2, <2>1
    <3> QED  BY <3>1, <1>1
  <2>6. K + 1 \in 1..Len(s) => k + 1 \in 1..Len(r) /\ r[k + 1] = s[K + 1]
    <3> SUFFICES ASSUME K + 1 \in 1..Len(s) PROVE k + 1 \in 1..Len(r) /\ r[k + 1] = s[K + 1]
      OBVIOUS
    <3>1. k + 1 \in 1..Len(r) /\ (k + 1) + c = K + 1
      BY <1>1, <1>2, <2>1
    <3> QED  BY <3>1, <1>1
  <2>7. K = 1 => k = 1
    BY <1>2, <2>1
  <2>8. /\ UnlockAt(s, K) /\ InsideAt(s, K) /\ ObjectAt(s, K)
        /\ PopAt(s, K) /\ CleanAt(s, K) /\ ClearAt(s, K)
        /\ CleanupAllAt(s, K) /\ WipeAt(s, K) /\ MakeAt(s, K)
    BY <1>3 DEF Shape
  <2>9. UnlockAt(r, k)
    BY <2>2, <2>3, <2>8 DEF UnlockAt
  <2>10. InsideAt(r, k)
    BY <2>2, <2>4, <2>8 DEF InsideAt
  <2>11. ObjectAt(r, k)
    BY <2>2, <2>7, <2>8 DEF ObjectAt
  <2>12. PopAt(r, k)
    BY <2>2, <2>5, <2>8 DEF PopAt
  <2>13. CleanAt(r, k)
    <3>1. SUFFICES ASSUME r[k].op \in CleanOps
                   PROVE  \/ k + 1 \in 1..Len(r) /\ r[k + 1].op = "pop" /\ r[k + 1].n = r[k].n
                          \/ \E j \in 1..Len(r) : k < j /\ r[j].op = "clear" /\ r[j - 1].op # "cleanupall"
      BY DEF CleanAt
    <3>2. CASE K + 1 \in 1..Len(s) /\ s[K + 1].op = "pop" /\ s[K + 1].n = s[K].n
      BY <3>2, <2>2, <2>6
    <3>3. ASSUME NEW J \in 1..Len(s), K < J, s[J].op = "clear", s[J - 1].op # "cleanupall"
          PROVE  \E j \in 1..Len(r) : k < j /\ r[j].op = "clear" /\ r[j - 1].op # "cleanupall"
      <4>1. PICK j \in 1..Len(r) : k < j /\ r[j] = s[J] /\ r[j - 1] = s[J - 1]
        BY <2>4, <3>3
      <4> QED  BY <4>1, <3>3
    <3> QED  BY <3>1, <3>2, <3>3, <2>2, <2>8 DEF CleanAt
  <2>14. ClearAt(r, k)
    <3> SUFFICES ASSUME r[k].op = "clear", ~(k > 1 /\ r[k - 1].op = "cleanupall")
                 PROVE  \A j \in 1..(k - 1) : r[j].op \in CleanOps
      BY DEF ClearAt
    <3>1. CASE k = 1
      BY <3>1
    <3>2. CASE k > 1
      <4>1. \A j \in 1..(K - 1) : s[j].op \in CleanOps
        BY <2>2, <2>5, <2>8, <3>2 DEF ClearAt
      <4> QED  BY <4>1, <2>3
    <3> QED  BY <3>1, <3>2, <1>2
  <2>15. CleanupAllAt(r, k)
    BY <2>2, <2>6, <2>8 DEF CleanupAllAt
  <2>16. WipeAt(r, k)
    BY <2>2, <2>5, <2>8 DEF WipeAt
  <2>17. MakeAt(r, k)
    <3> SUFFICES ASSUME r[k].op = "make", NEW j \in 1..(k - 1) PROVE Pos(r[j].n) < Pos(r[k].n)
      BY DEF MakeAt
    <3>1. j + c \in 1..(K - 1) /\ r[j] = s[j + c]
      BY <2>3
    <3> QED  BY <3>1, <2>2, <2>8 DEF MakeAt
  <2> QED  BY <2>9, <2>10, <2>11, <2>12, <2>13, <2>14, <2>15, <2>16, <2>17
<1>6. Shape(r)
  BY <1>5 DEF Shape
<1> QED
  BY <1>1, <1>4, <1>6 DEF GoodStack

(* Frame k of s follows the others as it should.                           *)
At(s, k) ==
  /\ UnlockAt(s, k) /\ InsideAt(s, k) /\ ObjectAt(s, k)
  /\ PopAt(s, k) /\ CleanAt(s, k) /\ ClearAt(s, k)
  /\ CleanupAllAt(s, k) /\ WipeAt(s, k) /\ MakeAt(s, k)

\* The first frame is replaced by others that agree with it: those behind it
\* still follow as they should.
LEMMA TailGood ==
  ASSUME NEW r, NEW new, NEW s, Pushed(r, new, s), GoodStack(s),
         s[1].op \notin {"unlock", "clear"},
         s[1].op \in CleanOps => Len(new) > 0 /\ new[Len(new)].n = s[1].n,
         s[1].op \in CleanOps \cup {"cleanupall"} => \A j \in 1..Len(new) : new[j].op \in CleanOps,
         HasUnlock(s) => \A j \in 1..Len(new) : new[j].op \in Inside,
         HasUnlock(s) => \A j \in 1..Len(new), k \in 2..Len(s) :
                           s[k].op = "make" => Pos(new[j].n) < Pos(s[k].n)
  PROVE  \A k \in (Len(new) + 1)..Len(r) : At(r, k)
<1>1. /\ r \in Seq(Frame) /\ new \in Seq(Frame) /\ s \in Seq(Frame) /\ s # <<>>
      /\ Len(r) = Len(new) + Len(s) - 1
      /\ \A k \in 1..Len(new) : r[k] = new[k]
      /\ \A k \in 2..Len(s) : r[k + Len(new) - 1] = s[k]
  BY DEF Pushed
<1> DEFINE d == Len(new)
<1>2. Len(s) \in Nat /\ Len(s) # 0 /\ Len(r) \in Nat /\ d \in Nat
  BY <1>1, StackFacts
<1>3. \A k \in 1..Len(s) : At(s, k)
  BY DEF GoodStack, Shape, At
<1> HIDE DEF d
<1> SUFFICES ASSUME NEW k \in (d + 1)..Len(r) PROVE At(r, k)
  BY DEF d
<1>4. PICK K \in 2..Len(s) : k = K + d - 1 /\ r[k] = s[K]
  <2>1. k - d + 1 \in 2..Len(s) /\ k = (k - d + 1) + d - 1
    BY <1>1, <1>2 DEF d
  <2>2. r[(k - d + 1) + d - 1] = s[k - d + 1]
    BY <2>1, <1>1 DEF d
  <2> QED  BY <2>1, <2>2
<1>5. At(s, K) /\ At(s, 1) /\ K \in 1..Len(s) /\ 1 \in 1..(K - 1)
  BY <1>2, <1>3, <1>4
<1>6. \A j \in 1..(k - 1) : \/ j \in 1..d /\ r[j] = new[j]
                            \/ \E J \in 2..(K - 1) : j = J + d - 1 /\ r[j] = s[J]
  <2> SUFFICES ASSUME NEW j \in 1..(k - 1), j \notin 1..d
               PROVE  \E J \in 2..(K - 1) : j = J + d - 1 /\ r[j] = s[J]
    BY <1>1 DEF d
  <2>1. j - d + 1 \in 2..(K - 1) /\ j = (j - d + 1) + d - 1 /\ j - d + 1 \in 2..Len(s)
    BY <1>1, <1>2, <1>4
  <2>2. r[(j - d + 1) + d - 1] = s[j - d + 1]
    BY <2>1, <1>1 DEF d
  <2> QED  BY <2>1, <2>2
<1>7. \A J \in 1..Len(s) : K < J => \E j \in 1..Len(r) : k < j /\ r[j] = s[J] /\ r[j - 1] = s[J - 1]
  <2> SUFFICES ASSUME NEW J \in 1..Len(s), K < J
               PROVE  \E j \in 1..Len(r) : k < j /\ r[j] = s[J] /\ r[j - 1] = s[J - 1]
    OBVIOUS
  <2>0. Len(r) = d + Len(s) - 1
    BY <1>1 DEF d
  <2>1. PICK j \in 1..Len(r) : j = J + d - 1
    BY <2>0, <1>2, <1>4
  <2>2. J \in 2..Len(s) /\ J - 1 \in 2..Len(s) /\ (J - 1) + d - 1 = j - 1 /\ k < j
    BY <1>1, <1>2, <1>4, <2>1
  <2>3. r[j] = s[J] /\ r[j - 1] = s[J - 1]
    BY <2>1, <2>2, <1>1 DEF d
  <2> QED  BY <2>2, <2>3
<1>8. K > 2 => r[k - 1] = s[K - 1] /\ k > 1
  <2> SUFFICES ASSUME K > 2 PROVE r[k - 1] = s[K - 1] /\ k > 1
    OBVIOUS
  <2>1. K - 1 \in 2..Len(s) /\ (K - 1) + d - 1 = k - 1 /\ k > 1
    BY <1>2, <1>4
  <2> QED  BY <2>1, <1>1 DEF d
<1>9. K = 2 => k - 1 = d /\ (d > 0 => r[k - 1] = new[d] /\ d \in 1..d) /\ s[K - 1] = s[1]
  BY <1>1, <1>2, <1>4 DEF d
<1>10. K > 1 /\ (K = 2 \/ K > 2)
  BY <1>4
<1>11. UnlockAt(r, k)
  <2> SUFFICES ASSUME r[k].op = "unlock", NEW j \in 1..(k - 1) PROVE r[j].op \in Inside
    BY DEF UnlockAt
  <2>1. HasUnlock(s) /\ \A J \in 1..(K - 1) : s[J].op \in Inside
    BY <1>4, <1>5 DEF At, UnlockAt, HasUnlock
  <2>2. CASE j \in 1..d /\ r[j] = new[j]
    BY <2>1, <2>2 DEF d
  <2>3. ASSUME NEW J \in 2..(K - 1), r[j] = s[J] PROVE r[j].op \in Inside
    BY <2>1, <2>3
  <2> QED  BY <2>2, <2>3, <1>6
<1>12. InsideAt(r, k)
  <2> SUFFICES ASSUME r[k].op \in {"need", "make", "store"}
               PROVE  \E j \in 1..Len(r) : k < j /\ r[j].op = "unlock"
    BY DEF InsideAt
  <2>1. PICK J \in 1..Len(s) : K < J /\ s[J].op = "unlock"
    BY <1>4, <1>5 DEF At, InsideAt
  <2>2. PICK j \in 1..Len(r) : k < j /\ r[j] = s[J]
    BY <2>1, <1>7
  <2> QED  BY <2>1, <2>2
<1>13. ObjectAt(r, k)
  BY <1>4, <1>5, <1>10 DEF At, ObjectAt
<1>14. PopAt(r, k)
  <2> SUFFICES ASSUME r[k].op = "pop", k > 1
               PROVE  r[k - 1].op \in CleanOps /\ r[k - 1].n = r[k].n
    BY DEF PopAt
  <2>1. s[K - 1].op \in CleanOps /\ s[K - 1].n = s[K].n
    BY <1>4, <1>5, <1>10 DEF At, PopAt
  <2>2. CASE K = 2
    <3>1. s[1].op \in CleanOps /\ s[1].n = r[k].n
      BY <2>1, <2>2, <1>4, <1>9
    <3>2. d > 0 /\ new[d].n = s[1].n /\ \A j \in 1..d : new[j].op \in CleanOps
      BY <3>1 DEF d
    <3> QED  BY <3>1, <3>2, <2>2, <1>9
  <2>3. CASE K > 2
    BY <2>1, <2>3, <1>4, <1>8
  <2> QED  BY <2>2, <2>3, <1>10
<1>15. CleanAt(r, k)
  <2> SUFFICES ASSUME r[k].op \in CleanOps
               PROVE  \/ k + 1 \in 1..Len(r) /\ r[k + 1].op = "pop" /\ r[k + 1].n = r[k].n
                      \/ \E j \in 1..Len(r) : k < j /\ r[j].op = "clear" /\ r[j - 1].op # "cleanupall"
    BY DEF CleanAt
  <2>1. CASE K + 1 \in 1..Len(s) /\ s[K + 1].op = "pop" /\ s[K + 1].n = s[K].n
    <3>1. K + 1 \in 2..Len(s) /\ (K + 1) + d - 1 = k + 1 /\ k + 1 \in 1..Len(r)
      BY <2>1, <1>1, <1>2, <1>4 DEF d
    <3>2. r[k + 1] = s[K + 1]
      BY <3>1, <1>1 DEF d
    <3> QED  BY <3>1, <3>2, <2>1, <1>4
  <2>2. ASSUME NEW J \in 1..Len(s), K < J, s[J].op = "clear", s[J - 1].op # "cleanupall"
        PROVE  \E j \in 1..Len(r) : k < j /\ r[j].op = "clear" /\ r[j - 1].op # "cleanupall"
    <3>1. PICK j \in 1..Len(r) : k < j /\ r[j] = s[J] /\ r[j - 1] = s[J - 1]
      BY <1>7, <2>2
    <3> QED  BY <3>1, <2>2
  <2> QED  BY <2>1, <2>2, <1>4, <1>5 DEF At, CleanAt
<1>16. ClearAt(r, k)
  <2> SUFFICES ASSUME r[k].op = "clear"
               PROVE  (\A j \in 1..(k - 1) : r[j].op \in CleanOps) \/ (k > 1 /\ r[k - 1].op = "cleanupall")
    BY DEF ClearAt
  <2>1. (\A J \in 1..(K - 1) : s[J].op \in CleanOps) \/ s[K - 1].op = "cleanupall"
    BY <1>4, <1>5 DEF At, ClearAt
  <2>2. CASE \A J \in 1..(K - 1) : s[J].op \in CleanOps
    <3>1. \A j \in 1..d : new[j].op \in CleanOps
      BY <2>2, <1>5 DEF d
    <3>2. ASSUME NEW j \in 1..(k - 1) PROVE r[j].op \in CleanOps
      <4>1. CASE j \in 1..d /\ r[j] = new[j]
        BY <4>1, <3>1
      <4>2. ASSUME NEW J \in 2..(K - 1), r[j] = s[J] PROVE r[j].op \in CleanOps
        BY <4>2, <2>2
      <4> QED  BY <4>1, <4>2, <1>6
    <3> QED  BY <3>2
  <2>3. CASE s[K - 1].op = "cleanupall" /\ K = 2
    <3>1. \A j \in 1..d : new[j].op \in CleanOps
      BY <2>3, <1>9 DEF d
    <3> QED  BY <3>1, <2>3, <1>1, <1>9 DEF d
  <2>4. CASE s[K - 1].op = "cleanupall" /\ K > 2
    BY <2>4, <1>8
  <2> QED  BY <2>1, <2>2, <2>3, <2>4, <1>10
<1>17. CleanupAllAt(r, k)
  <2> SUFFICES ASSUME r[k].op = "cleanupall" PROVE k + 1 \in 1..Len(r) /\ r[k + 1].op = "clear"
    BY DEF CleanupAllAt
  <2>1. K + 1 \in 1..Len(s) /\ s[K + 1].op = "clear"
    BY <1>4, <1>5 DEF At, CleanupAllAt
  <2>2. K + 1 \in 2..Len(s) /\ (K + 1) + d - 1 = k + 1 /\ k + 1 \in 1..Len(r)
    BY <2>1, <1>1, <1>2, <1>4 DEF d
  <2>3. r[k + 1] = s[K + 1]
    BY <2>2, <1>1 DEF d
  <2> QED  BY <2>1, <2>2, <2>3
<1>18. WipeAt(r, k)
  <2> SUFFICES ASSUME r[k].op = "wipe" PROVE r[k - 1].op = "clear"
    BY DEF WipeAt
  <2>1. s[K - 1].op = "clear"
    BY <1>4, <1>5, <1>10 DEF At, WipeAt
  <2>2. K > 2
    BY <2>1, <1>9, <1>10
  <2> QED  BY <2>1, <2>2, <1>8
<1>19. MakeAt(r, k)
  <2> SUFFICES ASSUME r[k].op = "make", NEW j \in 1..(k - 1) PROVE Pos(r[j].n) < Pos(r[k].n)
    BY DEF MakeAt
  <2>1. \A J \in 1..(K - 1) : Pos(s[J].n) < Pos(s[K].n)
    BY <1>4, <1>5 DEF At, MakeAt
  <2>2. HasUnlock(s)
    BY <1>4, <1>5 DEF At, InsideAt, HasUnlock
  <2>3. CASE j \in 1..d /\ r[j] = new[j]
    BY <2>2, <2>3, <1>4 DEF d
  <2>4. ASSUME NEW J \in 2..(K - 1), r[j] = s[J] PROVE Pos(r[j].n) < Pos(r[k].n)
    BY <2>1, <2>4, <1>4
  <2> QED  BY <2>3, <2>4, <1>6
<1> QED
  BY <1>11, <1>12, <1>13, <1>14, <1>15, <1>16, <1>17, <1>18, <1>19 DEF At

\* A list in which the new frames and those behind them are in order.
LEMMA PushedGood ==
  ASSUME NEW r, NEW new, NEW s, Pushed(r, new, s), GoodStack(s),
         \A k \in 1..Len(new) : FrameOK(new[k]) /\ At(r, k),
         \A k \in (Len(new) + 1)..Len(r) : At(r, k)
  PROVE  /\ GoodStack(r)
         /\ HasUnlock(r) <=> (HasUnlock(new) \/ \E k \in 2..Len(s) : s[k].op = "unlock")
<1>1. /\ r \in Seq(Frame) /\ new \in Seq(Frame) /\ s \in Seq(Frame) /\ s # <<>>
      /\ Len(r) = Len(new) + Len(s) - 1
      /\ \A k \in 1..Len(new) : r[k] = new[k]
      /\ \A k \in 2..Len(s) : r[k + Len(new) - 1] = s[k]
  BY DEF Pushed
<1> DEFINE d == Len(new)
<1>2. Len(s) \in Nat /\ Len(s) # 0 /\ Len(r) \in Nat /\ d \in Nat
  BY <1>1, StackFacts
<1>3. \A k \in 1..Len(r) : k \in 1..d \/ k \in (d + 1)..Len(r)
  BY <1>2
<1>4. \A k \in (d + 1)..Len(r) : \E K \in 2..Len(s) : r[k] = s[K]
  <2> SUFFICES ASSUME NEW k \in (d + 1)..Len(r) PROVE \E K \in 2..Len(s) : r[k] = s[K]
    OBVIOUS
  <2> HIDE DEF d
  <2>1. k - d + 1 \in 2..Len(s) /\ k = (k - d + 1) + d - 1
    BY <1>1, <1>2 DEF d
  <2>2. r[(k - d + 1) + d - 1] = s[k - d + 1]
    BY <2>1, <1>1 DEF d
  <2> QED  BY <2>1, <2>2
<1>5. \A k \in 2..Len(s) : k \in 1..Len(s) /\ FrameOK(s[k])
  BY <1>2 DEF GoodStack
<1>6. \A k \in 1..d : r[k] = new[k]
  BY <1>1
<1>7. \A k \in 1..d : k \in 1..Len(r)
  BY <1>1, <1>2
<1>8. \A k \in 2..Len(s) : \E j \in 1..Len(r) : r[j] = s[k]
  <2> SUFFICES ASSUME NEW k \in 2..Len(s) PROVE \E j \in 1..Len(r) : r[j] = s[k]
    OBVIOUS
  <2> HIDE DEF d
  <2>0. Len(r) = d + Len(s) - 1
    BY <1>1 DEF d
  <2>1. PICK j \in 1..Len(r) : j = k + d - 1
    BY <2>0, <1>2
  <2> QED  BY <2>1, <1>1 DEF d
<1>9. \A k \in 1..d : FrameOK(new[k]) /\ At(r, k)
  OBVIOUS
<1>10. \A k \in (d + 1)..Len(r) : At(r, k)
  OBVIOUS
<1> HIDE DEF d
<1>11. \A k \in 1..Len(r) : FrameOK(r[k])
  BY <1>3, <1>4, <1>5, <1>6, <1>9
<1>12. Shape(r)
  BY <1>3, <1>9, <1>10 DEF Shape, At
<1>13. HasUnlock(r) <=> (HasUnlock(new) \/ \E k \in 2..Len(s) : s[k].op = "unlock")
  <2>1. ASSUME HasUnlock(r) PROVE HasUnlock(new) \/ \E k \in 2..Len(s) : s[k].op = "unlock"
    <3>1. PICK k \in 1..Len(r) : r[k].op = "unlock"
      BY <2>1 DEF HasUnlock
    <3> QED  BY <3>1, <1>3, <1>4, <1>6 DEF HasUnlock, d
  <2>2. ASSUME HasUnlock(new) PROVE HasUnlock(r)
    BY <2>2, <1>6, <1>7 DEF HasUnlock, d
  <2>3. ASSUME NEW k \in 2..Len(s), s[k].op = "unlock" PROVE HasUnlock(r)
    BY <2>3, <1>8 DEF HasUnlock
  <2> QED  BY <2>1, <2>2, <2>3
<1> QED
  BY <1>1, <1>11, <1>12, <1>13 DEF GoodStack

\* A thread whose next frame is not one of load_plugin is not inside it.
LEMMA NotInside ==
  ASSUME NEW s, GoodStack(s), s # <<>>, s[1].op \notin Inside \cup {"unlock"}
  PROVE  ~HasUnlock(s)
<1>1. SUFFICES ASSUME NEW k \in 1..Len(s), s[k].op = "unlock" PROVE FALSE
  BY DEF HasUnlock
<1>2. Len(s) \in Nat /\ UnlockAt(s, k)
  BY StackFacts DEF GoodStack, Shape
<1>3. k # 1
  BY <1>1
<1>4. 1 \in 1..(k - 1)
  BY <1>2, <1>3
<1> QED
  BY <1>1, <1>2, <1>4 DEF UnlockAt

\* New frames that are in order by themselves take the place of the first.
LEMMA PushSelf ==
  ASSUME NEW r, NEW new, NEW s, Pushed(r, new, s), GoodStack(s), GoodStack(new),
         s[1].op \notin CleanOps \cup {"unlock", "clear", "cleanupall"}, ~HasUnlock(s)
  PROVE  GoodStack(r) /\ (HasUnlock(r) <=> HasUnlock(new))
<1>1. /\ r \in Seq(Frame) /\ new \in Seq(Frame) /\ s \in Seq(Frame) /\ s # <<>>
      /\ Len(r) = Len(new) + Len(s) - 1
      /\ \A k \in 1..Len(new) : r[k] = new[k]
  BY DEF Pushed
<1>2. Len(s) \in Nat /\ Len(s) # 0 /\ Len(r) \in Nat /\ Len(new) \in Nat
  BY <1>1, StackFacts
<1>3. \A k \in (Len(new) + 1)..Len(r) : At(r, k)
  BY TailGood
<1>4. ASSUME NEW k \in 1..Len(new) PROVE FrameOK(new[k]) /\ At(r, k)
  <2>1. At(new, k) /\ FrameOK(new[k])
    BY DEF GoodStack, Shape, At
  <2>2. \A j \in 1..Len(new) : j \in 1..Len(r) /\ r[j] = new[j] /\ (j > 1 => j - 1 \in 1..Len(new))
    BY <1>1, <1>2
  <2>3. \A j \in 1..(k - 1) : r[j] = new[j]
    BY <1>1, <1>2
  <2>4. k > 1 => r[k - 1] = new[k - 1]
    BY <2>2
  <2>5. UnlockAt(r, k)
    BY <2>1, <2>2, <2>3 DEF At, UnlockAt
  <2>6. InsideAt(r, k)
    BY <2>1, <2>2 DEF At, InsideAt
  <2>7. ObjectAt(r, k)
    BY <2>1, <2>2 DEF At, ObjectAt
  <2>8. PopAt(r, k)
    BY <2>1, <2>2, <2>4 DEF At, PopAt
  <2>9. CleanAt(r, k)
    <3>1. ASSUME NEW j \in 1..Len(new), k < j PROVE j \in 1..Len(r) /\ r[j] = new[j] /\ r[j - 1] = new[j - 1]
      <4>1. j > 1
        BY <3>1, <1>2
      <4> QED  BY <4>1, <2>2
    <3> QED  BY <2>1, <2>2, <3>1 DEF At, CleanAt
  <2>10. ClearAt(r, k)
    BY <2>1, <2>2, <2>3, <2>4 DEF At, ClearAt
  <2>11. CleanupAllAt(r, k)
    BY <2>1, <2>2 DEF At, CleanupAllAt
  <2>12. WipeAt(r, k)
    BY <2>1, <2>2, <2>4 DEF At, WipeAt
  <2>13. MakeAt(r, k)
    <3> SUFFICES ASSUME r[k].op = "make", NEW j \in 1..(k - 1) PROVE Pos(r[j].n) < Pos(r[k].n)
      BY DEF MakeAt
    <3> QED  BY <2>1, <2>2, <2>3 DEF At, MakeAt
  <2> QED  BY <2>1, <2>5, <2>6, <2>7, <2>8, <2>9, <2>10, <2>11, <2>12, <2>13 DEF At
<1>5. \A k \in 2..Len(s) : s[k].op # "unlock"
  BY <1>2 DEF HasUnlock
<1> QED
  BY <1>3, <1>4, <1>5, PushedGood

\* The first frame goes on to its next stage.
LEMMA ReplaceHead ==
  ASSUME NEW r, NEW f, NEW s, Pushed(r, <<f>>, s), GoodStack(s), FrameOK(f), f.n = s[1].n,
         f.op \notin {"unlock", "pop", "clear", "cleanupall", "wipe", "need", "make"},
         f.op \in Inside <=> s[1].op \in Inside,
         f.op \in CleanOps <=> s[1].op \in CleanOps,
         s[1].op \notin {"unlock", "clear", "cleanupall"},
         f.op = "store" => s[1].op = "make"
  PROVE  /\ GoodStack(r) /\ (HasUnlock(r) <=> HasUnlock(s))
         /\ Len(r) = Len(s) /\ r[1] = f /\ \A k \in 2..Len(s) : r[k] = s[k]
<1> DEFINE new == <<f>>
<1>1. /\ r \in Seq(Frame) /\ s \in Seq(Frame) /\ s # <<>>
      /\ Len(r) = Len(new) + Len(s) - 1
      /\ \A k \in 1..Len(new) : r[k] = new[k]
      /\ \A k \in 2..Len(s) : r[k + Len(new) - 1] = s[k]
  BY DEF Pushed
<1>2. Len(s) \in Nat /\ Len(s) # 0 /\ Len(new) = 1 /\ new[1] = f /\ 1..Len(new) = {1}
  BY <1>1, StackFacts
<1>3. Len(r) = Len(s) /\ r[1] = f
  BY <1>1, <1>2
<1>4. \A k \in 2..Len(s) : r[k] = s[k]
  <2> SUFFICES ASSUME NEW k \in 2..Len(s) PROVE r[k] = s[k]
    OBVIOUS
  <2>1. k + Len(new) - 1 = k
    BY <1>2
  <2> QED  BY <2>1, <1>1
<1>5. At(s, 1) /\ 1 \in 1..Len(s)
  BY <1>2 DEF GoodStack, Shape, At
<1>6. \A k \in 2..Len(s) : k \in 1..Len(s) /\ 1 \in 1..(k - 1)
  BY <1>2
<1>7. HasUnlock(s) <=> \E k \in 2..Len(s) : s[k].op = "unlock"
  <2>1. \A k \in 1..Len(s) : k = 1 \/ k \in 2..Len(s)
    BY <1>2
  <2> QED  BY <2>1, <1>6 DEF HasUnlock
<1>8. \A k \in (Len(new) + 1)..Len(r) : At(r, k)
  <2> HIDE DEF new
  <2>1. HasUnlock(s) => s[1].op \in Inside
    BY NotInside, <1>1
  <2>2. s[1].op \in CleanOps => Len(new) > 0 /\ new[Len(new)].n = s[1].n
    BY <1>2
  <2>3. s[1].op \in CleanOps \cup {"cleanupall"} => \A j \in 1..Len(new) : new[j].op \in CleanOps
    BY <1>2
  <2>4. HasUnlock(s) => \A j \in 1..Len(new) : new[j].op \in Inside
    BY <1>2, <2>1
  <2>5. HasUnlock(s) => \A j \in 1..Len(new), k \in 2..Len(s) :
                           s[k].op = "make" => Pos(new[j].n) < Pos(s[k].n)
    <3> SUFFICES ASSUME NEW k \in 2..Len(s), s[k].op = "make" PROVE Pos(f.n) < Pos(s[k].n)
      BY <1>2
    <3>1. MakeAt(s, k)
      BY <1>6 DEF GoodStack, Shape
    <3> QED  BY <3>1, <1>6 DEF MakeAt
  <2>6. Pushed(r, new, s)
    BY DEF new
  <2> QED  BY <2>2, <2>3, <2>4, <2>5, <2>6, TailGood
<1>9. At(r, 1)
  <2>1. InsideAt(r, 1)
    <3> SUFFICES ASSUME f.op = "store" PROVE \E j \in 1..Len(r) : 1 < j /\ r[j].op = "unlock"
      BY <1>3 DEF InsideAt
    <3>1. PICK j \in 1..Len(s) : 1 < j /\ s[j].op = "unlock"
      BY <1>5 DEF At, InsideAt
    <3>2. j \in 2..Len(s)
      BY <3>1, <1>2
    <3> QED  BY <3>1, <3>2, <1>3, <1>4
  <2>2. CleanAt(r, 1)
    <3> SUFFICES ASSUME f.op \in CleanOps
                 PROVE  \/ 2 \in 1..Len(r) /\ r[2].op = "pop" /\ r[2].n = f.n
                        \/ \E j \in 1..Len(r) : 1 < j /\ r[j].op = "clear" /\ r[j - 1].op # "cleanupall"
      BY <1>3 DEF CleanAt
    <3>1. CASE 2 \in 1..Len(s) /\ s[2].op = "pop" /\ s[2].n = s[1].n
      BY <3>1, <1>3, <1>4, <1>2
    <3>2. ASSUME NEW j \in 1..Len(s), 1 < j, s[j].op = "clear", s[j - 1].op # "cleanupall"
          PROVE  \E k \in 1..Len(r) : 1 < k /\ r[k].op = "clear" /\ r[k - 1].op # "cleanupall"
      <4>1. j \in 2..Len(s) /\ j \in 1..Len(r) /\ (j - 1 = 1 \/ j - 1 \in 2..Len(s))
        BY <3>2, <1>2, <1>3
      <4>2. r[j] = s[j] /\ r[j - 1].op # "cleanupall"
        BY <4>1, <3>2, <1>3, <1>4
      <4> QED  BY <4>1, <4>2, <3>2
    <3> QED  BY <3>1, <3>2, <1>5 DEF At, CleanAt
  <2>3. UnlockAt(r, 1) /\ ObjectAt(r, 1) /\ PopAt(r, 1) /\ ClearAt(r, 1) /\ CleanupAllAt(r, 1)
        /\ WipeAt(r, 1) /\ MakeAt(r, 1)
    BY <1>3 DEF UnlockAt, ObjectAt, PopAt, ClearAt, CleanupAllAt, WipeAt, MakeAt
  <2> QED  BY <2>1, <2>2, <2>3 DEF At
<1>10. \A k \in 1..Len(new) : FrameOK(new[k]) /\ At(r, k)
  BY <1>2, <1>9
<1>11. ~HasUnlock(new)
  BY <1>2 DEF HasUnlock
<1> HIDE DEF new
<1>12. Pushed(r, new, s)
  BY DEF new
<1> QED
  BY <1>3, <1>4, <1>7, <1>8, <1>10, <1>11, <1>12, PushedGood

-----------------------------------------------------------------------------
(* The lists of frames a call begins with *)

Benign == {"load", "start", "stop", "reload", "rediscover", "hot", "restart", "disabled",
           "startall", "stopleft", "startedon", "startedoff", "watch"}

(* What follows what in the lists that calls push: cleanup before pop,     *)
(* cleanupall before clear before wipe.                                    *)
SimpleAt(s, k) ==
  /\ s[k].op \in Benign \cup {"cleanup", "pop", "cleanupall", "clear", "wipe"}
  /\ s[k].op = "cleanup" => k + 1 \in 1..Len(s) /\ s[k + 1].op = "pop" /\ s[k + 1].n = s[k].n
  /\ s[k].op = "pop" => k - 1 \in 1..Len(s) /\ s[k - 1].op = "cleanup" /\ s[k - 1].n = s[k].n
  /\ s[k].op = "cleanupall" => k + 1 \in 1..Len(s) /\ s[k + 1].op = "clear"
  /\ s[k].op = "clear" => k - 1 \in 1..Len(s) /\ s[k - 1].op = "cleanupall"
  /\ s[k].op = "wipe" => k - 1 \in 1..Len(s) /\ s[k - 1].op = "clear"

Simple(s) == s \in Seq(Frame) /\ \A k \in 1..Len(s) : FrameOK(s[k]) /\ SimpleAt(s, k)

\* Such a list is in order, and none of its frames is inside load_plugin.
LEMMA SimpleGood ==
  ASSUME NEW s, Simple(s)
  PROVE  GoodStack(s) /\ ~HasUnlock(s) /\ ~Sweep(s)
         /\ \A k \in 1..Len(s) : s[k].op \notin {"need", "make", "store"}
<1>1. s \in Seq(Frame) /\ \A k \in 1..Len(s) : FrameOK(s[k]) /\ SimpleAt(s, k)
  BY DEF Simple
<1>2. Len(s) \in Nat
  BY <1>1, StackFacts
<1>3. \A k \in 1..Len(s) : s[k].op \in Benign \cup {"cleanup", "pop", "cleanupall", "clear", "wipe"}
  BY <1>1 DEF SimpleAt
<1>4. \A k \in 1..Len(s) : s[k].op \notin {"need", "make", "store", "unlock"} \cup HasObject
  BY <1>3 DEF Benign, HasObject
<1>5. ASSUME NEW k \in 1..Len(s) PROVE At(s, k)
  <2>1. SimpleAt(s, k) /\ s[k].op \notin {"need", "make", "store", "unlock"} \cup HasObject
    BY <1>1, <1>4
  <2>2. UnlockAt(s, k) /\ InsideAt(s, k) /\ MakeAt(s, k)
    BY <2>1 DEF UnlockAt, InsideAt, MakeAt
  <2>3. ObjectAt(s, k)
    BY <2>1 DEF ObjectAt
  <2>4. PopAt(s, k) /\ WipeAt(s, k)
    BY <2>1 DEF PopAt, WipeAt, SimpleAt, CleanOps
  <2>5. CleanAt(s, k)
    BY <2>1 DEF CleanAt, SimpleAt, CleanOps, HasObject
  <2>6. ClearAt(s, k)
    <3>1. s[k].op = "clear" => k > 1 /\ s[k - 1].op = "cleanupall"
      BY <2>1, <1>2 DEF SimpleAt
    <3> QED  BY <3>1 DEF ClearAt
  <2>7. CleanupAllAt(s, k)
    BY <2>1 DEF CleanupAllAt, SimpleAt
  <2> QED  BY <2>2, <2>3, <2>4, <2>5, <2>6, <2>7 DEF At
<1>6. Shape(s)
  BY <1>5 DEF Shape, At
<1>7. ~Sweep(s)
  <2> SUFFICES ASSUME NEW k \in 1..Len(s), SweepAt(s, k) PROVE FALSE
    BY DEF Sweep
  <2>1. s[k].op = "clear" /\ SimpleAt(s, k)
    BY <1>1 DEF SweepAt
  <2>2. k - 1 \in 1..Len(s) /\ s[k - 1].op = "cleanupall"
    BY <2>1 DEF SimpleAt
  <2>3. k - 1 \in 1..(k - 1)
    BY <2>2, <1>2
  <2>4. s[k - 1].op \in CleanOps
    BY <2>3 DEF SweepAt
  <2> QED  BY <2>2, <2>4 DEF CleanOps
<1> QED
  BY <1>1, <1>4, <1>6, <1>7 DEF GoodStack, HasUnlock

\* A frame without an object.
LEMMA FrameType ==
  ASSUME NEW op \in Op, NEW n \in Plugin \cup {All}
  PROVE  F(op, n) \in Frame /\ F(op, n).op = op /\ F(op, n).n = n
BY DEF F, Frame, None

\* A frame of a call about one plugin, or about all.
LEMMA FrameFor ==
  ASSUME NEW op \in Op, NEW n \in Plugin \cup {All}, op \notin HasObject, op \in AllOps <=> n = All
  PROVE  FrameOK(F(op, n))
BY FrameType DEF FrameOK

\* One frame for each of the names.
LEMMA EachFacts ==
  ASSUME NEW op \in Op \ (HasObject \cup AllOps), NEW names \in Seq(Plugin)
  PROVE  /\ Each(op, names) \in Seq(Frame) /\ Len(Each(op, names)) = Len(names)
         /\ \A k \in 1..Len(names) : /\ Each(op, names)[k] = F(op, names[k]) /\ names[k] \in Plugin
                                     /\ Each(op, names)[k].op = op /\ Each(op, names)[k].n = names[k]
                                     /\ FrameOK(Each(op, names)[k])
<1> DEFINE e == Each(op, names)
<1>1. Len(names) \in Nat /\ DOMAIN names = 1..Len(names) /\ \A k \in 1..Len(names) : names[k] \in Plugin
  BY ElementOfSeq
<1>2. \A k \in 1..Len(names) : F(op, names[k]) \in Frame /\ F(op, names[k]).op = op /\ F(op, names[k]).n = names[k]
  BY <1>1, FrameType
<1>3. \A k \in 1..Len(names) : names[k] # All
  BY <1>1, PluginAssumption
<1>4. \A k \in 1..Len(names) : FrameOK(F(op, names[k]))
  BY <1>1, <1>3, FrameFor
<1>5. e = [k \in 1..Len(names) |-> F(op, names[k])]
  BY <1>1 DEF Each
<1>6. e \in Seq(Frame) /\ Len(e) = Len(names) /\ \A k \in 1..Len(names) : e[k] = F(op, names[k])
  <2> HIDE DEF e
  <2>1. e \in [1..Len(names) -> Frame]
    BY <1>2, <1>5
  <2> QED  BY <1>1, <1>5, <2>1
<1> HIDE DEF e
<1>7. \A k \in 1..Len(names) : names[k] \in Plugin /\ e[k].op = op /\ e[k].n = names[k] /\ FrameOK(e[k])
  BY <1>1, <1>2, <1>4, <1>6
<1> QED
  BY <1>6, <1>7 DEF e

\* A list of benign frames is in order.
LEMMA BenignSimple ==
  ASSUME NEW s \in Seq(Frame), \A k \in 1..Len(s) : FrameOK(s[k]) /\ s[k].op \in Benign
  PROVE  Simple(s)
BY DEF Simple, SimpleAt, Benign

\* One frame for each of the names, of a benign kind.
LEMMA EachSimple ==
  ASSUME NEW op \in {"load", "start", "stop", "reload"}, NEW names \in Seq(Plugin)
  PROVE  Simple(Each(op, names))
<1>1. op \in Op \ (HasObject \cup AllOps) /\ op \in Benign
  BY DEF Op, HasObject, AllOps, Benign
<1>2. \A k \in 1..Len(Each(op, names)) : FrameOK(Each(op, names)[k]) /\ Each(op, names)[k].op \in Benign
  BY <1>1, EachFacts
<1> QED
  BY <1>1, <1>2, EachFacts, BenignSimple

\* Two lists of frames put together.
LEMMA ConcatFrames ==
  ASSUME NEW a \in Seq(Frame), NEW b \in Seq(Frame)
  PROVE  /\ a \o b \in Seq(Frame) /\ Len(a \o b) = Len(a) + Len(b)
         /\ \A k \in 1..Len(a) : (a \o b)[k] = a[k]
         /\ \A k \in 1..Len(b) : (a \o b)[Len(a) + k] = b[k]
<1>1. Len(a) \in Nat /\ Len(b) \in Nat
  BY StackFacts
<1> QED  BY <1>1

\* The frames of a plugin's calls.
LEMMA OwnFrame ==
  ASSUME NEW n \in Plugin, NEW op \in Op \ (HasObject \cup AllOps)
  PROVE  F(op, n) \in Frame /\ F(op, n).op = op /\ F(op, n).n = n /\ FrameOK(F(op, n))
<1>1. n # All
  BY PluginAssumption
<1> QED  BY <1>1, FrameType, FrameFor

\* The frames of calls about all plugins.
LEMMA AllFrame ==
  ASSUME NEW op \in AllOps
  PROVE  F(op, All) \in Frame /\ F(op, All).op = op /\ F(op, All).n = All /\ FrameOK(F(op, All))
<1>1. op \in Op /\ op \notin HasObject
  BY DEF Op, AllOps, HasObject
<1> QED  BY <1>1, FrameType, FrameFor

\* A call with one frame.
LEMMA OneSimple ==
  ASSUME NEW n \in Plugin, NEW op \in {"load", "start", "stop", "reload"}
  PROVE  Simple(<<F(op, n)>>)
<1> DEFINE f == F(op, n)
           s == <<f>>
<1>1. f \in Frame /\ f.op = op /\ FrameOK(f)
  <2>1. op \in Op \ (HasObject \cup AllOps)
    BY DEF Op, HasObject, AllOps
  <2> QED  BY <2>1, OwnFrame
<1> HIDE DEF f
<1>2. s \in Seq(Frame) /\ Len(s) = 1 /\ s[1] = f
  BY <1>1
<1>3. \A k \in 1..Len(s) : FrameOK(s[k]) /\ s[k].op \in Benign
  BY <1>1, <1>2 DEF Benign
<1>4. Simple(s)
  <2> HIDE DEF s
  <2> QED  BY <1>2, <1>3, BenignSimple
<1> QED  BY <1>4 DEF f

\* unload_plugin.
LEMMA UnloadSimple ==
  ASSUME NEW n \in Plugin
  PROVE  Simple(UnloadFrames(n)) /\ Simple(UnloadFrames(n) \o <<F("disabled", n)>>)
<1> DEFINE a == F("stop", n)
           b == F("cleanup", n)
           c == F("pop", n)
           d == F("disabled", n)
<1>1. /\ a \in Frame /\ a.op = "stop" /\ a.n = n /\ FrameOK(a)
      /\ b \in Frame /\ b.op = "cleanup" /\ b.n = n /\ FrameOK(b)
      /\ c \in Frame /\ c.op = "pop" /\ c.n = n /\ FrameOK(c)
      /\ d \in Frame /\ d.op = "disabled" /\ d.n = n /\ FrameOK(d)
  BY OwnFrame DEF Op, HasObject, AllOps
<1>2. UnloadFrames(n) = <<a, b, c>>
  BY DEF UnloadFrames
<1> HIDE DEF a, b, c, d
<1>3. Simple(<<a, b, c>>)
  <2> DEFINE s == <<a, b, c>>
  <2>1. s \in Seq(Frame) /\ Len(s) = 3 /\ s[1] = a /\ s[2] = b /\ s[3] = c
    BY <1>1
  <2> HIDE DEF s
  <2>2. \A k \in 1..Len(s) : FrameOK(s[k]) /\ SimpleAt(s, k)
    BY <1>1, <2>1 DEF SimpleAt, Benign
  <2>3. Simple(s)
    BY <2>1, <2>2 DEF Simple
  <2> QED  BY <2>3 DEF s
<1>4. Simple(<<a, b, c>> \o <<d>>)
  <2> DEFINE x == <<a, b, c>>
             y == <<d>>
             s == x \o y
  <2>0. /\ x \in Seq(Frame) /\ Len(x) = 3 /\ x[1] = a /\ x[2] = b /\ x[3] = c
        /\ y \in Seq(Frame) /\ Len(y) = 1 /\ y[1] = d
    BY <1>1
  <2>1. s \in Seq(Frame) /\ Len(s) = 4 /\ s[1] = a /\ s[2] = b /\ s[3] = c /\ s[4] = d
    <3> HIDE DEF x, y
    <3>1. /\ s \in Seq(Frame) /\ Len(s) = Len(x) + Len(y)
          /\ (\A k \in 1..Len(x) : s[k] = x[k]) /\ \A k \in 1..Len(y) : s[Len(x) + k] = y[k]
      BY <2>0, ConcatFrames
    <3> HIDE DEF s
    <3> QED  BY <2>0, <3>1
  <2> HIDE DEF s
  <2>2. \A k \in 1..Len(s) : FrameOK(s[k]) /\ SimpleAt(s, k)
    BY <1>1, <2>1 DEF SimpleAt, Benign
  <2>3. Simple(s)
    BY <2>1, <2>2 DEF Simple
  <2> QED  BY <2>3 DEF s
<1>6. Simple(UnloadFrames(n)) /\ Simple(UnloadFrames(n) \o <<d>>)
  BY <1>2, <1>3, <1>4
<1> QED  BY <1>6 DEF d

ReloadFrames(n) ==
  UnloadFrames(n) \o <<F("rediscover", n), [F("load", n) EXCEPT !.with = TRUE], F("hot", n), F("restart", n)>>

\* reload_plugin.
LEMMA ReloadSimple ==
  ASSUME NEW n \in Plugin
  PROVE  Simple(ReloadFrames(n)) /\ Len(ReloadFrames(n)) = 7 /\ ReloadFrames(n)[1].op = "stop"
<1> DEFINE a == F("stop", n)
           b == F("cleanup", n)
           c == F("pop", n)
           d == F("rediscover", n)
           e == [F("load", n) EXCEPT !.with = TRUE]
           g == F("hot", n)
           h == F("restart", n)
<1>1. /\ a \in Frame /\ a.op = "stop" /\ a.n = n /\ FrameOK(a)
      /\ b \in Frame /\ b.op = "cleanup" /\ b.n = n /\ FrameOK(b)
      /\ c \in Frame /\ c.op = "pop" /\ c.n = n /\ FrameOK(c)
  BY OwnFrame DEF Op, HasObject, AllOps
<1>2. /\ d \in Frame /\ d.op = "rediscover" /\ d.n = n /\ FrameOK(d)
      /\ g \in Frame /\ g.op = "hot" /\ g.n = n /\ FrameOK(g)
      /\ h \in Frame /\ h.op = "restart" /\ h.n = n /\ FrameOK(h)
  BY OwnFrame DEF Op, HasObject, AllOps
<1>3. e \in Frame /\ e.op = "load" /\ e.n = n
  BY DEF F, Frame, Op, None
<1>4. FrameOK(e)
  <2>1. n # All
    BY PluginAssumption
  <2> QED  BY <1>3, <2>1 DEF FrameOK, HasObject, AllOps
<1>5. UnloadFrames(n) = <<a, b, c>>
  BY DEF UnloadFrames
<1> HIDE DEF a, b, c, d, e, g, h
<1>6. LET s == <<a, b, c>> \o <<d, e, g, h>> IN Simple(s) /\ Len(s) = 7 /\ s[1].op = "stop"
  <2> DEFINE x == <<a, b, c>>
             y == <<d, e, g, h>>
             s == x \o y
  <2>0. /\ x \in Seq(Frame) /\ Len(x) = 3 /\ x[1] = a /\ x[2] = b /\ x[3] = c
        /\ y \in Seq(Frame) /\ Len(y) = 4 /\ y[1] = d /\ y[2] = e /\ y[3] = g /\ y[4] = h
    BY <1>1, <1>2, <1>3
  <2>1. s \in Seq(Frame) /\ Len(s) = 7 /\ s[1] = a /\ s[2] = b /\ s[3] = c /\ s[4] = d /\ s[5] = e /\ s[6] = g /\ s[7] = h
    <3> HIDE DEF x, y
    <3>1. /\ s \in Seq(Frame) /\ Len(s) = Len(x) + Len(y)
          /\ (\A k \in 1..Len(x) : s[k] = x[k]) /\ \A k \in 1..Len(y) : s[Len(x) + k] = y[k]
      BY <2>0, ConcatFrames
    <3> HIDE DEF s
    <3>2. s[1] = x[1] /\ s[2] = x[2] /\ s[3] = x[3]
      BY <2>0, <3>1
    <3>3. s[3 + 1] = y[1] /\ s[3 + 2] = y[2] /\ s[3 + 3] = y[3] /\ s[3 + 4] = y[4]
      BY <2>0, <3>1
    <3> QED  BY <2>0, <3>1, <3>2, <3>3
  <2> HIDE DEF s
  <2>2. \A k \in 1..Len(s) : k \in {1, 2, 3, 4, 5, 6, 7}
    BY <2>1
  <2>3. \A k \in {1, 2, 3, 4, 5, 6, 7} : FrameOK(s[k])
    BY <1>1, <1>2, <1>3, <1>4, <2>1
  <2>4. \A k \in {1, 2, 3} : SimpleAt(s, k)
    BY <1>1, <2>1 DEF SimpleAt, Benign
  <2>5. \A k \in {4, 5, 6, 7} : SimpleAt(s, k)
    BY <1>2, <1>3, <2>1 DEF SimpleAt, Benign
  <2>6. Simple(s)
    BY <2>1, <2>2, <2>3, <2>4, <2>5 DEF Simple
  <2> QED  BY <1>1, <2>1, <2>6 DEF s
<1>8. ReloadFrames(n) = <<a, b, c>> \o <<d, e, g, h>>
  BY <1>5 DEF ReloadFrames, d, e, g, h
<1> QED  BY <1>6, <1>8

\* cleanup_all_plugins, and start_all_plugins.
LEMMA AllSimple ==
  Simple(CleanupAll) /\ Simple(<<F("startall", All), F("startedon", All)>>)
<1> DEFINE a == F("cleanupall", All)
           b == F("clear", All)
           c == F("startall", All)
           d == F("startedon", All)
<1>1. /\ a \in Frame /\ a.op = "cleanupall" /\ FrameOK(a)
      /\ b \in Frame /\ b.op = "clear" /\ FrameOK(b)
      /\ c \in Frame /\ c.op = "startall" /\ FrameOK(c)
      /\ d \in Frame /\ d.op = "startedon" /\ FrameOK(d)
  BY AllFrame DEF AllOps
<1>2. CleanupAll = <<a, b>>
  BY DEF CleanupAll
<1> HIDE DEF a, b, c, d
<1>3. Simple(<<a, b>>)
  <2> DEFINE s == <<a, b>>
  <2>1. s \in Seq(Frame) /\ Len(s) = 2 /\ s[1] = a /\ s[2] = b
    BY <1>1
  <2> HIDE DEF s
  <2>2. \A k \in 1..Len(s) : FrameOK(s[k]) /\ SimpleAt(s, k)
    BY <1>1, <2>1 DEF SimpleAt, Benign
  <2>3. Simple(s)
    BY <2>1, <2>2 DEF Simple
  <2> QED  BY <2>3 DEF s
<1>4. Simple(<<c, d>>)
  <2> DEFINE s == <<c, d>>
  <2>1. s \in Seq(Frame) /\ Len(s) = 2 /\ s[1] = c /\ s[2] = d
    BY <1>1
  <2> HIDE DEF s
  <2>2. \A k \in 1..Len(s) : FrameOK(s[k]) /\ SimpleAt(s, k)
    BY <1>1, <2>1 DEF SimpleAt, Benign
  <2>3. Simple(s)
    BY <2>1, <2>2 DEF Simple
  <2> QED  BY <2>3 DEF s
<1> QED  BY <1>2, <1>3, <1>4 DEF c, d

\* Benign frames in front of a list that is in order.
LEMMA PrefixSimple ==
  ASSUME NEW a \in Seq(Frame), \A k \in 1..Len(a) : FrameOK(a[k]) /\ a[k].op \in Benign,
         NEW b, Simple(b)
  PROVE  Simple(a \o b)
<1> DEFINE r == a \o b
<1>0. b \in Seq(Frame) /\ \A k \in 1..Len(b) : FrameOK(b[k]) /\ SimpleAt(b, k)
  BY DEF Simple
<1>1. Len(a) \in Nat /\ Len(b) \in Nat
  BY <1>0, StackFacts
<1>2. r \in Seq(Frame) /\ Len(r) = Len(a) + Len(b) /\ \A k \in 1..Len(a) : r[k] = a[k]
  BY <1>0, ConcatFrames
<1>3. \A k \in 1..Len(b) : r[Len(a) + k] = b[k]
  BY <1>0, ConcatFrames
<1> HIDE DEF r
<1>4. ASSUME NEW k \in 1..Len(r) PROVE FrameOK(r[k]) /\ SimpleAt(r, k)
  <2>1. CASE k \in 1..Len(a)
    BY <2>1, <1>2 DEF SimpleAt, Benign
  <2>2. CASE k \notin 1..Len(a)
    <3>1. PICK j \in 1..Len(b) : k = Len(a) + j
      <4>1. k - Len(a) \in 1..Len(b) /\ k = Len(a) + (k - Len(a))
        BY <2>2, <1>1, <1>2
      <4> QED  BY <4>1
    <3>2. r[k] = b[j] /\ FrameOK(b[j]) /\ SimpleAt(b, j)
      BY <3>1, <1>0, <1>3
    <3>3. j + 1 \in 1..Len(b) => k + 1 \in 1..Len(r) /\ r[k + 1] = b[j + 1]
      <4>1. k + 1 = Len(a) + (j + 1)
        BY <3>1, <1>1
      <4>2. j + 1 \in 1..Len(b) => k + 1 \in 1..Len(r)
        BY <3>1, <1>1, <1>2
      <4> QED  BY <4>1, <4>2, <1>3
    <3>4. j - 1 \in 1..Len(b) => k - 1 \in 1..Len(r) /\ r[k - 1] = b[j - 1]
      <4>1. k - 1 = Len(a) + (j - 1)
        BY <3>1, <1>1
      <4>2. j - 1 \in 1..Len(b) => k - 1 \in 1..Len(r)
        BY <3>1, <1>1, <1>2
      <4> QED  BY <4>1, <4>2, <1>3
    <3> HIDE DEF FrameOK
    <3>5. SimpleAt(r, k)
      BY <3>2, <3>3, <3>4 DEF SimpleAt
    <3> QED  BY <3>2, <3>5
  <2> QED  BY <2>1, <2>2
<1> QED
  BY <1>2, <1>4 DEF Simple, r

\* The listings of stop_all_plugins.
LEMMA ResolvedSeq ==
  ASSUME registered \in SUBSET Plugin, NEW order \in Resolved
  PROVE  order \in Seq(Plugin)
<1>1. CASE order \in SetToSeqs(registered)
  <2>1. order \in Seq(registered)
    BY <1>1, ListingOf
  <2> QED  BY <2>1
<1>2. CASE order = <<>>
  BY <1>2
<1> QED
  BY <1>1, <1>2 DEF Resolved, InLoadOrder

\* stop_all_plugins, and shutdown.
LEMMA StopSimple ==
  ASSUME NEW order \in Seq(Plugin)
  PROVE  Simple(StopAll(order)) /\ Simple(StopAll(order) \o CleanupAll \o <<F("wipe", All)>>)
<1> DEFINE back == Reverse(order)
           e == Each("stop", back)
           a == F("stopleft", All)
           b == F("startedoff", All)
           c == F("cleanupall", All)
           d == F("clear", All)
           w == F("wipe", All)
<1>1. back \in Seq(Plugin)
  <2>1. Len(order) \in Nat /\ \A k \in 1..Len(order) : order[k] \in Plugin
    BY ElementOfSeq
  <2>2. \A k \in 1..Len(order) : (Len(order) - k) + 1 \in 1..Len(order)
    BY <2>1
  <2>3. back \in [1..Len(order) -> Plugin]
    BY <2>1, <2>2 DEF Reverse
  <2> QED  BY <2>1, <2>3
<1> HIDE DEF back
<1>2. e \in Seq(Frame) /\ \A k \in 1..Len(e) : FrameOK(e[k]) /\ e[k].op \in Benign
  <2>1. "stop" \in Op \ (HasObject \cup AllOps) /\ "stop" \in Benign
    BY DEF Op, HasObject, AllOps, Benign
  <2> QED  BY <1>1, <2>1, EachFacts
<1>3. /\ a \in Frame /\ a.op = "stopleft" /\ FrameOK(a)
      /\ b \in Frame /\ b.op = "startedoff" /\ FrameOK(b)
      /\ c \in Frame /\ c.op = "cleanupall" /\ FrameOK(c)
      /\ d \in Frame /\ d.op = "clear" /\ FrameOK(d)
      /\ w \in Frame /\ w.op = "wipe" /\ FrameOK(w)
  BY AllFrame DEF AllOps
<1>4. StopAll(order) = e \o <<a, b>> /\ CleanupAll = <<c, d>>
  BY DEF StopAll, CleanupAll, back
<1> HIDE DEF e, a, b, c, d, w
<1> DEFINE p == e \o <<a, b>>
           q == <<c, d>> \o <<w>>
<1>5. p \in Seq(Frame) /\ \A k \in 1..Len(p) : FrameOK(p[k]) /\ p[k].op \in Benign
  <2> DEFINE y == <<a, b>>
  <2>1. y \in Seq(Frame) /\ Len(y) = 2 /\ y[1] = a /\ y[2] = b
    BY <1>3
  <2> HIDE DEF y
  <2>2. /\ e \o y \in Seq(Frame) /\ Len(e \o y) = Len(e) + Len(y)
        /\ (\A k \in 1..Len(e) : (e \o y)[k] = e[k]) /\ \A k \in 1..Len(y) : (e \o y)[Len(e) + k] = y[k]
    BY <1>2, <2>1, ConcatFrames
  <2>3. Len(e) \in Nat
    BY <1>2, StackFacts
  <2> DEFINE z == e \o y
  <2> HIDE DEF z
  <2>4. \A k \in 1..Len(z) : k \in 1..Len(e) \/ k = Len(e) + 1 \/ k = Len(e) + 2
    BY <2>1, <2>2, <2>3 DEF z
  <2>5. z[Len(e) + 1] = a /\ z[Len(e) + 2] = b
    <3>1. 1 \in 1..Len(y) /\ 2 \in 1..Len(y)
      BY <2>1
    <3> QED  BY <2>1, <2>2, <3>1 DEF z
  <2>6. \A k \in 1..Len(e) : z[k] = e[k]
    BY <2>2 DEF z
  <2>7. \A k \in 1..Len(z) : FrameOK(z[k]) /\ z[k].op \in Benign
    BY <1>2, <1>3, <2>4, <2>5, <2>6 DEF Benign
  <2> QED  BY <2>2, <2>7 DEF z, y
<1>6. Simple(q) /\ q \in Seq(Frame)
  <2> DEFINE x == <<c, d>>
             y == <<w>>
  <2>1. x \in Seq(Frame) /\ Len(x) = 2 /\ x[1] = c /\ x[2] = d /\ y \in Seq(Frame) /\ Len(y) = 1 /\ y[1] = w
    BY <1>3
  <2> HIDE DEF x, y
  <2> DEFINE s == x \o y
  <2>2. /\ s \in Seq(Frame) /\ Len(s) = Len(x) + Len(y)
        /\ (\A k \in 1..Len(x) : s[k] = x[k]) /\ \A k \in 1..Len(y) : s[Len(x) + k] = y[k]
    BY <2>1, ConcatFrames
  <2> HIDE DEF s
  <2>3. Len(s) = 3 /\ s[1] = c /\ s[2] = d /\ s[3] = w
    BY <2>1, <2>2
  <2>4. \A k \in 1..Len(s) : FrameOK(s[k]) /\ SimpleAt(s, k)
    BY <1>3, <2>3 DEF SimpleAt, Benign
  <2>5. Simple(s)
    BY <2>2, <2>4 DEF Simple
  <2> QED  BY <2>2, <2>5 DEF s, x, y
<1>7. (p \o <<c, d>>) \o <<w>> = p \o q
  <2>1. <<c, d>> \in Seq(Frame) /\ <<w>> \in Seq(Frame)
    BY <1>3
  <2> HIDE DEF p
  <2> QED  BY <1>5, <2>1, ConcatAssociative
<1>8. Simple(p)
  <2> HIDE DEF p
  <2> QED  BY <1>5, BenignSimple
<1>9. Simple(p \o q)
  <2> HIDE DEF p, q
  <2> QED  BY <1>5, <1>6, PrefixSimple
<1> QED
  BY <1>4, <1>7, <1>8, <1>9 DEF w

\* load_all_plugins.
LEMMA LoadAllSimple ==
  Simple(Each("load", LoadOrder) \o <<F("watch", All)>>)
<1> DEFINE e == Each("load", LoadOrder)
           y == <<F("watch", All)>>
<1>1. LoadOrder \in Seq(Plugin)
  BY PluginAssumption, ListingOf
<1>2. "load" \in Op \ (HasObject \cup AllOps) /\ "load" \in Benign
  BY DEF Op, HasObject, AllOps, Benign
<1>3. e \in Seq(Frame) /\ \A k \in 1..Len(e) : FrameOK(e[k]) /\ e[k].op \in Benign
  BY <1>1, <1>2, EachFacts
<1>4. Simple(y)
  <2>1. F("watch", All) \in Frame /\ F("watch", All).op = "watch" /\ FrameOK(F("watch", All))
    BY AllFrame DEF AllOps
  <2>2. y \in Seq(Frame) /\ Len(y) = 1 /\ y[1] = F("watch", All)
    BY <2>1
  <2> HIDE DEF y
  <2>3. \A k \in 1..Len(y) : FrameOK(y[k]) /\ y[k].op \in Benign
    BY <2>1, <2>2 DEF Benign
  <2> QED  BY <2>2, <2>3, BenignSimple
<1>5. Simple(e \o y)
  <2> HIDE DEF e, y
  <2> QED  BY <1>3, <1>4, PrefixSimple
<1> QED
  BY <1>5

-----------------------------------------------------------------------------
(* What a thread has still to run after a step *)

(* The thread is at the beginning of a piece of work.                      *)
Calm(r) == ~Sweep(r) /\ (r # <<>> => r[1].op \notin HasObject \cup {"pop", "wipe"})

\* A call begins calmly.
LEMMA SimpleCalm ==
  ASSUME NEW s, Simple(s)
  PROVE  Calm(s)
<1>1. ~Sweep(s)
  BY SimpleGood
<1>2. ASSUME s # <<>> PROVE s[1].op \notin HasObject \cup {"pop", "wipe"}
  <2>1. Len(s) \in Nat /\ 1 \in 1..Len(s)
    BY <1>2, StackFacts DEF Simple
  <2>2. SimpleAt(s, 1) /\ 1 - 1 \notin 1..Len(s)
    BY <2>1 DEF Simple
  <2> QED  BY <2>2 DEF SimpleAt, Benign, HasObject
<1> QED
  BY <1>1, <1>2 DEF Calm

\* A frame that is no clean-up and not the end of one.
LEMMA HeadCalm ==
  ASSUME NEW r, GoodStack(r), r # <<>>, r[1].op \notin CleanOps \cup {"clear", "pop", "wipe"} \cup HasObject
  PROVE  Calm(r)
<1>1. Len(r) \in Nat /\ Len(r) # 0
  BY StackFacts DEF GoodStack
<1>2. ASSUME NEW k \in 1..Len(r), SweepAt(r, k) PROVE FALSE
  <2>1. k = 1 \/ 1 \in 1..(k - 1)
    BY <1>1
  <2> QED  BY <1>2, <2>1 DEF SweepAt
<1> QED
  BY <1>2 DEF Calm, Sweep

\* What is left when frames up to the c-th are taken away.
LEMMA SuffixCalm ==
  ASSUME NEW r, NEW s, NEW c, Suffix(r, s, c), GoodStack(s), c # 0,
         s[c].op \notin CleanOps \cup {"cleanupall"}
  PROVE  /\ ~Sweep(r)
         /\ r # <<>> => r[1].op \notin HasObject \cup {"pop"}
         /\ s[c].op # "clear" => Calm(r)
<1>1. /\ r \in Seq(Frame) /\ s \in Seq(Frame) /\ c \in 0..Len(s) /\ Len(r) = Len(s) - c
      /\ \A k \in 1..Len(r) : r[k] = s[k + c]
  BY DEF Suffix
<1>2. Len(s) \in Nat /\ Len(r) \in Nat /\ c \in 1..Len(s)
  BY <1>1, StackFacts
<1>3. \A k \in 1..Len(s) : At(s, k)
  BY DEF GoodStack, Shape, At
<1>4. ASSUME NEW k \in 1..Len(r), SweepAt(r, k) PROVE FALSE
  <2>1. PICK K \in 1..Len(s) : K = k + c
    BY <1>1, <1>2
  <2>2. s[K].op = "clear"
    BY <1>1, <1>4, <2>1 DEF SweepAt
  <2>3. c \in 1..(K - 1)
    BY <1>2, <2>1
  <2>4. s[K - 1].op = "cleanupall"
    BY <1>3, <2>2, <2>3 DEF At, ClearAt
  <2>5. CASE k = 1
    <3>1. K - 1 = c
      BY <2>1, <2>5, <1>2
    <3> QED  BY <2>4, <3>1
  <2>6. CASE k # 1
    <3>1. k - 1 \in 1..Len(r) /\ k - 1 \in 1..(k - 1) /\ (k - 1) + c = K - 1
      BY <2>1, <2>6, <1>2
    <3>2. r[k - 1] = s[K - 1]
      BY <3>1, <1>1
    <3>3. r[k - 1].op \in CleanOps
      BY <3>1, <1>4 DEF SweepAt
    <3> QED  BY <3>2, <3>3, <2>4 DEF CleanOps
  <2> QED  BY <2>5, <2>6
<1>5. ~Sweep(r)
  BY <1>4 DEF Sweep
<1>6. ASSUME r # <<>>
      PROVE  r[1].op \notin HasObject \cup {"pop"} /\ (s[c].op # "clear" => r[1].op # "wipe")
  <2>1. 1 \in 1..Len(r) /\ 1 + c \in 1..Len(s) /\ 1 + c > 1 /\ (1 + c) - 1 = c
    BY <1>1, <1>2, <1>6, StackFacts
  <2>2. r[1] = s[1 + c] /\ At(s, 1 + c)
    BY <1>1, <1>3, <2>1
  <2>3. r[1].op \notin HasObject
    BY <2>1, <2>2 DEF At, ObjectAt
  <2>4. r[1].op # "pop"
    BY <2>1, <2>2 DEF At, PopAt
  <2>5. r[1].op = "wipe" => s[c].op = "clear"
    BY <2>1, <2>2 DEF At, WipeAt
  <2> QED  BY <2>3, <2>4, <2>5
<1> QED
  BY <1>5, <1>6 DEF Calm

\* A thread has one "unlock" frame at most: what follows it is outside
\* load_plugin.
LEMMA OneUnlock ==
  ASSUME NEW s, GoodStack(s), NEW k \in 1..Len(s), s[k].op = "unlock"
  PROVE  \A j \in 1..Len(s) : s[j].op = "unlock" => j = k
<1>1. Len(s) \in Nat /\ \A j \in 1..Len(s) : UnlockAt(s, j)
  BY StackFacts DEF GoodStack, Shape
<1>2. ASSUME NEW j \in 1..Len(s), s[j].op = "unlock", j # k PROVE FALSE
  <2>1. j \in 1..(k - 1) \/ k \in 1..(j - 1)
    BY <1>1, <1>2
  <2> QED  BY <1>1, <1>2, <2>1 DEF UnlockAt, Inside
<1> QED
  BY <1>2

\* Frames are taken away, the "unlock" frame among them or none.
LEMMA SuffixUnlock ==
  ASSUME NEW r, NEW s, NEW c, Suffix(r, s, c), GoodStack(s)
  PROVE  /\ (\E k \in 1..c : s[k].op = "unlock") => ~HasUnlock(r)
         /\ (\A k \in 1..c : s[k].op # "unlock") => (HasUnlock(r) <=> HasUnlock(s))
         /\ ~HasUnlock(s) => ~HasUnlock(r)
<1>1. /\ r \in Seq(Frame) /\ s \in Seq(Frame) /\ c \in 0..Len(s) /\ Len(r) = Len(s) - c
      /\ \A k \in 1..Len(r) : r[k] = s[k + c]
  BY DEF Suffix
<1>2. Len(s) \in Nat /\ Len(r) \in Nat /\ c \in Nat
  BY <1>1, StackFacts
<1>3. ASSUME NEW k \in 1..c, s[k].op = "unlock" PROVE ~HasUnlock(r)
  <2>1. k \in 1..Len(s)
    BY <1>1, <1>2
  <2>2. ASSUME NEW j \in 1..Len(r), r[j].op = "unlock" PROVE FALSE
    <3>1. j + c \in 1..Len(s) /\ j + c # k
      BY <1>1, <1>2
    <3>2. s[j + c].op = "unlock"
      BY <1>1, <2>2
    <3> QED  BY <1>3, <2>1, <3>1, <3>2, OneUnlock
  <2> QED  BY <2>2 DEF HasUnlock
<1>4. ASSUME HasUnlock(r) PROVE HasUnlock(s)
  <2>1. PICK j \in 1..Len(r) : r[j].op = "unlock"
    BY <1>4 DEF HasUnlock
  <2>2. j + c \in 1..Len(s) /\ s[j + c].op = "unlock"
    BY <1>1, <1>2, <2>1
  <2> QED  BY <2>2 DEF HasUnlock
<1>5. ASSUME HasUnlock(s), \A k \in 1..c : s[k].op # "unlock" PROVE HasUnlock(r)
  <2>1. PICK k \in 1..Len(s) : s[k].op = "unlock"
    BY <1>5 DEF HasUnlock
  <2>2. k \notin 1..c
    BY <1>5, <2>1
  <2>3. k - c \in 1..Len(r) /\ (k - c) + c = k
    BY <1>1, <1>2, <2>2
  <2>4. r[k - c] = s[k]
    BY <1>1, <2>3
  <2> QED  BY <2>1, <2>3, <2>4 DEF HasUnlock
<1> QED
  BY <1>3, <1>4, <1>5

(* A thread at the end of a frame, with what is left when the first c are  *)
(* taken away.                                                             *)
Dropped(t, c, r) ==
  /\ Suffix(r, todo[t], c) /\ GoodStack(r) /\ c # 0
  /\ todo' = [todo EXCEPT ![t] = r]
  /\ lock' = IF HasUnlock(todo[t]) /\ ~HasUnlock(r) THEN None ELSE lock

\* A frame ends without an error, outside load_plugin or in the middle of it.
LEMMA PassDrops ==
  ASSUME NEW t \in Thread, GoodStack(todo[t]), todo[t] # <<>>, todo[t][1].op # "unlock",
         Pass(t), lock' = lock
  PROVE  Dropped(t, 1, Tail(todo[t]))
<1> DEFINE s == todo[t]
<1>1. s \in Seq(Frame)
  BY DEF GoodStack
<1>2. Suffix(Tail(s), s, 1)
  BY <1>1, TailIsSuffix
<1>3. GoodStack(Tail(s))
  BY <1>2, SuffixGood
<1>4. HasUnlock(Tail(s)) <=> HasUnlock(s)
  BY <1>2, SuffixUnlock
<1>5. todo' = [todo EXCEPT ![t] = Tail(s)]
  BY DEF Pass
<1> QED
  BY <1>2, <1>3, <1>4, <1>5 DEF Dropped

\* A frame of load_plugin ends.
LEMMA ContinueDrops ==
  ASSUME NEW t \in Thread, GoodStack(todo[t]), todo[t] # <<>>, todo[t][1].op # "unlock",
         Continue(t, Tail(todo[t]))
  PROVE  \E c \in 1..Len(todo[t]), r \in Seq(Frame) :
           /\ Dropped(t, c, r)
           /\ c = 1 \/ (c = 2 /\ todo[t][2].op = "unlock")
<1> DEFINE s == todo[t]
           z == Tail(s)
<1>1. s \in Seq(Frame) /\ Len(s) \in Nat /\ Len(s) # 0
  BY StackFacts DEF GoodStack
<1>2. Suffix(z, s, 1) /\ z \in Seq(Frame)
  BY <1>1, TailIsSuffix, HeadTailProperties
<1>3. GoodStack(z)
  BY <1>2, SuffixGood
<1> HIDE DEF s
<1>4. CASE z # <<>> /\ z[1].op = "unlock"
  <2> DEFINE r == Tail(z)
  <2>1. todo' = [todo EXCEPT ![t] = r] /\ lock' = None
    BY <1>4 DEF Continue, s
  <2> HIDE DEF z
  <2>2. Suffix(r, z, 1) /\ r \in Seq(Frame)
    BY <1>2, <1>4, TailIsSuffix, HeadTailProperties
  <2>3. Len(z) \in Nat /\ Len(z) # 0
    BY <1>2, <1>4, StackFacts
  <2>4. Suffix(r, s, 2)
    <3> HIDE DEF r
    <3>1. Len(r) = Len(s) - 2 /\ 2 \in 0..Len(s) /\ s \in Seq(Frame)
      BY <1>1, <1>2, <2>2, <2>3 DEF Suffix
    <3>2. ASSUME NEW k \in 1..Len(r) PROVE r[k] = s[k + 2]
      <4>1. r[k] = z[k + 1]
        BY <2>2 DEF Suffix
      <4>2. k + 1 \in 1..Len(z) /\ (k + 1) + 1 = k + 2
        BY <1>1, <2>2, <2>3 DEF Suffix
      <4>3. z[k + 1] = s[(k + 1) + 1]
        BY <1>2, <4>2 DEF Suffix
      <4> QED  BY <4>1, <4>2, <4>3
    <3> QED  BY <2>2, <3>1, <3>2 DEF Suffix
  <2> HIDE DEF r
  <2>5. 2 \in 1..Len(s) /\ s[2].op = "unlock" /\ 2 \in 1..2
    <3>1. 1 \in 1..Len(z) /\ Len(z) = Len(s) - 1
      BY <1>2, <2>3 DEF Suffix
    <3>2. z[1] = s[1 + 1]
      BY <1>2, <3>1 DEF Suffix
    <3>3. 2 \in 1..Len(s) /\ 1 + 1 = 2 /\ 2 \in 1..2
      BY <1>1, <3>1
    <3> QED  BY <1>4, <3>2, <3>3
  <2>6. GoodStack(s)
    BY DEF s
  <2>7. HasUnlock(s) /\ ~HasUnlock(r)
    BY <2>4, <2>5, <2>6, SuffixUnlock DEF HasUnlock
  <2>8. GoodStack(r)
    BY <2>4, <2>6, SuffixGood
  <2>9. Dropped(t, 2, r)
    BY <2>1, <2>4, <2>7, <2>8 DEF Dropped, s
  <2> QED  BY <2>2, <2>5, <2>9 DEF s
<1>5. CASE ~(z # <<>> /\ z[1].op = "unlock")
  <2>1. todo' = [todo EXCEPT ![t] = z] /\ lock' = lock
    BY <1>5 DEF Continue, s
  <2>2. HasUnlock(z) <=> HasUnlock(s)
    <3> HIDE DEF z
    <3> QED  BY <1>2, SuffixUnlock DEF s
  <2>3. Dropped(t, 1, z)
    BY <1>2, <1>3, <2>1, <2>2 DEF Dropped, s
  <2>4. 1 \in 1..Len(s)
    BY <1>1
  <2> QED  BY <1>2, <2>3, <2>4 DEF s
<1> QED
  BY <1>4, <1>5

\* The place of the "unlock" frame.
LEMMA FirstUnlock ==
  ASSUME NEW s \in Seq(Frame), NEW i, i = SelectInSeq(s, LAMBDA f : f.op = "unlock")
  PROVE  \/ i = 0 /\ ~HasUnlock(s)
         \/ i \in 1..Len(s) /\ s[i].op = "unlock"
<1> DEFINE I == {k \in 1..Len(s) : s[k].op = "unlock"}
<1>1. i = IF I # {} THEN Min(I) ELSE 0
  BY DEF SelectInSeq
<1>2. Len(s) \in Nat
  BY StackFacts
<1>3. I \in SUBSET Nat
  BY <1>2
<1>4. CASE I = {}
  BY <1>1, <1>4 DEF HasUnlock
<1>5. CASE I # {}
  <2>1. i \in I
    <3> HIDE DEF I
    <3> QED  BY <1>1, <1>3, <1>5, LeastNumber
  <2> QED  BY <2>1
<1> QED
  BY <1>4, <1>5

\* The place of the first frame that is not part of reload_plugin.
LEMMA FirstOther ==
  ASSUME NEW s \in Seq(Frame), NEW i, i = SelectInSeq(s, LAMBDA f : f.op \notin {"hot", "restart"})
  PROVE  \/ i = 0 /\ \A k \in 1..Len(s) : s[k].op \in {"hot", "restart"}
         \/ i \in 1..Len(s) /\ \A k \in 1..(i - 1) : s[k].op \in {"hot", "restart"}
<1> DEFINE I == {k \in 1..Len(s) : s[k].op \notin {"hot", "restart"}}
<1>1. i = IF I # {} THEN Min(I) ELSE 0
  BY DEF SelectInSeq
<1>2. Len(s) \in Nat
  BY StackFacts
<1>3. I \in SUBSET Nat
  BY <1>2
<1>4. CASE I = {}
  BY <1>1, <1>4
<1>5. CASE I # {}
  <2>1. i \in I /\ \A k \in I : i <= k
    <3> HIDE DEF I
    <3> QED  BY <1>1, <1>3, <1>5, LeastNumber
  <2>2. i \in 1..Len(s)
    BY <2>1
  <2>3. ASSUME NEW k \in 1..(i - 1) PROVE s[k].op \in {"hot", "restart"}
    <3>1. k \in 1..Len(s) /\ ~(i <= k)
      BY <1>2, <2>2
    <3> QED  BY <2>1, <3>1
  <2> QED  BY <2>2, <2>3
<1> QED
  BY <1>4, <1>5

\* Frames are taken away twice.
LEMMA SuffixTwice ==
  ASSUME NEW r, NEW z, NEW s, NEW b, NEW c, Suffix(r, z, b), Suffix(z, s, c)
  PROVE  Suffix(r, s, b + c)
<1>1. /\ r \in Seq(Frame) /\ z \in Seq(Frame) /\ b \in 0..Len(z) /\ Len(r) = Len(z) - b
      /\ \A k \in 1..Len(r) : r[k] = z[k + b]
  BY DEF Suffix
<1>2. /\ s \in Seq(Frame) /\ c \in 0..Len(s) /\ Len(z) = Len(s) - c
      /\ \A k \in 1..Len(z) : z[k] = s[k + c]
  BY DEF Suffix
<1>3. Len(s) \in Nat /\ Len(r) \in Nat /\ Len(z) \in Nat /\ b \in Nat /\ c \in Nat
  BY <1>1, <1>2, StackFacts
<1>4. b + c \in 0..Len(s) /\ Len(r) = Len(s) - (b + c)
  BY <1>1, <1>2, <1>3
<1>5. ASSUME NEW k \in 1..Len(r) PROVE r[k] = s[k + (b + c)]
  <2>1. k + b \in 1..Len(z) /\ (k + b) + c = k + (b + c)
    BY <1>1, <1>3
  <2> QED  BY <1>1, <1>2, <2>1
<1> QED
  BY <1>1, <1>2, <1>4, <1>5 DEF Suffix

\* The frames from a place on.
LEMMA SubSeqSuffix ==
  ASSUME NEW s \in Seq(Frame), NEW c \in 0..Len(s)
  PROVE  Suffix(SubSeq(s, c + 1, Len(s)), s, c)
<1> DEFINE r == SubSeq(s, c + 1, Len(s))
<1>1. Len(s) \in Nat /\ c \in Nat /\ \A k \in 1..Len(s) : s[k] \in Frame
  BY StackFacts
<1>2. c + 1 \in Int /\ Len(s) \in Int /\ \A k \in (c + 1)..Len(s) : s[k] \in Frame
  BY <1>1
<1>3. /\ r \in Seq(Frame) /\ Len(r) = IF c + 1 <= Len(s) THEN Len(s) - (c + 1) + 1 ELSE 0
      /\ \A i \in 1..(Len(s) - (c + 1) + 1) : r[i] = s[(c + 1) + i - 1]
  BY <1>2, SubSeqProperties
<1> HIDE DEF r
<1>4. Len(r) = Len(s) - c
  BY <1>1, <1>3
<1>5. ASSUME NEW k \in 1..Len(r) PROVE r[k] = s[k + c]
  <2>1. k \in 1..(Len(s) - (c + 1) + 1) /\ (c + 1) + k - 1 = k + c
    BY <1>1, <1>4
  <2> QED  BY <1>3, <2>1
<1>6. Suffix(r, s, c)
  BY <1>3, <1>4, <1>5 DEF Suffix
<1> QED  BY <1>6 DEF r

\* An exception ends frames of load_plugin and of reload_plugin only, and
\* leaves load_plugin.
LEMMA RaiseDrops ==
  ASSUME NEW t \in Thread, GoodStack(todo[t]), todo[t] # <<>>, todo[t][1].op # "unlock",
         Raise(t, Tail(todo[t]))
  PROVE  \E c \in 1..Len(todo[t]), r \in Seq(Frame) :
           /\ Dropped(t, c, r) /\ ~HasUnlock(r)
           /\ \A k \in 2..c : todo[t][k].op \in {"unlock", "hot", "restart"} \cup (IF HasUnlock(todo[t]) THEN Inside ELSE {})
<1> DEFINE s == todo[t]
           z == Tail(s)
           out == SelectInSeq(z, LAMBDA f : f.op = "unlock")
           y == SubSeq(z, out + 1, Len(z))
           next == SelectInSeq(y, LAMBDA f : f.op \notin {"hot", "restart"})
           r == IF next = 0 THEN <<>> ELSE SubSeq(y, next, Len(y))
<1>0. todo' = [todo EXCEPT ![t] = r] /\ lock' = IF out = 0 THEN lock ELSE None
  BY DEF Raise
<1>1. s \in Seq(Frame) /\ Len(s) \in Nat /\ Len(s) # 0 /\ GoodStack(s) /\ s # <<>>
  BY StackFacts DEF GoodStack
<1>2. Suffix(z, s, 1) /\ z \in Seq(Frame) /\ Len(z) \in Nat
  BY <1>1, TailIsSuffix, HeadTailProperties, StackFacts
<1>3. s[1].op # "unlock"
  OBVIOUS
<1>4. (out = 0 /\ ~HasUnlock(z)) \/ (out \in 1..Len(z) /\ z[out].op = "unlock")
  <2> HIDE DEF z
  <2> QED  BY <1>2, FirstUnlock
<1>5. out \in 0..Len(z)
  <2> HIDE DEF out
  <2> QED  BY <1>2, <1>4
<1>6. Suffix(y, z, out)
  <2> HIDE DEF out, z
  <2> QED  BY <1>2, <1>5, SubSeqSuffix
<1>7. y \in Seq(Frame) /\ Len(y) \in Nat /\ Len(y) = Len(z) - out
  BY <1>6, StackFacts DEF Suffix
<1>8. \/ next = 0 /\ \A k \in 1..Len(y) : y[k].op \in {"hot", "restart"}
      \/ next \in 1..Len(y) /\ \A k \in 1..(next - 1) : y[k].op \in {"hot", "restart"}
  <2> HIDE DEF y
  <2> QED  BY <1>7, FirstOther
<1> HIDE DEF s, z, out, y, next
<1>9. PICK e \in 0..Len(y) : Suffix(r, y, e) /\ \A k \in 1..e : y[k].op \in {"hot", "restart"}
  <2>1. CASE next = 0
    <3>1. r = <<>> /\ Len(r) = 0 /\ r \in Seq(Frame)
      BY <2>1
    <3>2. Len(y) \in 0..Len(y) /\ Len(r) = Len(y) - Len(y) /\ 1..Len(r) = {}
      BY <1>7, <3>1
    <3>3. Suffix(r, y, Len(y))
      BY <1>7, <3>1, <3>2 DEF Suffix
    <3> QED  BY <1>8, <2>1, <3>2, <3>3, <1>7
  <2>2. CASE next # 0
    <3>1. next \in 1..Len(y) /\ \A k \in 1..(next - 1) : y[k].op \in {"hot", "restart"}
      BY <1>8, <2>2
    <3>2. next - 1 \in 0..Len(y) /\ (next - 1) + 1 = next
      BY <1>7, <3>1
    <3>3. Suffix(SubSeq(y, (next - 1) + 1, Len(y)), y, next - 1)
      BY <1>7, <3>2, SubSeqSuffix
    <3> QED  BY <2>2, <3>1, <3>2, <3>3
  <2> QED  BY <2>1, <2>2
<1> HIDE DEF r
<1>10. Suffix(r, z, e + out)
  BY <1>6, <1>9, SuffixTwice
<1>11. PICK c \in 1..Len(s) : c = (e + out) + 1 /\ Suffix(r, s, c)
  <2>1. Suffix(r, s, (e + out) + 1)
    BY <1>2, <1>10, SuffixTwice
  <2>2. (e + out) + 1 \in 1..Len(s)
    BY <1>1, <1>2, <1>5, <1>7, <1>9, <2>1 DEF Suffix
  <2> QED  BY <2>1, <2>2
<1>12. GoodStack(r) /\ r \in Seq(Frame)
  BY <1>1, <1>11, SuffixGood DEF GoodStack
<1>13. \A k \in 1..Len(z) : z[k] = s[k + 1]
  BY <1>2 DEF Suffix
<1>14. HasUnlock(z) <=> HasUnlock(s)
  <2>1. \A k \in 1..1 : s[k].op # "unlock"
    BY <1>3 DEF s
  <2> QED  BY <1>1, <1>2, <2>1, SuffixUnlock
<1>15. out # 0 => HasUnlock(s) /\ out + 1 \in 1..c /\ s[out + 1].op = "unlock" /\ out \in 1..Len(z)
  <2> SUFFICES ASSUME out # 0 PROVE HasUnlock(s) /\ out + 1 \in 1..c /\ s[out + 1].op = "unlock" /\ out \in 1..Len(z)
    OBVIOUS
  <2>1. out \in 1..Len(z) /\ z[out].op = "unlock"
    BY <1>4
  <2>2. out + 1 \in 1..c
    BY <1>2, <1>9, <1>11, <2>1, <1>7
  <2> QED  BY <2>1, <2>2, <1>13, <1>14 DEF HasUnlock
<1>16. ~HasUnlock(r)
  <2>1. CASE out = 0
    BY <2>1, <1>4, <1>14, <1>1, <1>11, SuffixUnlock
  <2>2. CASE out # 0
    BY <2>2, <1>1, <1>11, <1>15, SuffixUnlock
  <2> QED  BY <2>1, <2>2
<1>17. lock' = IF HasUnlock(s) /\ ~HasUnlock(r) THEN None ELSE lock
  BY <1>0, <1>4, <1>14, <1>15, <1>16
<1>18. ASSUME NEW k \in 2..c
       PROVE  s[k].op \in {"unlock", "hot", "restart"} \cup (IF HasUnlock(s) THEN Inside ELSE {})
  <2>1. CASE k \in 1..out
    <3>1. out # 0 /\ k \in 1..((out + 1) - 1) /\ out + 1 \in 1..Len(s)
      BY <2>1, <1>1, <1>5, <1>2 DEF Suffix
    <3>2. UnlockAt(s, out + 1)
      BY <1>1, <3>1 DEF GoodStack, Shape
    <3> QED  BY <1>15, <3>1, <3>2 DEF UnlockAt
  <2>2. CASE k = out + 1
    <3>1. out # 0
      BY <2>2, <1>5
    <3> QED  BY <3>1, <2>2, <1>15
  <2>3. CASE k \notin 1..(out + 1)
    <3>1. PICK j \in 1..e : j = k - (out + 1)
      BY <2>3, <1>2, <1>5, <1>7, <1>9, <1>11
    <3>2. j \in 1..Len(y) /\ j + out \in 1..Len(z) /\ (j + out) + 1 = k
      BY <3>1, <1>2, <1>5, <1>7, <1>9
    <3>3. y[j] = z[j + out]
      BY <3>2, <1>6 DEF Suffix
    <3>4. z[j + out] = s[(j + out) + 1]
      BY <3>2, <1>13
    <3> QED  BY <3>1, <3>2, <3>3, <3>4, <1>9
  <2> QED  BY <2>1, <2>2, <2>3, <1>5
<1>19. Dropped(t, c, r)
  BY <1>0, <1>11, <1>12, <1>17 DEF Dropped, s
<1> QED
  BY <1>11, <1>12, <1>16, <1>18, <1>19 DEF s

(* The frames that load_plugin of n leads to, with the dependencies deps.  *)
LoadFrames(f, deps, inside) ==
  Each("need", deps) \o <<[f EXCEPT !.op = "make"]>> \o (IF inside THEN <<>> ELSE <<F("unlock", f.n)>>)

\* What these frames are.
LEMMA LoadFramesAre ==
  ASSUME NEW f \in Frame, f.op = "load", FrameOK(f), NEW deps \in InLoadOrder(Reach(f.n)), NEW inside \in BOOLEAN,
         NEW new, new = LoadFrames(f, deps, inside)
  PROVE  /\ f.n \in Plugin /\ deps \in Seq(Plugin) /\ Len(deps) \in Nat
         /\ \A m \in Requires[f.n] : \E k \in 1..Len(deps) : deps[k] = m
         /\ \A k \in 1..Len(deps) : Pos(deps[k]) < Pos(f.n)
         /\ new \in Seq(Frame) /\ Len(new) = Len(deps) + (IF inside THEN 1 ELSE 2)
         /\ \A k \in 1..Len(new) : FrameOK(new[k])
         /\ \A k \in 1..Len(deps) : new[k].op = "need" /\ new[k].n = deps[k]
         /\ new[Len(deps) + 1].op = "make" /\ new[Len(deps) + 1].n = f.n
         /\ ~inside => new[Len(deps) + 2].op = "unlock"
<1> DEFINE n == f.n
           S == Reach(n)
           m1 == [f EXCEPT !.op = "make"]
           u1 == F("unlock", n)
           e == Each("need", deps)
           y == <<m1>>
           z == IF inside THEN <<>> ELSE <<u1>>
           ey == e \o y
           L == Len(deps)
<1>1. n \in Plugin
  BY DEF Frame, FrameOK, AllOps
<1>2. S \in SUBSET Plugin /\ Requires[n] \subseteq S /\ \A m \in S : Pos(m) < Pos(n)
  BY <1>1, ReachFacts
<1>3. deps \in Seq(S) /\ \A x \in S : \E i \in 1..Len(deps) : deps[i] = x
  <2>1. deps \in SetToSeqs(S)
    BY DEF InLoadOrder
  <2> HIDE DEF S
  <2> QED  BY <1>2, <2>1, ListingOf
<1>4. deps \in Seq(Plugin) /\ L \in Nat /\ \A k \in 1..L : deps[k] \in S
  <2> HIDE DEF S
  <2> QED  BY <1>2, <1>3, ElementOfSeq
<1>5. /\ e \in Seq(Frame) /\ Len(e) = L
      /\ \A k \in 1..L : e[k].op = "need" /\ e[k].n = deps[k] /\ FrameOK(e[k])
  <2>1. "need" \in Op \ (HasObject \cup AllOps)
    BY DEF Op, HasObject, AllOps
  <2> QED  BY <1>4, <2>1, EachFacts
<1>6. m1 \in Frame /\ m1.op = "make" /\ m1.n = n
  BY DEF Frame, Op
<1>7. FrameOK(m1)
  <2>1. n # All
    BY <1>1, PluginAssumption
  <2> QED  BY <1>6, <2>1 DEF FrameOK, HasObject, AllOps
<1>8. u1 \in Frame /\ u1.op = "unlock" /\ FrameOK(u1)
  BY <1>1, OwnFrame DEF Op, HasObject, AllOps
<1>9. y \in Seq(Frame) /\ Len(y) = 1 /\ y[1] = m1
  BY <1>6
<1>10. /\ z \in Seq(Frame) /\ Len(z) = (IF inside THEN 0 ELSE 1) /\ (~inside => z[1] = u1)
  BY <1>8
<1>11. new = ey \o z
  BY DEF LoadFrames
<1> HIDE DEF m1, u1, e, y, z, L, n
<1>12. /\ ey \in Seq(Frame) /\ Len(ey) = L + 1
       /\ (\A k \in 1..L : ey[k] = e[k]) /\ ey[L + 1] = m1
  <2>1. /\ ey \in Seq(Frame) /\ Len(ey) = Len(e) + Len(y)
        /\ (\A k \in 1..Len(e) : ey[k] = e[k]) /\ \A k \in 1..Len(y) : ey[Len(e) + k] = y[k]
    BY <1>5, <1>9, ConcatFrames
  <2> HIDE DEF ey
  <2>2. 1 \in 1..Len(y)
    BY <1>9
  <2> QED  BY <1>5, <1>9, <2>1, <2>2
<1> HIDE DEF ey
<1>13. /\ new \in Seq(Frame) /\ Len(new) = (L + 1) + Len(z)
       /\ (\A k \in 1..(L + 1) : new[k] = ey[k]) /\ \A k \in 1..Len(z) : new[(L + 1) + k] = z[k]
  BY <1>10, <1>11, <1>12, ConcatFrames
<1>14. Len(new) = L + (IF inside THEN 1 ELSE 2)
  BY <1>4, <1>10, <1>13 DEF L
<1>15. \A k \in 1..L : new[k] = e[k]
  BY <1>4, <1>12, <1>13 DEF L
<1>16. new[L + 1] = m1
  BY <1>4, <1>12, <1>13 DEF L
<1>17. ASSUME ~inside PROVE new[L + 2] = u1
  <2>1. 1 \in 1..Len(z) /\ (L + 1) + 1 = L + 2
    BY <1>4, <1>10, <1>17 DEF L
  <2> QED  BY <1>10, <1>13, <1>17, <2>1
<1>18. ASSUME NEW k \in 1..Len(new) PROVE FrameOK(new[k])
  <2>1. k \in 1..L \/ k = L + 1 \/ (~inside /\ k = L + 2)
    BY <1>4, <1>14 DEF L
  <2> QED  BY <2>1, <1>5, <1>7, <1>8, <1>15, <1>16, <1>17
<1>19. \A m \in Requires[n] : \E k \in 1..L : deps[k] = m
  BY <1>2, <1>3 DEF L
<1>20. \A k \in 1..L : Pos(deps[k]) < Pos(n)
  BY <1>2, <1>4
<1> QED
  BY <1>1, <1>4, <1>5, <1>6, <1>8, <1>13, <1>14, <1>15, <1>16, <1>17, <1>18, <1>19, <1>20, ZenonT(60) DEF n, L

\* load_plugin goes on with the dependencies, by itself or inside another
\* load_plugin.
LEMMA LoadGood ==
  ASSUME NEW s, GoodStack(s), s # <<>>, s[1].op = "load", NEW deps \in InLoadOrder(Reach(s[1].n)),
         NEW new, new = LoadFrames(s[1], deps, HasUnlock(s)), NEW r, r = new \o Tail(s)
  PROVE  Pushed(r, new, s) /\ GoodStack(r) /\ HasUnlock(r)
<1> DEFINE L == Len(deps)
           n == s[1].n
<1>1. s \in Seq(Frame) /\ Len(s) \in Nat /\ Len(s) # 0 /\ s[1] \in Frame /\ FrameOK(s[1]) /\ 1 \in 1..Len(s)
  BY StackFacts DEF GoodStack
<1>2. HasUnlock(s) \in BOOLEAN
  BY DEF HasUnlock
<1>3. /\ n \in Plugin /\ deps \in Seq(Plugin) /\ Len(deps) \in Nat
      /\ \A k \in 1..Len(deps) : Pos(deps[k]) < Pos(n)
      /\ new \in Seq(Frame) /\ Len(new) = Len(deps) + (IF HasUnlock(s) THEN 1 ELSE 2)
      /\ \A k \in 1..Len(new) : FrameOK(new[k])
      /\ \A k \in 1..Len(deps) : new[k].op = "need" /\ new[k].n = deps[k]
      /\ new[Len(deps) + 1].op = "make" /\ new[Len(deps) + 1].n = n
      /\ ~HasUnlock(s) => new[Len(deps) + 2].op = "unlock"
  BY <1>1, <1>2, LoadFramesAre
<1>4. Pushed(r, new, s)
  BY <1>1, <1>3, ConcatIsPushed
<1>5. /\ r \in Seq(Frame) /\ Len(r) = Len(new) + Len(s) - 1
      /\ \A k \in 1..Len(new) : r[k] = new[k]
      /\ \A k \in 2..Len(s) : r[k + Len(new) - 1] = s[k]
  BY <1>4 DEF Pushed
<1> HIDE DEF L, n
<1>6. L \in Nat /\ Len(new) \in Nat /\ \A k \in 1..Len(new) : k \in 1..L \/ k = L + 1 \/ (~HasUnlock(s) /\ k = L + 2)
  BY <1>3 DEF L
<1>7. HasUnlock(s) => \A k \in 1..Len(new) : new[k].op \in Inside
  BY <1>3, <1>6 DEF Inside, L
<1>8. \A k \in 1..Len(new) : k \in 1..L \/ k = L + 1 => Pos(new[k].n) = Pos(n) \/ Pos(new[k].n) < Pos(n)
  BY <1>3 DEF L
<1>9. HasUnlock(s) => \A j \in 1..Len(new), k \in 2..Len(s) : s[k].op = "make" => Pos(new[j].n) < Pos(s[k].n)
  <2> SUFFICES ASSUME HasUnlock(s), NEW j \in 1..Len(new), NEW k \in 2..Len(s), s[k].op = "make"
               PROVE  Pos(new[j].n) < Pos(s[k].n)
    OBVIOUS
  <2>1. k \in 1..Len(s) /\ 1 \in 1..(k - 1)
    BY <1>1
  <2>2. MakeAt(s, k) /\ FrameOK(s[k]) /\ s[k] \in Frame
    BY <1>1, <2>1 DEF GoodStack, Shape
  <2>3. Pos(n) < Pos(s[k].n)
    BY <2>1, <2>2 DEF MakeAt, n
  <2>4. s[k].n \in Plugin /\ new[j].n \in Plugin
    <3>1. s[k].n \in Plugin
      BY <2>2 DEF FrameOK, Frame, AllOps
    <3>2. new[j].n \in Plugin
      <4>1. \A i \in 1..Len(deps) : deps[i] \in Plugin
        BY <1>3, ElementOfSeq
      <4> QED  BY <1>3, <1>6, <4>1 DEF L, n
    <3> QED  BY <3>1, <3>2
  <2>5. Pos(n) \in Nat /\ Pos(s[k].n) \in Nat /\ Pos(new[j].n) \in Nat
    BY <1>3, <2>4, PosFacts DEF n
  <2>6. Pos(new[j].n) = Pos(n) \/ Pos(new[j].n) < Pos(n)
    BY <1>6, <1>8
  <2> DEFINE a == Pos(new[j].n)
             b == Pos(n)
             c == Pos(s[k].n)
  <2>7. a \in Nat /\ b \in Nat /\ c \in Nat /\ b < c /\ (a = b \/ a < b)
    BY <2>3, <2>5, <2>6
  <2> HIDE DEF a, b, c
  <2>8. a < c
    BY <2>7
  <2> QED  BY <2>8 DEF a, c
<1>10. \A k \in (Len(new) + 1)..Len(r) : At(r, k)
  <2>1. s[1].op \notin {"unlock", "clear"} \cup CleanOps \cup {"cleanupall"}
    BY DEF CleanOps
  <2> QED  BY <1>4, <1>7, <1>9, <2>1, TailGood
<1>11. \E j \in 1..Len(r) : L + 1 < j /\ r[j].op = "unlock"
  <2>1. CASE HasUnlock(s)
    <3>1. PICK k \in 1..Len(s) : s[k].op = "unlock"
      BY <2>1 DEF HasUnlock
    <3>2. k # 1
      BY <3>1
    <3>3. k \in 2..Len(s)
      BY <1>1, <3>2
    <3>0. Len(r) = Len(new) + Len(s) - 1 /\ Len(new) > 0
      BY <1>3, <1>5
    <3>4. PICK j \in 1..Len(r) : j = k + Len(new) - 1
      <4>1. k + Len(new) - 1 \in 1..Len(r)
        BY <1>1, <1>6, <3>0, <3>3
      <4> QED  BY <4>1
    <3>5. L + 1 < j
      <4>1. Len(new) = L + 1
        BY <1>3, <2>1 DEF L
      <4> QED  BY <4>1, <3>3, <3>4, <1>6
    <3>6. r[j] = s[k]
      BY <1>5, <3>3, <3>4
    <3> QED  BY <3>1, <3>5, <3>6
  <2>2. CASE ~HasUnlock(s)
    <3>1. Len(new) = L + 2 /\ new[L + 2].op = "unlock"
      BY <1>3, <2>2 DEF L
    <3>2. L + 2 \in 1..Len(new) /\ L + 2 \in 1..Len(r) /\ L + 1 < L + 2
      BY <3>1, <1>1, <1>5, <1>6
    <3> QED  BY <1>5, <3>1, <3>2
  <2> QED  BY <2>1, <2>2
<1>12. ASSUME NEW k \in 1..Len(new) PROVE At(r, k)
  <2>1. r[k] = new[k] /\ \A j \in 1..(k - 1) : j \in 1..Len(new) /\ r[j] = new[j]
    <3>1. \A j \in 1..(k - 1) : j \in 1..Len(new)
      BY <1>6
    <3> QED  BY <1>5, <3>1
  <2>2. r[k].op \in {"need", "make", "unlock"}
    BY <1>3, <1>6, <2>1 DEF L
  <2>3. r[k].op = "unlock" => k = L + 2
    BY <1>3, <1>6, <2>1 DEF L
  <2>4. r[k].op = "make" => k = L + 1
    BY <1>3, <1>6, <2>1 DEF L
  <2>5. UnlockAt(r, k)
    <3> SUFFICES ASSUME k = L + 2, NEW j \in 1..(k - 1) PROVE r[j].op \in Inside
      BY <2>3 DEF UnlockAt
    <3>1. j \in 1..L \/ j = L + 1
      BY <1>6
    <3> QED  BY <1>3, <2>1, <3>1 DEF L, Inside
  <2>6. InsideAt(r, k)
    <3> SUFFICES ASSUME r[k].op # "unlock" PROVE \E j \in 1..Len(r) : k < j /\ r[j].op = "unlock"
      BY DEF InsideAt
    <3>1. PICK j \in 1..Len(r) : L + 1 < j /\ r[j].op = "unlock"
      BY <1>11
    <3>2. k \in 1..(L + 1)
      <4>1. k # L + 2
        <5>1. k = L + 2 => ~HasUnlock(s)
          BY <1>3, <1>6 DEF L
        <5> QED  BY <1>3, <5>1, <2>1 DEF L
      <4> QED  BY <1>6, <4>1
    <3>3. k < j
      BY <1>6, <3>1, <3>2
    <3> QED  BY <3>1, <3>3
  <2>7. MakeAt(r, k)
    <3> SUFFICES ASSUME k = L + 1, NEW j \in 1..(k - 1) PROVE Pos(r[j].n) < Pos(r[k].n)
      BY <2>4 DEF MakeAt
    <3>1. j \in 1..L
      BY <1>6
    <3> QED  BY <1>3, <2>1, <3>1 DEF L
  <2>8. ObjectAt(r, k) /\ PopAt(r, k) /\ CleanAt(r, k) /\ ClearAt(r, k) /\ CleanupAllAt(r, k) /\ WipeAt(r, k)
    BY <2>2 DEF ObjectAt, PopAt, CleanAt, ClearAt, CleanupAllAt, WipeAt, HasObject, CleanOps
  <2> QED  BY <2>5, <2>6, <2>7, <2>8 DEF At
<1>13. \A k \in 1..Len(new) : FrameOK(new[k]) /\ At(r, k)
  BY <1>3, <1>12
<1>14. GoodStack(r)
  BY <1>4, <1>10, <1>13, PushedGood
<1> QED
  BY <1>4, <1>11, <1>14 DEF HasUnlock

\* cleanup_all_plugins goes through the plugins.
LEMMA CleanupsGood ==
  ASSUME NEW s, GoodStack(s), s[1].op = "cleanupall", NEW new, NEW r, Pushed(r, new, s),
         \A k \in 1..Len(new) : new[k].op = "cleanup" /\ FrameOK(new[k])
  PROVE  GoodStack(r) /\ ~HasUnlock(r) /\ ~HasUnlock(s)
<1>1. s \in Seq(Frame) /\ Len(s) \in Nat /\ Len(s) # 0 /\ 1 \in 1..Len(s) /\ s # <<>>
  BY StackFacts DEF Pushed
<1>2. new \in Seq(Frame) /\ \A k \in 1..Len(new) : new[k].op = "cleanup" /\ FrameOK(new[k])
  BY DEF Pushed
<1>4. /\ r \in Seq(Frame) /\ Len(r) = Len(new) + Len(s) - 1
      /\ \A k \in 1..Len(new) : r[k] = new[k]
      /\ \A k \in 2..Len(s) : r[k + Len(new) - 1] = s[k]
  BY DEF Pushed
<1>5. Len(new) \in Nat
  BY <1>2, StackFacts
<1>6. ~HasUnlock(s)
  BY <1>1, NotInside DEF Inside
<1>7. \A k \in (Len(new) + 1)..Len(r) : At(r, k)
  <2>1. s[1].op \notin {"unlock", "clear"} \cup CleanOps
    BY DEF CleanOps
  <2>2. \A j \in 1..Len(new) : new[j].op \in CleanOps
    BY <1>2 DEF CleanOps
  <2> QED  BY <1>6, <2>1, <2>2, TailGood
<1>8. 2 \in 1..Len(s) /\ s[2].op = "clear"
  <2>1. CleanupAllAt(s, 1)
    BY <1>1 DEF GoodStack, Shape
  <2> QED  BY <2>1 DEF CleanupAllAt
<1>9. ASSUME NEW k \in 1..Len(new) PROVE At(r, k)
  <2>1. r[k].op = "cleanup" /\ \A j \in 1..Len(new) : r[j].op = "cleanup"
    BY <1>2, <1>4
  <2>2. PICK j \in 1..Len(r) : j = 2 + Len(new) - 1
    BY <1>4, <1>5, <1>8
  <2>3. r[j] = s[2] /\ k < j /\ j - 1 = Len(new) /\ j - 1 \in 1..Len(new)
    BY <1>4, <1>5, <1>8, <2>2
  <2>4. r[j].op = "clear" /\ r[j - 1].op # "cleanupall"
    BY <1>8, <2>1, <2>3
  <2>5. CleanAt(r, k)
    BY <2>3, <2>4 DEF CleanAt
  <2>6. /\ UnlockAt(r, k) /\ InsideAt(r, k) /\ ObjectAt(r, k) /\ PopAt(r, k) /\ ClearAt(r, k)
        /\ CleanupAllAt(r, k) /\ WipeAt(r, k) /\ MakeAt(r, k)
    BY <2>1 DEF UnlockAt, InsideAt, ObjectAt, PopAt, ClearAt, CleanupAllAt, WipeAt, MakeAt, HasObject
  <2> QED  BY <2>5, <2>6 DEF At
<1>10. \A k \in 1..Len(new) : FrameOK(new[k]) /\ At(r, k)
  BY <1>2, <1>9
<1>11. ~HasUnlock(new)
  BY <1>2 DEF HasUnlock
<1>12. \A k \in 2..Len(s) : s[k].op # "unlock"
  BY <1>1, <1>6 DEF HasUnlock
<1>13. GoodStack(r) /\ (HasUnlock(r) <=> (HasUnlock(new) \/ \E k \in 2..Len(s) : s[k].op = "unlock"))
  BY <1>7, <1>10, PushedGood
<1> QED
  BY <1>6, <1>11, <1>12, <1>13

-----------------------------------------------------------------------------
(* Steps of a thread *)

(* The thread goes on with r, and has the lock while it is inside          *)
(* load_plugin.                                                            *)
Turn(t, r) ==
  /\ todo' = [todo EXCEPT ![t] = r] /\ GoodStack(r)
  /\ HasUnlock(r) => Locked(t)
  /\ lock' = IF HasUnlock(r) THEN t ELSE IF HasUnlock(todo[t]) THEN None ELSE lock

\* The lists of frames and the lock after a step.
LEMMA TurnStacks ==
  ASSUME Stacks, NEW t \in Thread, NEW r, Turn(t, r)
  PROVE  Stacks' /\ todo'[t] = r /\ \A u \in Thread \ {t} : todo'[u] = todo[u]
<1>1. r \in Seq(Frame) /\ GoodStack(r)
  BY DEF Turn, GoodStack
<1>2. todo \in [Thread -> Seq(Frame)] /\ todo' = [todo EXCEPT ![t] = r]
  BY DEF Stacks, Turn
<1>3. todo' \in [Thread -> Seq(Frame)] /\ todo'[t] = r /\ \A u \in Thread \ {t} : todo'[u] = todo[u]
  BY <1>1, <1>2
<1>4. lock \in Thread \cup {None} /\ None \notin Thread
  BY PluginAssumption DEF Stacks
<1>5. lock' \in Thread \cup {None}
  BY <1>4 DEF Turn
<1>6. (lock = t <=> HasUnlock(todo[t])) /\ \A u \in Thread : GoodStack(todo[u]) /\ (lock = u <=> HasUnlock(todo[u]))
  BY DEF Stacks
<1>7. HasUnlock(r) => lock \in {None, t}
  BY DEF Turn, Locked
<1>8. lock' = IF HasUnlock(r) THEN t ELSE IF HasUnlock(todo[t]) THEN None ELSE lock
  BY DEF Turn
<1>9. lock' = t <=> HasUnlock(r)
  BY <1>4, <1>6, <1>8
<1>10. ASSUME NEW u \in Thread \ {t} PROVE lock' = u <=> HasUnlock(todo[u])
  <2>1. (lock = u <=> HasUnlock(todo[u])) /\ u # t /\ u # None
    BY <1>4, <1>6
  <2> QED  BY <1>6, <1>7, <1>8, <2>1
<1>11. ASSUME NEW u \in Thread PROVE GoodStack(todo'[u]) /\ (lock' = u <=> HasUnlock(todo'[u]))
  <2>1. CASE u = t
    BY <2>1, <1>1, <1>3, <1>9
  <2>2. CASE u # t
    BY <2>2, <1>3, <1>6, <1>10
  <2> QED  BY <2>1, <2>2
<1>12. Stacks'
  BY <1>3, <1>5, <1>11 DEF Stacks, GoodStack, HasUnlock, FrameOK, Shape, UnlockAt, InsideAt, ObjectAt,
     PopAt, CleanAt, ClearAt, CleanupAllAt, WipeAt, MakeAt, ObjectsOf, Pos
<1> QED
  BY <1>3, <1>12

\* A thread at the end of a frame.
LEMMA DroppedTurns ==
  ASSUME Stacks, NEW t \in Thread, NEW c, NEW r, Dropped(t, c, r)
  PROVE  Turn(t, r)
<1>1. GoodStack(todo[t]) /\ (lock = t <=> HasUnlock(todo[t]))
  BY DEF Stacks
<1>2. Suffix(r, todo[t], c) /\ GoodStack(r) /\ todo' = [todo EXCEPT ![t] = r]
      /\ lock' = IF HasUnlock(todo[t]) /\ ~HasUnlock(r) THEN None ELSE lock
  BY DEF Dropped
<1>3. HasUnlock(r) => HasUnlock(todo[t])
  BY <1>1, <1>2, SuffixUnlock
<1> QED
  BY <1>1, <1>2, <1>3 DEF Turn, Locked

\* load_plugin makes objects inside it only, and one at a time.
LEMMA MakingInside ==
  ASSUME NEW s, GoodStack(s)
  PROVE  /\ ~HasUnlock(s) => Making(s) = {}
         /\ \A n \in Plugin : n \in Making(s) /\ s[1].op # "store" =>
              \E k \in 1..Len(s) : s[k].op = "make" /\ s[k].n = n
<1>1. ASSUME ~HasUnlock(s), NEW n \in Making(s) PROVE FALSE
  <2>1. PICK k \in 1..Len(s) : s[k].op \in {"make", "store"}
    BY <1>1 DEF Making
  <2>2. InsideAt(s, k)
    BY DEF GoodStack, Shape
  <2> QED  BY <1>1, <2>1, <2>2 DEF InsideAt, HasUnlock
<1>2. ASSUME NEW n \in Making(s), s[1].op # "store" PROVE \E k \in 1..Len(s) : s[k].op = "make" /\ s[k].n = n
  <2>1. PICK k \in 1..Len(s) : s[k].op \in {"make", "store"} /\ s[k].n = n
    BY DEF Making
  <2>2. ObjectAt(s, k)
    BY DEF GoodStack, Shape
  <2> QED  BY <1>2, <2>1, <2>2 DEF ObjectAt, HasObject
<1> QED
  BY <1>1, <1>2

\* Frames are taken away.
LEMMA SuffixMaking ==
  ASSUME NEW r, NEW s, NEW c, Suffix(r, s, c)
  PROVE  /\ Making(r) \subseteq Making(s)
         /\ \A k \in 1..Len(r) : \E j \in 1..Len(s) : r[k] = s[j] /\ j = k + c
<1>1. /\ r \in Seq(Frame) /\ s \in Seq(Frame) /\ c \in 0..Len(s) /\ Len(r) = Len(s) - c
      /\ \A k \in 1..Len(r) : r[k] = s[k + c]
  BY DEF Suffix
<1>2. Len(s) \in Nat /\ Len(r) \in Nat
  BY <1>1, StackFacts
<1>3. ASSUME NEW k \in 1..Len(r) PROVE \E j \in 1..Len(s) : r[k] = s[j] /\ j = k + c
  <2>1. k + c \in 1..Len(s)
    BY <1>1, <1>2
  <2> QED  BY <1>1, <2>1
<1> QED
  BY <1>3 DEF Making

\* Frames take the place of the first.
LEMMA PushedMaking ==
  ASSUME NEW r, NEW new, NEW s, Pushed(r, new, s)
  PROVE  /\ Making(r) \subseteq Making(new) \cup Making(s)
         /\ \A k \in 1..Len(r) : (k \in 1..Len(new) /\ r[k] = new[k])
                                 \/ \E j \in 2..Len(s) : r[k] = s[j] /\ k = j + Len(new) - 1
         /\ \A j \in 2..Len(s) : j \in 1..Len(s) /\ \E k \in 1..Len(r) : r[k] = s[j] /\ k = j + Len(new) - 1
         /\ \A k \in 1..Len(new) : k \in 1..Len(r) /\ r[k] = new[k]
<1>1. /\ r \in Seq(Frame) /\ new \in Seq(Frame) /\ s \in Seq(Frame) /\ s # <<>>
      /\ Len(r) = Len(new) + Len(s) - 1
      /\ \A k \in 1..Len(new) : r[k] = new[k]
      /\ \A k \in 2..Len(s) : r[k + Len(new) - 1] = s[k]
  BY DEF Pushed
<1>2. Len(s) \in Nat /\ Len(s) # 0 /\ Len(r) \in Nat /\ Len(new) \in Nat
  BY <1>1, StackFacts
<1>3. ASSUME NEW k \in 1..Len(r), k \notin 1..Len(new)
      PROVE  \E j \in 2..Len(s) : r[k] = s[j] /\ k = j + Len(new) - 1
  <2>1. PICK j \in 2..Len(s) : k = j + Len(new) - 1
    <3>1. k - Len(new) + 1 \in 2..Len(s) /\ k = (k - Len(new) + 1) + Len(new) - 1
      BY <1>1, <1>2, <1>3
    <3> QED  BY <3>1
  <2> QED  BY <1>1, <2>1
<1>4. ASSUME NEW j \in 2..Len(s)
      PROVE  j \in 1..Len(s) /\ \E k \in 1..Len(r) : r[k] = s[j] /\ k = j + Len(new) - 1
  <2>0. Len(r) = Len(new) + Len(s) - 1
    BY <1>1
  <2>1. j + Len(new) - 1 \in 1..Len(r) /\ j \in 1..Len(s)
    BY <2>0, <1>2
  <2> QED  BY <1>1, <2>1
<1>5. \A k \in 1..Len(new) : k \in 1..Len(r)
  BY <1>1, <1>2
<1>6. \A k \in 1..Len(r) : (k \in 1..Len(new) /\ r[k] = new[k])
                           \/ \E j \in 2..Len(s) : r[k] = s[j] /\ k = j + Len(new) - 1
  BY <1>1, <1>3
<1>7. ASSUME NEW n \in Making(r) PROVE n \in Making(new) \cup Making(s)
  <2>1. n \in Plugin
    BY DEF Making
  <2>2. PICK k \in 1..Len(r) : r[k].op \in {"make", "store"} /\ r[k].n = n
    BY DEF Making
  <2>3. CASE k \in 1..Len(new) /\ r[k] = new[k]
    BY <2>1, <2>2, <2>3 DEF Making
  <2>4. ASSUME NEW j \in 2..Len(s), r[k] = s[j] PROVE n \in Making(s)
    <3>1. j \in 1..Len(s)
      BY <1>4
    <3> QED  BY <2>1, <2>2, <2>4, <3>1 DEF Making
  <2> QED  BY <1>6, <2>3, <2>4
<1>8. \A k \in 1..Len(new) : k \in 1..Len(r) /\ r[k] = new[k]
  BY <1>1, <1>5
<1>9. \A j \in 2..Len(s) : j \in 1..Len(s) /\ \E k \in 1..Len(r) : r[k] = s[j] /\ k = j + Len(new) - 1
  BY <1>4
<1> QED
  BY <1>6, <1>7, <1>8, <1>9

(* A thread is at a place where nothing it works on is half done.          *)
PlainHead(s) == s # <<>> => s[1].op \notin CleanOps \cup {"store", "pop", "clear"}

(* A step that leaves the plugins as they are, between two such places.    *)
IdleTurn(t, r) ==
  /\ Turn(t, r) /\ PlainHead(todo[t]) /\ Calm(r)
  /\ \A n \in Making(r) \ Making(todo[t]) : n \in registered /\ GetPlugin(n) = None
  /\ plugins' = plugins /\ phase' = phase /\ detached' = detached /\ service' = service
  /\ registered' \in SUBSET Plugin /\ registered \subseteq registered'

\* Such a step keeps the tables.
LEMMA IdleCore ==
  ASSUME ManagerCore, NEW t \in Thread, NEW r, IdleTurn(t, r), SettingsTyped'
  PROVE  ManagerCore'
<1>1. Stacks /\ DataTyped /\ MadeRegistered /\ LoadedIsRegistered
  BY DEF ManagerCore
<1>2. Turn(t, r)
  BY DEF IdleTurn
<1>3. Stacks' /\ todo'[t] = r /\ \A u \in Thread \ {t} : todo'[u] = todo[u]
  BY <1>1, <1>2, TurnStacks
<1>4. DataTyped'
  BY <1>1 DEF DataTyped, IdleTurn, ObjectsOf
<1>5. LoadedIsRegistered'
  BY <1>1 DEF LoadedIsRegistered, IdleTurn
<1>6. MadeRegistered'
  <2> SUFFICES ASSUME NEW u \in Thread PROVE Making(todo'[u]) \subseteq registered'
    BY DEF MadeRegistered, Making
  <2>1. Making(todo[u]) \subseteq registered /\ Making(todo[t]) \subseteq registered /\ registered \subseteq registered'
    BY <1>1 DEF MadeRegistered, IdleTurn
  <2>2. CASE u = t
    <3>1. \A n \in Making(r) \ Making(todo[t]) : n \in registered
      BY DEF IdleTurn
    <3> QED  BY <2>1, <2>2, <1>3, <3>1
  <2>3. CASE u # t
    BY <2>1, <2>3, <1>3
  <2> QED  BY <2>2, <2>3
<1> QED
  BY <1>3, <1>4, <1>5, <1>6 DEF ManagerCore

\* A frame ends, at such a place.
LEMMA DroppedIdle ==
  ASSUME Stacks, NEW t \in Thread, NEW c, NEW r, Dropped(t, c, r), PlainHead(todo[t]),
         todo[t][c].op \notin CleanOps \cup {"cleanupall", "clear"},
         plugins' = plugins, phase' = phase, detached' = detached, service' = service,
         registered' \in SUBSET Plugin, registered \subseteq registered'
  PROVE  IdleTurn(t, r)
<1>1. Turn(t, r)
  BY DroppedTurns
<1>2. Suffix(r, todo[t], c) /\ GoodStack(todo[t]) /\ c # 0
  BY DEF Dropped, Stacks
<1>3. Calm(r)
  BY <1>2, SuffixCalm
<1>4. Making(r) \subseteq Making(todo[t])
  BY <1>2, SuffixMaking
<1> QED
  BY <1>1, <1>3, <1>4 DEF IdleTurn

\* Frames that are in order by themselves take the place of the first.
LEMMA PushedIdle ==
  ASSUME Stacks, NEW t \in Thread, NEW new, Simple(new), todo[t] # <<>>,
         todo[t][1].op \in Benign \ {"load"},
         new # <<>> => new[1].op \in Benign,
         todo' = [todo EXCEPT ![t] = new \o Tail(todo[t])], lock' = lock,
         plugins' = plugins, phase' = phase, detached' = detached, service' = service,
         registered' \in SUBSET Plugin, registered \subseteq registered'
  PROVE  IdleTurn(t, new \o Tail(todo[t]))
<1> DEFINE s == todo[t]
           r == new \o Tail(s)
<1>1. s \in Seq(Frame) /\ GoodStack(s) /\ (lock = t <=> HasUnlock(s))
  BY DEF Stacks
<1>2. s[1].op \notin Inside \cup CleanOps \cup {"unlock", "clear", "cleanupall", "store", "pop"}
  BY DEF Benign, Inside, CleanOps
<1>3. ~HasUnlock(s)
  BY <1>1, <1>2, NotInside
<1>4. new \in Seq(Frame) /\ GoodStack(new) /\ ~HasUnlock(new)
  BY SimpleGood DEF Simple
<1>5. Pushed(r, new, s)
  BY <1>1, <1>4, ConcatIsPushed
<1>6. s # <<>>
  OBVIOUS
<1>7. todo' = [todo EXCEPT ![t] = r]
  OBVIOUS
<1> HIDE DEF s, r
<1>8. GoodStack(r) /\ ~HasUnlock(r)
  BY <1>1, <1>2, <1>3, <1>4, <1>5, PushSelf
<1>9. Turn(t, r)
  BY <1>3, <1>7, <1>8 DEF Turn, s
<1>10. Calm(r)
  <2>1. CASE new = <<>>
    <3>1. Suffix(r, s, 1)
      <4>1. r = Tail(s)
        <5>1. Tail(s) \in Seq(Frame)
          BY <1>1, <1>6, HeadTailProperties
        <5> QED  BY <2>1, <5>1, ConcatEmptySeq DEF r
      <4> QED  BY <1>1, <1>6, <4>1, TailIsSuffix
    <3> QED  BY <1>1, <1>2, <3>1, SuffixCalm
  <2>2. CASE new # <<>>
    <3>1. 1 \in 1..Len(new) /\ 1 \in 1..Len(r)
      BY <2>2, <1>4, <1>5, StackFacts, PushedMaking
    <3>2. r[1] = new[1] /\ r # <<>>
      BY <3>1, <1>5, StackFacts DEF Pushed
    <3>3. r[1].op \notin CleanOps \cup {"clear", "pop", "wipe"} \cup HasObject
      BY <2>2, <3>2 DEF Benign, CleanOps, HasObject
    <3> QED  BY <1>8, <3>2, <3>3, HeadCalm
  <2> QED  BY <2>1, <2>2
<1>11. Making(r) \subseteq Making(s)
  <2>1. Making(new) = {}
    BY <1>4, MakingInside
  <2> QED  BY <2>1, <1>5, PushedMaking
<1>12. PlainHead(s)
  BY <1>2 DEF PlainHead
<1> QED
  BY <1>9, <1>10, <1>11, <1>12 DEF IdleTurn, s, r

\* What a thread inside or outside load_plugin has next.
LEMMA HeadFrame ==
  ASSUME Stacks, NEW t \in Thread, todo[t] # <<>>
  PROVE  /\ GoodStack(todo[t]) /\ todo[t] \in Seq(Frame) /\ todo[t][1] \in Frame /\ FrameOK(todo[t][1])
         /\ Len(todo[t]) \in Nat /\ 1 \in 1..Len(todo[t])
         /\ todo[t][1].op \notin AllOps => todo[t][1].n \in Plugin
         /\ todo[t][1].op \in HasObject => todo[t][1].i \in ObjectsOf(todo[t][1].n)
<1>1. GoodStack(todo[t])
  BY DEF Stacks
<1>2. todo[t] \in Seq(Frame) /\ Len(todo[t]) \in Nat /\ Len(todo[t]) # 0
  BY <1>1, StackFacts DEF GoodStack
<1>3. 1 \in 1..Len(todo[t])
  BY <1>2
<1>4. todo[t][1] \in Frame /\ FrameOK(todo[t][1])
  BY <1>1, <1>2, <1>3, StackFacts DEF GoodStack
<1>5. /\ todo[t][1].op \notin AllOps => todo[t][1].n \in Plugin
      /\ todo[t][1].op \in HasObject => todo[t][1].i \in ObjectsOf(todo[t][1].n)
  BY <1>4 DEF Frame, FrameOK
<1> QED
  BY <1>1, <1>2, <1>3, <1>4, <1>5

\* A benign frame ends.
LEMMA PassIdle ==
  ASSUME Stacks, NEW t \in Thread, todo[t] # <<>>,
         todo[t][1].op \notin CleanOps \cup {"unlock", "store", "pop", "clear", "cleanupall"},
         Pass(t), lock' = lock,
         plugins' = plugins, phase' = phase, detached' = detached, service' = service,
         registered' \in SUBSET Plugin, registered \subseteq registered'
  PROVE  IdleTurn(t, Tail(todo[t]))
<1>1. GoodStack(todo[t])
  BY DEF Stacks
<1>2. Dropped(t, 1, Tail(todo[t]))
  BY <1>1, PassDrops
<1> QED
  BY <1>2, DroppedIdle DEF PlainHead

\* A frame of load_plugin ends.
LEMMA ContinueIdle ==
  ASSUME Stacks, NEW t \in Thread, todo[t] # <<>>, todo[t][1].op \in {"load", "make"},
         Continue(t, Tail(todo[t])),
         plugins' = plugins, phase' = phase, detached' = detached, service' = service,
         registered' \in SUBSET Plugin, registered \subseteq registered'
  PROVE  \E r \in Seq(Frame) : IdleTurn(t, r)
<1>1. GoodStack(todo[t])
  BY DEF Stacks
<1>2. PICK c \in 1..Len(todo[t]), r \in Seq(Frame) :
           Dropped(t, c, r) /\ (c = 1 \/ (c = 2 /\ todo[t][2].op = "unlock"))
  BY <1>1, ContinueDrops
<1>3. todo[t][c].op \notin CleanOps \cup {"cleanupall", "clear"}
  BY <1>2 DEF CleanOps
<1>4. PlainHead(todo[t])
  BY DEF PlainHead, CleanOps
<1> QED
  BY <1>2, <1>3, <1>4, DroppedIdle

\* A frame raises.
LEMMA RaiseIdle ==
  ASSUME Stacks, NEW t \in Thread, todo[t] # <<>>, todo[t][1].op \in {"load", "make", "hot"},
         Raise(t, Tail(todo[t])),
         plugins' = plugins, phase' = phase, detached' = detached, service' = service,
         registered' \in SUBSET Plugin, registered \subseteq registered'
  PROVE  \E r \in Seq(Frame) : IdleTurn(t, r)
<1>1. GoodStack(todo[t])
  BY DEF Stacks
<1>2. PICK c \in 1..Len(todo[t]), r \in Seq(Frame) :
           /\ Dropped(t, c, r) /\ ~HasUnlock(r)
           /\ \A k \in 2..c : todo[t][k].op \in {"unlock", "hot", "restart"} \cup (IF HasUnlock(todo[t]) THEN Inside ELSE {})
  BY <1>1, RaiseDrops
<1>3. Len(todo[t]) \in Nat
  BY <1>1, StackFacts DEF GoodStack
<1>4. c = 1 \/ c \in 2..c
  BY <1>3
<1>5. todo[t][c].op \in {"unlock", "hot", "restart"} \cup Inside
  BY <1>2, <1>4 DEF Inside
<1>6. todo[t][c].op \notin CleanOps \cup {"cleanupall", "clear"}
  BY <1>5 DEF CleanOps, Inside
<1>7. PlainHead(todo[t])
  BY DEF PlainHead, CleanOps
<1> QED
  BY <1>2, <1>6, <1>7, DroppedIdle

\* What load_plugin pushes.
LEMMA LoadPushes ==
  ASSUME Stacks, NEW t \in Thread, Load(t), GetPlugin(todo[t][1].n) = None, Resolves(todo[t][1].n)
  PROVE  \E deps \in InLoadOrder(Reach(todo[t][1].n)) :
           /\ todo' = [todo EXCEPT ![t] = LoadFrames(todo[t][1], deps, HasUnlock(todo[t])) \o Tail(todo[t])]
           /\ lock' = t
<1> DEFINE s == todo[t]
           n == s[1].n
<1>1. lock = t <=> HasUnlock(s)
  BY DEF Stacks
<1>2. /\ lock' = t
      /\ \E deps \in InLoadOrder(Reach(n)) :
           todo' = [todo EXCEPT ![t] = Each("need", deps) \o <<[s[1] EXCEPT !.op = "make"]>>
                                           \o (IF lock = t THEN <<>> ELSE <<F("unlock", n)>>) \o Tail(s)]
  BY DEF Load
<1>3. PICK deps \in InLoadOrder(Reach(n)) :
         todo' = [todo EXCEPT ![t] = Each("need", deps) \o <<[s[1] EXCEPT !.op = "make"]>>
                                           \o (IF lock = t THEN <<>> ELSE <<F("unlock", n)>>) \o Tail(s)]
  BY <1>2
<1>4. CASE HasUnlock(s)
  <2>1. LoadFrames(s[1], deps, HasUnlock(s)) = Each("need", deps) \o <<[s[1] EXCEPT !.op = "make"]>> \o <<>>
    BY <1>4 DEF LoadFrames
  <2> QED  BY <1>1, <1>2, <1>3, <1>4, <2>1
<1>5. CASE ~HasUnlock(s)
  <2>1. LoadFrames(s[1], deps, HasUnlock(s)) = Each("need", deps) \o <<[s[1] EXCEPT !.op = "make"]>> \o <<F("unlock", n)>>
    BY <1>5 DEF LoadFrames
  <2> QED  BY <1>1, <1>2, <1>3, <1>5, <2>1
<1> QED
  BY <1>4, <1>5

\* load_plugin up to its dependencies.
LEMMA LoadIdle ==
  ASSUME ManagerCore, NEW t \in Thread, Load(t)
  PROVE  \E r \in Seq(Frame) : IdleTurn(t, r)
<1> DEFINE s == todo[t]
           n == s[1].n
<1>1. Stacks /\ DataTyped
  BY DEF ManagerCore
<1>2. /\ Run(t, "load") /\ Locked(t) /\ s # <<>> /\ s[1].op = "load"
      /\ plugins' = plugins /\ registered' = registered
      /\ phase' = phase /\ detached' = detached /\ service' = service
  BY DEF Load, Run, tables, objects
<1>3. registered' \in SUBSET Plugin /\ registered \subseteq registered'
  BY <1>1, <1>2 DEF DataTyped
<1>4. CASE GetPlugin(n) # None
  <2>1. Continue(t, Tail(s))
    BY <1>4 DEF Load
  <2> QED  BY <1>1, <1>2, <1>3, <2>1, ContinueIdle
<1>5. CASE GetPlugin(n) = None /\ ~Resolves(n)
  <2>1. Raise(t, Tail(s))
    BY <1>5 DEF Load
  <2> QED  BY <1>1, <1>2, <1>3, <2>1, RaiseIdle
<1>6. CASE GetPlugin(n) = None /\ Resolves(n)
  <2>1. PICK deps \in InLoadOrder(Reach(n)) :
           /\ todo' = [todo EXCEPT ![t] = LoadFrames(s[1], deps, HasUnlock(s)) \o Tail(s)]
           /\ lock' = t
    BY <1>1, <1>6, LoadPushes
  <2>2. GoodStack(s) /\ s \in Seq(Frame) /\ s[1] \in Frame /\ FrameOK(s[1])
    BY <1>1, <1>2, HeadFrame
  <2> DEFINE new == LoadFrames(s[1], deps, HasUnlock(s))
             r == new \o Tail(s)
  <2>3. todo' = [todo EXCEPT ![t] = r]
    BY <2>1
  <2>4. HasUnlock(s) \in BOOLEAN
    BY DEF HasUnlock
  <2>5. Pushed(r, new, s) /\ GoodStack(r) /\ HasUnlock(r)
    <3> HIDE DEF new
    <3>1. new = LoadFrames(s[1], deps, HasUnlock(s))
      BY DEF new
    <3> HIDE DEF s, n
    <3>2. s # <<>> /\ s[1].op = "load" /\ deps \in InLoadOrder(Reach(s[1].n))
      BY <1>2, <2>1 DEF n
    <3> QED  BY <2>2, <3>1, <3>2, LoadGood
  <2>6. Turn(t, r)
    <3> HIDE DEF r
    <3> QED  BY <1>2, <2>1, <2>3, <2>5 DEF Turn
  <2>7. /\ Len(deps) \in Nat
        /\ new \in Seq(Frame) /\ Len(new) = Len(deps) + (IF HasUnlock(s) THEN 1 ELSE 2)
        /\ \A k \in 1..Len(deps) : new[k].op = "need"
        /\ new[Len(deps) + 1].op = "make" /\ new[Len(deps) + 1].n = n
        /\ ~HasUnlock(s) => new[Len(deps) + 2].op = "unlock"
    <3> HIDE DEF new
    <3>1. new = LoadFrames(s[1], deps, HasUnlock(s))
      BY DEF new
    <3> QED  BY <1>2, <2>1, <2>2, <2>4, <3>1, LoadFramesAre
  <2> HIDE DEF new, r
  <2>8. Making(new) \subseteq {n}
    <3> SUFFICES ASSUME NEW k \in 1..Len(new), new[k].op \in {"make", "store"} PROVE new[k].n = n
      BY DEF Making
    <3>1. k \in 1..Len(deps) \/ k = Len(deps) + 1 \/ (~HasUnlock(s) /\ k = Len(deps) + 2)
      BY <2>7
    <3> QED  BY <2>7, <3>1
  <2>9. Making(r) \subseteq {n} \cup Making(s)
    BY <2>5, <2>8, PushedMaking
  <2>10. 1 \in 1..Len(new) /\ new[1].op \in {"need", "make"}
    <3>1. 1 \in 1..Len(new) /\ (1 \in 1..Len(deps) \/ 1 = Len(deps) + 1)
      BY <2>7
    <3> QED  BY <2>7, <3>1
  <2>11. r # <<>> /\ r[1] = new[1]
    <3>1. 1 \in 1..Len(r) /\ r[1] = new[1]
      BY <2>5, <2>10, PushedMaking
    <3>2. r \in Seq(Frame)
      BY <2>5 DEF GoodStack
    <3> QED  BY <3>1, <3>2, StackFacts
  <2>12. Calm(r)
    <3>1. r[1].op \notin CleanOps \cup {"clear", "pop", "wipe"} \cup HasObject
      BY <2>10, <2>11 DEF CleanOps, HasObject
    <3> QED  BY <2>5, <2>11, <3>1, HeadCalm
  <2>13. PlainHead(s)
    BY <1>2 DEF PlainHead, CleanOps
  <2>14. n \in registered /\ GetPlugin(n) = None
    BY <1>6 DEF Resolves
  <2>15. IdleTurn(t, r)
    BY <1>2, <1>3, <2>6, <2>9, <2>12, <2>13, <2>14 DEF IdleTurn
  <2>16. r \in Seq(Frame)
    BY <2>5 DEF GoodStack
  <2> QED  BY <2>15, <2>16
<1> QED
  BY <1>4, <1>5, <1>6

\* The dependencies in turn.
LEMMA NeedIdle ==
  ASSUME ManagerCore, NEW t \in Thread, Need(t)
  PROVE  \E r \in Seq(Frame) : IdleTurn(t, r)
<1> DEFINE s == todo[t]
           m == s[1].n
<1>1. Stacks /\ DataTyped
  BY DEF ManagerCore
<1>2. /\ s # <<>> /\ s[1].op = "need" /\ lock' = lock
      /\ plugins' = plugins /\ registered' = registered
      /\ phase' = phase /\ detached' = detached /\ service' = service
      /\ todo' = [todo EXCEPT ![t] = (IF plugins[m] = None THEN <<F("load", m)>> ELSE <<>>) \o Tail(s)]
  BY DEF Need, Run, tables, objects
<1>3. registered' \in SUBSET Plugin /\ registered \subseteq registered'
  BY <1>1, <1>2 DEF DataTyped
<1>4. GoodStack(s) /\ s \in Seq(Frame) /\ m \in Plugin
  BY <1>1, <1>2, HeadFrame DEF AllOps
<1>5. CASE plugins[m] # None
  <2>1. <<>> \o Tail(s) = Tail(s)
    BY <1>2, <1>4, HeadTailProperties, ConcatEmptySeq
  <2>2. Pass(t)
    BY <1>2, <1>5, <2>1 DEF Pass
  <2>3. IdleTurn(t, Tail(s))
    BY <1>1, <1>2, <1>3, <2>2, PassIdle DEF CleanOps
  <2> QED  BY <1>2, <1>4, <2>3, HeadTailProperties
<1>6. CASE plugins[m] = None
  <2> DEFINE f == F("load", m)
             r == <<f>> \o Tail(s)
  <2>1. todo' = [todo EXCEPT ![t] = r]
    BY <1>2, <1>6
  <2>2. f \in Frame /\ f.op = "load" /\ f.n = m /\ FrameOK(f)
    BY <1>4, OwnFrame DEF Op, HasObject, AllOps
  <2>3. Pushed(r, <<f>>, s)
    <3>1. <<f>> \in Seq(Frame)
      BY <2>2
    <3> QED  BY <1>2, <1>4, <3>1, ConcatIsPushed
  <2> HIDE DEF f, r
  <2>4. /\ GoodStack(r) /\ (HasUnlock(r) <=> HasUnlock(s))
        /\ Len(r) = Len(s) /\ r[1] = f /\ \A k \in 2..Len(s) : r[k] = s[k]
    <3> HIDE DEF s
    <3>0. f.n = s[1].n
      BY <2>2
    <3> QED  BY <1>2, <1>4, <2>2, <2>3, <3>0, ReplaceHead, ZenonT(60) DEF Inside, CleanOps
  <2>5. Turn(t, r)
    BY <1>1, <1>2, <2>1, <2>4 DEF Turn, Locked, Stacks
  <2>6. r \in Seq(Frame) /\ r # <<>>
    BY <1>2, <1>4, <2>4, StackFacts DEF GoodStack
  <2>7. Calm(r)
    <3>1. r[1].op \notin CleanOps \cup {"clear", "pop", "wipe"} \cup HasObject
      BY <2>2, <2>4 DEF CleanOps, HasObject
    <3> QED  BY <2>4, <2>6, <3>1, HeadCalm
  <2>8. Making(r) \subseteq Making(s)
    <3>1. Making(<<f>>) = {}
      BY <2>2 DEF Making
    <3> QED  BY <2>3, <3>1, PushedMaking
  <2>9. PlainHead(s)
    BY <1>2 DEF PlainHead, CleanOps
  <2>10. IdleTurn(t, r)
    BY <1>2, <1>3, <2>5, <2>7, <2>8, <2>9 DEF IdleTurn
  <2> QED  BY <2>6, <2>10
<1> QED
  BY <1>5, <1>6


\* A plugin is disabled, or its module cannot be imported.
LEMMA MakeIdle ==
  ASSUME ManagerCore, NEW t \in Thread, MakeDisabled(t) \/ MakeFails(t)
  PROVE  (\E r \in Seq(Frame) : IdleTurn(t, r)) /\ SettingsTyped'
<1>1. Stacks /\ DataTyped /\ SettingsTyped
  BY DEF ManagerCore
<1>2. /\ todo[t] # <<>> /\ todo[t][1].op = "make" /\ ReadConfig(todo[t][1].n) /\ saved' = saved
      /\ watched' = watched /\ watching' = watching /\ started' = started
      /\ plugins' = plugins /\ registered' = registered
      /\ phase' = phase /\ detached' = detached /\ service' = service
  BY DEF MakeDisabled, MakeFails, Run, tables, objects, hot
<1>3. registered' \in SUBSET Plugin /\ registered \subseteq registered'
  BY <1>1, <1>2 DEF DataTyped
<1>4. \E r \in Seq(Frame) : IdleTurn(t, r)
  <2>1. CASE Continue(t, Tail(todo[t]))
    BY <1>1, <1>2, <1>3, <2>1, ContinueIdle
  <2>2. CASE Raise(t, Tail(todo[t]))
    BY <1>1, <1>2, <1>3, <2>2, RaiseIdle
  <2> QED  BY <2>1, <2>2 DEF MakeDisabled, MakeFails
<1>5. todo[t][1].n \in Plugin
  BY <1>1, <1>2, HeadFrame DEF AllOps
<1>6. known' \in SUBSET Plugin
  BY <1>1, <1>2, <1>5 DEF ReadConfig, SettingsTyped
<1>7. SettingsTyped'
  BY <1>1, <1>2, <1>6 DEF SettingsTyped
<1> QED
  BY <1>4, <1>7

\* on_start raises.
LEMMA StartFailsIdle ==
  ASSUME ManagerCore, NEW t \in Thread, StartRun(t, FALSE)
  PROVE  (\E r \in Seq(Frame) : IdleTurn(t, r)) /\ SettingsTyped'
<1>1. Stacks /\ DataTyped /\ SettingsTyped
  BY DEF ManagerCore
<1>2. /\ todo[t] # <<>> /\ todo[t][1].op = "startrun" /\ Pass(t) /\ lock' = lock
      /\ plugins' = plugins /\ registered' = registered
      /\ phase' = phase /\ detached' = detached /\ service' = service
  BY DEF StartRun, Run, tables
<1>3. registered' \in SUBSET Plugin /\ registered \subseteq registered'
  BY <1>1, <1>2 DEF DataTyped
<1>4. IdleTurn(t, Tail(todo[t]))
  BY <1>1, <1>2, <1>3, PassIdle DEF CleanOps
<1>5. Tail(todo[t]) \in Seq(Frame)
  BY <1>1, <1>2, HeadTailProperties DEF Stacks
<1>6. SettingsTyped'
  BY <1>1 DEF StartRun, SettingsTyped, config, hot
<1> QED
  BY <1>4, <1>5, <1>6

\* The frames of reload_plugin, and of its restart, come before the rest.
LEMMA ReloadPushes ==
  ASSUME NEW t \in Thread, todo[t][1].n \in Plugin, Reload(t) \/ Restart(t)
  PROVE  \E new : /\ todo' = [todo EXCEPT ![t] = new \o Tail(todo[t])] /\ Simple(new)
                  /\ new # <<>> => new[1].op \in Benign
<1> DEFINE s == todo[t]
           n == s[1].n
<1>1. Simple(<<>>)
  BY DEF Simple
<1>2. CASE Reload(t)
  <2>1. todo' = [todo EXCEPT ![t] = (IF plugins[n] = None THEN <<>> ELSE ReloadFrames(n)) \o Tail(s)]
    BY <1>2 DEF Reload, ReloadFrames
  <2>2. CASE plugins[n] = None
    <3>1. todo' = [todo EXCEPT ![t] = <<>> \o Tail(s)]
      BY <2>1, <2>2
    <3> QED  BY <1>1, <3>1
  <2>3. CASE plugins[n] # None
    <3>1. todo' = [todo EXCEPT ![t] = ReloadFrames(n) \o Tail(s)]
      BY <2>1, <2>3
    <3>2. Simple(ReloadFrames(n)) /\ ReloadFrames(n)[1].op \in Benign
      BY ReloadSimple DEF Benign
    <3> QED  BY <3>1, <3>2
  <2> QED  BY <2>2, <2>3
<1>3. CASE Restart(t)
  <2>1. todo' = [todo EXCEPT ![t] = (IF started THEN <<F("start", n)>> ELSE <<>>) \o Tail(s)]
    BY <1>3 DEF Restart
  <2>2. CASE started
    <3>1. todo' = [todo EXCEPT ![t] = <<F("start", n)>> \o Tail(s)]
      BY <2>1, <2>2
    <3>2. F("start", n).op = "start"
      BY DEF F
    <3>3. Simple(<<F("start", n)>>) /\ <<F("start", n)>>[1].op \in Benign
      BY <3>2, OneSimple DEF Benign
    <3> QED  BY <3>1, <3>3
  <2>3. CASE ~started
    <3>1. todo' = [todo EXCEPT ![t] = <<>> \o Tail(s)]
      BY <2>1, <2>3
    <3> QED  BY <1>1, <3>1
  <2> QED  BY <2>2, <2>3
<1> QED  BY <1>2, <1>3

\* reload_plugin, and its restart.
LEMMA ReloadIdle ==
  ASSUME ManagerCore, NEW t \in Thread, Reload(t) \/ Restart(t)
  PROVE  (\E r \in Seq(Frame) : IdleTurn(t, r)) /\ SettingsTyped'
<1> DEFINE s == todo[t]
           n == s[1].n
<1>1. Stacks /\ DataTyped /\ SettingsTyped
  BY DEF ManagerCore
<1>2. /\ s # <<>> /\ s[1].op \in {"reload", "restart"} /\ lock' = lock
      /\ plugins' = plugins /\ registered' = registered
      /\ phase' = phase /\ detached' = detached /\ service' = service
  BY DEF Reload, Restart, Run, tables, objects
<1>3. SettingsTyped'
  <2>1. known' = known /\ saved' = saved /\ watched' = watched /\ watching' = watching /\ started' = started
    BY DEF Reload, Restart, config, hot
  <2> QED  BY <1>1, <2>1 DEF SettingsTyped
<1>4. registered' \in SUBSET Plugin /\ registered \subseteq registered'
  BY <1>1, <1>2 DEF DataTyped
<1>5. n \in Plugin
  BY <1>1, <1>2, HeadFrame DEF AllOps
<1>7. PICK new : /\ todo' = [todo EXCEPT ![t] = new \o Tail(s)] /\ Simple(new) /\ (new # <<>> => new[1].op \in Benign)
  BY <1>5, ReloadPushes
<1>8. s[1].op \in Benign \ {"load"}
  BY <1>2 DEF Benign
<1>9. IdleTurn(t, new \o Tail(s))
  BY <1>1, <1>2, <1>4, <1>7, <1>8, PushedIdle
<1>10. new \o Tail(s) \in Seq(Frame)
  BY <1>9 DEF IdleTurn, Turn, GoodStack
<1> QED
  BY <1>3, <1>9, <1>10

\* Frames that end at once: registering again, the saved configuration, the
\* flags.
LEMMA FlagIdle ==
  ASSUME ManagerCore, NEW t \in Thread, Rediscover(t) \/ Disabled(t) \/ SetStarted(t) \/ StartWatching(t)
  PROVE  (\E r \in Seq(Frame) : IdleTurn(t, r)) /\ SettingsTyped'
<1>1. Stacks /\ DataTyped /\ SettingsTyped
  BY DEF ManagerCore
<1>2. /\ todo[t] # <<>> /\ Pass(t) /\ lock' = lock
      /\ todo[t][1].op \in {"rediscover", "disabled", "startedon", "startedoff", "watch"}
      /\ plugins' = plugins /\ phase' = phase /\ detached' = detached /\ service' = service
  BY DEF Rediscover, Disabled, SetStarted, StartWatching, Run, tables, objects
<1>3. registered' \in SUBSET Plugin /\ registered \subseteq registered'
  <2>1. CASE Rediscover(t)
    <3>1. todo[t][1].n \in Plugin
      <4>1. todo[t][1].op = "rediscover"
        BY <2>1 DEF Rediscover, Run
      <4> QED  BY <1>1, <1>2, <4>1, HeadFrame DEF AllOps
    <3> QED  BY <1>1, <2>1, <3>1 DEF Rediscover, DataTyped
  <2>2. CASE Disabled(t) \/ SetStarted(t) \/ StartWatching(t)
    BY <1>1, <2>2 DEF DataTyped, Disabled, SetStarted, StartWatching, tables
  <2> QED  BY <2>1, <2>2
<1>4. IdleTurn(t, Tail(todo[t]))
  BY <1>1, <1>2, <1>3, PassIdle DEF CleanOps
<1>5. Tail(todo[t]) \in Seq(Frame)
  BY <1>1, <1>2, HeadTailProperties DEF Stacks
<1>6. SettingsTyped'
  <2>1. CASE Rediscover(t)
    BY <1>1, <2>1 DEF Rediscover, SettingsTyped, config, hot
  <2>2. CASE Disabled(t)
    <3>1. saved' \in [Plugin -> Setting]
      BY <1>1, <2>2 DEF Disabled, SettingsTyped, Setting
    <3> QED  BY <1>1, <2>2, <3>1 DEF Disabled, SettingsTyped, hot
  <2>3. CASE SetStarted(t)
    <3>1. started' \in BOOLEAN
      BY <2>3 DEF SetStarted
    <3> QED  BY <1>1, <2>3, <3>1 DEF SetStarted, SettingsTyped, config, hot
  <2>4. CASE StartWatching(t)
    <3>1. watching' \in BOOLEAN
      BY <2>4 DEF StartWatching
    <3> QED  BY <1>1, <2>4, <3>1 DEF StartWatching, SettingsTyped, config
  <2> QED  BY <2>1, <2>2, <2>3, <2>4
<1> QED
  BY <1>4, <1>5, <1>6

\* start_all_plugins and stop_all_plugins go through the plugins.
LEMMA ForLoadedIdle ==
  ASSUME ManagerCore, NEW t \in Thread, ForLoaded(t, "startall", "start") \/ ForLoaded(t, "stopleft", "stop")
  PROVE  (\E r \in Seq(Frame) : IdleTurn(t, r)) /\ SettingsTyped'
<1> DEFINE s == todo[t]
           S == {n \in Plugin : plugins[n] # None}
<1>1. Stacks /\ DataTyped /\ SettingsTyped
  BY DEF ManagerCore
<1>2. /\ s # <<>> /\ s[1].op \in Benign \ {"load"} /\ lock' = lock
      /\ plugins' = plugins /\ registered' = registered
      /\ phase' = phase /\ detached' = detached /\ service' = service
  BY DEF ForLoaded, Run, tables, objects, Benign
<1>3. SettingsTyped'
  BY <1>1 DEF SettingsTyped, ForLoaded, config, hot
<1>4. registered' \in SUBSET Plugin /\ registered \subseteq registered'
  BY <1>1, <1>2 DEF DataTyped
<1>5. PICK op \in {"start", "stop"}, names \in SetToSeqs(S) :
         todo' = [todo EXCEPT ![t] = Each(op, names) \o Tail(s)]
  BY DEF ForLoaded
<1>6. names \in Seq(Plugin)
  <2>1. S \in SUBSET Plugin
    OBVIOUS
  <2> HIDE DEF S
  <2>2. names \in Seq(S)
    BY <1>5, <2>1, ListingOf
  <2> QED  BY <2>1, <2>2
<1> DEFINE new == Each(op, names)
<1>7. Simple(new)
  BY <1>6, EachSimple
<1>8. new # <<>> => new[1].op \in Benign
  <2>1. op \in Op \ (HasObject \cup AllOps) /\ op \in Benign
    BY DEF Op, HasObject, AllOps, Benign
  <2>2. new \in Seq(Frame) /\ Len(new) = Len(names) /\ \A k \in 1..Len(names) : new[k].op = op
    BY <1>6, <2>1, EachFacts
  <2> HIDE DEF new
  <2>3. new # <<>> => 1 \in 1..Len(new)
    BY <2>2, StackFacts
  <2> QED  BY <2>1, <2>2, <2>3
<1> HIDE DEF new
<1>9. todo' = [todo EXCEPT ![t] = new \o Tail(s)]
  BY <1>5 DEF new
<1>10. IdleTurn(t, new \o Tail(s))
  BY <1>1, <1>2, <1>4, <1>7, <1>8, <1>9, PushedIdle
<1>11. new \o Tail(s) \in Seq(Frame)
  BY <1>10 DEF IdleTurn, Turn, GoodStack
<1> QED
  BY <1>3, <1>10, <1>11

\* A call begins.
LEMMA BeginIdle ==
  ASSUME Stacks, NEW t \in Thread, NEW new, Simple(new), todo[t] = <<>>,
         todo' = [todo EXCEPT ![t] = new], lock' = lock,
         plugins' = plugins, phase' = phase, detached' = detached, service' = service,
         registered' \in SUBSET Plugin, registered \subseteq registered'
  PROVE  new \in Seq(Frame) /\ IdleTurn(t, new)
<1>1. new \in Seq(Frame) /\ GoodStack(new) /\ ~HasUnlock(new)
  BY SimpleGood DEF Simple
<1>2. Calm(new)
  BY SimpleCalm
<1>3. Making(new) = {}
  BY <1>1, MakingInside
<1>4. ~HasUnlock(todo[t])
  BY DEF HasUnlock
<1>5. Turn(t, new)
  BY <1>1, <1>4 DEF Turn
<1>6. PlainHead(todo[t])
  BY DEF PlainHead
<1> QED
  BY <1>1, <1>2, <1>3, <1>5, <1>6 DEF IdleTurn

\* No frames at all.
LEMMA EmptySimple ==
  Simple(<<>>)
BY DEF Simple

\* A user calls the manager.
LEMMA CallIdle ==
  ASSUME ManagerCore, NEW t \in User,
         \/ CallDiscover(t) \/ CallAll(t)
         \/ \E n \in Plugin : CallOne(t, n) \/ CallEnable(t, n)
  PROVE  /\ \E r \in Seq(Frame) : IdleTurn(t, r)
         /\ SettingsTyped' /\ callCount < MaxCalls /\ callCount' = callCount + 1 /\ scans' = scans
<1>1. Stacks /\ DataTyped /\ SettingsTyped /\ t \in Thread
  BY DEF ManagerCore, Thread
<1>2. \E new : Begin(t, new) /\ Simple(new)
  <2>1. CASE CallDiscover(t)
    BY <2>1, EmptySimple, LoadAllSimple DEF CallDiscover
  <2>2. CASE CallAll(t)
    <3>1. registered \in SUBSET Plugin
      BY <1>1 DEF DataTyped
    <3>2. \A order \in Resolved : Simple(StopAll(order)) /\ Simple(StopAll(order) \o CleanupAll \o <<F("wipe", All)>>)
      BY <3>1, ResolvedSeq, StopSimple
    <3> QED  BY <2>2, <3>2, AllSimple DEF CallAll
  <2>3. ASSUME NEW n \in Plugin, CallOne(t, n) PROVE \E new : Begin(t, new) /\ Simple(new)
    <3>1. /\ Simple(<<F("load", n)>>) /\ Simple(<<F("start", n)>>)
          /\ Simple(<<F("stop", n)>>) /\ Simple(<<F("reload", n)>>)
      BY OneSimple
    <3>2. Simple(UnloadFrames(n)) /\ Simple(UnloadFrames(n) \o <<F("disabled", n)>>)
      BY UnloadSimple
    <3> QED  BY <2>3, <3>1, <3>2 DEF CallOne
  <2>4. ASSUME NEW n \in Plugin, CallEnable(t, n) PROVE \E new : Begin(t, new) /\ Simple(new)
    <3>1. Begin(t, IF n \in known THEN <<F("load", n)>> ELSE <<>>)
      BY <2>4 DEF CallEnable
    <3>2. Simple(IF n \in known THEN <<F("load", n)>> ELSE <<>>)
      <4>1. Simple(<<F("load", n)>>)
        BY OneSimple
      <4> QED  BY <4>1, EmptySimple
    <3> QED  BY <3>1, <3>2
  <2> QED  BY <2>1, <2>2, <2>3, <2>4
<1>3. PICK new : Begin(t, new) /\ Simple(new)
  BY <1>2
<1>4. /\ todo[t] = <<>> /\ todo' = [todo EXCEPT ![t] = new] /\ lock' = lock
      /\ plugins' = plugins /\ phase' = phase /\ detached' = detached /\ service' = service
      /\ known' = known /\ watched' = watched /\ watching' = watching /\ started' = started
      /\ callCount < MaxCalls /\ callCount' = callCount + 1 /\ scans' = scans
  BY <1>3 DEF Begin, objects, hot
<1>5. registered' \in SUBSET Plugin /\ registered \subseteq registered'
  <2>1. registered' = registered \/ registered' = Plugin
    BY DEF CallDiscover, CallAll, CallOne, CallEnable
  <2> QED  BY <1>1, <2>1 DEF DataTyped
<1>6. new \in Seq(Frame) /\ IdleTurn(t, new)
  BY <1>1, <1>3, <1>4, <1>5, BeginIdle
<1>7. saved' \in [Plugin -> Setting]
  <2>1. saved \in [Plugin -> Setting]
    BY <1>1 DEF SettingsTyped
  <2>2. CASE saved' = saved
    BY <2>1, <2>2
  <2>3. ASSUME NEW n \in Plugin, saved' = [saved EXCEPT ![n] = "on"] PROVE saved' \in [Plugin -> Setting]
    BY <2>1, <2>3 DEF Setting
  <2> QED  BY <2>2, <2>3 DEF CallDiscover, CallAll, CallOne, CallEnable
<1>8. SettingsTyped'
  BY <1>1, <1>4, <1>7 DEF SettingsTyped
<1> QED
  BY <1>4, <1>6, <1>8

\* The watcher looks for changed plugins.
LEMMA ScanIdle ==
  ASSUME ManagerCore, Scan
  PROVE  /\ \E r \in Seq(Frame) : IdleTurn(Watcher, r)
         /\ SettingsTyped' /\ callCount' = callCount /\ scans < MaxScans /\ scans' = scans + 1
<1> DEFINE S == {n \in Plugin : watched[n] \in {"path", "hash"}}
<1>1. Stacks /\ DataTyped /\ SettingsTyped /\ Watcher \in Thread
  BY DEF ManagerCore, Thread
<1>2. /\ todo[Watcher] = <<>> /\ lock' = lock
      /\ plugins' = plugins /\ registered' = registered
      /\ phase' = phase /\ detached' = detached /\ service' = service
      /\ known' = known /\ saved' = saved /\ watching' = watching /\ started' = started
      /\ callCount' = callCount /\ scans < MaxScans /\ scans' = scans + 1
  BY DEF Scan, tables, objects, config
<1>3. PICK names \in SetToSeqs(S) : todo' = [todo EXCEPT ![Watcher] = Each("reload", names)]
  BY DEF Scan
<1>4. names \in Seq(Plugin)
  <2>1. S \in SUBSET Plugin
    OBVIOUS
  <2> HIDE DEF S
  <2>2. names \in Seq(S)
    BY <1>3, <2>1, ListingOf
  <2> QED  BY <2>1, <2>2
<1>5. Simple(Each("reload", names))
  BY <1>4, EachSimple
<1>6. registered' \in SUBSET Plugin /\ registered \subseteq registered'
  BY <1>1, <1>2 DEF DataTyped
<1>7. Each("reload", names) \in Seq(Frame) /\ IdleTurn(Watcher, Each("reload", names))
  BY <1>1, <1>2, <1>3, <1>5, <1>6, BeginIdle
<1>8. watched' \in [Plugin -> {"no", "path", "hash", "empty"}]
  <2>1. watched \in [Plugin -> {"no", "path", "hash", "empty"}]
    BY <1>1 DEF SettingsTyped
  <2>2. watched' = [n \in Plugin |-> CASE watched[n] = "path" -> "hash"
                                    [] watched[n] = "hash" -> "empty"
                                    [] OTHER -> watched[n]]
    BY DEF Scan
  <2> QED  BY <2>1, <2>2
<1>9. SettingsTyped'
  BY <1>1, <1>2, <1>8 DEF SettingsTyped
<1> QED
  BY <1>2, <1>7, <1>9

\* on_hot_reload, unless it registers the service.
LEMMA HotIdle ==
  ASSUME ManagerCore, NEW t \in Thread, OnHotReload(t), service' = service
  PROVE  (\E r \in Seq(Frame) : IdleTurn(t, r)) /\ SettingsTyped'
<1>1. Stacks /\ DataTyped /\ SettingsTyped
  BY DEF ManagerCore
<1>2. /\ todo[t] # <<>> /\ todo[t][1].op = "hot"
      /\ plugins' = plugins /\ registered' = registered /\ phase' = phase /\ detached' = detached
      /\ (Pass(t) /\ lock' = lock) \/ Raise(t, Tail(todo[t]))
  BY DEF OnHotReload, Run, tables
<1>3. registered' \in SUBSET Plugin /\ registered \subseteq registered'
  BY <1>1, <1>2 DEF DataTyped
<1>4. SettingsTyped'
  BY <1>1 DEF SettingsTyped, OnHotReload, config, hot
<1>5. CASE Pass(t) /\ lock' = lock
  <2>1. IdleTurn(t, Tail(todo[t]))
    BY <1>1, <1>2, <1>3, <1>5, PassIdle DEF CleanOps
  <2>2. Tail(todo[t]) \in Seq(Frame)
    BY <1>1, <1>2, HeadTailProperties DEF Stacks
  <2> QED  BY <1>4, <2>1, <2>2
<1>6. CASE Raise(t, Tail(todo[t]))
  BY <1>1, <1>2, <1>3, <1>4, <1>6, RaiseIdle
<1> QED
  BY <1>2, <1>5, <1>6

\* A step that may change the plugins keeps the tables.
LEMMA WorkCore ==
  ASSUME ManagerCore, NEW t \in Thread, NEW r, Turn(t, r), Making(r) \subseteq Making(todo[t]),
         DataTyped', SettingsTyped', LoadedIsRegistered', registered' = registered
  PROVE  ManagerCore'
<1>1. Stacks /\ MadeRegistered
  BY DEF ManagerCore
<1>2. Stacks' /\ todo'[t] = r /\ \A u \in Thread \ {t} : todo'[u] = todo[u]
  BY <1>1, TurnStacks
<1>3. MadeRegistered'
  <2> SUFFICES ASSUME NEW u \in Thread PROVE Making(todo'[u]) \subseteq registered'
    BY DEF MadeRegistered, Making
  <2>1. Making(todo[u]) \subseteq registered /\ Making(todo[t]) \subseteq registered
    BY <1>1 DEF MadeRegistered
  <2>2. CASE u = t
    BY <2>1, <2>2, <1>2
  <2>3. CASE u # t
    BY <2>1, <2>3, <1>2
  <2> QED  BY <2>2, <2>3
<1> QED
  BY <1>2, <1>3 DEF ManagerCore

(* The stages of a frame.                                                  *)
NextStage ==
  {<<"start", "startread">>, <<"startread", "startrun">>, <<"stop", "stopread">>, <<"stopread", "stoprun">>,
   <<"cleanup", "cleanupread">>, <<"cleanupread", "cleanuprun">>, <<"cleanuprun", "cleanupend">>, <<"make", "store">>}

(* The first frame is now f.                                               *)
Staged(t, f, r) ==
  /\ Turn(t, r) /\ Making(r) \subseteq Making(todo[t])
  /\ Len(r) = Len(todo[t]) /\ r[1] = f /\ \A k \in 2..Len(r) : r[k] = todo[t][k]

\* One frame takes the place of the first.
LEMMA OneForOne ==
  ASSUME NEW r, NEW f, NEW s, Pushed(r, <<f>>, s)
  PROVE  \A k \in 2..Len(s) : r[k] = s[k]
<1> DEFINE new == <<f>>
<1>1. Len(new) = 1 /\ s \in Seq(Frame)
  BY DEF Pushed
<1>2. Len(s) \in Nat
  BY <1>1, StackFacts
<1>3. \A k \in 2..Len(s) : r[k + Len(new) - 1] = s[k]
  BY DEF Pushed
<1>4. ASSUME NEW k \in 2..Len(s) PROVE r[k] = s[k]
  <2>1. k + Len(new) - 1 = k
    BY <1>1, <1>2
  <2> QED  BY <1>3, <2>1
<1> QED
  BY <1>4

\* The list of frames with the first in its next stage.
LEMMA StageGood ==
  ASSUME NEW r, NEW f, NEW s, Pushed(r, <<f>>, s), GoodStack(s), FrameOK(f), f.n = s[1].n,
         <<s[1].op, f.op>> \in NextStage
  PROVE  /\ GoodStack(r) /\ (HasUnlock(r) <=> HasUnlock(s))
         /\ Len(r) = Len(s) /\ r[1] = f /\ \A k \in 2..Len(s) : r[k] = s[k]
<1>1. /\ f.op \notin {"unlock", "pop", "clear", "cleanupall", "wipe", "need", "make"}
      /\ f.op \in Inside <=> s[1].op \in Inside
      /\ f.op \in CleanOps <=> s[1].op \in CleanOps
      /\ s[1].op \notin {"unlock", "clear", "cleanupall"}
      /\ f.op = "store" => s[1].op = "make"
  BY DEF NextStage, Inside, CleanOps
<1>2. GoodStack(r) /\ (HasUnlock(r) <=> HasUnlock(s))
  BY <1>1, ReplaceHead
<1>3. Len(r) = Len(s) /\ r[1] = f
  BY <1>1, ReplaceHead
<1>4. \A k \in 2..Len(s) : r[k] = s[k]
  BY OneForOne
<1> QED
  BY <1>2, <1>3, <1>4

\* A frame goes on to its next stage.
LEMMA StageTurns ==
  ASSUME Stacks, NEW t \in Thread, todo[t] # <<>>, NEW f \in Frame, FrameOK(f), f.n = todo[t][1].n,
         <<todo[t][1].op, f.op>> \in NextStage,
         todo' = [todo EXCEPT ![t] = <<f>> \o Tail(todo[t])], lock' = lock
  PROVE  Staged(t, f, <<f>> \o Tail(todo[t]))
<1> DEFINE s == todo[t]
           r == <<f>> \o Tail(s)
<1>1. GoodStack(s) /\ s \in Seq(Frame) /\ (lock = t <=> HasUnlock(s))
  BY DEF Stacks
<1>2. Pushed(r, <<f>>, s)
  <2>1. <<f>> \in Seq(Frame)
    OBVIOUS
  <2> QED  BY <1>1, <2>1, ConcatIsPushed
<1>3. todo' = [todo EXCEPT ![t] = r]
  OBVIOUS
<1> HIDE DEF r
<1>4. /\ f.op \notin {"unlock", "pop", "clear", "cleanupall", "wipe", "need", "make"}
      /\ f.op \in Inside <=> s[1].op \in Inside
      /\ f.op \in CleanOps <=> s[1].op \in CleanOps
      /\ s[1].op \notin {"unlock", "clear", "cleanupall"}
      /\ f.op = "store" => s[1].op = "make"
  BY DEF NextStage, Inside, CleanOps
<1>5. f.n = s[1].n
  OBVIOUS
<1>6. /\ GoodStack(r) /\ (HasUnlock(r) <=> HasUnlock(s))
      /\ Len(r) = Len(s) /\ r[1] = f /\ \A k \in 2..Len(s) : r[k] = s[k]
  <2>1. FrameOK(f) /\ <<s[1].op, f.op>> \in NextStage
    OBVIOUS
  <2> HIDE DEF s
  <2>2. GoodStack(r) /\ (HasUnlock(r) <=> HasUnlock(s)) /\ Len(r) = Len(s) /\ r[1] = f
    BY <1>1, <1>2, <1>5, <2>1, StageGood
  <2>3. \A k \in 2..Len(s) : r[k] = s[k]
    BY <1>2, OneForOne
  <2> QED  BY <2>2, <2>3
<1>7. Turn(t, r)
  BY <1>1, <1>3, <1>6 DEF Turn, Locked
<1>8. Making(r) \subseteq Making(s)
  <2>1. Making(<<f>>) \subseteq Making(s)
    <3> SUFFICES ASSUME f.op \in {"make", "store"}, f.n \in Plugin PROVE f.n \in Making(s)
      <4>1. Len(<<f>>) = 1 /\ <<f>>[1] = f
        OBVIOUS
      <4> QED  BY <4>1 DEF Making
    <3>1. s[1].op = "make" /\ s[1].n = f.n
      BY <1>4, <1>5
    <3>2. 1 \in 1..Len(s)
      BY <1>1, StackFacts
    <3> QED  BY <3>1, <3>2 DEF Making
  <2> QED  BY <1>2, <2>1, PushedMaking
<1> QED
  BY <1>6, <1>7, <1>8 DEF Staged, r

\* A frame ends.
LEMMA PassTurns ==
  ASSUME Stacks, NEW t \in Thread, todo[t] # <<>>, todo[t][1].op # "unlock", Pass(t), lock' = lock
  PROVE  LET r == Tail(todo[t]) IN Dropped(t, 1, r) /\ Turn(t, r) /\ Making(r) \subseteq Making(todo[t])
<1> DEFINE r == Tail(todo[t])
<1>1. GoodStack(todo[t])
  BY DEF Stacks
<1>2. Dropped(t, 1, r)
  BY <1>1, PassDrops
<1>3. Turn(t, r)
  BY <1>2, DroppedTurns
<1>4. Making(r) \subseteq Making(todo[t])
  BY <1>2, SuffixMaking DEF Dropped
<1> QED
  BY <1>2, <1>3, <1>4

(* What a thread finds in its first frame.                                 *)
HeadN(t) == todo[t][1].n

HeadI(t) == todo[t][1].i

\* start_plugin, stop_plugin and cleanup_plugin look the descriptor up.
LEMMA LookupTurns ==
  ASSUME ManagerCore, NEW t \in Thread, NEW op, NEW then, <<op, then>> \in NextStage \ {<<"make", "store">>},
         then \in HasObject, op \notin HasObject, Lookup(t, op, then)
  PROVE  /\ todo[t] # <<>> /\ todo[t][1].op = op /\ HeadN(t) \in Plugin
         /\ plugins' = plugins /\ registered' = registered /\ lock' = lock
         /\ phase' = phase /\ detached' = detached /\ service' = service
         /\ SettingsTyped'
         /\ plugins[HeadN(t)] = None => Pass(t)
         /\ plugins[HeadN(t)] # None =>
              \E f \in Frame, r \in Seq(Frame) :
                Staged(t, f, r) /\ f.op = then /\ f.n = HeadN(t) /\ f.i = plugins[HeadN(t)]
<1> DEFINE s == todo[t]
           n == HeadN(t)
<1>1. Stacks /\ DataTyped /\ SettingsTyped
  BY DEF ManagerCore
<1>2. /\ s # <<>> /\ s[1].op = op /\ lock' = lock
      /\ plugins' = plugins /\ registered' = registered
      /\ phase' = phase /\ detached' = detached /\ service' = service
  BY DEF Lookup, Run, tables, objects
<1>3. SettingsTyped'
  BY <1>1 DEF SettingsTyped, Lookup, config, hot
<1>4. op \notin AllOps
  BY DEF NextStage, AllOps
<1>5. n \in Plugin /\ s[1] \in Frame
  BY <1>1, <1>2, <1>4, HeadFrame DEF HeadN
<1>6. plugins[n] = None => Pass(t)
  BY DEF Lookup, Pass, HeadN
<1>7. ASSUME plugins[n] # None
      PROVE  \E f \in Frame, r \in Seq(Frame) : Staged(t, f, r) /\ f.op = then /\ f.n = n /\ f.i = plugins[n]
  <2> DEFINE f == [s[1] EXCEPT !.op = then, !.i = plugins[n]]
  <2>1. plugins[n] \in ObjectsOf(n) /\ plugins[n] \in Inst
    BY <1>1, <1>5, <1>7 DEF DataTyped
  <2>2. then \in Op /\ then \notin AllOps
    BY DEF NextStage, Op, AllOps
  <2>3. f \in Frame /\ f.op = then /\ f.n = n /\ f.i = plugins[n]
    BY <1>5, <2>1, <2>2 DEF Frame, HeadN
  <2>4. todo' = [todo EXCEPT ![t] = <<f>> \o Tail(s)]
    BY <1>7 DEF Lookup, HeadN
  <2> HIDE DEF f
  <2>5. FrameOK(f)
    <3>1. n # All
      BY <1>5, PluginAssumption
    <3> QED  BY <2>1, <2>2, <2>3, <3>1 DEF FrameOK
  <2>6. <<s[1].op, f.op>> \in NextStage
    BY <1>2, <2>3
  <2>7. Staged(t, f, <<f>> \o Tail(s))
    <3>1. f.n = s[1].n
      BY <2>3 DEF HeadN
    <3> QED  BY <1>1, <1>2, <2>3, <2>4, <2>5, <2>6, <3>1, StageTurns
  <2>8. <<f>> \o Tail(s) \in Seq(Frame)
    BY <2>7 DEF Staged, Turn, GoodStack
  <2> QED  BY <2>3, <2>7, <2>8
<1> QED
  BY <1>2, <1>3, <1>5, <1>6, <1>7

\* They read the object of the descriptor.
LEMMA ReadTurns ==
  ASSUME ManagerCore, NEW t \in Thread, NEW op, NEW then, <<op, then>> \in NextStage, op \in HasObject,
         ReadObject(t, op, then)
  PROVE  /\ todo[t] # <<>> /\ todo[t][1].op = op /\ HeadN(t) \in Plugin /\ HeadI(t) \in ObjectsOf(HeadN(t))
         /\ plugins' = plugins /\ registered' = registered /\ lock' = lock
         /\ phase' = phase /\ detached' = detached /\ service' = service
         /\ SettingsTyped'
         /\ HeadI(t) \in detached => Pass(t)
         /\ HeadI(t) \notin detached =>
              \E f \in Frame, r \in Seq(Frame) :
                Staged(t, f, r) /\ f.op = then /\ f.n = HeadN(t) /\ f.i = HeadI(t)
<1> DEFINE s == todo[t]
           n == HeadN(t)
<1>1. Stacks /\ DataTyped /\ SettingsTyped
  BY DEF ManagerCore
<1>2. /\ s # <<>> /\ s[1].op = op /\ lock' = lock
      /\ plugins' = plugins /\ registered' = registered
      /\ phase' = phase /\ detached' = detached /\ service' = service
  BY DEF ReadObject, Run, tables, objects
<1>3. SettingsTyped'
  BY <1>1 DEF SettingsTyped, ReadObject, config, hot
<1>4. op \notin AllOps
  BY DEF NextStage, AllOps
<1>5. n \in Plugin /\ s[1] \in Frame /\ HeadI(t) \in ObjectsOf(n)
  BY <1>1, <1>2, <1>4, HeadFrame DEF HeadN, HeadI
<1>6. HeadI(t) \in detached => Pass(t)
  BY DEF ReadObject, Pass, HeadI
<1>7. ASSUME HeadI(t) \notin detached
      PROVE  \E f \in Frame, r \in Seq(Frame) : Staged(t, f, r) /\ f.op = then /\ f.n = n /\ f.i = HeadI(t)
  <2> DEFINE f == [s[1] EXCEPT !.op = then]
  <2>2. then \in Op /\ then \notin AllOps
    BY DEF NextStage, Op, AllOps
  <2>3. f \in Frame /\ f.op = then /\ f.n = n /\ f.i = HeadI(t)
    BY <1>5, <2>2 DEF Frame, HeadN, HeadI
  <2>4. todo' = [todo EXCEPT ![t] = <<f>> \o Tail(s)]
    BY <1>7 DEF ReadObject, HeadI
  <2> HIDE DEF f
  <2>5. FrameOK(f)
    <3>1. n # All
      BY <1>5, PluginAssumption
    <3> QED  BY <1>5, <2>2, <2>3, <3>1 DEF FrameOK
  <2>6. <<s[1].op, f.op>> \in NextStage
    BY <1>2, <2>3
  <2>7. Staged(t, f, <<f>> \o Tail(s))
    <3>1. f.n = s[1].n
      BY <2>3 DEF HeadN
    <3> QED  BY <1>1, <1>2, <2>3, <2>4, <2>5, <2>6, <3>1, StageTurns
  <2>8. <<f>> \o Tail(s) \in Seq(Frame)
    BY <2>7 DEF Staged, Turn, GoodStack
  <2> QED  BY <2>3, <2>7, <2>8
<1> QED
  BY <1>2, <1>3, <1>5, <1>6, <1>7

\* What the first frame of a thread holds, for frames about one plugin.
LEMMA HeadData ==
  ASSUME ManagerCore, NEW t \in Thread, todo[t] # <<>>, todo[t][1].op \notin AllOps
  PROVE  /\ HeadN(t) \in Plugin
         /\ todo[t][1].op \in HasObject => HeadI(t) \in ObjectsOf(HeadN(t)) /\ HeadI(t) \in Inst
<1>1. Stacks
  BY DEF ManagerCore
<1>2. HeadN(t) \in Plugin /\ (todo[t][1].op \in HasObject => HeadI(t) \in ObjectsOf(HeadN(t)))
  BY <1>1, HeadFrame DEF HeadN, HeadI
<1>3. \A n \in Plugin : ObjectsOf(n) \subseteq Inst
  BY DEF ObjectsOf, Inst
<1> QED
  BY <1>2, <1>3

\* Looking up and reading keep the tables.
LEMMA ReadingCore ==
  ASSUME ManagerCore, NEW t \in Thread, NEW r, Turn(t, r), Making(r) \subseteq Making(todo[t]),
         plugins' = plugins, registered' = registered, phase' = phase, detached' = detached, service' = service,
         SettingsTyped'
  PROVE  ManagerCore'
<1>1. DataTyped /\ LoadedIsRegistered
  BY DEF ManagerCore
<1>2. DataTyped' /\ LoadedIsRegistered'
  BY <1>1 DEF DataTyped, LoadedIsRegistered, ObjectsOf
<1> QED
  BY <1>2, WorkCore

\* start_plugin, stop_plugin and cleanup_plugin before they call the plugin.
LEMMA LookupCore ==
  ASSUME ManagerCore, NEW t \in Thread, NEW op, NEW then,
         \/ <<op, then>> \in {<<"start", "startread">>, <<"stop", "stopread">>, <<"cleanup", "cleanupread">>}
            /\ Lookup(t, op, then)
         \/ <<op, then>> \in {<<"startread", "startrun">>, <<"stopread", "stoprun">>, <<"cleanupread", "cleanuprun">>}
            /\ ReadObject(t, op, then)
  PROVE  ManagerCore'
<1>0. Stacks
  BY DEF ManagerCore
<1>1. CASE <<op, then>> \in {<<"start", "startread">>, <<"stop", "stopread">>, <<"cleanup", "cleanupread">>}
           /\ Lookup(t, op, then)
  <2>1. <<op, then>> \in NextStage \ {<<"make", "store">>} /\ then \in HasObject /\ op \notin HasObject /\ op # "unlock"
    BY <1>1 DEF NextStage, HasObject
  <2>2. /\ todo[t] # <<>> /\ todo[t][1].op = op
        /\ plugins' = plugins /\ registered' = registered /\ lock' = lock
        /\ phase' = phase /\ detached' = detached /\ service' = service
        /\ SettingsTyped'
        /\ plugins[HeadN(t)] = None => Pass(t)
        /\ plugins[HeadN(t)] # None => \E f \in Frame, r \in Seq(Frame) : Staged(t, f, r)
    BY <1>1, <2>1, LookupTurns
  <2>3. \E r : Turn(t, r) /\ Making(r) \subseteq Making(todo[t])
    BY <1>0, <2>1, <2>2, PassTurns DEF Staged
  <2> QED  BY <2>2, <2>3, ReadingCore
<1>2. CASE <<op, then>> \in {<<"startread", "startrun">>, <<"stopread", "stoprun">>, <<"cleanupread", "cleanuprun">>}
           /\ ReadObject(t, op, then)
  <2>1. <<op, then>> \in NextStage /\ op \in HasObject /\ op # "unlock"
    BY <1>2 DEF NextStage, HasObject
  <2>2. /\ todo[t] # <<>> /\ todo[t][1].op = op
        /\ plugins' = plugins /\ registered' = registered /\ lock' = lock
        /\ phase' = phase /\ detached' = detached /\ service' = service
        /\ SettingsTyped'
        /\ HeadI(t) \in detached => Pass(t)
        /\ HeadI(t) \notin detached => \E f \in Frame, r \in Seq(Frame) : Staged(t, f, r)
    BY <1>2, <2>1, ReadTurns
  <2>3. \E r : Turn(t, r) /\ Making(r) \subseteq Making(todo[t])
    BY <1>0, <2>1, <2>2, PassTurns DEF Staged
  <2> QED  BY <2>2, <2>3, ReadingCore
<1> QED
  BY <1>1, <1>2

\* on_start and on_stop.
LEMMA RunCore ==
  ASSUME ManagerCore, NEW t \in Thread, StartRun(t, TRUE) \/ StopRun(t)
  PROVE  /\ ManagerCore'
         /\ todo[t] # <<>> /\ todo[t][1].op \in {"startrun", "stoprun"} /\ HeadN(t) \in Plugin
         /\ HeadI(t) \in ObjectsOf(HeadN(t)) /\ HeadI(t) \in Inst
         /\ Turn(t, Tail(todo[t])) /\ Dropped(t, 1, Tail(todo[t]))
         /\ plugins' = plugins /\ detached' = detached /\ service' = service
         /\ \/ phase' = [phase EXCEPT ![HeadI(t)] = "running"]
            \/ phase' = [phase EXCEPT ![HeadI(t)] = "stopped"] /\ Live(HeadI(t))
            \/ phase' = phase
<1>1. Stacks /\ DataTyped /\ SettingsTyped /\ LoadedIsRegistered
  BY DEF ManagerCore
<1>2. /\ todo[t] # <<>> /\ todo[t][1].op \in {"startrun", "stoprun"} /\ lock' = lock /\ Pass(t)
      /\ plugins' = plugins /\ registered' = registered /\ detached' = detached /\ service' = service
  BY DEF StartRun, StopRun, Run, tables
<1>3. HeadN(t) \in Plugin /\ HeadI(t) \in ObjectsOf(HeadN(t)) /\ HeadI(t) \in Inst
  BY <1>2, HeadData DEF AllOps, HasObject
<1>4. /\ Dropped(t, 1, Tail(todo[t])) /\ Turn(t, Tail(todo[t]))
      /\ Making(Tail(todo[t])) \subseteq Making(todo[t])
  BY <1>1, <1>2, PassTurns
<1>5. \/ phase' = [phase EXCEPT ![HeadI(t)] = "running"]
      \/ phase' = [phase EXCEPT ![HeadI(t)] = "stopped"] /\ Live(HeadI(t))
      \/ phase' = phase
  BY DEF StartRun, StopRun, HeadI
<1>6. phase' \in [Inst -> Phase]
  BY <1>1, <1>3, <1>5 DEF DataTyped, Phase
<1>7. DataTyped' /\ LoadedIsRegistered'
  BY <1>1, <1>2, <1>6 DEF DataTyped, LoadedIsRegistered, ObjectsOf
<1>8. SettingsTyped'
  BY <1>1 DEF StartRun, StopRun, SettingsTyped, config, hot
<1>9. ManagerCore'
  BY <1>2, <1>4, <1>7, <1>8, WorkCore
<1> QED
  BY <1>2, <1>3, <1>4, <1>5, <1>9

\* on_cleanup.
LEMMA CleanupRunCore ==
  ASSUME ManagerCore, NEW t \in Thread, CleanupRun(t)
  PROVE  /\ ManagerCore'
         /\ todo[t] # <<>> /\ todo[t][1].op = "cleanuprun" /\ HeadN(t) \in Plugin
         /\ HeadI(t) \in ObjectsOf(HeadN(t)) /\ HeadI(t) \in Inst
         /\ plugins' = plugins /\ detached' = detached
         /\ phase' = [phase EXCEPT ![HeadI(t)] = "gone"] /\ service' = [service EXCEPT ![HeadN(t)] = None]
         /\ \E f \in Frame, r \in Seq(Frame) :
              Staged(t, f, r) /\ f.op = "cleanupend" /\ f.n = HeadN(t) /\ f.i = HeadI(t)
<1> DEFINE s == todo[t]
           n == HeadN(t)
<1>1. Stacks /\ DataTyped /\ SettingsTyped /\ LoadedIsRegistered
  BY DEF ManagerCore
<1>2. /\ s # <<>> /\ s[1].op = "cleanuprun" /\ lock' = lock
      /\ plugins' = plugins /\ registered' = registered /\ detached' = detached
      /\ phase' = [phase EXCEPT ![HeadI(t)] = "gone"] /\ service' = [service EXCEPT ![n] = None]
  BY DEF CleanupRun, Run, tables, HeadN, HeadI
<1>3. n \in Plugin /\ HeadI(t) \in ObjectsOf(n) /\ HeadI(t) \in Inst
  BY <1>2, HeadData DEF AllOps, HasObject
<1>4. s[1] \in Frame
  BY <1>1, <1>2, HeadFrame
<1>5. \E f \in Frame, r \in Seq(Frame) : Staged(t, f, r) /\ f.op = "cleanupend" /\ f.n = n /\ f.i = HeadI(t)
  <2> DEFINE f == [s[1] EXCEPT !.op = "cleanupend"]
  <2>1. f \in Frame /\ f.op = "cleanupend" /\ f.n = n /\ f.i = HeadI(t)
    BY <1>4 DEF Frame, HeadN, HeadI, Op
  <2>2. todo' = [todo EXCEPT ![t] = <<f>> \o Tail(s)]
    BY DEF CleanupRun
  <2> HIDE DEF f
  <2>3. FrameOK(f)
    <3>1. n # All
      BY <1>3, PluginAssumption
    <3> QED  BY <1>3, <2>1, <3>1 DEF FrameOK, AllOps
  <2>4. <<s[1].op, f.op>> \in NextStage
    BY <1>2, <2>1 DEF NextStage
  <2>5. Staged(t, f, <<f>> \o Tail(s))
    <3>1. f.n = s[1].n
      BY <2>1 DEF HeadN
    <3> QED  BY <1>1, <1>2, <2>1, <2>2, <2>3, <2>4, <3>1, StageTurns
  <2>6. <<f>> \o Tail(s) \in Seq(Frame)
    BY <2>5 DEF Staged, Turn, GoodStack
  <2> QED  BY <2>1, <2>5, <2>6
<1>6. phase' \in [Inst -> Phase]
  BY <1>1, <1>2, <1>3 DEF DataTyped, Phase
<1>7. service' \in [Plugin -> Inst \cup {None}]
  BY <1>1, <1>2, <1>3 DEF DataTyped
<1>8. \A m \in Plugin : {plugins'[m], service'[m]} \subseteq ObjectsOf(m) \cup {None}
  BY <1>1, <1>2, <1>3 DEF DataTyped
<1>9. DataTyped' /\ LoadedIsRegistered'
  BY <1>1, <1>2, <1>6, <1>7, <1>8 DEF DataTyped, LoadedIsRegistered, ObjectsOf
<1>10. SettingsTyped'
  BY <1>1 DEF CleanupRun, SettingsTyped, config, hot
<1>11. ManagerCore'
  BY <1>2, <1>5, <1>9, <1>10, WorkCore DEF Staged
<1> QED
  BY <1>2, <1>3, <1>5, <1>11

\* The end of cleanup_plugin.
LEMMA CleanupEndCore ==
  ASSUME ManagerCore, NEW t \in Thread, CleanupEnd(t)
  PROVE  /\ ManagerCore'
         /\ todo[t] # <<>> /\ todo[t][1].op = "cleanupend" /\ HeadN(t) \in Plugin
         /\ HeadI(t) \in ObjectsOf(HeadN(t)) /\ HeadI(t) \in Inst
         /\ plugins' = plugins /\ detached' = detached \cup {HeadI(t)}
         /\ phase' = phase /\ service' = [service EXCEPT ![HeadN(t)] = None]
         /\ Turn(t, Tail(todo[t])) /\ Dropped(t, 1, Tail(todo[t]))
<1> DEFINE n == HeadN(t)
<1>1. Stacks /\ DataTyped /\ SettingsTyped /\ LoadedIsRegistered
  BY DEF ManagerCore
<1>2. /\ todo[t] # <<>> /\ todo[t][1].op = "cleanupend" /\ lock' = lock /\ Pass(t)
      /\ plugins' = plugins /\ registered' = registered /\ detached' = detached \cup {HeadI(t)}
      /\ phase' = phase /\ service' = [service EXCEPT ![n] = None]
      /\ watched' = [watched EXCEPT ![n] = "no"]
  BY DEF CleanupEnd, Run, tables, HeadN, HeadI
<1>3. n \in Plugin /\ HeadI(t) \in ObjectsOf(n) /\ HeadI(t) \in Inst
  BY <1>2, HeadData DEF AllOps, HasObject
<1>4. /\ Dropped(t, 1, Tail(todo[t])) /\ Turn(t, Tail(todo[t]))
      /\ Making(Tail(todo[t])) \subseteq Making(todo[t])
  BY <1>1, <1>2, PassTurns
<1>5. service' \in [Plugin -> Inst \cup {None}] /\ detached' \in SUBSET Inst
  BY <1>1, <1>2, <1>3 DEF DataTyped
<1>6. \A m \in Plugin : {plugins'[m], service'[m]} \subseteq ObjectsOf(m) \cup {None}
  BY <1>1, <1>2, <1>3 DEF DataTyped
<1>7. DataTyped' /\ LoadedIsRegistered'
  BY <1>1, <1>2, <1>5, <1>6 DEF DataTyped, LoadedIsRegistered, ObjectsOf
<1>8. watched' \in [Plugin -> {"no", "path", "hash", "empty"}]
  BY <1>1, <1>2, <1>3 DEF SettingsTyped
<1>9. SettingsTyped'
  BY <1>1, <1>8 DEF CleanupEnd, SettingsTyped, config
<1>10. ManagerCore'
  BY <1>2, <1>4, <1>7, <1>9, WorkCore
<1> QED
  BY <1>2, <1>3, <1>4, <1>10

\* The end of unload_plugin: nobody is inside load_plugin.
LEMMA PopCore ==
  ASSUME ManagerCore, NEW t \in Thread, Pop(t)
  PROVE  /\ ManagerCore'
         /\ todo[t] # <<>> /\ todo[t][1].op = "pop" /\ HeadN(t) \in Plugin
         /\ lock = None
         /\ phase' = phase /\ detached' = detached /\ service' = service
         /\ plugins' = [plugins EXCEPT ![HeadN(t)] = None]
         /\ Turn(t, Tail(todo[t])) /\ Dropped(t, 1, Tail(todo[t]))
<1> DEFINE n == HeadN(t)
           r == Tail(todo[t])
<1>1. Stacks /\ DataTyped /\ SettingsTyped /\ LoadedIsRegistered
  BY DEF ManagerCore
<1>2. /\ todo[t] # <<>> /\ todo[t][1].op = "pop" /\ lock' = lock /\ Pass(t) /\ Locked(t)
      /\ phase' = phase /\ detached' = detached /\ service' = service
      /\ plugins' = [plugins EXCEPT ![n] = None] /\ registered' = registered \ {n}
  BY DEF Pop, Run, objects, HeadN
<1>3. n \in Plugin
  BY <1>2, HeadData DEF AllOps
<1>4. Dropped(t, 1, r) /\ Turn(t, r) /\ Making(r) \subseteq Making(todo[t])
  BY <1>1, <1>2, PassTurns
<1>5. lock = None
  <2>1. GoodStack(todo[t]) /\ (lock = t <=> HasUnlock(todo[t]))
    BY <1>1 DEF Stacks
  <2>2. ~HasUnlock(todo[t])
    BY <1>2, <2>1, NotInside DEF Inside
  <2> QED  BY <1>2, <2>1, <2>2 DEF Locked
<1>6. \A u \in Thread : Making(todo[u]) = {}
  <2> SUFFICES ASSUME NEW u \in Thread PROVE Making(todo[u]) = {}
    OBVIOUS
  <2>1. GoodStack(todo[u]) /\ (lock = u <=> HasUnlock(todo[u])) /\ u # None
    BY <1>1, PluginAssumption DEF Stacks
  <2> QED  BY <1>5, <2>1, MakingInside
<1>7. Stacks' /\ todo'[t] = r /\ \A u \in Thread \ {t} : todo'[u] = todo[u]
  BY <1>1, <1>4, TurnStacks
<1>8. MadeRegistered'
  <2> SUFFICES ASSUME NEW u \in Thread PROVE Making(todo'[u]) = {}
    BY DEF MadeRegistered, Making
  <2>1. CASE u = t
    BY <2>1, <1>4, <1>6, <1>7
  <2>2. CASE u # t
    BY <2>2, <1>6, <1>7
  <2> QED  BY <2>1, <2>2
<1>9. plugins' \in [Plugin -> Inst \cup {None}] /\ registered' \in SUBSET Plugin
  BY <1>1, <1>2 DEF DataTyped
<1>10. \A m \in Plugin : {plugins'[m], service'[m]} \subseteq ObjectsOf(m) \cup {None}
  BY <1>1, <1>2, <1>3 DEF DataTyped
<1>11. DataTyped'
  BY <1>1, <1>2, <1>9, <1>10 DEF DataTyped, ObjectsOf
<1>12. LoadedIsRegistered'
  BY <1>1, <1>2, <1>3 DEF LoadedIsRegistered, DataTyped
<1>13. SettingsTyped'
  BY <1>1 DEF Pop, SettingsTyped, config, hot
<1>14. ManagerCore'
  BY <1>7, <1>8, <1>11, <1>12, <1>13 DEF ManagerCore
<1> QED
  BY <1>2, <1>3, <1>4, <1>5, <1>14

\* A frame of load_plugin raises.
LEMMA RaiseTurns ==
  ASSUME Stacks, NEW t \in Thread, todo[t] # <<>>, todo[t][1].op = "make", Raise(t, Tail(todo[t]))
  PROVE  \E r \in Seq(Frame) : Turn(t, r) /\ Calm(r) /\ Making(r) = {}
<1>1. GoodStack(todo[t])
  BY DEF Stacks
<1>2. PICK c \in 1..Len(todo[t]), r \in Seq(Frame) :
           /\ Dropped(t, c, r) /\ ~HasUnlock(r)
           /\ \A k \in 2..c : todo[t][k].op \in {"unlock", "hot", "restart"} \cup (IF HasUnlock(todo[t]) THEN Inside ELSE {})
  BY <1>1, RaiseDrops
<1>3. Len(todo[t]) \in Nat
  BY <1>1, StackFacts DEF GoodStack
<1>4. c = 1 \/ c \in 2..c
  BY <1>3
<1>5. todo[t][c].op \in {"unlock", "hot", "restart"} \cup Inside
  BY <1>2, <1>4 DEF Inside
<1>6. todo[t][c].op \notin CleanOps \cup {"cleanupall", "clear"}
  BY <1>5 DEF CleanOps, Inside
<1>7. Turn(t, r)
  BY <1>2, DroppedTurns
<1>8. Calm(r)
  BY <1>1, <1>2, <1>6, SuffixCalm DEF Dropped
<1>9. Making(r) = {}
  BY <1>2, MakingInside DEF Dropped
<1> QED
  BY <1>7, <1>8, <1>9

\* _load_inprocess: the new object is one nobody uses.
LEMMA FreshObject ==
  ASSUME NEW n \in Plugin, Free(n) # {}
  PROVE  LET i == <<n, Min(Free(n))>> IN
           i \in ObjectsOf(n) /\ i \in Inst /\ ~Live(i) /\ i # service[n] /\ i # plugins[n]
<1> DEFINE k == Min(Free(n))
<1>1. Free(n) \in SUBSET Nat
  BY PluginAssumption DEF Free
<1>2. k \in Free(n)
  BY <1>1, LeastNumber
<1> HIDE DEF k
<1>3. k \in 1..MaxInst /\ ~Live(<<n, k>>) /\ <<n, k>> \notin {service[n], plugins[n]}
  BY <1>2 DEF Free
<1>4. <<n, k>> \in ObjectsOf(n) /\ <<n, k>> \in Inst
  BY <1>3 DEF ObjectsOf, Inst
<1> QED
  BY <1>3, <1>4 DEF k

\* The object is made and initialised, or its initialisation raises.
LEMMA MakeCore ==
  ASSUME ManagerCore, NEW t \in Thread, NEW registers \in BOOLEAN, NEW ok \in BOOLEAN, Make(t, registers, ok)
  PROVE  /\ ManagerCore'
         /\ todo[t] # <<>> /\ todo[t][1].op = "make" /\ HeadN(t) \in Plugin
         /\ plugins' = plugins
         /\ \E i \in ObjectsOf(HeadN(t)), r \in Seq(Frame) :
              /\ i \in Inst /\ ~Live(i) /\ i # service[HeadN(t)] /\ i # plugins[HeadN(t)]
              /\ detached' = detached \ {i}
              /\ \/ /\ service[HeadN(t)] = None
                    /\ service' = [service EXCEPT ![HeadN(t)] = i] /\ phase' = [phase EXCEPT ![i] = "ready"]
                    /\ \E f \in Frame : Staged(t, f, r) /\ f.op = "store" /\ f.n = HeadN(t) /\ f.i = i
                 \/ /\ service[HeadN(t)] = None
                    /\ service' = [service EXCEPT ![HeadN(t)] = i] /\ phase' = [phase EXCEPT ![i] = "failed"]
                    /\ Turn(t, r) /\ Calm(r) /\ Making(r) = {}
                 \/ /\ service' = service /\ phase' = phase
                    /\ Turn(t, r) /\ Calm(r) /\ Making(r) = {}
<1> DEFINE s == todo[t]
           n == HeadN(t)
           k == Min(Free(n))
           i == <<n, k>>
           accepted == registers /\ service[n] = None
<1>1. Stacks /\ DataTyped /\ SettingsTyped /\ LoadedIsRegistered
  BY DEF ManagerCore
<1>2. /\ s # <<>> /\ s[1].op = "make" /\ Free(n) # {} /\ ReadConfig(n)
      /\ plugins' = plugins /\ registered' = registered /\ detached' = detached \ {i}
      /\ service' = IF accepted THEN [service EXCEPT ![n] = i] ELSE service
      /\ IF accepted /\ ok
           THEN /\ phase' = [phase EXCEPT ![i] = "ready"]
                /\ todo' = [todo EXCEPT ![t] = <<[s[1] EXCEPT !.op = "store", !.i = i]>> \o Tail(s)]
                /\ lock' = lock
           ELSE /\ phase' = IF accepted THEN [phase EXCEPT ![i] = "failed"] ELSE phase
                /\ Raise(t, Tail(s))
  BY DEF Make, Run, tables, HeadN
<1>3. n \in Plugin
  BY <1>2, HeadData DEF AllOps
<1>4. i \in ObjectsOf(n) /\ i \in Inst /\ ~Live(i) /\ i # service[n] /\ i # plugins[n]
  BY <1>2, <1>3, FreshObject
<1>5. s[1] \in Frame
  BY <1>1, <1>2, HeadFrame
<1> HIDE DEF i
<1>6. \E r \in Seq(Frame) :
        \/ /\ service[n] = None
           /\ service' = [service EXCEPT ![n] = i] /\ phase' = [phase EXCEPT ![i] = "ready"]
           /\ \E f \in Frame : Staged(t, f, r) /\ f.op = "store" /\ f.n = n /\ f.i = i
        \/ /\ service[n] = None
           /\ service' = [service EXCEPT ![n] = i] /\ phase' = [phase EXCEPT ![i] = "failed"]
           /\ Turn(t, r) /\ Calm(r) /\ Making(r) = {}
        \/ /\ service' = service /\ phase' = phase
           /\ Turn(t, r) /\ Calm(r) /\ Making(r) = {}
  <2>1. CASE accepted /\ ok
    <3> DEFINE f == [s[1] EXCEPT !.op = "store", !.i = i]
    <3>1. f \in Frame /\ f.op = "store" /\ f.n = n /\ f.i = i
      BY <1>4, <1>5 DEF Frame, HeadN, Op
    <3>2. todo' = [todo EXCEPT ![t] = <<f>> \o Tail(s)] /\ lock' = lock
      BY <1>2, <2>1
    <3> HIDE DEF f
    <3>3. FrameOK(f)
      <4>1. n # All
        BY <1>3, PluginAssumption
      <4> QED  BY <1>4, <3>1, <4>1 DEF FrameOK, AllOps
    <3>4. <<s[1].op, f.op>> \in NextStage
      BY <1>2, <3>1 DEF NextStage
    <3>5. Staged(t, f, <<f>> \o Tail(s))
      <4>1. f.n = s[1].n
        BY <3>1 DEF HeadN
      <4> QED  BY <1>1, <1>2, <3>1, <3>2, <3>3, <3>4, <4>1, StageTurns
    <3>6. <<f>> \o Tail(s) \in Seq(Frame)
      BY <3>5 DEF Staged, Turn, GoodStack
    <3>7. service[n] = None /\ service' = [service EXCEPT ![n] = i] /\ phase' = [phase EXCEPT ![i] = "ready"]
      BY <1>2, <2>1
    <3> QED  BY <3>1, <3>5, <3>6, <3>7
  <2>2. CASE ~(accepted /\ ok)
    <3>1. Raise(t, Tail(s)) /\ phase' = IF accepted THEN [phase EXCEPT ![i] = "failed"] ELSE phase
      BY <1>2, <2>2
    <3>2. PICK r \in Seq(Frame) : Turn(t, r) /\ Calm(r) /\ Making(r) = {}
      BY <1>1, <1>2, <3>1, RaiseTurns
    <3>3. CASE accepted
      <4>1. service[n] = None /\ service' = [service EXCEPT ![n] = i] /\ phase' = [phase EXCEPT ![i] = "failed"]
        BY <1>2, <3>1, <3>3
      <4> QED  BY <3>2, <4>1
    <3>4. CASE ~accepted
      <4>1. service' = service /\ phase' = phase
        BY <1>2, <3>1, <3>4
      <4> QED  BY <3>2, <4>1
    <3> QED  BY <3>3, <3>4
  <2> QED  BY <2>1, <2>2
<1>8. \E r : Turn(t, r) /\ Making(r) \subseteq Making(s)
  BY <1>6 DEF Staged
<1>9. /\ service' = [service EXCEPT ![n] = i] \/ service' = service
      /\ phase' = [phase EXCEPT ![i] = "ready"] \/ phase' = [phase EXCEPT ![i] = "failed"] \/ phase' = phase
  BY <1>2
<1>10. phase' \in [Inst -> Phase]
  BY <1>1, <1>4, <1>9 DEF DataTyped, Phase
<1>11. service' \in [Plugin -> Inst \cup {None}]
  BY <1>1, <1>3, <1>4, <1>9 DEF DataTyped
<1>12. \A m \in Plugin : {plugins'[m], service'[m]} \subseteq ObjectsOf(m) \cup {None}
  BY <1>1, <1>2, <1>3, <1>4, <1>9 DEF DataTyped
<1>13. detached' \in SUBSET Inst
  BY <1>1, <1>2 DEF DataTyped
<1>14. DataTyped' /\ LoadedIsRegistered'
  BY <1>1, <1>2, <1>10, <1>11, <1>12, <1>13 DEF DataTyped, LoadedIsRegistered, ObjectsOf
<1>15. SettingsTyped'
  <2>1. known' \in SUBSET Plugin
    BY <1>1, <1>2, <1>3 DEF ReadConfig, SettingsTyped
  <2> QED  BY <1>1, <2>1 DEF Make, SettingsTyped, hot
<1>16. ManagerCore'
  BY <1>2, <1>8, <1>14, <1>15, WorkCore
<1> QED
  BY <1>2, <1>3, <1>4, <1>6, <1>16


\* The end of load_plugin.
LEMMA StoreCore ==
  ASSUME ManagerCore, NEW t \in Thread, Store(t)
  PROVE  /\ ManagerCore'
         /\ todo[t] # <<>> /\ todo[t][1].op = "store" /\ HeadN(t) \in Plugin
         /\ HeadI(t) \in ObjectsOf(HeadN(t)) /\ HeadI(t) \in Inst
         /\ phase' = phase /\ detached' = detached /\ service' = service
         /\ plugins' = [plugins EXCEPT ![HeadN(t)] = HeadI(t)]
         /\ \E r \in Seq(Frame) : Turn(t, r) /\ Calm(r) /\ Making(r) \subseteq Making(todo[t]) \ {HeadN(t)}
<1> DEFINE s == todo[t]
           n == HeadN(t)
<1>1. Stacks /\ DataTyped /\ SettingsTyped /\ LoadedIsRegistered /\ MadeRegistered
  BY DEF ManagerCore
<1>2. /\ s # <<>> /\ s[1].op = "store" /\ Continue(t, Tail(s))
      /\ phase' = phase /\ detached' = detached /\ service' = service
      /\ registered' = registered /\ plugins' = [plugins EXCEPT ![n] = HeadI(t)]
      /\ watched' = [watched EXCEPT ![n] = "path"]
  BY DEF Store, Run, objects, HeadN, HeadI
<1>3. n \in Plugin /\ HeadI(t) \in ObjectsOf(n) /\ HeadI(t) \in Inst
  BY <1>2, HeadData DEF AllOps, HasObject
<1>4. GoodStack(s) /\ s \in Seq(Frame) /\ Len(s) \in Nat /\ 1 \in 1..Len(s)
  BY <1>1, <1>2, HeadFrame
<1>5. PICK c \in 1..Len(s), r \in Seq(Frame) : Dropped(t, c, r) /\ (c = 1 \/ (c = 2 /\ s[2].op = "unlock"))
  BY <1>2, <1>4, ContinueDrops
<1>6. Turn(t, r)
  BY <1>1, <1>5, DroppedTurns
<1>7. Calm(r)
  <2>1. s[c].op \notin CleanOps \cup {"cleanupall", "clear"}
    BY <1>2, <1>5 DEF CleanOps
  <2> QED  BY <1>4, <1>5, <2>1, SuffixCalm DEF Dropped
<1>8. Making(r) \subseteq Making(s)
  BY <1>5, SuffixMaking DEF Dropped
<1>9. n \notin Making(r)
  <2> SUFFICES ASSUME NEW k \in 1..Len(r), r[k].op \in {"make", "store"}, r[k].n = n PROVE FALSE
    BY DEF Making
  <2>1. PICK j \in 1..Len(s) : r[k] = s[j] /\ j = k + c
    BY <1>5, SuffixMaking DEF Dropped
  <2>2. j > 1
    BY <1>4, <2>1
  <2>3. ObjectAt(s, j) /\ MakeAt(s, j)
    BY <1>4 DEF GoodStack, Shape
  <2>4. s[j].op = "make"
    BY <2>1, <2>2, <2>3 DEF ObjectAt, HasObject
  <2>5. 1 \in 1..(j - 1)
    BY <2>2, <1>4
  <2>6. Pos(s[1].n) < Pos(s[j].n)
    BY <2>3, <2>4, <2>5 DEF MakeAt
  <2>7. s[j].n = s[1].n
    BY <2>1 DEF HeadN
  <2>8. Pos(n) \in Nat
    BY <1>3, PosFacts
  <2> QED  BY <2>6, <2>7, <2>8 DEF HeadN
<1>10. n \in registered
  <2>1. n \in Making(s)
    BY <1>2, <1>3, <1>4 DEF Making, HeadN
  <2> QED  BY <1>1, <2>1 DEF MadeRegistered
<1>11. plugins' \in [Plugin -> Inst \cup {None}]
  BY <1>1, <1>2, <1>3 DEF DataTyped
<1>12. \A m \in Plugin : {plugins'[m], service'[m]} \subseteq ObjectsOf(m) \cup {None}
  BY <1>1, <1>2, <1>3 DEF DataTyped
<1>13. DataTyped'
  BY <1>1, <1>2, <1>11, <1>12 DEF DataTyped, ObjectsOf
<1>14. LoadedIsRegistered'
  BY <1>1, <1>2, <1>3, <1>10 DEF LoadedIsRegistered, DataTyped
<1>15. watched' \in [Plugin -> {"no", "path", "hash", "empty"}]
  BY <1>1, <1>2, <1>3 DEF SettingsTyped
<1>16. SettingsTyped'
  BY <1>1, <1>15 DEF Store, SettingsTyped, config
<1>17. ManagerCore'
  BY <1>2, <1>6, <1>8, <1>13, <1>14, <1>16, WorkCore
<1> QED
  BY <1>2, <1>3, <1>5, <1>6, <1>7, <1>8, <1>9, <1>17

\* cleanup_all_plugins lists the plugins it will clean up.
LEMMA SweepCore ==
  ASSUME ManagerCore, NEW t \in Thread, ForLoaded(t, "cleanupall", "cleanup")
  PROVE  /\ ManagerCore'
         /\ todo[t] # <<>> /\ todo[t][1].op = "cleanupall"
         /\ plugins' = plugins /\ phase' = phase /\ detached' = detached /\ service' = service
         /\ \E r \in Seq(Frame), new \in Seq(Frame) :
              /\ Turn(t, r) /\ Making(r) = {} /\ Pushed(r, new, todo[t])
              /\ \A k \in 1..Len(new) : new[k].op = "cleanup"
              /\ \A n \in Plugin : plugins[n] # None => \E k \in 1..Len(new) : new[k].n = n
<1> DEFINE s == todo[t]
           S == {n \in Plugin : plugins[n] # None}
<1>1. Stacks /\ DataTyped /\ SettingsTyped
  BY DEF ManagerCore
<1>2. /\ s # <<>> /\ s[1].op = "cleanupall" /\ lock' = lock
      /\ plugins' = plugins /\ registered' = registered
      /\ phase' = phase /\ detached' = detached /\ service' = service
  BY DEF ForLoaded, Run, tables, objects
<1>3. SettingsTyped'
  BY <1>1 DEF SettingsTyped, ForLoaded, config, hot
<1>4. GoodStack(s) /\ s \in Seq(Frame) /\ (lock = t <=> HasUnlock(s))
  BY <1>1 DEF Stacks
<1>5. PICK names \in SetToSeqs(S) : todo' = [todo EXCEPT ![t] = Each("cleanup", names) \o Tail(s)]
  BY DEF ForLoaded
<1>6. S \in SUBSET Plugin
  OBVIOUS
<1>7. names \in Seq(Plugin) /\ \A n \in S : \E k \in 1..Len(names) : names[k] = n
  <2> HIDE DEF S
  <2>2. names \in Seq(S) /\ \A n \in S : \E k \in 1..Len(names) : names[k] = n
    BY <1>5, <1>6, ListingOf
  <2> QED  BY <1>6, <2>2
<1> DEFINE new == Each("cleanup", names)
           r == new \o Tail(s)
<1>8. /\ new \in Seq(Frame) /\ Len(new) = Len(names)
      /\ \A k \in 1..Len(names) : new[k].op = "cleanup" /\ new[k].n = names[k] /\ FrameOK(new[k])
  <2>1. "cleanup" \in Op \ (HasObject \cup AllOps)
    BY DEF Op, HasObject, AllOps
  <2> QED  BY <1>7, <2>1, EachFacts
<1> HIDE DEF new
<1>9. Pushed(r, new, s)
  BY <1>2, <1>4, <1>8, ConcatIsPushed
<1>10. todo' = [todo EXCEPT ![t] = r]
  BY <1>5 DEF new
<1> HIDE DEF r
<1>11. GoodStack(r) /\ ~HasUnlock(r) /\ ~HasUnlock(s)
  BY <1>2, <1>4, <1>8, <1>9, CleanupsGood
<1>12. Turn(t, r) /\ r \in Seq(Frame)
  BY <1>2, <1>4, <1>10, <1>11 DEF Turn, GoodStack
<1>13. Making(r) = {}
  BY <1>11, MakingInside
<1>14. \A n \in Plugin : plugins[n] # None => \E k \in 1..Len(new) : new[k].n = n
  <2> SUFFICES ASSUME NEW n \in Plugin, plugins[n] # None PROVE \E k \in 1..Len(new) : new[k].n = n
    OBVIOUS
  <2>1. PICK k \in 1..Len(names) : names[k] = n
    BY <1>7
  <2>2. k \in 1..Len(new) /\ new[k].n = n
    BY <1>8, <2>1
  <2> QED  BY <2>2
<1>15. ManagerCore'
  BY <1>2, <1>3, <1>12, <1>13, ReadingCore
<1>16. \A k \in 1..Len(new) : new[k].op = "cleanup"
  BY <1>8
<1> QED
  BY <1>2, <1>8, <1>9, <1>12, <1>13, <1>14, <1>15, <1>16

\* The end of cleanup_all_plugins.
LEMMA ClearCore ==
  ASSUME ManagerCore, NEW t \in Thread, Clear(t)
  PROVE  /\ ManagerCore'
         /\ todo[t] # <<>> /\ todo[t][1].op = "clear"
         /\ phase' = phase /\ detached' = detached /\ service' = service
         /\ plugins' = [n \in Plugin |-> None]
         /\ Turn(t, Tail(todo[t])) /\ Dropped(t, 1, Tail(todo[t]))
<1>1. Stacks /\ DataTyped /\ SettingsTyped
  BY DEF ManagerCore
<1>2. /\ todo[t] # <<>> /\ todo[t][1].op = "clear" /\ lock' = lock /\ Pass(t) /\ registered' = registered
      /\ phase' = phase /\ detached' = detached /\ service' = service
      /\ plugins' = [n \in Plugin |-> None] /\ watching' = FALSE
  BY DEF Clear, Run, objects
<1>3. /\ Dropped(t, 1, Tail(todo[t])) /\ Turn(t, Tail(todo[t]))
      /\ Making(Tail(todo[t])) \subseteq Making(todo[t])
  BY <1>1, <1>2, PassTurns
<1>4. plugins' \in [Plugin -> Inst \cup {None}]
  BY <1>2
<1>5. \A m \in Plugin : {plugins'[m], service'[m]} \subseteq ObjectsOf(m) \cup {None}
  BY <1>1, <1>2 DEF DataTyped
<1>6. DataTyped' /\ LoadedIsRegistered'
  BY <1>1, <1>2, <1>4, <1>5 DEF DataTyped, LoadedIsRegistered, ObjectsOf
<1>7. SettingsTyped'
  BY <1>1, <1>2 DEF Clear, SettingsTyped, config
<1>8. ManagerCore'
  BY <1>2, <1>3, <1>6, <1>7, WorkCore
<1> QED
  BY <1>2, <1>3, <1>8

\* The end of shutdown.
LEMMA WipeCore ==
  ASSUME ManagerCore, NEW t \in Thread, Wipe(t)
  PROVE  /\ ManagerCore'
         /\ todo[t] # <<>> /\ todo[t][1].op = "wipe"
         /\ phase' = phase /\ detached' = detached /\ plugins' = plugins
         /\ service' = [n \in Plugin |-> None]
         /\ Turn(t, Tail(todo[t])) /\ Dropped(t, 1, Tail(todo[t]))
<1>1. Stacks /\ DataTyped /\ SettingsTyped /\ LoadedIsRegistered
  BY DEF ManagerCore
<1>2. /\ todo[t] # <<>> /\ todo[t][1].op = "wipe" /\ lock' = lock /\ Pass(t)
      /\ registered' = registered /\ plugins' = plugins
      /\ phase' = phase /\ detached' = detached /\ service' = [n \in Plugin |-> None]
      /\ watching' = FALSE /\ started' = FALSE
  BY DEF Wipe, Run, tables
<1>3. /\ Dropped(t, 1, Tail(todo[t])) /\ Turn(t, Tail(todo[t]))
      /\ Making(Tail(todo[t])) \subseteq Making(todo[t])
  BY <1>1, <1>2, PassTurns
<1>4. service' \in [Plugin -> Inst \cup {None}]
  BY <1>2
<1>5. \A m \in Plugin : {plugins'[m], service'[m]} \subseteq ObjectsOf(m) \cup {None}
  BY <1>1, <1>2 DEF DataTyped
<1>6. DataTyped' /\ LoadedIsRegistered'
  BY <1>1, <1>2, <1>4, <1>5 DEF DataTyped, LoadedIsRegistered, ObjectsOf
<1>7. SettingsTyped'
  BY <1>1, <1>2 DEF Wipe, SettingsTyped, config
<1>8. ManagerCore'
  BY <1>2, <1>3, <1>6, <1>7, WorkCore
<1> QED
  BY <1>2, <1>3, <1>8

\* on_hot_reload registers the service of the plugin that is loaded.
LEMMA HotCore ==
  ASSUME ManagerCore, NEW t \in Thread, OnHotReload(t), service' # service
  PROVE  /\ ManagerCore'
         /\ todo[t] # <<>> /\ todo[t][1].op = "hot" /\ HeadN(t) \in Plugin
         /\ service[HeadN(t)] = None /\ GetPlugin(HeadN(t)) # None
         /\ plugins' = plugins /\ phase' = phase /\ detached' = detached
         /\ service' = [service EXCEPT ![HeadN(t)] = GetPlugin(HeadN(t))]
         /\ \E r \in Seq(Frame) : Turn(t, r) /\ Calm(r) /\ Making(r) \subseteq Making(todo[t])
<1> DEFINE n == HeadN(t)
           r == Tail(todo[t])
<1>1. Stacks /\ DataTyped /\ SettingsTyped /\ LoadedIsRegistered
  BY DEF ManagerCore
<1>2. /\ todo[t] # <<>> /\ todo[t][1].op = "hot" /\ lock' = lock /\ Pass(t)
      /\ registered' = registered /\ plugins' = plugins /\ phase' = phase /\ detached' = detached
      /\ service' = [service EXCEPT ![n] = GetPlugin(n)]
      /\ service[n] = None /\ GetPlugin(n) # None
  BY DEF OnHotReload, Run, tables, HeadN
<1>3. n \in Plugin
  BY <1>2, HeadData DEF AllOps
<1>4. Dropped(t, 1, r) /\ Turn(t, r) /\ Making(r) \subseteq Making(todo[t])
  BY <1>1, <1>2, PassTurns
<1>5. Calm(r)
  <2>1. GoodStack(todo[t])
    BY <1>1 DEF Stacks
  <2>2. todo[t][1].op \notin CleanOps \cup {"cleanupall", "clear"}
    BY <1>2 DEF CleanOps
  <2> QED  BY <1>4, <2>1, <2>2, SuffixCalm DEF Dropped
<1>6. GetPlugin(n) \in ObjectsOf(n) /\ GetPlugin(n) \in Inst
  BY <1>1, <1>2, <1>3 DEF DataTyped, GetPlugin
<1>7. service' \in [Plugin -> Inst \cup {None}]
  BY <1>1, <1>2, <1>3, <1>6 DEF DataTyped
<1>8. \A m \in Plugin : {plugins'[m], service'[m]} \subseteq ObjectsOf(m) \cup {None}
  BY <1>1, <1>2, <1>3, <1>6 DEF DataTyped
<1>9. DataTyped' /\ LoadedIsRegistered'
  BY <1>1, <1>2, <1>7, <1>8 DEF DataTyped, LoadedIsRegistered, ObjectsOf
<1>10. SettingsTyped'
  BY <1>1 DEF OnHotReload, SettingsTyped, config, hot
<1>11. ManagerCore'
  BY <1>2, <1>4, <1>9, <1>10, WorkCore
<1>12. r \in Seq(Frame)
  BY <1>4 DEF Turn, GoodStack
<1> QED
  BY <1>2, <1>3, <1>4, <1>5, <1>11, <1>12

-----------------------------------------------------------------------------
(* The tables agree in every interleaving *)

(* A step of a thread that leaves the plugins as they are.                 *)
IdleStep(t) == (\E r \in Seq(Frame) : IdleTurn(t, r)) /\ SettingsTyped'

(* A step of a thread that works on a plugin.                              *)
WorkStep(t) ==
  \/ Store(t) \/ CleanupRun(t) \/ CleanupEnd(t) \/ Pop(t) \/ Clear(t) \/ Wipe(t)
  \/ StartRun(t, TRUE) \/ StopRun(t) \/ ForLoaded(t, "cleanupall", "cleanup")
  \/ \E registers \in BOOLEAN, ok \in BOOLEAN : Make(t, registers, ok)
  \/ Lookup(t, "start", "startread") \/ Lookup(t, "stop", "stopread") \/ Lookup(t, "cleanup", "cleanupread")
  \/ ReadObject(t, "startread", "startrun") \/ ReadObject(t, "stopread", "stoprun")
  \/ ReadObject(t, "cleanupread", "cleanuprun")
  \/ OnHotReload(t) /\ service' # service

\* Every step of a thread is one of the two.
LEMMA StepKinds ==
  ASSUME ManagerCore, NEW t \in Thread, FrameStep(t) \/ PluginRaises(t)
  PROVE  IdleStep(t) \/ WorkStep(t)
<1>1. CASE Load(t) \/ Need(t)
  <2>1. SettingsTyped'
    BY <1>1 DEF ManagerCore, SettingsTyped, Load, Need, config, hot
  <2> QED  BY <1>1, <2>1, LoadIdle, NeedIdle DEF IdleStep
<1>2. CASE MakeDisabled(t) \/ MakeFails(t)
  BY <1>2, MakeIdle DEF IdleStep
<1>3. CASE StartRun(t, FALSE)
  BY <1>3, StartFailsIdle DEF IdleStep
<1>4. CASE Reload(t) \/ Restart(t)
  BY <1>4, ReloadIdle DEF IdleStep
<1>5. CASE Rediscover(t) \/ Disabled(t) \/ SetStarted(t) \/ StartWatching(t)
  BY <1>5, FlagIdle DEF IdleStep
<1>6. CASE ForLoaded(t, "startall", "start") \/ ForLoaded(t, "stopleft", "stop")
  BY <1>6, ForLoadedIdle DEF IdleStep
<1>7. CASE OnHotReload(t)
  BY <1>7, HotIdle DEF IdleStep, WorkStep
<1>8. CASE WorkStep(t)
  BY <1>8
<1> QED
  BY <1>1, <1>2, <1>3, <1>4, <1>5, <1>6, <1>7, <1>8 DEF FrameStep, PluginRaises, WorkStep

\* Every step keeps the tables.
LEMMA StepCore ==
  ASSUME ManagerCore, NEW t \in Thread, IdleStep(t) \/ WorkStep(t)
  PROVE  ManagerCore'
<1>1. CASE IdleStep(t)
  BY <1>1, IdleCore DEF IdleStep
<1>2. CASE Store(t) \/ CleanupRun(t) \/ CleanupEnd(t) \/ Pop(t) \/ Clear(t) \/ Wipe(t)
  BY <1>2, StoreCore, CleanupRunCore, CleanupEndCore, PopCore, ClearCore, WipeCore
<1>3. CASE StartRun(t, TRUE) \/ StopRun(t)
  BY <1>3, RunCore
<1>4. CASE ForLoaded(t, "cleanupall", "cleanup")
  BY <1>4, SweepCore
<1>5. CASE \E registers \in BOOLEAN, ok \in BOOLEAN : Make(t, registers, ok)
  BY <1>5, MakeCore
<1>6. CASE Lookup(t, "start", "startread") \/ Lookup(t, "stop", "stopread") \/ Lookup(t, "cleanup", "cleanupread")
  BY <1>6, LookupCore
<1>7. CASE \/ ReadObject(t, "startread", "startrun") \/ ReadObject(t, "stopread", "stoprun")
           \/ ReadObject(t, "cleanupread", "cleanuprun")
  BY <1>7, LookupCore
<1>8. CASE OnHotReload(t) /\ service' # service
  BY <1>8, HotCore
<1> QED
  BY <1>1, <1>2, <1>3, <1>4, <1>5, <1>6, <1>7, <1>8 DEF WorkStep

(* The thread of a step, and what becomes of the plugins two threads work  *)
(* on.                                                                     *)
StepOf(t) == (IdleStep(t) \/ WorkStep(t)) /\ mixed' = mixed \cup Overlap'

\* The calls that begin are steps of a thread too, and the counters stay in
\* their bounds.
LEMMA NextSteps ==
  ASSUME ManagerIInv, Next
  PROVE  (\E t \in Thread : StepOf(t)) /\ CountsTyped'
<1>1. ManagerCore /\ CountsTyped
  BY DEF ManagerIInv
<1>2. mixed' = mixed \cup Overlap'
  BY DEF Next, NewCall, ThreadStep
<1>3. mixed' \in SUBSET Plugin
  <2>1. Overlap' \subseteq Plugin
    BY DEF Overlap
  <2> QED  BY <1>1, <1>2, <2>1 DEF CountsTyped
<1>4. MaxCalls \in Nat /\ MaxFaults \in Nat /\ MaxScans \in Nat
  BY PluginAssumption
<1>5. CASE \E t \in Thread : ThreadStep(t)
  <2>1. PICK t \in Thread : ThreadStep(t)
    BY <1>5
  <2>2. StepOf(t)
    BY <1>1, <1>2, <2>1, StepKinds DEF ThreadStep, StepOf
  <2>3. /\ callCount' = callCount /\ scans' = scans
        /\ faults' = faults \/ (faults < MaxFaults /\ faults' = faults + 1)
    BY <2>1 DEF ThreadStep, FrameStep, PluginRaises
  <2>4. CountsTyped'
    <3>1. callCount \in 0..MaxCalls /\ faults \in 0..MaxFaults /\ scans \in 0..MaxScans
      BY <1>1 DEF CountsTyped
    <3>2. faults' \in 0..MaxFaults
      BY <1>4, <2>3, <3>1
    <3> QED  BY <1>3, <2>3, <3>1, <3>2 DEF CountsTyped
  <2> QED  BY <2>2, <2>4
<1>6. CASE NewCall
  <2>1. faults' = faults
    BY <1>6 DEF NewCall
  <2>2. /\ \E t \in Thread : IdleStep(t)
        /\ \/ callCount < MaxCalls /\ callCount' = callCount + 1 /\ scans' = scans
           \/ callCount' = callCount /\ scans < MaxScans /\ scans' = scans + 1
    <3>1. CASE Scan
      BY <1>1, <3>1, ScanIdle DEF Thread, IdleStep
    <3>2. CASE \E t \in User : CallDiscover(t) \/ CallAll(t) \/ \E n \in Plugin : CallOne(t, n) \/ CallEnable(t, n)
      <4>1. PICK t \in User : CallDiscover(t) \/ CallAll(t) \/ \E n \in Plugin : CallOne(t, n) \/ CallEnable(t, n)
        BY <3>2
      <4>2. t \in Thread
        BY DEF Thread
      <4>3. /\ \E r \in Seq(Frame) : IdleTurn(t, r)
            /\ SettingsTyped' /\ callCount < MaxCalls /\ callCount' = callCount + 1 /\ scans' = scans
        BY <1>1, <4>1, CallIdle
      <4> QED  BY <4>2, <4>3 DEF IdleStep
    <3> QED  BY <1>6, <3>1, <3>2 DEF NewCall
  <2>3. CountsTyped'
    <3>1. callCount \in 0..MaxCalls /\ faults \in 0..MaxFaults /\ scans \in 0..MaxScans
      BY <1>1 DEF CountsTyped
    <3>2. callCount' \in 0..MaxCalls /\ scans' \in 0..MaxScans
      BY <1>4, <2>2, <3>1
    <3> QED  BY <1>3, <2>1, <3>1, <3>2 DEF CountsTyped
  <2> QED  BY <1>2, <2>2, <2>3 DEF StepOf
<1> QED
  BY <1>5, <1>6 DEF Next

\* Nothing has been called.
LEMMA InitManager ==
  ASSUME Init
  PROVE  ManagerIInv
<1>1. todo = [t \in Thread |-> <<>>] /\ lock = None /\ None \notin Thread
  BY PluginAssumption DEF Init
<1>2. <<>> \in Seq(Frame) /\ Len(<<>>) = 0
  OBVIOUS
<1>3. GoodStack(<<>>) /\ ~HasUnlock(<<>>) /\ Making(<<>>) = {}
  BY <1>2 DEF GoodStack, Shape, HasUnlock, Making
<1>4. Stacks /\ MadeRegistered
  <2>1. \A t \in Thread : todo[t] = <<>>
    BY <1>1
  <2>2. \A t \in Thread : GoodStack(todo[t]) /\ ~HasUnlock(todo[t]) /\ Making(todo[t]) = {} /\ lock # t
    BY <1>1, <1>3, <2>1
  <2>3. todo \in [Thread -> Seq(Frame)]
    BY <1>1, <1>2
  <2> QED  BY <1>1, <2>2, <2>3 DEF Stacks, MadeRegistered
<1>5. DataTyped
  <2>1. plugins = [n \in Plugin |-> None] /\ service = [n \in Plugin |-> None]
    BY DEF Init
  <2>2. plugins \in [Plugin -> Inst \cup {None}] /\ service \in [Plugin -> Inst \cup {None}]
    BY <2>1
  <2>3. phase \in [Inst -> Phase]
    BY DEF Init, Phase
  <2>4. \A n \in Plugin : {plugins[n], service[n]} \subseteq ObjectsOf(n) \cup {None}
    BY <2>1
  <2> QED  BY <2>2, <2>3, <2>4 DEF DataTyped, Init
<1>6. SettingsTyped
  <2>1. saved \in [Plugin -> Setting]
    BY PluginAssumption DEF Init
  <2>2. watched \in [Plugin -> {"no", "path", "hash", "empty"}]
    BY DEF Init
  <2> QED  BY <2>1, <2>2 DEF SettingsTyped, Init
<1>7. LoadedIsRegistered
  BY DEF Init, LoadedIsRegistered
<1>8. CountsTyped
  BY PluginAssumption DEF Init, CountsTyped
<1> QED
  BY <1>4, <1>5, <1>6, <1>7, <1>8 DEF ManagerIInv, ManagerCore

\* One step of any thread.
LEMMA NextManager ==
  ASSUME ManagerIInv, [Next]_vars
  PROVE  ManagerIInv'
<1>1. CASE Next
  BY <1>1, NextSteps, StepCore DEF ManagerIInv, StepOf
<1>2. CASE UNCHANGED vars
  <2>1. /\ UNCHANGED <<registered, plugins, phase, detached, service, saved, known, watched, watching, started, lock, todo>>
        /\ UNCHANGED <<callCount, faults, scans, mixed>>
    BY <1>2 DEF vars, tables, objects, config, hot
  <2>2. DataTyped' /\ SettingsTyped' /\ LoadedIsRegistered' /\ CountsTyped'
    BY <2>1 DEF ManagerIInv, ManagerCore, DataTyped, SettingsTyped, LoadedIsRegistered, CountsTyped, ObjectsOf
  <2>3. /\ lock' \in Thread \cup {None} /\ todo' \in [Thread -> Seq(Frame)]
        /\ \A t \in Thread : GoodStack(todo'[t]) /\ (lock' = t <=> HasUnlock(todo'[t])) /\ Making(todo'[t]) \subseteq registered'
    BY <2>1 DEF ManagerIInv, ManagerCore, Stacks, MadeRegistered
  <2>4. Stacks'
    BY <2>3 DEF Stacks, GoodStack, HasUnlock, FrameOK, Shape, UnlockAt, InsideAt, ObjectAt,
       PopAt, CleanAt, ClearAt, CleanupAllAt, WipeAt, MakeAt, ObjectsOf, Pos
  <2>5. MadeRegistered'
    BY <2>3 DEF MadeRegistered, Making
  <2> QED  BY <2>2, <2>4, <2>5 DEF ManagerIInv, ManagerCore
<1> QED
  BY <1>1, <1>2

\* The frames of a thread as a set.
LEMMA FramesAre ==
  ASSUME Stacks, NEW t \in Thread
  PROVE  /\ \A k \in 1..Len(todo[t]) : todo[t][k] \in ToSet(todo[t])
         /\ \A f \in ToSet(todo[t]) : \E k \in 1..Len(todo[t]) : todo[t][k] = f
<1>1. todo[t] \in Seq(Frame)
  BY DEF Stacks
<1>2. ToSet(todo[t]) = {todo[t][k] : k \in 1..Len(todo[t])}
  BY <1>1, StackFacts DEF ToSet
<1> QED
  BY <1>2

\* The invariant says what ManagerInv does.
LEMMA ManagerHolds ==
  ASSUME ManagerIInv
  PROVE  ManagerInv
<1>1. DataTyped /\ SettingsTyped /\ Stacks /\ LoadedIsRegistered /\ CountsTyped
  BY DEF ManagerIInv, ManagerCore
<1>2. LockHeldInLoad
  <2> SUFFICES ASSUME NEW t \in Thread PROVE lock = t <=> \E f \in ToSet(todo[t]) : f.op = "unlock"
    BY DEF LockHeldInLoad
  <2>1. lock = t <=> HasUnlock(todo[t])
    BY <1>1 DEF Stacks
  <2>2. /\ \A k \in 1..Len(todo[t]) : todo[t][k] \in ToSet(todo[t])
        /\ \A f \in ToSet(todo[t]) : \E k \in 1..Len(todo[t]) : todo[t][k] = f
    BY <1>1, FramesAre
  <2> QED  BY <2>1, <2>2 DEF HasUnlock
<1>3. \A f \in Frames : f.op \in HasObject => f.i # None
  <2> SUFFICES ASSUME NEW t \in Thread, NEW f \in ToSet(todo[t]), f.op \in HasObject PROVE f.i # None
    BY DEF Frames
  <2>1. PICK k \in 1..Len(todo[t]) : todo[t][k] = f
    BY <1>1, FramesAre
  <2>2. f.i \in ObjectsOf(f.n)
    BY <1>1, <2>1 DEF Stacks, GoodStack, FrameOK
  <2> QED  BY <2>2 DEF ObjectsOf, None
<1>4. \A t \in Thread : todo[t] \in Seq(Frame)
  BY <1>1 DEF Stacks
<1>5. {watching, started} \subseteq BOOLEAN
  BY <1>1 DEF SettingsTyped
<1>6. TypeOK
  BY <1>1, <1>3, <1>4, <1>5 DEF TypeOK, DataTyped, SettingsTyped, CountsTyped, Stacks
<1> QED
  BY <1>1, <1>2, <1>6 DEF ManagerInv

\* The tables, the lock and the lists of frames agree in every reachable state.
THEOREM ManagerInvariant ==
  Spec => []ManagerIInv
<1>1. Init => ManagerIInv
  BY InitManager
<1>2. ManagerIInv /\ [Next]_vars => ManagerIInv'
  BY NextManager
<1> QED
  BY <1>1, <1>2, PTL DEF Spec

\* In every interleaving of users and watcher, and whatever callbacks raise,
\* what is in _plugins is known to the resolver, _load_lock is held exactly by
\* the thread that is inside load_plugin, and no callback is called on None.
THEOREM ManagerSafe ==
  Spec => []ManagerInv
<1>1. ManagerIInv => ManagerInv
  BY ManagerHolds
<1> QED
  BY <1>1, ManagerInvariant, PTL

-----------------------------------------------------------------------------
(* Plugins that only one thread works on *)

(* A thread with the frames s works on n.                                  *)
WorksIn(s, n) == \E k \in 1..Len(s) : s[k].n \in {n, All} /\ s[k].op # "need"

(* The step leaves n alone.                                                *)
SameAt(n) ==
  /\ plugins'[n] = plugins[n] /\ service'[n] = service[n]
  /\ \A i \in ObjectsOf(n) : phase'[i] = phase[i] /\ (i \in detached' <=> i \in detached)

(* What one thread has to see to when it is the only one that works on n.  *)
Sound(s, n) == (Settled(n) \/ Explains(s, n)) /\ Relies(s, n)

\* Objects of different plugins are different.
LEMMA ObjectsApart ==
  ASSUME NEW n, NEW m, n # m
  PROVE  \A i \in ObjectsOf(n) : i \notin ObjectsOf(m)
BY DEF ObjectsOf

\* An object is not None.
LEMMA ObjectNotNone ==
  ASSUME NEW n
  PROVE  \A i \in ObjectsOf(n) : i # None
BY DEF ObjectsOf, None

\* The state of a plugin that is left alone.
LEMMA SameFacts ==
  ASSUME DataTyped, NEW n \in Plugin, SameAt(n)
  PROVE  /\ Settled(n) <=> Settled(n)'
         /\ Emptied(n) <=> Emptied(n)'
         /\ \A i \in ObjectsOf(n) : (Made(n, i) <=> Made(n, i)') /\ (Half(n, i) <=> Half(n, i)')
<1>1. {plugins[n], service[n]} \subseteq ObjectsOf(n) \cup {None}
  BY DEF DataTyped
<1>2. plugins'[n] = plugins[n] /\ service'[n] = service[n]
  BY DEF SameAt
<1>3. \A i \in ObjectsOf(n) : (Live(i) <=> Live(i)') /\ phase'[i] = phase[i] /\ (i \in detached' <=> i \in detached)
  BY DEF SameAt, Live
<1>4. Dead(n) <=> Dead(n)'
  BY <1>3 DEF Dead, ObjectsOf
<1>5. Settled(n) <=> Settled(n)'
  BY <1>1, <1>2, <1>3 DEF Settled, Live, ObjectsOf
<1>6. Emptied(n) <=> Emptied(n)'
  BY <1>1, <1>2, <1>3, <1>4 DEF Emptied
<1>7. \A i \in ObjectsOf(n) : Made(n, i) <=> Made(n, i)'
  BY <1>2, <1>3 DEF Made, Live, ObjectsOf
<1>8. \A i \in ObjectsOf(n) : Half(n, i) <=> Half(n, i)'
  BY <1>2, <1>3, <1>4 DEF Half
<1> QED
  BY <1>5, <1>6, <1>7, <1>8

\* Nothing changes for any plugin.
LEMMA SameAll ==
  ASSUME plugins' = plugins, phase' = phase, detached' = detached, service' = service, NEW n
  PROVE  SameAt(n)
BY DEF SameAt

\* A step changes no plugin but that of the thread's first frame.
LEMMA SameElsewhere ==
  ASSUME ManagerCore, NEW t \in Thread, IdleStep(t) \/ WorkStep(t), NEW n \in Plugin,
         todo[t] # <<>> => HeadN(t) # n /\ todo[t][1].op \notin {"clear", "wipe"}
  PROVE  SameAt(n)
<1>0. DataTyped
  BY DEF ManagerCore
<1>1. CASE IdleStep(t)
  BY <1>1, SameAll DEF IdleStep, IdleTurn
<1>2. CASE Store(t)
  <2>1. /\ todo[t] # <<>> /\ phase' = phase /\ detached' = detached /\ service' = service
        /\ plugins' = [plugins EXCEPT ![HeadN(t)] = HeadI(t)]
    BY <1>2, StoreCore
  <2> QED  BY <1>0, <2>1 DEF SameAt, DataTyped
<1>3. CASE CleanupRun(t)
  <2>1. /\ todo[t] # <<>> /\ plugins' = plugins /\ detached' = detached /\ HeadI(t) \in ObjectsOf(HeadN(t))
        /\ phase' = [phase EXCEPT ![HeadI(t)] = "gone"] /\ service' = [service EXCEPT ![HeadN(t)] = None]
    BY <1>3, CleanupRunCore
  <2>2. \A i \in ObjectsOf(n) : i # HeadI(t) /\ i \in Inst
    BY <2>1, ObjectsApart DEF ObjectsOf, Inst
  <2> QED  BY <1>0, <2>1, <2>2 DEF SameAt, DataTyped
<1>4. CASE CleanupEnd(t)
  <2>1. /\ todo[t] # <<>> /\ plugins' = plugins /\ detached' = detached \cup {HeadI(t)} /\ HeadI(t) \in ObjectsOf(HeadN(t))
        /\ phase' = phase /\ service' = [service EXCEPT ![HeadN(t)] = None]
    BY <1>4, CleanupEndCore
  <2>2. \A i \in ObjectsOf(n) : i # HeadI(t)
    BY <2>1, ObjectsApart
  <2> QED  BY <1>0, <2>1, <2>2 DEF SameAt, DataTyped
<1>5. CASE Pop(t)
  <2>1. /\ todo[t] # <<>> /\ phase' = phase /\ detached' = detached /\ service' = service
        /\ plugins' = [plugins EXCEPT ![HeadN(t)] = None]
    BY <1>5, PopCore
  <2> QED  BY <1>0, <2>1 DEF SameAt, DataTyped
<1>6. CASE Clear(t) \/ Wipe(t)
  BY <1>6, ClearCore, WipeCore
<1>7. CASE StartRun(t, TRUE) \/ StopRun(t)
  <2>1. /\ todo[t] # <<>> /\ plugins' = plugins /\ detached' = detached /\ service' = service
        /\ HeadI(t) \in ObjectsOf(HeadN(t))
        /\ \/ phase' = [phase EXCEPT ![HeadI(t)] = "running"]
           \/ phase' = [phase EXCEPT ![HeadI(t)] = "stopped"]
           \/ phase' = phase
    BY <1>7, RunCore
  <2>2. \A i \in ObjectsOf(n) : i # HeadI(t) /\ i \in Inst
    BY <2>1, ObjectsApart DEF ObjectsOf, Inst
  <2> QED  BY <1>0, <2>1, <2>2 DEF SameAt, DataTyped
<1>8. CASE ForLoaded(t, "cleanupall", "cleanup")
  BY <1>8, SweepCore, SameAll
<1>9. CASE \E registers \in BOOLEAN, ok \in BOOLEAN : Make(t, registers, ok)
  <2>1. /\ todo[t] # <<>> /\ plugins' = plugins
        /\ \E i \in ObjectsOf(HeadN(t)) :
             /\ detached' = detached \ {i}
             /\ service' = [service EXCEPT ![HeadN(t)] = i] \/ service' = service
             /\ phase' = [phase EXCEPT ![i] = "ready"] \/ phase' = [phase EXCEPT ![i] = "failed"] \/ phase' = phase
    BY <1>9, MakeCore
  <2>2. PICK i \in ObjectsOf(HeadN(t)) :
             /\ detached' = detached \ {i}
             /\ service' = [service EXCEPT ![HeadN(t)] = i] \/ service' = service
             /\ phase' = [phase EXCEPT ![i] = "ready"] \/ phase' = [phase EXCEPT ![i] = "failed"] \/ phase' = phase
    BY <2>1
  <2>3. \A j \in ObjectsOf(n) : j # i /\ j \in Inst
    BY <2>1, ObjectsApart DEF ObjectsOf, Inst
  <2> QED  BY <1>0, <2>1, <2>2, <2>3 DEF SameAt, DataTyped
<1>10. CASE \/ Lookup(t, "start", "startread") \/ Lookup(t, "stop", "stopread") \/ Lookup(t, "cleanup", "cleanupread")
            \/ ReadObject(t, "startread", "startrun") \/ ReadObject(t, "stopread", "stoprun")
            \/ ReadObject(t, "cleanupread", "cleanuprun")
  BY <1>10, SameAll DEF Lookup, ReadObject, tables, objects
<1>11. CASE OnHotReload(t) /\ service' # service
  <2>1. /\ todo[t] # <<>> /\ plugins' = plugins /\ phase' = phase /\ detached' = detached
        /\ service' = [service EXCEPT ![HeadN(t)] = GetPlugin(HeadN(t))]
    BY <1>11, HotCore
  <2> QED  BY <1>0, <2>1 DEF SameAt, DataTyped
<1> QED
  BY <1>1, <1>2, <1>3, <1>4, <1>5, <1>6, <1>7, <1>8, <1>9, <1>10, <1>11 DEF WorkStep

\* A thread between two pieces of work relies on little.
LEMMA CalmSound ==
  ASSUME NEW r \in Seq(Frame), NEW n \in Plugin, Calm(r), Settled(n)', n \in Making(r) => plugins'[n] = None
  PROVE  Sound(r, n)'
<1>1. r # <<>> => r[1].op \notin HasObject \cup {"pop", "wipe"}
  BY DEF Calm
<1>2. ASSUME NEW ops \in SUBSET (HasObject \cup {"pop", "wipe"}), NEW m PROVE ~HeadIs(r, ops, m)
  BY <1>1 DEF HeadIs
<1>3. /\ ~HeadIs(r, {"pop"}, n) /\ ~HeadIs(r, {"store"}, n) /\ ~HeadIs(r, {"cleanupend"}, n)
      /\ ~HeadIs(r, Reading, n) /\ ~HeadIs(r, {"cleanuprun"}, n) /\ ~HeadIs(r, {"wipe"}, All)
  BY <1>1 DEF HeadIs, HasObject, Reading
<1>4. \A k \in 1..Len(r) : ~SweepAt(r, k)
  BY DEF Calm, Sweep
<1>5. \A k \in 1..Len(r) : r[k].op = "make" /\ r[k].n = n => plugins'[n] = None
  BY DEF Making
<1>6. Relies(r, n)'
  BY <1>3, <1>4, <1>5 DEF Relies, HeadIs, SweepAt
<1> QED
  BY <1>6 DEF Sound

\* At most of its frames a thread leaves no call half done.
LEMMA PlainSettled ==
  ASSUME NEW s, s \in Seq(Frame), NEW n, Sound(s, n),
         s # <<>> => (s[1].op \in {"store", "pop"} => s[1].n # n) /\ s[1].op \notin CleanOps \cup {"clear"}
  PROVE  Settled(n)
<1>1. ~HeadIs(s, {"store", "cleanupend"}, n) /\ ~HeadIs(s, CleanOps \cup {"pop"}, n)
  BY DEF HeadIs, CleanOps
<1>2. ~Sweep(s)
  <2> SUFFICES ASSUME NEW k \in 1..Len(s), SweepAt(s, k) PROVE FALSE
    BY DEF Sweep
  <2>1. Len(s) \in Nat /\ s # <<>>
    BY StackFacts
  <2>2. k = 1 \/ 1 \in 1..(k - 1)
    BY <2>1
  <2> QED  BY <2>1, <2>2 DEF SweepAt
<1> QED
  BY <1>1, <1>2 DEF Sound, Explains

\* Objects are made for plugins that are not loaded.
LEMMA MakingUnloaded ==
  ASSUME NEW s, GoodStack(s), NEW n \in Plugin, Sound(s, n), n \in Making(s), s[1].op = "store" => s[1].n # n
  PROVE  plugins[n] = None
<1>1. PICK k \in 1..Len(s) : s[k].op \in {"make", "store"} /\ s[k].n = n
  BY DEF Making
<1>2. ObjectAt(s, k)
  BY DEF GoodStack, Shape
<1>3. s[k].op = "make"
  BY <1>1, <1>2 DEF ObjectAt, HasObject
<1> QED
  BY <1>1, <1>3 DEF Sound, Relies

\* A step that leaves the plugins as they are.
LEMMA IdleSound ==
  ASSUME ManagerCore, NEW t \in Thread, NEW r \in Seq(Frame), IdleTurn(t, r), NEW n \in Plugin, Sound(todo[t], n)
  PROVE  Sound(r, n)'
<1>1. DataTyped /\ Stacks
  BY DEF ManagerCore
<1>2. GoodStack(todo[t]) /\ todo[t] \in Seq(Frame)
  BY <1>1 DEF Stacks
<1>3. SameAt(n)
  BY SameAll DEF IdleTurn
<1>4. Settled(n)
  <2>1. todo[t] # <<>> => todo[t][1].op \notin CleanOps \cup {"store", "pop", "clear"}
    BY DEF IdleTurn, PlainHead
  <2> QED  BY <1>2, <2>1, PlainSettled
<1>5. Settled(n)'
  BY <1>1, <1>3, <1>4, SameFacts
<1>6. ASSUME n \in Making(r) PROVE plugins[n] = None
  <2>1. CASE n \in Making(todo[t])
    <3>1. todo[t] # <<>>
      <4>1. Len(<<>>) = 0
        OBVIOUS
      <4>2. Making(<<>>) = {}
        BY <4>1 DEF Making
      <4> QED  BY <2>1, <4>2
    <3>2. todo[t][1].op # "store"
      BY <3>1 DEF IdleTurn, PlainHead
    <3> QED  BY <1>2, <2>1, <3>2, MakingUnloaded
  <2>2. CASE n \notin Making(todo[t])
    <3>1. GetPlugin(n) = None
      BY <1>6, <2>2 DEF IdleTurn
    <3> QED  BY <1>4, <3>1 DEF GetPlugin, Settled
  <2> QED  BY <2>1, <2>2
<1>7. n \in Making(r) => plugins'[n] = None
  BY <1>6 DEF IdleTurn
<1>8. Calm(r)
  BY DEF IdleTurn
<1> QED
  BY <1>5, <1>7, <1>8, CalmSound

\* The end of load_plugin.
LEMMA StoreSound ==
  ASSUME ManagerCore, NEW t \in Thread, Store(t), NEW n \in Plugin, Sound(todo[t], n)
  PROVE  \E r \in Seq(Frame) : Turn(t, r) /\ Sound(r, n)'
<1>1. DataTyped /\ Stacks
  BY DEF ManagerCore
<1>2. GoodStack(todo[t]) /\ todo[t] \in Seq(Frame)
  BY <1>1 DEF Stacks
<1>3. /\ todo[t] # <<>> /\ todo[t][1].op = "store" /\ HeadN(t) \in Plugin
      /\ HeadI(t) \in ObjectsOf(HeadN(t)) /\ HeadI(t) \in Inst
      /\ phase' = phase /\ detached' = detached /\ service' = service
      /\ plugins' = [plugins EXCEPT ![HeadN(t)] = HeadI(t)]
  BY StoreCore
<1>4. PICK r \in Seq(Frame) : Turn(t, r) /\ Calm(r) /\ Making(r) \subseteq Making(todo[t]) \ {HeadN(t)}
  BY StoreCore
<1>5. CASE HeadN(t) = n
  <2>1. Made(n, HeadI(t))
    BY <1>3, <1>5 DEF Sound, Relies, HeadIs, HeadN, HeadI
  <2>2. plugins'[n] = HeadI(t)
    BY <1>1, <1>3, <1>5 DEF DataTyped
  <2>3. Settled(n)'
    BY <1>3, <1>5, <2>1, <2>2 DEF Made, Settled, Live, ObjectsOf
  <2> QED  BY <1>4, <1>5, <2>3, CalmSound
<1>6. CASE HeadN(t) # n
  <2>1. SameAt(n)
    BY <1>3, <1>6, SameElsewhere DEF WorkStep
  <2>2. Settled(n)
    BY <1>2, <1>3, <1>6, PlainSettled DEF CleanOps, HeadN
  <2>3. Settled(n)'
    BY <1>1, <2>1, <2>2, SameFacts
  <2>4. n \in Making(r) => plugins'[n] = None
    BY <1>2, <1>4, <1>6, <2>1, MakingUnloaded DEF HeadN, SameAt
  <2> QED  BY <1>4, <2>3, <2>4, CalmSound
<1> QED
  BY <1>5, <1>6

\* on_start, on_stop, the end of unload_plugin and of shutdown, on_hot_reload.
LEMMA SettledSound ==
  ASSUME ManagerCore, NEW t \in Thread, NEW r \in Seq(Frame), Turn(t, r), Calm(r), Making(r) \subseteq Making(todo[t]),
         NEW n \in Plugin, Sound(todo[t], n), Settled(n)', plugins'[n] \in {plugins[n], None},
         todo[t] # <<>> => todo[t][1].op # "store"
  PROVE  Sound(r, n)'
<1>1. Stacks
  BY DEF ManagerCore
<1>2. GoodStack(todo[t]) /\ todo[t] \in Seq(Frame)
  BY <1>1 DEF Stacks
<1>3. ASSUME n \in Making(r) PROVE plugins'[n] = None
  <2>1. todo[t] # <<>>
    <3>1. Len(<<>>) = 0
      OBVIOUS
    <3>2. Making(<<>>) = {}
      BY <3>1 DEF Making
    <3> QED  BY <1>3, <3>2
  <2>2. plugins[n] = None
    BY <1>2, <1>3, <2>1, MakingUnloaded
  <2> QED  BY <2>2
<1> QED
  BY <1>3, CalmSound

\* The frame behind one that is not part of a clean-up.
LEMMA TailCalm ==
  ASSUME Stacks, NEW t \in Thread, Dropped(t, 1, Tail(todo[t])), todo[t][1].op \notin CleanOps \cup {"cleanupall", "clear"}
  PROVE  /\ Tail(todo[t]) \in Seq(Frame) /\ Calm(Tail(todo[t])) /\ Making(Tail(todo[t])) \subseteq Making(todo[t])
<1>1. GoodStack(todo[t])
  BY DEF Stacks
<1>2. Suffix(Tail(todo[t]), todo[t], 1)
  BY DEF Dropped
<1>3. Calm(Tail(todo[t]))
  BY <1>1, <1>2, SuffixCalm
<1> QED
  BY <1>2, <1>3, SuffixMaking DEF Suffix

\* on_start and on_stop are called on the object in _plugins.
LEMMA RunSound ==
  ASSUME ManagerCore, NEW t \in Thread, StartRun(t, TRUE) \/ StopRun(t), NEW n \in Plugin, Sound(todo[t], n)
  PROVE  \E r \in Seq(Frame) : Turn(t, r) /\ Sound(r, n)'
<1> DEFINE r == Tail(todo[t])
<1>1. DataTyped /\ Stacks
  BY DEF ManagerCore
<1>2. GoodStack(todo[t]) /\ todo[t] \in Seq(Frame)
  BY <1>1 DEF Stacks
<1>3. /\ todo[t] # <<>> /\ todo[t][1].op \in {"startrun", "stoprun"}
      /\ HeadI(t) \in ObjectsOf(HeadN(t)) /\ HeadI(t) \in Inst
      /\ Turn(t, r) /\ Dropped(t, 1, r)
      /\ plugins' = plugins /\ detached' = detached /\ service' = service
      /\ \/ phase' = [phase EXCEPT ![HeadI(t)] = "running"]
         \/ phase' = [phase EXCEPT ![HeadI(t)] = "stopped"]
         \/ phase' = phase
  BY RunCore
<1>4. Settled(n)
  BY <1>2, <1>3, PlainSettled DEF CleanOps
<1>5. r \in Seq(Frame) /\ Calm(r) /\ Making(r) \subseteq Making(todo[t])
  BY <1>1, <1>3, TailCalm DEF CleanOps
<1>6. CASE HeadN(t) = n
  <2>1. HeadI(t) = plugins[n]
    BY <1>3, <1>6 DEF Sound, Relies, HeadIs, HeadN, HeadI, Reading
  <2>2. plugins[n] # None
    BY <1>3, <1>6, <2>1, ObjectNotNone
  <2>3. Live(plugins[n])
    BY <1>4, <2>2 DEF Settled
  <2>4. \A i \in ObjectsOf(n) : i \in Inst
    BY DEF ObjectsOf, Inst
  <2>5. \A i \in ObjectsOf(n) : (Live(i) <=> Live(i)') /\ (i # plugins[n] => phase'[i] = phase[i])
    BY <1>1, <1>3, <2>1, <2>3, <2>4 DEF Live, DataTyped
  <2>6. Settled(n)'
    <3>1. service[n] = plugins[n] /\ plugins[n] \notin detached
      BY <1>4, <2>2 DEF Settled
    <3>2. plugins[n] \in ObjectsOf(n)
      BY <1>3, <1>6, <2>1
    <3> QED  BY <1>3, <1>4, <2>3, <2>5, <3>1, <3>2 DEF Settled, Live, ObjectsOf
  <2> QED  BY <1>3, <1>5, <2>6, SettledSound
<1>7. CASE HeadN(t) # n
  <2>1. SameAt(n)
    BY <1>3, <1>7, SameElsewhere DEF WorkStep
  <2>2. Settled(n)'
    BY <1>1, <1>4, <2>1, SameFacts
  <2> QED  BY <1>3, <1>5, <2>2, SettledSound
<1> QED
  BY <1>6, <1>7

\* The end of unload_plugin.
LEMMA PopSound ==
  ASSUME ManagerCore, NEW t \in Thread, Pop(t), NEW n \in Plugin, Sound(todo[t], n)
  PROVE  \E r \in Seq(Frame) : Turn(t, r) /\ Sound(r, n)'
<1> DEFINE r == Tail(todo[t])
<1>1. DataTyped /\ Stacks
  BY DEF ManagerCore
<1>2. GoodStack(todo[t]) /\ todo[t] \in Seq(Frame)
  BY <1>1 DEF Stacks
<1>3. /\ todo[t] # <<>> /\ todo[t][1].op = "pop"
      /\ phase' = phase /\ detached' = detached /\ service' = service
      /\ plugins' = [plugins EXCEPT ![HeadN(t)] = None]
      /\ Turn(t, r) /\ Dropped(t, 1, r)
  BY PopCore
<1>4. r \in Seq(Frame) /\ Calm(r) /\ Making(r) \subseteq Making(todo[t])
  BY <1>1, <1>3, TailCalm DEF CleanOps
<1>5. CASE HeadN(t) = n
  <2>1. Emptied(n)
    BY <1>3, <1>5 DEF Sound, Relies, HeadIs, HeadN
  <2>2. plugins'[n] = None
    BY <1>1, <1>3, <1>5 DEF DataTyped
  <2>3. Settled(n)'
    BY <1>3, <2>1, <2>2 DEF Settled, Emptied, Dead, Live, ObjectsOf
  <2> QED  BY <1>3, <1>4, <2>2, <2>3, SettledSound
<1>6. CASE HeadN(t) # n
  <2>1. SameAt(n)
    BY <1>3, <1>6, SameElsewhere DEF WorkStep
  <2>2. Settled(n)
    BY <1>2, <1>3, <1>6, PlainSettled DEF CleanOps, HeadN
  <2>3. Settled(n)' /\ plugins'[n] = plugins[n]
    BY <1>1, <2>1, <2>2, SameFacts DEF SameAt
  <2> QED  BY <1>3, <1>4, <2>3, SettledSound
<1> QED
  BY <1>5, <1>6

\* The end of shutdown, after cleanup_all_plugins.
LEMMA WipeSound ==
  ASSUME ManagerCore, NEW t \in Thread, Wipe(t), NEW n \in Plugin, Sound(todo[t], n)
  PROVE  \E r \in Seq(Frame) : Turn(t, r) /\ Sound(r, n)'
<1> DEFINE r == Tail(todo[t])
<1>1. DataTyped /\ Stacks
  BY DEF ManagerCore
<1>2. FrameOK(todo[t][1]) /\ todo[t] # <<>>
  BY <1>1, WipeCore, HeadFrame
<1>3. /\ todo[t][1].op = "wipe"
      /\ phase' = phase /\ detached' = detached /\ plugins' = plugins
      /\ service' = [m \in Plugin |-> None]
      /\ Turn(t, r) /\ Dropped(t, 1, r)
  BY WipeCore
<1>4. r \in Seq(Frame) /\ Calm(r) /\ Making(r) \subseteq Making(todo[t])
  BY <1>1, <1>3, TailCalm DEF CleanOps
<1>5. todo[t][1].n = All
  BY <1>2, <1>3 DEF FrameOK, AllOps
<1>6. Settled(n) /\ plugins[n] = None
  BY <1>2, <1>3, <1>5 DEF Sound, Relies, HeadIs
<1>7. Settled(n)'
  BY <1>3, <1>6 DEF Settled, Live, ObjectsOf
<1> QED
  BY <1>3, <1>4, <1>7, SettledSound

\* on_hot_reload finds the service registered, unless two threads work on
\* the plugin.
LEMMA HotSound ==
  ASSUME ManagerCore, NEW t \in Thread, OnHotReload(t), service' # service, NEW n \in Plugin, Sound(todo[t], n)
  PROVE  \E r \in Seq(Frame) : Turn(t, r) /\ Sound(r, n)'
<1>1. DataTyped /\ Stacks
  BY DEF ManagerCore
<1>2. GoodStack(todo[t]) /\ todo[t] \in Seq(Frame)
  BY <1>1 DEF Stacks
<1>3. /\ todo[t] # <<>> /\ todo[t][1].op = "hot"
      /\ service[HeadN(t)] = None /\ GetPlugin(HeadN(t)) # None /\ plugins' = plugins
  BY HotCore
<1>4. PICK r \in Seq(Frame) : Turn(t, r) /\ Calm(r) /\ Making(r) \subseteq Making(todo[t])
  BY HotCore
<1>5. Settled(n)
  BY <1>2, <1>3, PlainSettled DEF CleanOps
<1>6. HeadN(t) # n
  BY <1>3, <1>5 DEF Settled, GetPlugin
<1>7. SameAt(n)
  BY <1>3, <1>6, SameElsewhere DEF WorkStep
<1>8. Settled(n)'
  BY <1>1, <1>5, <1>7, SameFacts
<1> QED
  BY <1>3, <1>4, <1>8, SettledSound

\* What a thread relies on after it went on to the next stage of a frame.
LEMMA StagedSound ==
  ASSUME NEW t \in Thread, NEW r, NEW f, Staged(t, f, r), r \in Seq(Frame), todo[t] \in Seq(Frame), todo[t] # <<>>,
         NEW n \in Plugin, Sound(todo[t], n), plugins'[n] = plugins[n],
         f.op \in {"startread", "startrun", "stopread", "stoprun", "store"}, Settled(n)' \/ (f.op = "store" /\ f.n = n),
         f.n = n => IF f.op = "store" THEN Made(n, f.i)' ELSE f.i = plugins[n]
  PROVE  Sound(r, n)'
<1> DEFINE s == todo[t]
<1>1. Len(r) = Len(s) /\ r[1] = f /\ \A k \in 2..Len(r) : r[k] = s[k]
  BY DEF Staged
<1>2. Len(r) \in Nat /\ Len(r) # 0 /\ r # <<>>
  BY <1>1, StackFacts
<1>3. \A k \in 1..Len(r) : k = 1 \/ (k \in 2..Len(r) /\ 1 \in 1..(k - 1))
  BY <1>2
<1>4. \A k \in 1..Len(r) : ~SweepAt(r, k)
  BY <1>1, <1>3 DEF SweepAt, CleanOps
<1>5. \A k \in 1..Len(r) : r[k].op = "make" /\ r[k].n = n => plugins'[n] = None
  <2> SUFFICES ASSUME NEW k \in 1..Len(r), r[k].op = "make", r[k].n = n PROVE plugins[n] = None
    OBVIOUS
  <2>1. k \in 2..Len(r)
    BY <1>1, <1>3
  <2>2. k \in 1..Len(s) /\ s[k] = r[k]
    BY <1>1, <2>1
  <2> QED  BY <2>2 DEF Sound, Relies
<1>6. Settled(n)' \/ HeadIs(r, {"store", "cleanupend"}, n)
  BY <1>1, <1>2 DEF HeadIs
<1>7. /\ ~HeadIs(r, {"pop"}, n) /\ ~HeadIs(r, {"cleanupend"}, n) /\ ~HeadIs(r, {"cleanuprun"}, n)
      /\ ~HeadIs(r, {"wipe"}, All)
      /\ HeadIs(r, Reading, n) => r[1].i = plugins'[n]
      /\ HeadIs(r, {"store"}, n) => Made(n, f.i)'
  BY <1>1 DEF HeadIs, Reading
<1>8. HeadIs(r, {"store"}, n) => Made(n, r[1].i)'
  BY <1>1, <1>7 DEF Made
<1>9. Relies(r, n)'
  BY <1>4, <1>5, <1>7, <1>8 DEF Relies, HeadIs, SweepAt
<1> QED
  BY <1>6, <1>9 DEF Sound, Explains, HeadIs

\* start_plugin and stop_plugin before they call the plugin.
LEMMA LookupSound ==
  ASSUME ManagerCore, NEW t \in Thread, NEW op, NEW then,
         \/ <<op, then>> \in {<<"start", "startread">>, <<"stop", "stopread">>} /\ Lookup(t, op, then)
         \/ <<op, then>> \in {<<"startread", "startrun">>, <<"stopread", "stoprun">>} /\ ReadObject(t, op, then),
         NEW n \in Plugin, Sound(todo[t], n)
  PROVE  \E r \in Seq(Frame) : Turn(t, r) /\ Sound(r, n)'
<1> DEFINE s == todo[t]
<1>1. DataTyped /\ Stacks
  BY DEF ManagerCore
<1>2. GoodStack(s) /\ s \in Seq(Frame)
  BY <1>1 DEF Stacks
<1>3. /\ s # <<>> /\ s[1].op = op /\ lock' = lock
      /\ plugins' = plugins /\ phase' = phase /\ detached' = detached /\ service' = service
  BY DEF Lookup, ReadObject, Run, tables, objects
<1>4. op \notin CleanOps \cup {"clear", "cleanupall", "store", "pop", "unlock"}
  BY DEF CleanOps
<1>5. SameAt(n)
  BY <1>3, SameAll
<1>6. Settled(n) /\ Settled(n)'
  BY <1>1, <1>2, <1>3, <1>4, <1>5, PlainSettled, SameFacts
<1>7. CASE Pass(t)
  <2>1. LET r == Tail(s) IN Dropped(t, 1, r) /\ Turn(t, r)
    BY <1>1, <1>3, <1>4, <1>7, PassTurns
  <2>2. Tail(s) \in Seq(Frame) /\ Calm(Tail(s)) /\ Making(Tail(s)) \subseteq Making(s)
    BY <1>1, <1>3, <1>4, <2>1, TailCalm
  <2> QED  BY <1>3, <1>4, <1>6, <2>1, <2>2, SettledSound
<1>8. CASE \E f \in Frame, r \in Seq(Frame) :
             Staged(t, f, r) /\ f.op = then /\ (f.n = n => f.i = plugins[n])
  <2>1. PICK f \in Frame, r \in Seq(Frame) : Staged(t, f, r) /\ f.op = then /\ (f.n = n => f.i = plugins[n])
    BY <1>8
  <2>2. f.op \in {"startread", "startrun", "stopread", "stoprun"}
    BY <2>1
  <2>3. Sound(r, n)'
    BY <1>2, <1>3, <1>6, <2>1, <2>2, StagedSound
  <2> QED  BY <2>1, <2>3 DEF Staged
<1>9. CASE <<op, then>> \in {<<"start", "startread">>, <<"stop", "stopread">>} /\ Lookup(t, op, then)
  <2>1. <<op, then>> \in NextStage \ {<<"make", "store">>} /\ then \in HasObject /\ op \notin HasObject
    BY <1>9 DEF NextStage, HasObject
  <2>2. /\ plugins[HeadN(t)] = None => Pass(t)
        /\ plugins[HeadN(t)] # None =>
              \E f \in Frame, r \in Seq(Frame) :
                Staged(t, f, r) /\ f.op = then /\ f.n = HeadN(t) /\ f.i = plugins[HeadN(t)]
    BY <1>9, <2>1, LookupTurns
  <2> QED  BY <1>7, <1>8, <2>2
<1>10. CASE <<op, then>> \in {<<"startread", "startrun">>, <<"stopread", "stoprun">>} /\ ReadObject(t, op, then)
  <2>1. <<op, then>> \in NextStage /\ op \in HasObject /\ op \in Reading
    BY <1>10 DEF NextStage, HasObject, Reading
  <2>2. /\ HeadI(t) \in detached => Pass(t)
        /\ HeadI(t) \notin detached =>
              \E f \in Frame, r \in Seq(Frame) :
                Staged(t, f, r) /\ f.op = then /\ f.n = HeadN(t) /\ f.i = HeadI(t)
    BY <1>10, <2>1, ReadTurns
  <2>3. HeadN(t) = n => HeadI(t) = plugins[n]
    BY <1>3, <2>1 DEF Sound, Relies, HeadIs, HeadN, HeadI
  <2> QED  BY <1>7, <1>8, <2>2, <2>3
<1> QED
  BY <1>9, <1>10

\* An object is made for a plugin that has none.
LEMMA MakeSound ==
  ASSUME ManagerCore, NEW t \in Thread, NEW registers \in BOOLEAN, NEW ok \in BOOLEAN, Make(t, registers, ok),
         NEW n \in Plugin, Sound(todo[t], n)
  PROVE  \E r \in Seq(Frame) : Turn(t, r) /\ Sound(r, n)'
<1> DEFINE s == todo[t]
<1>1. DataTyped /\ Stacks
  BY DEF ManagerCore
<1>2. s # <<>> /\ s[1].op = "make" /\ plugins' = plugins /\ HeadN(t) \in Plugin
  BY MakeCore
<1>3. GoodStack(s) /\ s \in Seq(Frame) /\ 1 \in 1..Len(s)
  BY <1>1, <1>2, HeadFrame
<1>4. PICK i \in ObjectsOf(HeadN(t)), r \in Seq(Frame) :
              /\ i \in Inst /\ ~Live(i) /\ i # service[HeadN(t)] /\ i # plugins[HeadN(t)]
              /\ detached' = detached \ {i}
              /\ \/ /\ service[HeadN(t)] = None
                    /\ service' = [service EXCEPT ![HeadN(t)] = i] /\ phase' = [phase EXCEPT ![i] = "ready"]
                    /\ \E f \in Frame : Staged(t, f, r) /\ f.op = "store" /\ f.n = HeadN(t) /\ f.i = i
                 \/ /\ service[HeadN(t)] = None
                    /\ service' = [service EXCEPT ![HeadN(t)] = i] /\ phase' = [phase EXCEPT ![i] = "failed"]
                    /\ Turn(t, r) /\ Calm(r) /\ Making(r) = {}
                 \/ /\ service' = service /\ phase' = phase
                    /\ Turn(t, r) /\ Calm(r) /\ Making(r) = {}
  BY MakeCore
<1>5. Settled(n)
  BY <1>2, <1>3, PlainSettled DEF CleanOps
<1>6. Turn(t, r)
  BY <1>4 DEF Staged
<1>7. CASE HeadN(t) # n
  <2>1. SameAt(n)
    BY <1>2, <1>7, SameElsewhere DEF WorkStep
  <2>2. Settled(n)'
    BY <1>1, <1>5, <2>1, SameFacts
  <2>3. CASE Calm(r) /\ Making(r) = {}
    BY <1>6, <2>2, <2>3, CalmSound
  <2>4. CASE \E f \in Frame : Staged(t, f, r) /\ f.op = "store" /\ f.n = HeadN(t)
    <3>1. PICK f \in Frame : Staged(t, f, r) /\ f.op = "store" /\ f.n = HeadN(t)
      BY <2>4
    <3>2. Sound(r, n)'
      BY <1>2, <1>3, <1>7, <2>2, <3>1, StagedSound
    <3> QED  BY <1>6, <3>2
  <2> QED  BY <1>4, <2>3, <2>4
<1>8. CASE HeadN(t) = n
  <2>1. plugins[n] = None
    BY <1>2, <1>3, <1>8 DEF Sound, Relies, HeadN
  <2>2. \A j \in ObjectsOf(n) : ~Live(j) /\ j \in Inst
    BY <1>5, <2>1, ObjectNotNone DEF Settled, ObjectsOf, Inst
  <2>3. i \in ObjectsOf(n)
    BY <1>8
  <2>4. CASE /\ service' = [service EXCEPT ![n] = i] /\ phase' = [phase EXCEPT ![i] = "ready"]
             /\ \E f \in Frame : Staged(t, f, r) /\ f.op = "store" /\ f.n = n /\ f.i = i
    <3>1. PICK f \in Frame : Staged(t, f, r) /\ f.op = "store" /\ f.n = n /\ f.i = i
      BY <2>4
    <3>2. service'[n] = i /\ phase'[i] = "ready" /\ \A j \in ObjectsOf(n) : j # i => phase'[j] = phase[j]
      BY <1>1, <2>2, <2>3, <2>4 DEF DataTyped
    <3>3. Made(n, i)'
      BY <1>2, <1>4, <2>1, <2>2, <3>2 DEF Made, Live, ObjectsOf
    <3>4. Sound(r, n)'
      BY <1>2, <1>3, <3>1, <3>3, StagedSound
    <3> QED  BY <1>6, <3>4
  <2>5. CASE /\ service' = [service EXCEPT ![n] = i] /\ phase' = [phase EXCEPT ![i] = "failed"]
             /\ Calm(r) /\ Making(r) = {}
    <3>1. service'[n] = i /\ phase'[i] = "failed" /\ \A j \in ObjectsOf(n) : j # i => phase'[j] = phase[j]
      BY <1>1, <2>2, <2>3, <2>5 DEF DataTyped
    <3>2. Settled(n)'
      BY <1>2, <2>1, <2>2, <3>1 DEF Settled, Live, ObjectsOf
    <3> QED  BY <1>6, <2>5, <3>2, CalmSound
  <2>6. CASE service' = service /\ phase' = phase /\ Calm(r) /\ Making(r) = {}
    <3>1. Settled(n)'
      BY <1>2, <1>5, <2>1, <2>6 DEF Settled, Live, ObjectsOf
    <3> QED  BY <1>6, <2>6, <3>1, CalmSound
  <2> QED  BY <1>4, <1>8, <2>4, <2>5, <2>6
<1> QED
  BY <1>7, <1>8

\* The next stage of cleanup_plugin.
LEMMA CleaningSound ==
  ASSUME NEW t \in Thread, NEW r, NEW f, Staged(t, f, r), r \in Seq(Frame), todo[t] \in Seq(Frame), todo[t] # <<>>,
         NEW n \in Plugin, Sound(todo[t], n), plugins'[n] = plugins[n],
         todo[t][1].op \in CleanOps, todo[t][1].n = f.n, f.op \in {"cleanupread", "cleanuprun", "cleanupend"},
         Settled(n) => Settled(n)' \/ (f.n = n /\ f.op = "cleanupend"),
         Emptied(n) => Emptied(n)',
         f.n = n => /\ f.op = "cleanupend" => Half(n, f.i)'
                    /\ f.op # "cleanupend" => f.i = plugins[n]
                    /\ f.op = "cleanuprun" => f.i \notin detached'
                    /\ todo[t][1].op # "cleanupend",
         f.n # n => todo[t][1].n # n
  PROVE  Sound(r, n)'
<1> DEFINE s == todo[t]
<1>1. Len(r) = Len(s) /\ r[1] = f /\ \A k \in 2..Len(r) : r[k] = s[k]
  BY DEF Staged
<1>2. Len(r) \in Nat /\ Len(r) # 0 /\ r # <<>>
  BY <1>1, StackFacts
<1>3. \A k \in 1..Len(r) : k = 1 \/ k \in 2..Len(r)
  BY <1>2
<1>4. f.op \in CleanOps /\ f.op \notin {"clear", "make", "pop", "wipe", "store"}
  BY DEF CleanOps
<1>5. ASSUME NEW k \in 1..Len(r) PROVE (SweepAt(r, k) <=> SweepAt(s, k)) /\ \A j \in 1..(k - 1) : r[j].n = s[j].n
  <2>1. \A j \in 1..(k - 1) : j = 1 \/ j \in 2..Len(r)
    BY <1>2, <1>5
  <2>2. \A j \in 1..(k - 1) : r[j].n = s[j].n /\ (r[j].op \in CleanOps <=> s[j].op \in CleanOps)
    BY <1>1, <1>4, <2>1
  <2>3. r[k].op = "clear" <=> s[k].op = "clear"
    BY <1>1, <1>3, <1>4, <1>5 DEF CleanOps
  <2> QED  BY <2>2, <2>3 DEF SweepAt
<1>6. Sweep(r) <=> Sweep(s)
  BY <1>1, <1>5 DEF Sweep
<1>7. Settled(n)' \/ Explains(r, n)'
  <2>1. CASE Settled(n)
    BY <2>1, <1>1, <1>2 DEF Explains, HeadIs
  <2>2. CASE ~Settled(n)
    <3>1. Explains(s, n) /\ ~HeadIs(s, {"store", "cleanupend"}, n)
      BY <2>2 DEF Sound, HeadIs, CleanOps
    <3>2. Emptied(n) /\ (HeadIs(s, CleanOps \cup {"pop"}, n) \/ Sweep(s))
      BY <3>1 DEF Explains
    <3>3. HeadIs(r, CleanOps \cup {"pop"}, n) \/ Sweep(r)
      BY <1>1, <1>2, <1>4, <1>6, <3>2 DEF HeadIs
    <3> QED  BY <3>2, <3>3 DEF Explains, HeadIs, Sweep, SweepAt
  <2> QED  BY <2>1, <2>2
<1>8. \A k \in 1..Len(r) : SweepAt(r, k) => Emptied(n)' \/ \E j \in 1..(k - 1) : r[j].n = n
  <2> SUFFICES ASSUME NEW k \in 1..Len(r), SweepAt(r, k), ~(Emptied(n)') PROVE \E j \in 1..(k - 1) : r[j].n = n
    OBVIOUS
  <2>1. SweepAt(s, k) /\ k \in 1..Len(s)
    BY <1>1, <1>5
  <2>2. \E j \in 1..(k - 1) : s[j].n = n
    BY <2>1 DEF Sound, Relies
  <2> QED  BY <1>5, <2>2
<1>9. \A k \in 1..Len(r) : r[k].op = "make" /\ r[k].n = n => plugins'[n] = None
  <2> SUFFICES ASSUME NEW k \in 1..Len(r), r[k].op = "make", r[k].n = n PROVE plugins[n] = None
    OBVIOUS
  <2>1. k \in 2..Len(r)
    BY <1>1, <1>3, <1>4
  <2>2. k \in 1..Len(s) /\ s[k] = r[k]
    BY <1>1, <2>1
  <2> QED  BY <2>2 DEF Sound, Relies
<1>10. /\ ~HeadIs(r, {"pop"}, n) /\ ~HeadIs(r, {"store"}, n) /\ ~HeadIs(r, {"wipe"}, All)
       /\ HeadIs(r, Reading, n) => r[1].i = plugins'[n]
       /\ HeadIs(r, {"cleanuprun"}, n) => r[1].i \notin detached'
       /\ HeadIs(r, {"cleanupend"}, n) => Half(n, f.i)'
  BY <1>1, <1>4 DEF HeadIs, Reading
<1>11. HeadIs(r, {"cleanupend"}, n) => Half(n, r[1].i)'
  BY <1>1, <1>10 DEF Half, Dead, ObjectsOf, Live
<1>12. Relies(r, n)'
  BY <1>8, <1>9, <1>10, <1>11 DEF Relies, HeadIs, SweepAt
<1> QED
  BY <1>7, <1>12 DEF Sound

\* cleanup_plugin is over, or finds nothing to clean up.
LEMMA CleanedSound ==
  ASSUME NEW t \in Thread, NEW s, s = todo[t], NEW r, Dropped(t, 1, r), r \in Seq(Frame), GoodStack(s), s # <<>>,
         NEW n \in Plugin, Sound(s, n), plugins'[n] = plugins[n], s[1].op \in CleanOps,
         IF s[1].n = n THEN Emptied(n)' ELSE SameAt(n), DataTyped
  PROVE  Sound(r, n)'
<1>1. /\ s \in Seq(Frame) /\ Len(s) \in Nat /\ Len(r) = Len(s) - 1 /\ \A k \in 1..Len(r) : r[k] = s[k + 1]
      /\ GoodStack(r)
  BY StackFacts DEF Dropped, Suffix
<1>2. Len(s) # 0 /\ 1 \in 1..Len(s)
  BY <1>1, StackFacts
<1>3. At(s, 1) /\ \A k \in 1..Len(s) : At(s, k)
  BY <1>2 DEF GoodStack, Shape, At
<1>4. s[1].op \notin {"pop", "clear", "make", "wipe", "store"}
  BY DEF CleanOps
<1>5. ASSUME NEW k \in 1..Len(r)
      PROVE  k + 1 \in 1..Len(s) /\ (SweepAt(r, k) <=> SweepAt(s, k + 1))
  <2>1. k + 1 \in 1..Len(s) /\ (k + 1) - 1 = k
    BY <1>1, <1>5
  <2>2. ASSUME SweepAt(s, k + 1) PROVE SweepAt(r, k)
    <3>1. r[k].op = "clear"
      BY <1>1, <1>5, <2>2 DEF SweepAt
    <3>2. ASSUME NEW j \in 1..(k - 1) PROVE r[j].op \in CleanOps
      <4>1. j \in 1..Len(r) /\ j + 1 \in 1..((k + 1) - 1)
        BY <1>1, <1>5, <3>2
      <4> QED  BY <1>1, <2>2, <4>1 DEF SweepAt
    <3> QED  BY <3>1, <3>2 DEF SweepAt
  <2>3. ASSUME SweepAt(r, k) PROVE SweepAt(s, k + 1)
    <3>1. s[k + 1].op = "clear"
      BY <1>1, <1>5, <2>3 DEF SweepAt
    <3>2. ASSUME NEW j \in 1..((k + 1) - 1) PROVE s[j].op \in CleanOps
      <4>1. CASE j = 1
        BY <4>1
      <4>2. CASE j # 1
        <5>1. PICK l \in 1..(k - 1) : j = l + 1
          <6>1. j - 1 \in 1..(k - 1) /\ j = (j - 1) + 1
            BY <1>1, <1>5, <3>2, <4>2
          <6> QED  BY <6>1
        <5>2. l \in 1..Len(r)
          BY <1>1, <1>5, <5>1
        <5> QED  BY <1>1, <2>3, <5>1, <5>2 DEF SweepAt
      <4> QED  BY <4>1, <4>2
    <3> QED  BY <3>1, <3>2 DEF SweepAt
  <2> QED  BY <2>1, <2>2, <2>3
<1>6. ASSUME NEW k \in 1..Len(s), SweepAt(s, k) PROVE Sweep(r)
  <2>1. k # 1
    BY <1>4, <1>6 DEF SweepAt
  <2>2. PICK l \in 1..Len(r) : k = l + 1
    <3>1. k - 1 \in 1..Len(r) /\ k = (k - 1) + 1
      BY <1>1, <1>6, <2>1
    <3> QED  BY <3>1
  <2> QED  BY <1>5, <1>6, <2>2 DEF Sweep
<1>7. HeadIs(r, {"pop"}, s[1].n) \/ Sweep(r)
  <2>1. CASE 1 + 1 \in 1..Len(s) /\ s[1 + 1].op = "pop" /\ s[1 + 1].n = s[1].n
    <3>1. 1 \in 1..Len(r) /\ r # <<>>
      BY <1>1, <2>1
    <3>2. r[1] = s[1 + 1]
      BY <1>1, <3>1
    <3> QED  BY <2>1, <3>1, <3>2 DEF HeadIs
  <2>2. CASE \E j \in 1..Len(s) : 1 < j /\ s[j].op = "clear" /\ s[j - 1].op # "cleanupall"
    <3>1. PICK j \in 1..Len(s) : 1 < j /\ s[j].op = "clear" /\ s[j - 1].op # "cleanupall"
      BY <2>2
    <3>2. SweepAt(s, j)
      BY <1>3, <3>1 DEF At, ClearAt, SweepAt
    <3> QED  BY <1>6, <3>2
  <2> QED  BY <1>3, <2>1, <2>2 DEF At, CleanAt
<1>8. r # <<>> => /\ r[1].op \notin HasObject \cup {"wipe"}
                  /\ r[1].op = "pop" => r[1].n = s[1].n
  <2> SUFFICES ASSUME r # <<>> PROVE r[1].op \notin HasObject \cup {"wipe"} /\ (r[1].op = "pop" => r[1].n = s[1].n)
    OBVIOUS
  <2>1. 1 \in 1..Len(r) /\ 2 \in 1..Len(s)
    BY <1>1, StackFacts
  <2>2. r[1] = s[2]
    BY <1>1, <2>1
  <2>3. At(s, 2)
    BY <1>3, <2>1
  <2>4. s[2].op \notin HasObject
    BY <2>3 DEF At, ObjectAt
  <2>5. s[2].op # "wipe"
    BY <1>4, <2>3 DEF At, WipeAt
  <2>6. s[2].op = "pop" => s[1].n = s[2].n
    BY <2>3 DEF At, PopAt
  <2> QED  BY <2>2, <2>4, <2>5, <2>6
<1>9. /\ ~HeadIs(r, {"store"}, n) /\ ~HeadIs(r, {"cleanupend"}, n) /\ ~HeadIs(r, Reading, n)
      /\ ~HeadIs(r, {"cleanuprun"}, n) /\ ~HeadIs(r, {"wipe"}, All)
      /\ HeadIs(r, {"pop"}, n) => n = s[1].n
  BY <1>8 DEF HeadIs, HasObject, Reading
<1>10. \A k \in 1..Len(r) : r[k].op = "make" /\ r[k].n = n => plugins'[n] = None
  <2> SUFFICES ASSUME NEW k \in 1..Len(r), r[k].op = "make", r[k].n = n PROVE plugins[n] = None
    OBVIOUS
  <2>1. k + 1 \in 1..Len(s) /\ s[k + 1] = r[k]
    BY <1>1, <1>5
  <2> QED  BY <2>1 DEF Sound, Relies
<1>11. CASE s[1].n = n
  <2>1. Emptied(n)'
    BY <1>11
  <2>2. HeadIs(r, {"pop"}, n) => HeadIs(r, CleanOps \cup {"pop"}, n)
    BY DEF HeadIs
  <2>3. Explains(r, n)'
    BY <1>7, <1>11, <2>1, <2>2 DEF Explains, HeadIs, Sweep, SweepAt
  <2>4. Relies(r, n)'
    BY <1>9, <1>10, <2>1 DEF Relies, HeadIs, SweepAt
  <2> QED  BY <2>3, <2>4 DEF Sound
<1>12. CASE s[1].n # n
  <2>1. SameAt(n)
    BY <1>12
  <2>2. (Settled(n) <=> Settled(n)') /\ (Emptied(n) <=> Emptied(n)')
    BY <2>1, SameFacts
  <2>3. Settled(n)' \/ Explains(r, n)'
    <3>1. CASE Settled(n)
      BY <2>2, <3>1
    <3>2. CASE ~Settled(n)
      <4>1. Emptied(n) /\ Sweep(s)
        BY <1>12, <3>2 DEF Sound, Explains, HeadIs
      <4>2. Sweep(r)
        BY <1>6, <4>1 DEF Sweep
      <4> QED  BY <2>2, <4>1, <4>2 DEF Explains, HeadIs, Sweep, SweepAt
    <3> QED  BY <3>1, <3>2
  <2>4. \A k \in 1..Len(r) : SweepAt(r, k) => Emptied(n)' \/ \E j \in 1..(k - 1) : r[j].n = n
    <3> SUFFICES ASSUME NEW k \in 1..Len(r), SweepAt(r, k), ~(Emptied(n)') PROVE \E j \in 1..(k - 1) : r[j].n = n
      OBVIOUS
    <3>1. k + 1 \in 1..Len(s) /\ SweepAt(s, k + 1)
      BY <1>5
    <3>2. PICK j \in 1..((k + 1) - 1) : s[j].n = n
      BY <2>2, <3>1 DEF Sound, Relies
    <3>3. PICK l \in 1..(k - 1) : j = l + 1
      <4>1. j # 1
        BY <1>12, <3>2
      <4>2. j - 1 \in 1..(k - 1) /\ j = (j - 1) + 1
        BY <1>1, <3>2, <4>1
      <4> QED  BY <4>2
    <3>4. l \in 1..Len(r)
      BY <1>1, <3>3
    <3> QED  BY <1>1, <3>2, <3>3, <3>4
  <2>5. Relies(r, n)'
    BY <1>9, <1>10, <1>12, <2>4 DEF Relies, HeadIs, SweepAt
  <2> QED  BY <2>3, <2>5 DEF Sound
<1> QED
  BY <1>11, <1>12

\* cleanup_plugin looks the descriptor up and reads its object.
LEMMA CleanupLookupSound ==
  ASSUME ManagerCore, NEW t \in Thread,
         Lookup(t, "cleanup", "cleanupread") \/ ReadObject(t, "cleanupread", "cleanuprun"),
         NEW n \in Plugin, Sound(todo[t], n)
  PROVE  \E r \in Seq(Frame) : Turn(t, r) /\ Sound(r, n)'
<1> DEFINE s == todo[t]
<1>1. DataTyped /\ Stacks
  BY DEF ManagerCore
<1>2. GoodStack(s) /\ s \in Seq(Frame)
  BY <1>1 DEF Stacks
<1>3. /\ s # <<>> /\ s[1].op \in {"cleanup", "cleanupread"} /\ lock' = lock
      /\ plugins' = plugins /\ phase' = phase /\ detached' = detached /\ service' = service
  BY DEF Lookup, ReadObject, Run, tables, objects
<1>4. s[1].op \in CleanOps /\ s[1].op \notin {"unlock", "cleanupend", "store", "pop"}
  BY <1>3 DEF CleanOps
<1>5. SameAt(n)
  BY <1>3, SameAll
<1>6. (Settled(n) <=> Settled(n)') /\ (Emptied(n) <=> Emptied(n)')
  BY <1>1, <1>5, SameFacts
<1>7. Settled(n) \/ Emptied(n)
  BY <1>4 DEF Sound, Explains, HeadIs
<1>8. CASE Pass(t) /\ (HeadN(t) = n => plugins[n] = None \/ plugins[n] \in detached)
  <2>1. PICK r : Dropped(t, 1, r) /\ Turn(t, r)
    BY <1>1, <1>3, <1>4, <1>8, PassTurns
  <2>2. r \in Seq(Frame)
    BY <2>1 DEF Dropped, Suffix
  <2>3. HeadN(t) = n => Emptied(n)
    <3> SUFFICES ASSUME HeadN(t) = n, Settled(n) PROVE Emptied(n)
      BY <1>7
    <3>1. plugins[n] = None
      BY <1>8 DEF Settled
    <3> QED  BY <3>1, ObjectNotNone DEF Settled, Emptied, Dead
  <2>4. IF s[1].n = n THEN Emptied(n)' ELSE SameAt(n)
    BY <1>5, <1>6, <2>3 DEF HeadN
  <2>5. Sound(r, n)'
    BY <1>1, <1>2, <1>3, <1>4, <2>1, <2>2, <2>4, CleanedSound
  <2> QED  BY <2>1, <2>2, <2>5
<1>9. CASE \E f \in Frame, r \in Seq(Frame) :
             /\ Staged(t, f, r) /\ f.op \in {"cleanupread", "cleanuprun"} /\ f.n = HeadN(t)
             /\ f.n = n => f.i = plugins[n] /\ (f.op = "cleanuprun" => f.i \notin detached)
  <2>1. PICK f \in Frame, r \in Seq(Frame) :
             /\ Staged(t, f, r) /\ f.op \in {"cleanupread", "cleanuprun"} /\ f.n = HeadN(t)
             /\ f.n = n => f.i = plugins[n] /\ (f.op = "cleanuprun" => f.i \notin detached)
    BY <1>9
  <2>2. s[1].n = f.n
    BY <2>1 DEF HeadN
  <2>3. Sound(r, n)'
    BY <1>2, <1>3, <1>4, <1>6, <2>1, <2>2, CleaningSound
  <2> QED  BY <2>1, <2>3 DEF Staged
<1>10. CASE Lookup(t, "cleanup", "cleanupread")
  <2>1. <<"cleanup", "cleanupread">> \in NextStage \ {<<"make", "store">>} /\ "cleanupread" \in HasObject /\ "cleanup" \notin HasObject
    BY DEF NextStage, HasObject
  <2>2. /\ plugins[HeadN(t)] = None => Pass(t)
        /\ plugins[HeadN(t)] # None =>
              \E f \in Frame, r \in Seq(Frame) :
                Staged(t, f, r) /\ f.op = "cleanupread" /\ f.n = HeadN(t) /\ f.i = plugins[HeadN(t)]
    BY <1>10, <2>1, LookupTurns
  <2> QED  BY <1>8, <1>9, <2>2
<1>11. CASE ReadObject(t, "cleanupread", "cleanuprun")
  <2>1. <<"cleanupread", "cleanuprun">> \in NextStage /\ "cleanupread" \in HasObject
    BY DEF NextStage, HasObject
  <2>2. /\ HeadI(t) \in detached => Pass(t)
        /\ HeadI(t) \notin detached =>
              \E f \in Frame, r \in Seq(Frame) :
                Staged(t, f, r) /\ f.op = "cleanuprun" /\ f.n = HeadN(t) /\ f.i = HeadI(t)
    BY <1>11, <2>1, ReadTurns
  <2>3. HeadN(t) = n => HeadI(t) = plugins[n]
    BY <1>3, <1>11 DEF Sound, Relies, HeadIs, HeadN, HeadI, Reading, ReadObject, Run
  <2> QED  BY <1>8, <1>9, <2>2, <2>3
<1> QED
  BY <1>10, <1>11

\* on_cleanup is called on the object in _plugins.
LEMMA CleanupRunSound ==
  ASSUME ManagerCore, NEW t \in Thread, CleanupRun(t), NEW n \in Plugin, Sound(todo[t], n)
  PROVE  \E r \in Seq(Frame) : Turn(t, r) /\ Sound(r, n)'
<1> DEFINE s == todo[t]
<1>1. DataTyped /\ Stacks
  BY DEF ManagerCore
<1>2. GoodStack(s) /\ s \in Seq(Frame)
  BY <1>1 DEF Stacks
<1>3. /\ s # <<>> /\ s[1].op = "cleanuprun" /\ HeadI(t) \in ObjectsOf(HeadN(t)) /\ HeadI(t) \in Inst
      /\ plugins' = plugins /\ detached' = detached
      /\ phase' = [phase EXCEPT ![HeadI(t)] = "gone"] /\ service' = [service EXCEPT ![HeadN(t)] = None]
  BY CleanupRunCore
<1>4. PICK f \in Frame, r \in Seq(Frame) :
         Staged(t, f, r) /\ f.op = "cleanupend" /\ f.n = HeadN(t) /\ f.i = HeadI(t)
  BY CleanupRunCore
<1>5. s[1].op \in CleanOps /\ s[1].n = f.n
  BY <1>3, <1>4 DEF CleanOps, HeadN
<1>6. CASE HeadN(t) = n
  <2>1. HeadI(t) = plugins[n] /\ HeadI(t) \notin detached
    BY <1>3, <1>6 DEF Sound, Relies, HeadIs, HeadN, HeadI, Reading
  <2>2. plugins[n] # None
    BY <1>3, <1>6, <2>1, ObjectNotNone
  <2>3. ~Emptied(n)
    BY <2>1, <2>2 DEF Emptied
  <2>4. Settled(n)
    BY <1>3, <2>3 DEF Sound, Explains, HeadIs
  <2>5. \A j \in ObjectsOf(n) : j \in Inst /\ (j # HeadI(t) => ~Live(j))
    BY <2>1, <2>4 DEF Settled, ObjectsOf, Inst
  <2>6. \A j \in ObjectsOf(n) : phase'[j] = IF j = HeadI(t) THEN "gone" ELSE phase[j]
    BY <1>1, <1>3, <2>5 DEF DataTyped
  <2>7. service'[n] = None
    BY <1>1, <1>3, <1>6 DEF DataTyped
  <2>8. Dead(n)'
    BY <2>5, <2>6 DEF Dead, Live, ObjectsOf
  <2>9. Half(n, f.i)'
    BY <1>3, <1>4, <2>1, <2>7, <2>8 DEF Half
  <2>10. Sound(r, n)'
    BY <1>2, <1>3, <1>4, <1>5, <1>6, <2>3, <2>9, CleaningSound
  <2> QED  BY <1>4, <2>10 DEF Staged
<1>7. CASE HeadN(t) # n
  <2>1. SameAt(n)
    BY <1>3, <1>7, SameElsewhere DEF WorkStep
  <2>2. (Settled(n) <=> Settled(n)') /\ (Emptied(n) <=> Emptied(n)')
    BY <1>1, <2>1, SameFacts
  <2>3. Sound(r, n)'
    BY <1>2, <1>3, <1>4, <1>5, <1>7, <2>2, CleaningSound
  <2> QED  BY <1>4, <2>3 DEF Staged
<1> QED
  BY <1>6, <1>7

\* The end of cleanup_plugin.
LEMMA CleanupEndSound ==
  ASSUME ManagerCore, NEW t \in Thread, CleanupEnd(t), NEW n \in Plugin, Sound(todo[t], n)
  PROVE  \E r \in Seq(Frame) : Turn(t, r) /\ Sound(r, n)'
<1> DEFINE s == todo[t]
<1>1. DataTyped /\ Stacks
  BY DEF ManagerCore
<1>2. GoodStack(s) /\ s \in Seq(Frame)
  BY <1>1 DEF Stacks
<1>3. /\ s # <<>> /\ s[1].op = "cleanupend"
      /\ plugins' = plugins /\ detached' = detached \cup {HeadI(t)}
      /\ phase' = phase /\ service' = [service EXCEPT ![HeadN(t)] = None]
  BY CleanupEndCore
<1>4. s[1].op \in CleanOps
  BY <1>3 DEF CleanOps
<1>5. PICK r \in Seq(Frame) : Turn(t, r) /\ Dropped(t, 1, r)
  BY CleanupEndCore DEF Dropped, Suffix
<1>6. CASE HeadN(t) = n
  <2>1. Half(n, HeadI(t))
    BY <1>3, <1>6 DEF Sound, Relies, HeadIs, HeadN, HeadI
  <2>2. service'[n] = None
    BY <1>1, <1>3, <1>6 DEF DataTyped
  <2>3. Emptied(n)'
    BY <1>3, <2>1, <2>2 DEF Emptied, Half, Dead, Live, ObjectsOf
  <2>4. Sound(r, n)'
    <3>1. IF s[1].n = n THEN Emptied(n)' ELSE SameAt(n)
      BY <1>6, <2>3 DEF HeadN
    <3> QED  BY <1>1, <1>2, <1>3, <1>4, <1>5, <3>1, CleanedSound
  <2> QED  BY <1>3, <1>5, <2>4
<1>7. CASE HeadN(t) # n
  <2>1. SameAt(n)
    BY <1>3, <1>7, SameElsewhere DEF WorkStep
  <2>2. Sound(r, n)'
    <3>1. IF s[1].n = n THEN Emptied(n)' ELSE SameAt(n)
      BY <1>7, <2>1 DEF HeadN
    <3> QED  BY <1>1, <1>2, <1>3, <1>4, <1>5, <3>1, CleanedSound
  <2> QED  BY <1>3, <1>5, <2>2
<1> QED
  BY <1>6, <1>7

\* cleanup_all_plugins lists what it will clean up: all that is in _plugins.
LEMMA SweepSound ==
  ASSUME ManagerCore, NEW t \in Thread, ForLoaded(t, "cleanupall", "cleanup"), NEW n \in Plugin, Sound(todo[t], n)
  PROVE  \E r \in Seq(Frame) : Turn(t, r) /\ Sound(r, n)'
<1> DEFINE s == todo[t]
<1>1. DataTyped /\ Stacks
  BY DEF ManagerCore
<1>2. /\ s # <<>> /\ s[1].op = "cleanupall"
      /\ plugins' = plugins /\ phase' = phase /\ detached' = detached /\ service' = service
  BY SweepCore
<1>3. PICK r \in Seq(Frame), new \in Seq(Frame) :
         /\ Turn(t, r) /\ Making(r) = {} /\ Pushed(r, new, s)
         /\ \A k \in 1..Len(new) : new[k].op = "cleanup"
         /\ \A m \in Plugin : plugins[m] # None => \E k \in 1..Len(new) : new[k].n = m
  BY SweepCore
<1>4. GoodStack(s) /\ s \in Seq(Frame) /\ Len(s) \in Nat /\ 1 \in 1..Len(s) /\ Len(new) \in Nat /\ Len(r) \in Nat
  BY <1>1, <1>2, <1>3, HeadFrame, StackFacts
<1>5. SameAt(n)
  BY <1>2, SameAll
<1>6. Settled(n)
  BY <1>2, <1>4, PlainSettled DEF CleanOps
<1>7. (Settled(n) <=> Settled(n)') /\ (Emptied(n) <=> Emptied(n)')
  BY <1>1, <1>5, SameFacts
<1>8. plugins[n] = None => Emptied(n)
  BY <1>6, ObjectNotNone DEF Settled, Emptied, Dead
<1>9. \A k \in 1..Len(new) : r[k] = new[k]
  BY <1>3 DEF Pushed
<1>10. s[2].op = "clear" /\ 2 \in 1..Len(s)
  <2>1. CleanupAllAt(s, 1)
    BY <1>4 DEF GoodStack, Shape
  <2> QED  BY <1>2, <2>1 DEF CleanupAllAt
<1>11. r[1].op \in {"cleanup", "clear"}
  <2>1. CASE Len(new) = 0
    <3>1. 2 \in 2..Len(s) /\ 2 + Len(new) - 1 = 1
      BY <1>4, <1>10, <2>1
    <3>2. r[2 + Len(new) - 1] = s[2]
      BY <1>3, <3>1 DEF Pushed
    <3> QED  BY <1>10, <3>1, <3>2
  <2>2. CASE Len(new) # 0
    <3>1. 1 \in 1..Len(new)
      BY <1>4, <2>2
    <3> QED  BY <1>3, <1>9, <3>1
  <2> QED  BY <2>1, <2>2
<1>12. \A k \in 1..Len(r) : SweepAt(r, k) => Emptied(n)' \/ \E j \in 1..(k - 1) : r[j].n = n
  <2> SUFFICES ASSUME NEW k \in 1..Len(r), SweepAt(r, k), plugins[n] # None PROVE \E j \in 1..(k - 1) : r[j].n = n
    BY <1>7, <1>8
  <2>1. PICK j \in 1..Len(new) : new[j].n = n
    BY <1>3
  <2>2. k \notin 1..Len(new)
    BY <1>3, <1>9 DEF SweepAt
  <2>3. j \in 1..(k - 1)
    BY <1>4, <2>1, <2>2
  <2> QED  BY <1>9, <2>1, <2>3
<1>13. \A k \in 1..Len(r) : r[k].op = "make" /\ r[k].n = n => plugins'[n] = None
  BY <1>3 DEF Making
<1>14. /\ ~HeadIs(r, {"pop"}, n) /\ ~HeadIs(r, {"store"}, n) /\ ~HeadIs(r, {"cleanupend"}, n)
       /\ ~HeadIs(r, Reading, n) /\ ~HeadIs(r, {"cleanuprun"}, n) /\ ~HeadIs(r, {"wipe"}, All)
  BY <1>11 DEF HeadIs, Reading
<1>15. Relies(r, n)'
  BY <1>12, <1>13, <1>14 DEF Relies, HeadIs, SweepAt
<1> QED
  BY <1>3, <1>6, <1>7, <1>15 DEF Sound

\* The end of cleanup_all_plugins: what it forgets has been cleaned up.
LEMMA ClearSound ==
  ASSUME ManagerCore, NEW t \in Thread, Clear(t), NEW n \in Plugin, Sound(todo[t], n)
  PROVE  \E r \in Seq(Frame) : Turn(t, r) /\ Sound(r, n)'
<1> DEFINE s == todo[t]
<1>1. Stacks
  BY DEF ManagerCore
<1>2. /\ s # <<>> /\ s[1].op = "clear"
      /\ phase' = phase /\ detached' = detached /\ service' = service
      /\ plugins' = [m \in Plugin |-> None]
  BY ClearCore
<1>3. GoodStack(s) /\ 1 \in 1..Len(s)
  BY <1>1, <1>2, HeadFrame
<1>4. PICK r \in Seq(Frame) : Turn(t, r) /\ Suffix(r, s, 1)
  BY ClearCore DEF Dropped, Suffix
<1>5. /\ ~Sweep(r)
      /\ r # <<>> => r[1].op \notin HasObject \cup {"pop"}
  BY <1>2, <1>3, <1>4, SuffixCalm DEF CleanOps
<1>6. Emptied(n)
  <2>1. SweepAt(s, 1)
    BY <1>2 DEF SweepAt
  <2>2. Emptied(n) \/ \E j \in 1..(1 - 1) : s[j].n = n
    BY <1>3, <2>1 DEF Sound, Relies
  <2> QED  BY <2>2
<1>7. plugins'[n] = None
  BY <1>2
<1>8. Settled(n)'
  BY <1>2, <1>6, <1>7 DEF Settled, Emptied, Dead, Live, ObjectsOf
<1>9. \A k \in 1..Len(r) : ~SweepAt(r, k)
  BY <1>5 DEF Sweep
<1>10. /\ ~HeadIs(r, {"pop"}, n) /\ ~HeadIs(r, {"store"}, n) /\ ~HeadIs(r, {"cleanupend"}, n)
       /\ ~HeadIs(r, Reading, n) /\ ~HeadIs(r, {"cleanuprun"}, n)
  BY <1>5 DEF HeadIs, Reading, HasObject
<1>11. Relies(r, n)'
  BY <1>7, <1>8, <1>9, <1>10 DEF Relies, HeadIs, SweepAt
<1> QED
  BY <1>2, <1>4, <1>8, <1>11 DEF Sound

\* The thread that alone works on n leaves it as it must.
LEMMA StepSound ==
  ASSUME ManagerCore, NEW t \in Thread, IdleStep(t) \/ WorkStep(t), NEW n \in Plugin, Sound(todo[t], n)
  PROVE  \E r \in Seq(Frame) : Turn(t, r) /\ Sound(r, n)'
<1>1. CASE IdleStep(t)
  <2>1. PICK r \in Seq(Frame) : IdleTurn(t, r)
    BY <1>1 DEF IdleStep
  <2>2. Turn(t, r) /\ Sound(r, n)'
    BY <2>1, IdleSound DEF IdleTurn
  <2> QED  BY <2>2
<1>2. CASE Store(t) \/ Pop(t) \/ Clear(t) \/ Wipe(t)
  BY <1>2, StoreSound, PopSound, ClearSound, WipeSound
<1>3. CASE CleanupRun(t) \/ CleanupEnd(t) \/ StartRun(t, TRUE) \/ StopRun(t)
  BY <1>3, CleanupRunSound, CleanupEndSound, RunSound
<1>4. CASE ForLoaded(t, "cleanupall", "cleanup")
  BY <1>4, SweepSound
<1>5. CASE \E registers \in BOOLEAN, ok \in BOOLEAN : Make(t, registers, ok)
  BY <1>5, MakeSound
<1>6. CASE Lookup(t, "cleanup", "cleanupread") \/ ReadObject(t, "cleanupread", "cleanuprun")
  BY <1>6, CleanupLookupSound
<1>7. CASE \/ Lookup(t, "start", "startread") \/ Lookup(t, "stop", "stopread")
           \/ ReadObject(t, "startread", "startrun") \/ ReadObject(t, "stopread", "stoprun")
  BY <1>7, LookupSound
<1>8. CASE OnHotReload(t) /\ service' # service
  BY <1>8, HotSound
<1> QED
  BY <1>1, <1>2, <1>3, <1>4, <1>5, <1>6, <1>7, <1>8 DEF WorkStep

\* A thread that does not work on n neither explains nor relies on anything.
LEMMA NotInvolved ==
  ASSUME NEW s, GoodStack(s), NEW n \in Plugin, ~WorksIn(s, n)
  PROVE  ~Explains(s, n) /\ Relies(s, n) /\ (~Explains(s, n))' /\ Relies(s, n)'
<1>1. s \in Seq(Frame) /\ Len(s) \in Nat /\ (s = <<>> <=> Len(s) = 0)
  BY StackFacts DEF GoodStack
<1>2. s # <<>> => 1 \in 1..Len(s)
  BY <1>1
<1>3. \A ops : "need" \notin ops => ~HeadIs(s, ops, n) /\ ~HeadIs(s, ops, All)
  BY <1>2 DEF HeadIs, WorksIn
<1>4. \A k \in 1..Len(s) : ~SweepAt(s, k)
  <2> SUFFICES ASSUME NEW k \in 1..Len(s), s[k].op = "clear" PROVE FALSE
    BY DEF SweepAt
  <2>1. FrameOK(s[k])
    BY DEF GoodStack
  <2>2. s[k].n = All
    BY <2>1 DEF FrameOK, AllOps
  <2> QED  BY <2>2 DEF WorksIn
<1>5. \A k \in 1..Len(s) : ~(s[k].op = "make" /\ s[k].n = n)
  BY DEF WorksIn
<1>6. /\ ~HeadIs(s, {"store", "cleanupend"}, n) /\ ~HeadIs(s, CleanOps \cup {"pop"}, n)
      /\ ~HeadIs(s, {"pop"}, n) /\ ~HeadIs(s, {"store"}, n) /\ ~HeadIs(s, {"cleanupend"}, n)
      /\ ~HeadIs(s, Reading, n) /\ ~HeadIs(s, {"cleanuprun"}, n) /\ ~HeadIs(s, {"wipe"}, All)
  BY <1>3 DEF CleanOps, Reading
<1>7. ~Explains(s, n) /\ (~Explains(s, n))'
  BY <1>4, <1>6 DEF Explains, Sweep, HeadIs, SweepAt
<1>8. Relies(s, n) /\ Relies(s, n)'
  BY <1>4, <1>5, <1>6 DEF Relies, HeadIs, SweepAt
<1> QED
  BY <1>7, <1>8

\* Who works on a plugin, by the frames.
LEMMA WorksAre ==
  ASSUME Stacks, NEW t \in Thread, NEW n
  PROVE  Works(t, n) <=> WorksIn(todo[t], n)
<1>1. todo[t] \in Seq(Frame)
  BY DEF Stacks
<1>2. ToSet(todo[t]) = {todo[t][k] : k \in 1..Len(todo[t])}
  BY <1>1, StackFacts DEF ToSet
<1> QED
  BY <1>2 DEF Works, WorksIn

\* A plugin that is left alone, for a thread that goes on as before.
LEMMA SameRelies ==
  ASSUME DataTyped, NEW n \in Plugin, SameAt(n), NEW s, GoodStack(s), Relies(s, n)
  PROVE  Relies(s, n)' /\ (Explains(s, n) <=> Explains(s, n)')
<1>1. /\ plugins'[n] = plugins[n]
      /\ Settled(n) <=> Settled(n)'
      /\ Emptied(n) <=> Emptied(n)'
      /\ \A i \in ObjectsOf(n) : (Made(n, i) <=> Made(n, i)') /\ (Half(n, i) <=> Half(n, i)')
  BY SameFacts DEF SameAt
<1>2. s \in Seq(Frame) /\ Len(s) \in Nat /\ (s = <<>> <=> Len(s) = 0)
  BY StackFacts DEF GoodStack
<1>3. ASSUME HeadIs(s, HasObject, n) PROVE s[1].i \in ObjectsOf(n)
  <2>1. FrameOK(s[1])
    BY <1>2, <1>3 DEF GoodStack, HeadIs
  <2> QED  BY <1>3, <2>1 DEF FrameOK, HeadIs
<1>4. HeadIs(s, {"store"}, n) => Made(n, s[1].i)'
  <2> SUFFICES ASSUME HeadIs(s, {"store"}, n) PROVE Made(n, s[1].i)'
    OBVIOUS
  <2>1. PICK i \in ObjectsOf(n) : i = s[1].i
    BY <1>3 DEF HeadIs, HasObject
  <2>2. Made(n, i)
    BY <2>1 DEF Relies
  <2>3. Made(n, i)'
    BY <1>1, <2>2
  <2> QED  BY <2>1, <2>3
<1>5. HeadIs(s, {"cleanupend"}, n) => Half(n, s[1].i)'
  <2> SUFFICES ASSUME HeadIs(s, {"cleanupend"}, n) PROVE Half(n, s[1].i)'
    OBVIOUS
  <2>1. PICK i \in ObjectsOf(n) : i = s[1].i
    BY <1>3 DEF HeadIs, HasObject
  <2>2. Half(n, i)
    BY <2>1 DEF Relies
  <2>3. Half(n, i)'
    BY <1>1, <2>2
  <2> QED  BY <2>1, <2>3
<1>6. HeadIs(s, {"cleanuprun"}, n) => s[1].i \notin detached'
  <2> SUFFICES ASSUME HeadIs(s, {"cleanuprun"}, n) PROVE s[1].i \notin detached'
    OBVIOUS
  <2>1. s[1].i \in ObjectsOf(n)
    BY <1>3 DEF HeadIs, HasObject
  <2> QED  BY <2>1 DEF Relies, SameAt
<1>7. /\ HeadIs(s, {"pop"}, n) => Emptied(n)'
      /\ HeadIs(s, Reading, n) => s[1].i = plugins'[n]
      /\ HeadIs(s, {"wipe"}, All) => Settled(n)' /\ plugins'[n] = None
      /\ \A k \in 1..Len(s) : /\ SweepAt(s, k) => Emptied(n)' \/ \E j \in 1..(k - 1) : s[j].n = n
                              /\ s[k].op = "make" /\ s[k].n = n => plugins'[n] = None
  BY <1>1 DEF Relies
<1>8. Relies(s, n)'
  BY <1>4, <1>5, <1>6, <1>7 DEF Relies, HeadIs, SweepAt
<1>9. Explains(s, n) <=> Explains(s, n)'
  BY <1>1 DEF Explains, HeadIs, Sweep, SweepAt
<1> QED
  BY <1>8, <1>9

(* What has to be shown of n when a thread goes on with r.                 *)
WholeAt(n) == Accounted(n) /\ \A t \in Thread : Relies(todo[t], n)

\* The state after a step, by the frames of the threads.
LEMMA WholeAtNext ==
  ASSUME NEW n \in Plugin, NEW s \in [Thread -> Seq(Frame)], todo' = s,
         Settled(n)' \/ \E t \in Thread : Explains(s[t], n)',
         \A t \in Thread : Relies(s[t], n)'
  PROVE  WholeAt(n)'
<1>1. Accounted(n)'
  BY DEF Accounted, Explains, HeadIs, Sweep, SweepAt
<1>2. \A t \in Thread : Relies(todo[t], n)'
  BY SMTT(30) DEF Relies, HeadIs, SweepAt, Made, Half
<1> QED
  BY <1>1, <1>2 DEF WholeAt

\* A step that works on plugins is about the first frame of its thread.
LEMMA WorkHead ==
  ASSUME NEW t \in Thread, WorkStep(t)
  PROVE  todo[t] # <<>> /\ todo[t][1].op # "need"
BY DEF WorkStep, Store, CleanupRun, CleanupEnd, Pop, Clear, Wipe, StartRun, StopRun, ForLoaded, Make, Lookup, ReadObject,
   OnHotReload, Run

\* A step changes the frames of one thread.
LEMMA OthersWait ==
  ASSUME ManagerCore, NEW t \in Thread, IdleStep(t) \/ WorkStep(t)
  PROVE  \A u \in Thread \ {t} : todo'[u] = todo[u]
<1>1. Stacks
  BY DEF ManagerCore
<1>2. todo \in [Thread -> Seq(Frame)]
  BY <1>1 DEF Stacks
<1>3. \E r : todo' = [todo EXCEPT ![t] = r]
  <2>1. CASE IdleStep(t)
    BY <2>1 DEF IdleStep, IdleTurn, Turn
  <2>2. CASE WorkStep(t)
    <3>1. CASE \/ CleanupRun(t) \/ CleanupEnd(t) \/ Pop(t) \/ Clear(t) \/ Wipe(t)
               \/ StartRun(t, TRUE) \/ StopRun(t) \/ ForLoaded(t, "cleanupall", "cleanup")
      BY <3>1 DEF CleanupRun, CleanupEnd, Pop, Clear, Wipe, StartRun, StopRun, ForLoaded, Pass
    <3>2. CASE Store(t) \/ (OnHotReload(t) /\ service' # service) \/ \E registers \in BOOLEAN, ok \in BOOLEAN : Make(t, registers, ok)
      BY <3>2 DEF Store, OnHotReload, Make, Pass, Raise, Continue
    <3>3. CASE \/ Lookup(t, "start", "startread") \/ Lookup(t, "stop", "stopread") \/ Lookup(t, "cleanup", "cleanupread")
               \/ ReadObject(t, "startread", "startrun") \/ ReadObject(t, "stopread", "stoprun")
               \/ ReadObject(t, "cleanupread", "cleanuprun")
      BY <3>3 DEF Lookup, ReadObject
    <3> QED  BY <2>2, <3>1, <3>2, <3>3 DEF WorkStep
  <2> QED  BY <2>1, <2>2
<1> QED
  BY <1>2, <1>3

\* Who works on a plugin after a step.
LEMMA WorksNext ==
  ASSUME NEW s \in [Thread -> Seq(Frame)], todo' = s, NEW t \in Thread, NEW n
  PROVE  Works(t, n)' <=> WorksIn(s[t], n)
<1>1. s[t] \in Seq(Frame)
  OBVIOUS
<1>2. ToSet(s[t]) = {s[t][k] : k \in 1..Len(s[t])}
  BY <1>1, StackFacts DEF ToSet
<1>3. Works(t, n)' <=> \E f \in ToSet(s[t]) : f.n \in {n, All} /\ f.op # "need"
  BY DEF Works
<1> QED
  BY <1>2, <1>3 DEF WorksIn

\* As long as only one thread at a time works on a plugin, no step leaves it
\* half done without the thread that goes on with it.
LEMMA WholeStep ==
  ASSUME ManagerCore, ManagerCore', Overlap \subseteq mixed, Whole, NEW t \in Thread, StepOf(t)
  PROVE  Whole' /\ (Overlap \subseteq mixed)'
<1>1. DataTyped /\ Stacks /\ Stacks'
  BY DEF ManagerCore
<1>2. (IdleStep(t) \/ WorkStep(t)) /\ mixed' = mixed \cup Overlap'
  BY DEF StepOf
<1>3. PICK s \in [Thread -> Seq(Frame)] : todo' = s
  BY <1>1 DEF Stacks
<1>4. \A u \in Thread \ {t} : s[u] = todo[u]
  BY <1>2, <1>3, OthersWait
<1>5. \A u \in Thread : GoodStack(todo[u]) /\ GoodStack(s[u])
  <2>1. \A u \in Thread : GoodStack(todo[u])
    BY <1>1 DEF Stacks
  <2>2. ASSUME NEW u \in Thread PROVE GoodStack(s[u])
    <3>1. GoodStack(todo[u])'
      BY <1>1 DEF Stacks
    <3> QED
      BY <1>3, <3>1 DEF GoodStack, FrameOK, Shape, UnlockAt, InsideAt, ObjectAt,
         PopAt, CleanAt, ClearAt, CleanupAllAt, WipeAt, MakeAt, ObjectsOf, Pos
  <2> QED  BY <2>1, <2>2
<1>6. ASSUME NEW n \in Plugin, n \notin mixed' PROVE WholeAt(n)'
  <2>1. n \notin mixed /\ n \notin Overlap /\ n \notin Overlap'
    BY <1>2, <1>6
  <2>2. Accounted(n) /\ \A u \in Thread : Relies(todo[u], n)
    BY <2>1 DEF Whole
  <2>3. CASE WorksIn(todo[t], n) \/ WorksIn(s[t], n)
    <3>1. \A u \in Thread \ {t} : ~WorksIn(s[u], n) /\ ~WorksIn(todo[u], n)
      <4> SUFFICES ASSUME NEW u \in Thread, u # t PROVE ~WorksIn(todo[u], n)
        BY <1>4
      <4>1. CASE WorksIn(todo[t], n)
        <5>1. Works(t, n)
          BY <1>1, <4>1, WorksAre
        <5>2. ~Works(u, n)
          BY <2>1, <5>1 DEF Overlap
        <5> QED  BY <1>1, <5>2, WorksAre
      <4>2. CASE WorksIn(s[t], n)
        <5>1. Works(t, n)'
          BY <1>3, <4>2, WorksNext
        <5>2. ~(Works(u, n)')
          BY <2>1, <5>1 DEF Overlap
        <5>3. ~WorksIn(s[u], n)
          BY <1>3, <5>2, WorksNext
        <5> QED  BY <1>4, <5>3
      <4> QED  BY <2>3, <4>1, <4>2
    <3>2. \A u \in Thread \ {t} : ~Explains(todo[u], n)
      BY <1>5, <3>1, NotInvolved
    <3>3. Sound(todo[t], n)
      BY <2>2, <3>2 DEF Sound, Accounted
    <3>4. PICK r \in Seq(Frame) : Turn(t, r) /\ Sound(r, n)'
      BY <1>2, <3>3, StepSound
    <3>5. s[t] = r
      BY <1>1, <1>3, <3>4, TurnStacks
    <3>6. (Settled(n)' \/ Explains(r, n)') /\ Relies(r, n)'
      BY <3>4 DEF Sound
    <3>7. (Settled(n)' \/ Explains(s[t], n)') /\ Relies(s[t], n)'
      BY <3>5, <3>6
    <3>8. \A u \in Thread \ {t} : Relies(s[u], n)'
      BY <1>5, <3>1, NotInvolved
    <3>9. \A u \in Thread : Relies(s[u], n)'
      BY <3>7, <3>8
    <3> QED  BY <1>3, <3>7, <3>9, WholeAtNext
  <2>4. CASE ~WorksIn(todo[t], n) /\ ~WorksIn(s[t], n)
    <3>1. SameAt(n)
      <4>1. CASE IdleStep(t)
        BY <4>1, SameAll DEF IdleStep, IdleTurn
      <4>2. CASE WorkStep(t)
        <5>1. todo[t] # <<>> /\ todo[t][1].op # "need"
          BY <4>2, WorkHead
        <5>2. 1 \in 1..Len(todo[t]) /\ FrameOK(todo[t][1])
          BY <1>1, <5>1, HeadFrame
        <5>3. todo[t][1].n \notin {n, All}
          BY <2>4, <5>1, <5>2 DEF WorksIn
        <5>4. HeadN(t) # n /\ todo[t][1].op \notin {"clear", "wipe"}
          BY <5>2, <5>3 DEF HeadN, FrameOK, AllOps
        <5> QED  BY <4>2, <5>4, SameElsewhere
      <4> QED  BY <1>2, <4>1, <4>2
    <3>2. Relies(s[t], n)' /\ ~Explains(todo[t], n)
      BY <1>5, <2>4, NotInvolved
    <3>3. ASSUME NEW u \in Thread, u # t PROVE Relies(s[u], n)' /\ (Explains(todo[u], n) <=> Explains(s[u], n)')
      <4>1. s[u] = todo[u]
        BY <1>4, <3>3
      <4>2. Relies(s[u], n)
        BY <2>2, <4>1
      <4>3. Relies(s[u], n)' /\ (Explains(s[u], n) <=> Explains(s[u], n)')
        BY <1>1, <1>5, <3>1, <4>2, SameRelies
      <4> QED  BY <4>1, <4>3
    <3>4. \A u \in Thread : Relies(s[u], n)'
      BY <3>2, <3>3
    <3>5. Settled(n)' \/ \E u \in Thread : Explains(s[u], n)'
      <4>1. CASE Settled(n)
        BY <1>1, <3>1, <4>1, SameFacts
      <4>2. CASE \E u \in Thread : Explains(todo[u], n)
        BY <3>2, <3>3, <4>2
      <4> QED  BY <2>2, <4>1, <4>2 DEF Accounted
    <3> QED  BY <1>3, <3>4, <3>5, WholeAtNext
  <2> QED  BY <2>3, <2>4
<1>7. Whole'
  BY <1>6 DEF Whole, WholeAt
<1> QED
  BY <1>2, <1>7

\* Nothing is loaded and nobody works.
LEMMA InitWhole ==
  ASSUME Init
  PROVE  WholeIInv
<1>1. ManagerIInv
  BY InitManager
<1>2. Stacks /\ todo = [t \in Thread |-> <<>>]
  BY <1>1 DEF ManagerIInv, ManagerCore, Init
<1>3. GoodStack(<<>>) /\ Len(<<>>) = 0
  <2>1. <<>> \in Seq(Frame) /\ Len(<<>>) = 0
    OBVIOUS
  <2> QED  BY <2>1 DEF GoodStack, Shape
<1>4. \A t \in Thread, n \in Plugin : ~WorksIn(todo[t], n) /\ Relies(todo[t], n)
  <2> SUFFICES ASSUME NEW t \in Thread, NEW n \in Plugin PROVE ~WorksIn(todo[t], n) /\ Relies(todo[t], n)
    OBVIOUS
  <2>1. todo[t] = <<>>
    BY <1>2
  <2>2. ~WorksIn(<<>>, n)
    BY <1>3 DEF WorksIn
  <2>3. Relies(<<>>, n)
    BY <1>3, <2>2, NotInvolved
  <2> QED  BY <2>1, <2>2, <2>3
<1>5. Overlap \subseteq mixed
  BY <1>2, <1>4, WorksAre DEF Overlap
<1>6. \A n \in Plugin : Settled(n)
  <2> SUFFICES ASSUME NEW n \in Plugin PROVE Settled(n)
    OBVIOUS
  <2>1. plugins[n] = None /\ service[n] = None
    BY DEF Init
  <2>2. \A i \in ObjectsOf(n) : ~Live(i)
    BY DEF Init, Live, ObjectsOf, Inst
  <2> QED  BY <2>1, <2>2 DEF Settled
<1> QED
  BY <1>1, <1>4, <1>5, <1>6 DEF WholeIInv, Whole, Accounted

\* One step of any thread.
LEMMA NextWhole ==
  ASSUME WholeIInv, [Next]_vars
  PROVE  WholeIInv'
<1>1. ManagerIInv /\ ManagerIInv'
  BY NextManager DEF WholeIInv
<1>2. CASE Next
  <2>1. PICK t \in Thread : StepOf(t)
    BY <1>1, <1>2, NextSteps
  <2>2. Whole' /\ (Overlap \subseteq mixed)'
    BY <1>1, <2>1, WholeStep DEF WholeIInv, ManagerIInv
  <2> QED  BY <1>1, <2>2 DEF WholeIInv
<1>3. CASE UNCHANGED vars
  <2>1. /\ plugins' = plugins /\ phase' = phase /\ detached' = detached /\ service' = service
        /\ todo' = todo /\ mixed' = mixed
    BY <1>3 DEF vars, tables, objects
  <2>2. (Overlap \subseteq mixed)'
    BY <2>1 DEF WholeIInv, Overlap, Works
  <2>3. Whole'
    BY <2>1 DEF WholeIInv, Whole, Accounted, Relies, Explains, HeadIs, Sweep, SweepAt, Made, Half, Emptied, Settled, Dead, Live, ObjectsOf
  <2> QED  BY <1>1, <2>2, <2>3 DEF WholeIInv
<1> QED
  BY <1>2, <1>3

\* What is half done has a thread that goes on with it.
THEOREM WholeInvariant ==
  Spec => []WholeIInv
<1>1. Init => WholeIInv
  BY InitWhole
<1>2. WholeIInv /\ [Next]_vars => WholeIInv'
  BY NextWhole
<1> QED
  BY <1>1, <1>2, PTL DEF Spec

\* When no thread works on a plugin it is settled.
LEMMA QuietSettled ==
  ASSUME WholeIInv, NEW n \in Plugin, Quiet(n)
  PROVE  Settled(n)
<1>1. Stacks /\ n \notin mixed
  BY DEF WholeIInv, ManagerIInv, ManagerCore, Quiet
<1>2. \A t \in Thread : GoodStack(todo[t]) /\ ~WorksIn(todo[t], n)
  BY <1>1, WorksAre DEF Quiet, Busy, Stacks
<1>3. \A t \in Thread : ~Explains(todo[t], n)
  BY <1>2, NotInvolved
<1> QED
  BY <1>1, <1>3 DEF WholeIInv, Whole, Accounted

\* A plugin in _plugins has its object, initialised and not cleaned up, with
\* its service registered, if calls about it did not overlap (load_plugin,
\* unload_plugin, reload_plugin, cleanup_all_plugins, shutdown).
THEOREM ManagerComplete ==
  Spec => []LoadedIsComplete
<1>1. WholeIInv => LoadedIsComplete
  <2> SUFFICES ASSUME WholeIInv, NEW n \in Plugin, Quiet(n), plugins[n] # None
               PROVE  GetPlugin(n) # None /\ Live(plugins[n]) /\ service[n] = plugins[n]
    BY DEF LoadedIsComplete
  <2>1. Settled(n)
    BY QuietSettled
  <2> QED  BY <2>1 DEF Settled, GetPlugin
<1> QED
  BY <1>1, WholeInvariant, PTL

\* Every object that was initialised and not cleaned up is reached through
\* _plugins, and a registered service belongs to it or to an object whose
\* initialisation failed, if calls about the plugin did not overlap.
THEOREM ManagerLeavesNothing ==
  Spec => []NothingLeftBehind
<1>1. WholeIInv => NothingLeftBehind
  <2> SUFFICES ASSUME WholeIInv PROVE NothingLeftBehind
    OBVIOUS
  <2>1. ASSUME NEW i \in Inst, Live(i), Quiet(i[1]) PROVE GetPlugin(i[1]) = i
    <3>1. i[1] \in Plugin /\ i \in ObjectsOf(i[1])
      BY DEF Inst, ObjectsOf
    <3>2. PICK n \in Plugin : n = i[1]
      BY <3>1
    <3>3. Settled(n)
      BY <2>1, <3>2, QuietSettled
    <3>4. plugins[n] = i /\ i # None
      BY <2>1, <3>1, <3>2, <3>3, ObjectNotNone DEF Settled
    <3>5. plugins[n] \notin detached
      BY <3>3, <3>4 DEF Settled
    <3> QED  BY <3>2, <3>4, <3>5 DEF GetPlugin
  <2>2. ASSUME NEW n \in Plugin, service[n] # None, Quiet(n)
        PROVE  service[n] = GetPlugin(n) \/ phase[service[n]] = "failed"
    <3>1. Settled(n)
      BY <2>2, QuietSettled
    <3> QED  BY <2>2, <3>1 DEF Settled, GetPlugin
  <2> QED  BY <2>1, <2>2 DEF NothingLeftBehind
<1> QED
  BY <1>1, WholeInvariant, PTL

-----------------------------------------------------------------------------
(* Dependencies are loaded first *)

\* Only the thread that holds the lock makes objects.
LEMMA MakerHoldsLock ==
  ASSUME Stacks, NEW t \in Thread, NEW k \in 1..Len(todo[t]), todo[t][k].op \in {"make", "store"}
  PROVE  /\ lock = t /\ HasUnlock(todo[t]) /\ todo[t][k] \in Frame /\ todo[t][k].n \in Plugin
<1>1. GoodStack(todo[t]) /\ todo[t] \in Seq(Frame) /\ (lock = t <=> HasUnlock(todo[t]))
  BY DEF Stacks
<1>2. InsideAt(todo[t], k) /\ FrameOK(todo[t][k])
  BY <1>1 DEF GoodStack, Shape
<1>3. HasUnlock(todo[t])
  BY <1>2 DEF InsideAt, HasUnlock
<1>4. todo[t][k] \in Frame
  BY <1>1, StackFacts
<1>5. todo[t][k].n \in Plugin
  BY <1>2, <1>4 DEF FrameOK, Frame, AllOps
<1> QED
  BY <1>1, <1>3, <1>4, <1>5

\* A thread whose list r has no "unlock" frame makes nothing.
LEMMA NoMakes ==
  ASSUME NEW r, GoodStack(r), ~HasUnlock(r)
  PROVE  DepsIn(r)'
<1>1. \A k \in 1..Len(r) : r[k].op \notin {"make", "store"}
  BY DEF GoodStack, Shape, InsideAt, HasUnlock
<1> QED
  BY <1>1 DEF DepsIn

(* A step of the thread inside load_plugin that takes its first frame away *)
(* and goes on with new ones and the rest.                                 *)
Inward(t, new, r) ==
  /\ todo' = [todo EXCEPT ![t] = r] /\ Pushed(r, new, todo[t])
  /\ \A m \in Plugin : plugins[m] # None => plugins'[m] # None
  /\ saved' = saved
  /\ todo[t][1].op \in Inside =>
       \/ plugins'[HeadN(t)] # None
       \/ saved'[HeadN(t)] = "off"
       \/ \E j \in 1..Len(new) : new[j].n = HeadN(t) /\ new[j].op \in Inside
  /\ \A k \in 1..Len(new) : new[k].op \in {"make", "store"} =>
       \/ k = 1 /\ todo[t][1].op = "make" /\ new[1].n = HeadN(t)
       \/ \A m \in Requires[new[k].n] : Ahead(new, k, m)

\* Such a step keeps the order of the dependencies.
LEMMA InwardDeps ==
  ASSUME Stacks, NEW t \in Thread, NEW new, NEW r, Inward(t, new, r), GoodStack(r), mixed \subseteq mixed',
         DepsIn(todo[t])
  PROVE  DepsIn(r)'
<1> DEFINE s == todo[t]
<1>0. PICK h : h = s[1].n
  OBVIOUS
<1>1. /\ todo \in [Thread -> Seq(Frame)] /\ GoodStack(s) /\ s \in Seq(Frame)
      /\ todo' = [todo EXCEPT ![t] = r] /\ Pushed(r, new, s) /\ s # <<>>
  BY DEF Stacks, Inward, Pushed
<1>2. /\ Len(s) \in Nat /\ Len(new) \in Nat /\ Len(r) \in Nat /\ r \in Seq(Frame)
      /\ 1 \in 1..Len(s)
  BY <1>1, StackFacts DEF Pushed
<1>3. /\ \A k \in 1..Len(r) : (k \in 1..Len(new) /\ r[k] = new[k])
                                 \/ \E j \in 2..Len(s) : r[k] = s[j] /\ k = j + Len(new) - 1
      /\ \A j \in 2..Len(s) : j \in 1..Len(s) /\ \E k \in 1..Len(r) : r[k] = s[j] /\ k = j + Len(new) - 1
      /\ \A k \in 1..Len(new) : k \in 1..Len(r) /\ r[k] = new[k]
  BY <1>1, PushedMaking
<1>4. todo'[t] = r /\ \A u \in Thread \ {t} : todo'[u] = todo[u]
  BY <1>1
<1>5. /\ \A m \in Plugin : plugins[m] # None => plugins'[m] # None
      /\ saved' = saved
      /\ s[1].op \in Inside =>
           \/ plugins'[h] # None
           \/ saved'[h] = "off"
           \/ \E j \in 1..Len(new) : new[j].n = h /\ new[j].op \in Inside
      /\ \A k \in 1..Len(new) : new[k].op \in {"make", "store"} =>
           \/ k = 1 /\ s[1].op = "make" /\ new[1].n = h
           \/ \A m \in Requires[new[k].n] : Ahead(new, k, m)
  BY <1>0 DEF Inward, HeadN
<1>6. ASSUME NEW m \in Plugin, Provided(m)
      PROVE  Provided(m)' \/ (s[1].op = "load" /\ h = m)
  <2>1. CASE plugins[m] # None \/ saved[m] = "off"
    BY <1>5, <1>6, <2>1 DEF Provided
  <2>2. CASE LoadComing(m)
    <3>0. PICK u \in Thread : \E j \in 1..Len(todo[u]) : todo[u][j].op = "load" /\ todo[u][j].n = m
      BY <2>2 DEF LoadComing
    <3>1. PICK j \in 1..Len(todo[u]) : todo[u][j].op = "load" /\ todo[u][j].n = m
      BY <3>0
    <3>2. CASE u # t
      <4>1. todo'[u] = todo[u]
        BY <1>4, <3>2
      <4>2. LoadComing(m)'
        BY <3>1, <4>1 DEF LoadComing
      <4> QED  BY <4>2 DEF Provided
    <3>3. CASE u = t /\ j # 1
      <4>1. j \in 2..Len(s)
        BY <1>2, <3>1, <3>3
      <4>2. PICK l \in 1..Len(r) : r[l] = s[j]
        BY <1>3, <4>1
      <4>3. LoadComing(m)'
        BY <1>4, <3>1, <3>3, <4>2 DEF LoadComing
      <4> QED  BY <4>3 DEF Provided
    <3>4. CASE u = t /\ j = 1
      BY <1>0, <3>1, <3>4
    <3> QED  BY <3>2, <3>3, <3>4
  <2> QED  BY <1>6, <2>1, <2>2 DEF Provided
<1>7. ASSUME s[1].op \in Inside, NEW k \in 1..Len(r), NEW j \in 2..Len(s), k = j + Len(new) - 1
      PROVE  Provided(h)' \/ Ahead(r, k, h)
  <2>1. CASE plugins'[h] # None \/ saved'[h] = "off"
    BY <2>1 DEF Provided
  <2>2. CASE \E l \in 1..Len(new) : new[l].n = h /\ new[l].op \in Inside
    <3>1. PICK l \in 1..Len(new) : new[l].n = h /\ new[l].op \in Inside
      BY <2>2
    <3>2. l \in 1..(k - 1)
      BY <1>2, <1>7, <3>1
    <3>3. r[l] = new[l]
      BY <1>3, <3>1
    <3> QED  BY <3>1, <3>2, <3>3 DEF Ahead
  <2> QED  BY <1>5, <1>7, <2>1, <2>2
<1>8. ASSUME NEW k \in 1..Len(r), r[k].op \in {"make", "store"}, r[k].n \notin mixed', NEW m \in Requires[r[k].n]
      PROVE  Provided(m)' \/ Ahead(r, k, m)
  <2>0. r[k].n \in Plugin /\ m \in Plugin
    <3>1. r[k] \in Frame /\ FrameOK(r[k])
      BY <1>2, StackFacts DEF GoodStack
    <3>2. r[k].n \in Plugin
      BY <1>8, <3>1 DEF FrameOK, Frame, AllOps
    <3> QED  BY <1>8, <3>2, PluginAssumption
  <2>1. CASE k \in 1..Len(new) /\ r[k] = new[k]
    <3>1. CASE k = 1 /\ s[1].op = "make" /\ new[1].n = h
      <4>1. s[1].n = r[k].n
        BY <1>0, <2>1, <3>1
      <4>2. Provided(m) \/ Ahead(s, 1, m)
        BY <1>2, <1>8, <3>1, <4>1 DEF DepsIn
      <4>3. ~Ahead(s, 1, m)
        BY DEF Ahead
      <4> QED  BY <1>6, <2>0, <3>1, <4>2, <4>3
    <3>2. CASE \A q \in Requires[new[k].n] : Ahead(new, k, q)
      <4>1. PICK j \in 1..(k - 1) : new[j].n = m /\ new[j].op \in Inside
        BY <1>8, <2>1, <3>2 DEF Ahead
      <4>2. j \in 1..Len(new)
        BY <1>2, <2>1, <4>1
      <4>3. r[j] = new[j]
        BY <1>3, <4>2
      <4> QED  BY <4>1, <4>3 DEF Ahead
    <3> QED  BY <1>5, <1>8, <2>1, <3>1, <3>2
  <2>2. CASE \E j \in 2..Len(s) : r[k] = s[j] /\ k = j + Len(new) - 1
    <3>1. PICK j \in 2..Len(s) : r[k] = s[j] /\ k = j + Len(new) - 1
      BY <2>2
    <3>2. j \in 1..Len(s)
      BY <1>3
    <3>3. Provided(m) \/ Ahead(s, j, m)
      BY <1>8, <3>1, <3>2 DEF DepsIn
    <3>4. CASE Provided(m)
      <4>1. Provided(m)' \/ (s[1].op = "load" /\ h = m)
        BY <1>6, <2>0, <3>4
      <4>2. ASSUME s[1].op = "load", h = m PROVE Provided(m)' \/ Ahead(r, k, m)
        <5>1. Provided(h)' \/ Ahead(r, k, h)
          BY <1>7, <3>1, <4>2 DEF Inside
        <5> QED  BY <4>2, <5>1
      <4> QED  BY <4>1, <4>2
    <3>5. CASE Ahead(s, j, m)
      <4>1. PICK l \in 1..(j - 1) : s[l].n = m /\ s[l].op \in Inside
        BY <3>5 DEF Ahead
      <4>2. CASE l = 1
        <5>1. h = m /\ s[1].op \in Inside
          BY <1>0, <4>1, <4>2
        <5>2. Provided(h)' \/ Ahead(r, k, h)
          BY <1>7, <3>1, <5>1
        <5> QED  BY <5>1, <5>2
      <4>3. CASE l # 1
        <5>1. l \in 2..Len(s)
          BY <1>2, <3>1, <4>1, <4>3
        <5>2. PICK q \in 1..Len(r) : r[q] = s[l] /\ q = l + Len(new) - 1
          BY <1>3, <5>1
        <5>3. q \in 1..(k - 1)
          BY <1>2, <3>1, <4>1, <5>2
        <5> QED  BY <4>1, <5>2, <5>3 DEF Ahead
      <4> QED  BY <4>2, <4>3
    <3> QED  BY <3>3, <3>4, <3>5
  <2> QED  BY <1>3, <1>8, <2>1, <2>2
<1> QED
  BY <1>8 DEF DepsIn, Ahead

\* The first frame is taken away and nothing takes its place.
LEMMA SuffixPushed ==
  ASSUME NEW r, NEW s, Suffix(r, s, 1), s # <<>>
  PROVE  Pushed(r, <<>>, s)
<1>1. /\ r \in Seq(Frame) /\ s \in Seq(Frame) /\ Len(r) = Len(s) - 1 /\ Len(s) \in Nat
      /\ \A k \in 1..Len(r) : r[k] = s[k + 1]
  BY StackFacts DEF Suffix
<1> DEFINE new == <<>>
<1>2. new \in Seq(Frame) /\ Len(new) = 0
  OBVIOUS
<1> HIDE DEF new
<1>3. Len(r) = Len(new) + Len(s) - 1
  BY <1>1, <1>2
<1>4. ASSUME NEW k \in 2..Len(s) PROVE r[k + Len(new) - 1] = s[k]
  <2>1. PICK l \in 1..Len(r) : k = l + 1
    <3>1. k - 1 \in 1..Len(r) /\ k = (k - 1) + 1
      BY <1>1, <1>4
    <3> QED  BY <3>1
  <2>2. k + Len(new) - 1 = l
    BY <1>1, <1>2, <2>1
  <2> QED  BY <1>1, <2>1, <2>2
<1>5. \A k \in 1..Len(new) : r[k] = new[k]
  BY <1>2
<1>6. Pushed(r, new, s)
  BY <1>1, <1>2, <1>3, <1>4, <1>5 DEF Pushed
<1> QED
  BY <1>6 DEF new

\* A frame of load_plugin ends, with its plugin loaded or disabled.
LEMMA ContinueDeps ==
  ASSUME Stacks, NEW t \in Thread, todo[t] # <<>>, todo[t][1].op # "unlock", Continue(t, Tail(todo[t])),
         NEW r, GoodStack(r), todo'[t] = r, mixed \subseteq mixed', DepsIn(todo[t]),
         \A m \in Plugin : plugins[m] # None => plugins'[m] # None, saved' = saved,
         plugins'[HeadN(t)] # None \/ saved'[HeadN(t)] = "off"
  PROVE  DepsIn(r)'
<1>1. GoodStack(todo[t]) /\ todo \in [Thread -> Seq(Frame)]
  BY DEF Stacks
<1>2. PICK c \in 1..Len(todo[t]), q \in Seq(Frame) :
         Dropped(t, c, q) /\ (c = 1 \/ (c = 2 /\ todo[t][2].op = "unlock"))
  BY <1>1, ContinueDrops
<1>3. r = q /\ todo' = [todo EXCEPT ![t] = r] /\ Suffix(r, todo[t], c)
  BY <1>1, <1>2 DEF Dropped
<1>4. CASE c = 2 /\ todo[t][2].op = "unlock"
  <2>1. ~HasUnlock(r)
    BY <1>1, <1>3, <1>4, SuffixUnlock
  <2> QED  BY <2>1, NoMakes
<1>5. CASE c = 1
  <2>1. Pushed(r, <<>>, todo[t])
    BY <1>3, <1>5, SuffixPushed
  <2>2. Len(<<>>) = 0
    OBVIOUS
  <2>3. Inward(t, <<>>, r)
    BY <1>3, <2>1, <2>2 DEF Inward
  <2> QED  BY <2>3, InwardDeps
<1> QED
  BY <1>2, <1>4, <1>5

\* A frame raises: the thread leaves load_plugin.
LEMMA RaiseDeps ==
  ASSUME Stacks, NEW t \in Thread, todo[t] # <<>>, todo[t][1].op # "unlock", Raise(t, Tail(todo[t])),
         NEW r, GoodStack(r), todo'[t] = r
  PROVE  DepsIn(r)'
<1>1. GoodStack(todo[t]) /\ todo \in [Thread -> Seq(Frame)]
  BY DEF Stacks
<1>2. PICK c \in 1..Len(todo[t]), q \in Seq(Frame) : Dropped(t, c, q) /\ ~HasUnlock(q)
  BY <1>1, RaiseDrops
<1>3. r = q
  BY <1>1, <1>2 DEF Dropped
<1> QED
  BY <1>2, <1>3, NoMakes

\* load_plugin puts the dependencies of a plugin before it.
LEMMA LoadDeps ==
  ASSUME ManagerCore, NEW t \in Thread, Load(t), NEW r, GoodStack(r), todo'[t] = r, mixed \subseteq mixed', DepsIn(todo[t])
  PROVE  DepsIn(r)'
<1> DEFINE s == todo[t]
<1>1. Stacks /\ DataTyped
  BY DEF ManagerCore
<1>2. /\ s # <<>> /\ s[1].op = "load" /\ plugins' = plugins /\ saved' = saved
  BY DEF Load, Run, tables, config
<1>3. GoodStack(s) /\ s \in Seq(Frame) /\ s[1] \in Frame /\ FrameOK(s[1]) /\ todo \in [Thread -> Seq(Frame)]
  BY <1>1, <1>2, HeadFrame DEF Stacks
<1>4. CASE GetPlugin(s[1].n) # None
  <2>1. Continue(t, Tail(s))
    BY <1>4 DEF Load
  <2>2. plugins'[HeadN(t)] # None
    BY <1>2, <1>4 DEF GetPlugin, HeadN
  <2> QED  BY <1>1, <1>2, <2>1, <2>2, ContinueDeps
<1>5. CASE GetPlugin(s[1].n) = None /\ ~Resolves(s[1].n)
  <2>1. Raise(t, Tail(s))
    BY <1>5 DEF Load
  <2> QED  BY <1>1, <1>2, <2>1, RaiseDeps
<1>6. CASE GetPlugin(s[1].n) = None /\ Resolves(s[1].n)
  <2>1. PICK deps \in InLoadOrder(Reach(s[1].n)) :
           todo' = [todo EXCEPT ![t] = LoadFrames(s[1], deps, HasUnlock(s)) \o Tail(s)]
    BY <1>1, <1>6, LoadPushes
  <2>2. PICK new : new = LoadFrames(s[1], deps, HasUnlock(s))
    OBVIOUS
  <2>3. r = new \o Tail(s) /\ todo' = [todo EXCEPT ![t] = r]
    BY <1>3, <2>1, <2>2
  <2>4. Pushed(r, new, s)
    BY <1>2, <1>3, <2>2, <2>3, LoadGood
  <2>5. PICK inside \in BOOLEAN : inside = HasUnlock(s)
    <3>1. HasUnlock(s) \in BOOLEAN
      BY DEF HasUnlock
    <3> QED  BY <3>1
  <2>5a. PICK f \in Frame : f = s[1]
    BY <1>3
  <2>5b. /\ f.op = "load" /\ FrameOK(f) /\ deps \in InLoadOrder(Reach(f.n)) /\ new = LoadFrames(f, deps, inside)
    BY <1>2, <1>3, <2>1, <2>2, <2>5, <2>5a
  <2>5c. /\ Len(deps) \in Nat
         /\ \A m \in Requires[f.n] : \E k \in 1..Len(deps) : deps[k] = m
         /\ Len(new) = Len(deps) + (IF inside THEN 1 ELSE 2)
         /\ \A k \in 1..Len(deps) : new[k].op = "need" /\ new[k].n = deps[k]
         /\ new[Len(deps) + 1].op = "make" /\ new[Len(deps) + 1].n = f.n
         /\ ~inside => new[Len(deps) + 2].op = "unlock"
    BY <2>5b, LoadFramesAre, SMTT(30)
  <2>6. /\ Len(deps) \in Nat
        /\ \A m \in Requires[s[1].n] : \E k \in 1..Len(deps) : deps[k] = m
        /\ Len(new) = Len(deps) + (IF HasUnlock(s) THEN 1 ELSE 2)
        /\ \A k \in 1..Len(deps) : new[k].op = "need" /\ new[k].n = deps[k]
        /\ new[Len(deps) + 1].op = "make" /\ new[Len(deps) + 1].n = s[1].n
        /\ ~HasUnlock(s) => new[Len(deps) + 2].op = "unlock"
    BY <2>5, <2>5a, <2>5c
  <2>7. \E j \in 1..Len(new) : new[j].n = HeadN(t) /\ new[j].op \in Inside
    <3>1. Len(deps) + 1 \in 1..Len(new)
      BY <2>6
    <3> QED  BY <2>6, <3>1 DEF HeadN, Inside
  <2>8. ASSUME NEW k \in 1..Len(new), new[k].op \in {"make", "store"}, NEW m \in Requires[new[k].n] PROVE Ahead(new, k, m)
    <3>1. k = Len(deps) + 1
      <4>1. k \in 1..Len(deps) \/ k = Len(deps) + 1 \/ (k = Len(deps) + 2 /\ ~HasUnlock(s))
        BY <2>6, <2>8
      <4> QED  BY <2>6, <2>8, <4>1
    <3>2. PICK j \in 1..Len(deps) : deps[j] = m
      BY <2>6, <2>8, <3>1
    <3>3. j \in 1..(k - 1)
      BY <2>6, <3>1, <3>2
    <3> QED  BY <2>6, <3>2, <3>3 DEF Ahead, Inside
  <2>9. Inward(t, new, r)
    BY <1>2, <2>3, <2>4, <2>7, <2>8 DEF Inward
  <2> QED  BY <1>1, <2>9, InwardDeps
<1> QED
  BY <1>4, <1>5, <1>6

\* Each dependency is loaded unless it is there.
LEMMA NeedDeps ==
  ASSUME ManagerCore, NEW t \in Thread, Need(t), NEW r, GoodStack(r), todo'[t] = r, mixed \subseteq mixed', DepsIn(todo[t])
  PROVE  DepsIn(r)'
<1> DEFINE s == todo[t]
<1>1. Stacks /\ DataTyped
  BY DEF ManagerCore
<1>2. /\ s # <<>> /\ s[1].op = "need" /\ plugins' = plugins /\ saved' = saved
      /\ todo' = [todo EXCEPT ![t] = (IF plugins[s[1].n] = None THEN <<F("load", s[1].n)>> ELSE <<>>) \o Tail(s)]
  BY DEF Need, Run, tables, config
<1>3. GoodStack(s) /\ s \in Seq(Frame) /\ s[1].n \in Plugin /\ todo \in [Thread -> Seq(Frame)]
  BY <1>1, <1>2, HeadFrame DEF Stacks, AllOps
<1>4. PICK new \in Seq(Frame) :
         /\ new = IF plugins[s[1].n] = None THEN <<F("load", s[1].n)>> ELSE <<>>
  <2>1. PICK f \in Frame : f = F("load", s[1].n)
    BY <1>3, OwnFrame DEF Op, HasObject, AllOps
  <2>2. <<f>> \in Seq(Frame) /\ <<>> \in Seq(Frame)
    OBVIOUS
  <2>3. CASE plugins[s[1].n] = None
    BY <2>1, <2>2, <2>3
  <2>4. CASE plugins[s[1].n] # None
    BY <2>2, <2>4
  <2> QED  BY <2>3, <2>4
<1>5. r = new \o Tail(s) /\ todo' = [todo EXCEPT ![t] = r]
  BY <1>2, <1>3, <1>4
<1>6. Pushed(r, new, s)
  BY <1>2, <1>3, <1>5, ConcatIsPushed
<1>7. CASE plugins[s[1].n] = None
  <2>1. PICK f \in Frame : f = F("load", s[1].n) /\ f.op = "load" /\ f.n = s[1].n
    BY <1>3, OwnFrame DEF Op, HasObject, AllOps
  <2>2. Len(new) = 1 /\ new[1] = f
    BY <1>4, <1>7, <2>1
  <2>3. \E j \in 1..Len(new) : new[j].n = HeadN(t) /\ new[j].op \in Inside
    BY <2>1, <2>2 DEF HeadN, Inside
  <2>4. \A k \in 1..Len(new) : new[k].op \notin {"make", "store"}
    BY <2>1, <2>2, SMTT(30)
  <2>5. Inward(t, new, r)
    BY <1>2, <1>5, <1>6, <2>3, <2>4 DEF Inward
  <2> QED  BY <1>1, <2>5, InwardDeps
<1>8. CASE plugins[s[1].n] # None
  <2>1. Len(new) = 0
    BY <1>4, <1>8
  <2>2. plugins'[HeadN(t)] # None
    BY <1>2, <1>8 DEF HeadN
  <2>3. \A k \in 1..Len(new) : FALSE
    BY <2>1, SMTT(30)
  <2>4. Inward(t, new, r)
    BY <1>2, <1>5, <1>6, <2>2, <2>3 DEF Inward
  <2> QED  BY <1>1, <2>4, InwardDeps
<1> QED
  BY <1>7, <1>8

\* A disabled plugin is passed over, a failing one ends load_plugin, and an
\* object that is made is stored next.
LEMMA MakeDeps ==
  ASSUME ManagerCore, NEW t \in Thread,
         MakeDisabled(t) \/ MakeFails(t) \/ \E registers \in BOOLEAN, ok \in BOOLEAN : Make(t, registers, ok),
         NEW r, GoodStack(r), todo'[t] = r, mixed \subseteq mixed', DepsIn(todo[t])
  PROVE  DepsIn(r)'
<1> DEFINE s == todo[t]
<1>1. Stacks /\ DataTyped
  BY DEF ManagerCore
<1>2. s # <<>> /\ s[1].op = "make" /\ plugins' = plugins /\ saved' = saved
  BY DEF MakeDisabled, MakeFails, Make, Run, tables
<1>3. GoodStack(s) /\ s \in Seq(Frame) /\ s[1] \in Frame /\ todo \in [Thread -> Seq(Frame)]
  BY <1>1, <1>2, HeadFrame DEF Stacks
<1>4. CASE MakeDisabled(t)
  <2>1. Continue(t, Tail(s)) /\ saved[HeadN(t)] = "off"
    BY <1>4 DEF MakeDisabled, Enabled, HeadN
  <2> QED  BY <1>1, <1>2, <2>1, ContinueDeps
<1>5. CASE Raise(t, Tail(s))
  BY <1>1, <1>2, <1>5, RaiseDeps
<1>6. CASE \E f \in Frame : todo' = [todo EXCEPT ![t] = <<f>> \o Tail(s)] /\ f.op = "store" /\ f.n = s[1].n
  <2>1. PICK f \in Frame : todo' = [todo EXCEPT ![t] = <<f>> \o Tail(s)] /\ f.op = "store" /\ f.n = s[1].n
    BY <1>6
  <2>2. PICK new \in Seq(Frame) : new = <<f>>
    <3>1. <<f>> \in Seq(Frame)
      OBVIOUS
    <3> QED  BY <3>1
  <2>3. Len(new) = 1 /\ new[1] = f
    BY <2>2
  <2>4. r = new \o Tail(s) /\ todo' = [todo EXCEPT ![t] = r]
    BY <1>3, <2>1, <2>2
  <2>5. Pushed(r, new, s)
    BY <1>2, <1>3, <2>4, ConcatIsPushed
  <2>6. \E j \in 1..Len(new) : new[j].n = HeadN(t) /\ new[j].op \in Inside
    BY <2>1, <2>3 DEF HeadN, Inside
  <2>7. \A k \in 1..Len(new) : k = 1 /\ new[1].n = HeadN(t)
    BY <2>1, <2>3 DEF HeadN
  <2>8. Inward(t, new, r)
    BY <1>2, <2>4, <2>5, <2>6, <2>7 DEF Inward
  <2> QED  BY <1>1, <2>8, InwardDeps
<1>7. CASE MakeFails(t)
  BY <1>5, <1>7 DEF MakeFails
<1>8. CASE \E registers \in BOOLEAN, ok \in BOOLEAN : Make(t, registers, ok)
  <2>1. \/ Raise(t, Tail(s))
        \/ \E i \in Inst : todo' = [todo EXCEPT ![t] = <<[s[1] EXCEPT !.op = "store", !.i = i]>> \o Tail(s)]
    <3>1. <<s[1].n, Min(Free(s[1].n))>> \in Inst
      <4>1. s[1].n \in Plugin /\ Free(s[1].n) # {}
        BY <1>1, <1>2, <1>8, HeadFrame DEF AllOps, Make
      <4> QED  BY <4>1, FreshObject, SMTT(30)
    <3> QED  BY <1>8, <3>1 DEF Make
  <2>2. CASE \E i \in Inst : todo' = [todo EXCEPT ![t] = <<[s[1] EXCEPT !.op = "store", !.i = i]>> \o Tail(s)]
    <3>1. PICK i \in Inst : todo' = [todo EXCEPT ![t] = <<[s[1] EXCEPT !.op = "store", !.i = i]>> \o Tail(s)]
      BY <2>2
    <3> DEFINE f == [s[1] EXCEPT !.op = "store", !.i = i]
    <3>2. f \in Frame /\ f.op = "store" /\ f.n = s[1].n
      BY <1>3 DEF Frame, Op
    <3> QED  BY <1>6, <3>1, <3>2
  <2> QED  BY <1>5, <2>1, <2>2, ZenonT(60)
<1> QED
  BY <1>4, <1>7, <1>8

\* A plugin that is stored is there for those that need it.
LEMMA StoreDeps ==
  ASSUME ManagerCore, NEW t \in Thread, Store(t), NEW r, GoodStack(r), todo'[t] = r, mixed \subseteq mixed', DepsIn(todo[t])
  PROVE  DepsIn(r)'
<1>1. Stacks /\ DataTyped
  BY DEF ManagerCore
<1>2. /\ todo[t] # <<>> /\ todo[t][1].op = "store" /\ HeadN(t) \in Plugin /\ HeadI(t) \in ObjectsOf(HeadN(t))
      /\ plugins' = [plugins EXCEPT ![HeadN(t)] = HeadI(t)]
  BY StoreCore
<1>3. saved' = saved /\ Continue(t, Tail(todo[t]))
  BY DEF Store, config
<1>4. HeadI(t) # None
  BY <1>2, ObjectNotNone
<1>5. plugins'[HeadN(t)] # None /\ \A m \in Plugin : plugins[m] # None => plugins'[m] # None
  BY <1>1, <1>2, <1>4 DEF DataTyped
<1> QED
  BY <1>1, <1>2, <1>3, <1>5, ContinueDeps

(* The frames that load a plugin are all still there.                      *)
LoadsStay(s, r) == \A k \in 1..Len(s) : s[k].op = "load" => \E j \in 1..Len(r) : r[j] = s[k]

Kept(t) == \E r \in Seq(Frame) : todo' = [todo EXCEPT ![t] = r] /\ LoadsStay(todo[t], r)

\* Frames take the place of one that is not about loading.
LEMMA PushedStays ==
  ASSUME NEW r, NEW new, NEW s, Pushed(r, new, s), s[1].op # "load"
  PROVE  LoadsStay(s, r)
<1>1. s \in Seq(Frame) /\ \A j \in 2..Len(s) : \E k \in 1..Len(r) : r[k] = s[j]
  BY PushedMaking DEF Pushed
<1>2. Len(s) \in Nat
  BY <1>1, StackFacts
<1>3. ASSUME NEW k \in 1..Len(s), s[k].op = "load" PROVE \E j \in 1..Len(r) : r[j] = s[k]
  <2>1. k # 1
    BY <1>3
  <2>2. k \in 2..Len(s)
    BY <1>2, <2>1
  <2> QED  BY <1>1, <2>2
<1> QED
  BY <1>3 DEF LoadsStay

\* The same, as a step of a thread.
LEMMA FramesKept ==
  ASSUME Stacks, NEW t \in Thread, todo[t] # <<>>, todo[t][1].op # "load", NEW new \in Seq(Frame),
         todo' = [todo EXCEPT ![t] = new \o Tail(todo[t])]
  PROVE  Kept(t)
<1>1. todo[t] \in Seq(Frame)
  BY DEF Stacks
<1>2. PICK r : r = new \o Tail(todo[t])
  OBVIOUS
<1>3. Pushed(r, new, todo[t])
  BY <1>1, <1>2, ConcatIsPushed
<1>4. LoadsStay(todo[t], r) /\ r \in Seq(Frame)
  BY <1>3, PushedStays DEF Pushed
<1> QED
  BY <1>2, <1>4 DEF Kept

\* A frame that is not about loading ends.
LEMMA PassKept ==
  ASSUME Stacks, NEW t \in Thread, todo[t] # <<>>, todo[t][1].op # "load", Pass(t)
  PROVE  Kept(t)
<1>1. todo[t] \in Seq(Frame)
  BY DEF Stacks
<1>2. PICK r : r = Tail(todo[t])
  OBVIOUS
<1>3. Suffix(r, todo[t], 1)
  BY <1>1, <1>2, TailIsSuffix
<1>4. Pushed(r, <<>>, todo[t])
  BY <1>3, SuffixPushed
<1>5. LoadsStay(todo[t], r) /\ r \in Seq(Frame)
  BY <1>3, <1>4, PushedStays DEF Suffix
<1> QED
  BY <1>2, <1>5 DEF Kept, Pass

\* A frame that is not about loading comes to its next stage.
LEMMA StagedKept ==
  ASSUME Stacks, NEW t \in Thread, todo[t] # <<>>, todo[t][1].op # "load", NEW f, NEW r \in Seq(Frame), Staged(t, f, r)
  PROVE  Kept(t)
<1>1. /\ todo' = [todo EXCEPT ![t] = r] /\ Len(r) = Len(todo[t]) /\ \A k \in 2..Len(r) : r[k] = todo[t][k]
      /\ Len(r) \in Nat
  BY StackFacts DEF Staged, Turn
<1>2. ASSUME NEW k \in 1..Len(todo[t]), todo[t][k].op = "load" PROVE \E j \in 1..Len(r) : r[j] = todo[t][k]
  <2>1. k # 1
    BY <1>2
  <2>2. k \in 2..Len(r) /\ k \in 1..Len(r)
    BY <1>1, <2>1
  <2> QED  BY <1>1, <2>2
<1> QED
  BY <1>1, <1>2 DEF Kept, LoadsStay

\* on_hot_reload raises: the restart is skipped, and no load.
LEMMA HotRaiseKept ==
  ASSUME Stacks, NEW t \in Thread, todo[t] # <<>>, todo[t][1].op = "hot", Raise(t, Tail(todo[t]))
  PROVE  Kept(t)
<1> DEFINE s == todo[t]
<1>1. GoodStack(s) /\ ~HasUnlock(s)
  BY NotInside DEF Stacks, Inside
<1>2. PICK c \in 1..Len(s), r \in Seq(Frame) :
         /\ Dropped(t, c, r)
         /\ \A k \in 2..c : s[k].op \in {"unlock", "hot", "restart"} \cup (IF HasUnlock(s) THEN Inside ELSE {})
  BY <1>1, RaiseDrops
<1>3. /\ todo' = [todo EXCEPT ![t] = r] /\ Len(r) = Len(s) - c
      /\ \A k \in 1..Len(r) : r[k] = s[k + c]
      /\ \A k \in 2..c : s[k].op # "load"
      /\ s \in Seq(Frame)
  BY <1>1, <1>2 DEF Dropped, Suffix
<1>4. Len(s) \in Nat
  BY <1>3, StackFacts
<1>5. ASSUME NEW k \in 1..Len(s), s[k].op = "load" PROVE \E j \in 1..Len(r) : r[j] = s[k]
  <2>1. k # 1 /\ k \notin 2..c
    BY <1>3, <1>5
  <2>2. k - c \in 1..Len(r) /\ (k - c) + c = k
    BY <1>2, <1>3, <1>4, <2>1
  <2>3. r[k - c] = s[k]
    BY <1>3, <2>2
  <2> QED  BY <2>2, <2>3
<1> QED
  BY <1>3, <1>5 DEF Kept, LoadsStay

(* The steps inside load_plugin, and the others.                           *)
LoadStep(t) ==
  \/ Load(t) \/ Need(t) \/ MakeDisabled(t) \/ MakeFails(t) \/ Store(t)
  \/ \E registers \in BOOLEAN, ok \in BOOLEAN : Make(t, registers, ok)

ReadStep(t) ==
  \/ ReadObject(t, "startread", "startrun") \/ ReadObject(t, "stopread", "stoprun")
  \/ ReadObject(t, "cleanupread", "cleanuprun")

EndStep(t) ==
  \/ StartRun(t, TRUE) \/ StartRun(t, FALSE) \/ StopRun(t) \/ CleanupEnd(t) \/ Rediscover(t) \/ Disabled(t)
  \/ SetStarted(t) \/ StartWatching(t) \/ Clear(t) \/ Wipe(t)

ListStep(t) ==
  \/ Reload(t) \/ Restart(t) \/ ForLoaded(t, "startall", "start") \/ ForLoaded(t, "stopleft", "stop")
  \/ ForLoaded(t, "cleanupall", "cleanup")

LockedStep(t) ==
  \/ Lookup(t, "start", "startread") \/ Lookup(t, "stop", "stopread") \/ Lookup(t, "cleanup", "cleanupread") \/ Pop(t)

OuterStep(t) == ReadStep(t) \/ EndStep(t) \/ ListStep(t) \/ LockedStep(t) \/ CleanupRun(t) \/ OnHotReload(t)

\* A step of a thread is one or the other.
LEMMA InOrOut ==
  ASSUME NEW t \in Thread, FrameStep(t) \/ PluginRaises(t)
  PROVE  LoadStep(t) \/ OuterStep(t)
BY DEF FrameStep, PluginRaises, LoadStep, OuterStep, ReadStep, EndStep, ListStep, LockedStep

\* Only the thread with the lock, or one that can take it, is inside.
LEMMA LoadStepLock ==
  ASSUME Stacks, NEW t \in Thread, LoadStep(t)
  PROVE  lock \in {None, t}
<1>1. CASE Load(t)
  BY <1>1 DEF Load, Locked
<1>2. CASE todo[t] # <<>> /\ todo[t][1].op \in {"need", "make", "store"}
  <2>1. GoodStack(todo[t]) /\ 1 \in 1..Len(todo[t]) /\ (lock = t <=> HasUnlock(todo[t]))
    BY <1>2, HeadFrame DEF Stacks
  <2>2. InsideAt(todo[t], 1)
    BY <2>1 DEF GoodStack, Shape
  <2>3. HasUnlock(todo[t])
    BY <1>2, <2>2 DEF InsideAt, HasUnlock
  <2> QED  BY <2>1, <2>3
<1> QED
  BY <1>1, <1>2 DEF LoadStep, Need, MakeDisabled, MakeFails, Make, Store, Run

\* The steps inside load_plugin keep the order of the dependencies.
LEMMA LoadStepDeps ==
  ASSUME ManagerCore, NEW t \in Thread, LoadStep(t), NEW r, GoodStack(r), todo'[t] = r, mixed \subseteq mixed', DepsIn(todo[t])
  PROVE  DepsIn(r)'
<1>1. CASE Load(t)
  BY <1>1, LoadDeps
<1>2. CASE Need(t)
  BY <1>2, NeedDeps
<1>3. CASE MakeDisabled(t) \/ MakeFails(t) \/ \E registers \in BOOLEAN, ok \in BOOLEAN : Make(t, registers, ok)
  BY <1>3, MakeDeps
<1>4. CASE Store(t)
  BY <1>4, StoreDeps
<1> QED
  BY <1>1, <1>2, <1>3, <1>4 DEF LoadStep

\* The other steps do not take the lock.
LEMMA OuterLock ==
  ASSUME NEW t \in Thread, OuterStep(t)
  PROVE  todo[t] # <<>> /\ todo[t][1].op \notin Inside \cup {"unlock"} /\ lock' \in {lock, None}
<1>1. CASE ReadStep(t)
  BY <1>1 DEF ReadStep, ReadObject, Run, Inside
<1>2. CASE EndStep(t)
  BY <1>2, SMTT(30) DEF EndStep, StartRun, StopRun, CleanupEnd, Rediscover, Disabled, SetStarted, StartWatching, Clear, Wipe, Run, Inside
<1>3. CASE ListStep(t)
  BY <1>3 DEF ListStep, Reload, Restart, ForLoaded, Run, Inside
<1>4. CASE LockedStep(t)
  BY <1>4 DEF LockedStep, Lookup, Pop, Run, Inside
<1>5. CASE CleanupRun(t)
  BY <1>5 DEF CleanupRun, Run, Inside
<1>6. CASE OnHotReload(t)
  <2>1. todo[t] # <<>> /\ todo[t][1].op = "hot" /\ (lock' = lock \/ Raise(t, Tail(todo[t])))
    BY <1>6 DEF OnHotReload, Run
  <2>2. Raise(t, Tail(todo[t])) => lock' \in {lock, None}
    BY DEF Raise
  <2> QED  BY <2>1, <2>2 DEF Inside
<1> QED
  BY <1>1, <1>2, <1>3, <1>4, <1>5, <1>6 DEF OuterStep

\* A step outside load_plugin, while another thread is inside, drops no load,
\* forgets no plugin unless it clears them all, and enables none.
LEMMA OuterKeeps ==
  ASSUME ManagerCore, NEW t \in Thread, OuterStep(t), lock \notin {None, t}
  PROVE  /\ Kept(t) /\ (plugins' = plugins \/ todo[t][1].op = "clear")
         /\ \A m \in Plugin : saved[m] = "off" => saved'[m] = "off"
<1>1. Stacks /\ SettingsTyped
  BY DEF ManagerCore
<1>2. todo[t] # <<>> /\ todo[t][1].op \notin Inside \cup {"unlock"}
  BY OuterLock
<1>3. todo[t][1].op # "load"
  BY <1>2 DEF Inside
<1>4. CASE ReadStep(t)
  <2>1. PICK op \in {"startread", "stopread", "cleanupread"}, then \in {"startrun", "stoprun", "cleanuprun"} :
           ReadObject(t, op, then) /\ <<op, then>> \in NextStage /\ op \in HasObject
    BY <1>4 DEF ReadStep, NextStage, HasObject
  <2>2. /\ plugins' = plugins
        /\ \/ Pass(t)
           \/ \E f \in Frame, r \in Seq(Frame) : Staged(t, f, r)
    BY <2>1, ReadTurns
  <2>3. saved' = saved
    BY <2>1 DEF ReadObject, config
  <2> QED  BY <1>1, <1>2, <1>3, <2>2, <2>3, PassKept, StagedKept
<1>5. CASE EndStep(t)
  <2>1. Pass(t) /\ (plugins' = plugins \/ todo[t][1].op = "clear")
    BY <1>5 DEF EndStep, StartRun, StopRun, CleanupEnd, Rediscover, Disabled, SetStarted, StartWatching, Clear, Wipe, Run, tables
  <2>2. saved' = saved \/ Disabled(t)
    BY <1>5 DEF EndStep, StartRun, StopRun, CleanupEnd, Rediscover, SetStarted, StartWatching, Clear, Wipe, config
  <2>3. \A m \in Plugin : saved[m] = "off" => saved'[m] = "off"
    <3>1. CASE saved' = saved
      BY <3>1
    <3>2. CASE Disabled(t)
      BY <1>1, <3>2 DEF Disabled, SettingsTyped
    <3> QED  BY <2>2, <3>1, <3>2
  <2> QED  BY <1>1, <1>2, <1>3, <2>1, <2>3, PassKept
<1>6. CASE ListStep(t)
  <2>1. plugins' = plugins /\ saved' = saved
    BY <1>6 DEF ListStep, Reload, Restart, ForLoaded, tables, config
  <2>2. \E new \in Seq(Frame) : todo' = [todo EXCEPT ![t] = new \o Tail(todo[t])]
    <3>1. CASE Reload(t) \/ Restart(t)
      <4>1. todo[t][1].op \in {"reload", "restart"}
        BY <3>1 DEF Reload, Restart, Run
      <4>2. todo[t][1].n \in Plugin
        BY <1>1, <1>2, <4>1, HeadFrame DEF AllOps
      <4> QED  BY <3>1, <4>2, ReloadPushes, SMTT(30) DEF Simple
    <3>2. ASSUME NEW op, NEW each \in {"start", "stop", "cleanup"}, ForLoaded(t, op, each)
          PROVE  \E new \in Seq(Frame) : todo' = [todo EXCEPT ![t] = new \o Tail(todo[t])]
      <4> DEFINE S == {n \in Plugin : plugins[n] # None}
      <4>1. PICK names \in SetToSeqs(S) : todo' = [todo EXCEPT ![t] = Each(each, names) \o Tail(todo[t])]
        BY <3>2 DEF ForLoaded
      <4>2. S \in SUBSET Plugin
        OBVIOUS
      <4> HIDE DEF S
      <4>3. names \in Seq(S)
        BY <4>1, <4>2, ListingOf
      <4>4. names \in Seq(Plugin)
        BY <4>2, <4>3
      <4>5. Each(each, names) \in Seq(Frame)
        BY <3>2, <4>4, EachFacts DEF Op, HasObject, AllOps
      <4> QED  BY <4>1, <4>5
    <3> QED  BY <1>6, <3>1, <3>2 DEF ListStep
  <2> QED  BY <1>1, <1>2, <1>3, <2>1, <2>2, FramesKept
<1>7. CASE LockedStep(t)
  BY <1>7 DEF LockedStep, Lookup, Pop, Locked
<1>8. CASE CleanupRun(t)
  <2>1. plugins' = plugins /\ \E f \in Frame, r \in Seq(Frame) : Staged(t, f, r)
    BY <1>8, CleanupRunCore
  <2>2. saved' = saved
    BY <1>8 DEF CleanupRun, config
  <2> QED  BY <1>1, <1>2, <1>3, <2>1, <2>2, StagedKept
<1>9. CASE OnHotReload(t)
  <2>1. /\ plugins' = plugins /\ saved' = saved /\ todo[t][1].op = "hot"
        /\ Pass(t) \/ Raise(t, Tail(todo[t]))
    BY <1>9 DEF OnHotReload, tables, config, Run
  <2> QED  BY <1>1, <1>2, <1>3, <2>1, PassKept, HotRaiseKept
<1> QED
  BY <1>4, <1>5, <1>6, <1>7, <1>8, <1>9 DEF OuterStep

\* What is provided stays so in such a step.
LEMMA ProvidedStays ==
  ASSUME Stacks, NEW t \in Thread, Kept(t), plugins' = plugins, NEW m \in Plugin,
         saved[m] = "off" => saved'[m] = "off" \/ LoadComing(m)', Provided(m)
  PROVE  Provided(m)'
<1>1. PICK r \in Seq(Frame) : todo' = [todo EXCEPT ![t] = r] /\ LoadsStay(todo[t], r)
  BY DEF Kept
<1>2. todo'[t] = r /\ \A u \in Thread \ {t} : todo'[u] = todo[u]
  BY <1>1 DEF Stacks
<1>3. CASE plugins[m] # None
  BY <1>3 DEF Provided
<1>4. CASE saved[m] = "off"
  BY <1>4 DEF Provided
<1>5. CASE LoadComing(m)
  <2>1. PICK u \in Thread : \E k \in 1..Len(todo[u]) : todo[u][k].op = "load" /\ todo[u][k].n = m
    BY <1>5 DEF LoadComing
  <2>2. PICK k \in 1..Len(todo[u]) : todo[u][k].op = "load" /\ todo[u][k].n = m
    BY <2>1
  <2>3. CASE u # t
    <3>1. todo'[u] = todo[u]
      BY <1>2, <2>3
    <3>2. LoadComing(m)'
      BY <2>2, <3>1 DEF LoadComing
    <3> QED  BY <3>2 DEF Provided
  <2>4. CASE u = t
    <3>1. PICK j \in 1..Len(r) : r[j] = todo[t][k]
      BY <1>1, <2>2, <2>4 DEF LoadsStay
    <3>2. LoadComing(m)'
      BY <1>2, <2>2, <2>4, <3>1 DEF LoadComing
    <3> QED  BY <3>2 DEF Provided
  <2> QED  BY <2>3, <2>4
<1> QED
  BY <1>3, <1>4, <1>5 DEF Provided

\* A thread that does not move, while what is provided stays so.
LEMMA KeepDeps ==
  ASSUME NEW r, GoodStack(r), DepsIn(r), mixed \subseteq mixed',
         \A k \in 1..Len(r) : r[k].op \in {"make", "store"} /\ r[k].n \notin mixed' =>
           \A m \in Plugin : Provided(m) => Provided(m)'
  PROVE  DepsIn(r)'
<1>1. ASSUME NEW k \in 1..Len(r), r[k].op \in {"make", "store"}, r[k].n \notin mixed', NEW m \in Requires[r[k].n]
      PROVE  Provided(m)' \/ Ahead(r, k, m)
  <2>1. r \in Seq(Frame) /\ FrameOK(r[k])
    BY DEF GoodStack
  <2>2. r[k] \in Frame
    BY <2>1, StackFacts
  <2>3. r[k].n \in Plugin
    BY <1>1, <2>1, <2>2 DEF FrameOK, Frame, AllOps
  <2>4. m \in Plugin
    BY <1>1, <2>3, PluginAssumption
  <2>5. Provided(m) \/ Ahead(r, k, m)
    BY <1>1 DEF DepsIn
  <2> QED  BY <1>1, <2>4, <2>5
<1> QED
  BY <1>1 DEF DepsIn, Ahead

\* A call begins: nothing that is loaded or will be goes away.
LEMMA CallKeeps ==
  ASSUME ManagerCore, NewCall
  PROVE  \E t \in Thread :
           /\ Kept(t) /\ ~HasUnlock(todo[t]) /\ plugins' = plugins /\ lock' = lock
           /\ \A m \in Plugin : saved[m] = "off" => saved'[m] = "off" \/ LoadComing(m)'
<1>1. Stacks /\ SettingsTyped
  BY DEF ManagerCore
<1>2. PICK t \in Thread : /\ todo[t] = <<>> /\ plugins' = plugins /\ lock' = lock
                          /\ \E r \in Seq(Frame) : IdleTurn(t, r)
                          /\ saved' = saved \/ \E n \in Plugin : CallEnable(t, n)
  <2>1. CASE Scan
    <3>1. todo[Watcher] = <<>> /\ plugins' = plugins /\ lock' = lock /\ saved' = saved /\ Watcher \in Thread
      BY <2>1 DEF Scan, tables, config, Thread
    <3> QED  BY <2>1, <3>1, ScanIdle
  <2>2. CASE \E t \in User : CallDiscover(t) \/ CallAll(t) \/ \E n \in Plugin : CallOne(t, n) \/ CallEnable(t, n)
    <3>1. PICK t \in User : CallDiscover(t) \/ CallAll(t) \/ \E n \in Plugin : CallOne(t, n) \/ CallEnable(t, n)
      BY <2>2
    <3>2. t \in Thread /\ \E r \in Seq(Frame) : IdleTurn(t, r)
      BY <3>1, CallIdle DEF Thread
    <3>3. \E new : Begin(t, new)
      BY <3>1 DEF CallDiscover, CallAll, CallOne, CallEnable
    <3>4. todo[t] = <<>> /\ plugins' = plugins /\ lock' = lock
      BY <3>3 DEF Begin
    <3>5. saved' = saved \/ \E n \in Plugin : CallEnable(t, n)
      BY <3>1 DEF CallDiscover, CallAll, CallOne
    <3> QED  BY <3>2, <3>4, <3>5
  <2> QED  BY <2>1, <2>2 DEF NewCall
<1>3. Len(todo[t]) = 0
  BY <1>2
<1>4. PICK r \in Seq(Frame) : IdleTurn(t, r)
  BY <1>2
<1>5. todo' = [todo EXCEPT ![t] = r] /\ todo'[t] = r
  BY <1>1, <1>4 DEF IdleTurn, Turn, Stacks
<1>6. Kept(t) /\ ~HasUnlock(todo[t])
  <2>1. \A k \in 1..Len(todo[t]) : FALSE
    BY <1>3
  <2>2. ~HasUnlock(todo[t]) /\ LoadsStay(todo[t], r)
    BY <2>1 DEF LoadsStay, HasUnlock
  <2> QED  BY <1>5, <2>2 DEF Kept
<1>7. ASSUME NEW m \in Plugin, saved[m] = "off" PROVE saved'[m] = "off" \/ LoadComing(m)'
  <2>1. CASE saved' = saved
    BY <1>7, <2>1
  <2>2. ASSUME NEW n \in Plugin, CallEnable(t, n) PROVE saved'[m] = "off" \/ LoadComing(m)'
    <3>1. /\ saved' = IF n \in known THEN [saved EXCEPT ![n] = "on"] ELSE saved
          /\ Begin(t, IF n \in known THEN <<F("load", n)>> ELSE <<>>)
      BY <2>2 DEF CallEnable
    <3>2. CASE n \notin known \/ n # m
      BY <1>1, <1>7, <3>1, <3>2 DEF SettingsTyped
    <3>3. CASE n \in known /\ n = m
      <4>1. Begin(t, <<F("load", n)>>)
        BY <3>1, <3>3
      <4>2. todo' = [todo EXCEPT ![t] = <<F("load", n)>>]
        BY <4>1 DEF Begin
      <4>3. todo'[t] = <<F("load", n)>>
        BY <1>1, <4>2 DEF Stacks
      <4>4. PICK f : f = F("load", n) /\ f.op = "load" /\ f.n = m
        <5>1. F("load", n).op = "load" /\ F("load", n).n = m
          BY <3>3 DEF F
        <5> QED  BY <5>1
      <4>5. 1 \in 1..Len(<<f>>) /\ <<f>>[1] = f
        OBVIOUS
      <4>6. LoadComing(m)'
        BY <4>3, <4>4, <4>5 DEF LoadComing
      <4> QED  BY <4>6
    <3> QED  BY <3>2, <3>3
  <2> QED  BY <1>2, <2>1, <2>2
<1> QED
  BY <1>2, <1>6, <1>7

\* The threads other than t, while t takes a step.
LEMMA OthersDeps ==
  ASSUME Stacks, mixed \subseteq mixed', NEW t \in Thread, NEW v \in Thread \ {t}, DepsIn(todo[v]),
         HasUnlock(todo[v]) =>
           /\ Kept(t)
           /\ \A m \in Plugin : saved[m] = "off" => saved'[m] = "off" \/ LoadComing(m)'
           /\ plugins' = plugins \/ \A k \in 1..Len(todo[v]) : todo[v][k].op \in {"make", "store"} => todo[v][k].n \in mixed',
         NEW r, r = todo[v]
  PROVE  DepsIn(r)'
<1>1. GoodStack(r)
  BY DEF Stacks
<1>2. CASE ~HasUnlock(r)
  BY <1>1, <1>2, NoMakes
<1>3. CASE HasUnlock(r)
  <2>1. ASSUME NEW k \in 1..Len(r), r[k].op \in {"make", "store"}, r[k].n \notin mixed', NEW m \in Plugin, Provided(m)
        PROVE  Provided(m)'
    <3>1. Kept(t) /\ plugins' = plugins /\ (saved[m] = "off" => saved'[m] = "off" \/ LoadComing(m)')
      BY <1>3, <2>1
    <3> QED  BY <2>1, <3>1, ProvidedStays
  <2>2. DepsIn(r)
    OBVIOUS
  <2> QED  BY <1>1, <2>1, <2>2, KeepDeps
<1> QED
  BY <1>2, <1>3

\* cleanup_all_plugins forgets all plugins: it works on every plugin.
LEMMA ClearMixes ==
  ASSUME Stacks, Overlap \subseteq mixed, NEW t \in Thread, todo[t] # <<>>, todo[t][1].op = "clear",
         NEW v \in Thread \ {t}, NEW k \in 1..Len(todo[v]), todo[v][k].op \in {"make", "store"}
  PROVE  todo[v][k].n \in mixed
<1>1. PICK n \in Plugin : n = todo[v][k].n
  BY MakerHoldsLock
<1>2. 1 \in 1..Len(todo[t]) /\ todo[t][1].n = All
  BY HeadFrame DEF FrameOK, AllOps
<1>3. WorksIn(todo[t], n) /\ WorksIn(todo[v], n)
  BY <1>1, <1>2 DEF WorksIn
<1>4. Works(t, n) /\ Works(v, n)
  BY <1>3, WorksAre
<1>5. n \in Overlap
  BY <1>4 DEF Overlap
<1> QED
  BY <1>1, <1>5

\* No step brings a plugin before its dependencies.
LEMMA DepsStep ==
  ASSUME WholeIInv, WholeIInv', DepsComing, Next
  PROVE  DepsComing'
<1>1. ManagerCore /\ Stacks /\ Stacks' /\ Overlap \subseteq mixed
  BY DEF WholeIInv, ManagerIInv, ManagerCore
<1>2. mixed \subseteq mixed'
  BY DEF Next, NewCall, ThreadStep
<1>3. PICK s \in [Thread -> Seq(Frame)] : todo' = s
  BY <1>1 DEF Stacks
<1>4. \A u \in Thread : GoodStack(s[u]) /\ (lock' = u <=> HasUnlock(s[u]))
  <2> SUFFICES ASSUME NEW u \in Thread PROVE GoodStack(s[u]) /\ (lock' = u <=> HasUnlock(s[u]))
    OBVIOUS
  <2>1. GoodStack(todo[u])' /\ (lock' = u <=> HasUnlock(todo[u])')
    BY <1>1 DEF Stacks
  <2>2. HasUnlock(todo[u])' <=> HasUnlock(s[u])
    BY <1>3 DEF HasUnlock
  <2> QED
    BY <1>3, <2>1, <2>2 DEF GoodStack, FrameOK, Shape, UnlockAt, InsideAt, ObjectAt,
       PopAt, CleanAt, ClearAt, CleanupAllAt, WipeAt, MakeAt, ObjectsOf, Pos
<1>5. \A u \in Thread : DepsIn(todo[u]) /\ GoodStack(todo[u]) /\ (lock = u <=> HasUnlock(todo[u])) /\ u # None
  BY <1>1, PluginAssumption DEF DepsComing, Stacks
<1>6. \A u \in Thread : DepsIn(s[u])'
  <2>1. CASE NewCall
    <3>1. PICK t \in Thread :
             /\ Kept(t) /\ ~HasUnlock(todo[t]) /\ plugins' = plugins /\ lock' = lock
             /\ \A m \in Plugin : saved[m] = "off" => saved'[m] = "off" \/ LoadComing(m)'
      BY <1>1, <2>1, CallKeeps
    <3>2. DepsIn(s[t])'
      BY <1>4, <1>5, <3>1, NoMakes
    <3>3. ASSUME NEW u \in Thread \ {t} PROVE DepsIn(s[u])'
      <4>1. s[u] = todo[u]
        BY <1>1, <1>3, <3>1 DEF Kept, Stacks
      <4> QED  BY <1>1, <1>2, <1>5, <3>1, <4>1, OthersDeps
    <3> QED  BY <3>2, <3>3
  <2>2. ASSUME NEW t \in Thread, ThreadStep(t) PROVE \A u \in Thread : DepsIn(s[u])'
    <3>1. FrameStep(t) \/ PluginRaises(t)
      BY <2>2 DEF ThreadStep
    <3>2. \A u \in Thread \ {t} : s[u] = todo[u]
      BY <1>1, <1>3, <3>1, StepKinds, OthersWait
    <3>3. CASE LoadStep(t)
      <4>1. lock \in {None, t}
        BY <1>1, <3>3, LoadStepLock
      <4>2. DepsIn(s[t])'
        BY <1>1, <1>2, <1>3, <1>4, <1>5, <3>3, LoadStepDeps
      <4>3. ASSUME NEW u \in Thread \ {t} PROVE DepsIn(s[u])'
        <5>1. s[u] = todo[u] /\ ~HasUnlock(s[u])
          BY <1>5, <3>2, <4>1
        <5> QED  BY <1>4, <5>1, NoMakes
      <4> QED  BY <4>2, <4>3
    <3>4. CASE OuterStep(t)
      <4>1. todo[t] # <<>> /\ todo[t][1].op \notin Inside \cup {"unlock"} /\ lock' \in {lock, None}
        BY <3>4, OuterLock
      <4>2. ~HasUnlock(todo[t])
        BY <1>5, <4>1, NotInside
      <4>3. DepsIn(s[t])'
        <5>1. ~HasUnlock(s[t])
          BY <1>4, <1>5, <4>1, <4>2
        <5> QED  BY <1>4, <5>1, NoMakes
      <4>4. ASSUME NEW u \in Thread \ {t} PROVE DepsIn(s[u])'
        <5>1. s[u] = todo[u]
          BY <3>2
        <5>2. ASSUME HasUnlock(todo[u])
              PROVE  /\ Kept(t)
                     /\ \A m \in Plugin : saved[m] = "off" => saved'[m] = "off" \/ LoadComing(m)'
                     /\ \/ plugins' = plugins
                        \/ \A k \in 1..Len(todo[u]) : todo[u][k].op \in {"make", "store"} => todo[u][k].n \in mixed'
          <6>1. lock \notin {None, t}
            BY <1>5, <4>4, <5>2
          <6>2. /\ Kept(t) /\ (plugins' = plugins \/ todo[t][1].op = "clear")
                /\ \A m \in Plugin : saved[m] = "off" => saved'[m] = "off"
            BY <1>1, <3>4, <6>1, OuterKeeps
          <6>3. todo[t][1].op = "clear" =>
                  \A k \in 1..Len(todo[u]) : todo[u][k].op \in {"make", "store"} => todo[u][k].n \in mixed'
            BY <1>1, <1>2, <4>1, <4>4, ClearMixes
          <6> QED  BY <6>2, <6>3
        <5> QED  BY <1>1, <1>2, <1>5, <4>4, <5>1, <5>2, OthersDeps
      <4> QED  BY <4>3, <4>4
    <3> QED  BY <3>1, <3>3, <3>4, InOrOut
  <2> QED  BY <2>1, <2>2 DEF Next
<1> QED
  BY <1>3, <1>6 DEF DepsComing, DepsIn, Ahead, Provided, LoadComing

\* Nothing is being made.
LEMMA InitPlugin ==
  ASSUME Init
  PROVE  PluginIInv
<1>1. WholeIInv
  BY InitWhole
<1>2. todo = [t \in Thread |-> <<>>]
  BY DEF Init
<1>3. \A t \in Thread : Len(todo[t]) = 0
  BY <1>2
<1>4. DepsComing
  BY <1>3 DEF DepsComing, DepsIn
<1> QED
  BY <1>1, <1>4 DEF PluginIInv

\* One step of any thread.
LEMMA NextPlugin ==
  ASSUME PluginIInv, [Next]_vars
  PROVE  PluginIInv'
<1>1. WholeIInv /\ DepsComing
  BY DEF PluginIInv
<1>2. WholeIInv'
  BY <1>1, NextWhole
<1>3. CASE Next
  BY <1>1, <1>2, <1>3, DepsStep DEF PluginIInv
<1>4. CASE UNCHANGED vars
  <2>1. plugins' = plugins /\ saved' = saved /\ todo' = todo /\ mixed' = mixed
    BY <1>4 DEF vars, tables, config
  <2>2. DepsComing'
    BY <1>1, <2>1 DEF DepsComing, DepsIn, Ahead, Provided, LoadComing
  <2> QED  BY <1>2, <2>2 DEF PluginIInv
<1> QED
  BY <1>3, <1>4

\* While a plugin is being made, each of its dependencies is there, disabled,
\* about to be loaded by a thread, or before it in the same load_plugin.
THEOREM PluginInvariant ==
  Spec => []PluginIInv
<1>1. Init => PluginIInv
  BY InitPlugin
<1>2. PluginIInv /\ [Next]_vars => PluginIInv'
  BY NextPlugin
<1> QED
  BY <1>1, <1>2, PTL DEF Spec

\* A plugin enters _plugins in the last step of load_plugin.
LEMMA OnlyStoreAdds ==
  ASSUME ManagerCore, Next, NEW n \in Plugin, plugins[n] = None, plugins'[n] # None
  PROVE  \E t \in Thread : Store(t) /\ HeadN(t) = n
<1>1. CASE NewCall
  BY <1>1, CallKeeps
<1>2. ASSUME NEW t \in Thread, ThreadStep(t) PROVE \E u \in Thread : Store(u) /\ HeadN(u) = n
  <2>1. FrameStep(t) \/ PluginRaises(t)
    BY <1>2 DEF ThreadStep
  <2>2. IdleStep(t) \/ WorkStep(t)
    BY <2>1, StepKinds
  <2>3. plugins \in [Plugin -> Inst \cup {None}]
    BY DEF ManagerCore, DataTyped
  <2>4. CASE IdleStep(t)
    BY <2>4 DEF IdleStep, IdleTurn
  <2>5. CASE WorkStep(t)
    <3>1. CASE Store(t)
      BY <2>3, <3>1 DEF Store, HeadN
    <3>2. CASE Clear(t)
      BY <3>2 DEF Clear
    <3>3. CASE Pop(t)
      BY <2>3, <3>3 DEF Pop
    <3>4. CASE plugins' = plugins
      BY <3>4, SMTT(30)
    <3>5. Store(t) \/ Clear(t) \/ Pop(t) \/ plugins' = plugins
      BY <2>5 DEF WorkStep, CleanupRun, CleanupEnd, Wipe, StartRun, StopRun, ForLoaded, Make, Lookup, ReadObject, OnHotReload, tables
    <3> QED  BY <3>1, <3>2, <3>3, <3>4, <3>5
  <2> QED  BY <2>2, <2>4, <2>5
<1> QED
  BY <1>1, <1>2 DEF Next

\* When a plugin enters _plugins each required dependency is there, disabled,
\* or about to be loaded by another thread (load_plugin, enable_plugin), if
\* calls about the plugin did not overlap.
THEOREM ManagerLoadsDependencies ==
  Spec => DependenciesLoaded
<1>1. ASSUME PluginIInv, [Next]_vars, NEW n \in Plugin, plugins[n] = None, plugins'[n] # None, n \notin mixed,
             NEW m \in Requires[n]
      PROVE  plugins[m] # None \/ saved[m] = "off" \/ \E f \in Frames : f.n = m /\ f.op = "load"
  <2>1. ManagerCore /\ Stacks /\ DepsComing
    BY <1>1 DEF PluginIInv, WholeIInv, ManagerIInv, ManagerCore
  <2>2. Next
    BY <1>1 DEF vars, tables
  <2>3. PICK t \in Thread : Store(t) /\ HeadN(t) = n
    BY <1>1, <2>1, <2>2, OnlyStoreAdds
  <2>4. todo[t] # <<>> /\ todo[t][1].op = "store" /\ todo[t][1].n = n
    BY <2>3 DEF Store, Run, HeadN
  <2>5. 1 \in 1..Len(todo[t]) /\ DepsIn(todo[t])
    BY <2>1, <2>4, HeadFrame DEF DepsComing
  <2>6. Provided(m) \/ Ahead(todo[t], 1, m)
    BY <1>1, <2>4, <2>5 DEF DepsIn
  <2>7. ~Ahead(todo[t], 1, m)
    BY DEF Ahead
  <2>8. ASSUME LoadComing(m) PROVE \E f \in Frames : f.n = m /\ f.op = "load"
    <3>1. PICK u \in Thread : \E k \in 1..Len(todo[u]) : todo[u][k].op = "load" /\ todo[u][k].n = m
      BY <2>8 DEF LoadComing
    <3>2. PICK k \in 1..Len(todo[u]) : todo[u][k].op = "load" /\ todo[u][k].n = m
      BY <3>1
    <3>3. todo[u][k] \in ToSet(todo[u])
      BY <2>1, FramesAre
    <3>4. todo[u][k] \in Frames
      BY <3>3 DEF Frames
    <3> QED  BY <3>2, <3>4
  <2> QED  BY <2>6, <2>7, <2>8 DEF Provided
<1>2. PluginIInv /\ [Next]_vars =>
        [\A n \in Plugin : plugins[n] = None /\ plugins'[n] # None /\ n \notin mixed =>
           \A m \in Requires[n] : \/ plugins[m] # None
                                   \/ saved[m] = "off"
                                   \/ \E f \in Frames : f.n = m /\ f.op = "load"]_vars
  BY <1>1
<1> QED
  BY <1>2, PluginInvariant, PTL DEF Spec, DependenciesLoaded

=============================================================================
