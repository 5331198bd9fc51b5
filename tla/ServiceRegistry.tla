--------------------------- MODULE ServiceRegistry ---------------------------
(***************************************************************************)
(* ServiceRegistry of plugins/api.py: the services, factories and aliases  *)
(* plugins register by name.  Every call runs under the registry's lock    *)
(* and is one step.  A service or factory is known by the plugin that      *)
(* registered it; description, version and tags are left out.              *)
(***************************************************************************)
EXTENDS FiniteSets

CONSTANTS Name,      \* names of services, factories and aliases
          Owner,     \* names of plugins
          NoOne      \* nothing is registered

ASSUME RegistryAssumption == NoOne \notin Name \cup Owner

VARIABLES
  services,   \* _services: who registered the service of a name
  factories,  \* _factories
  aliases,    \* _aliases
  meta,       \* plugin_name in _metadata
  hung,       \* a get() follows aliases for ever, holding the lock
  shared,     \* history: names in use that have been both a service and a factory
  shadowed    \* history: names registered while they were an alias

registryVars == <<services, factories, aliases, meta, hung, shared, shadowed>>

Unused == [n \in Name |-> NoOne]

RegistryInit ==
  /\ services = Unused /\ factories = Unused /\ aliases = Unused /\ meta = Unused
  /\ hung = FALSE /\ shared = {} /\ shadowed = {}

Taken(n) == services[n] # NoOne \/ factories[n] # NoOne

\* History: n is registered in one of the tables, and may be in the other.
Registers(n, inOther) ==
  /\ shared' = IF inOther THEN shared \cup {n} ELSE shared
  /\ shadowed' = IF aliases[n] # NoOne THEN shadowed \cup {n} ELSE shadowed

\* Faulty variants: the name of the service in place of the plugin's; the
\* metadata of a name is written once.
MetadataOfName(n, p) == meta' = [meta EXCEPT ![n] = n]

MetadataFirst(n, p) == meta' = IF meta[n] = NoOne THEN [meta EXCEPT ![n] = p] ELSE meta

Metadata(n, p) == meta' = [meta EXCEPT ![n] = p]

\* register: only another service of that name stands in the way.
RegisterService(n, p, overwrite) ==
  /\ ~hung
  /\ services[n] = NoOne \/ overwrite
  /\ services' = [services EXCEPT ![n] = p]
  /\ Metadata(n, p)
  /\ Registers(n, factories[n] # NoOne)
  /\ UNCHANGED <<factories, aliases, hung>>

\* register_factory: only another factory of that name does.
RegisterFactory(n, p, overwrite) ==
  /\ ~hung
  /\ factories[n] = NoOne \/ overwrite
  /\ factories' = [factories EXCEPT ![n] = p]
  /\ Metadata(n, p)
  /\ Registers(n, services[n] # NoOne)
  /\ UNCHANGED <<services, aliases, hung>>

\* Faulty variant: the target may be an alias.
RegisterAliasOfAlias(a, n) ==
  /\ ~hung
  /\ aliases[a] = NoOne /\ ~Taken(a)
  /\ Taken(n) \/ aliases[n] # NoOne
  /\ aliases' = [aliases EXCEPT ![a] = n]
  /\ UNCHANGED <<services, factories, meta, hung, shared, shadowed>>

\* register_alias.
RegisterAlias(a, n) ==
  /\ ~hung
  /\ aliases[a] = NoOne /\ ~Taken(a)
  /\ Taken(n)
  /\ aliases' = [aliases EXCEPT ![a] = n]
  /\ UNCHANGED <<services, factories, meta, hung, shared, shadowed>>

(***************************************************************************)
(* get follows the aliases before it looks at services and factories.  It  *)
(* never ends when it starts in a set of names whose aliases stay in it.   *)
(***************************************************************************)
Closed(S) == \A n \in S : aliases[n] \in S

Endless(n) == \E S \in SUBSET Name : n \in S /\ Closed(S)

Get(n) ==
  /\ ~hung
  /\ hung' = Endless(n)
  /\ UNCHANGED <<services, factories, aliases, meta, shared, shadowed>>

\* unregister: the service, else the factory, else the alias of that name.
Unregister(n) ==
  /\ ~hung
  /\ \/ /\ services[n] # NoOne
        /\ services' = [services EXCEPT ![n] = NoOne]
        /\ meta' = [meta EXCEPT ![n] = NoOne]
        /\ shared' = IF factories[n] = NoOne THEN shared \ {n} ELSE shared
        /\ UNCHANGED <<factories, aliases>>
     \/ /\ services[n] = NoOne /\ factories[n] # NoOne
        /\ factories' = [factories EXCEPT ![n] = NoOne]
        /\ meta' = [meta EXCEPT ![n] = NoOne]
        /\ shared' = shared \ {n}
        /\ UNCHANGED <<services, aliases>>
     \/ /\ ~Taken(n) /\ aliases[n] # NoOne
        /\ aliases' = [aliases EXCEPT ![n] = NoOne]
        /\ UNCHANGED <<services, factories, meta, shared>>
  /\ UNCHANGED <<hung, shadowed>>

\* unregister_plugin: what the metadata gives as the plugin's.
Without(table, S) == [n \in Name |-> IF n \in S THEN NoOne ELSE table[n]]

\* Faulty variant: whoever registered it.
OwnOfAnyone(p) == {n \in Name : meta[n] # NoOne}

Own(p) == {n \in Name : meta[n] = p}

UnregisterPlugin(p) ==
  /\ ~hung
  /\ services' = Without(services, Own(p))
  /\ factories' = Without(factories, Own(p))
  /\ meta' = Without(meta, Own(p))
  /\ shared' = shared \ Own(p)
  /\ UNCHANGED <<aliases, hung, shadowed>>

\* clear.
ClearRegistry ==
  /\ ~hung
  /\ services' = Unused /\ factories' = Unused /\ aliases' = Unused /\ meta' = Unused
  /\ shared' = {} /\ shadowed' = {}
  /\ UNCHANGED hung

RegistryNext ==
  \/ \E n \in Name, p \in Owner, overwrite \in BOOLEAN :
       RegisterService(n, p, overwrite) \/ RegisterFactory(n, p, overwrite)
  \/ \E a, n \in Name : RegisterAlias(a, n)
  \/ \E n \in Name : Get(n) \/ Unregister(n)
  \/ \E p \in Owner : UnregisterPlugin(p)
  \/ ClearRegistry

RegistrySpec == RegistryInit /\ [][RegistryNext]_registryVars

-----------------------------------------------------------------------------

\* Type invariant.
RegistryTypeOK ==
  /\ services \in [Name -> Owner \cup {NoOne}]
  /\ factories \in [Name -> Owner \cup {NoOne}]
  /\ aliases \in [Name -> Name \cup {NoOne}]
  /\ meta \in [Name -> Owner \cup {NoOne}]
  /\ hung \in BOOLEAN
  /\ shared \subseteq Name /\ shadowed \subseteq Name

(***************************************************************************)
(* get() always ends, and so every call of the registry, as long as no     *)
(* service or factory was registered under a name that is an alias, which  *)
(* register does not check: whatever order aliases are made, left without  *)
(* a target by an unregister, and made again in.                           *)
(***************************************************************************)
GetEnds == shadowed = {} => ~hung /\ \A n \in Name : ~Endless(n)

(***************************************************************************)
(* The metadata names the owner of every service and factory, so that      *)
(* unregister_plugin finds it when the plugin is unloaded; only a name     *)
(* that is both a service and a factory, whose metadata the two share, may *)
(* lose it.                                                                *)
(***************************************************************************)
OwnerKnown ==
  \A n \in Name \ shared :
    /\ services[n] # NoOne => meta[n] = services[n] /\ factories[n] = NoOne
    /\ factories[n] # NoOne => meta[n] = factories[n]
    /\ meta[n] # NoOne => Taken(n)

(***************************************************************************)
(* Unloading a plugin (PluginBase._unregister_all) leaves nothing it has   *)
(* registered and takes nothing from another plugin, apart from names that *)
(* are both a service and a factory.                                       *)
(***************************************************************************)
UnloadExact ==
  [][\A p \in Owner : UnregisterPlugin(p) =>
       \A n \in Name \ shared :
         /\ services'[n] = (IF services[n] = p THEN NoOne ELSE services[n])
         /\ factories'[n] = (IF factories[n] = p THEN NoOne ELSE factories[n])]_registryVars

(***************************************************************************)
(* The tables of the registry stay consistent with each other in every     *)
(* order of registering, aliasing and unloading: owners are known and      *)
(* every chain of aliases ends, so that get() returns.                     *)
(***************************************************************************)
RegistryInv == RegistryTypeOK /\ OwnerKnown /\ GetEnds

=============================================================================
