--------------------------- MODULE PluginManager ---------------------------
(***************************************************************************)
(* PluginManager of plugins/plugin_manager.py with its discovery cache,    *)
(* dependency resolver, saved configurations and hot-reload watcher, and   *)
(* the part of PluginBase and ServiceRegistry (plugins/api.py) they drive. *)
(* User threads call the manager; the watcher thread reloads plugins it    *)
(* believes changed.                                                       *)
(*                                                                         *)
(* A call is a list of frames still to run, todo[t]; an action runs the    *)
(* first frame of one thread.  load_plugin holds _load_lock from its first *)
(* frame to its last, start, stop and cleanup only while they look the     *)
(* descriptor up.  Every plugin lives in a directory of its own, runs in   *)
(* process, and registers one service in on_initialize.  A descriptor is   *)
(* named by the plugin object made for it; its state field is only         *)
(* reported and is left out.                                               *)
(***************************************************************************)
EXTENDS Naturals, Sequences, SequencesExt, FiniteSets, FiniteSetsExt, Functions

CONSTANTS Plugin,        \* plugin names
          Requires,      \* Requires[n]: required dependencies in n's manifest
          LoadOrder,     \* topological_sort of all plugins
          KeepsServices, \* plugins whose on_hot_reload does not register again
          User,          \* threads that call the manager
          Watcher,       \* the hot-reload thread
          MaxInst,       \* bound: objects of one plugin in use at once
          Config,        \* configuration files there may be at the start
          MaxCalls,      \* bound: calls by users
          MaxFaults,     \* bound: callbacks of plugins that raise
          MaxScans       \* bound: rounds of the watcher

None == <<>>
All == "all"   \* in place of a name: no single plugin
Thread == User \cup {Watcher}
Inst == Plugin \X (1..MaxInst)   \* the k-th object of plugin n

Phase == {"gone", "ready", "running", "stopped", "failed"}
Setting == {"none", "on", "off"}
ASSUME PluginAssumption ==
  /\ Watcher \notin User /\ None \notin Thread /\ All \notin Plugin
  /\ IsFiniteSet(Plugin) /\ KeepsServices \subseteq Plugin
  /\ LoadOrder \in SetToSeqs(Plugin)
  /\ Requires \in [Plugin -> SUBSET Plugin]
  /\ \A i, j \in DOMAIN LoadOrder : LoadOrder[j] \in Requires[LoadOrder[i]] => j < i
  /\ MaxInst \in Nat /\ MaxCalls \in Nat /\ MaxFaults \in Nat /\ MaxScans \in Nat
  /\ Config # {} /\ Config \subseteq [Plugin -> Setting]

Op == {"load", "need", "make", "store", "unlock",
       "start", "startread", "startrun", "stop", "stopread", "stoprun",
       "cleanup", "cleanupread", "cleanuprun", "cleanupend", "pop",
       "reload", "rediscover", "hot", "restart", "disabled",
       "startall", "stopleft", "cleanupall", "startedon", "startedoff", "watch", "clear", "wipe"}

(* A frame: what to run, for which plugin, with the descriptor or object   *)
(* it has read, and whether load_plugin was given a configuration.         *)
Frame == [op : Op, n : Plugin \cup {All}, i : Inst \cup {None}, with : BOOLEAN]

F(op, n) == [op |-> op, n |-> n, i |-> None, with |-> FALSE]

VARIABLES
  registered,  \* names known to dependency_resolver
  plugins,     \* _plugins
  phase,       \* how far each plugin object has come
  detached,    \* objects whose descriptor has instance = None again
  service,     \* service_registry: the object that registered n's service
  saved,       \* "enabled" in the configuration file of each plugin
  known,       \* plugins with a configuration in config_manager._configs
  watched,     \* hot_reload._watched: what is stored for each plugin
  watching,    \* hot_reload._running
  started,     \* _started
  lock,        \* owner of _load_lock
  todo,        \* frames each thread has still to run
  callCount,   \* calls made by users
  faults,      \* callbacks that raised
  scans,       \* rounds of the watcher
  mixed        \* history: plugins two threads worked on at the same time

tables == <<registered, plugins>>
objects == <<phase, detached, service>>
config == <<saved, known>>
hot == <<watched, watching>>
vars == <<tables, objects, config, hot, started, lock, todo, callCount, faults, scans, mixed>>

Init ==
  /\ registered = {} /\ plugins = [n \in Plugin |-> None]
  /\ phase = [i \in Inst |-> "gone"] /\ detached = {}
  /\ service = [n \in Plugin |-> None]
  /\ saved \in Config /\ known = {}
  /\ watched = [n \in Plugin |-> "no"] /\ watching = FALSE
  /\ started = FALSE /\ lock = None
  /\ todo = [t \in Thread |-> <<>>]
  /\ callCount = 0 /\ faults = 0 /\ scans = 0 /\ mixed = {}

-----------------------------------------------------------------------------
(* Objects nothing refers to are collected: their number is used again.    *)
Frames == UNION {ToSet(todo[t]) : t \in Thread}

Live(i) == phase[i] \in {"ready", "running", "stopped"}

Free(n) == {k \in 1..MaxInst : ~Live(<<n, k>>) /\ <<n, k>> \notin {service[n], plugins[n]} \cup {f.i : f \in Frames}}

(* The frames of a thread in a call, with those of a plugin.               *)
Works(t, n) == \E f \in ToSet(todo[t]) : f.n \in {n, All} /\ f.op # "need"

Busy(n) == \E t \in Thread : Works(t, n)

Overlap == {n \in Plugin : \E t, u \in Thread : t # u /\ Works(t, n) /\ Works(u, n)}

Locked(t) == lock \in {None, t}

(* A frame ends: the thread goes on with the others.  The frame "unlock"   *)
(* ends the outermost load_plugin of the thread.                           *)
Continue(t, rest) ==
  LET leave == rest # <<>> /\ rest[1].op = "unlock" IN
  /\ todo' = [todo EXCEPT ![t] = IF leave THEN Tail(rest) ELSE rest]
  /\ lock' = IF leave THEN None ELSE lock

(* Faulty variant: the lock stays held.                                    *)
RaiseKeepsLock(t, rest) ==
  LET out == SelectInSeq(rest, LAMBDA f : f.op = "unlock") IN
  /\ todo' = [todo EXCEPT ![t] = SubSeq(rest, out + 1, Len(rest))]
  /\ UNCHANGED lock

(* An exception leaves the load_plugin calls the thread is in; reload_     *)
(* plugin catches it and skips its remaining steps, load_all_plugins goes  *)
(* on with the next plugin.                                                *)
Raise(t, rest) ==
  LET out == SelectInSeq(rest, LAMBDA f : f.op = "unlock")
      outside == SubSeq(rest, out + 1, Len(rest))
      next == SelectInSeq(outside, LAMBDA f : f.op \notin {"hot", "restart"})
  IN /\ todo' = [todo EXCEPT ![t] = IF next = 0 THEN <<>> ELSE SubSeq(outside, next, Len(outside))]
     /\ lock' = IF out = 0 THEN lock ELSE None

Run(t, op) == todo[t] # <<>> /\ todo[t][1].op = op

(* get_plugin: the object in the descriptor in _plugins.                   *)
GetPlugin(n) == IF plugins[n] \in detached THEN None ELSE plugins[n]

-----------------------------------------------------------------------------
(* The dependencies of n the resolver finds: the least set with those in   *)
(* its manifest and in theirs.                                             *)
Reach(n) ==
  {m \in Plugin : \A S \in SUBSET Plugin :
     Requires[n] \subseteq S /\ (\A k \in S : Requires[k] \subseteq S) => m \in S}

(* The plugins of S, dependencies first.                                   *)
InLoadOrder(S) ==
  {s \in SetToSeqs(S) : \A i, j \in DOMAIN LoadOrder, k, l \in DOMAIN s :
     LoadOrder[i] = s[k] /\ LoadOrder[j] = s[l] /\ i < j => k < l}

Resolves(n) == n \in registered /\ \A m \in registered : Requires[m] \subseteq registered

(* One frame for each of the names.                                        *)
Each(op, names) == [k \in DOMAIN names |-> F(op, names[k])]

(* load_plugin up to the loading of dependencies, which are left alone     *)
(* when they are in _plugins at their turn (Need).                         *)
Load(t) ==
  LET n == todo[t][1].n
      rest == Tail(todo[t])
  IN /\ Run(t, "load") /\ Locked(t)
     /\ \/ GetPlugin(n) # None /\ Continue(t, rest)
        \/ GetPlugin(n) = None /\ ~Resolves(n) /\ Raise(t, rest)
        \/ /\ GetPlugin(n) = None /\ Resolves(n)
           /\ lock' = t
           /\ \E deps \in InLoadOrder(Reach(n)) :
                todo' = [todo EXCEPT ![t] = Each("need", deps) \o <<[@[1] EXCEPT !.op = "make"]>>
                                           \o (IF lock = t THEN <<>> ELSE <<F("unlock", n)>>) \o rest]
     /\ UNCHANGED <<tables, objects, config, hot, started>>

(* Faulty variant: dependencies are left to the caller.                    *)
NeedSkipped(t) ==
  /\ Run(t, "need")
  /\ todo' = [todo EXCEPT ![t] = Tail(@)]
  /\ UNCHANGED <<tables, objects, config, hot, started, lock>>

Need(t) ==
  LET m == todo[t][1].n IN
  /\ Run(t, "need")
  /\ todo' = [todo EXCEPT ![t] = (IF plugins[m] = None THEN <<F("load", m)>> ELSE <<>>) \o Tail(@)]
  /\ UNCHANGED <<tables, objects, config, hot, started, lock>>

(* The configuration: a given one wins over the saved one, and a saved one *)
(* over the manifest, which enables the plugin.  A disabled plugin is      *)
(* skipped without an error.                                               *)
(* load_config remembers what it read from the file.                        *)
ReadConfig(n) == known' = IF saved[n] = "none" THEN known ELSE known \cup {n}

Enabled(f) == f.with \/ saved[f.n] # "off"

MakeDisabled(t) ==
  LET f == todo[t][1] IN
  /\ Run(t, "make") /\ ~Enabled(f)
  /\ ReadConfig(f.n)
  /\ Continue(t, Tail(todo[t]))
  /\ UNCHANGED <<tables, objects, saved, hot, started>>

(* _load_inprocess: the import fails; or the object is made, entered in    *)
(* the descriptor and initialised.  on_initialize registers the service,   *)
(* which the registry refuses while one of that name is there, and may     *)
(* fail before or after it.                                                *)
MakeFails(t) ==
  LET f == todo[t][1] IN
  /\ Run(t, "make") /\ Enabled(f)
  /\ ReadConfig(f.n)
  /\ Raise(t, Tail(todo[t]))
  /\ UNCHANGED <<tables, objects, saved, hot, started>>

Make(t, registers, ok) ==
  LET f == todo[t][1]
      i == <<f.n, Min(Free(f.n))>>
      accepted == registers /\ service[f.n] = None
  IN /\ Run(t, "make") /\ Enabled(f) /\ Free(f.n) # {}
     /\ ReadConfig(f.n)
     /\ service' = IF accepted THEN [service EXCEPT ![f.n] = i] ELSE service
     /\ detached' = detached \ {i}
     /\ IF accepted /\ ok
          THEN /\ phase' = [phase EXCEPT ![i] = "ready"]
               /\ todo' = [todo EXCEPT ![t] = <<[f EXCEPT !.op = "store", !.i = i]>> \o Tail(@)]
               /\ UNCHANGED lock
          ELSE /\ phase' = IF accepted THEN [phase EXCEPT ![i] = "failed"] ELSE phase
               /\ Raise(t, Tail(todo[t]))
     /\ UNCHANGED <<tables, saved, hot, started>>

Store(t) ==
  LET f == todo[t][1] IN
  /\ Run(t, "store")
  /\ plugins' = [plugins EXCEPT ![f.n] = f.i]
  /\ watched' = [watched EXCEPT ![f.n] = "path"]
  /\ Continue(t, Tail(todo[t]))
  /\ UNCHANGED <<registered, objects, config, watching, started>>

-----------------------------------------------------------------------------
(* Faulty variant: a missing descriptor is not noticed.                    *)
LookupUnchecked(t, op, then) ==
  LET f == todo[t][1] IN
  /\ Run(t, op) /\ Locked(t)
  /\ todo' = [todo EXCEPT ![t] = <<[f EXCEPT !.op = then, !.i = plugins[f.n]]>> \o Tail(@)]
  /\ UNCHANGED <<tables, objects, config, hot, started, lock>>

(* start_plugin, stop_plugin and cleanup_plugin look the descriptor up     *)
(* under the lock, read its object, and work on that object outside it.    *)
Lookup(t, op, then) ==
  LET f == todo[t][1] IN
  /\ Run(t, op) /\ Locked(t)
  /\ todo' = [todo EXCEPT ![t] = IF plugins[f.n] = None THEN Tail(@)
                                 ELSE <<[f EXCEPT !.op = then, !.i = plugins[f.n]]>> \o Tail(@)]
  /\ UNCHANGED <<tables, objects, config, hot, started, lock>>

ReadObject(t, op, then) ==
  LET f == todo[t][1] IN
  /\ Run(t, op)
  /\ todo' = [todo EXCEPT ![t] = IF f.i \in detached THEN Tail(@)
                                 ELSE <<[f EXCEPT !.op = then]>> \o Tail(@)]
  /\ UNCHANGED <<tables, objects, config, hot, started, lock>>

Pass(t) == todo' = [todo EXCEPT ![t] = Tail(@)]

StartRun(t, ok) ==
  LET f == todo[t][1] IN
  /\ Run(t, "startrun")
  /\ phase' = IF ok THEN [phase EXCEPT ![f.i] = "running"] ELSE phase
  /\ Pass(t)
  /\ UNCHANGED <<tables, detached, service, config, hot, started, lock>>

(* Errors of on_stop and on_cleanup are logged and ignored.                *)
StopRun(t) ==
  LET f == todo[t][1] IN
  /\ Run(t, "stoprun")
  /\ phase' = IF Live(f.i) THEN [phase EXCEPT ![f.i] = "stopped"] ELSE phase
  /\ Pass(t)
  /\ UNCHANGED <<tables, detached, service, config, hot, started, lock>>

(* _cleanup of the object, which unregisters by plugin name; then the      *)
(* manager unregisters by name once more and clears the descriptor.        *)
CleanupRun(t) ==
  LET f == todo[t][1] IN
  /\ Run(t, "cleanuprun")
  /\ phase' = [phase EXCEPT ![f.i] = "gone"]
  /\ service' = [service EXCEPT ![f.n] = None]
  /\ todo' = [todo EXCEPT ![t] = <<[f EXCEPT !.op = "cleanupend"]>> \o Tail(@)]
  /\ UNCHANGED <<tables, detached, config, hot, started, lock>>

CleanupEnd(t) ==
  LET f == todo[t][1] IN
  /\ Run(t, "cleanupend")
  /\ service' = [service EXCEPT ![f.n] = None]
  /\ watched' = [watched EXCEPT ![f.n] = "no"]
  /\ detached' = detached \cup {f.i}
  /\ Pass(t)
  /\ UNCHANGED <<tables, phase, config, watching, started, lock>>

(* Faulty variant: without the lock.                                       *)
PopUnlocked(t) ==
  LET n == todo[t][1].n IN
  /\ Run(t, "pop")
  /\ plugins' = [plugins EXCEPT ![n] = None]
  /\ registered' = registered \ {n}
  /\ todo' = [todo EXCEPT ![t] = Tail(@)]
  /\ UNCHANGED <<objects, config, hot, started, lock>>

(* The end of unload_plugin.                                               *)
Pop(t) ==
  LET n == todo[t][1].n IN
  /\ Run(t, "pop") /\ Locked(t)
  /\ plugins' = [plugins EXCEPT ![n] = None]
  /\ registered' = registered \ {n}
  /\ Pass(t)
  /\ UNCHANGED <<objects, config, hot, started, lock>>

(* Faulty variant: the plugin is stopped and forgotten, not cleaned up.    *)
UnloadNoCleanup(n) == <<F("stop", n), F("pop", n)>>

(* unload_plugin.                                                          *)
UnloadFrames(n) == <<F("stop", n), F("cleanup", n), F("pop", n)>>

-----------------------------------------------------------------------------
(* reload_plugin: its first check without the lock; after the unload the   *)
(* cached descriptor is dropped and the plugin registered again; after the *)
(* load on_hot_reload, by default on_initialize once more, and a start if  *)
(* the manager is started.                                                 *)
Reload(t) ==
  LET n == todo[t][1].n IN
  /\ Run(t, "reload")
  /\ todo' = [todo EXCEPT ![t] =
       (IF plugins[n] = None THEN <<>>
        ELSE UnloadFrames(n) \o <<F("rediscover", n), [F("load", n) EXCEPT !.with = TRUE],
                                  F("hot", n), F("restart", n)>>) \o Tail(@)]
  /\ UNCHANGED <<tables, objects, config, hot, started, lock>>

Rediscover(t) ==
  LET n == todo[t][1].n IN
  /\ Run(t, "rediscover")
  /\ registered' = registered \cup {n}
  /\ Pass(t)
  /\ UNCHANGED <<plugins, objects, config, hot, started, lock>>

OnHotReload(t) ==
  LET n == todo[t][1].n
      i == GetPlugin(n)
  IN /\ Run(t, "hot")
     /\ IF i = None \/ n \in KeepsServices THEN Pass(t) /\ UNCHANGED <<service, lock>>
        ELSE IF service[n] # None THEN Raise(t, Tail(todo[t])) /\ UNCHANGED service
        ELSE /\ service' = [service EXCEPT ![n] = i]
             /\ Pass(t)
             /\ UNCHANGED lock
     /\ UNCHANGED <<tables, phase, detached, config, hot, started>>

Restart(t) ==
  LET n == todo[t][1].n IN
  /\ Run(t, "restart")
  /\ todo' = [todo EXCEPT ![t] = (IF started THEN <<F("start", n)>> ELSE <<>>) \o Tail(@)]
  /\ UNCHANGED <<tables, objects, config, hot, started, lock>>

(* update_config of disable_plugin: only a configuration in memory is      *)
(* changed and saved.                                                      *)
Disabled(t) ==
  LET n == todo[t][1].n IN
  /\ Run(t, "disabled")
  /\ saved' = IF n \in known THEN [saved EXCEPT ![n] = "off"] ELSE saved
  /\ Pass(t)
  /\ UNCHANGED <<tables, objects, known, hot, started, lock>>

(* start_all, the second half of stop_all, and cleanup_all go through the  *)
(* names in _plugins, in whatever order they were stored.                  *)
ForLoaded(t, op, each) ==
  /\ Run(t, op)
  /\ \E names \in SetToSeqs({n \in Plugin : plugins[n] # None}) :
       todo' = [todo EXCEPT ![t] = Each(each, names) \o Tail(@)]
  /\ UNCHANGED <<tables, objects, config, hot, started, lock>>

(* Their last steps: the _started flag, the watcher, and _plugins.clear()  *)
(* without the lock.                                                       *)
SetStarted(t) ==
  /\ \/ Run(t, "startedon") /\ started' = TRUE
     \/ Run(t, "startedoff") /\ started' = FALSE
  /\ Pass(t)
  /\ UNCHANGED <<tables, objects, config, hot, lock>>

StartWatching(t) ==
  /\ Run(t, "watch")
  /\ watching' = TRUE
  /\ Pass(t)
  /\ UNCHANGED <<tables, objects, config, watched, started, lock>>

(* Faulty variant: the cleaned-up plugins stay in _plugins.                *)
ClearWatcherOnly(t) ==
  /\ Run(t, "clear")
  /\ watching' = FALSE
  /\ Pass(t)
  /\ UNCHANGED <<tables, objects, config, watched, started, lock>>

Clear(t) ==
  /\ Run(t, "clear")
  /\ plugins' = [n \in Plugin |-> None]
  /\ watching' = FALSE
  /\ Pass(t)
  /\ UNCHANGED <<registered, objects, config, watched, started, lock>>

(* The end of shutdown: the registries are emptied.                        *)
Wipe(t) ==
  /\ Run(t, "wipe")
  /\ service' = [n \in Plugin |-> None]
  /\ watching' = FALSE /\ started' = FALSE
  /\ Pass(t)
  /\ UNCHANGED <<tables, phase, detached, config, watched, lock>>

-----------------------------------------------------------------------------
(* The calls of a user.  stop_all_plugins stops in reverse load order, if  *)
(* the resolver can give one, and then what is in _plugins once more.      *)
Resolved ==
  IF \A m \in registered : Requires[m] \subseteq registered THEN InLoadOrder(registered) ELSE {<<>>}

StopAll(order) == Each("stop", Reverse(order)) \o <<F("stopleft", All), F("startedoff", All)>>

CleanupAll == <<F("cleanupall", All), F("clear", All)>>

Begin(t, frames) ==
  /\ todo[t] = <<>> /\ callCount < MaxCalls
  /\ callCount' = callCount + 1 /\ UNCHANGED scans
  /\ todo' = [todo EXCEPT ![t] = frames]
  /\ UNCHANGED <<plugins, objects, known, hot, started, lock>>

CallOne(t, n) ==
  /\ \/ Begin(t, <<F("load", n)>>)
     \/ Begin(t, <<F("start", n)>>)
     \/ Begin(t, <<F("stop", n)>>)
     \/ Begin(t, UnloadFrames(n))
     \/ Begin(t, UnloadFrames(n) \o <<F("disabled", n)>>)
     \/ Begin(t, <<F("reload", n)>>)
  /\ UNCHANGED <<registered, saved>>

(* enable_plugin: gives up when update_config finds nothing in memory.     *)
CallEnable(t, n) ==
  /\ Begin(t, IF n \in known THEN <<F("load", n)>> ELSE <<>>)
  /\ saved' = IF n \in known THEN [saved EXCEPT ![n] = "on"] ELSE saved
  /\ UNCHANGED registered

CallAll(t) ==
  /\ \/ Begin(t, <<F("startall", All), F("startedon", All)>>)
     \/ \E order \in Resolved : Begin(t, StopAll(order))
     \/ Begin(t, CleanupAll)
     \/ \E order \in Resolved : Begin(t, StopAll(order) \o CleanupAll \o <<F("wipe", All)>>)
  /\ UNCHANGED <<registered, saved>>

(* discover_plugins registers every plugin on disk; load_all_plugins       *)
(* begins with it.                                                         *)
CallDiscover(t) ==
  /\ registered' = Plugin
  /\ \/ Begin(t, <<>>)
     \/ Begin(t, Each("load", LoadOrder) \o <<F("watch", All)>>)
  /\ UNCHANGED saved

(* _watch_loop with check_changes: watch() stored the path of the file,    *)
(* check_changes compares the hash of the file of that name with it and    *)
(* stores the hash in its place; the next time there is no file of that    *)
(* name, and an empty hash is never reported again.                        *)
Scan ==
  /\ watching /\ todo[Watcher] = <<>> /\ scans < MaxScans
  /\ scans' = scans + 1
  /\ \E changed \in SetToSeqs({n \in Plugin : watched[n] \in {"path", "hash"}}) :
       todo' = [todo EXCEPT ![Watcher] = Each("reload", changed)]
  /\ watched' = [n \in Plugin |-> CASE watched[n] = "path" -> "hash"
                                    [] watched[n] = "hash" -> "empty"
                                    [] OTHER -> watched[n]]
  /\ UNCHANGED <<tables, objects, config, watching, started, lock, callCount>>

(* A plugin's module, on_initialize or on_start raises.                    *)
PluginRaises(t) ==
  /\ faults < MaxFaults /\ faults' = faults + 1
  /\ MakeFails(t) \/ StartRun(t, FALSE) \/ \E registers \in BOOLEAN : Make(t, registers, FALSE)

FrameStep(t) ==
  /\ \/ Load(t) \/ Need(t) \/ MakeDisabled(t) \/ Make(t, TRUE, TRUE) \/ Store(t)
     \/ Lookup(t, "start", "startread") \/ ReadObject(t, "startread", "startrun") \/ StartRun(t, TRUE)
     \/ Lookup(t, "stop", "stopread") \/ ReadObject(t, "stopread", "stoprun") \/ StopRun(t)
     \/ Lookup(t, "cleanup", "cleanupread") \/ ReadObject(t, "cleanupread", "cleanuprun")
     \/ CleanupRun(t) \/ CleanupEnd(t) \/ Pop(t)
     \/ Reload(t) \/ Rediscover(t) \/ OnHotReload(t) \/ Restart(t) \/ Disabled(t)
     \/ ForLoaded(t, "startall", "start") \/ ForLoaded(t, "stopleft", "stop") \/ ForLoaded(t, "cleanupall", "cleanup")
     \/ SetStarted(t) \/ StartWatching(t) \/ Clear(t) \/ Wipe(t)
  /\ UNCHANGED faults

ThreadStep(t) == (FrameStep(t) \/ PluginRaises(t)) /\ UNCHANGED <<callCount, scans>> /\ mixed' = mixed \cup Overlap'

NewCall ==
  /\ \/ \E t \in User : CallDiscover(t) \/ CallAll(t) \/ \E n \in Plugin : CallOne(t, n) \/ CallEnable(t, n)
     \/ Scan
  /\ UNCHANGED faults
  /\ mixed' = mixed \cup Overlap'

Next == NewCall \/ \E t \in Thread : ThreadStep(t)

Spec == Init /\ [][Next]_vars

-----------------------------------------------------------------------------
(* Every object a frame works on was found when the frame was run: no      *)
(* callback is called on None.                                             *)
HasObject == {"startread", "startrun", "stopread", "stoprun", "cleanupread", "cleanuprun", "cleanupend", "store"}

TypeOK ==
  /\ plugins \in [Plugin -> Inst \cup {None}] /\ detached \subseteq Inst
  /\ registered \subseteq Plugin /\ known \subseteq Plugin /\ mixed \subseteq Plugin
  /\ phase \in [Inst -> Phase]
  /\ service \in [Plugin -> Inst \cup {None}]
  /\ saved \in [Plugin -> Setting] /\ watched \in [Plugin -> {"no", "path", "hash", "empty"}]
  /\ {watching, started} \subseteq BOOLEAN /\ lock \in Thread \cup {None}
  /\ \A t \in Thread : todo[t] \in Seq(Frame)
  /\ \A f \in Frames : f.op \in HasObject => f.i # None
  /\ callCount \in 0..MaxCalls /\ faults \in 0..MaxFaults /\ scans \in 0..MaxScans

(* No thread is in a call about n, and no two ever were at the same time.  *)
Quiet(n) == ~Busy(n) /\ n \notin mixed

(* As long as calls about one plugin do not overlap, whatever the other    *)
(* threads do to its dependencies and dependents: a plugin in _plugins has *)
(* its object, initialised and not cleaned up, and that object's service   *)
(* is the one registered (load_plugin, unload_plugin, reload_plugin).      *)
LoadedIsComplete ==
  \A n \in Plugin : Quiet(n) /\ plugins[n] # None =>
    GetPlugin(n) # None /\ Live(plugins[n]) /\ service[n] = plugins[n]

(* Under the same condition every object that was initialised and not      *)
(* cleaned up is still reached through _plugins, so that stop_all and      *)
(* cleanup_all reach it, and a registered service belongs to it or to an   *)
(* object whose initialisation failed after it had registered.             *)
NothingLeftBehind ==
  /\ \A i \in Inst : Live(i) /\ Quiet(i[1]) => GetPlugin(i[1]) = i
  /\ \A n \in Plugin : service[n] # None /\ Quiet(n) =>
       service[n] = GetPlugin(n) \/ phase[service[n]] = "failed"

(* With any interleaving: a plugin in _plugins is known to the resolver,   *)
(* because load_plugin resolves and stores in one critical section and     *)
(* unload_plugin removes both in another.                                  *)
LoadedIsRegistered == \A n \in Plugin : plugins[n] # None => n \in registered

(* _load_lock is held exactly by the thread that is inside load_plugin:    *)
(* every exception, of the resolver or of a plugin, releases it.           *)
LockHeldInLoad ==
  \A t \in Thread : lock = t <=> \E f \in ToSet(todo[t]) : f.op = "unlock"

(* When a plugin enters _plugins each of its required dependencies is      *)
(* there, unless it is disabled, which load_plugin passes over in silence, *)
(* or another thread is about to load it, having just enabled it.          *)
DependenciesLoaded ==
  [][\A n \in Plugin : plugins[n] = None /\ plugins'[n] # None /\ n \notin mixed =>
       \A m \in Requires[n] : \/ plugins[m] # None
                               \/ saved[m] = "off"
                               \/ \E f \in Frames : f.n = m /\ f.op = "load"]_vars

(***************************************************************************)
(* In every interleaving of users and watcher the tables of the manager    *)
(* agree with each other and the lock with the calls in progress, also     *)
(* after a callback raised.                                                *)
(***************************************************************************)
ManagerInv == TypeOK /\ LoadedIsRegistered /\ LockHeldInLoad

=============================================================================
