------------------------------ MODULE EventBus ------------------------------
(***************************************************************************)
(* EventBus of plugins/api.py.  publish starts a thread for each event     *)
(* (the bus has no queue and no pool); the thread collects the             *)
(* subscriptions under the lock, calls them one by one without it, and     *)
(* takes one-shot subscriptions out at the end.  A synchronous publish     *)
(* runs the same steps in the caller's thread, which is one of the orders  *)
(* the steps may come in; so is what a callback does to the bus.           *)
(*                                                                         *)
(* A subscription is known by its id and subscribed once; an event is      *)
(* published once.  Callbacks may raise, filters may reject or raise.      *)
(***************************************************************************)
EXTENDS Naturals, Sequences, SequencesExt, FiniteSets

CONSTANTS Sub,        \* ids of subscriptions
          Wild,       \* those of event type "*"; the others are for the type of the events
          OneShot,    \* those with once=True
          Filtered,   \* those with a filter_func
          Priority,   \* Priority[s]: lower is earlier
          SubOwner,   \* SubOwner[s]: plugin_name
          Event       \* events of one type

ASSUME EventBusAssumption ==
  /\ Wild \subseteq Sub /\ OneShot \subseteq Sub /\ Filtered \subseteq Sub
  /\ Priority \in [Sub -> Nat] /\ DOMAIN SubOwner = Sub

VARIABLES
  named, wild,  \* _subscriptions of the type, _wildcard_subscriptions
  fresh,        \* subscriptions not made yet
  thread,       \* the delivery of each event
  calls,        \* history: the callbacks run for each event
  steady,       \* history: subscribed when the event was published and ever since
  refused,      \* history: subscriptions whose filter has rejected an event
  spent,        \* history: one-shot subscriptions the bus took out
  again         \* history: one-shot subscriptions that two deliveries had
                \* collected at once, or that a failed delivery left behind

busVars == <<named, wild, fresh, thread, calls, steady, refused, spent, again>>

Idle == [pc |-> "new", to |-> <<>>, once |-> {}]

BusInit ==
  /\ named = <<>> /\ wild = <<>> /\ fresh = Sub
  /\ thread = [e \in Event |-> Idle]
  /\ calls = [e \in Event |-> <<>>] /\ steady = [e \in Event |-> {}]
  /\ refused = {} /\ spent = {} /\ again = {}

\* list.sort by priority, which keeps the order of equals.
ByPriority(subs) ==
  LET before(i, j) == \/ Priority[subs[i]] < Priority[subs[j]]
                      \/ Priority[subs[i]] = Priority[subs[j]] /\ i < j
      order == CHOOSE o \in SetToSeqs(DOMAIN subs) :
                 \A j, k \in DOMAIN o : j < k => before(o[j], o[k])
  IN [k \in DOMAIN subs |-> subs[order[k]]]

\* The list without those in S, in its order.
Except(subs, S) ==
  LET order == CHOOSE o \in SetToSeqs({i \in DOMAIN subs : subs[i] \notin S}) :
                 \A j, k \in DOMAIN o : j < k => o[j] < o[k]
  IN [k \in DOMAIN order |-> subs[order[k]]]

Subscribed == ToSet(named) \cup ToSet(wild)

Subscribe(s) ==
  /\ s \in fresh /\ fresh' = fresh \ {s}
  /\ named' = IF s \in Wild THEN named ELSE ByPriority(Append(named, s))
  /\ wild' = IF s \in Wild THEN ByPriority(Append(wild, s)) ELSE wild
  /\ UNCHANGED <<thread, calls, steady, refused, spent, again>>

\* Subscriptions leave the bus.
TakeOut(S) ==
  /\ named' = Except(named, S)
  /\ wild' = Except(wild, S)
  /\ steady' = [e \in Event |-> steady[e] \ S]

\* unsubscribe, unsubscribe_plugin and clear.
Unsubscribe(s) ==
  /\ s \in Subscribed /\ TakeOut({s})
  /\ UNCHANGED <<fresh, thread, calls, refused, spent, again>>

UnsubscribePlugin(p) ==
  /\ TakeOut({s \in Sub : SubOwner[s] = p})
  /\ UNCHANGED <<fresh, thread, calls, refused, spent, again>>

ClearBus ==
  /\ TakeOut(Sub)
  /\ UNCHANGED <<fresh, thread, calls, refused, spent, again>>

-----------------------------------------------------------------------------
\* publish: an event past its ttl is dropped, any other gets a thread.
Drop(e) ==
  /\ thread[e].pc = "new" /\ thread' = [thread EXCEPT ![e].pc = "dropped"]
  /\ UNCHANGED <<named, wild, fresh, calls, steady, refused, spent, again>>

Publish(e) ==
  /\ thread[e].pc = "new" /\ thread' = [thread EXCEPT ![e].pc = "started"]
  /\ steady' = [steady EXCEPT ![e] = Subscribed]
  /\ UNCHANGED <<named, wild, fresh, calls, refused, spent, again>>

\* Faulty variants: without the last sort; "*" only if nobody asked for the type.
CollectedUnsorted == named \o wild

CollectedEither == IF named = <<>> THEN wild ELSE named

\* What _deliver collects.
Collected == ByPriority(named \o wild)

\* once_subs.  Faulty variant: all of them.
OnceAll(subs) == ToSet(subs)

Once(subs) == ToSet(subs) \cap OneShot

Pending(s) == {e \in Event : thread[e].pc = "calling" /\ s \in thread[e].once}

Collect(e) ==
  LET once == Once(Collected) IN
  /\ thread[e].pc = "started"
  /\ thread' = [thread EXCEPT ![e] = [pc |-> "calling", to |-> Collected, once |-> once]]
  /\ again' = again \cup {s \in once : Pending(s) # {}}
  /\ UNCHANGED <<named, wild, fresh, calls, steady, refused, spent>>

\* The next callback returns or raises: the loop goes on in both cases.
Call(e) ==
  LET s == Head(thread[e].to) IN
  /\ thread[e].pc = "calling" /\ thread[e].to # <<>>
  /\ calls' = [calls EXCEPT ![e] = Append(@, s)]
  /\ thread' = [thread EXCEPT ![e].to = Tail(@)]
  /\ UNCHANGED <<named, wild, fresh, steady, refused, spent, again>>

\* Its filter says no.
Skip(e) ==
  LET s == Head(thread[e].to) IN
  /\ thread[e].pc = "calling" /\ thread[e].to # <<>> /\ s \in Filtered
  /\ refused' = refused \cup {s}
  /\ steady' = [steady EXCEPT ![e] = @ \ {s}]
  /\ thread' = [thread EXCEPT ![e].to = Tail(@)]
  /\ UNCHANGED <<named, wild, fresh, calls, spent, again>>

\* Its filter raises, outside the try of the loop: the delivery ends here.
FilterRaises(e) ==
  /\ thread[e].pc = "calling" /\ thread[e].to # <<>> /\ Head(thread[e].to) \in Filtered
  /\ thread' = [thread EXCEPT ![e].pc = "failed"]
  /\ again' = again \cup thread[e].once
  /\ UNCHANGED <<named, wild, fresh, calls, steady, refused, spent>>

\* Faulty variants: one-shot subscriptions stay; all of them go, collected
\* or not.
FinishKeepsOnce(e) ==
  /\ thread[e].pc = "calling" /\ thread[e].to = <<>>
  /\ thread' = [thread EXCEPT ![e].pc = "done"]
  /\ UNCHANGED <<named, wild, fresh, calls, steady, refused, spent, again>>

FinishAnyOnce(e) ==
  /\ thread[e].pc = "calling" /\ thread[e].to = <<>>
  /\ TakeOut(OneShot) /\ spent' = spent \cup (OneShot \cap Subscribed)
  /\ thread' = [thread EXCEPT ![e].pc = "done"]
  /\ UNCHANGED <<fresh, calls, refused, again>>

\* The end of _deliver.
Finish(e) ==
  LET once == thread[e].once IN
  /\ thread[e].pc = "calling" /\ thread[e].to = <<>>
  /\ TakeOut(once) /\ spent' = spent \cup (once \cap Subscribed)
  /\ thread' = [thread EXCEPT ![e].pc = "done"]
  /\ UNCHANGED <<fresh, calls, refused, again>>

BusNext ==
  \/ \E s \in Sub : Subscribe(s) \/ Unsubscribe(s)
  \/ \E p \in {SubOwner[s] : s \in Sub} : UnsubscribePlugin(p)
  \/ ClearBus
  \/ \E e \in Event :
       \/ Drop(e) \/ Publish(e) \/ Collect(e) \/ Call(e) \/ Skip(e)
       \/ FilterRaises(e) \/ Finish(e)

BusSpec == BusInit /\ [][BusNext]_busVars

-----------------------------------------------------------------------------

\* Type invariant.
BusTypeOK ==
  /\ named \in Seq(Sub \ Wild) /\ wild \in Seq(Wild) /\ fresh \subseteq Sub
  /\ \A e \in Event :
       /\ thread[e].pc \in {"new", "dropped", "started", "calling", "failed", "done"}
       /\ thread[e].to \in Seq(Sub) /\ thread[e].once \subseteq OneShot
       /\ calls[e] \in Seq(Sub) /\ steady[e] \subseteq Sub
  /\ refused \subseteq Filtered /\ spent \subseteq OneShot /\ again \subseteq OneShot

(***************************************************************************)
(* Callbacks of one event run in the order of their priorities, those for  *)
(* the type and those for "*" together, although each list is sorted on    *)
(* its own and both change while other events are delivered.               *)
(***************************************************************************)
CalledInOrder ==
  \A e \in Event : \A i, j \in DOMAIN calls[e] :
    i < j => Priority[calls[e][i]] <= Priority[calls[e][j]]

(***************************************************************************)
(* A delivery that ends has called every subscription that was there from  *)
(* the publish on and accepts the event, and none twice, whatever other    *)
(* callbacks raise, subscribe and unsubscribe meanwhile.                   *)
(***************************************************************************)
SteadyServed ==
  \A e \in Event :
    /\ IsInjective(calls[e])
    /\ thread[e].pc = "done" => steady[e] \subseteq ToSet(calls[e])

(***************************************************************************)
(* A one-shot subscription gets a second event only when another delivery  *)
(* had collected it too before the first one took it out, or when a filter *)
(* that raises ended the delivery before it was taken out.                 *)
(***************************************************************************)
OneShotOnce ==
  \A s \in OneShot \ again : Cardinality({e \in Event : s \in ToSet(calls[e])}) <= 1

(***************************************************************************)
(* The bus takes a one-shot subscription out only after it has been        *)
(* called, or its filter has rejected the event: it is not lost because it *)
(* was made while another event was being delivered.                       *)
(***************************************************************************)
OneShotNotLost ==
  \A s \in spent \ refused : \E e \in Event : s \in ToSet(calls[e])

(***************************************************************************)
(* A delivery reaches every subscription that stayed, once, and by         *)
(* priority across both lists, while callbacks and other threads change    *)
(* the lists.                                                              *)
(***************************************************************************)
BusInv == BusTypeOK /\ CalledInOrder /\ SteadyServed

(***************************************************************************)
(* A one-shot subscription is called once: never twice, unless deliveries  *)
(* overlap or a filter raises, and never taken out uncalled, unless its    *)
(* filter rejected the event.                                              *)
(***************************************************************************)
OneShotServed == OneShotOnce /\ OneShotNotLost

=============================================================================
