------------------------------ MODULE PluginLoader ------------------------------
(***************************************************************************)
(* The temporary panel host of spikes/omarchy-ephemeral-plugin-loader      *)
(* (lib/host.mjs, lib/bounds.mjs): plugins of a repository registered,     *)
(* summoned, called, hidden and unregistered in memory.                    *)
(*                                                                         *)
(* Every request is one synchronous step, but for the calls into the item  *)
(* of a panel that drainQueue makes: while it is called, an item may ask   *)
(* the host itself, before the drain and whoever started it go on.         *)
(* What is deferred comes later, as a step of its own, when the host is    *)
(* idle: the second validation, the end of a teardown, the callbacks of a  *)
(* Loader, a scan of the installed plugins.  Sources change at any time.   *)
(* An item asks nothing in close() or when its properties are set.         *)
(* Requests that only read (capabilities, status, inspect) are left out.   *)
(* Identities carry a nonce of the shell process: a restart is a new Init. *)
(***************************************************************************)
EXTENDS Integers, Sequences, FiniteSets, SequencesExt

CONSTANTS
    Sources,            \* canonical source directories
    PluginIds,          \* plugin ids
    NoPlugin,           \* the manifest of a source that fails the validation
    Spellings,          \* JSON texts of one and the same request
    Registrations,      \* LIMITS.registrations
    QueuedCalls,        \* LIMITS.queuedCallsPerRegistration
    OperationRecords,   \* LIMITS.operationRecords
    Tombstones,         \* LIMITS.tombstones
    MaxOperations,      \* bound on accepted register requests
    MaxGeneration,      \* bound on the generation a summon may start
    MaxDrains,          \* bound on drains within the calls of one another
    MaxChanges          \* bound on changes of sources and installed plugins

ASSUME LoaderAssumption ==
    /\ IsFiniteSet(Sources) /\ IsFiniteSet(PluginIds) /\ NoPlugin \notin PluginIds
    /\ {Registrations, QueuedCalls, OperationRecords, Tombstones, MaxDrains} \subseteq Nat \ {0}
    /\ {MaxOperations, MaxGeneration, MaxChanges} \subseteq Nat

VARIABLES
    manifest,       \* the plugin id that the manifest of each source gives
    installed,      \* the installed registry: ids, directories, scanning
    operations,     \* the validation operations, by their sequence number
    registrations,  \* the registrations, by theirs
    bySource, byPluginId,   \* the claims, 0 for none
    tombstones,     \* the unregistered ones still known, oldest first
    loads,          \* the Loaders that still owe a callback
    draining,       \* the drains under way, the innermost last
    delivered,      \* history: what reached which item
    changes         \* how often the world changed

claims == <<bySource, byPluginId>>
world == <<manifest, installed, changes>>
vars == <<world, operations, registrations, claims, tombstones, loads, draining, delivered>>

Init ==
    /\ manifest \in [Sources -> PluginIds]
    /\ installed = [ids |-> {}, dirs |-> {}, scanning |-> FALSE]
    /\ operations = <<>> /\ registrations = <<>>
    /\ bySource = [s \in Sources |-> 0] /\ byPluginId = [p \in PluginIds |-> 0]
    /\ tombstones = <<>>
    /\ loads = {} /\ draining = <<>> /\ delivered = {}
    /\ changes = 0

\* Timers and callbacks wait for an idle host; an item that is called may ask.
Idle == draining = <<>>
Asking == \A i \in DOMAIN draining : draining[i].calling

-----------------------------------------------------------------------------
(* Validation.                                                             *)

Active == {"registered_hidden", "loading", "summoned", "failed", "failed_collision", "unregistering"}
Having(states) == {r \in DOMAIN registrations : registrations[r].state \in states}
Validating == {o \in DOMAIN operations : operations[o].state = "validating"}

\* validateSource: a sound manifest, and no collision with an installed plugin
\* or with a claim of another registration than r.
Valid_ClaimsUnchecked(s, r) ==
    /\ manifest[s] # NoPlugin
    /\ s \notin installed.dirs /\ manifest[s] \notin installed.ids
Valid(s, r) ==
    /\ manifest[s] # NoPlugin
    /\ s \notin installed.dirs /\ manifest[s] \notin installed.ids
    /\ {bySource[s], byPluginId[manifest[s]]} \subseteq {0, r}

\* A validation under way holds the capacity it may come to need.
Occupied == Cardinality(Validating) + Cardinality(Having(Active))

Register(s, spelling) ==
    /\ Asking
    /\ Len(operations) < MaxOperations
    /\ ~installed.scanning
    /\ ~\E o \in Validating : operations[o].source = s /\ operations[o].spelling = spelling
    /\ Occupied < Registrations
    /\ Valid(s, 0)
    /\ operations' = Append(operations, [state |-> "validating", source |-> s, spelling |-> spelling])
    /\ UNCHANGED <<world, registrations, claims, tombstones, loads, draining, delivered>>

\* evictOldOperations: the oldest that are settled, and only when one registers.
Evicted(ops) ==
    LET kept == {o \in DOMAIN ops : ops[o].state # "evicted"}
        settled == {o \in kept : ops[o].state # "validating"}
        excess == Cardinality(kept) - OperationRecords
        goes(o) == o \in settled /\ Cardinality({p \in settled : p < o}) < excess
    IN [o \in DOMAIN ops |-> IF goes(o) THEN [ops[o] EXCEPT !.state = "evicted"] ELSE ops[o]]

NewRegistration(s) ==
    [source |-> s, plugin |-> manifest[s], state |-> "registered_hidden", generation |-> 0,
     queue |-> <<>>, loader |-> 0, item |-> 0, overtaken |-> FALSE]

\* The deferred commit validates again: the claims and the source may have
\* changed since the request.
FinalizeRegistration(o) ==
    LET s == operations[o].source
        r == Len(registrations) + 1 IN
    /\ Idle
    /\ o \in Validating
    /\ IF Valid(s, 0)
       THEN /\ operations' = Evicted([operations EXCEPT ![o].state = "registered_hidden"])
            /\ registrations' = Append(registrations, NewRegistration(s))
            /\ bySource' = [bySource EXCEPT ![s] = r]
            /\ byPluginId' = [byPluginId EXCEPT ![manifest[s]] = r]
       ELSE /\ operations' = [operations EXCEPT ![o].state = "rejected"]
            /\ UNCHANGED <<registrations, claims>>
    /\ UNCHANGED <<world, tombstones, loads, draining, delivered>>

-----------------------------------------------------------------------------
(* summon, call, hide and unregister.                                      *)

Current(r) == registrations[r]
Becomes(r, record) == registrations' = [registrations EXCEPT ![r] = record]

\* unloadObject: the queue is dropped, the item closed, the Loader destroyed.
Unloaded_KeepsQueue(record) == [record EXCEPT !.loader = 0, !.item = 0, !.overtaken = FALSE]
Unloaded(record) ==
    [record EXCEPT !.queue = <<>>, !.loader = 0, !.item = 0, !.overtaken = FALSE]

\* drainQueue takes the whole queue and then hands it over, entry by entry.
Drains(r, record, loading) ==
    /\ Becomes(r, [record EXCEPT !.queue = <<>>])
    /\ draining' = Append(draining,
         [registration |-> r, generation |-> record.generation, entries |-> record.queue,
          calling |-> FALSE, loading |-> loading])

SourceStillPresent(r) ==
    Valid(Current(r).source, r) /\ manifest[Current(r).source] = Current(r).plugin

\* An entry belongs to the generation whose Loader it waits for.
Queued(record, g) == [record EXCEPT !.queue = Append(@, g)]

Summon(r) ==
    LET record == Current(r)
        g == IF record.loader # 0 THEN record.generation ELSE record.generation + 1
        asked == [Queued(record, g) EXCEPT !.generation = g, !.loader = g,
                    !.state = IF @ = "registered_hidden" THEN "loading" ELSE @] IN
    /\ Asking
    /\ r \in Having({"registered_hidden", "loading", "summoned"})
    /\ g <= MaxGeneration /\ Len(draining) < MaxDrains
    /\ IF ~SourceStillPresent(r)
       THEN Becomes(r, [record EXCEPT !.state = "failed"]) /\ UNCHANGED <<loads, draining>>
       ELSE /\ Len(record.queue) < QueuedCalls
            /\ loads' = IF record.loader # 0 THEN loads ELSE loads \cup {<<r, g>>}
            /\ IF record.item # 0
               THEN Drains(r, asked, FALSE)
               ELSE Becomes(r, asked) /\ UNCHANGED draining
    /\ UNCHANGED <<world, operations, claims, tombstones, delivered>>

CallQueued(r) ==
    /\ Asking
    /\ r \in Having({"loading"})
    /\ Len(Current(r).queue) < QueuedCalls
    /\ Becomes(r, Queued(Current(r), Current(r).generation))
    /\ UNCHANGED <<world, operations, claims, tombstones, loads, draining, delivered>>

\* A call to a loaded item is delivered at once, and nothing comes after it.
\* Without an item (a TypeError) nothing changes.
CallDelivered(r) ==
    /\ Asking
    /\ r \in Having({"summoned"}) /\ Current(r).item # 0
    /\ delivered' = delivered \cup
         {[asked |-> Current(r).generation, item |-> Current(r).item]}
    /\ UNCHANGED <<world, operations, registrations, claims, tombstones, loads, draining>>

Hide(r) ==
    /\ Asking
    /\ r \in Having({"loading", "summoned"})
    /\ Becomes(r, [Unloaded(Current(r)) EXCEPT !.generation = @ + 1, !.state = "registered_hidden"])
    /\ UNCHANGED <<world, operations, claims, tombstones, loads, draining, delivered>>

Unregister(r) ==
    /\ Asking
    /\ r \in Having(Active \ {"unregistering"})
    /\ Becomes(r, [Unloaded(Current(r)) EXCEPT !.generation = @ + 1, !.state = "unregistering"])
    /\ UNCHANGED <<world, operations, claims, tombstones, loads, draining, delivered>>

Pruned_ExpiredOnly(stones) ==
    SubSeq(stones, Min({i \in DOMAIN stones : ~stones[i].expired}), Len(stones))
\* pruneTombstones: the expired ones go, then the oldest beyond the limit.  The
\* older expires first, so what stays is the end of the list; it is called with
\* a fresh one at the end.
Pruned(stones) ==
    LET kept == {i \in DOMAIN stones : ~stones[i].expired /\ Len(stones) - i < Tombstones}
    IN SubSeq(stones, Min(kept), Len(stones))

\* releaseClaims: a claim that another registration holds is not released.
Released(claim, r) == [c \in DOMAIN claim |-> IF claim[c] = r THEN 0 ELSE claim[c]]

\* The teardown is complete: none of its Loaders calls back any more.
FinalizeUnregister(r) ==
    /\ Idle
    /\ r \in Having({"unregistering"})
    /\ Becomes(r, [Current(r) EXCEPT !.state = "unregistered"])
    /\ bySource' = Released(bySource, r) /\ byPluginId' = Released(byPluginId, r)
    /\ tombstones' = Pruned(Append(tombstones, [registration |-> r, expired |-> FALSE]))
    /\ loads' = {l \in loads : l[1] # r}
    /\ UNCHANGED <<world, operations, draining, delivered>>

\* Five minutes pass: the older tombstone expires first.
TombstoneExpires ==
    \E i \in DOMAIN tombstones :
      /\ ~tombstones[i].expired /\ \A j \in 1 .. i - 1 : tombstones[j].expired
      /\ tombstones' = [tombstones EXCEPT ![i].expired = TRUE]
      /\ UNCHANGED <<world, operations, registrations, claims, loads, draining, delivered>>

\* resolveRegistration: any request for an expired tombstone forgets it.
Forget(i) ==
    /\ Asking
    /\ i \in DOMAIN tombstones /\ tombstones[i].expired
    /\ tombstones' = RemoveAt(tombstones, i)
    /\ UNCHANGED <<world, operations, registrations, claims, loads, draining, delivered>>

-----------------------------------------------------------------------------
(* The Loader, the installed plugins and the sources.                      *)

\* A callback means something to the generation it was captured with only.
Concerns_Anyone(r, g) == Current(r).state # "unregistered"
Concerns(r, g) == Current(r).generation = g /\ Current(r).state # "unregistered"

HandleLoaded(r, g) ==
    /\ Idle
    /\ <<r, g>> \in loads
    /\ loads' = loads \ {<<r, g>>}
    /\ IF Concerns(r, g) /\ Current(r).state = "loading"
       THEN Drains(r, [Current(r) EXCEPT !.item = g], TRUE)
       ELSE UNCHANGED <<registrations, draining>>
    /\ UNCHANGED <<world, operations, claims, tombstones, delivered>>

\* The next entry reaches the item: it is called, and may ask the host.
DeliverEntry ==
    LET drain == Last(draining)
        item == Current(drain.registration).item IN
    /\ ~Idle /\ drain.entries # <<>> /\ item # 0
    /\ delivered' = delivered \cup {[asked |-> Head(drain.entries), item |-> item]}
    /\ draining' = Append(Front(draining), [drain EXCEPT !.entries = Tail(@), !.calling = TRUE])
    /\ UNCHANGED <<world, operations, registrations, claims, tombstones, loads>>

\* The entries are through, or the item is gone.  handleLoaded goes on and
\* makes the panel summoned, whatever an entry made of it meanwhile.
FinishDrain ==
    LET drain == Last(draining)
        record == Current(drain.registration) IN
    /\ ~Idle /\ (drain.entries = <<>> \/ record.item = 0)
    /\ draining' = Front(draining)
    /\ IF drain.loading
       THEN Becomes(drain.registration, [record EXCEPT !.state = "summoned",
                                           !.overtaken = record.generation # drain.generation])
       ELSE UNCHANGED registrations
    /\ UNCHANGED <<world, operations, claims, tombstones, loads, delivered>>

HandleLoadError(r, g) ==
    /\ Idle
    /\ <<r, g>> \in loads
    /\ loads' = loads \ {<<r, g>>}
    /\ IF Concerns(r, g) THEN Becomes(r, [Unloaded(Current(r)) EXCEPT !.state = "failed"])
       ELSE UNCHANGED registrations
    /\ UNCHANGED <<world, operations, claims, tombstones, draining, delivered>>

\* recheckCollisions: whoever collides now is unloaded and keeps its claims.
Rechecked(record, ids, dirs) ==
    IF record.state \in Active \ {"unregistering"} /\ (record.plugin \in ids \/ record.source \in dirs)
    THEN [Unloaded(record) EXCEPT !.generation = @ + 1, !.state = "failed_collision"]
    ELSE record

ScanStarts ==
    /\ Idle
    /\ ~installed.scanning /\ changes < MaxChanges
    /\ installed' = [installed EXCEPT !.scanning = TRUE]
    /\ changes' = changes + 1
    /\ UNCHANGED <<manifest, operations, registrations, claims, tombstones, loads, draining, delivered>>

ScanEnds ==
    /\ Idle
    /\ installed.scanning
    /\ \E ids \in SUBSET PluginIds, dirs \in SUBSET Sources :
         /\ installed' = [ids |-> ids, dirs |-> dirs, scanning |-> FALSE]
         /\ registrations' = [r \in DOMAIN registrations |-> Rechecked(Current(r), ids, dirs)]
    /\ UNCHANGED <<manifest, changes, operations, claims, tombstones, loads, draining, delivered>>

SourceChanges(s) ==
    /\ changes < MaxChanges
    /\ manifest' \in {[manifest EXCEPT ![s] = p] : p \in (PluginIds \cup {NoPlugin}) \ {manifest[s]}}
    /\ changes' = changes + 1
    /\ UNCHANGED <<installed, operations, registrations, claims, tombstones, loads, draining, delivered>>

-----------------------------------------------------------------------------
Next ==
    \/ \E s \in Sources : SourceChanges(s) \/ \E spelling \in Spellings : Register(s, spelling)
    \/ \E o \in DOMAIN operations : FinalizeRegistration(o)
    \/ \E r \in DOMAIN registrations :
         \/ Summon(r) \/ CallQueued(r) \/ CallDelivered(r) \/ Hide(r)
         \/ Unregister(r) \/ FinalizeUnregister(r)
    \/ DeliverEntry \/ FinishDrain
    \/ \E l \in loads : HandleLoaded(l[1], l[2]) \/ HandleLoadError(l[1], l[2])
    \/ \E i \in DOMAIN tombstones : Forget(i)
    \/ TombstoneExpires \/ ScanStarts \/ ScanEnds

Spec == Init /\ [][Next]_vars

-----------------------------------------------------------------------------
(* Properties.                                                             *)

\* The records, the claims and the bounds of what is retained.
TypeOK ==
    /\ manifest \in [Sources -> PluginIds \cup {NoPlugin}]
    /\ installed \in [ids : SUBSET PluginIds, dirs : SUBSET Sources, scanning : BOOLEAN]
    /\ \A o \in DOMAIN operations : operations[o] \in
         [state : {"validating", "rejected", "registered_hidden", "evicted"}, source : Sources,
          spelling : Spellings]
    /\ \A r \in DOMAIN registrations :
         /\ Current(r).source \in Sources /\ Current(r).plugin \in PluginIds
         /\ Current(r).state \in Active \cup {"unregistered"}
         /\ {Current(r).generation, Current(r).loader, Current(r).item} \subseteq Nat
         /\ Len(Current(r).queue) <= QueuedCalls
         /\ Current(r).overtaken \in BOOLEAN
    /\ bySource \in [Sources -> 0 .. Len(registrations)]
    /\ byPluginId \in [PluginIds -> 0 .. Len(registrations)]
    /\ Len(tombstones) <= Tombstones
    /\ loads \subseteq (DOMAIN registrations) \X (1 .. MaxGeneration)
    /\ Len(draining) <= MaxDrains
    /\ \A i \in DOMAIN draining :
         /\ draining[i].registration \in Having(Active) /\ Len(draining[i].entries) <= QueuedCalls
         /\ draining[i].loading => i = 1
    /\ changes \in 0 .. MaxChanges

\* Every registration holds the claims on its source and its plugin id until
\* its teardown is complete, so no two of them share either, however their
\* validations, teardowns and collisions interleave and whatever an item asks
\* while it is called (host.mjs: bySource and byPluginId, claimed by
\* finalizeRegistration and released by releaseClaims).
ClaimsHeld ==
    \A r \in Having(Active) : bySource[Current(r).source] = r /\ byPluginId[Current(r).plugin] = r

\* The drain that handleLoaded makes of a registration.
Opening(r) == \E i \in DOMAIN draining : draining[i].registration = r /\ draining[i].loading

\* A hidden, collided or unregistered panel has no Loader, item or queue left,
\* a loading one its own Loader, and an item only while that is handed its
\* queue; a summoned one has the Loader and the item of its generation, unless
\* an entry handed over by handleLoaded ended the very summon it belonged to:
\* handleLoaded overwrites what that made of the panel (host.mjs: unloadObject,
\* the captured generations, handleLoaded after drainQueue).
LoaderMatchesState ==
    \A r \in DOMAIN registrations :
      LET record == Current(r) IN
      CASE record.state = "loading" ->
             record.loader = record.generation /\ (record.item # 0 => Opening(r))
        [] record.state = "summoned" ->
             ~record.overtaken => record.loader = record.generation /\ record.item = record.generation
        [] record.state = "failed" -> record.loader \in {0, record.generation}
        [] OTHER -> record.loader = 0 /\ record.item = 0 /\ record.queue = <<>>

\* What was asked of one summon reaches the item of that summon or nobody, also
\* when an entry that is handed over hides and summons the panel again: a hide
\* drops it for good (host.mjs: drainQueue, dispatchHide).
DeliveredToItsSummon == \A d \in delivered : d.asked = d.item
================================================================================
