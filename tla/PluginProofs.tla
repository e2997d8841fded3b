------------------------------ MODULE PluginProofs ------------------------------
(***************************************************************************)
(* Theorems about the panels of the Omarchy shell: the loader of panel     *)
(* plugins (PluginLoader), for every set of sources and plugin ids, and    *)
(* the Agent Console that drives its panel (AgentConsole); both for every  *)
(* value of the limits and bounds.  The two share no definition.           *)
(***************************************************************************)
EXTENDS PluginLoader, AgentConsole, SequenceTheorems, WellFoundedInduction, TLAPS

-----------------------------------------------------------------------------
(* What holds of one registration. *)

States == Active \cup {"unregistered"}
Records ==
  [source : Sources, plugin : PluginIds, state : States, generation : Nat,
   queue : Seq(Nat), loader : Nat, item : Nat, overtaken : BOOLEAN]

\* A Loader or item is that of the present generation, and what waits in the
\* queue was asked of it.
Sound(record) ==
  /\ record.loader \in {0, record.generation} /\ record.item \in {0, record.loader}
  /\ Len(record.queue) <= QueuedCalls
  /\ \A i \in DOMAIN record.queue : record.queue[i] = record.generation
  /\ record.state = "loading" => record.loader # 0
  /\ record.state = "summoned" /\ ~record.overtaken => record.item # 0
  /\ record.loader = 0 => record.queue = <<>>
  /\ record.state \notin {"loading", "summoned", "failed"} => record.loader = 0

RecordsSound ==
  /\ registrations \in Seq(Records)
  /\ \A r \in DOMAIN registrations : Sound(registrations[r])

Operations ==
  [state : {"validating", "rejected", "registered_hidden", "evicted"},
   source : Sources, spelling : Spellings]
WorldOK ==
  /\ manifest \in [Sources -> PluginIds \cup {NoPlugin}]
  /\ operations \in Seq(Operations)

-----------------------------------------------------------------------------
(* What holds of the drains under way. *)

Drainings ==
  [registration : Nat, generation : Nat, entries : Seq(Nat), calling : BOOLEAN, loading : BOOLEAN]

\* While a drain goes on, its registration has the item the drain began with or
\* none, and no other unless its generation went on.  Only the outermost drain
\* is that of a Loader that called back.
DrainSound(d, i) ==
  /\ d.registration \in DOMAIN registrations
  /\ Len(d.entries) <= QueuedCalls
  /\ \A k \in DOMAIN d.entries : d.entries[k] = d.generation
  /\ d.loading => i = 1
  /\ registrations[d.registration].state \in Active
  /\ registrations[d.registration].item \in {0, d.generation}
  /\ d.generation <= registrations[d.registration].generation
  /\ d.loading /\ registrations[d.registration].generation = d.generation =>
       registrations[d.registration].item # 0

DrainsSound ==
  /\ draining \in Seq(Drainings) /\ Len(draining) <= MaxDrains
  /\ \A i \in DOMAIN draining : DrainSound(draining[i], i)

\* A loading registration has an item only while its queue is handed over.
ItemsOpening ==
  \A r \in DOMAIN registrations :
    registrations[r].state = "loading" /\ registrations[r].item # 0 => Opening(r)

\* A Loader that owes a callback belongs to a registration.
LoadsKnown == \A l \in loads : l[1] \in DOMAIN registrations

LoadersSound == WorldOK /\ RecordsSound /\ LoadsKnown /\ DrainsSound /\ ItemsOpening

\* The limits and bounds are numbers.
LEMMA Numbers ==
  /\ QueuedCalls \in Nat \ {0} /\ Tombstones \in Nat \ {0} /\ MaxDrains \in Nat \ {0}
  /\ MaxGeneration \in Nat /\ MaxChanges \in Nat
BY LoaderAssumption

-----------------------------------------------------------------------------
(* Steps of one registration. *)

\* One registration takes a sound value: all of them stay sound.
LEMMA OneBecomes ==
  ASSUME RecordsSound, NEW r \in DOMAIN registrations, NEW record \in Records,
         Sound(record), Becomes(r, record)
  PROVE  RecordsSound'
<1>1. r \in 1 .. Len(registrations)  BY LenProperties DEF RecordsSound
<1>2. /\ registrations' \in Seq(Records)
      /\ DOMAIN registrations' = DOMAIN registrations
  BY <1>1, ExceptSeq, LenProperties DEF RecordsSound, Becomes
<1>3. ASSUME NEW p \in DOMAIN registrations' PROVE Sound(registrations'[p])
  <2>1. registrations'[p] = IF p = r THEN record ELSE registrations[p]
    BY <1>2, <1>3 DEF Becomes
  <2> QED  BY <1>2, <1>3, <2>1 DEF RecordsSound
<1> QED  BY <1>2, <1>3 DEF RecordsSound

\* A registration of the host is sound.
LEMMA CurrentSound ==
  ASSUME RecordsSound, NEW r \in DOMAIN registrations
  PROVE  registrations[r] \in Records /\ Sound(registrations[r]) /\ r \in Nat
<1>1. r \in 1 .. Len(registrations)  BY LenProperties DEF RecordsSound
<1> QED  BY <1>1, ElementOfSeq DEF RecordsSound

\* An unloaded registration is sound in every state without a Loader.
LEMMA UnloadedSound ==
  ASSUME NEW record \in Records, NEW g \in Nat,
         NEW s \in States \ {"loading", "summoned"}
  PROVE  /\ [Unloaded(record) EXCEPT !.generation = g, !.state = s] \in Records
         /\ Sound([Unloaded(record) EXCEPT !.generation = g, !.state = s])
         /\ [Unloaded(record) EXCEPT !.generation = g, !.state = s].item = 0
<1> DEFINE idle == [Unloaded(record) EXCEPT !.generation = g, !.state = s]
<1>1. <<>> \in Seq(Nat) /\ Len(<<>>) = 0 /\ DOMAIN <<>> = {}  BY EmptySeq
<1>2. idle \in Records
  BY <1>1 DEF Unloaded, Records
<1>3. idle.loader = 0 /\ idle.item = 0 /\ idle.queue = <<>> /\ idle.state = s
  BY DEF Unloaded, Records
<1> HIDE DEF idle
<1>4. Sound(idle)  BY <1>1, <1>3, Numbers DEF Sound
<1> QED  BY <1>2, <1>3, <1>4 DEF idle

\* A sound record is sound without its queue.
LEMMA EmptiedSound ==
  ASSUME NEW record \in Records, Sound(record)
  PROVE  /\ [record EXCEPT !.queue = <<>>] \in Records /\ Sound([record EXCEPT !.queue = <<>>])
         /\ \A f \in {"source", "plugin", "state", "generation", "loader", "item", "overtaken"} :
              [record EXCEPT !.queue = <<>>][f] = record[f]
<1> DEFINE bare == [record EXCEPT !.queue = <<>>]
<1>1. <<>> \in Seq(Nat) /\ Len(<<>>) = 0 /\ DOMAIN <<>> = {}  BY EmptySeq
<1>2. bare \in Records  BY <1>1 DEF Records
<1>3. /\ bare.queue = <<>> /\ bare.source = record.source /\ bare.plugin = record.plugin
      /\ bare.state = record.state /\ bare.generation = record.generation
      /\ bare.loader = record.loader /\ bare.item = record.item
      /\ bare.overtaken = record.overtaken
  BY DEF Records
<1> HIDE DEF bare
<1>4. Sound(bare)  BY <1>1, <1>3, Numbers DEF Sound
<1> QED  BY <1>2, <1>3, <1>4 DEF bare

\* A record with a Loader stays sound when something more waits for that.
LEMMA QueuedSound ==
  ASSUME NEW record \in Records, Sound(record), record.loader # 0,
         record.state \in {"loading", "summoned"}, Len(record.queue) < QueuedCalls
  PROVE  /\ Queued(record, record.generation) \in Records
         /\ Sound(Queued(record, record.generation))
         /\ Queued(record, record.generation)
              = [record EXCEPT !.queue = Append(record.queue, record.generation)]
<1> DEFINE q == Queued(record, record.generation)
<1>1. record.queue \in Seq(Nat) /\ record.generation \in Nat  BY DEF Records
<1>2. /\ Append(record.queue, record.generation) \in Seq(Nat)
      /\ Len(Append(record.queue, record.generation)) = Len(record.queue) + 1
      /\ \A i \in 1 .. Len(record.queue) :
           Append(record.queue, record.generation)[i] = record.queue[i]
      /\ Append(record.queue, record.generation)[Len(record.queue) + 1] = record.generation
  BY <1>1, AppendProperties
<1>3. q \in Records  BY <1>2 DEF Queued, Records
<1>4. /\ q.queue = Append(record.queue, record.generation) /\ q.state = record.state
      /\ q.generation = record.generation /\ q.loader = record.loader /\ q.item = record.item
      /\ q.overtaken = record.overtaken
  BY DEF Queued, Records
<1>5. DOMAIN q.queue = 1 .. Len(record.queue) + 1 /\ DOMAIN record.queue = 1 .. Len(record.queue)
      /\ Len(record.queue) \in Nat
  BY <1>1, <1>2, <1>4, LenProperties
<1>6. ASSUME NEW i \in DOMAIN q.queue PROVE q.queue[i] = q.generation
  <2>1. CASE i = Len(record.queue) + 1  BY <2>1, <1>2, <1>4
  <2>2. CASE i # Len(record.queue) + 1
    <3>1. i \in 1 .. Len(record.queue)  BY <2>2, <1>5
    <3>2. record.queue[i] = record.generation  BY <3>1, <1>5 DEF Sound
    <3> QED  BY <3>1, <3>2, <1>2, <1>4
  <2> QED  BY <2>1, <2>2
<1>7. Len(q.queue) <= QueuedCalls  BY <1>2, <1>4, <1>5, Numbers
<1>8. q = [record EXCEPT !.queue = Append(record.queue, record.generation)]
  BY DEF Queued
<1> HIDE DEF q
<1>9. Sound(q)  BY <1>4, <1>6, <1>7 DEF Sound
<1> QED  BY <1>3, <1>8, <1>9 DEF q

-----------------------------------------------------------------------------
(* What a request makes of a registration. *)

\* A request keeps the item of the generation, or goes on to a later generation
\* that has none yet.
Progress(old, new) ==
  /\ old.state \in Active /\ new.state \in Active
  /\ new.source = old.source /\ new.plugin = old.plugin
  /\ \/ /\ new.generation = old.generation /\ new.item = old.item
        /\ new.state \in {old.state, "failed"}
     \/ new.generation > old.generation /\ new.item = 0

\* A request moves its registration and may begin a drain of it.
Requested(r) ==
  \E record \in Records :
    /\ Sound(record) /\ Progress(registrations[r], record)
    /\ \/ Becomes(r, record) /\ UNCHANGED draining
       \/ Drains(r, record, FALSE) /\ Len(draining) < MaxDrains

\* A summon starts a Loader, waits for it, begins to hand over the queue or
\* marks the failure.
LEMMA SummonRequests ==
  ASSUME RecordsSound, NEW r \in DOMAIN registrations, Summon(r)
  PROVE  Requested(r)
<1> DEFINE record == registrations[r]
           g == IF record.loader # 0 THEN record.generation ELSE record.generation + 1
           asked == [Queued(record, g) EXCEPT !.generation = g, !.loader = g,
                       !.state = IF @ = "registered_hidden" THEN "loading" ELSE @]
           failed == [record EXCEPT !.state = "failed"]
<1>1. record \in Records /\ Sound(record)  BY CurrentSound
<1>2. record.state \in {"registered_hidden", "loading", "summoned"} /\ record.state \in Active
  BY DEF Summon, Having, Current, Active
<1>3. CASE Becomes(r, failed) /\ UNCHANGED draining
  <2>1. failed \in Records  BY <1>1 DEF Records, States, Active
  <2>2. /\ failed.state = "failed" /\ failed.loader = record.loader /\ failed.item = record.item
        /\ failed.generation = record.generation /\ failed.queue = record.queue
        /\ failed.source = record.source /\ failed.plugin = record.plugin
    BY <1>1 DEF Records
  <2>3. Sound(failed)
    <3> HIDE DEF failed
    <3> QED  BY <1>1, <2>2 DEF Sound
  <2>4. Progress(record, failed)
    <3> HIDE DEF failed, record
    <3> QED  BY <1>2, <2>2 DEF Progress, Active
  <2> QED  BY <1>3, <2>1, <2>3, <2>4 DEF Requested
<1>4. CASE Len(record.queue) < QueuedCalls /\ Len(draining) < MaxDrains
           /\ (\/ Becomes(r, asked) /\ UNCHANGED draining
               \/ Drains(r, asked, FALSE))
  <2> DEFINE state == IF record.state = "registered_hidden" THEN "loading" ELSE record.state
             fresh == [record EXCEPT !.generation = g, !.loader = g, !.state = state]
  <2>1. g \in Nat /\ g # 0 /\ record.generation \in Nat /\ state \in {"loading", "summoned"}
    BY <1>1, <1>2 DEF Records, Sound
  <2>2. /\ record.loader # 0 => g = record.generation /\ g = record.loader /\ state = record.state
        /\ record.loader = 0 => g > record.generation /\ record.item = 0 /\ record.queue = <<>>
    BY <1>1, <1>2 DEF Records, Sound
  <2> HIDE DEF g, state, record
  <2>3. /\ fresh.generation = g /\ fresh.loader = g /\ fresh.state = state
        /\ fresh.source = record.source /\ fresh.plugin = record.plugin
        /\ fresh.item = record.item /\ fresh.queue = record.queue
        /\ fresh.overtaken = record.overtaken
    BY <1>1 DEF Records
  <2>4. fresh \in Records  BY <1>1, <2>1 DEF Records, States, Active
  <2>5. asked = Queued(fresh, g)
    BY <1>1 DEF Queued, Records, state
  <2> HIDE DEF fresh, asked
  <2>6. Sound(fresh)
    <3>1. \A i \in DOMAIN fresh.queue : fresh.queue[i] = g
      BY <1>1, <2>2, <2>3 DEF Sound
    <3>2. fresh.item \in {0, g}  BY <1>1, <2>2, <2>3 DEF Sound
    <3>3. fresh.state = "summoned" /\ ~fresh.overtaken => fresh.item # 0
      BY <1>1, <1>2, <2>1, <2>2, <2>3 DEF Sound, state
    <3>4. Len(fresh.queue) <= QueuedCalls  BY <1>1, <2>3 DEF Sound
    <3> QED  BY <2>1, <2>3, <3>1, <3>2, <3>3, <3>4 DEF Sound
  <2>7. /\ asked \in Records /\ Sound(asked)
        /\ asked = [fresh EXCEPT !.queue = Append(fresh.queue, fresh.generation)]
    BY <1>4, <2>1, <2>3, <2>4, <2>5, <2>6, QueuedSound
  <2>8. /\ asked.generation = g /\ asked.item = record.item /\ asked.state = state
        /\ asked.source = record.source /\ asked.plugin = record.plugin
    BY <2>3, <2>4, <2>7 DEF Records
  <2>9. Progress(record, asked)
    BY <1>2, <2>1, <2>2, <2>8 DEF Progress, Active
  <2> QED  BY <1>4, <2>7, <2>9 DEF Requested, record
<1> QED  BY <1>3, <1>4 DEF Summon, Current

\* Every request on a registration moves it on.
LEMMA AllRequests ==
  ASSUME RecordsSound, NEW r \in DOMAIN registrations,
         Summon(r) \/ CallQueued(r) \/ Hide(r) \/ Unregister(r)
  PROVE  Requested(r)
<1> DEFINE record == registrations[r]
<1>1. record \in Records /\ Sound(record)  BY CurrentSound
<1>2. record.generation \in Nat /\ record.generation + 1 \in Nat
      /\ record.generation + 1 > record.generation
  BY <1>1 DEF Records
<1>3. CASE Summon(r)  BY <1>3, SummonRequests
<1>4. CASE CallQueued(r)
  <2> DEFINE q == Queued(record, record.generation)
  <2>1. /\ record.state = "loading" /\ Len(record.queue) < QueuedCalls
        /\ Becomes(r, q) /\ UNCHANGED draining
    BY <1>4 DEF CallQueued, Having, Current
  <2>2. /\ q \in Records /\ Sound(q)
        /\ q = [record EXCEPT !.queue = Append(record.queue, record.generation)]
    BY <1>1, <2>1, QueuedSound DEF Sound
  <2>3. /\ q.generation = record.generation /\ q.item = record.item /\ q.state = record.state
        /\ q.source = record.source /\ q.plugin = record.plugin
    BY <1>1 DEF Queued, Records
  <2> HIDE DEF q
  <2>4. Progress(record, q)
    <3> HIDE DEF record
    <3> QED  BY <2>1, <2>3 DEF Progress, Active
  <2> QED  BY <2>1, <2>2, <2>4 DEF Requested
<1>5. ASSUME NEW s \in {"registered_hidden", "unregistering"}, record.state \in Active,
             Becomes(r, [Unloaded(record) EXCEPT !.generation = @ + 1, !.state = s]),
             UNCHANGED draining
      PROVE  Requested(r)
  <2> DEFINE idle == [Unloaded(record) EXCEPT !.generation = record.generation + 1, !.state = s]
  <2>1. [Unloaded(record) EXCEPT !.generation = @ + 1, !.state = s] = idle
    BY <1>1 DEF Unloaded, Records
  <2>2. idle \in Records /\ Sound(idle) /\ idle.item = 0
    BY <1>1, <1>2, UnloadedSound DEF States, Active
  <2>3. /\ idle.generation = record.generation + 1 /\ idle.state = s
        /\ idle.source = record.source /\ idle.plugin = record.plugin
    BY <1>1 DEF Unloaded, Records
  <2> HIDE DEF idle
  <2>4. Progress(record, idle)
    <3> HIDE DEF record
    <3> QED  BY <1>2, <1>5, <2>2, <2>3 DEF Progress, Active
  <2> QED  BY <1>5, <2>1, <2>2, <2>4 DEF Requested
<1>6. CASE Hide(r)
  <2>1. record.state \in Active  BY <1>6 DEF Hide, Having, Current, Active
  <2> QED  BY <1>5, <1>6, <2>1 DEF Hide, Current
<1>7. CASE Unregister(r)
  <2>1. record.state \in Active  BY <1>7 DEF Unregister, Having, Current
  <2> QED  BY <1>5, <1>7, <2>1 DEF Unregister, Current
<1> QED  BY <1>3, <1>4, <1>6, <1>7

\* What a request leaves: the registration, and the drain it may have begun.
LEMMA RequestedBecomes ==
  ASSUME RecordsSound, NEW r \in DOMAIN registrations, Requested(r)
  PROVE  \E record \in Records :
           /\ Sound(record) /\ Progress(registrations[r], record) /\ Becomes(r, record)
           /\ \/ UNCHANGED draining
              \/ \E d : draining' = Append(draining, d)
<1>1. PICK asked \in Records :
        /\ Sound(asked) /\ Progress(registrations[r], asked)
        /\ \/ Becomes(r, asked) /\ UNCHANGED draining
           \/ Drains(r, asked, FALSE) /\ Len(draining) < MaxDrains
  BY DEF Requested
<1>2. CASE Becomes(r, asked) /\ UNCHANGED draining  BY <1>1, <1>2
<1>3. CASE Drains(r, asked, FALSE)
  <2> DEFINE bare == [asked EXCEPT !.queue = <<>>]
  <2>1. /\ bare \in Records /\ Sound(bare) /\ bare.source = asked.source
        /\ bare.plugin = asked.plugin /\ bare.state = asked.state
        /\ bare.generation = asked.generation /\ bare.item = asked.item
    BY <1>1, EmptiedSound
  <2>2. Becomes(r, bare) /\ \E d : draining' = Append(draining, d)  BY <1>3 DEF Drains
  <2> HIDE DEF bare
  <2>3. Progress(registrations[r], bare)  BY <1>1, <2>1 DEF Progress
  <2> QED  BY <2>1, <2>2, <2>3
<1> QED  BY <1>1, <1>2, <1>3

-----------------------------------------------------------------------------
(* What a Loader, a drain and a scan make of a registration. *)

\* A Loader that calls back brings the item of the present generation.
LEMMA LoadedSound ==
  ASSUME RecordsSound, NEW r \in DOMAIN registrations, NEW g,
         registrations[r].generation = g, registrations[r].state = "loading"
  PROVE  /\ [registrations[r] EXCEPT !.item = g] \in Records
         /\ Sound([registrations[r] EXCEPT !.item = g])
         /\ g \in Nat /\ g # 0
         /\ [registrations[r] EXCEPT !.item = g].item = g
         /\ [registrations[r] EXCEPT !.item = g].state = "loading"
         /\ [registrations[r] EXCEPT !.item = g].generation = g
         /\ [registrations[r] EXCEPT !.item = g].source = registrations[r].source
         /\ [registrations[r] EXCEPT !.item = g].plugin = registrations[r].plugin
<1> DEFINE record == registrations[r]
           loaded == [record EXCEPT !.item = g]
<1>1. record \in Records /\ Sound(record)  BY CurrentSound
<1>2. g \in Nat /\ record.loader = g /\ g # 0  BY <1>1 DEF Records, Sound
<1>3. loaded \in Records  BY <1>1, <1>2 DEF Records
<1>4. /\ loaded.item = g /\ loaded.loader = record.loader /\ loaded.state = record.state
      /\ loaded.generation = g /\ loaded.queue = record.queue
      /\ loaded.source = record.source /\ loaded.plugin = record.plugin
  BY <1>1 DEF Records
<1> HIDE DEF loaded
<1>5. Sound(loaded)  BY <1>1, <1>2, <1>4 DEF Sound
<1> QED  BY <1>2, <1>3, <1>4, <1>5 DEF loaded

\* A Loader that fails leaves nothing behind.
LEMMA LoadErrorSound ==
  ASSUME NEW record \in Records
  PROVE  /\ [Unloaded(record) EXCEPT !.state = "failed"] \in Records
         /\ Sound([Unloaded(record) EXCEPT !.state = "failed"])
         /\ [Unloaded(record) EXCEPT !.state = "failed"].state = "failed"
         /\ [Unloaded(record) EXCEPT !.state = "failed"].source = record.source
         /\ [Unloaded(record) EXCEPT !.state = "failed"].plugin = record.plugin
<1> DEFINE failed == [Unloaded(record) EXCEPT !.state = "failed"]
<1>1. record.generation \in Nat /\ "failed" \in States \ {"loading", "summoned"}
  BY DEF Records, States, Active
<1>2. [Unloaded(record) EXCEPT !.generation = record.generation, !.state = "failed"] = failed
  BY DEF Unloaded, Records
<1>3. failed \in Records /\ Sound(failed)  BY <1>1, <1>2, UnloadedSound
<1>4. failed.state = "failed" /\ failed.source = record.source /\ failed.plugin = record.plugin
  BY DEF Unloaded, Records
<1> QED  BY <1>3, <1>4

\* The drain of a Loader that ends leaves a summoned panel: with the item of its
\* generation, unless it was overtaken.
LEMMA OpenedSound ==
  ASSUME RecordsSound, NEW d \in Drainings, NEW i, DrainSound(d, i), d.loading
  PROVE  LET record == registrations[d.registration]
             opened == [record EXCEPT !.state = "summoned",
                          !.overtaken = record.generation # d.generation]
         IN /\ opened \in Records /\ Sound(opened) /\ opened.state = "summoned"
            /\ opened.source = record.source /\ opened.plugin = record.plugin
<1> DEFINE record == registrations[d.registration]
           late == record.generation # d.generation
           opened == [record EXCEPT !.state = "summoned", !.overtaken = late]
<1>1. record \in Records /\ Sound(record)  BY CurrentSound DEF DrainSound
<1>2. late \in BOOLEAN /\ (~late => record.item # 0)  BY DEF DrainSound
<1> HIDE DEF late
<1>3. opened \in Records  BY <1>1, <1>2 DEF Records, States, Active
<1>4. /\ opened.state = "summoned" /\ opened.overtaken = late /\ opened.item = record.item
      /\ opened.loader = record.loader /\ opened.generation = record.generation
      /\ opened.queue = record.queue /\ opened.source = record.source
      /\ opened.plugin = record.plugin
  BY <1>1 DEF Records
<1> HIDE DEF opened, record
<1>5. Sound(opened)  BY <1>1, <1>2, <1>4 DEF Sound
<1> QED  BY <1>3, <1>4, <1>5 DEF opened, record, late

\* Who collides with an installed plugin is unloaded.
LEMMA RecheckedSound ==
  ASSUME NEW record \in Records, Sound(record), NEW ids, NEW dirs
  PROVE  /\ Rechecked(record, ids, dirs) \in Records /\ Sound(Rechecked(record, ids, dirs))
         /\ Rechecked(record, ids, dirs).source = record.source
         /\ Rechecked(record, ids, dirs).plugin = record.plugin
         /\ \/ Rechecked(record, ids, dirs) = record
            \/ /\ record.state \in Active
               /\ Rechecked(record, ids, dirs).state = "failed_collision"
<1> DEFINE collided == [Unloaded(record) EXCEPT !.generation = @ + 1, !.state = "failed_collision"]
<1>1. record.generation + 1 \in Nat /\ "failed_collision" \in States \ {"loading", "summoned"}
  BY DEF Records, States, Active
<1>2. collided
        = [Unloaded(record) EXCEPT !.generation = record.generation + 1, !.state = "failed_collision"]
  BY DEF Unloaded, Records
<1>3. collided \in Records /\ Sound(collided)  BY <1>1, <1>2, UnloadedSound
<1>4. /\ collided.state = "failed_collision" /\ collided.source = record.source
      /\ collided.plugin = record.plugin
  BY DEF Unloaded, Records
<1> HIDE DEF collided
<1>5. \/ Rechecked(record, ids, dirs) = record
      \/ record.state \in Active /\ Rechecked(record, ids, dirs) = collided
  BY DEF Rechecked, collided
<1> QED  BY <1>3, <1>4, <1>5

\* The innermost drain is one of the drains under way.
LEMMA InnermostDrain ==
  ASSUME DrainsSound, ~Idle
  PROVE  /\ Len(draining) \in DOMAIN draining /\ Len(draining) \in Nat \ {0}
         /\ DOMAIN draining = 1 .. Len(draining)
         /\ Last(draining) \in Drainings /\ Last(draining) = draining[Len(draining)]
         /\ DrainSound(Last(draining), Len(draining))
         /\ Front(draining) \in Seq(Drainings) /\ Len(Front(draining)) = Len(draining) - 1
         /\ \A i \in 1 .. Len(draining) - 1 : Front(draining)[i] = draining[i]
<1> DEFINE n == Len(draining)
<1>1. draining \in Seq(Drainings) /\ n \in Nat \ {0} /\ DOMAIN draining = 1 .. n
  BY LenProperties, EmptySeq DEF DrainsSound, Idle
<1>2. n \in DOMAIN draining /\ draining[n] \in Drainings /\ n - 1 \in Nat
  BY <1>1, ElementOfSeq
<1>3. \A i \in 1 .. n - 1 : draining[i] \in Drainings  BY <1>1, ElementOfSeq
<1>4. /\ SubSeq(draining, 1, n - 1) \in Seq(Drainings)
      /\ Len(SubSeq(draining, 1, n - 1)) = IF 1 <= n - 1 THEN n - 1 - 1 + 1 ELSE 0
      /\ \A i \in 1 .. n - 1 - 1 + 1 : SubSeq(draining, 1, n - 1)[i] = draining[1 + i - 1]
  BY <1>2, <1>3, SubSeqProperties
<1>5. n - 1 - 1 + 1 = n - 1 /\ (\A i \in 1 .. n - 1 : 1 + i - 1 = i)  BY <1>1
<1>6. Len(Front(draining)) = n - 1  BY <1>1, <1>4 DEF Front
<1>7. \A i \in 1 .. n - 1 : Front(draining)[i] = draining[i]  BY <1>4, <1>5 DEF Front
<1> QED  BY <1>1, <1>2, <1>4, <1>6, <1>7 DEF DrainsSound, Front, Last

-----------------------------------------------------------------------------
(* Every action keeps the registrations sound. *)

\* A registration that is committed starts sound.
LEMMA NewSound ==
  ASSUME WorldOK, RecordsSound, NEW s \in Sources, manifest[s] # NoPlugin,
         registrations' = Append(registrations, NewRegistration(s))
  PROVE  RecordsSound'
<1>1. <<>> \in Seq(Nat) /\ Len(<<>>) = 0 /\ DOMAIN <<>> = {}  BY EmptySeq
<1>2. manifest[s] \in PluginIds  BY DEF WorldOK
<1>3. NewRegistration(s) \in Records
  BY <1>1, <1>2 DEF NewRegistration, Records, States, Active
<1>4. Sound(NewRegistration(s))  BY <1>1, Numbers DEF NewRegistration, Sound
<1>5. /\ registrations' \in Seq(Records) /\ Len(registrations') = Len(registrations) + 1
      /\ \A i \in 1 .. Len(registrations) : registrations'[i] = registrations[i]
      /\ registrations'[Len(registrations) + 1] = NewRegistration(s)
  BY <1>3, AppendProperties DEF RecordsSound
<1>6. DOMAIN registrations' = 1 .. Len(registrations) + 1
      /\ DOMAIN registrations = 1 .. Len(registrations) /\ Len(registrations) \in Nat
  BY <1>5, LenProperties DEF RecordsSound
<1>7. ASSUME NEW r \in DOMAIN registrations' PROVE Sound(registrations'[r])
  <2>1. CASE r = Len(registrations) + 1  BY <2>1, <1>4, <1>5
  <2>2. CASE r # Len(registrations) + 1
    <3>1. r \in 1 .. Len(registrations)  BY <2>2, <1>6
    <3> QED  BY <3>1, <1>5, <1>6 DEF RecordsSound
  <2> QED  BY <2>1, <2>2
<1> QED  BY <1>5, <1>7 DEF RecordsSound

\* Every step of the host keeps all registrations sound.
LEMMA RecordsStep ==
  ASSUME LoadersSound, [Next]_vars
  PROVE  RecordsSound'
<1> USE DEF LoadersSound
<1>1. CASE UNCHANGED registrations  BY <1>1 DEF RecordsSound
<1>2. CASE \E o \in DOMAIN operations : FinalizeRegistration(o)
  <2>1. PICK o \in DOMAIN operations : FinalizeRegistration(o)  BY <1>2
  <2>2. operations[o].source \in Sources
    <3>1. o \in 1 .. Len(operations)  BY LenProperties DEF WorldOK
    <3>2. operations[o] \in Operations  BY <3>1, ElementOfSeq DEF WorldOK
    <3> QED  BY <3>2 DEF Operations
  <2>3. CASE UNCHANGED registrations  BY <2>3, <1>1
  <2>4. CASE registrations' # registrations
    <3>1. manifest[operations[o].source] # NoPlugin
          /\ registrations' = Append(registrations, NewRegistration(operations[o].source))
      BY <2>1, <2>4 DEF FinalizeRegistration, Valid
    <3> QED  BY <2>2, <3>1, NewSound
  <2> QED  BY <2>3, <2>4
<1>3. ASSUME NEW r \in DOMAIN registrations,
             Summon(r) \/ CallQueued(r) \/ Hide(r) \/ Unregister(r)
      PROVE  RecordsSound'
  BY <1>3, AllRequests, RequestedBecomes, OneBecomes
<1>4. ASSUME NEW r \in DOMAIN registrations, FinalizeUnregister(r) PROVE RecordsSound'
  <2> DEFINE record == registrations[r]
             gone == [record EXCEPT !.state = "unregistered"]
  <2>1. record \in Records /\ Sound(record)  BY CurrentSound
  <2>2. record.state = "unregistering"  BY <1>4 DEF FinalizeUnregister, Having, Current
  <2>3. gone \in Records  BY <2>1 DEF Records, States
  <2>4. /\ gone.state = "unregistered" /\ gone.loader = record.loader
        /\ gone.item = record.item /\ gone.queue = record.queue
        /\ gone.generation = record.generation
    BY <2>1 DEF Records
  <2>5. Sound(gone)
    <3> HIDE DEF gone, record
    <3> QED  BY <2>1, <2>2, <2>4 DEF Sound
  <2> QED  BY <1>4, <2>3, <2>5, OneBecomes DEF FinalizeUnregister, Current
<1>5. ASSUME NEW l \in loads, HandleLoaded(l[1], l[2]) PROVE RecordsSound'
  <2> DEFINE loaded == [registrations[l[1]] EXCEPT !.item = l[2]]
  <2>1. l[1] \in DOMAIN registrations  BY DEF LoadsKnown
  <2>2. CASE /\ registrations[l[1]].generation = l[2] /\ registrations[l[1]].state = "loading"
             /\ Becomes(l[1], [loaded EXCEPT !.queue = <<>>])
    <3>1. loaded \in Records /\ Sound(loaded)  BY <2>1, <2>2, LoadedSound
    <3> HIDE DEF loaded
    <3>2. [loaded EXCEPT !.queue = <<>>] \in Records /\ Sound([loaded EXCEPT !.queue = <<>>])
      BY <3>1, EmptiedSound
    <3> QED  BY <2>1, <2>2, <3>2, OneBecomes
  <2> QED  BY <1>1, <1>5, <2>2 DEF HandleLoaded, Concerns, Current, Drains
<1>6. ASSUME NEW l \in loads, HandleLoadError(l[1], l[2]) PROVE RecordsSound'
  <2>1. l[1] \in DOMAIN registrations  BY DEF LoadsKnown
  <2>2. CASE Becomes(l[1], [Unloaded(registrations[l[1]]) EXCEPT !.state = "failed"])
    BY <2>1, <2>2, CurrentSound, LoadErrorSound, OneBecomes
  <2> QED  BY <1>1, <1>6, <2>2 DEF HandleLoadError, Current
<1>7. CASE FinishDrain
  <2> DEFINE d == Last(draining)
  <2>1. d \in Drainings /\ DrainSound(d, Len(draining))  BY <1>7, InnermostDrain DEF FinishDrain
  <2>2. CASE d.loading
    <3> DEFINE record == registrations[d.registration]
               opened == [record EXCEPT !.state = "summoned",
                            !.overtaken = record.generation # d.generation]
    <3>1. Becomes(d.registration, opened)  BY <1>7, <2>2 DEF FinishDrain, Current
    <3>2. opened \in Records /\ Sound(opened)  BY <2>1, <2>2, OpenedSound
    <3>3. d.registration \in DOMAIN registrations  BY <2>1 DEF DrainSound
    <3> HIDE DEF opened, d
    <3> QED  BY <3>1, <3>2, <3>3, OneBecomes
  <2>3. CASE ~d.loading  BY <1>1, <1>7, <2>3 DEF FinishDrain
  <2> QED  BY <2>2, <2>3
<1>8. CASE ScanEnds
  <2>1. PICK ids, dirs :
          registrations' = [r \in DOMAIN registrations |-> Rechecked(Current(r), ids, dirs)]
    BY <1>8 DEF ScanEnds
  <2>2. DOMAIN registrations = 1 .. Len(registrations) /\ Len(registrations) \in Nat
    BY LenProperties DEF RecordsSound
  <2>3. ASSUME NEW r \in DOMAIN registrations
        PROVE  registrations'[r] \in Records /\ Sound(registrations'[r])
    BY <2>1, CurrentSound, RecheckedSound DEF Current
  <2>4. registrations' \in [1 .. Len(registrations) -> Records]
    BY <2>1, <2>2, <2>3
  <2>5. registrations' \in Seq(Records) /\ DOMAIN registrations' = DOMAIN registrations
    BY <2>1, <2>2, <2>4, SeqDef
  <2> QED  BY <2>3, <2>5 DEF RecordsSound
<1>9. CASE \/ \E s \in Sources : SourceChanges(s) \/ \E spelling \in Spellings : Register(s, spelling)
           \/ \E r \in DOMAIN registrations : CallDelivered(r)
           \/ \E i \in DOMAIN tombstones : Forget(i)
           \/ DeliverEntry \/ TombstoneExpires \/ ScanStarts \/ UNCHANGED vars
  BY <1>1, <1>9
  DEF SourceChanges, Register, CallDelivered, Forget, DeliverEntry, TombstoneExpires, ScanStarts, vars
<1> QED  BY <1>2, <1>3, <1>4, <1>5, <1>6, <1>7, <1>8, <1>9 DEF Next

\* A validation that ends keeps the records of the operations.
LEMMA Settled ==
  ASSUME WorldOK, NEW o \in DOMAIN operations, NEW state \in {"rejected", "registered_hidden"}
  PROVE  /\ [operations EXCEPT ![o].state = state] \in Seq(Operations)
         /\ Evicted([operations EXCEPT ![o].state = state]) \in Seq(Operations)
<1> DEFINE ops == [operations EXCEPT ![o].state = state]
<1>1. o \in 1 .. Len(operations)  BY LenProperties DEF WorldOK
<1>2. operations[o] \in Operations  BY <1>1, ElementOfSeq DEF WorldOK
<1>3. [operations[o] EXCEPT !.state = state] \in Operations  BY <1>2 DEF Operations
<1>4. ops = [operations EXCEPT ![o] = [operations[o] EXCEPT !.state = state]]  OBVIOUS
<1>5. ops \in Seq(Operations)  BY <1>1, <1>3, <1>4, ExceptSeq DEF WorldOK
<1> HIDE DEF ops
<1>6. DOMAIN ops = 1 .. Len(ops) /\ Len(ops) \in Nat  BY <1>5, LenProperties
<1>7. \A p \in DOMAIN ops : ops[p] \in Operations  BY <1>5, <1>6, ElementOfSeq
<1>8. \A p \in DOMAIN ops : [ops[p] EXCEPT !.state = "evicted"] \in Operations
  BY <1>7 DEF Operations
<1>9. Evicted(ops) \in [1 .. Len(ops) -> Operations]  BY <1>6, <1>7, <1>8 DEF Evicted
<1>10. Evicted(ops) \in Seq(Operations)  BY <1>6, <1>9, SeqDef
<1> QED  BY <1>5, <1>10 DEF ops

\* Every step keeps the manifests and the operations.
LEMMA WorldStep ==
  ASSUME WorldOK, [Next]_vars
  PROVE  WorldOK'
<1>1. CASE UNCHANGED <<manifest, operations>>  BY <1>1 DEF WorldOK
<1>2. ASSUME NEW s \in Sources, SourceChanges(s) PROVE WorldOK'
  <2>1. manifest' \in [Sources -> PluginIds \cup {NoPlugin}] /\ UNCHANGED operations
    BY <1>2 DEF SourceChanges, WorldOK
  <2> QED  BY <2>1 DEF WorldOK
<1>3. ASSUME NEW s \in Sources, NEW spelling \in Spellings, Register(s, spelling) PROVE WorldOK'
  <2> DEFINE op == [state |-> "validating", source |-> s, spelling |-> spelling]
  <2>1. op \in Operations  BY DEF Operations
  <2>2. operations' = Append(operations, op) /\ UNCHANGED manifest  BY <1>3 DEF Register, world
  <2>3. operations' \in Seq(Operations)  BY <2>1, <2>2, AppendProperties DEF WorldOK
  <2> QED  BY <2>2, <2>3 DEF WorldOK
<1>4. ASSUME NEW o \in DOMAIN operations, FinalizeRegistration(o) PROVE WorldOK'
  <2>1. operations' \in Seq(Operations)  BY <1>4, Settled DEF FinalizeRegistration
  <2> QED  BY <1>4, <2>1 DEF FinalizeRegistration, world, WorldOK
<1>5. ASSUME NEW r \in DOMAIN registrations,
             Summon(r) \/ CallQueued(r) \/ CallDelivered(r) \/ Hide(r)
               \/ Unregister(r) \/ FinalizeUnregister(r)
      PROVE  WorldOK'
  BY <1>1, <1>5 DEF Summon, CallQueued, CallDelivered, Hide, Unregister, FinalizeUnregister, world
<1>6. ASSUME NEW l \in loads, HandleLoaded(l[1], l[2]) \/ HandleLoadError(l[1], l[2])
      PROVE  WorldOK'
  BY <1>1, <1>6 DEF HandleLoaded, HandleLoadError, world
<1>7. CASE \/ DeliverEntry \/ FinishDrain \/ TombstoneExpires \/ ScanStarts \/ ScanEnds
           \/ \E i \in DOMAIN tombstones : Forget(i)
  BY <1>1, <1>7
  DEF DeliverEntry, FinishDrain, TombstoneExpires, ScanStarts, ScanEnds, Forget, world
<1>8. CASE UNCHANGED vars  BY <1>1, <1>8 DEF vars, world
<1> QED  BY <1>2, <1>3, <1>4, <1>5, <1>6, <1>7, <1>8 DEF Next

\* No step forgets a registration.
LEMMA DomainStep ==
  ASSUME RecordsSound, [Next]_vars
  PROVE  /\ DOMAIN registrations \subseteq DOMAIN registrations'
         /\ \/ DOMAIN registrations' = DOMAIN registrations
            \/ \E o \in DOMAIN operations : FinalizeRegistration(o)
<1>1. CASE UNCHANGED registrations  BY <1>1
<1>2. ASSUME NEW r, NEW record, Becomes(r, record) PROVE DOMAIN registrations' = DOMAIN registrations
  BY <1>2 DEF Becomes
<1>3. ASSUME NEW o \in DOMAIN operations, FinalizeRegistration(o)
      PROVE  DOMAIN registrations \subseteq DOMAIN registrations'
  <2>1. CASE UNCHANGED registrations  BY <2>1
  <2>2. CASE \E record : registrations' = Append(registrations, record)
    <3>1. PICK record : registrations' = Append(registrations, record)  BY <2>2
    <3>2. registrations \in Seq(Records \cup {record})
      BY SeqMonotonic DEF RecordsSound
    <3>3. registrations' \in Seq(Records \cup {record}) /\ Len(registrations') = Len(registrations) + 1
      BY <3>1, <3>2, AppendProperties
    <3> QED  BY <3>2, <3>3, LenProperties
  <2> QED  BY <1>3, <2>1, <2>2 DEF FinalizeRegistration
<1>4. ASSUME NEW r \in DOMAIN registrations,
             Summon(r) \/ CallQueued(r) \/ Hide(r) \/ Unregister(r) \/ FinalizeUnregister(r)
      PROVE  DOMAIN registrations' = DOMAIN registrations
  BY <1>2, <1>4 DEF Summon, CallQueued, Hide, Unregister, FinalizeUnregister, Drains
<1>5. ASSUME NEW l \in loads, HandleLoaded(l[1], l[2]) \/ HandleLoadError(l[1], l[2])
      PROVE  DOMAIN registrations' = DOMAIN registrations
  BY <1>2, <1>5 DEF HandleLoaded, HandleLoadError, Drains
<1>6. CASE FinishDrain  BY <1>2, <1>6 DEF FinishDrain
<1>7. CASE ScanEnds  BY <1>7 DEF ScanEnds
<1>8. CASE \/ \E s \in Sources : SourceChanges(s) \/ \E spelling \in Spellings : Register(s, spelling)
           \/ \E r \in DOMAIN registrations : CallDelivered(r)
           \/ \E i \in DOMAIN tombstones : Forget(i)
           \/ DeliverEntry \/ TombstoneExpires \/ ScanStarts \/ UNCHANGED vars
  BY <1>1, <1>8
  DEF SourceChanges, Register, CallDelivered, Forget, DeliverEntry, TombstoneExpires, ScanStarts, vars
<1> QED  BY <1>3, <1>4, <1>5, <1>6, <1>7, <1>8 DEF Next

\* A Loader that owes a callback is that of a registration, started by a summon.
LEMMA LoadsStep ==
  ASSUME RecordsSound, LoadsKnown, [Next]_vars
  PROVE  LoadsKnown'
<1>1. DOMAIN registrations \subseteq DOMAIN registrations'  BY DomainStep
<1>2. CASE loads' \subseteq loads  BY <1>1, <1>2 DEF LoadsKnown
<1>3. ASSUME NEW r \in DOMAIN registrations, Summon(r) PROVE LoadsKnown'
  <2> DEFINE g == IF Current(r).loader # 0 THEN Current(r).generation ELSE Current(r).generation + 1
  <2>1. loads' = loads \/ loads' = loads \cup {<<r, g>>}  BY <1>3 DEF Summon
  <2> HIDE DEF g
  <2>2. \A l \in loads' : l \in loads \/ l[1] = r  BY <2>1
  <2> QED  BY <1>1, <2>2 DEF LoadsKnown
<1> QED
  BY <1>2, <1>3
  DEF Next, vars, SourceChanges, Register, FinalizeRegistration, CallQueued, CallDelivered, Hide,
      Unregister, FinalizeUnregister, DeliverEntry, FinishDrain, HandleLoaded, HandleLoadError,
      Forget, TombstoneExpires, ScanStarts, ScanEnds

-----------------------------------------------------------------------------
(* Every action keeps the drains sound. *)

\* A drain under way stays sound when its registration, or another, moves on.
LEMMA DrainKept ==
  ASSUME RecordsSound, NEW r \in DOMAIN registrations, NEW record \in Records, Becomes(r, record),
         Progress(registrations[r], record), NEW d \in Drainings, NEW i, DrainSound(d, i)
  PROVE  DrainSound(d, i)'
<1>1. DOMAIN registrations' = DOMAIN registrations  BY DEF Becomes
<1>2. d.registration \in DOMAIN registrations  BY DEF DrainSound
<1>3. registrations'[d.registration] = IF d.registration = r THEN record
                                       ELSE registrations[d.registration]
  BY <1>2 DEF Becomes
<1>4. CASE d.registration # r  BY <1>1, <1>3, <1>4 DEF DrainSound
<1>5. CASE d.registration = r
  <2> DEFINE old == registrations[r]
  <2>1. registrations'[d.registration] = record  BY <1>3, <1>5
  <2>2. old.generation \in Nat /\ record.generation \in Nat /\ d.generation \in Nat
    BY CurrentSound DEF Records, Drainings
  <2>3. /\ record.state \in Active /\ record.item \in {0, d.generation}
        /\ d.generation <= record.generation
        /\ d.loading /\ record.generation = d.generation => record.item # 0
    BY <1>5, <2>2 DEF DrainSound, Progress
  <2> HIDE DEF old
  <2> QED  BY <1>1, <1>2, <2>1, <2>3 DEF DrainSound
<1> QED  BY <1>4, <1>5

\* A drain stays sound when no registration moves.
LEMMA DrainSame ==
  ASSUME UNCHANGED registrations, NEW d, NEW i, DrainSound(d, i)
  PROVE  DrainSound(d, i)'
BY DEF DrainSound

\* A drain begins with a queue that belongs to the item.
LEMMA DrainBegins ==
  ASSUME RecordsSound, DrainsSound, NEW r \in DOMAIN registrations, NEW record \in Records,
         Sound(record), record.state \in Active, NEW loading \in BOOLEAN,
         Drains(r, record, loading), Len(draining) < MaxDrains,
         Idle \/ Progress(registrations[r], record), loading => Idle /\ record.item # 0
  PROVE  DrainsSound'
<1> DEFINE bare == [record EXCEPT !.queue = <<>>]
<1>0. PICK n \in Nat : n = Len(draining)  BY LenProperties DEF DrainsSound
<1>1. n \in Nat /\ DOMAIN draining = 1 .. n  BY <1>0, LenProperties DEF DrainsSound
<1>2. /\ bare \in Records /\ bare.source = record.source /\ bare.plugin = record.plugin
      /\ bare.state = record.state /\ bare.generation = record.generation /\ bare.item = record.item
  BY EmptiedSound
<1>4. r \in Nat /\ r \in 1 .. Len(registrations)  BY CurrentSound, LenProperties DEF RecordsSound
<1>5. PICK d \in Drainings :
        d = [registration |-> r, generation |-> record.generation, entries |-> record.queue,
             calling |-> FALSE, loading |-> loading]
  BY <1>4 DEF Drainings, Records
<1>6. /\ d.registration = r /\ d.generation = record.generation /\ d.entries = record.queue
      /\ d.loading = loading
  BY <1>5
<1>3. Becomes(r, bare) /\ draining' = Append(draining, d)  BY <1>5 DEF Drains
<1> HIDE DEF bare
<1>7. registrations'[r] = bare /\ DOMAIN registrations' = DOMAIN registrations
  BY <1>3 DEF Becomes
<1>8. /\ draining' \in Seq(Drainings) /\ Len(draining') = n + 1
      /\ \A i \in 1 .. n : draining'[i] = draining[i]
      /\ draining'[n + 1] = d
  BY <1>0, <1>3, <1>5, AppendProperties DEF DrainsSound
<1>9. DOMAIN draining' = 1 .. n + 1  BY <1>8, LenProperties
<1>10. Idle => n = 0  BY <1>0, EmptySeq DEF Idle
<1>11. DrainSound(d, n + 1)'
  <2>1. record.item \in {0, record.generation} /\ record.generation \in Nat
    BY DEF Sound, Records
  <2>2. Len(d.entries) <= QueuedCalls /\ \A k \in DOMAIN d.entries : d.entries[k] = d.generation
    BY <1>6 DEF Sound
  <2>3. loading => n + 1 = 1  BY <1>10
  <2> QED  BY <1>2, <1>6, <1>7, <2>1, <2>2, <2>3 DEF DrainSound
<1>12. ASSUME NEW i \in 1 .. n + 1 PROVE DrainSound(draining[i], i)'
  <2>1. CASE i = n + 1  BY <1>8, <1>11, <2>1 DEF DrainSound
  <2>2. CASE i # n + 1
    <3>1. i \in 1 .. n /\ draining'[i] = draining[i]  BY <1>1, <1>8, <2>2
    <3>2. PICK e \in Drainings : e = draining[i] /\ DrainSound(e, i)
      BY <1>0, <1>1, <3>1, ElementOfSeq DEF DrainsSound
    <3>3. ~Idle  BY <1>1, <1>10, <3>1
    <3>4. Progress(registrations[r], bare)  BY <1>2, <3>3 DEF Progress
    <3>5. DrainSound(e, i)'  BY <1>2, <1>3, <3>2, <3>4, DrainKept
    <3> QED  BY <3>1, <3>2, <3>5 DEF DrainSound
  <2> QED  BY <2>1, <2>2
<1>13. n + 1 <= MaxDrains  BY <1>0, <1>1, Numbers
<1> QED  BY <1>8, <1>9, <1>12, <1>13 DEF DrainsSound

\* The drains that a step does not touch stay sound.
LEMMA DrainsKept ==
  ASSUME DrainsSound, UNCHANGED draining,
         \A d \in Drainings, i \in Nat : DrainSound(d, i) => DrainSound(d, i)'
  PROVE  DrainsSound'
<1>1. DOMAIN draining = 1 .. Len(draining) /\ Len(draining) \in Nat
  BY LenProperties DEF DrainsSound
<1>2. ASSUME NEW i \in DOMAIN draining PROVE DrainSound(draining[i], i)'
  <2>1. PICK d \in Drainings : d = draining[i] /\ DrainSound(d, i)
    BY <1>1, ElementOfSeq DEF DrainsSound
  <2>2. i \in Nat /\ draining'[i] = d  BY <1>1, <2>1
  <2>3. DrainSound(d, i)'  BY <2>1, <2>2
  <2> QED  BY <2>2, <2>3 DEF DrainSound
<1> QED  BY <1>2 DEF DrainsSound

\* A request keeps the drains, or begins one within the call that made it.
LEMMA RequestDrains ==
  ASSUME RecordsSound, DrainsSound, NEW r \in DOMAIN registrations, Requested(r)
  PROVE  DrainsSound'
<1>1. PICK record \in Records :
        /\ Sound(record) /\ Progress(registrations[r], record)
        /\ \/ Becomes(r, record) /\ UNCHANGED draining
           \/ Drains(r, record, FALSE) /\ Len(draining) < MaxDrains
  BY DEF Requested
<1>2. CASE Becomes(r, record) /\ UNCHANGED draining
  <2>1. \A d \in Drainings, i \in Nat : DrainSound(d, i) => DrainSound(d, i)'
    BY <1>1, <1>2, DrainKept
  <2> QED  BY <1>2, <2>1, DrainsKept
<1>3. CASE Drains(r, record, FALSE) /\ Len(draining) < MaxDrains
  BY <1>1, <1>3, DrainBegins DEF Progress
<1> QED  BY <1>1, <1>2, <1>3

\* Without a drain there is nothing to keep.
LEMMA IdleDrains ==
  ASSUME DrainsSound, Idle, UNCHANGED draining
  PROVE  DrainsSound'
<1>1. DOMAIN draining = {} /\ DOMAIN draining' = {}  BY DEF Idle
<1> QED  BY <1>1 DEF DrainsSound

\* An entry is handed over, or a drain ends: the others go on.
LEMMA InnermostStep ==
  ASSUME LoadersSound, DeliverEntry \/ FinishDrain
  PROVE  DrainsSound'
<1> USE DEF LoadersSound
<1> DEFINE drain == Last(draining)
<1>1. ~Idle  BY DEF DeliverEntry, FinishDrain
<1>2. PICK n \in Nat : n + 1 = Len(draining)
  <2>1. Len(draining) - 1 \in Nat /\ (Len(draining) - 1) + 1 = Len(draining)
    BY <1>1, InnermostDrain
  <2> QED  BY <2>1
<1>3. /\ drain \in Drainings /\ drain = draining[n + 1] /\ DrainSound(drain, n + 1)
      /\ DOMAIN draining = 1 .. n + 1
      /\ Front(draining) \in Seq(Drainings) /\ Len(Front(draining)) = n
      /\ \A i \in 1 .. n : Front(draining)[i] = draining[i]
  BY <1>1, <1>2, InnermostDrain
<1>4. n + 1 <= MaxDrains  BY <1>2 DEF DrainsSound
<1>5. CASE DeliverEntry
  <2>1. /\ drain.entries # <<>> /\ UNCHANGED registrations
        /\ draining' = Append(Front(draining), [drain EXCEPT !.entries = Tail(@), !.calling = TRUE])
    BY <1>5 DEF DeliverEntry
  <2>2. /\ Tail(drain.entries) \in Seq(Nat) /\ Len(Tail(drain.entries)) = Len(drain.entries) - 1
        /\ \A k \in 1 .. Len(Tail(drain.entries)) : Tail(drain.entries)[k] = drain.entries[k + 1]
        /\ DOMAIN drain.entries = 1 .. Len(drain.entries) /\ Len(drain.entries) \in Nat
        /\ DOMAIN Tail(drain.entries) = 1 .. Len(Tail(drain.entries))
    <3>1. drain.entries \in Seq(Nat)  BY <1>3 DEF Drainings
    <3> HIDE DEF drain
    <3> QED  BY <2>1, <3>1, HeadTailProperties, LenProperties
  <2>3. PICK rest \in Drainings : rest = [drain EXCEPT !.entries = Tail(@), !.calling = TRUE]
    <3> HIDE DEF drain
    <3> QED  BY <1>3, <2>2 DEF Drainings
  <2>4. /\ rest.entries = Tail(drain.entries) /\ rest.registration = drain.registration
        /\ rest.generation = drain.generation /\ rest.loading = drain.loading
    BY <1>3, <2>3 DEF Drainings
  <2> HIDE DEF drain
  <2>5. DrainSound(rest, n + 1)
    <3>1. Len(rest.entries) <= QueuedCalls  BY <1>3, <2>2, <2>4, Numbers DEF DrainSound
    <3>2. \A k \in DOMAIN rest.entries : rest.entries[k] = rest.generation
      <4>1. \A k \in DOMAIN rest.entries : k + 1 \in DOMAIN drain.entries  BY <2>2, <2>4
      <4> QED  BY <1>3, <2>2, <2>4, <4>1 DEF DrainSound
    <3> QED  BY <1>3, <2>4, <3>1, <3>2 DEF DrainSound
  <2>6. DrainSound(rest, n + 1)'  BY <2>1, <2>5, DrainSame
  <2>7. /\ draining' \in Seq(Drainings) /\ Len(draining') = n + 1
        /\ \A i \in 1 .. n : draining'[i] = draining[i]
        /\ draining'[n + 1] = rest
    BY <1>3, <2>1, <2>3, AppendProperties
  <2>8. ASSUME NEW i \in 1 .. n + 1 PROVE DrainSound(draining[i], i)'
    <3>1. CASE i = n + 1  BY <2>6, <2>7, <3>1 DEF DrainSound
    <3>2. CASE i # n + 1
      <4>1. i \in 1 .. n /\ draining'[i] = draining[i]  BY <2>7, <3>2
      <4>2. PICK e : e = draining[i] /\ DrainSound(e, i)  BY <1>3 DEF DrainsSound
      <4>3. DrainSound(e, i)'  BY <2>1, <4>2, DrainSame
      <4> QED  BY <4>1, <4>2, <4>3 DEF DrainSound
    <3> QED  BY <3>1, <3>2
  <2>9. DOMAIN draining' = 1 .. n + 1  BY <2>7, LenProperties
  <2> QED  BY <1>4, <2>7, <2>8, <2>9 DEF DrainsSound
<1>6. CASE FinishDrain
  <2>1. draining' = Front(draining)  BY <1>6 DEF FinishDrain
  <2>2. DOMAIN draining' = 1 .. n /\ n <= MaxDrains
    BY <1>3, <1>4, <2>1, LenProperties, Numbers
  <2>3. ASSUME NEW i \in 1 .. n PROVE DrainSound(draining[i], i)'
    <3>1. UNCHANGED registrations
      <4>1. n + 1 # 1  OBVIOUS
      <4>2. ~drain.loading  BY <1>3, <4>1 DEF DrainSound
      <4> QED  BY <1>6, <4>2 DEF FinishDrain
    <3>2. draining'[i] = draining[i]  BY <1>3, <2>1
    <3>3. PICK e : e = draining[i] /\ DrainSound(e, i)  BY <1>3 DEF DrainsSound
    <3>4. DrainSound(e, i)'  BY <3>1, <3>3, DrainSame
    <3> QED  BY <3>2, <3>3, <3>4 DEF DrainSound
  <2> QED  BY <1>3, <2>1, <2>2, <2>3 DEF DrainsSound
<1> QED  BY <1>5, <1>6

\* A Loader that calls back begins the outermost drain.
LEMMA LoadedDrains ==
  ASSUME LoadersSound, NEW l \in loads, HandleLoaded(l[1], l[2])
  PROVE  DrainsSound'
<1> USE DEF LoadersSound
<1> DEFINE loaded == [registrations[l[1]] EXCEPT !.item = l[2]]
<1>1. l[1] \in DOMAIN registrations /\ Idle  BY DEF LoadsKnown, HandleLoaded
<1>2. CASE /\ registrations[l[1]].generation = l[2] /\ registrations[l[1]].state = "loading"
           /\ Drains(l[1], loaded, TRUE)
  <2>1. /\ loaded \in Records /\ Sound(loaded) /\ loaded.state = "loading"
        /\ loaded.item = l[2] /\ l[2] # 0
    BY <1>1, <1>2, LoadedSound
  <2>2. loaded.state \in Active  BY <2>1 DEF Active
  <2>3. Len(draining) < MaxDrains  BY <1>1, EmptySeq, Numbers DEF Idle
  <2> HIDE DEF loaded
  <2> QED  BY <1>1, <1>2, <2>1, <2>2, <2>3, DrainBegins
<1>3. CASE UNCHANGED draining  BY <1>1, <1>3, IdleDrains
<1> QED  BY <1>2, <1>3 DEF HandleLoaded, Concerns, Current

LEMMA DrainsStep ==
  ASSUME LoadersSound, [Next]_vars
  PROVE  DrainsSound'
<1> USE DEF LoadersSound
<1>1. CASE UNCHANGED <<registrations, draining>>
  <2>1. \A d \in Drainings, i \in Nat : DrainSound(d, i) => DrainSound(d, i)'
    BY <1>1, DrainSame
  <2> QED  BY <1>1, <2>1, DrainsKept
<1>2. ASSUME NEW r \in DOMAIN registrations,
             Summon(r) \/ CallQueued(r) \/ Hide(r) \/ Unregister(r)
      PROVE  DrainsSound'
  BY <1>2, AllRequests, RequestDrains
<1>3. ASSUME NEW l \in loads, HandleLoaded(l[1], l[2]) PROVE DrainsSound'
  BY <1>3, LoadedDrains
<1>4. CASE \/ \E o \in DOMAIN operations : FinalizeRegistration(o)
           \/ \E r \in DOMAIN registrations : FinalizeUnregister(r)
           \/ \E l \in loads : HandleLoadError(l[1], l[2])
           \/ ScanEnds
  BY <1>4, IdleDrains DEF FinalizeRegistration, FinalizeUnregister, HandleLoadError, ScanEnds
<1>5. CASE DeliverEntry \/ FinishDrain  BY <1>5, InnermostStep
<1>6. CASE \/ \E s \in Sources : SourceChanges(s) \/ \E spelling \in Spellings : Register(s, spelling)
           \/ \E r \in DOMAIN registrations : CallDelivered(r)
           \/ \E i \in DOMAIN tombstones : Forget(i)
           \/ TombstoneExpires \/ ScanStarts \/ UNCHANGED vars
  BY <1>1, <1>6
  DEF SourceChanges, Register, CallDelivered, Forget, TombstoneExpires, ScanStarts, vars
<1> QED  BY <1>2, <1>3, <1>4, <1>5, <1>6 DEF Next

-----------------------------------------------------------------------------
(* Only a registration that is being opened has an item while it loads. *)

\* With no drain under way, and none begun, no loading registration has an item.
LEMMA ItemsIdle ==
  ASSUME ItemsOpening, Idle,
         \A p \in DOMAIN registrations' :
           registrations'[p].state = "loading" /\ registrations'[p].item # 0 =>
             \/ /\ p \in DOMAIN registrations
                /\ registrations[p].state = "loading" /\ registrations[p].item # 0
             \/ Opening(p)'
  PROVE  ItemsOpening'
<1>1. \A p : ~Opening(p)  BY DEF Opening, Idle
<1> QED  BY <1>1 DEF ItemsOpening

LEMMA ItemsStep ==
  ASSUME LoadersSound, [Next]_vars
  PROVE  ItemsOpening'
<1> USE DEF LoadersSound
<1>1. CASE UNCHANGED <<registrations, draining>>  BY <1>1 DEF ItemsOpening, Opening
<1>2. ASSUME NEW r \in DOMAIN registrations,
             Summon(r) \/ CallQueued(r) \/ Hide(r) \/ Unregister(r)
      PROVE  ItemsOpening'
  <2>1. PICK record \in Records :
          /\ Progress(registrations[r], record) /\ Becomes(r, record)
          /\ UNCHANGED draining \/ \E d : draining' = Append(draining, d)
    BY <1>2, AllRequests, RequestedBecomes
  <2>2. ASSUME NEW p, Opening(p) PROVE Opening(p)'
    <3>1. CASE UNCHANGED draining  BY <2>2, <3>1 DEF Opening
    <3>2. CASE \E d : draining' = Append(draining, d)
      <4>1. PICK d : draining' = Append(draining, d)  BY <3>2
      <4>2. draining \in Seq(Drainings \cup {d})  BY SeqMonotonic DEF DrainsSound
      <4>3. /\ draining' \in Seq(Drainings \cup {d}) /\ Len(draining') = Len(draining) + 1
            /\ \A i \in 1 .. Len(draining) : draining'[i] = draining[i]
        BY <4>1, <4>2, AppendProperties
      <4>4. DOMAIN draining = 1 .. Len(draining) /\ DOMAIN draining' = 1 .. Len(draining) + 1
            /\ Len(draining) \in Nat
        BY <4>2, <4>3, LenProperties
      <4> QED  BY <2>2, <4>3, <4>4 DEF Opening
    <3> QED  BY <2>1, <3>1, <3>2
  <2>3. /\ DOMAIN registrations' = DOMAIN registrations
        /\ \A p \in DOMAIN registrations :
             registrations'[p] = IF p = r THEN record ELSE registrations[p]
    BY <2>1 DEF Becomes
  <2>4. record.state = "loading" /\ record.item # 0 =>
          registrations[r].state = "loading" /\ registrations[r].item # 0
    BY <2>1 DEF Progress
  <2> QED  BY <2>2, <2>3, <2>4 DEF ItemsOpening
<1>3. ASSUME NEW l \in loads, HandleLoaded(l[1], l[2]) PROVE ItemsOpening'
  <2> DEFINE r == l[1]
             loaded == [registrations[r] EXCEPT !.item = l[2]]
  <2>1. Idle  BY <1>3 DEF HandleLoaded
  <2>2. CASE Drains(r, loaded, TRUE)
    <3>1. PICK d : /\ d.registration = r /\ d.loading = TRUE /\ draining' = Append(draining, d)
      BY <2>2 DEF Drains
    <3>2. draining' = <<d>>  BY <2>1, <3>1 DEF Idle
    <3>3. 1 \in DOMAIN draining' /\ draining'[1] = d  BY <3>2
    <3>4. Opening(r)'  BY <3>1, <3>3 DEF Opening
    <3>5. /\ DOMAIN registrations' = DOMAIN registrations
          /\ \A p \in DOMAIN registrations : p # r => registrations'[p] = registrations[p]
      BY <2>2 DEF Drains, Becomes
    <3> QED  BY <2>1, <3>4, <3>5, ItemsIdle
  <2> QED  BY <1>1, <1>3, <2>2 DEF HandleLoaded, Current
<1>4. ASSUME NEW l \in loads, HandleLoadError(l[1], l[2]) PROVE ItemsOpening'
  <2> DEFINE failed == [Unloaded(registrations[l[1]]) EXCEPT !.state = "failed"]
  <2>1. Idle /\ l[1] \in DOMAIN registrations  BY <1>4 DEF HandleLoadError, LoadsKnown
  <2>2. CASE Becomes(l[1], failed)
    <3>1. failed.state = "failed"  BY <2>1, CurrentSound, LoadErrorSound
    <3>2. /\ DOMAIN registrations' = DOMAIN registrations
          /\ \A p \in DOMAIN registrations :
               registrations'[p] = IF p = l[1] THEN failed ELSE registrations[p]
      BY <2>2 DEF Becomes
    <3> HIDE DEF failed
    <3> QED  BY <2>1, <3>1, <3>2, ItemsIdle
  <2> QED  BY <1>1, <1>4, <2>2 DEF HandleLoadError, Current
<1>5. ASSUME NEW r \in DOMAIN registrations, FinalizeUnregister(r) PROVE ItemsOpening'
  <2> DEFINE gone == [registrations[r] EXCEPT !.state = "unregistered"]
  <2>1. Idle /\ Becomes(r, gone)  BY <1>5 DEF FinalizeUnregister, Current
  <2>2. gone.state = "unregistered"  BY CurrentSound DEF Records
  <2>3. /\ DOMAIN registrations' = DOMAIN registrations
        /\ \A p \in DOMAIN registrations :
             registrations'[p] = IF p = r THEN gone ELSE registrations[p]
    BY <2>1 DEF Becomes
  <2> HIDE DEF gone
  <2> QED  BY <2>1, <2>2, <2>3, ItemsIdle
<1>6. ASSUME NEW o \in DOMAIN operations, FinalizeRegistration(o) PROVE ItemsOpening'
  <2>1. Idle  BY <1>6 DEF FinalizeRegistration
  <2>2. CASE UNCHANGED registrations  BY <1>1, <1>6, <2>2 DEF FinalizeRegistration
  <2>3. CASE registrations' # registrations
    <3> DEFINE new == NewRegistration(operations[o].source)
    <3>1. registrations' = Append(registrations, new)  BY <1>6, <2>3 DEF FinalizeRegistration
    <3>2. new.item = 0  BY DEF NewRegistration
    <3>3. registrations \in Seq(Records \cup {new})  BY SeqMonotonic DEF RecordsSound
    <3> HIDE DEF new
    <3>4. /\ registrations' \in Seq(Records \cup {new})
          /\ Len(registrations') = Len(registrations) + 1
          /\ \A i \in 1 .. Len(registrations) : registrations'[i] = registrations[i]
          /\ registrations'[Len(registrations) + 1] = new
      BY <3>1, <3>3, AppendProperties
    <3>5. /\ DOMAIN registrations' = 1 .. Len(registrations) + 1
          /\ DOMAIN registrations = 1 .. Len(registrations) /\ Len(registrations) \in Nat
      BY <3>3, <3>4, LenProperties
    <3>6. \A p \in DOMAIN registrations' :
            \/ registrations'[p] = new
            \/ p \in DOMAIN registrations /\ registrations'[p] = registrations[p]
      BY <3>4, <3>5
    <3> QED  BY <2>1, <3>2, <3>6, ItemsIdle
  <2> QED  BY <2>2, <2>3
<1>7. CASE ScanEnds
  <2>1. Idle  BY <1>7 DEF ScanEnds
  <2>2. PICK ids, dirs :
          registrations' = [r \in DOMAIN registrations |-> Rechecked(Current(r), ids, dirs)]
    BY <1>7 DEF ScanEnds
  <2>3. ASSUME NEW p \in DOMAIN registrations
        PROVE  \/ registrations'[p] = registrations[p]
               \/ registrations'[p].state = "failed_collision"
    BY <2>2, CurrentSound, RecheckedSound DEF Current
  <2>4. DOMAIN registrations' = DOMAIN registrations  BY <2>2
  <2> QED  BY <2>1, <2>3, <2>4, ItemsIdle
<1>8. CASE DeliverEntry \/ FinishDrain
  <2> DEFINE drain == Last(draining)
             n == Len(draining)
  <2>1. ~Idle  BY <1>8 DEF DeliverEntry, FinishDrain
  <2>2. /\ drain \in Drainings /\ drain = draining[n] /\ DrainSound(drain, n)
        /\ n \in Nat \ {0} /\ DOMAIN draining = 1 .. n
        /\ Front(draining) \in Seq(Drainings) /\ Len(Front(draining)) = n - 1
        /\ \A i \in 1 .. n - 1 : Front(draining)[i] = draining[i]
    BY <2>1, InnermostDrain
  <2>3. CASE DeliverEntry
    <3> DEFINE rest == [drain EXCEPT !.entries = Tail(@), !.calling = TRUE]
    <3>1. draining' = Append(Front(draining), rest) /\ UNCHANGED registrations
      BY <2>3 DEF DeliverEntry
    <3>2. rest.registration = drain.registration /\ rest.loading = drain.loading
      BY <2>2 DEF Drainings
    <3>3. Front(draining) \in Seq(Drainings \cup {rest})  BY <2>2, SeqMonotonic
    <3> HIDE DEF rest, drain
    <3>4. /\ draining' \in Seq(Drainings \cup {rest}) /\ Len(draining') = n
          /\ \A i \in 1 .. n - 1 : draining'[i] = draining[i]
          /\ draining'[n] = rest
      <4> DEFINE outer == Front(draining)
      <4>1. /\ draining' \in Seq(Drainings \cup {rest}) /\ Len(draining') = Len(outer) + 1
            /\ \A i \in 1 .. Len(outer) : draining'[i] = outer[i]
            /\ draining'[Len(outer) + 1] = rest
        BY <3>1, <3>3, AppendProperties
      <4>2. Len(outer) = n - 1 /\ n - 1 + 1 = n /\ \A i \in 1 .. n - 1 : outer[i] = draining[i]
        BY <2>2
      <4> HIDE DEF outer, n
      <4> QED  BY <4>1, <4>2
    <3>5. DOMAIN draining' = 1 .. n  BY <3>4, LenProperties
    <3>6. ASSUME NEW p, Opening(p) PROVE Opening(p)'
      <4>1. PICK i \in DOMAIN draining : draining[i].registration = p /\ draining[i].loading
        BY <3>6 DEF Opening
      <4>2. draining'[i].registration = p /\ draining'[i].loading /\ i \in DOMAIN draining'
        BY <2>2, <3>2, <3>4, <3>5, <4>1
      <4> QED  BY <4>2 DEF Opening
    <3> QED  BY <3>1, <3>6 DEF ItemsOpening
  <2>4. CASE FinishDrain /\ ~drain.loading
    <3>1. draining' = Front(draining) /\ UNCHANGED registrations  BY <2>4 DEF FinishDrain
    <3>2. DOMAIN draining' = 1 .. n - 1  BY <2>2, <3>1, LenProperties
    <3>3. ASSUME NEW p, Opening(p) PROVE Opening(p)'
      <4>1. PICK i \in DOMAIN draining : draining[i].registration = p /\ draining[i].loading
        BY <3>3 DEF Opening
      <4>2. i # n  BY <2>2, <2>4, <4>1
      <4>3. i \in 1 .. n - 1  BY <2>2, <4>2
      <4> QED  BY <2>2, <3>1, <3>2, <4>1, <4>3 DEF Opening
    <3> QED  BY <3>1, <3>3 DEF ItemsOpening
  <2>5. CASE FinishDrain /\ drain.loading
    <3> DEFINE r == drain.registration
               record == registrations[r]
               opened == [record EXCEPT !.state = "summoned",
                            !.overtaken = record.generation # drain.generation]
    <3>1. n = 1  BY <2>2, <2>5 DEF DrainSound
    <3>2. \A p : Opening(p) => p = r
      BY <2>2, <3>1 DEF Opening
    <3>3. Becomes(r, opened)  BY <2>5 DEF FinishDrain, Current
    <3>4. opened.state = "summoned"  BY <2>2, <2>5, OpenedSound
    <3>5. /\ DOMAIN registrations' = DOMAIN registrations
          /\ \A p \in DOMAIN registrations :
               registrations'[p] = IF p = r THEN opened ELSE registrations[p]
      BY <3>3 DEF Becomes
    <3> HIDE DEF opened, r
    <3> QED  BY <3>2, <3>4, <3>5 DEF ItemsOpening
  <2> QED  BY <1>8, <2>3, <2>4, <2>5
<1>9. CASE \/ \E s \in Sources : SourceChanges(s) \/ \E spelling \in Spellings : Register(s, spelling)
           \/ \E r \in DOMAIN registrations : CallDelivered(r)
           \/ \E i \in DOMAIN tombstones : Forget(i)
           \/ TombstoneExpires \/ ScanStarts \/ UNCHANGED vars
  BY <1>1, <1>9
  DEF SourceChanges, Register, CallDelivered, Forget, TombstoneExpires, ScanStarts, vars
<1> QED  BY <1>2, <1>3, <1>4, <1>5, <1>6, <1>7, <1>8, <1>9 DEF Next

-----------------------------------------------------------------------------
(* The host, its Loaders and its items. *)

LEMMA LoadersSoundAlways == Spec => []LoadersSound
<1>1. Init => LoadersSound
  <2>1. <<>> \in Seq(Records) /\ <<>> \in Seq(Operations) /\ <<>> \in Seq(Drainings)
        /\ Len(<<>>) = 0 /\ DOMAIN <<>> = {}
    BY EmptySeq
  <2> QED
    BY <2>1, Numbers
    DEF Init, LoadersSound, WorldOK, RecordsSound, LoadsKnown, DrainsSound, ItemsOpening
<1>2. LoadersSound /\ [Next]_vars => LoadersSound'
  BY WorldStep, RecordsStep, LoadsStep, DrainsStep, ItemsStep DEF LoadersSound
<1> QED  BY <1>1, <1>2, PTL DEF Spec

\* The state of a panel agrees with its Loader, its item and its queue, however
\* callbacks of old Loaders come late and whatever the items ask while they are
\* called, but for a panel that was summoned over a hide by the host itself
\* (host.mjs: unloadObject, the captured generations, handleLoaded).
THEOREM LoaderCorrect == Spec => []LoaderMatchesState
<1>1. LoadersSound => LoaderMatchesState
  <2> SUFFICES ASSUME LoadersSound, NEW r \in DOMAIN registrations
               PROVE  LET record == Current(r) IN
                      CASE record.state = "loading" ->
                             record.loader = record.generation /\ (record.item # 0 => Opening(r))
                        [] record.state = "summoned" ->
                             ~record.overtaken => record.loader = record.generation
                                                  /\ record.item = record.generation
                        [] record.state = "failed" -> record.loader \in {0, record.generation}
                        [] OTHER -> record.loader = 0 /\ record.item = 0 /\ record.queue = <<>>
    BY DEF LoaderMatchesState
  <2> DEFINE record == registrations[r]
  <2>1. Sound(record)  BY CurrentSound DEF LoadersSound
  <2>2. record.state = "loading" /\ record.item # 0 => Opening(r)
    BY DEF LoadersSound, ItemsOpening
  <2> HIDE DEF record
  <2>3. record.state = "loading" => record.loader = record.generation  BY <2>1 DEF Sound
  <2>4. record.state = "summoned" /\ ~record.overtaken =>
          record.loader = record.generation /\ record.item = record.generation
    BY <2>1 DEF Sound
  <2>5. record.state \notin {"loading", "summoned", "failed"} =>
          record.loader = 0 /\ record.item = 0 /\ record.queue = <<>>
    BY <2>1 DEF Sound
  <2>6. record.loader \in {0, record.generation}  BY <2>1 DEF Sound
  <2> QED  BY <2>2, <2>3, <2>4, <2>5, <2>6 DEF Current, record
<1> QED  BY <1>1, LoadersSoundAlways, PTL

\* What was asked of one summon reaches the item of that summon or nobody: a
\* drain hands over what it took with the item of its own generation, and stops
\* when an entry hid the panel, even if it summoned it again (host.mjs:
\* drainQueue, dispatchHide).
THEOREM DeliveryCorrect == Spec => []DeliveredToItsSummon
<1>1. Init => DeliveredToItsSummon  BY DEF Init, DeliveredToItsSummon
<1>2. LoadersSound /\ DeliveredToItsSummon /\ [Next]_vars => DeliveredToItsSummon'
  <2> SUFFICES ASSUME LoadersSound, DeliveredToItsSummon, [Next]_vars
               PROVE  DeliveredToItsSummon'
    OBVIOUS
  <2>1. CASE UNCHANGED delivered  BY <2>1 DEF DeliveredToItsSummon
  <2>2. ASSUME NEW r \in DOMAIN registrations, CallDelivered(r) PROVE DeliveredToItsSummon'
    <3>1. Sound(registrations[r]) /\ registrations[r].item # 0
      BY <2>2, CurrentSound DEF LoadersSound, CallDelivered, Current
    <3>2. registrations[r].generation = registrations[r].item  BY <3>1 DEF Sound
    <3> QED  BY <2>2, <3>2 DEF CallDelivered, Current, DeliveredToItsSummon
  <2>3. CASE DeliverEntry
    <3> DEFINE d == Last(draining)
               item == registrations[d.registration].item
    <3>1. d \in Drainings /\ DrainSound(d, Len(draining)) /\ d.entries # <<>> /\ item # 0
      BY <2>3, InnermostDrain DEF LoadersSound, DeliverEntry, Current
    <3>2. delivered' = delivered \cup {[asked |-> Head(d.entries), item |-> item]}
      BY <2>3 DEF DeliverEntry, Current
    <3>3. item = d.generation  BY <3>1 DEF DrainSound
    <3>4. d.entries \in Seq(Nat)  BY <3>1 DEF Drainings
    <3>5. Head(d.entries) = d.generation
      <4>1. 1 \in DOMAIN d.entries
        BY <3>1, <3>4, LenProperties, EmptySeq
      <4>2. Head(d.entries) = d.entries[1]  BY <3>1, <3>4, HeadTailProperties
      <4> QED  BY <3>1, <4>1, <4>2 DEF DrainSound
    <3> HIDE DEF d, item
    <3> QED  BY <3>2, <3>3, <3>5 DEF DeliveredToItsSummon
  <2> QED
    BY <2>1, <2>2, <2>3
    DEF Next, vars, SourceChanges, Register, FinalizeRegistration, Summon, CallQueued, Hide,
        Unregister, FinalizeUnregister, FinishDrain, HandleLoaded, HandleLoadError, Forget,
        TombstoneExpires, ScanStarts, ScanEnds
<1> QED  BY <1>1, <1>2, LoadersSoundAlways, PTL DEF Spec
-----------------------------------------------------------------------------
(* The claims. *)

ClaimTypes == bySource \in [Sources -> Nat] /\ byPluginId \in [PluginIds -> Nat]

\* An action that leaves the claims alone and revives no registration.
LEMMA ClaimsStay ==
  ASSUME ClaimTypes, ClaimsHeld, UNCHANGED claims,
         DOMAIN registrations' = DOMAIN registrations,
         \A r \in DOMAIN registrations :
           /\ registrations'[r].source = registrations[r].source
           /\ registrations'[r].plugin = registrations[r].plugin
           /\ registrations'[r].state \in Active => registrations[r].state \in Active
  PROVE  ClaimTypes' /\ ClaimsHeld'
BY DEF ClaimTypes, ClaimsHeld, Having, Current, claims

\* An action that changes one active registration and no claim.
LEMMA OneKeepsClaims ==
  ASSUME RecordsSound, ClaimTypes, ClaimsHeld, UNCHANGED claims,
         NEW r \in DOMAIN registrations, NEW record, Becomes(r, record),
         record.source = registrations[r].source, record.plugin = registrations[r].plugin,
         registrations[r].state \in Active
  PROVE  ClaimTypes' /\ ClaimsHeld'
<1>1. DOMAIN registrations' = DOMAIN registrations  BY DEF Becomes
<1>2. \A p \in DOMAIN registrations :
        registrations'[p] = IF p = r THEN record ELSE registrations[p]
  BY DEF Becomes
<1> QED  BY <1>1, <1>2, ClaimsStay

\* Every step keeps the claims of the active registrations.
LEMMA ClaimsStep ==
  ASSUME LoadersSound, ClaimTypes, ClaimsHeld, [Next]_vars
  PROVE  ClaimTypes' /\ ClaimsHeld'
<1>1. CASE UNCHANGED <<registrations, claims>>
  BY <1>1 DEF ClaimTypes, ClaimsHeld, Having, Current, claims
<1>2. ASSUME NEW o \in DOMAIN operations, FinalizeRegistration(o)
      PROVE  ClaimTypes' /\ ClaimsHeld'
  <2> DEFINE s == operations[o].source
             n == Len(registrations) + 1
  <2>1. CASE UNCHANGED <<registrations, claims>>  BY <1>1, <2>1
  <2>2. CASE /\ Valid(s, 0) /\ registrations' = Append(registrations, NewRegistration(s))
             /\ bySource' = [bySource EXCEPT ![s] = n]
             /\ byPluginId' = [byPluginId EXCEPT ![manifest[s]] = n]
    <3>1. s \in Sources
      <4>1. o \in 1 .. Len(operations)  BY LenProperties DEF LoadersSound, WorldOK
      <4>2. operations[o] \in Operations  BY <4>1, ElementOfSeq DEF LoadersSound, WorldOK
      <4> QED  BY <4>2 DEF Operations
    <3>2. manifest[s] \in PluginIds /\ bySource[s] = 0 /\ byPluginId[manifest[s]] = 0
      BY <2>2, <3>1 DEF Valid, LoadersSound, WorldOK
    <3>3. NewRegistration(s) \in Records
      BY <3>1, <3>2, EmptySeq DEF NewRegistration, Records, States, Active
    <3>4. /\ Len(registrations') = Len(registrations) + 1 /\ registrations' \in Seq(Records)
          /\ \A i \in 1 .. Len(registrations) : registrations'[i] = registrations[i]
          /\ registrations'[n] = NewRegistration(s)
      BY <2>2, <3>3, AppendProperties DEF LoadersSound, RecordsSound
    <3>5. /\ DOMAIN registrations' = 1 .. n /\ DOMAIN registrations = 1 .. Len(registrations)
          /\ Len(registrations) \in Nat /\ n \in Nat
      BY <3>4, LenProperties DEF LoadersSound, RecordsSound
    <3>6. ClaimTypes'  BY <2>2, <3>5 DEF ClaimTypes
    <3>7. ASSUME NEW r \in DOMAIN registrations', registrations'[r].state \in Active
          PROVE  /\ bySource'[registrations'[r].source] = r
                 /\ byPluginId'[registrations'[r].plugin] = r
      <4>1. CASE r = n
        BY <2>2, <3>1, <3>2, <3>4, <4>1 DEF NewRegistration, ClaimTypes
      <4>2. CASE r # n
        <5>1. r \in DOMAIN registrations /\ registrations'[r] = registrations[r] /\ r # 0
          BY <3>4, <3>5, <3>7, <4>2
        <5>2. bySource[registrations[r].source] = r /\ byPluginId[registrations[r].plugin] = r
          BY <3>7, <5>1 DEF ClaimsHeld, Having, Current
        <5>3. registrations[r] \in Records  BY <5>1, CurrentSound DEF LoadersSound
        <5>4. registrations[r].source \in Sources \ {s}
              /\ registrations[r].plugin \in PluginIds \ {manifest[s]}
          BY <3>2, <5>1, <5>2, <5>3 DEF Records
        <5> QED  BY <2>2, <5>1, <5>2, <5>4 DEF ClaimTypes
      <4> QED  BY <4>1, <4>2
    <3> QED  BY <3>6, <3>7 DEF ClaimsHeld, Having, Current
  <2> QED  BY <1>2, <2>1, <2>2 DEF FinalizeRegistration
<1>3. ASSUME NEW r \in DOMAIN registrations, FinalizeUnregister(r)
      PROVE  ClaimTypes' /\ ClaimsHeld'
  <2>1. /\ DOMAIN registrations' = DOMAIN registrations
        /\ \A p \in DOMAIN registrations : registrations'[p] =
             IF p = r THEN [registrations[r] EXCEPT !.state = "unregistered"] ELSE registrations[p]
    BY <1>3 DEF FinalizeUnregister, Becomes, Current
  <2>2. bySource' = Released(bySource, r) /\ byPluginId' = Released(byPluginId, r)
    BY <1>3 DEF FinalizeUnregister
  <2>3. ClaimTypes'  BY <2>2 DEF ClaimTypes, Released
  <2>4. registrations'[r].state = "unregistered"
    BY <2>1, CurrentSound DEF LoadersSound, Records
  <2>5. ASSUME NEW p \in DOMAIN registrations', registrations'[p].state \in Active
        PROVE  /\ bySource'[registrations'[p].source] = p
               /\ byPluginId'[registrations'[p].plugin] = p
    <3>1. p # r /\ registrations'[p] = registrations[p]  BY <2>1, <2>4, <2>5 DEF Active
    <3>2. bySource[registrations[p].source] = p /\ byPluginId[registrations[p].plugin] = p
      BY <2>1, <2>5, <3>1 DEF ClaimsHeld, Having, Current
    <3>3. registrations[p].source \in Sources /\ registrations[p].plugin \in PluginIds
      BY <2>1, CurrentSound DEF LoadersSound, Records
    <3> QED  BY <2>2, <3>1, <3>2, <3>3 DEF Released, ClaimTypes
  <2> QED  BY <2>3, <2>5 DEF ClaimsHeld, Having, Current
<1>4. ASSUME NEW r \in DOMAIN registrations,
             Summon(r) \/ CallQueued(r) \/ Hide(r) \/ Unregister(r)
      PROVE  ClaimTypes' /\ ClaimsHeld'
  <2>1. PICK record \in Records : Progress(registrations[r], record) /\ Becomes(r, record)
    BY <1>4, AllRequests, RequestedBecomes DEF LoadersSound
  <2>2. UNCHANGED claims  BY <1>4 DEF Summon, CallQueued, Hide, Unregister
  <2> QED  BY <2>1, <2>2, OneKeepsClaims DEF LoadersSound, Progress
<1>5. ASSUME NEW l \in loads, HandleLoaded(l[1], l[2]) \/ HandleLoadError(l[1], l[2])
      PROVE  ClaimTypes' /\ ClaimsHeld'
  <2> DEFINE r == l[1]
             loaded == [registrations[r] EXCEPT !.item = l[2]]
             bare == [loaded EXCEPT !.queue = <<>>]
             failed == [Unloaded(registrations[r]) EXCEPT !.state = "failed"]
  <2>1. r \in DOMAIN registrations  BY DEF LoadersSound, LoadsKnown
  <2>2. registrations[r] \in Records  BY <2>1, CurrentSound DEF LoadersSound
  <2>3. UNCHANGED claims  BY <1>5 DEF HandleLoaded, HandleLoadError
  <2>4. CASE UNCHANGED registrations  BY <1>1, <2>3, <2>4
  <2>5. CASE /\ registrations[r].generation = l[2] /\ registrations[r].state = "loading"
             /\ Becomes(r, bare)
    <3>1. /\ loaded \in Records /\ Sound(loaded) /\ loaded.source = registrations[r].source
          /\ loaded.plugin = registrations[r].plugin
      BY <2>1, <2>5, LoadedSound DEF LoadersSound
    <3>2. bare.source = loaded.source /\ bare.plugin = loaded.plugin
      <4> HIDE DEF loaded
      <4> QED  BY <3>1, EmptiedSound
    <3>3. registrations[r].state \in Active  BY <2>5 DEF Active
    <3> HIDE DEF bare, loaded, r
    <3> QED  BY <2>1, <2>3, <2>5, <3>1, <3>2, <3>3, OneKeepsClaims DEF LoadersSound
  <2>6. CASE registrations[r].state # "unregistered" /\ Becomes(r, failed)
    <3>1. failed.source = registrations[r].source /\ failed.plugin = registrations[r].plugin
      BY <2>2, LoadErrorSound
    <3>2. registrations[r].state \in Active  BY <2>2, <2>6 DEF Records, States
    <3> HIDE DEF failed, r
    <3> QED  BY <2>1, <2>3, <2>6, <3>1, <3>2, OneKeepsClaims DEF LoadersSound
  <2> QED
    BY <1>5, <2>4, <2>5, <2>6 DEF HandleLoaded, HandleLoadError, Concerns, Current, Drains
<1>6. CASE ScanEnds
  <2>1. PICK ids, dirs :
          registrations' = [r \in DOMAIN registrations |-> Rechecked(Current(r), ids, dirs)]
    BY <1>6 DEF ScanEnds
  <2>2. ASSUME NEW r \in DOMAIN registrations
        PROVE  /\ registrations'[r].source = registrations[r].source
               /\ registrations'[r].plugin = registrations[r].plugin
               /\ registrations'[r].state \in Active => registrations[r].state \in Active
    <3>1. registrations[r] \in Records /\ Sound(registrations[r])
      BY CurrentSound DEF LoadersSound
    <3>2. registrations'[r] = Rechecked(registrations[r], ids, dirs)  BY <2>1 DEF Current
    <3> QED  BY <3>1, <3>2, RecheckedSound
  <2> QED  BY <1>6, <2>1, <2>2, ClaimsStay DEF ScanEnds
<1>7. CASE FinishDrain
  <2> DEFINE d == Last(draining)
             r == d.registration
             opened == [registrations[r] EXCEPT !.state = "summoned",
                          !.overtaken = registrations[r].generation # d.generation]
  <2>1. d \in Drainings /\ DrainSound(d, Len(draining))
    BY <1>7, InnermostDrain DEF LoadersSound, FinishDrain
  <2>2. UNCHANGED claims  BY <1>7 DEF FinishDrain
  <2>3. CASE UNCHANGED registrations  BY <1>1, <2>2, <2>3
  <2>4. CASE d.loading /\ Becomes(r, opened)
    <3>1. opened.source = registrations[r].source /\ opened.plugin = registrations[r].plugin
      BY <2>1, <2>4, OpenedSound DEF LoadersSound
    <3>2. r \in DOMAIN registrations /\ registrations[r].state \in Active
      BY <2>1 DEF DrainSound
    <3> HIDE DEF opened, r
    <3> QED  BY <2>2, <2>4, <3>1, <3>2, OneKeepsClaims DEF LoadersSound
  <2> QED  BY <1>7, <2>3, <2>4 DEF FinishDrain, Current
<1>8. CASE \/ \E s \in Sources : SourceChanges(s) \/ \E spelling \in Spellings : Register(s, spelling)
           \/ \E r \in DOMAIN registrations : CallDelivered(r)
           \/ DeliverEntry \/ TombstoneExpires \/ ScanStarts
           \/ \E i \in DOMAIN tombstones : Forget(i)
           \/ UNCHANGED vars
  BY <1>1, <1>8
  DEF SourceChanges, Register, CallDelivered, DeliverEntry, TombstoneExpires, ScanStarts, Forget, vars
<1> QED  BY <1>2, <1>3, <1>4, <1>5, <1>6, <1>7, <1>8 DEF Next

\* Two registrations never share a source or a plugin id, however their
\* validations, teardowns and collisions interleave, and though a panel that is
\* unregistered while it is opened becomes summoned again (host.mjs:
\* finalizeRegistration, releaseClaims).
THEOREM ClaimsCorrect == Spec => []ClaimsHeld
<1>1. Init => ClaimTypes /\ ClaimsHeld
  <2>1. DOMAIN <<>> = {}  OBVIOUS
  <2> QED  BY <2>1 DEF Init, ClaimTypes, ClaimsHeld, Having
<1> QED  BY <1>1, ClaimsStep, LoadersSoundAlways, PTL DEF Spec

-----------------------------------------------------------------------------
(* The bounds. *)

WorldRanged ==
  /\ installed \in [ids : SUBSET PluginIds, dirs : SUBSET Sources, scanning : BOOLEAN]
  /\ changes \in 0 .. MaxChanges
LoadsRanged == loads \subseteq (DOMAIN registrations) \X (1 .. MaxGeneration)
ClaimsRanged ==
  /\ bySource \in [Sources -> 0 .. Len(registrations)]
  /\ byPluginId \in [PluginIds -> 0 .. Len(registrations)]

\* The tombstones, none of which expired after a fresh one.
Stones == [registration : Nat, expired : BOOLEAN]
ExpiredFirst(stones) ==
  \A i, j \in DOMAIN stones : i < j /\ stones[j].expired => stones[i].expired
TombstonesOK ==
  tombstones \in Seq(Stones) /\ ExpiredFirst(tombstones) /\ Len(tombstones) <= Tombstones

Bounded == WorldRanged /\ LoadsRanged /\ ClaimsRanged /\ TombstonesOK

\* What is installed and how often the world changed.
LEMMA WorldRangedStep ==
  ASSUME WorldRanged, [Next]_vars
  PROVE  WorldRanged'
<1>1. CASE UNCHANGED <<installed, changes>>  BY <1>1 DEF WorldRanged
<1>2. CASE ScanStarts
  <2>1. installed' = [installed EXCEPT !.scanning = TRUE]  BY <1>2 DEF ScanStarts
  <2>2. installed' \in [ids : SUBSET PluginIds, dirs : SUBSET Sources, scanning : BOOLEAN]
    BY <2>1 DEF WorldRanged
  <2>3. changes' \in 0 .. MaxChanges  BY <1>2, Numbers DEF ScanStarts, WorldRanged
  <2> QED  BY <2>2, <2>3 DEF WorldRanged
<1>3. CASE ScanEnds  BY <1>3 DEF ScanEnds, WorldRanged
<1>4. ASSUME NEW s \in Sources, SourceChanges(s) PROVE WorldRanged'
  BY <1>4, Numbers DEF SourceChanges, WorldRanged
<1> QED
  BY <1>1, <1>2, <1>3, <1>4
  DEF Next, vars, world, Register, FinalizeRegistration, Summon, CallQueued, CallDelivered, Hide,
      Unregister, FinalizeUnregister, DeliverEntry, FinishDrain, HandleLoaded, HandleLoadError,
      Forget, TombstoneExpires

\* A Loader is started within the bound of the generations.
LEMMA LoadsRangedStep ==
  ASSUME RecordsSound, LoadsRanged, LoadsKnown', [Next]_vars
  PROVE  LoadsRanged'
<1>1. ASSUME NEW l \in loads' PROVE l \in loads \/ \E r, g : l = <<r, g>> /\ g \in 1 .. MaxGeneration
  <2>1. CASE loads' \subseteq loads  BY <2>1
  <2>2. ASSUME NEW r \in DOMAIN registrations, Summon(r)
        PROVE  l \in loads \/ \E p, g : l = <<p, g>> /\ g \in 1 .. MaxGeneration
    <3> DEFINE g == IF Current(r).loader # 0 THEN Current(r).generation ELSE Current(r).generation + 1
    <3>1. registrations[r] \in Records  BY CurrentSound
    <3>2. loads' = loads \/ (Current(r).loader = 0 /\ loads' = loads \cup {<<r, g>>})
      BY <2>2 DEF Summon
    <3>3. Current(r).loader = 0 => g \in 1 .. MaxGeneration
      BY <2>2, <3>1, Numbers DEF Summon, Current, Records
    <3> HIDE DEF g
    <3> QED  BY <3>2, <3>3
  <2> QED
    BY <2>1, <2>2
    DEF Next, vars, SourceChanges, Register, FinalizeRegistration, CallQueued, CallDelivered, Hide,
        Unregister, FinalizeUnregister, DeliverEntry, FinishDrain, HandleLoaded, HandleLoadError,
        Forget, TombstoneExpires, ScanStarts, ScanEnds
<1>2. ASSUME NEW l \in loads'
      PROVE  l \in (DOMAIN registrations') \X (1 .. MaxGeneration)
  <2>1. l[1] \in DOMAIN registrations'  BY DEF LoadsKnown
  <2> QED  BY <1>1, <2>1 DEF LoadsRanged
<1> QED  BY <1>2 DEF LoadsRanged

\* A claim is that of a registration, or none.
LEMMA ClaimsRangedStep ==
  ASSUME WorldOK, RecordsSound, ClaimsRanged, Len(registrations') >= Len(registrations),
         RecordsSound', [Next]_vars
  PROVE  ClaimsRanged'
<1>1. Len(registrations) \in Nat /\ Len(registrations') \in Nat
  BY LenProperties DEF RecordsSound
<1>2. CASE UNCHANGED claims  BY <1>1, <1>2 DEF ClaimsRanged, claims
<1>3. ASSUME NEW o \in DOMAIN operations, FinalizeRegistration(o), ~UNCHANGED claims
      PROVE  ClaimsRanged'
  <2> DEFINE s == operations[o].source
             n == Len(registrations) + 1
  <2>1. /\ registrations' = Append(registrations, NewRegistration(s))
        /\ bySource' = [bySource EXCEPT ![s] = n]
        /\ byPluginId' = [byPluginId EXCEPT ![manifest[s]] = n]
    BY <1>3 DEF FinalizeRegistration
  <2>2. registrations \in Seq(Records \cup {NewRegistration(s)})
    BY SeqMonotonic DEF RecordsSound
  <2>3. Len(registrations') = n  BY <2>1, <2>2, AppendProperties
  <2>4. n \in 0 .. Len(registrations') /\ 0 .. Len(registrations) \subseteq 0 .. Len(registrations')
    BY <1>1, <2>3
  <2> HIDE DEF n, s
  <2>5. bySource' \in [Sources -> 0 .. Len(registrations')]
    BY <2>1, <2>4 DEF ClaimsRanged
  <2>6. byPluginId' \in [PluginIds -> 0 .. Len(registrations')]
    BY <2>1, <2>4 DEF ClaimsRanged
  <2> QED  BY <2>5, <2>6 DEF ClaimsRanged
<1>4. ASSUME NEW r \in DOMAIN registrations, FinalizeUnregister(r) PROVE ClaimsRanged'
  <2>1. bySource' = Released(bySource, r) /\ byPluginId' = Released(byPluginId, r)
    BY <1>4 DEF FinalizeUnregister
  <2> QED  BY <1>1, <2>1 DEF ClaimsRanged, Released
<1> QED
  BY <1>2, <1>3, <1>4
  DEF Next, vars, SourceChanges, Register, Summon, CallQueued, CallDelivered, Hide, Unregister,
      DeliverEntry, FinishDrain, HandleLoaded, HandleLoadError, Forget, TombstoneExpires,
      ScanStarts, ScanEnds

\* A set of numbers has a least one.
LEMMA LeastExists ==
  ASSUME NEW S \in SUBSET Nat, S # {}
  PROVE  Min(S) \in S /\ \A x \in S : Min(S) <= x
<1> DEFINE R == {ss \in Nat \X Nat : ss[1] < ss[2]}
<1>1. IsWellFoundedOn(R, Nat)
  BY NatLessThanWellFounded DEF OpToRel
<1>2. PICK x \in S : \A y \in S : <<y, x>> \notin R
  <2> HIDE DEF R
  <2> QED  BY <1>1, WFMin
<1>3. ASSUME NEW y \in S PROVE x <= y
  <2>1. <<y, x>> \notin R /\ x \in Nat /\ y \in Nat  BY <1>2
  <2>2. <<y, x>>[1] = y /\ <<y, x>>[2] = x  OBVIOUS
  <2>3. ~(y < x)  BY <2>1, <2>2
  <2> QED  BY <2>1, <2>3
<1> QED  BY <1>3 DEF Min

\* What pruning keeps is fresh, within the limit, and ends with the last one.
LEMMA PrunedFresh ==
  ASSUME NEW stones \in Seq(Stones), ExpiredFirst(stones), stones # <<>>,
         ~stones[Len(stones)].expired
  PROVE  /\ Pruned(stones) \in Seq(Stones) /\ Len(Pruned(stones)) <= Tombstones
         /\ \A i \in DOMAIN Pruned(stones) : ~Pruned(stones)[i].expired
<1> DEFINE n == Len(stones)
           kept == {i \in DOMAIN stones : ~stones[i].expired /\ n - i < Tombstones}
           m == Min(kept)
<1>1. n \in Nat \ {0} /\ DOMAIN stones = 1 .. n  BY LenProperties, EmptySeq
<1>2. n \in kept /\ kept \in SUBSET Nat  BY <1>1, Numbers
<1>3. m \in kept  BY <1>2, LeastExists
<1>4. m \in 1 .. n /\ ~stones[m].expired /\ n - m < Tombstones  BY <1>1, <1>3
<1>5. ASSUME NEW j \in m .. n PROVE stones[j] \in Stones /\ ~stones[j].expired
  <2>1. j \in 1 .. n  BY <1>1, <1>4
  <2>2. stones[j] \in Stones  BY <2>1, ElementOfSeq
  <2>3. j # m => ~stones[j].expired  BY <1>1, <1>4, <2>1 DEF ExpiredFirst
  <2> QED  BY <1>4, <2>2, <2>3
<1> HIDE DEF m, n, kept
<1>6. /\ SubSeq(stones, m, n) \in Seq(Stones)
      /\ Len(SubSeq(stones, m, n)) = n - m + 1
      /\ \A i \in 1 .. n - m + 1 : SubSeq(stones, m, n)[i] = stones[m + i - 1]
  BY <1>1, <1>4, <1>5, SubSeqProperties
<1>7. Pruned(stones) = SubSeq(stones, m, n)  BY DEF Pruned, m, n, kept
<1>8. DOMAIN SubSeq(stones, m, n) = 1 .. n - m + 1  BY <1>6, LenProperties
<1>9. \A i \in 1 .. n - m + 1 : m + i - 1 \in m .. n  BY <1>1, <1>4
<1>10. \A i \in DOMAIN SubSeq(stones, m, n) : ~SubSeq(stones, m, n)[i].expired
  BY <1>5, <1>6, <1>8, <1>9
<1>11. n - m + 1 <= Tombstones  BY <1>1, <1>4, Numbers
<1> QED  BY <1>6, <1>7, <1>10, <1>11

\* A tombstone that is forgotten leaves the others in their order.
LEMMA RemovedInOrder ==
  ASSUME NEW stones \in Seq(Stones), ExpiredFirst(stones), NEW k \in DOMAIN stones
  PROVE  /\ RemoveAt(stones, k) \in Seq(Stones) /\ Len(RemoveAt(stones, k)) = Len(stones) - 1
         /\ ExpiredFirst(RemoveAt(stones, k))
<1> DEFINE n == Len(stones)
           before == SubSeq(stones, 1, k - 1)
           after == SubSeq(stones, k + 1, n)
           rest == before \o after
<1>1. n \in Nat /\ DOMAIN stones = 1 .. n /\ k \in 1 .. n  BY LenProperties
<1>2. \A i \in 1 .. n : stones[i] \in Stones  BY ElementOfSeq
<1>3. /\ before \in Seq(Stones) /\ Len(before) = k - 1
      /\ \A i \in 1 .. k - 1 : before[i] = stones[i]
  BY <1>1, <1>2, SubSeqProperties
<1>4. /\ after \in Seq(Stones) /\ Len(after) = n - k
      /\ \A i \in 1 .. n - k : after[i] = stones[k + i]
  <2>1. \A i \in k + 1 .. n : stones[i] \in Stones  BY <1>1, <1>2
  <2>2. /\ after \in Seq(Stones) /\ Len(after) = IF k + 1 <= n THEN n - (k + 1) + 1 ELSE 0
        /\ \A i \in 1 .. n - (k + 1) + 1 : after[i] = stones[k + 1 + i - 1]
    BY <1>1, <2>1, SubSeqProperties
  <2>3. n - (k + 1) + 1 = n - k /\ (\A i \in 1 .. n - k : k + 1 + i - 1 = k + i)  BY <1>1
  <2>4. Len(after) = n - k  BY <1>1, <2>2
  <2> HIDE DEF after
  <2> QED  BY <2>2, <2>3, <2>4
<1> HIDE DEF before, after
<1>5. /\ rest \in Seq(Stones) /\ Len(rest) = Len(before) + Len(after)
      /\ \A i \in 1 .. Len(before) + Len(after) :
           rest[i] = IF i <= Len(before) THEN before[i] ELSE after[i - Len(before)]
  BY <1>3, <1>4, ConcatProperties
<1> HIDE DEF rest, n
<1>6. /\ Len(rest) = n - 1
      /\ \A i \in 1 .. n - 1 : rest[i] = IF i < k THEN stones[i] ELSE stones[i + 1]
  <2>1. Len(before) + Len(after) = n - 1  BY <1>1, <1>3, <1>4
  <2>2. ASSUME NEW i \in 1 .. n - 1, i < k PROVE rest[i] = stones[i]
    BY <1>1, <1>3, <1>5, <2>1, <2>2
  <2>3. ASSUME NEW i \in 1 .. n - 1, ~(i < k) PROVE rest[i] = stones[i + 1]
    <3>1. rest[i] = after[i - (k - 1)] /\ i - (k - 1) \in 1 .. n - k
      BY <1>1, <1>3, <1>5, <2>1, <2>3
    <3>2. k + (i - (k - 1)) = i + 1  BY <1>1
    <3> QED  BY <1>4, <3>1, <3>2
  <2> QED  BY <1>5, <2>1, <2>2, <2>3
<1>7. DOMAIN rest = 1 .. n - 1  BY <1>5, <1>6, LenProperties
<1>8. ASSUME NEW i \in DOMAIN rest, NEW j \in DOMAIN rest, i < j, rest[j].expired
      PROVE  rest[i].expired
  <2> DEFINE at(p) == IF p < k THEN p ELSE p + 1
  <2>1. /\ at(i) \in DOMAIN stones /\ at(j) \in DOMAIN stones /\ at(i) < at(j)
        /\ rest[i] = stones[at(i)] /\ rest[j] = stones[at(j)]
    BY <1>1, <1>6, <1>7, <1>8
  <2> QED  BY <1>8, <2>1 DEF ExpiredFirst
<1>9. RemoveAt(stones, k) = rest  BY DEF RemoveAt, rest, before, after, n
<1> QED  BY <1>5, <1>6, <1>8, <1>9 DEF ExpiredFirst, n

\* Every step keeps the tombstones in their order and within the limit.
LEMMA TombstonesStep ==
  ASSUME RecordsSound, TombstonesOK, [Next]_vars
  PROVE  TombstonesOK'
<1>1. DOMAIN tombstones = 1 .. Len(tombstones) /\ Len(tombstones) \in Nat
  BY LenProperties DEF TombstonesOK
<1>2. CASE UNCHANGED tombstones  BY <1>2 DEF TombstonesOK
<1>3. ASSUME NEW r \in DOMAIN registrations, FinalizeUnregister(r) PROVE TombstonesOK'
  <2> DEFINE stone == [registration |-> r, expired |-> FALSE]
             stones == Append(tombstones, stone)
  <2>1. stone \in Stones /\ ~stone.expired
    <3>1. r \in Nat  BY LenProperties DEF RecordsSound
    <3> QED  BY <3>1 DEF Stones
  <2>2. /\ stones \in Seq(Stones) /\ Len(stones) = Len(tombstones) + 1
        /\ \A i \in 1 .. Len(tombstones) : stones[i] = tombstones[i]
        /\ stones[Len(tombstones) + 1] = stone
    BY <2>1, AppendProperties DEF TombstonesOK
  <2>3. DOMAIN stones = 1 .. Len(tombstones) + 1  BY <2>2, LenProperties
  <2>4. tombstones' = Pruned(stones)  BY <1>3 DEF FinalizeUnregister
  <2> HIDE DEF stones, stone
  <2>5. ExpiredFirst(stones)
    <3> SUFFICES ASSUME NEW i \in DOMAIN stones, NEW j \in DOMAIN stones, i < j, stones[j].expired
                 PROVE  stones[i].expired
      BY DEF ExpiredFirst
    <3>1. i \in DOMAIN tombstones /\ j \in DOMAIN tombstones
          /\ stones[i] = tombstones[i] /\ stones[j] = tombstones[j]
      BY <1>1, <2>1, <2>2, <2>3
    <3> QED  BY <3>1 DEF TombstonesOK, ExpiredFirst
  <2>6. stones # <<>> /\ ~stones[Len(stones)].expired
    BY <1>1, <2>1, <2>2, EmptySeq
  <2>7. /\ Pruned(stones) \in Seq(Stones) /\ Len(Pruned(stones)) <= Tombstones
        /\ \A i \in DOMAIN Pruned(stones) : ~Pruned(stones)[i].expired
    BY <2>2, <2>5, <2>6, PrunedFresh
  <2> QED  BY <2>4, <2>7 DEF TombstonesOK, ExpiredFirst
<1>4. CASE TombstoneExpires
  <2>1. PICK k \in DOMAIN tombstones :
          /\ \A j \in 1 .. k - 1 : tombstones[j].expired
          /\ tombstones' = [tombstones EXCEPT ![k].expired = TRUE]
    BY <1>4 DEF TombstoneExpires
  <2> DEFINE stone == [tombstones[k] EXCEPT !.expired = TRUE]
  <2>2. tombstones[k] \in Stones  BY <1>1, ElementOfSeq DEF TombstonesOK
  <2>3. stone \in Stones /\ stone.expired  BY <2>2 DEF Stones
  <2>4. tombstones' = [tombstones EXCEPT ![k] = stone]  BY <2>1
  <2> HIDE DEF stone
  <2>5. /\ tombstones' \in Seq(Stones) /\ Len(tombstones') = Len(tombstones)
        /\ \A i \in 1 .. Len(tombstones) : tombstones'[i] = IF i = k THEN stone ELSE tombstones[i]
    BY <1>1, <2>3, <2>4, ExceptSeq DEF TombstonesOK
  <2>6. DOMAIN tombstones' = 1 .. Len(tombstones)  BY <2>5, LenProperties
  <2>7. ASSUME NEW i \in DOMAIN tombstones', NEW j \in DOMAIN tombstones', i < j,
               tombstones'[j].expired
        PROVE  tombstones'[i].expired
    <3>1. CASE i = k  BY <2>3, <2>5, <2>6, <3>1
    <3>2. CASE i < k
      <4>1. i \in 1 .. k - 1  BY <1>1, <2>6, <3>2
      <4> QED  BY <2>1, <2>5, <2>6, <3>2, <4>1
    <3>3. CASE k < i
      <4>1. tombstones'[i] = tombstones[i] /\ tombstones'[j] = tombstones[j]
        BY <1>1, <2>5, <2>6, <2>7, <3>3
      <4> QED  BY <1>1, <2>6, <2>7, <4>1 DEF TombstonesOK, ExpiredFirst
    <3> QED  BY <1>1, <2>6, <3>1, <3>2, <3>3
  <2> QED  BY <2>5, <2>7 DEF TombstonesOK, ExpiredFirst
<1>5. ASSUME NEW i \in DOMAIN tombstones, Forget(i) PROVE TombstonesOK'
  <2>1. tombstones' = RemoveAt(tombstones, i)  BY <1>5 DEF Forget
  <2>2. /\ RemoveAt(tombstones, i) \in Seq(Stones)
        /\ Len(RemoveAt(tombstones, i)) = Len(tombstones) - 1
        /\ ExpiredFirst(RemoveAt(tombstones, i))
    BY RemovedInOrder DEF TombstonesOK
  <2>3. Len(tombstones) - 1 <= Tombstones  BY <1>1, Numbers DEF TombstonesOK
  <2> QED  BY <2>1, <2>2, <2>3 DEF TombstonesOK
<1> QED
  BY <1>2, <1>3, <1>4, <1>5
  DEF Next, vars, SourceChanges, Register, FinalizeRegistration, Summon, CallQueued, CallDelivered,
      Hide, Unregister, DeliverEntry, FinishDrain, HandleLoaded, HandleLoadError, ScanStarts, ScanEnds

\* A registration is never taken back.
LEMMA NeverFewer ==
  ASSUME RecordsSound, RecordsSound', [Next]_vars
  PROVE  Len(registrations') >= Len(registrations)
<1>1. /\ DOMAIN registrations = 1 .. Len(registrations) /\ Len(registrations) \in Nat
      /\ DOMAIN registrations' = 1 .. Len(registrations') /\ Len(registrations') \in Nat
  BY LenProperties DEF RecordsSound
<1>2. DOMAIN registrations \subseteq DOMAIN registrations'  BY DomainStep
<1>3. CASE Len(registrations) = 0  BY <1>1, <1>3
<1>4. CASE Len(registrations) # 0
  <2>1. Len(registrations) \in DOMAIN registrations  BY <1>1, <1>4
  <2>2. Len(registrations) \in 1 .. Len(registrations')  BY <1>1, <1>2, <2>1
  <2> QED  BY <1>1, <2>2
<1> QED  BY <1>3, <1>4

\* The host retains records of its types only, within its limits: the queue of
\* a registration, what a drain took of it, the tombstones; no drain is that of
\* a registration whose teardown is complete (host.mjs: LIMITS as checked by
\* dispatchSummon, dispatchCall and pruneTombstones).
THEOREM LoaderTypesCorrect == Spec => []TypeOK
<1>1. Init => Bounded
  <2>1. <<>> \in Seq(Stones) /\ Len(<<>>) = 0 /\ DOMAIN <<>> = {}  BY EmptySeq
  <2>2. Init => WorldRanged  BY Numbers DEF Init, WorldRanged
  <2>3. Init => TombstonesOK  BY <2>1, Numbers DEF Init, TombstonesOK, ExpiredFirst
  <2>4. Init => LoadsRanged  BY DEF Init, LoadsRanged
  <2>5. Init => ClaimsRanged  BY <2>1 DEF Init, ClaimsRanged
  <2> QED  BY <2>2, <2>3, <2>4, <2>5 DEF Bounded
<1>2. LoadersSound /\ LoadersSound' /\ Bounded /\ [Next]_vars => Bounded'
  BY WorldRangedStep, NeverFewer, LoadsRangedStep, ClaimsRangedStep, TombstonesStep
  DEF LoadersSound, Bounded
<1>3. LoadersSound /\ Bounded => TypeOK
  <2> SUFFICES ASSUME LoadersSound, Bounded PROVE TypeOK  OBVIOUS
  <2>1. ASSUME NEW o \in DOMAIN operations PROVE operations[o] \in Operations
    <3>1. o \in 1 .. Len(operations)  BY LenProperties DEF LoadersSound, WorldOK
    <3> QED  BY <3>1, ElementOfSeq DEF LoadersSound, WorldOK
  <2>2. ASSUME NEW r \in DOMAIN registrations
        PROVE  /\ registrations[r].source \in Sources /\ registrations[r].plugin \in PluginIds
               /\ registrations[r].state \in Active \cup {"unregistered"}
               /\ {registrations[r].generation, registrations[r].loader, registrations[r].item}
                    \subseteq Nat
               /\ Len(registrations[r].queue) <= QueuedCalls
               /\ registrations[r].overtaken \in BOOLEAN
    <3>1. registrations[r] \in Records /\ Sound(registrations[r])
      BY CurrentSound DEF LoadersSound
    <3>2. Len(registrations[r].queue) <= QueuedCalls  BY <3>1 DEF Sound
    <3> QED  BY <3>1, <3>2 DEF Records, States
  <2>3. ASSUME NEW i \in DOMAIN draining
        PROVE  /\ draining[i].registration \in Having(Active)
               /\ Len(draining[i].entries) <= QueuedCalls
               /\ draining[i].loading => i = 1
    BY DEF LoadersSound, DrainsSound, DrainSound, Having
  <2>4. /\ manifest \in [Sources -> PluginIds \cup {NoPlugin}]
        /\ installed \in [ids : SUBSET PluginIds, dirs : SUBSET Sources, scanning : BOOLEAN]
        /\ changes \in 0 .. MaxChanges /\ Len(tombstones) <= Tombstones
        /\ loads \subseteq (DOMAIN registrations) \X (1 .. MaxGeneration)
        /\ Len(draining) <= MaxDrains
        /\ bySource \in [Sources -> 0 .. Len(registrations)]
        /\ byPluginId \in [PluginIds -> 0 .. Len(registrations)]
    BY DEF LoadersSound, WorldOK, Bounded, WorldRanged, LoadsRanged, TombstonesOK, ClaimsRanged,
           DrainsSound
  <2> QED  BY <2>1, <2>2, <2>3, <2>4 DEF TypeOK, Operations, Current
<1> QED  BY <1>1, <1>2, <1>3, LoadersSoundAlways, PTL DEF Spec

-----------------------------------------------------------------------------
(* The Agent Console: what the console and the panel may hold. *)

SessionIds == [id : Nat, gen : Nat]
Handoffs == [status : Statuses, cursor : Nat, cards : Nat, team : Nat]
Intents == Nat \X Nat
Items == [kind : {"poll", "publish"}, session : SessionIds, handoff : Handoffs]
ChainKinds == {"summon", "apply", "take"}
ControlKinds == {"hide", "clear", "capabilities"}
Ops ==
  [kind : ChainKinds \cup ControlKinds \cup {"result"}, session : SessionIds,
   handoff : Handoffs, intent : Intents]
RunnerFrames ==
  [kind : {"hello_ack", "event_page", "snapshot", "event", "intent_ack", "protocol_error"},
   from : Nat, to : Nat, team : Nat, intent : Intents]
RunnerConnections ==
  [stage : {"none", "connecting", "hello", "open", "live"},
   mode : {"initial", "resume", "recover"}, paged : BOOLEAN, from : Nat,
   frames : Seq(RunnerFrames), served : BOOLEAN, eof : BOOLEAN, asked : SUBSET Intents]
Consoles ==
  [carries : BOOLEAN, phase : {"idle", "opening", "active", "ended"},
   active : SessionIds, last : SessionIds, ids : Nat, hidden : BOOLEAN, summoned : BOOLEAN,
   pending : SUBSET Intents, completed : SUBSET Intents, chain : Seq(Items), shell : Seq(Ops),
   conn : RunnerConnections, proj : Handoffs,
   pc : {"discover", "connect", "gate", "loop", "pollwait", "drain", "op", "exited"},
   cmd : {"open", "hide", "clear", "reload", "quit"}, polling : BOOLEAN, failed : BOOLEAN,
   wait : Nat, target : SessionIds, unhidden : BOOLEAN]
Panels ==
  [opened : BOOLEAN, session : SessionIds, gen : Nat, shown : Handoffs,
   intents : Seq(Intents), count : Nat]

-----------------------------------------------------------------------------
(* The invariant of the controller, in its parts. *)

\* Sequences of records, by the kinds they hold.
Has(s, kinds) == \E i \in DOMAIN s : s[i].kind \in kinds
Once(s, kinds) ==
  \A i, j \in DOMAIN s : s[i].kind \in kinds /\ s[j].kind \in kinds => i = j

Live(k) == k.phase \in {"opening", "active"}

\* A session that has ended keeps nothing.
SessionsSound(k) ==
  /\ (k.active # NoSession) = Live(k)
  /\ ~Live(k) => k.conn = NoConnection /\ k.proj = NoHandoff /\ k.pending = {}
  /\ Live(k) => k.active = k.last
  /\ k.last.id = k.ids /\ (k.ids = 0 => k.last = NoSession)
  /\ k.conn.stage \in {"none", "connecting"} =>
       k.conn.frames = <<>> /\ ~k.conn.eof /\ ~k.conn.served

\* What is in the chain is of the session that is live; of an ended one, only
\* the item in progress is left, and at most one poll.
ChainSound(k) ==
  /\ \A i \in DOMAIN k.chain : k.chain[i].session.id \in 1 .. k.ids
  /\ Live(k) => \A i \in DOMAIN k.chain :
       k.chain[i].kind = "publish" =>
         k.chain[i].session = k.active /\ k.proj.status # "none"
  /\ ~Live(k) => \A i \in DOMAIN k.chain : i # 1 => k.chain[i].kind = "poll"
  /\ Once(k.chain, {"poll"})
  /\ Has(k.chain, {"poll"}) => k.pc \in {"loop", "pollwait"}
  /\ k.polling => k.pc = "loop"

\* A summon is on its way, or the next publication will be one.
SummonAhead(k) ==
  Has(k.shell, {"summon"}) \/ (~k.summoned /\ Has(k.chain, {"publish"}))

\* Where the controller stands.
PcSound(k) ==
  /\ (k.phase = "opening") = (k.pc \in {"connect", "gate"})
  /\ k.pc \in {"discover", "exited"} => ~Live(k)
  /\ k.pc = "connect" =>
       /\ k.conn.stage = "connecting" /\ k.proj.status = "none"
       /\ k.shell = <<>> /\ k.chain = <<>>
  /\ k.pc \in {"pollwait", "drain", "op", "exited"} => k.cmd # "open"
  /\ k.pc = "op" => k.hidden = (k.cmd # "clear")
  /\ k.pc = "exited" => k.hidden
  /\ k.hidden /\ k.pc # "op" => ~Live(k)
  /\ k.hidden /\ k.pc = "drain" => k.cmd = "clear" /\ k.target = NoSession
  /\ k.unhidden => k.hidden /\ k.cmd = "quit" /\ k.pc \in {"pollwait", "exited"}
  /\ ~k.summoned /\ Live(k) => k.pc \in {"connect", "gate"}

\* Nothing brings a session back once its end has begun, but the first
\* publication of one that failed while it was opened; that one is waited for.
SummonsSound(k) ==
  SummonAhead(k) =>
    \/ k.pc = "gate"
    \/ ~Live(k) /\ ~k.hidden /\ (k.pc = "pollwait" \/ (k.pc = "drain" /\ k.wait > 0))

\* The call the first item of the chain makes is the only one of its kinds.
Answers(op, k) ==
  /\ op.session = k.chain[1].session /\ op.handoff = k.chain[1].handoff
  /\ op.kind = "take" <=> k.chain[1].kind = "poll"
  /\ op.kind = "apply" => k.summoned
  /\ op.kind = "summon" => ~k.summoned
Served(k) ==
  /\ Once(k.shell, ChainKinds)
  /\ Has(k.shell, ChainKinds) <=> k.chain # <<>>
  /\ \A i \in DOMAIN k.shell : k.shell[i].kind \in ChainKinds => Answers(k.shell[i], k)

\* So is the call the controller waits for.
Commanded(k) ==
  /\ Once(k.shell, ControlKinds)
  /\ Has(k.shell, ControlKinds) <=> k.pc \in {"op", "discover"}
  /\ \A i \in DOMAIN k.shell :
       /\ k.shell[i].kind = "capabilities" => k.pc = "discover"
       /\ k.shell[i].kind = "hide" => k.pc = "op" /\ k.cmd # "clear"
       /\ k.shell[i].kind = "clear" => k.pc = "op" /\ k.cmd = "clear"
  /\ k.pc = "discover" => k.shell # <<>> /\ k.shell[Len(k.shell)].kind = "capabilities"

\* The panel and the controller.
PanelSound(k, p) ==
  /\ p.session # NoSession => p.session.id \in 1 .. k.ids
  /\ p.opened => k.ids > 0
  /\ Live(k) /\ k.proj.status = "none" => p.session # k.active
  /\ k.hidden /\ k.pc # "op" /\ ~k.unhidden => p.session = NoSession /\ ~p.opened
  /\ k.pc = "loop" /\ ~k.polling /\ k.target # NoSession => p.session = NoSession
  /\ Len(p.intents) <= PanelQueue

\* What was published last, in the chain or in the panel, is the projection.
Shown(h, k) ==
  /\ h.status = k.proj.status /\ h.cards = k.proj.cards
  /\ ~k.conn.paged => h.cursor = k.proj.cursor
LastPublished(k) ==
  \E i \in DOMAIN k.chain :
    /\ k.chain[i].kind = "publish" /\ Shown(k.chain[i].handoff, k)
    /\ \A j \in DOMAIN k.chain : j > i => k.chain[j].kind = "poll"
Agreement(k, p) ==
  Live(k) /\ k.proj.status # "none" =>
    IF Has(k.chain, {"publish"}) THEN LastPublished(k)
    ELSE p.session = k.active => Shown(p.shown, k)

\* A connection that resumes belongs to a projection that waits for it.
Resuming(k) ==
  k.conn.mode = "resume" /\ k.conn.stage # "live" => k.proj.status = "reconnecting"

Core(k, p) ==
  /\ k \in Consoles /\ p \in Panels
  /\ SessionsSound(k) /\ ChainSound(k) /\ PcSound(k) /\ SummonsSound(k) /\ PanelSound(k, p)
Steady(k, p) ==
  Core(k, p) /\ Served(k) /\ Commanded(k) /\ Agreement(k, p) /\ Resuming(k)

WorldSound ==
  /\ runner \in [cursor : Nat, team : Nat] /\ budget \in [Kinds -> Nat]
  /\ runner.cursor <= MaxEvents /\ runner.team >= 1
  /\ runner.team + budget["replace"] <= Budget["replace"] + 1
ConsoleInv == WorldSound /\ Steady(console, panel)

-----------------------------------------------------------------------------
(* Sequences of records. *)

LEMMA AppendShape ==
  ASSUME NEW S, NEW s \in Seq(S), NEW e \in S
  PROVE  /\ Append(s, e) \in Seq(S) /\ Append(s, e) # <<>>
         /\ Len(Append(s, e)) = Len(s) + 1
         /\ DOMAIN Append(s, e) = 1 .. (Len(s) + 1)
         /\ DOMAIN s = 1 .. Len(s) /\ Len(s) \in Nat
         /\ \A i \in DOMAIN s : Append(s, e)[i] = s[i]
         /\ Append(s, e)[Len(s) + 1] = e
         /\ s # <<>> => 1 \in DOMAIN s /\ Append(s, e)[1] = s[1]
<1>1. Len(s) \in Nat /\ DOMAIN s = 1 .. Len(s)  OBVIOUS
<1>2. s # <<>> => Len(s) # 0  BY EmptySeq
<1>3. Append(s, e) \in Seq(S) /\ Append(s, e) # <<>> /\ Len(Append(s, e)) = Len(s) + 1
  BY AppendProperties
<1>4. DOMAIN Append(s, e) = 1 .. (Len(s) + 1)  BY <1>3
<1>5. (\A i \in 1 .. Len(s) : Append(s, e)[i] = s[i]) /\ Append(s, e)[Len(s) + 1] = e
  BY AppendProperties
<1>6. s # <<>> => 1 \in DOMAIN s  BY <1>1, <1>2
<1> QED  BY <1>1, <1>3, <1>4, <1>5, <1>6

LEMMA TailShape ==
  ASSUME NEW S, NEW s \in Seq(S), s # <<>>
  PROVE  /\ Tail(s) \in Seq(S) /\ Head(s) \in S /\ Head(s) = s[1]
         /\ DOMAIN Tail(s) = 1 .. (Len(s) - 1) /\ Len(Tail(s)) = Len(s) - 1
         /\ DOMAIN s = 1 .. Len(s) /\ Len(s) \in Nat \ {0} /\ 1 \in DOMAIN s
         /\ \A i \in DOMAIN Tail(s) : i + 1 \in DOMAIN s /\ Tail(s)[i] = s[i + 1]
         /\ \A i \in DOMAIN s : i # 1 => i - 1 \in DOMAIN Tail(s) /\ Tail(s)[i - 1] = s[i]
         /\ Tail(s) = <<>> <=> Len(s) = 1
<1>1. Len(s) \in Nat /\ DOMAIN s = 1 .. Len(s)  OBVIOUS
<1>2. Len(s) # 0  BY EmptySeq
<1>3. /\ Head(s) \in S /\ Tail(s) \in Seq(S) /\ Len(Tail(s)) = Len(s) - 1
      /\ \A i \in 1 .. Len(Tail(s)) : Tail(s)[i] = s[i + 1]
  BY HeadTailProperties
<1>4. Head(s) = s[1]  OBVIOUS
<1>5. DOMAIN Tail(s) = 1 .. (Len(s) - 1)  BY <1>3
<1>6. \A i \in DOMAIN Tail(s) : i + 1 \in DOMAIN s /\ Tail(s)[i] = s[i + 1]
  BY <1>1, <1>3, <1>5
<1>7. \A i \in DOMAIN s : i # 1 => i - 1 \in DOMAIN Tail(s) /\ Tail(s)[i - 1] = s[i]
  BY <1>1, <1>3, <1>5
<1>8. Tail(s) = <<>> <=> Len(s) = 1  BY <1>1, <1>2, <1>3, EmptySeq
<1> QED  BY <1>1, <1>2, <1>3, <1>4, <1>5, <1>6, <1>7, <1>8

\* What a sequence holds once an element is appended, or its first is taken.
LEMMA HasAppend ==
  ASSUME NEW S, NEW s \in Seq(S), NEW e \in S, NEW kinds
  PROVE  /\ Has(Append(s, e), kinds) <=> Has(s, kinds) \/ e.kind \in kinds
         /\ Once(s, kinds) /\ (Has(s, kinds) => e.kind \notin kinds)
              => Once(Append(s, e), kinds)
<1> DEFINE t == Append(s, e)
<1>1. /\ DOMAIN t = 1 .. (Len(s) + 1) /\ DOMAIN s = 1 .. Len(s) /\ Len(s) \in Nat
      /\ \A i \in DOMAIN s : t[i] = s[i]
      /\ t[Len(s) + 1] = e
  BY AppendShape
<1> HIDE DEF t
<1>2. Has(t, kinds) <=> Has(s, kinds) \/ e.kind \in kinds
  BY <1>1 DEF Has
<1>3. ASSUME Once(s, kinds), Has(s, kinds) => e.kind \notin kinds PROVE Once(t, kinds)
  BY <1>1, <1>3 DEF Has, Once
<1> QED  BY <1>2, <1>3 DEF t

LEMMA HasTail ==
  ASSUME NEW S, NEW s \in Seq(S), s # <<>>, NEW kinds
  PROVE  /\ Has(s, kinds) <=> Has(Tail(s), kinds) \/ s[1].kind \in kinds
         /\ Once(s, kinds) =>
              Once(Tail(s), kinds) /\ (s[1].kind \in kinds => ~Has(Tail(s), kinds))
<1> DEFINE t == Tail(s)
<1>1. /\ DOMAIN t = 1 .. (Len(s) - 1) /\ DOMAIN s = 1 .. Len(s)
      /\ Len(s) \in Nat \ {0} /\ 1 \in DOMAIN s
      /\ \A i \in DOMAIN t : i + 1 \in DOMAIN s /\ t[i] = s[i + 1]
      /\ \A i \in DOMAIN s : i # 1 => i - 1 \in DOMAIN t /\ t[i - 1] = s[i]
  BY TailShape
<1> HIDE DEF t
<1>2. Has(s, kinds) <=> Has(t, kinds) \/ s[1].kind \in kinds
  BY <1>1 DEF Has
<1>3. ASSUME Once(s, kinds)
      PROVE  Once(t, kinds) /\ (s[1].kind \in kinds => ~Has(t, kinds))
  <2>1. Once(t, kinds)
    <3> SUFFICES ASSUME NEW i \in DOMAIN t, NEW j \in DOMAIN t,
                        t[i].kind \in kinds, t[j].kind \in kinds
                 PROVE  i = j
      BY DEF Once
    <3>1. i + 1 = j + 1  BY <1>1, <1>3 DEF Once
    <3> QED  BY <3>1, <1>1
  <2>2. ASSUME s[1].kind \in kinds, NEW i \in DOMAIN t, t[i].kind \in kinds PROVE FALSE
    <3>1. i + 1 = 1  BY <1>1, <1>3, <2>2 DEF Once
    <3> QED  BY <3>1, <1>1
  <2> QED  BY <2>1, <2>2 DEF Has
<1> QED  BY <1>2, <1>3 DEF t

LEMMA HasNothing == ASSUME NEW kinds PROVE ~Has(<<>>, kinds) /\ Once(<<>>, kinds)
BY DEF Has, Once

-----------------------------------------------------------------------------
(* The console keeps its control, its session, its chain. *)

KeepsControl(r, k) ==
  /\ r.phase = k.phase /\ r.active = k.active /\ r.last = k.last /\ r.ids = k.ids
  /\ r.hidden = k.hidden /\ r.summoned = k.summoned /\ r.pc = k.pc /\ r.cmd = k.cmd
  /\ r.polling = k.polling /\ r.target = k.target /\ r.unhidden = k.unhidden
KeepsSession(r, k) == r.conn = k.conn /\ r.proj = k.proj /\ r.pending = k.pending

\* Another call in the shell, or one less, leaves the rest as it is.
LEMMA CoreOfCalls ==
  ASSUME NEW k, NEW p, Core(k, p), NEW r \in Consoles,
         KeepsControl(r, k), KeepsSession(r, k), r.chain = k.chain, r.wait = k.wait,
         Has(r.shell, {"summon"}) => SummonAhead(k),
         k.pc = "connect" => r.shell = <<>>
  PROVE  Core(r, p)
<1> USE DEF Core, KeepsControl, KeepsSession, Live
<1>1. SessionsSound(r)  BY DEF SessionsSound
<1>2. ChainSound(r)  BY DEF ChainSound
<1>3. PcSound(r)  BY DEF PcSound
<1>4. SummonsSound(r)  BY DEF SummonsSound, SummonAhead
<1>5. PanelSound(r, p)  BY DEF PanelSound
<1> QED  BY <1>1, <1>2, <1>3, <1>4, <1>5

\* A call of the manager is typed and last in the shell.
LEMMA CallShape ==
  ASSUME NEW k \in Consoles, NEW kind \in ChainKinds \cup ControlKinds \cup {"result"},
         NEW session \in SessionIds, NEW handoff \in Handoffs, NEW intent \in Intents
  PROVE  LET r == Call(k, kind, session, handoff, intent)
             op == [kind |-> kind, session |-> session, handoff |-> handoff, intent |-> intent]
         IN /\ r \in Consoles /\ op \in Ops /\ r.shell = Append(k.shell, op)
            /\ KeepsControl(r, k) /\ KeepsSession(r, k) /\ r.chain = k.chain /\ r.wait = k.wait
<1> DEFINE op == [kind |-> kind, session |-> session, handoff |-> handoff, intent |-> intent]
<1>1. op \in Ops  BY DEF Ops
<1> HIDE DEF op
<1>2. Append(k.shell, op) \in Seq(Ops)  BY <1>1 DEF Consoles
<1> DEFINE s == Append(k.shell, op)
<1> HIDE DEF s
<1>3. [k EXCEPT !.shell = s] \in Consoles  BY <1>2 DEF Consoles, s
<1>4. Call(k, kind, session, handoff, intent) = [k EXCEPT !.shell = s]
  BY DEF Call, s, op
<1>5. LET r == [k EXCEPT !.shell = s]
      IN r.shell = s /\ KeepsControl(r, k) /\ KeepsSession(r, k) /\ r.chain = k.chain /\ r.wait = k.wait
  BY DEF Consoles, KeepsControl, KeepsSession
<1> QED  BY <1>1, <1>3, <1>4, <1>5 DEF op, s

\* What a call that is made or answered leaves of the others.
LEMMA CallKeepsServed ==
  ASSUME NEW k \in Consoles, NEW r, NEW op \in Ops, Served(k), KeepsControl(r, k),
         r.chain = k.chain, r.shell = Append(k.shell, op), op.kind \notin ChainKinds
  PROVE  Served(r)
<1>1. k.shell \in Seq(Ops)  BY DEF Consoles
<1>2. Has(r.shell, ChainKinds) <=> Has(k.shell, ChainKinds)  BY <1>1, HasAppend
<1>3. Once(r.shell, ChainKinds)  BY <1>1, HasAppend DEF Served
<1>4. ASSUME NEW i \in DOMAIN r.shell, r.shell[i].kind \in ChainKinds
      PROVE  Answers(r.shell[i], r)
  <2>1. i \in DOMAIN k.shell /\ r.shell[i] = k.shell[i]  BY <1>1, <1>4, AppendShape
  <2>2. Answers(k.shell[i], k)  BY <2>1, <1>4 DEF Served
  <2> QED  BY <2>1, <2>2 DEF Answers, KeepsControl
<1> QED  BY <1>2, <1>3, <1>4 DEF Served

LEMMA CallKeepsCommanded ==
  ASSUME NEW k \in Consoles, NEW r, NEW op \in Ops, Commanded(k), KeepsControl(r, k),
         r.shell = Append(k.shell, op), op.kind \notin ControlKinds, k.pc # "discover"
  PROVE  Commanded(r)
<1>1. k.shell \in Seq(Ops)  BY DEF Consoles
<1>2. Has(r.shell, ControlKinds) <=> Has(k.shell, ControlKinds)  BY <1>1, HasAppend
<1>3. Once(r.shell, ControlKinds)  BY <1>1, HasAppend DEF Commanded
<1>4. ASSUME NEW i \in DOMAIN r.shell, r.shell[i].kind \in ControlKinds
      PROVE  i \in DOMAIN k.shell /\ r.shell[i] = k.shell[i]
  BY <1>1, <1>4, AppendShape
<1> QED  BY <1>2, <1>3, <1>4 DEF Commanded, ControlKinds, KeepsControl

LEMMA RestKeepsServed ==
  ASSUME NEW k \in Consoles, NEW r, Served(k), KeepsControl(r, k), k.shell # <<>>,
         r.chain = k.chain, r.shell = Tail(k.shell), k.shell[1].kind \notin ChainKinds
  PROVE  Served(r)
<1>1. k.shell \in Seq(Ops)  BY DEF Consoles
<1>2. Has(r.shell, ChainKinds) <=> Has(k.shell, ChainKinds)  BY <1>1, HasTail
<1>3. Once(r.shell, ChainKinds)  BY <1>1, HasTail DEF Served
<1>4. ASSUME NEW i \in DOMAIN r.shell, r.shell[i].kind \in ChainKinds
      PROVE  Answers(r.shell[i], r)
  <2>1. i + 1 \in DOMAIN k.shell /\ r.shell[i] = k.shell[i + 1]  BY <1>1, <1>4, TailShape
  <2>2. Answers(k.shell[i + 1], k)  BY <2>1, <1>4 DEF Served
  <2> QED  BY <2>1, <2>2 DEF Answers, KeepsControl
<1> QED  BY <1>2, <1>3, <1>4 DEF Served

LEMMA RestKeepsCommanded ==
  ASSUME NEW k \in Consoles, NEW r, Commanded(k), KeepsControl(r, k), k.shell # <<>>,
         r.shell = Tail(k.shell), k.shell[1].kind \notin ControlKinds
  PROVE  Commanded(r)
<1>1. k.shell \in Seq(Ops)  BY DEF Consoles
<1>2. Has(r.shell, ControlKinds) <=> Has(k.shell, ControlKinds)  BY <1>1, HasTail
<1>3. Once(r.shell, ControlKinds)  BY <1>1, HasTail DEF Commanded
<1>4. \A i \in DOMAIN r.shell : i + 1 \in DOMAIN k.shell /\ r.shell[i] = k.shell[i + 1]
  BY <1>1, TailShape
<1>5. ASSUME k.pc = "discover"
      PROVE  r.shell # <<>> /\ r.shell[Len(r.shell)].kind = "capabilities"
  <2>1. k.shell[Len(k.shell)].kind = "capabilities"  BY <1>5 DEF Commanded
  <2>2. Len(k.shell) # 1 /\ Len(k.shell) \in DOMAIN k.shell
    BY <2>1, <1>1, TailShape DEF ControlKinds
  <2>3. r.shell # <<>> /\ Len(r.shell) = Len(k.shell) - 1 /\ Len(r.shell) \in DOMAIN r.shell
    BY <2>2, <1>1, TailShape
  <2> QED  BY <2>1, <2>3, <1>1, <1>4
<1> QED  BY <1>2, <1>3, <1>4, <1>5 DEF Commanded, ControlKinds, KeepsControl

\* The first item of the chain starts.
LEMMA StartKeeps ==
  ASSUME NEW k, NEW p, Core(k, p), ~Has(k.shell, ChainKinds)
  PROVE  LET r == StartFirst(k)
         IN /\ Core(r, p) /\ Served(r)
            /\ KeepsControl(r, k) /\ KeepsSession(r, k) /\ r.chain = k.chain /\ r.wait = k.wait
            /\ Commanded(k) /\ (k.pc = "discover" => k.chain = <<>>) => Commanded(r)
<1>1. CASE k.chain = <<>>
  <2>1. StartFirst(k) = k  BY <1>1 DEF StartFirst
  <2>2. Served(k)  BY <1>1 DEF Served, Has, Once
  <2> QED  BY <2>1, <2>2 DEF KeepsControl, KeepsSession
<1>2. CASE k.chain # <<>>
  <2> DEFINE item == k.chain[1]
             kind == CASE item.kind = "poll" -> "take"
                       [] item.kind = "publish" /\ k.summoned -> "apply"
                       [] OTHER -> "summon"
             r == Call(k, kind, item.session, item.handoff, NoIntent)
             op == [kind |-> kind, session |-> item.session, handoff |-> item.handoff,
                    intent |-> NoIntent]
  <2>1. k \in Consoles /\ k.chain \in Seq(Items)  BY DEF Core, Consoles
  <2>2. item \in Items /\ Head(k.chain) = item /\ 1 \in DOMAIN k.chain
    BY <2>1, <1>2, TailShape
  <2>3. /\ item.session \in SessionIds /\ item.handoff \in Handoffs
        /\ item.kind \in {"poll", "publish"}
    BY <2>2 DEF Items
  <2>4. StartFirst(k) = r  BY <2>2, <1>2 DEF StartFirst
  <2>5. /\ kind \in ChainKinds /\ (kind = "take" <=> item.kind = "poll")
        /\ kind = "apply" => k.summoned
        /\ kind = "summon" => ~k.summoned /\ item.kind = "publish"
    BY <2>3 DEF ChainKinds
  <2> HIDE DEF kind, item
  <2>6. NoIntent \in Intents  BY DEF NoIntent, Intents
  <2>7. /\ r \in Consoles /\ op \in Ops /\ r.shell = Append(k.shell, op)
        /\ KeepsControl(r, k) /\ KeepsSession(r, k) /\ r.chain = k.chain /\ r.wait = k.wait
    BY <2>1, <2>3, <2>5, <2>6, CallShape
  <2>8. op.kind = kind /\ op.session = item.session /\ op.handoff = item.handoff  OBVIOUS
  <2> HIDE DEF r, op
  <2>9. k.shell \in Seq(Ops)  BY <2>1 DEF Consoles
  <2>10. k.pc # "connect"  BY <1>2 DEF Core, PcSound
  <2>11. Has(r.shell, {"summon"}) => SummonAhead(k)
    <3>1. Has(r.shell, {"summon"}) <=> Has(k.shell, {"summon"}) \/ kind \in {"summon"}
      BY <2>7, <2>8, <2>9, HasAppend
    <3>2. item.kind = "publish" => Has(k.chain, {"publish"})  BY <2>2 DEF Has, item
    <3> QED  BY <3>1, <3>2, <2>5 DEF SummonAhead
  <2>12. Core(r, p)  BY <2>7, <2>10, <2>11, CoreOfCalls
  <2>13. Served(r)
    <3>1. Has(r.shell, ChainKinds) /\ Once(r.shell, ChainKinds)
      BY <2>5, <2>7, <2>8, <2>9, HasAppend DEF Has, Once
    <3>2. ASSUME NEW i \in DOMAIN r.shell, r.shell[i].kind \in ChainKinds
          PROVE  r.shell[i] = op
      BY <3>2, <2>7, <2>9, AppendShape DEF Has
    <3>3. Answers(op, r)  BY <2>5, <2>7, <2>8 DEF Answers, KeepsControl, item
    <3> QED  BY <3>1, <3>2, <3>3, <1>2, <2>7 DEF Served
  <2>14. ASSUME Commanded(k), k.pc = "discover" => k.chain = <<>> PROVE Commanded(r)
    BY <2>1, <2>5, <2>7, <2>8, <2>14, <1>2, CallKeepsCommanded DEF ChainKinds, ControlKinds
  <2> QED  BY <2>4, <2>7, <2>12, <2>13, <2>14
<1> QED  BY <1>1, <1>2

-----------------------------------------------------------------------------
(* Publications and polls. *)

\* A live session has an identity of its own.
LEMMA LiveIds ==
  ASSUME NEW k, NEW p, Core(k, p), Live(k)
  PROVE  k.active.id \in 1 .. k.ids /\ k.active.id = k.ids
<1>1. k.active # NoSession /\ k.active = k.last  BY DEF Core, SessionsSound, Live
<1>2. k.last.id = k.ids /\ k.ids # 0  BY <1>1 DEF Core, SessionsSound
<1>3. k.ids \in Nat  BY DEF Core, Consoles
<1> QED  BY <1>1, <1>2, <1>3

LEMMA AppendCore ==
  ASSUME NEW k, NEW p, Core(k, p), NEW item \in Items, Live(k), k.pc # "connect",
         item.session = k.active,
         item.kind = "publish" => k.proj.status # "none",
         item.kind = "poll" => k.pc = "loop" /\ ~Has(k.chain, {"poll"})
  PROVE  LET r == [k EXCEPT !.chain = Append(@, item)]
         IN /\ Core(r, p) /\ r.chain = Append(k.chain, item) /\ r.shell = k.shell
            /\ KeepsControl(r, k) /\ KeepsSession(r, k) /\ r.wait = k.wait
<1> DEFINE c == Append(k.chain, item)
           r == [k EXCEPT !.chain = c]
<1>1. k \in Consoles /\ k.chain \in Seq(Items)  BY DEF Core, Consoles
<1>2. c \in Seq(Items)  BY <1>1, AppendShape
<1>3. \A i \in DOMAIN c : c[i] = item \/ (i \in DOMAIN k.chain /\ c[i] = k.chain[i])
  BY <1>1, AppendShape
<1>4. \A kinds : Has(c, kinds) <=> Has(k.chain, kinds) \/ item.kind \in kinds
  BY <1>1, HasAppend
<1>5. Once(c, {"poll"})  BY <1>1, HasAppend DEF Core, ChainSound
<1> HIDE DEF c
<1>6. r \in Consoles  BY <1>1, <1>2 DEF Consoles
<1>7. /\ r.chain = c /\ r.shell = k.shell /\ r.wait = k.wait
      /\ KeepsControl(r, k) /\ KeepsSession(r, k)
  BY <1>1 DEF Consoles, KeepsControl, KeepsSession
<1>8. k.active.id \in 1 .. k.ids  BY LiveIds
<1> HIDE DEF r
<1> USE DEF KeepsControl, KeepsSession, Live
<1>9. SessionsSound(r)  BY <1>7 DEF Core, SessionsSound
<1>10. ChainSound(r)
  <2>1. \A i \in DOMAIN c : c[i].session.id \in 1 .. k.ids
    BY <1>3, <1>8 DEF Core, ChainSound
  <2>2. \A i \in DOMAIN c :
          c[i].kind = "publish" => c[i].session = k.active /\ k.proj.status # "none"
    BY <1>3 DEF Core, ChainSound
  <2>3. Has(c, {"poll"}) => k.pc \in {"loop", "pollwait"}  BY <1>4 DEF Core, ChainSound
  <2> QED  BY <2>1, <2>2, <2>3, <1>5, <1>7 DEF Core, ChainSound
<1>11. PcSound(r)  BY <1>7 DEF Core, PcSound
<1>12. SummonsSound(r)
  <2>1. SummonAhead(r) => SummonAhead(k) \/ ~k.summoned
    BY <1>7 DEF SummonAhead
  <2>2. ~k.summoned => k.pc = "gate"  BY DEF Core, PcSound
  <2> QED  BY <2>1, <2>2, <1>7 DEF Core, SummonsSound
<1>13. PanelSound(r, p)  BY <1>7 DEF Core, PanelSound
<1>14. Core(r, p)  BY <1>6, <1>9, <1>10, <1>11, <1>12, <1>13 DEF Core
<1> QED  BY <1>7, <1>14 DEF c, r

LEMMA ChainedKeeps ==
  ASSUME NEW k, NEW p, Core(k, p), Served(k), Commanded(k),
         NEW item \in Items, Live(k), k.pc # "connect", item.session = k.active,
         item.kind = "publish" => k.proj.status # "none",
         item.kind = "poll" => k.pc = "loop" /\ ~Has(k.chain, {"poll"})
  PROVE  LET r == Chained(k, item)
         IN /\ Core(r, p) /\ Served(r) /\ Commanded(r) /\ r.chain = Append(k.chain, item)
            /\ KeepsControl(r, k) /\ KeepsSession(r, k) /\ r.wait = k.wait
<1> DEFINE next == [k EXCEPT !.chain = Append(@, item)]
<1>1. /\ Core(next, p) /\ next.chain = Append(k.chain, item) /\ next.shell = k.shell
      /\ KeepsControl(next, k) /\ KeepsSession(next, k) /\ next.wait = k.wait
  BY AppendCore
<1>2. Chained(k, item) = IF k.chain = <<>> THEN StartFirst(next) ELSE next  BY DEF Chained
<1> HIDE DEF next
<1>3. Commanded(next)  BY <1>1 DEF Commanded, KeepsControl
<1>4. k.chain \in Seq(Items)  BY DEF Core, Consoles
<1>5. CASE k.chain = <<>>
  <2>1. ~Has(next.shell, ChainKinds)  BY <1>1, <1>5 DEF Served
  <2>2. k.pc # "discover"  BY DEF Core, PcSound
  <2>3. next.pc # "discover"  BY <2>2, <1>1 DEF KeepsControl
  <2> DEFINE r == StartFirst(next)
  <2>4. /\ Core(r, p) /\ Served(r) /\ Commanded(r)
        /\ KeepsControl(r, next) /\ KeepsSession(r, next)
        /\ r.chain = next.chain /\ r.wait = next.wait
    BY <2>1, <2>3, <1>1, <1>3, StartKeeps
  <2>5. KeepsControl(r, k) /\ KeepsSession(r, k) /\ r.wait = k.wait /\ r.chain = Append(k.chain, item)
    BY <2>4, <1>1 DEF KeepsControl, KeepsSession
  <2> QED  BY <2>4, <2>5, <1>2, <1>5
<1>6. CASE k.chain # <<>>
  <2>1. next.chain[1] = k.chain[1] /\ next.chain # <<>>  BY <1>1, <1>4, <1>6, AppendShape
  <2>2. Served(next)  BY <2>1, <1>1, <1>6 DEF Served, Answers, KeepsControl
  <2> QED  BY <2>2, <1>1, <1>2, <1>3, <1>6
<1> QED  BY <1>5, <1>6

\* The handoff that was published last is the projection's.
Published(k) ==
  Live(k) /\ k.proj.status # "none" =>
    \E i \in DOMAIN k.chain :
      /\ k.chain[i].kind = "publish" /\ k.chain[i].handoff = k.proj
      /\ \A j \in DOMAIN k.chain : j > i => k.chain[j].kind = "poll"

LEMMA PublishedAgrees ==
  ASSUME NEW k, NEW p, Published(k)
  PROVE  Agreement(k, p)
BY DEF Published, Agreement, LastPublished, Shown, Has

LEMMA PublishKeeps ==
  ASSUME NEW k, NEW p, Core(k, p), Served(k), Commanded(k)
  PROVE  LET r == Publish(k)
         IN /\ Core(r, p) /\ Served(r) /\ Commanded(r) /\ Published(r)
            /\ KeepsControl(r, k) /\ KeepsSession(r, k) /\ r.wait = k.wait
<1>1. CASE k.proj.status = "none"
  BY <1>1 DEF Publish, Published, KeepsControl, KeepsSession
<1>2. CASE k.proj.status # "none"
  <2> DEFINE item == [kind |-> "publish", session |-> k.active, handoff |-> k.proj]
             r == Chained(k, item)
  <2>1. k \in Consoles /\ k.chain \in Seq(Items)  BY DEF Core, Consoles
  <2>2. item \in Items  BY <2>1 DEF Consoles, Items
  <2>3. Live(k)  BY <1>2 DEF Core, SessionsSound, NoHandoff, Handoff
  <2>4. k.pc # "connect"  BY <1>2 DEF Core, PcSound
  <2>5. /\ item.session = k.active /\ item.kind = "publish" /\ item.handoff = k.proj
    OBVIOUS
  <2> HIDE DEF item
  <2>6. /\ Core(r, p) /\ Served(r) /\ Commanded(r) /\ r.chain = Append(k.chain, item)
        /\ KeepsControl(r, k) /\ KeepsSession(r, k) /\ r.wait = k.wait
    BY <2>2, <2>3, <2>4, <2>5, <1>2, ChainedKeeps
  <2>7. Publish(k) = r  BY <1>2 DEF Publish, item
  <2> HIDE DEF r
  <2>8. Published(r)
    <3>1. /\ Len(k.chain) + 1 \in DOMAIN r.chain /\ r.chain[Len(k.chain) + 1] = item
          /\ \A j \in DOMAIN r.chain : ~(j > Len(k.chain) + 1)
      BY <2>1, <2>2, <2>6, AppendShape
    <3>2. item.handoff = r.proj  BY <2>5, <2>6 DEF KeepsSession
    <3> QED  BY <3>1, <3>2, <2>5 DEF Published
  <2> QED  BY <2>6, <2>7, <2>8
<1> QED  BY <1>1, <1>2

-----------------------------------------------------------------------------
(* The end of a session. *)

\* endSession keeps the item in progress and the poll.
LEMMA EndShape ==
  ASSUME NEW k \in Consoles, Once(k.chain, {"poll"})
  PROVE  LET r == EndSession(k)
         IN /\ r \in Consoles /\ r.phase = "ended" /\ r.active = NoSession
            /\ r.conn = NoConnection /\ r.proj = NoHandoff /\ r.pending = {}
            /\ r.last = k.last /\ r.ids = k.ids /\ r.hidden = k.hidden
            /\ r.summoned = k.summoned /\ r.pc = k.pc /\ r.cmd = k.cmd
            /\ r.polling = k.polling /\ r.target = k.target /\ r.unhidden = k.unhidden
            /\ r.shell = k.shell
            /\ k.chain = <<>> <=> r.chain = <<>>
            /\ k.chain # <<>> => r.chain[1] = k.chain[1]
            /\ k.chain # <<>> /\ k.wait > 0 => r.wait > 0
            /\ Once(r.chain, {"poll"})
            /\ \A i \in DOMAIN r.chain :
                 /\ i # 1 => r.chain[i].kind = "poll"
                 /\ \E j \in DOMAIN k.chain : r.chain[i] = k.chain[j]
<1> DEFINE polls == {i \in 2 .. Len(k.chain) : IsPoll(k.chain[i])}
           kept == IF k.chain = <<>> THEN <<>>
                   ELSE IF polls = {} THEN <<Head(k.chain)>>
                   ELSE <<Head(k.chain), k.chain[CHOOSE i \in polls : TRUE]>>
           w == IF k.wait > Len(kept) THEN Len(kept) ELSE k.wait
           r == [k EXCEPT !.conn = NoConnection, !.active = NoSession, !.proj = NoHandoff,
                          !.pending = {}, !.completed = {}, !.phase = "ended",
                          !.chain = kept, !.wait = w]
<1>1. k.chain \in Seq(Items) /\ k.wait \in Nat  BY DEF Consoles
<1>2. /\ kept \in Seq(Items) /\ Len(kept) \in Nat
      /\ k.chain = <<>> <=> kept = <<>>
      /\ k.chain # <<>> => kept[1] = k.chain[1] /\ Len(kept) > 0
      /\ Once(kept, {"poll"})
      /\ \A i \in DOMAIN kept :
           /\ i # 1 => kept[i].kind = "poll"
           /\ \E j \in DOMAIN k.chain : kept[i] = k.chain[j]
  <2>1. CASE k.chain = <<>>
    <3>1. kept = <<>>  BY <2>1
    <3> QED  BY <3>1, <2>1, HasNothing
  <2>2. CASE k.chain # <<>>
    <3> DEFINE h == k.chain[1]
    <3>1. Head(k.chain) = h /\ h \in Items /\ 1 \in DOMAIN k.chain /\ DOMAIN k.chain = 1 .. Len(k.chain)
      BY <1>1, <2>2, TailShape
    <3>2. CASE polls = {}
      <4> DEFINE s == <<h>>
      <4>1. kept = s  BY <2>2, <3>1, <3>2
      <4>2. s \in Seq(Items) /\ Len(s) = 1 /\ DOMAIN s = {1} /\ s[1] = h
        BY <3>1
      <4> HIDE DEF s, kept
      <4>3. Once(s, {"poll"})  BY <4>2 DEF Once
      <4>4. s # <<>>  BY <4>2
      <4> QED  BY <4>1, <4>2, <4>3, <4>4, <3>1, <2>2
    <3>3. CASE polls # {}
      <4> DEFINE n == CHOOSE i \in polls : TRUE
                 e == k.chain[n]
                 s == <<h, e>>
      <4>1. n \in polls  BY <3>3
      <4>9. \A i \in polls : i \in DOMAIN k.chain /\ i # 1 /\ k.chain[i].kind = "poll"
        BY <3>1, <1>1 DEF IsPoll
      <4> HIDE DEF n, polls
      <4>2. n \in DOMAIN k.chain /\ n # 1 /\ e.kind = "poll"  BY <4>1, <4>9
      <4>3. e \in Items  BY <4>2, <1>1
      <4>4. kept = s  BY <2>2, <3>1, <3>3 DEF n
      <4> HIDE DEF e, kept
      <4>5. s \in Seq(Items) /\ Len(s) = 2 /\ DOMAIN s = {1, 2} /\ s[1] = h /\ s[2] = e
        BY <3>1, <4>3
      <4> HIDE DEF s
      <4>6. h.kind # "poll"  BY <3>1, <4>2 DEF Once, e
      <4>7. Once(s, {"poll"})  BY <4>5, <4>6 DEF Once
      <4>8. s # <<>>  BY <4>5
      <4> QED  BY <4>2, <4>4, <4>5, <4>7, <4>8, <3>1, <2>2 DEF e
    <3> QED  BY <3>2, <3>3
  <2> QED  BY <2>1, <2>2
<1>3. EndSession(k) = r  BY DEF EndSession
<1>4. w \in Nat /\ (k.chain # <<>> /\ k.wait > 0 => w > 0)  BY <1>1, <1>2
<1> HIDE DEF kept, w
<1>5. NoConnection \in RunnerConnections
  BY DEF NoConnection, RunnerConnections
<1>6. NoSession \in SessionIds /\ NoHandoff \in Handoffs
  BY DEF NoSession, SessionIds, NoHandoff, Handoff, Handoffs, Statuses
<1>7. r \in Consoles  BY <1>2, <1>4, <1>5, <1>6 DEF Consoles
<1>8. /\ r.phase = "ended" /\ r.active = NoSession
      /\ r.conn = NoConnection /\ r.proj = NoHandoff /\ r.pending = {}
      /\ r.last = k.last /\ r.ids = k.ids /\ r.hidden = k.hidden
      /\ r.summoned = k.summoned /\ r.pc = k.pc /\ r.cmd = k.cmd
      /\ r.polling = k.polling /\ r.target = k.target /\ r.unhidden = k.unhidden
      /\ r.shell = k.shell /\ r.chain = kept /\ r.wait = w
  BY DEF Consoles
<1> HIDE DEF r
<1> QED  BY <1>2, <1>3, <1>4, <1>7, <1>8

\* endSession out of the opening.
LEMMA EndKeeps ==
  ASSUME NEW k, NEW p, Core(k, p), Live(k), k.pc \notin {"connect", "gate"}
  PROVE  Core(EndSession(k), p)
<1> DEFINE r == EndSession(k)
<1> USE DEF Live
<1>1. k \in Consoles /\ Once(k.chain, {"poll"})  BY DEF Core, ChainSound
<1>2. /\ r \in Consoles /\ r.phase = "ended" /\ r.active = NoSession
      /\ r.conn = NoConnection /\ r.proj = NoHandoff /\ r.pending = {}
      /\ r.last = k.last /\ r.ids = k.ids /\ r.hidden = k.hidden
      /\ r.summoned = k.summoned /\ r.pc = k.pc /\ r.cmd = k.cmd
      /\ r.polling = k.polling /\ r.target = k.target /\ r.unhidden = k.unhidden
      /\ r.shell = k.shell /\ Once(r.chain, {"poll"})
      /\ \A i \in DOMAIN r.chain :
           /\ i # 1 => r.chain[i].kind = "poll"
           /\ \E j \in DOMAIN k.chain : r.chain[i] = k.chain[j]
  BY <1>1, EndShape
<1>3. \A kinds : Has(r.chain, kinds) => Has(k.chain, kinds)  BY <1>2 DEF Has
<1> HIDE DEF r
<1>4. SessionsSound(r)  BY <1>2 DEF Core, SessionsSound, NoConnection
<1>5. ChainSound(r)
  <2>1. \A i \in DOMAIN r.chain : r.chain[i].session.id \in 1 .. k.ids
    BY <1>2 DEF Core, ChainSound
  <2> QED  BY <2>1, <1>2, <1>3 DEF Core, ChainSound
<1>6. PcSound(r)  BY <1>2 DEF Core, PcSound
<1>7. ~SummonAhead(k)  BY DEF Core, SummonsSound
<1>8. SummonsSound(r)  BY <1>2, <1>3, <1>7 DEF SummonsSound, SummonAhead
<1>9. PanelSound(r, p)  BY <1>2 DEF Core, PanelSound
<1> QED  BY <1>2, <1>4, <1>5, <1>6, <1>8, <1>9 DEF Core, r

LEMMA EndServed ==
  ASSUME NEW k \in Consoles, Once(k.chain, {"poll"})
  PROVE  /\ Served(k) => Served(EndSession(k))
         /\ Commanded(k) => Commanded(EndSession(k))
<1> DEFINE r == EndSession(k)
<1>1. /\ r.shell = k.shell /\ r.summoned = k.summoned /\ r.pc = k.pc /\ r.cmd = k.cmd
      /\ k.chain = <<>> <=> r.chain = <<>>
      /\ k.chain # <<>> => r.chain[1] = k.chain[1]
  BY EndShape
<1> HIDE DEF r
<1>2. ASSUME Served(k) PROVE Served(r)
  <2>1. CASE k.chain = <<>>
    BY <1>1, <1>2, <2>1 DEF Served, Has
  <2>2. CASE k.chain # <<>>
    BY <1>1, <1>2, <2>2 DEF Served, Answers
  <2> QED  BY <2>1, <2>2
<1>3. ASSUME Commanded(k) PROVE Commanded(r)
  BY <1>1, <1>3 DEF Commanded
<1> QED  BY <1>2, <1>3 DEF r

LEMMA NoCommand ==
  ASSUME NEW k, ~Has(k.shell, ControlKinds), k.pc \notin {"op", "discover"}
  PROVE  Commanded(k)
<1>1. \A i \in DOMAIN k.shell : k.shell[i].kind \notin ControlKinds  BY DEF Has
<1> QED  BY <1>1 DEF Commanded, Once, ControlKinds

\* The finally block, from anywhere but the opening.
LEMMA QuitKeeps ==
  ASSUME NEW k, NEW p, Core(k, p), k.pc \notin {"connect", "gate"}, NEW r \in Consoles,
         r.phase = k.phase, r.active = k.active, r.last = k.last, r.ids = k.ids,
         r.hidden = k.hidden, r.summoned = k.summoned, r.target = k.target,
         KeepsSession(r, k), r.chain = k.chain, Has(r.shell, {"summon"}) => Has(k.shell, {"summon"}),
         r.pc = "pollwait", r.cmd = "quit", ~r.polling,
         r.unhidden \in {k.unhidden, r.hidden},
         k.pc = "op" => ~Live(k) /\ (k.hidden => r.unhidden)
  PROVE  Core(r, p)
<1> USE DEF Live, Core, KeepsSession
<1>1. SessionsSound(r)  BY DEF SessionsSound
<1>2. ChainSound(r)  BY DEF ChainSound
<1>3. PcSound(r)  BY DEF PcSound
<1>4. SummonsSound(r)  BY DEF SummonsSound, SummonAhead, PcSound
<1>5. PanelSound(r, p)  BY DEF PanelSound, PcSound
<1> QED  BY <1>1, <1>2, <1>3, <1>4, <1>5

\* The finally block, when the opening has failed.
LEMMA EndQuitKeeps ==
  ASSUME NEW k, NEW p, Core(k, p), k.pc \in {"connect", "gate"}
  PROVE  LET r == Finally(EndSession(k))
         IN /\ Core(r, p) /\ ~Live(r) /\ r.shell = k.shell
            /\ Commanded(k) => Commanded(r)
            /\ Served(k) => Served(r)
            /\ k.chain = <<>> <=> r.chain = <<>>
<1> DEFINE e == EndSession(k)
           r == [e EXCEPT !.cmd = "quit", !.polling = FALSE, !.pc = "pollwait"]
<1> USE DEF Live
<1>1. k \in Consoles /\ Once(k.chain, {"poll"})  BY DEF Core, ChainSound
<1>2. /\ e \in Consoles /\ e.phase = "ended" /\ e.active = NoSession
      /\ e.conn = NoConnection /\ e.proj = NoHandoff /\ e.pending = {}
      /\ e.last = k.last /\ e.ids = k.ids /\ e.hidden = k.hidden
      /\ e.summoned = k.summoned /\ e.target = k.target /\ e.unhidden = k.unhidden
      /\ e.shell = k.shell /\ Once(e.chain, {"poll"})
      /\ k.chain = <<>> <=> e.chain = <<>>
      /\ \A i \in DOMAIN e.chain :
           /\ i # 1 => e.chain[i].kind = "poll"
           /\ \E j \in DOMAIN k.chain : e.chain[i] = k.chain[j]
  BY <1>1, EndShape
<1>3. \A kinds : Has(e.chain, kinds) => Has(k.chain, kinds)  BY <1>2 DEF Has
<1>4. Served(k) => Served(e)  BY <1>1, EndServed
<1>5. Finally(e) = r  BY DEF Finally
<1> HIDE DEF e
<1>6. /\ r \in Consoles /\ r.phase = "ended" /\ r.active = NoSession
      /\ r.conn = NoConnection /\ r.proj = NoHandoff /\ r.pending = {}
      /\ r.last = k.last /\ r.ids = k.ids /\ r.hidden = k.hidden
      /\ r.summoned = k.summoned /\ r.target = k.target /\ r.unhidden = k.unhidden
      /\ r.shell = k.shell /\ r.chain = e.chain
      /\ r.pc = "pollwait" /\ r.cmd = "quit" /\ r.polling = FALSE
  BY <1>2 DEF Consoles
<1> HIDE DEF r
<1>7. ~k.hidden /\ ~k.unhidden  BY DEF Core, PcSound
<1>8. SessionsSound(r)  BY <1>6 DEF Core, SessionsSound, NoConnection
<1>9. ChainSound(r)
  <2>1. \A i \in DOMAIN r.chain : r.chain[i].session.id \in 1 .. k.ids
    BY <1>2, <1>6 DEF Core, ChainSound
  <2> QED  BY <2>1, <1>2, <1>3, <1>6 DEF Core, ChainSound
<1>10. PcSound(r)  BY <1>6, <1>7 DEF PcSound
<1>11. SummonsSound(r)  BY <1>6, <1>7 DEF SummonsSound
<1>12. PanelSound(r, p)  BY <1>6, <1>7 DEF Core, PanelSound
<1>13. ASSUME Commanded(k) PROVE Commanded(r)
  <2>1. ~Has(r.shell, ControlKinds)  BY <1>6, <1>13 DEF Commanded
  <2> QED  BY <2>1, <1>6, NoCommand
<1>14. Core(r, p)  BY <1>6, <1>8, <1>9, <1>10, <1>11, <1>12 DEF Core
<1>15. ASSUME Served(k) PROVE Served(r)
  BY <1>2, <1>4, <1>6, <1>15 DEF Served, Answers
<1> QED  BY <1>2, <1>5, <1>6, <1>13, <1>14, <1>15 DEF e

\* failSession, except while the connection is still awaited.
LEMMA FailKeeps ==
  ASSUME NEW k, NEW p, Core(k, p), k.pc # "connect"
  PROVE  LET r == FailSession(k)
         IN /\ Core(r, p) /\ ~Live(r) /\ r.shell = k.shell
            /\ k.chain = <<>> <=> r.chain = <<>>
            /\ Served(k) => Served(r)
            /\ Commanded(k) => Commanded(r)
            /\ Commanded(k) /\ k.pc # "gate" => r.pc = k.pc /\ r.hidden = k.hidden
<1> DEFINE e == EndSession(k)
<1>1. k \in Consoles /\ Once(k.chain, {"poll"})  BY DEF Core, ChainSound
<1>2. CASE ~Live(k)  BY <1>2 DEF FailSession, Live
<1>3. CASE Live(k) /\ k.pc = "gate"
  <2>1. FailSession(k) = Finally(EndSession(k))  BY <1>3 DEF FailSession, Live
  <2> QED  BY <2>1, <1>3, EndQuitKeeps
<1>4. CASE Live(k) /\ k.pc # "gate"
  <2>1. FailSession(k) = e  BY <1>4 DEF FailSession, Live
  <2>2. Core(e, p)  BY <1>4, EndKeeps
  <2>3. /\ e.phase = "ended" /\ e.pc = k.pc /\ e.shell = k.shell /\ e.hidden = k.hidden
        /\ k.chain = <<>> <=> e.chain = <<>>
    BY <1>1, EndShape
  <2>4. (Served(k) => Served(e)) /\ (Commanded(k) => Commanded(e))  BY <1>1, EndServed
  <2> HIDE DEF e
  <2>5. ~Live(e)  BY <2>3 DEF Live
  <2> QED  BY <2>1, <2>2, <2>3, <2>4, <2>5
<1> QED  BY <1>2, <1>3, <1>4

-----------------------------------------------------------------------------
(* The item in progress ends. *)

LEMMA FinishKeeps ==
  ASSUME NEW k, NEW p, Core(k, p), ~Has(k.shell, ChainKinds), k.chain # <<>>
  PROVE  LET r == FinishFirst(k)
         IN /\ Core(r, p) /\ Served(r) /\ (Commanded(k) => Commanded(r))
            /\ KeepsControl(r, k) /\ KeepsSession(r, k) /\ r.chain = Tail(k.chain)
<1> DEFINE c == Tail(k.chain)
           w == IF k.wait = 0 THEN 0 ELSE k.wait - 1
           next == [k EXCEPT !.chain = c, !.wait = w]
<1>1. k \in Consoles /\ k.chain \in Seq(Items)  BY DEF Core, Consoles
<1>2. /\ c \in Seq(Items) /\ Len(c) = Len(k.chain) - 1 /\ Len(k.chain) \in Nat
      /\ DOMAIN k.chain = 1 .. Len(k.chain)
      /\ \A i \in DOMAIN c : i + 1 \in DOMAIN k.chain /\ c[i] = k.chain[i + 1] /\ i + 1 # 1
  BY <1>1, TailShape
<1>3. /\ \A kinds : Has(c, kinds) => Has(k.chain, kinds)
      /\ Once(k.chain, {"poll"}) => Once(c, {"poll"})
  BY <1>1, HasTail
<1>4. FinishFirst(k) = StartFirst(next)  BY DEF FinishFirst
<1>5. w \in Nat  BY <1>1 DEF Consoles
<1> HIDE DEF c, w
<1>6. next \in Consoles  BY <1>1, <1>2, <1>5 DEF Consoles
<1>7. /\ next.chain = c /\ next.shell = k.shell
      /\ KeepsControl(next, k) /\ KeepsSession(next, k)
  BY <1>1 DEF Consoles, KeepsControl, KeepsSession
<1> HIDE DEF next
<1>8. Core(next, p)
  <2> USE DEF KeepsControl, KeepsSession, Live
  <2>1. SessionsSound(next)  BY <1>7 DEF Core, SessionsSound
  <2>2. ChainSound(next)
    <3>1. \A i \in DOMAIN c :
            /\ c[i].session.id \in 1 .. k.ids
            /\ Live(k) /\ c[i].kind = "publish" =>
                 c[i].session = k.active /\ k.proj.status # "none"
            /\ ~Live(k) => c[i].kind = "poll"
      BY <1>2 DEF Core, ChainSound
    <3>2. Once(c, {"poll"}) /\ (Has(c, {"poll"}) => k.pc \in {"loop", "pollwait"})
      BY <1>3 DEF Core, ChainSound
    <3> QED  BY <3>1, <3>2, <1>7 DEF Core, ChainSound
  <2>3. PcSound(next)  BY <1>7 DEF Core, PcSound
  <2>4. SummonsSound(next)
    <3>1. SUFFICES ASSUME SummonAhead(next) PROVE k.pc = "gate"
      BY <1>7 DEF SummonsSound
    <3>2. ~Has(k.shell, {"summon"})  BY DEF Has, ChainKinds
    <3>3. ~k.summoned /\ Has(c, {"publish"})  BY <3>1, <3>2, <1>7 DEF SummonAhead
    <3>4. SummonAhead(k)  BY <3>3, <1>3 DEF SummonAhead
    <3>5. Live(k)
      <4>1. PICK i \in DOMAIN c : c[i].kind = "publish"  BY <3>3 DEF Has
      <4>2. i + 1 \in DOMAIN k.chain /\ i + 1 # 1 /\ k.chain[i + 1].kind = "publish"
        BY <4>1, <1>2
      <4> QED  BY <4>2 DEF Core, ChainSound
    <3> QED  BY <3>4, <3>5 DEF Core, SummonsSound
  <2>5. PanelSound(next, p)  BY <1>7 DEF Core, PanelSound
  <2> QED  BY <1>6, <2>1, <2>2, <2>3, <2>4, <2>5 DEF Core
<1> DEFINE r == StartFirst(next)
<1>9. /\ Core(r, p) /\ Served(r)
      /\ KeepsControl(r, next) /\ KeepsSession(r, next) /\ r.chain = next.chain
      /\ Commanded(next) /\ (next.pc = "discover" => next.chain = <<>>) => Commanded(r)
  BY <1>7, <1>8, StartKeeps
<1>10. KeepsControl(r, k) /\ KeepsSession(r, k) /\ r.chain = Tail(k.chain)
  BY <1>7, <1>9 DEF KeepsControl, KeepsSession, c
<1>11. ASSUME Commanded(k) PROVE Commanded(r)
  <2>1. Commanded(next)  BY <1>7, <1>11 DEF Commanded, KeepsControl
  <2>2. ASSUME k.pc = "discover", c # <<>> PROVE FALSE
    <3>1. ~Live(k) /\ ~Has(k.chain, {"poll"})  BY <2>2 DEF Core, PcSound, ChainSound
    <3>2. Len(k.chain) # 1  BY <2>2, <1>1, TailShape DEF c
    <3>3. 1 \in DOMAIN c
      BY <3>2, <1>1, TailShape DEF c
    <3>4. 2 \in DOMAIN k.chain  BY <3>3, <1>2
    <3>5. k.chain[2].kind = "poll"  BY <3>1, <3>4 DEF Core, ChainSound
    <3> QED  BY <3>1, <3>4, <3>5 DEF Has
  <2> QED  BY <2>1, <2>2, <1>7, <1>9 DEF KeepsControl
<1> QED  BY <1>4, <1>9, <1>10, <1>11

\* What is left of the chain, or the panel, shows the projection still.
LEMMA FinishAgrees ==
  ASSUME NEW k \in Consoles, NEW p, NEW q, NEW r, k.chain # <<>>,
         KeepsControl(r, k), KeepsSession(r, k), r.chain = Tail(k.chain), Agreement(k, p),
         IF k.chain[1].kind = "publish"
         THEN q.session = k.active => q.shown = k.chain[1].handoff
         ELSE q.session = k.active => p.session = k.active /\ q.shown = p.shown
  PROVE  Agreement(r, q)
<1> DEFINE c == Tail(k.chain)
<1>1. k.chain \in Seq(Items)  BY DEF Consoles
<1>2. /\ DOMAIN c = 1 .. (Len(k.chain) - 1) /\ DOMAIN k.chain = 1 .. Len(k.chain)
      /\ Len(k.chain) \in Nat \ {0} /\ 1 \in DOMAIN k.chain
      /\ \A i \in DOMAIN c : i + 1 \in DOMAIN k.chain /\ c[i] = k.chain[i + 1]
      /\ \A i \in DOMAIN k.chain : i # 1 => i - 1 \in DOMAIN c /\ c[i - 1] = k.chain[i]
  BY <1>1, TailShape
<1> HIDE DEF c
<1>3. SUFFICES ASSUME Live(k), k.proj.status # "none"
               PROVE  IF Has(c, {"publish"})
                      THEN \E i \in DOMAIN c :
                             /\ c[i].kind = "publish" /\ Shown(c[i].handoff, k)
                             /\ \A j \in DOMAIN c : j > i => c[j].kind = "poll"
                      ELSE q.session = k.active => Shown(q.shown, k)
  BY DEF Agreement, LastPublished, Shown, Live, KeepsControl, KeepsSession, c
<1>4. CASE Has(k.chain, {"publish"})
  <2>1. PICK i \in DOMAIN k.chain :
          /\ k.chain[i].kind = "publish" /\ Shown(k.chain[i].handoff, k)
          /\ \A j \in DOMAIN k.chain : j > i => k.chain[j].kind = "poll"
    BY <1>3, <1>4 DEF Agreement, LastPublished
  <2>2. CASE i = 1
    <3>1. \A j \in DOMAIN c : c[j].kind = "poll"  BY <2>1, <2>2, <1>2
    <3>2. ~Has(c, {"publish"})  BY <3>1 DEF Has
    <3> QED  BY <3>2, <2>1, <2>2
  <2>3. CASE i # 1
    <3>1. i - 1 \in DOMAIN c /\ c[i - 1] = k.chain[i]  BY <2>3, <1>2
    <3>2. ASSUME NEW j \in DOMAIN c, j > i - 1 PROVE c[j].kind = "poll"
      <4>1. j + 1 \in DOMAIN k.chain /\ c[j] = k.chain[j + 1]  BY <1>2
      <4>2. i \in 1 .. Len(k.chain) /\ j \in 1 .. (Len(k.chain) - 1)  BY <1>2
      <4>3. j + 1 > i  BY <4>2, <3>2, <1>2
      <4> QED  BY <4>1, <4>3, <2>1
    <3>3. Has(c, {"publish"})  BY <3>1, <2>1 DEF Has
    <3> QED  BY <3>1, <3>2, <3>3, <2>1
  <2> QED  BY <2>2, <2>3
<1>5. CASE ~Has(k.chain, {"publish"})
  <2>1. ~Has(c, {"publish"}) /\ k.chain[1].kind # "publish"  BY <1>2, <1>5 DEF Has
  <2> QED  BY <2>1, <1>3, <1>5 DEF Agreement
<1> QED  BY <1>4, <1>5

-----------------------------------------------------------------------------
(* The projection and its connection. *)

LEMMA ProjKeeps ==
  ASSUME NEW k, NEW p, Core(k, p), Live(k), k.pc # "connect",
         NEW h \in Handoffs, h.status # "none"
  PROVE  LET r == [k EXCEPT !.proj = h]
         IN /\ Core(r, p) /\ r.proj = h /\ r.conn = k.conn /\ KeepsControl(r, k)
            /\ r.chain = k.chain /\ r.shell = k.shell /\ r.wait = k.wait
            /\ Served(k) => Served(r)
            /\ Commanded(k) => Commanded(r)
<1> DEFINE r == [k EXCEPT !.proj = h]
<1>1. k \in Consoles  BY DEF Core
<1>2. r \in Consoles  BY <1>1 DEF Consoles
<1>3. /\ r.proj = h /\ r.conn = k.conn /\ r.pending = k.pending /\ KeepsControl(r, k)
      /\ r.chain = k.chain /\ r.shell = k.shell /\ r.wait = k.wait
  BY <1>1 DEF Consoles, KeepsControl
<1> HIDE DEF r
<1> USE DEF KeepsControl, Live
<1>4. SessionsSound(r)  BY <1>3 DEF Core, SessionsSound
<1>5. ChainSound(r)  BY <1>3 DEF Core, ChainSound
<1>6. PcSound(r)  BY <1>3 DEF Core, PcSound
<1>7. SummonsSound(r)  BY <1>3 DEF Core, SummonsSound, SummonAhead
<1>8. PanelSound(r, p)  BY <1>3 DEF Core, PanelSound
<1>9. Core(r, p)  BY <1>2, <1>4, <1>5, <1>6, <1>7, <1>8 DEF Core
<1>10. Served(k) => Served(r)  BY <1>3 DEF Served, Answers
<1>11. Commanded(k) => Commanded(r)  BY <1>3 DEF Commanded
<1> QED  BY <1>3, <1>9, <1>10, <1>11 DEF r

LEMMA ConnKeeps ==
  ASSUME NEW k, NEW p, Core(k, p), NEW c \in RunnerConnections,
         ~Live(k) => c = NoConnection,
         c.stage \in {"none", "connecting"} => c.frames = <<>> /\ ~c.eof /\ ~c.served,
         k.pc = "connect" => c.stage = "connecting"
  PROVE  LET r == [k EXCEPT !.conn = c]
         IN /\ Core(r, p) /\ r.conn = c /\ r.proj = k.proj /\ KeepsControl(r, k)
            /\ r.chain = k.chain /\ r.shell = k.shell /\ r.wait = k.wait
            /\ Served(k) => Served(r)
            /\ Commanded(k) => Commanded(r)
<1> DEFINE r == [k EXCEPT !.conn = c]
<1>1. k \in Consoles  BY DEF Core
<1>2. r \in Consoles  BY <1>1 DEF Consoles
<1>3. /\ r.proj = k.proj /\ r.conn = c /\ r.pending = k.pending /\ KeepsControl(r, k)
      /\ r.chain = k.chain /\ r.shell = k.shell /\ r.wait = k.wait
  BY <1>1 DEF Consoles, KeepsControl
<1> HIDE DEF r
<1> USE DEF KeepsControl, Live
<1>4. SessionsSound(r)  BY <1>3 DEF Core, SessionsSound
<1>5. ChainSound(r)  BY <1>3 DEF Core, ChainSound
<1>6. PcSound(r)  BY <1>3 DEF Core, PcSound
<1>7. SummonsSound(r)  BY <1>3 DEF Core, SummonsSound, SummonAhead
<1>8. PanelSound(r, p)  BY <1>3 DEF Core, PanelSound
<1>9. Core(r, p)  BY <1>2, <1>4, <1>5, <1>6, <1>7, <1>8 DEF Core
<1>10. Served(k) => Served(r)  BY <1>3 DEF Served, Answers
<1>11. Commanded(k) => Commanded(r)  BY <1>3 DEF Commanded
<1> QED  BY <1>3, <1>9, <1>10, <1>11 DEF r

LEMMA PublishedStays ==
  ASSUME NEW k, NEW r, Published(k), KeepsControl(r, k), r.proj = k.proj, r.chain = k.chain
  PROVE  Published(r)
BY DEF Published, KeepsControl, Live

\* A connection is replaced once the projection is published.
LEMMA ReplaceKeeps ==
  ASSUME NEW k, NEW p, Core(k, p), Served(k), Commanded(k), Published(k),
         Live(k), k.pc # "connect",
         NEW mode \in {"initial", "resume", "recover"},
         mode = "resume" => k.proj.status = "reconnecting"
  PROVE  Steady(ReplaceConnection(k, mode), p)
<1> DEFINE from == IF mode = "resume" THEN k.proj.cursor ELSE 0
           c == [NoConnection EXCEPT !.stage = "connecting", !.mode = mode, !.from = from]
           r == [k EXCEPT !.conn = c]
<1>1. from \in Nat  BY DEF Core, Consoles, Handoffs
<1> HIDE DEF from
<1>7. /\ NoConnection \in RunnerConnections
      /\ NoConnection.frames = <<>> /\ ~NoConnection.eof /\ ~NoConnection.served
  BY DEF NoConnection, RunnerConnections
<1>2. /\ c \in RunnerConnections /\ c.stage = "connecting" /\ c.mode = mode
      /\ c.frames = <<>> /\ ~c.eof /\ ~c.served
  BY <1>1, <1>7 DEF RunnerConnections
<1>3. ReplaceConnection(k, mode) = r  BY DEF ReplaceConnection, from
<1> HIDE DEF c
<1>4. /\ Core(r, p) /\ r.conn = c /\ r.proj = k.proj /\ KeepsControl(r, k)
      /\ r.chain = k.chain /\ Served(r) /\ Commanded(r)
  BY <1>2, ConnKeeps
<1> HIDE DEF r
<1>5. Agreement(r, p)  BY <1>4, PublishedStays, PublishedAgrees
<1>6. Resuming(r)  BY <1>2, <1>4 DEF Resuming
<1> QED  BY <1>3, <1>4, <1>5, <1>6 DEF Steady

\* The connection is dropped once the projection is published.
LEMMA DropKeeps ==
  ASSUME NEW k, NEW p, Core(k, p), Served(k), Commanded(k), Published(k), k.pc # "connect"
  PROVE  Steady([k EXCEPT !.conn = NoConnection], p)
<1> DEFINE r == [k EXCEPT !.conn = NoConnection]
<1>1. /\ NoConnection \in RunnerConnections /\ NoConnection.stage = "none"
      /\ NoConnection.mode = "initial"
      /\ NoConnection.frames = <<>> /\ ~NoConnection.eof /\ ~NoConnection.served
  BY DEF NoConnection, RunnerConnections
<1>2. /\ Core(r, p) /\ r.conn = NoConnection /\ r.proj = k.proj /\ KeepsControl(r, k)
      /\ r.chain = k.chain /\ Served(r) /\ Commanded(r)
  BY <1>1, ConnKeeps
<1> HIDE DEF r
<1>3. Agreement(r, p)  BY <1>2, PublishedStays, PublishedAgrees
<1>4. Resuming(r)  BY <1>1, <1>2 DEF Resuming
<1> QED  BY <1>2, <1>3, <1>4 DEF Steady, r

\* A gap is published.
LEMMA GapKeeps ==
  ASSUME NEW k, NEW p, Core(k, p), Served(k), Commanded(k)
  PROVE  LET r == EnterGap(k)
         IN /\ Core(r, p) /\ Served(r) /\ Commanded(r) /\ Published(r)
            /\ KeepsControl(r, k)
<1>1. CASE k.proj.status = "none"
  BY <1>1 DEF EnterGap, Published, KeepsControl
<1>2. CASE k.proj.status # "none"
  <2> DEFINE h == [k.proj EXCEPT !.status = "gap"]
             m == [k EXCEPT !.proj = h]
             r == Publish(m)
  <2>1. k \in Consoles  BY DEF Core
  <2>2. k.proj \in Handoffs  BY <2>1 DEF Consoles
  <2>3. h \in Handoffs /\ h.status = "gap"  BY <2>2 DEF Handoffs, Statuses
  <2>4. Live(k) /\ k.pc # "connect"
    BY <1>2 DEF Core, SessionsSound, PcSound, NoHandoff, Handoff
  <2>5. EnterGap(k) = r  BY <1>2 DEF EnterGap
  <2> HIDE DEF h
  <2>6. Core(m, p) /\ KeepsControl(m, k) /\ Served(m) /\ Commanded(m)
    BY <2>3, <2>4, ProjKeeps
  <2> HIDE DEF m
  <2>7. Core(r, p) /\ Served(r) /\ Commanded(r) /\ Published(r) /\ KeepsControl(r, m)
    BY <2>6, PublishKeeps
  <2>8. KeepsControl(r, k)  BY <2>6, <2>7 DEF KeepsControl
  <2> QED  BY <2>5, <2>7, <2>8
<1> QED  BY <1>1, <1>2

\* A session that is over agrees with everything.
LEMMA OverIsSteady ==
  ASSUME NEW k, NEW p, Core(k, p), Served(k), Commanded(k), ~Live(k)
  PROVE  Steady(k, p)
BY DEF Steady, Agreement, Resuming, Core, SessionsSound, NoConnection

LEMMA LostKeeps ==
  ASSUME NEW k, NEW p, Core(k, p), Served(k), Commanded(k), k.pc # "connect"
  PROVE  Steady(Lost(k), p)
<1>1. CASE k.proj.status = "none"
  <2> DEFINE r == FailSession(k)
  <2>1. Lost(k) = r  BY <1>1 DEF Lost
  <2>2. Core(r, p) /\ ~Live(r) /\ Served(r) /\ Commanded(r)  BY FailKeeps
  <2> HIDE DEF r
  <2> QED  BY <2>1, <2>2, OverIsSteady
<1>2. CASE k.proj.status # "none"
  <2> DEFINE g == EnterGap(k)
  <2>1. Core(g, p) /\ Served(g) /\ Commanded(g) /\ Published(g) /\ KeepsControl(g, k)
    BY GapKeeps
  <2>2. Live(k)  BY <1>2 DEF Core, SessionsSound, NoHandoff, Handoff
  <2>3. Lost(k) = IF k.conn.mode = "recover" THEN [g EXCEPT !.conn = NoConnection]
                  ELSE ReplaceConnection(g, "recover")
    BY <1>2 DEF Lost
  <2> HIDE DEF g
  <2>4. Live(g) /\ g.pc # "connect"  BY <2>1, <2>2 DEF KeepsControl, Live
  <2>5. Steady([g EXCEPT !.conn = NoConnection], p)  BY <2>1, <2>4, DropKeeps
  <2>6. Steady(ReplaceConnection(g, "recover"), p)  BY <2>1, <2>4, ReplaceKeeps
  <2> QED  BY <2>3, <2>5, <2>6
<1> QED  BY <1>1, <1>2

LEMMA AgreementStays ==
  ASSUME NEW k, NEW p, NEW r, Agreement(k, p), KeepsControl(r, k),
         r.proj = k.proj, r.conn.paged = k.conn.paged, r.chain = k.chain
  PROVE  Agreement(r, p)
BY DEF Agreement, LastPublished, Shown, KeepsControl, Live

\* Frames come and go, the runner ends the stream: the connection is the same.
LEMMA ConnSteady ==
  ASSUME NEW k, NEW p, Steady(k, p), NEW c \in RunnerConnections,
         c.mode = k.conn.mode, c.paged = k.conn.paged,
         k.conn.stage \in {"hello", "open", "live"}, c.stage \in {"hello", "open", "live"},
         c.stage = "live" <=> k.conn.stage = "live"
  PROVE  Steady([k EXCEPT !.conn = c], p)
<1> DEFINE r == [k EXCEPT !.conn = c]
<1>1. Live(k) /\ k.pc # "connect"
  BY DEF Steady, Core, SessionsSound, PcSound, NoConnection
<1>2. /\ Core(r, p) /\ r.conn = c /\ r.proj = k.proj /\ KeepsControl(r, k)
      /\ r.chain = k.chain /\ Served(r) /\ Commanded(r)
  BY <1>1, ConnKeeps DEF Steady
<1> HIDE DEF r
<1>3. Agreement(r, p)  BY <1>2, AgreementStays DEF Steady
<1>4. Resuming(r)  BY <1>2 DEF Resuming, Steady
<1> QED  BY <1>2, <1>3, <1>4 DEF Steady, r

\* A result goes to the panel.
LEMMA ResultKeeps ==
  ASSUME NEW k, NEW p, Core(k, p), k.pc # "connect",
         NEW session \in SessionIds, NEW i \in Intents
  PROVE  LET r == Call(k, "result", session, NoHandoff, i)
         IN /\ Core(r, p) /\ KeepsControl(r, k) /\ KeepsSession(r, k) /\ r.chain = k.chain
            /\ Served(k) => Served(r)
            /\ Commanded(k) /\ k.pc # "discover" => Commanded(r)
            /\ ~Has(k.shell, ChainKinds) => ~Has(r.shell, ChainKinds)
<1> DEFINE r == Call(k, "result", session, NoHandoff, i)
           op == [kind |-> "result", session |-> session, handoff |-> NoHandoff, intent |-> i]
<1>1. k \in Consoles  BY DEF Core
<1>2. NoHandoff \in Handoffs  BY DEF NoHandoff, Handoff, Handoffs, Statuses
<1>3. /\ r \in Consoles /\ op \in Ops /\ r.shell = Append(k.shell, op)
      /\ KeepsControl(r, k) /\ KeepsSession(r, k) /\ r.chain = k.chain /\ r.wait = k.wait
  BY <1>1, <1>2, CallShape
<1>4. op.kind = "result"  OBVIOUS
<1> HIDE DEF r, op
<1>5. k.shell \in Seq(Ops)  BY <1>1 DEF Consoles
<1>6. \A kinds : "result" \notin kinds => (Has(r.shell, kinds) <=> Has(k.shell, kinds))
  BY <1>3, <1>4, <1>5, HasAppend
<1>7. Core(r, p)
  <2>1. Has(r.shell, {"summon"}) => SummonAhead(k)  BY <1>6 DEF SummonAhead
  <2> QED  BY <2>1, <1>3, CoreOfCalls
<1>8. Served(k) => Served(r)  BY <1>1, <1>3, <1>4, CallKeepsServed DEF ChainKinds
<1>9. Commanded(k) /\ k.pc # "discover" => Commanded(r)
  BY <1>1, <1>3, <1>4, CallKeepsCommanded DEF ControlKinds
<1>10. ~Has(k.shell, ChainKinds) => ~Has(r.shell, ChainKinds)  BY <1>6 DEF ChainKinds
<1> QED  BY <1>3, <1>7, <1>8, <1>9, <1>10 DEF r

\* What is pending changes.
LEMMA PendingKeeps ==
  ASSUME NEW k, NEW p, Core(k, p), Live(k), NEW pd \in SUBSET Intents, NEW cd \in SUBSET Intents
  PROVE  LET r == [k EXCEPT !.pending = pd, !.completed = cd]
         IN /\ Core(r, p) /\ KeepsControl(r, k) /\ r.conn = k.conn /\ r.proj = k.proj
            /\ r.chain = k.chain /\ r.shell = k.shell
            /\ Served(k) => Served(r)
            /\ Commanded(k) => Commanded(r)
<1> DEFINE r == [k EXCEPT !.pending = pd, !.completed = cd]
<1>1. k \in Consoles  BY DEF Core
<1>2. r \in Consoles  BY <1>1 DEF Consoles
<1>3. /\ r.proj = k.proj /\ r.conn = k.conn /\ KeepsControl(r, k)
      /\ r.chain = k.chain /\ r.shell = k.shell /\ r.wait = k.wait
  BY <1>1 DEF Consoles, KeepsControl
<1> HIDE DEF r
<1> USE DEF KeepsControl, Live
<1>4. SessionsSound(r)  BY <1>3 DEF Core, SessionsSound
<1>5. ChainSound(r)  BY <1>3 DEF Core, ChainSound
<1>6. PcSound(r)  BY <1>3 DEF Core, PcSound
<1>7. SummonsSound(r)  BY <1>3 DEF Core, SummonsSound, SummonAhead
<1>8. PanelSound(r, p)  BY <1>3 DEF Core, PanelSound
<1>9. Core(r, p)  BY <1>2, <1>4, <1>5, <1>6, <1>7, <1>8 DEF Core
<1>10. Served(k) => Served(r)  BY <1>3 DEF Served, Answers
<1>11. Commanded(k) => Commanded(r)  BY <1>3 DEF Commanded
<1> QED  BY <1>3, <1>9, <1>10, <1>11 DEF r

\* The frames of a connection that is open.
LEMMA PageKeeps ==
  ASSUME NEW k, NEW p, Steady(k, p), NEW f \in RunnerFrames,
         k.conn.stage = "open", k.conn.mode = "resume"
  PROVE  Steady(TakePage(k, f), p)
<1> DEFINE h == IF f.to = f.from THEN k.proj ELSE Accepted(k.proj, f.to)
           c == [k.conn EXCEPT !.paged = TRUE]
           m == [k EXCEPT !.conn = c]
           r == [m EXCEPT !.proj = h]
<1>1. Live(k) /\ k.pc # "connect" /\ k \in Consoles
  BY DEF Steady, Core, SessionsSound, PcSound, NoConnection
<1>2. k.conn \in RunnerConnections /\ k.proj \in Handoffs  BY <1>1 DEF Consoles
<1>3. /\ c \in RunnerConnections /\ c.stage = "open" /\ c.mode = "resume" /\ c.paged = TRUE
  BY <1>2 DEF RunnerConnections
<1>4. k.proj.status = "reconnecting"  BY DEF Steady, Resuming
<1>5. h \in Handoffs /\ h.status = "reconnecting" /\ h.cards = k.proj.cards
  BY <1>2, <1>4 DEF Handoffs, Accepted, Handoff, RunnerFrames, Statuses
<1>6. TakePage(k, f) = IF f.from # k.proj.cursor THEN Lost(k) ELSE r
  BY <1>1 DEF TakePage, Consoles
<1> HIDE DEF c, h
<1>7. /\ Core(m, p) /\ m.conn = c /\ m.proj = k.proj /\ KeepsControl(m, k)
      /\ m.chain = k.chain /\ Served(m) /\ Commanded(m)
  BY <1>1, <1>3, ConnKeeps DEF Steady
<1> HIDE DEF m
<1>8. Live(m) /\ m.pc # "connect"  BY <1>1, <1>7 DEF KeepsControl, Live
<1>9. /\ Core(r, p) /\ r.proj = h /\ r.conn = m.conn /\ KeepsControl(r, m)
      /\ r.chain = m.chain /\ Served(r) /\ Commanded(r)
  BY <1>5, <1>7, <1>8, ProjKeeps
<1> HIDE DEF r
<1>10. Agreement(r, p)
  BY <1>3, <1>4, <1>5, <1>7, <1>9
  DEF Steady, Agreement, LastPublished, Shown, Live, KeepsControl
<1>11. Resuming(r)  BY <1>5, <1>9 DEF Resuming
<1>12. Steady(Lost(k), p)  BY <1>1, LostKeeps DEF Steady
<1> QED  BY <1>6, <1>7, <1>9, <1>10, <1>11, <1>12 DEF Steady

LEMMA SnapshotKeeps ==
  ASSUME NEW k, NEW p, Steady(k, p), NEW f \in RunnerFrames, k.conn.stage = "open"
  PROVE  Steady(TakeSnapshot(k, f), p)
<1> DEFINE h == Handoff("ready", f.to, f.to, f.team)
           c == [k.conn EXCEPT !.stage = "live"]
           m == [k EXCEPT !.conn = c]
           n == [m EXCEPT !.proj = h]
           r == Publish(n)
<1>1. Live(k) /\ k.pc # "connect" /\ k \in Consoles
  BY DEF Steady, Core, SessionsSound, PcSound, NoConnection
<1>2. k.conn \in RunnerConnections  BY <1>1 DEF Consoles
<1>3. c \in RunnerConnections /\ c.stage = "live"  BY <1>2 DEF RunnerConnections
<1>4. h \in Handoffs /\ h.status = "ready"
  BY DEF Handoffs, Handoff, RunnerFrames, Statuses
<1>5. TakeSnapshot(k, f) = IF ~AcceptsSnapshot(k, f) THEN Lost(k) ELSE r
  BY <1>1 DEF TakeSnapshot, Consoles
<1> HIDE DEF c, h
<1>6. /\ Core(m, p) /\ m.conn = c /\ KeepsControl(m, k) /\ Served(m) /\ Commanded(m)
  BY <1>1, <1>3, ConnKeeps DEF Steady
<1> HIDE DEF m
<1>7. Live(m) /\ m.pc # "connect"  BY <1>1, <1>6 DEF KeepsControl, Live
<1>8. /\ Core(n, p) /\ n.conn = m.conn /\ Served(n) /\ Commanded(n)
  BY <1>4, <1>6, <1>7, ProjKeeps
<1> HIDE DEF n
<1>9. Core(r, p) /\ Served(r) /\ Commanded(r) /\ Published(r) /\ KeepsSession(r, n)
  BY <1>8, PublishKeeps
<1> HIDE DEF r
<1>10. Agreement(r, p)  BY <1>9, PublishedAgrees
<1>11. Resuming(r)  BY <1>3, <1>6, <1>8, <1>9 DEF Resuming, KeepsSession
<1>12. Steady(Lost(k), p)  BY <1>1, LostKeeps DEF Steady
<1> QED  BY <1>5, <1>9, <1>10, <1>11, <1>12 DEF Steady

LEMMA EventKeeps ==
  ASSUME NEW k, NEW p, Steady(k, p), NEW f \in RunnerFrames, k.conn.stage = "live"
  PROVE  Steady(TakeEvent(k, f), p)
<1> DEFINE h == Accepted(k.proj, f.to)
           n == [k EXCEPT !.proj = h]
           r == Publish(n)
<1>1. Live(k) /\ k.pc # "connect" /\ k \in Consoles
  BY DEF Steady, Core, SessionsSound, PcSound, NoConnection
<1>2. k.proj \in Handoffs  BY <1>1 DEF Consoles
<1>3. h \in Handoffs /\ h.status = "reconnecting"
  BY <1>2 DEF Handoffs, Handoff, Accepted, RunnerFrames, Statuses
<1>4. TakeEvent(k, f) = IF ~Follows(k.proj, f.to) THEN Lost(k)
                        ELSE ReplaceConnection(r, "resume")
  BY DEF TakeEvent
<1> HIDE DEF h
<1>5. /\ Core(n, p) /\ n.proj = h /\ KeepsControl(n, k) /\ Served(n) /\ Commanded(n)
  BY <1>1, <1>3, ProjKeeps DEF Steady
<1> HIDE DEF n
<1>6. /\ Core(r, p) /\ Served(r) /\ Commanded(r) /\ Published(r)
      /\ KeepsControl(r, n) /\ KeepsSession(r, n)
  BY <1>5, PublishKeeps
<1> HIDE DEF r
<1>7. Live(r) /\ r.pc # "connect" /\ r.proj.status = "reconnecting"
  BY <1>1, <1>3, <1>5, <1>6 DEF KeepsControl, KeepsSession, Live
<1>8. Steady(ReplaceConnection(r, "resume"), p)  BY <1>6, <1>7, ReplaceKeeps
<1>9. Steady(Lost(k), p)  BY <1>1, LostKeeps DEF Steady
<1> QED  BY <1>4, <1>8, <1>9

LEMMA AckKeeps ==
  ASSUME NEW k, NEW p, Steady(k, p), NEW i \in Intents, k.pc # "connect"
  PROVE  Steady(OnIntentAck(k, i), p)
<1> DEFINE m == [k EXCEPT !.pending = k.pending \ {i}, !.completed = k.completed \cup {i}]
           r == Call(m, "result", k.active, NoHandoff, i)
<1>1. CASE i \notin k.pending  BY <1>1 DEF OnIntentAck
<1>2. CASE i \in k.pending
  <2>1. OnIntentAck(k, i) = r  BY <1>2 DEF OnIntentAck
  <2>2. k \in Consoles /\ Live(k) /\ k.pc # "discover"
    BY <1>2 DEF Steady, Core, SessionsSound, PcSound
  <2>3. /\ k.pending \ {i} \in SUBSET Intents /\ k.completed \cup {i} \in SUBSET Intents
        /\ k.active \in SessionIds
    BY <2>2 DEF Consoles
  <2>4. /\ Core(m, p) /\ KeepsControl(m, k) /\ m.conn = k.conn /\ m.proj = k.proj
        /\ m.chain = k.chain /\ Served(m) /\ Commanded(m)
    BY <2>2, <2>3, PendingKeeps DEF Steady
  <2> HIDE DEF m
  <2>5. m.pc # "connect" /\ m.pc # "discover"  BY <2>2, <2>4 DEF KeepsControl
  <2>6. /\ Core(r, p) /\ KeepsControl(r, m) /\ KeepsSession(r, m) /\ r.chain = m.chain
        /\ Served(r) /\ Commanded(r)
    BY <2>3, <2>4, <2>5, ResultKeeps
  <2> HIDE DEF r
  <2>7. KeepsControl(r, k) /\ r.conn = k.conn /\ r.proj = k.proj /\ r.chain = k.chain
    BY <2>4, <2>6 DEF KeepsControl, KeepsSession
  <2>8. Agreement(r, p)  BY <2>7, AgreementStays DEF Steady
  <2>9. Resuming(r)  BY <2>7 DEF Steady, Resuming
  <2> QED  BY <2>1, <2>6, <2>8, <2>9 DEF Steady
<1> QED  BY <1>1, <1>2

LEMMA FrameKeeps ==
  ASSUME NEW k, NEW p, Steady(k, p), NEW f \in RunnerFrames,
         k.conn.stage \in {"hello", "open", "live"}
  PROVE  Steady(AcceptFrame(k, f), p)
<1>1. k.pc # "connect" /\ k \in Consoles  BY DEF Steady, Core, PcSound
<1>2. Steady(Lost(k), p)  BY <1>1, LostKeeps DEF Steady
<1>3. k.conn \in RunnerConnections  BY <1>1 DEF Consoles
<1>4. CASE k.conn.stage = "hello"
  <2> DEFINE c == [k.conn EXCEPT !.stage = "open"]
  <2>1. AcceptFrame(k, f) = IF f.kind = "hello_ack" THEN [k EXCEPT !.conn = c] ELSE Lost(k)
    BY <1>4 DEF AcceptFrame
  <2>2. /\ c \in RunnerConnections /\ c.stage = "open" /\ c.mode = k.conn.mode
        /\ c.paged = k.conn.paged
    BY <1>3 DEF RunnerConnections
  <2> HIDE DEF c
  <2>3. Steady([k EXCEPT !.conn = c], p)  BY <2>2, <1>4, ConnSteady
  <2> QED  BY <2>1, <2>3, <1>2
<1>5. CASE k.conn.stage # "hello" /\ f.kind = "intent_ack"
  <2>1. AcceptFrame(k, f) = OnIntentAck(k, f.intent)  BY <1>5 DEF AcceptFrame
  <2>2. f.intent \in Intents  BY DEF RunnerFrames
  <2> QED  BY <2>1, <2>2, <1>1, AckKeeps
<1>6. CASE k.conn.stage = "open" /\ f.kind = "event_page" /\ k.conn.mode = "resume"
  <2>1. AcceptFrame(k, f) = TakePage(k, f)  BY <1>6 DEF AcceptFrame
  <2> QED  BY <2>1, <1>6, PageKeeps
<1>7. CASE k.conn.stage = "open" /\ f.kind = "snapshot"
  <2>1. AcceptFrame(k, f) = TakeSnapshot(k, f)  BY <1>7 DEF AcceptFrame
  <2> QED  BY <2>1, <1>7, SnapshotKeeps
<1>8. CASE k.conn.stage = "live" /\ f.kind = "event"
  <2>1. AcceptFrame(k, f) = TakeEvent(k, f)  BY <1>8 DEF AcceptFrame
  <2> QED  BY <2>1, <1>8, EventKeeps
<1>9. CASE /\ k.conn.stage # "hello" /\ f.kind # "intent_ack"
           /\ ~(k.conn.stage = "open" /\ f.kind = "event_page" /\ k.conn.mode = "resume")
           /\ ~(k.conn.stage = "open" /\ f.kind = "snapshot")
           /\ ~(k.conn.stage = "live" /\ f.kind = "event")
  <2>1. AcceptFrame(k, f) = Lost(k)  BY <1>9 DEF AcceptFrame
  <2> QED  BY <2>1, <1>2
<1> QED  BY <1>4, <1>5, <1>6, <1>7, <1>8, <1>9

-----------------------------------------------------------------------------
(* The steps of the adapter and of the Team Runner. *)

LEMMA SpendKeeps ==
  ASSUME budget \in [Kinds -> Nat], NEW what \in Kinds \ {"all"}, Spend(what)
  PROVE  /\ budget' \in [Kinds -> Nat]
         /\ budget'["replace"] \in Nat /\ budget["replace"] \in Nat
         /\ budget'["replace"] <= budget["replace"]
         /\ what = "replace" => budget'["replace"] = budget["replace"] - 1
<1>1. "all" \in Kinds /\ "replace" \in Kinds /\ what # "all"  BY DEF Kinds
<1>2. budget[what] \in Nat \ {0} /\ budget["all"] \in Nat \ {0} /\ budget["replace"] \in Nat
  BY <1>1 DEF Spend
<1> DEFINE b == [budget EXCEPT ![what] = budget[what] - 1]
<1>3. b \in [Kinds -> Nat] /\ b["all"] = budget["all"]  BY <1>1, <1>2
<1>4. b["replace"] = IF what = "replace" THEN budget["replace"] - 1 ELSE budget["replace"]
  BY <1>1
<1>5. budget' = [b EXCEPT !["all"] = b["all"] - 1]  BY DEF Spend
<1> HIDE DEF b
<1>6. b["all"] - 1 \in Nat  BY <1>2, <1>3
<1>7. budget' \in [Kinds -> Nat]  BY <1>3, <1>5, <1>6
<1>8. budget'["replace"] = b["replace"]  BY <1>1, <1>3, <1>5
<1> QED  BY <1>2, <1>4, <1>7, <1>8

LEMMA WorldAfterSpending ==
  ASSUME WorldSound, NEW what \in Kinds \ {"all"}, Spend(what), UNCHANGED runner
  PROVE  WorldSound'
<1>1. /\ budget' \in [Kinds -> Nat] /\ budget'["replace"] \in Nat /\ budget["replace"] \in Nat
      /\ budget'["replace"] <= budget["replace"]
  BY SpendKeeps DEF WorldSound
<1>2. "replace" \in Kinds /\ Budget["replace"] \in Nat  BY BoundsAssumption DEF Kinds
<1> QED  BY <1>1, <1>2 DEF WorldSound

LEMMA WorldUnchanged ==
  ASSUME WorldSound, UNCHANGED <<runner, budget>> PROVE WorldSound'
BY DEF WorldSound

\* hello is sent.
LEMMA HelloKeeps ==
  ASSUME ConsoleInv, ConnectSucceeds
  PROVE  ConsoleInv'
<1> DEFINE k == console
           c == [k.conn EXCEPT !.stage = "hello"]
           at == IF k.pc = "connect" THEN "gate" ELSE k.pc
           r == [k EXCEPT !.conn = c, !.pc = at]
<1>1. Steady(k, panel) /\ k \in Consoles /\ panel \in Panels  BY DEF ConsoleInv, Steady, Core
<1>2. k.conn \in RunnerConnections /\ k.conn.stage = "connecting"
  BY <1>1 DEF Consoles, ConnectSucceeds
<1>3. /\ c \in RunnerConnections /\ c.stage = "hello" /\ c.mode = k.conn.mode
      /\ c.paged = k.conn.paged
  BY <1>2 DEF RunnerConnections
<1>4. at \in {"discover", "gate", "loop", "pollwait", "drain", "op", "exited"}
  BY <1>1 DEF Consoles
<1>5. console' = r /\ panel' = panel  BY <1>1 DEF ConnectSucceeds, Consoles
<1>6. Live(k)  BY <1>1, <1>2 DEF Steady, Core, SessionsSound, NoConnection
<1>7. Steady(r, panel)
  <2>1. CASE k.pc # "connect"
    <3> DEFINE m == [k EXCEPT !.conn = c]
    <3>1. r = m  BY <2>1, <1>1 DEF Consoles
    <3> HIDE DEF c, r
    <3>2. /\ Core(m, panel) /\ m.conn = c /\ m.proj = k.proj /\ KeepsControl(m, k)
          /\ m.chain = k.chain /\ Served(m) /\ Commanded(m)
      BY <1>1, <1>3, <1>6, <2>1, ConnKeeps DEF Steady
    <3> HIDE DEF m
    <3>3. Agreement(m, panel)  BY <1>1, <1>3, <3>2, AgreementStays DEF Steady
    <3>4. Resuming(m)  BY <1>1, <1>2, <1>3, <3>2 DEF Steady, Resuming
    <3> QED  BY <3>1, <3>2, <3>3, <3>4 DEF Steady
  <2>2. CASE k.pc = "connect"
    <3> HIDE DEF c
    <3>1. /\ r \in Consoles /\ r.conn = c /\ r.pc = "gate" /\ r.proj = k.proj
          /\ r.pending = k.pending /\ r.chain = k.chain /\ r.shell = k.shell
          /\ r.phase = k.phase /\ r.active = k.active /\ r.last = k.last /\ r.ids = k.ids
          /\ r.hidden = k.hidden /\ r.summoned = k.summoned /\ r.cmd = k.cmd
          /\ r.polling = k.polling /\ r.target = k.target /\ r.unhidden = k.unhidden
      BY <1>1, <1>3, <2>2 DEF Consoles
    <3>2. /\ k.shell = <<>> /\ k.chain = <<>> /\ k.proj.status = "none" /\ k.phase = "opening"
          /\ ~k.hidden /\ ~k.unhidden /\ ~k.polling
      BY <1>1, <1>6, <2>2 DEF Steady, Core, PcSound, ChainSound
    <3> HIDE DEF r
    <3> USE DEF Live, Core
    <3>3. SessionsSound(r)  BY <1>1, <1>3, <1>6, <3>1 DEF Steady, SessionsSound
    <3>4. ChainSound(r)  BY <3>1, <3>2 DEF ChainSound, Has, Once
    <3>5. PcSound(r)  BY <3>1, <3>2 DEF PcSound
    <3>6. SummonsSound(r)  BY <3>1 DEF SummonsSound
    <3>7. PanelSound(r, panel)  BY <1>1, <3>1, <3>2 DEF Steady, PanelSound
    <3>8. Served(r) /\ Commanded(r)  BY <3>1, <3>2 DEF Served, Commanded, Has, Once
    <3>9. Agreement(r, panel)  BY <3>1, <3>2 DEF Agreement
    <3>10. Resuming(r)  BY <1>1, <1>2, <1>3, <3>1 DEF Resuming, Steady
    <3> QED  BY <1>1, <3>1, <3>3, <3>4, <3>5, <3>6, <3>7, <3>8, <3>9, <3>10 DEF Steady
  <2> QED  BY <2>1, <2>2
<1> HIDE DEF r
<1>8. WorldSound'  BY WorldUnchanged DEF ConsoleInv, ConnectSucceeds
<1> QED  BY <1>5, <1>7, <1>8 DEF ConsoleInv

LEMMA ConnectFailsKeeps ==
  ASSUME ConsoleInv, ConnectFails
  PROVE  ConsoleInv'
<1> DEFINE k == console
<1>1. Steady(k, panel) /\ panel' = panel  BY DEF ConsoleInv, ConnectFails
<1>2. WorldSound'
  <2>1. "connect" \in Kinds \ {"all"}  BY DEF Kinds
  <2> QED  BY <2>1, WorldAfterSpending DEF ConsoleInv, ConnectFails
<1>3. CASE k.pc = "connect"
  <2> DEFINE e == EndSession(k)
             r == Finally(e)
  <2>1. k.phase = "opening"  BY <1>1, <1>3 DEF Steady, Core, PcSound
  <2>2. FailSession(k) = e  BY <2>1, <1>3 DEF FailSession
  <2>3. console' = r  BY <2>2, <1>3 DEF ConnectFails
  <2>4. Core(r, panel) /\ ~Live(r) /\ Commanded(r) /\ Served(r)
    BY <1>1, <1>3, EndQuitKeeps DEF Steady
  <2> HIDE DEF r
  <2>5. Steady(r, panel)  BY <2>4, OverIsSteady
  <2> QED  BY <2>3, <2>5, <1>1, <1>2 DEF ConsoleInv
<1>4. CASE k.pc # "connect"
  <2> DEFINE g == EnterGap(k)
  <2>1. console' = [g EXCEPT !.conn = NoConnection]  BY <1>4 DEF ConnectFails
  <2>2. /\ Core(g, panel) /\ Served(g) /\ Commanded(g) /\ Published(g) /\ KeepsControl(g, k)
    BY <1>1, GapKeeps DEF Steady
  <2> HIDE DEF g
  <2>3. Steady([g EXCEPT !.conn = NoConnection], panel)
    BY <2>2, <1>4, DropKeeps DEF KeepsControl
  <2> QED  BY <2>1, <2>3, <1>1, <1>2 DEF ConsoleInv
<1> QED  BY <1>3, <1>4

\* A connection that carries anything is open, and the controller past it.
LEMMA OpenConnection ==
  ASSUME ConsoleInv,
         \/ console.conn.frames # <<>> \/ console.conn.eof \/ console.conn.served
         \/ console.conn.stage \in {"hello", "open", "live"}
  PROVE  /\ console.conn.stage \in {"hello", "open", "live"} /\ console.pc # "connect"
         /\ console.conn \in RunnerConnections /\ console \in Consoles
<1>1. console \in Consoles /\ console.conn \in RunnerConnections
  BY DEF ConsoleInv, Steady, Core, Consoles
<1>2. console.conn.stage \in {"none", "connecting", "hello", "open", "live"}
  BY <1>1 DEF RunnerConnections
<1>3. console.conn.stage \notin {"none", "connecting"}
  BY DEF ConsoleInv, Steady, Core, SessionsSound
<1>4. console.pc # "connect"  BY <1>3 DEF ConsoleInv, Steady, Core, PcSound
<1> QED  BY <1>1, <1>2, <1>3, <1>4

\* The runner's end changes frames and the end of the stream only.
LEMMA StreamKeeps ==
  ASSUME ConsoleInv, NEW fs \in Seq(RunnerFrames), NEW sv \in BOOLEAN, NEW ef \in BOOLEAN,
         NEW ak \in SUBSET Intents, console.conn.stage \in {"hello", "open", "live"}
  PROVE  Steady([console EXCEPT !.conn = [[[[console.conn EXCEPT !.frames = fs] EXCEPT
                   !.served = sv] EXCEPT !.eof = ef] EXCEPT !.asked = ak]], panel)
<1> DEFINE c == [[[[console.conn EXCEPT !.frames = fs] EXCEPT
                   !.served = sv] EXCEPT !.eof = ef] EXCEPT !.asked = ak]
<1>1. console.conn \in RunnerConnections  BY OpenConnection
<1>2. /\ c \in RunnerConnections /\ c.stage = console.conn.stage /\ c.mode = console.conn.mode
      /\ c.paged = console.conn.paged
  BY <1>1 DEF RunnerConnections
<1> HIDE DEF c
<1>3. Steady([console EXCEPT !.conn = c], panel)  BY <1>2, ConnSteady DEF ConsoleInv
<1> QED  BY <1>3 DEF c

LEMMA ReceiveKeeps ==
  ASSUME ConsoleInv, ReceiveFrame
  PROVE  ConsoleInv'
<1> DEFINE fs == Tail(console.conn.frames)
           f == Head(console.conn.frames)
           c == [console.conn EXCEPT !.frames = fs]
           k == [console EXCEPT !.conn = c]
<1>1. console.conn.frames # <<>>  BY DEF ReceiveFrame
<1>2. /\ console.conn.stage \in {"hello", "open", "live"}
      /\ console.conn \in RunnerConnections /\ console \in Consoles
  BY <1>1, OpenConnection
<1>3. console.conn.frames \in Seq(RunnerFrames)  BY <1>2 DEF RunnerConnections
<1>4. fs \in Seq(RunnerFrames) /\ f \in RunnerFrames  BY <1>1, <1>3, TailShape
<1>5. console' = AcceptFrame(k, f) /\ panel' = panel  BY DEF ReceiveFrame
<1> HIDE DEF fs, f
<1>6. /\ c \in RunnerConnections /\ c.stage = console.conn.stage /\ c.mode = console.conn.mode
      /\ c.paged = console.conn.paged
  BY <1>2, <1>4 DEF RunnerConnections
<1> HIDE DEF c
<1>7. Steady(k, panel)  BY <1>2, <1>6, ConnSteady DEF ConsoleInv
<1>8. k.conn.stage \in {"hello", "open", "live"}  BY <1>2, <1>6 DEF Consoles
<1> HIDE DEF k
<1>9. Steady(AcceptFrame(k, f), panel)  BY <1>4, <1>7, <1>8, FrameKeeps
<1>10. WorldSound'  BY WorldUnchanged DEF ConsoleInv, ReceiveFrame
<1> QED  BY <1>5, <1>9, <1>10 DEF ConsoleInv

LEMMA ClosedKeeps ==
  ASSUME ConsoleInv, ConnectionClosed
  PROVE  ConsoleInv'
<1>1. console.pc # "connect"  BY OpenConnection DEF ConnectionClosed
<1>2. Steady(Lost(console), panel)  BY <1>1, LostKeeps DEF ConsoleInv, Steady
<1>3. WorldSound'  BY WorldUnchanged DEF ConsoleInv, ConnectionClosed
<1> QED  BY <1>2, <1>3 DEF ConsoleInv, ConnectionClosed

FrameKinds == {"hello_ack", "event_page", "snapshot", "event", "intent_ack", "protocol_error"}

LEMMA FrameShape ==
  ASSUME ConsoleInv, NEW kind \in FrameKinds, NEW from \in Nat, NEW to \in Nat,
         NEW intent \in Intents
  PROVE  Frame(kind, from, to, intent) \in RunnerFrames
BY DEF ConsoleInv, WorldSound, Frame, RunnerFrames, FrameKinds

LEMMA PagesShape ==
  ASSUME ConsoleInv, NEW from \in Nat, NEW to \in Nat, from <= to
  PROVE  Pages(from, to) \in Seq(RunnerFrames)
<1>1. NoIntent \in Intents  BY DEF NoIntent, Intents
<1>2. CASE from = to
  <2> DEFINE f == Frame("event_page", from, to, NoIntent)
  <2>1. f \in RunnerFrames  BY <1>1, FrameShape DEF FrameKinds
  <2>2. Pages(from, to) = <<f>>  BY <1>2 DEF Pages
  <2> HIDE DEF f
  <2> QED  BY <2>1, <2>2
<1>3. CASE from # to
  <2> DEFINE n == (to - from + 1) \div 2
             last(i) == IF from + 2 * i > to THEN to ELSE from + 2 * i
             f(i) == Frame("event_page", from + 2 * (i - 1), last(i), NoIntent)
             s == [i \in 1 .. n |-> f(i)]
  <2>1. n \in Nat  OBVIOUS
  <2> HIDE DEF n
  <2>2. ASSUME NEW i \in 1 .. n PROVE f(i) \in RunnerFrames
    <3>1. from + 2 * (i - 1) \in Nat  BY <2>1
    <3>2. last(i) \in Nat  BY <2>1
    <3> HIDE DEF last
    <3> QED  BY <3>1, <3>2, <1>1, FrameShape DEF FrameKinds
  <2>3. Pages(from, to) = s  BY <1>3 DEF Pages, n
  <2> HIDE DEF f
  <2>4. s \in Seq(RunnerFrames)  BY <2>1, <2>2, IsASeq
  <2> QED  BY <2>3, <2>4
<1> QED  BY <1>2, <1>3

LEMMA ServeKeeps ==
  ASSUME ConsoleInv, ServeHello
  PROVE  ConsoleInv'
<1> DEFINE c == console.conn
           refused == c.mode = "resume" /\ c.from > runner.cursor
           no == Frame("protocol_error", 0, 0, NoIntent)
           ack == Frame("hello_ack", 0, 0, NoIntent)
           snap == Frame("snapshot", runner.cursor, runner.cursor, NoIntent)
           pages == IF c.mode = "resume" THEN Pages(c.from, runner.cursor) ELSE <<>>
           fs == IF refused THEN <<no>> ELSE <<ack>> \o pages \o <<snap>>
<1>1. c.stage = "hello"  BY DEF ServeHello
<1>2. c \in RunnerConnections /\ console \in Consoles  BY <1>1, OpenConnection
<1>3. c.from \in Nat /\ runner.cursor \in Nat /\ NoIntent \in Intents
  BY <1>2 DEF RunnerConnections, ConsoleInv, WorldSound, NoIntent, Intents
<1>4. no \in RunnerFrames /\ ack \in RunnerFrames /\ snap \in RunnerFrames
  BY <1>3, FrameShape DEF FrameKinds
<1>5. ~refused => pages \in Seq(RunnerFrames)
  <2>1. ~refused /\ c.mode = "resume" => c.from <= runner.cursor  BY <1>3
  <2>2. c.from <= runner.cursor => Pages(c.from, runner.cursor) \in Seq(RunnerFrames)
    BY <1>3, PagesShape
  <2>3. <<>> \in Seq(RunnerFrames)  OBVIOUS
  <2> QED  BY <2>1, <2>2, <2>3
<1>6. console' = [console EXCEPT !.conn.served = TRUE, !.conn.eof = refused, !.conn.frames = fs]
  BY DEF ServeHello
<1> HIDE DEF no, ack, snap, pages
<1>7. fs \in Seq(RunnerFrames)
  <2>1. <<no>> \in Seq(RunnerFrames) /\ <<ack>> \in Seq(RunnerFrames) /\ <<snap>> \in Seq(RunnerFrames)
    BY <1>4
  <2> QED  BY <2>1, <1>5, ConcatProperties
<1> HIDE DEF fs
<1>8. refused \in BOOLEAN  OBVIOUS
<1> HIDE DEF refused
<1> DEFINE d == [[[[console.conn EXCEPT !.frames = fs] EXCEPT
                   !.served = TRUE] EXCEPT !.eof = refused] EXCEPT !.asked = console.conn.asked]
<1>9. c.asked \in SUBSET Intents  BY <1>2 DEF RunnerConnections
<1>10. Steady([console EXCEPT !.conn = d], panel)
  BY <1>1, <1>7, <1>8, <1>9, StreamKeeps
<1>11. console' = [console EXCEPT !.conn = d]
  <2>1. d = [c EXCEPT !.served = TRUE, !.eof = refused, !.frames = fs]
    BY <1>2 DEF RunnerConnections
  <2> QED  BY <2>1, <1>2, <1>6 DEF Consoles, RunnerConnections
<1>12. WorldSound'  BY WorldUnchanged DEF ConsoleInv, ServeHello
<1> QED  BY <1>10, <1>11, <1>12 DEF ConsoleInv, ServeHello

\* A stream with other frames, asked intents, or an end.
LEMMA FramesKeep ==
  ASSUME ConsoleInv, NEW fs \in Seq(RunnerFrames),
         console.conn.stage \in {"hello", "open", "live"}
  PROVE  /\ Steady([console EXCEPT !.conn.frames = fs], panel)
         /\ Steady([console EXCEPT !.conn.frames = fs, !.conn.eof = TRUE], panel)
         /\ \A ak \in SUBSET Intents :
              Steady([console EXCEPT !.conn.asked = ak, !.conn.frames = fs], panel)
<1>1. console.conn \in RunnerConnections /\ console \in Consoles  BY OpenConnection
<1>2. /\ console.conn.served \in BOOLEAN /\ console.conn.eof \in BOOLEAN
      /\ console.conn.asked \in SUBSET Intents
  BY <1>1 DEF RunnerConnections
<1> DEFINE d(ef, ak) == [[[[console.conn EXCEPT !.frames = fs] EXCEPT
                   !.served = console.conn.served] EXCEPT !.eof = ef] EXCEPT !.asked = ak]
<1>3. \A ef \in BOOLEAN : \A ak \in SUBSET Intents :
        Steady([console EXCEPT !.conn = d(ef, ak)], panel)
  BY <1>2, StreamKeeps
<1>4. [console EXCEPT !.conn.frames = fs] =
        [console EXCEPT !.conn = d(console.conn.eof, console.conn.asked)]
  BY <1>1 DEF Consoles, RunnerConnections
<1>5. [console EXCEPT !.conn.frames = fs, !.conn.eof = TRUE] =
        [console EXCEPT !.conn = d(TRUE, console.conn.asked)]
  BY <1>1 DEF Consoles, RunnerConnections
<1>6. ASSUME NEW ak \in SUBSET Intents
      PROVE  [console EXCEPT !.conn.asked = ak, !.conn.frames = fs] =
               [console EXCEPT !.conn = d(console.conn.eof, ak)]
  BY <1>1 DEF Consoles, RunnerConnections
<1> HIDE DEF d
<1> QED  BY <1>2, <1>3, <1>4, <1>5, <1>6

LEMMA CommitKeeps ==
  ASSUME ConsoleInv, CommitEvent
  PROVE  ConsoleInv'
<1> DEFINE f == Frame("event", runner.cursor, runner.cursor + 1, NoIntent)
           fs == Append(console.conn.frames, f)
<1>1. runner.cursor \in Nat /\ NoIntent \in Intents
  BY DEF ConsoleInv, WorldSound, NoIntent, Intents
<1>2. f \in RunnerFrames  BY <1>1, FrameShape DEF FrameKinds
<1>3. console' = IF Streaming THEN [console EXCEPT !.conn.frames = fs] ELSE console
  BY DEF CommitEvent
<1> HIDE DEF f
<1>4. Steady(console', panel)
  <2>1. CASE Streaming
    <3>1. /\ console.conn.stage \in {"hello", "open", "live"}
          /\ console.conn \in RunnerConnections
      BY <2>1, OpenConnection DEF Streaming
    <3>2. fs \in Seq(RunnerFrames)
      BY <3>1, <1>2, AppendShape DEF RunnerConnections
    <3> HIDE DEF fs
    <3> QED  BY <2>1, <3>1, <3>2, <1>3, FramesKeep
  <2>2. CASE ~Streaming  BY <2>2, <1>3 DEF ConsoleInv
  <2> QED  BY <2>1, <2>2
<1>5. WorldSound'
  <2>1. /\ runner \in [cursor : Nat, team : Nat] /\ runner.cursor < MaxEvents
        /\ runner' = [runner EXCEPT !.cursor = @ + 1] /\ MaxEvents \in Nat
    BY BoundsAssumption DEF ConsoleInv, WorldSound, CommitEvent
  <2>2. /\ runner' \in [cursor : Nat, team : Nat] /\ runner'.cursor <= MaxEvents
        /\ runner'.team = runner.team
    BY <2>1
  <2> QED  BY <2>2 DEF ConsoleInv, WorldSound, CommitEvent
<1> QED  BY <1>4, <1>5 DEF ConsoleInv, CommitEvent

LEMMA AcknowledgeKeeps ==
  ASSUME ConsoleInv, NEW i, RunnerAcknowledges(i)
  PROVE  ConsoleInv'
<1> DEFINE f == Frame("intent_ack", 0, 0, i)
           fs == Append(console.conn.frames, f)
           ak == console.conn.asked \ {i}
<1>1. /\ console.conn.stage \in {"hello", "open", "live"}
      /\ console.conn \in RunnerConnections /\ console \in Consoles
  BY OpenConnection DEF RunnerAcknowledges, Streaming
<1>2. i \in Intents /\ ak \in SUBSET Intents
  BY <1>1 DEF RunnerConnections, RunnerAcknowledges
<1>3. f \in RunnerFrames  BY <1>2, FrameShape DEF FrameKinds
<1> HIDE DEF f
<1>4. fs \in Seq(RunnerFrames)  BY <1>1, <1>3, AppendShape DEF RunnerConnections
<1>5. console' = [console EXCEPT !.conn.asked = ak, !.conn.frames = fs]
  BY <1>1 DEF RunnerAcknowledges, Consoles, RunnerConnections, f
<1> HIDE DEF fs, ak
<1>6. Steady(console', panel)  BY <1>1, <1>2, <1>4, <1>5, FramesKeep
<1>7. WorldSound'  BY WorldUnchanged DEF ConsoleInv, RunnerAcknowledges
<1> QED  BY <1>6, <1>7 DEF ConsoleInv, RunnerAcknowledges

LEMMA BrokenKeeps ==
  ASSUME ConsoleInv, Broken(console), console.conn.stage \in {"hello", "open", "live"}
  PROVE  Steady(console', panel)
<1>1. console.conn \in RunnerConnections /\ console \in Consoles  BY OpenConnection
<1> DEFINE fs(n) == SubSeq(console.conn.frames, 1, n)
<1>2. PICK n \in 0 .. Len(console.conn.frames) :
        console' = [console EXCEPT !.conn.frames = fs(n), !.conn.eof = TRUE]
  BY <1>1 DEF Broken, Consoles, RunnerConnections
<1>3. console.conn.frames \in Seq(RunnerFrames)  BY <1>1 DEF RunnerConnections
<1>4. fs(n) \in Seq(RunnerFrames)
  <2>1. \A i \in 1 .. n : console.conn.frames[i] \in RunnerFrames  BY <1>3, <1>2
  <2> QED  BY <2>1, <1>2, SubSeqProperties
<1> HIDE DEF fs
<1> QED  BY <1>2, <1>4, FramesKeep

LEMMA LoseKeeps ==
  ASSUME ConsoleInv, LoseConnection
  PROVE  ConsoleInv'
<1>1. Steady(console', panel)  BY BrokenKeeps DEF LoseConnection
<1>2. WorldSound'
  <2>1. "loss" \in Kinds \ {"all"}  BY DEF Kinds
  <2> QED  BY <2>1, WorldAfterSpending DEF ConsoleInv, LoseConnection
<1> QED  BY <1>1, <1>2 DEF ConsoleInv, LoseConnection

LEMMA ReplaceRunnerKeeps ==
  ASSUME ConsoleInv, ReplaceRunner
  PROVE  ConsoleInv'
<1>1. Steady(console', panel)
  <2>1. CASE console.conn.stage \in {"hello", "open", "live"}
    BY <2>1, BrokenKeeps DEF ReplaceRunner
  <2>2. CASE console.conn.stage \notin {"hello", "open", "live"}
    BY <2>2 DEF ReplaceRunner, ConsoleInv
  <2> QED  BY <2>1, <2>2
<1>2. WorldSound'
  <2>1. "replace" \in Kinds \ {"all"} /\ "replace" \in Kinds  BY DEF Kinds
  <2>2. /\ budget' \in [Kinds -> Nat] /\ budget'["replace"] \in Nat /\ budget["replace"] \in Nat
        /\ budget'["replace"] = budget["replace"] - 1
    BY <2>1, SpendKeeps DEF ConsoleInv, WorldSound, ReplaceRunner
  <2>3. Budget["replace"] \in Nat /\ MaxEvents \in Nat \ {0}  BY <2>1, BoundsAssumption
  <2>4. PICK team \in {runner.team, runner.team + 1} : runner' = [cursor |-> 1, team |-> team]
    BY DEF ReplaceRunner
  <2>5. /\ runner.team \in Nat /\ runner.team >= 1
        /\ runner.team + budget["replace"] <= Budget["replace"] + 1
    BY DEF ConsoleInv, WorldSound
  <2>6. /\ team \in Nat /\ team >= 1 /\ team + budget'["replace"] <= Budget["replace"] + 1
    BY <2>2, <2>3, <2>4, <2>5
  <2>7. runner'.cursor = 1 /\ runner'.team = team /\ runner' \in [cursor : Nat, team : Nat]
    BY <2>4, <2>6
  <2>8. runner'.cursor <= MaxEvents  BY <2>3, <2>7
  <2> QED  BY <2>2, <2>6, <2>7, <2>8 DEF WorldSound
<1> QED  BY <1>1, <1>2 DEF ConsoleInv, ReplaceRunner

-----------------------------------------------------------------------------
(* The steps of the panel alone and of the controller. *)

\* A panel that shows no other session and no more intents than it may keep.
LEMMA PanelCore ==
  ASSUME NEW k, NEW p, Core(k, p), NEW q \in Panels, q.session \in {p.session, NoSession},
         q.opened => p.opened, Len(q.intents) <= PanelQueue
  PROVE  Core(k, q)
<1>1. k.active # NoSession <=> Live(k)  BY DEF Core, SessionsSound, Live
<1>2. PanelSound(k, q)  BY <1>1 DEF Core, PanelSound
<1> QED  BY <1>2 DEF Core

LEMMA PanelAgreement ==
  ASSUME NEW k, NEW p, Core(k, p), Agreement(k, p), NEW q,
         q.session = NoSession \/ (q.session = p.session /\ q.shown = p.shown)
  PROVE  Agreement(k, q)
<1>1. Live(k) => k.active # NoSession  BY DEF Core, SessionsSound, Live
<1> QED  BY <1>1 DEF Agreement

LEMMA PressKeeps ==
  ASSUME ConsoleInv, RequestPresent
  PROVE  ConsoleInv'
<1> DEFINE n == panel.count + 1
           i == <<panel.session.id, n>>
           is == IF Len(panel.intents) >= PanelQueue THEN panel.intents
                 ELSE Append(panel.intents, i)
           q == [panel EXCEPT !.count = n, !.intents = is]
<1>1. Steady(console, panel) /\ panel \in Panels  BY DEF ConsoleInv, Steady, Core
<1>2. /\ panel.intents \in Seq(Intents) /\ n \in Nat /\ panel.session \in SessionIds
      /\ Len(panel.intents) <= PanelQueue /\ PanelQueue \in Nat
  BY <1>1, BoundsAssumption DEF Panels, Steady, Core, PanelSound
<1>3. i \in Intents  BY <1>2 DEF SessionIds, Intents
<1>4. panel' = q /\ console' = console  BY DEF RequestPresent
<1> HIDE DEF i, n
<1>5. is \in Seq(Intents) /\ Len(is) <= PanelQueue
  <2>1. /\ Append(panel.intents, i) \in Seq(Intents)
        /\ Len(Append(panel.intents, i)) = Len(panel.intents) + 1
    BY <1>2, <1>3, AppendShape
  <2>2. Len(panel.intents) \in Nat  BY <1>2
  <2> QED  BY <2>1, <2>2, <1>2
<1> HIDE DEF is
<1>6. /\ q \in Panels /\ q.session = panel.session /\ q.shown = panel.shown
      /\ q.opened = panel.opened /\ q.intents = is
  BY <1>1, <1>2, <1>5 DEF Panels
<1> HIDE DEF q
<1>7. Core(console, q)  BY <1>1, <1>5, <1>6, PanelCore DEF Steady
<1>8. Agreement(console, q)  BY <1>1, <1>6, PanelAgreement DEF Steady
<1>9. WorldSound'
  <2>1. "press" \in Kinds \ {"all"}  BY DEF Kinds
  <2> QED  BY <2>1, WorldAfterSpending DEF ConsoleInv, RequestPresent
<1> QED  BY <1>1, <1>4, <1>7, <1>8, <1>9 DEF ConsoleInv, Steady

LEMMA ReloadKeeps ==
  ASSUME ConsoleInv, ReloadPlugin
  PROVE  ConsoleInv'
<1> DEFINE n == panel.gen + 1
           q == EmptyPanel(n)
<1>1. Steady(console, panel) /\ panel \in Panels  BY DEF ConsoleInv, Steady, Core
<1>2. n \in Nat  BY <1>1 DEF Panels
<1>3. panel' = q /\ console' = console  BY DEF ReloadPlugin
<1> HIDE DEF n
<1>4. NoSession \in SessionIds /\ NoHandoff \in Handoffs
  BY DEF NoSession, SessionIds, NoHandoff, Handoff, Handoffs, Statuses
<1>5. q \in Panels /\ q.session = NoSession /\ q.opened = FALSE /\ q.intents = <<>>
  BY <1>2, <1>4 DEF Panels, EmptyPanel
<1>6. Len(q.intents) = 0 /\ PanelQueue \in Nat  BY <1>5, BoundsAssumption
<1> HIDE DEF q
<1>7. Len(q.intents) <= PanelQueue  BY <1>6
<1>8. Core(console, q)  BY <1>1, <1>5, <1>7, PanelCore DEF Steady
<1>9. Agreement(console, q)  BY <1>1, <1>5, PanelAgreement DEF Steady
<1>10. WorldSound'
  <2>1. "reload" \in Kinds \ {"all"}  BY DEF Kinds
  <2> QED  BY <2>1, WorldAfterSpending DEF ConsoleInv, ReloadPlugin
<1> QED  BY <1>1, <1>3, <1>8, <1>9, <1>10 DEF ConsoleInv, Steady

\* Whether the loop has failed is nobody's business here.
LEMMA FailedFlag ==
  ASSUME NEW k, NEW p, Core(k, p)
  PROVE  LET r == [k EXCEPT !.failed = TRUE]
         IN /\ Core(r, p) /\ KeepsControl(r, k) /\ KeepsSession(r, k)
            /\ r.chain = k.chain /\ r.shell = k.shell
            /\ Served(k) => Served(r)
            /\ Commanded(k) => Commanded(r)
<1> DEFINE r == [k EXCEPT !.failed = TRUE]
<1>1. k \in Consoles  BY DEF Core
<1>2. r \in Consoles  BY <1>1 DEF Consoles
<1>3. /\ KeepsControl(r, k) /\ KeepsSession(r, k)
      /\ r.chain = k.chain /\ r.shell = k.shell /\ r.wait = k.wait
  BY <1>1 DEF Consoles, KeepsControl, KeepsSession
<1> HIDE DEF r
<1>4. Has(r.shell, {"summon"}) => SummonAhead(k)  BY <1>3 DEF SummonAhead
<1>5. k.pc = "connect" => r.shell = <<>>  BY <1>3 DEF Core, PcSound
<1>6. Core(r, p)  BY <1>2, <1>3, <1>4, <1>5, CoreOfCalls
<1>7. Served(k) => Served(r)  BY <1>3 DEF Served, Answers, KeepsControl
<1>8. Commanded(k) => Commanded(r)  BY <1>3 DEF Commanded, KeepsControl
<1> QED  BY <1>3, <1>6, <1>7, <1>8 DEF r

LEMMA PollKeeps ==
  ASSUME ConsoleInv, PollPresentationIntent
  PROVE  ConsoleInv'
<1> DEFINE k == console
           item == [kind |-> "poll", session |-> k.active, handoff |-> NoHandoff]
           r == Chained(k, item)
<1>1. Steady(k, panel) /\ k \in Consoles /\ k.chain \in Seq(Items) /\ panel' = panel
  BY DEF ConsoleInv, Steady, Core, Consoles, PollPresentationIntent
<1>2. WorldSound'  BY WorldUnchanged DEF ConsoleInv, PollPresentationIntent
<1>3. CASE k.phase = "active"
  <2>1. NoHandoff \in Handoffs  BY DEF NoHandoff, Handoff, Handoffs, Statuses
  <2>2. item \in Items  BY <1>1, <2>1 DEF Consoles, Items
  <2>3. item.session = k.active /\ item.kind = "poll"  OBVIOUS
  <2>4. Live(k) /\ k.pc = "loop"
    BY <1>1, <1>3 DEF Live, Steady, Core, ChainSound, PollPresentationIntent
  <2>5. ~Has(k.chain, {"poll"})  BY DEF PollPresentationIntent, Polling, IsPoll, Has
  <2>6. console' = r  BY <1>3 DEF PollPresentationIntent
  <2> HIDE DEF item
  <2>7. /\ Core(r, panel) /\ Served(r) /\ Commanded(r) /\ r.chain = Append(k.chain, item)
        /\ KeepsControl(r, k) /\ KeepsSession(r, k)
    BY <1>1, <2>2, <2>3, <2>4, <2>5, ChainedKeeps DEF Steady
  <2> HIDE DEF r
  <2>8. Agreement(r, panel)
    <3>1. SUFFICES ASSUME Live(k), k.proj.status # "none"
                   PROVE  IF Has(r.chain, {"publish"}) THEN LastPublished(r)
                          ELSE panel.session = k.active => Shown(panel.shown, k)
      BY <2>7 DEF Agreement, Live, KeepsControl, KeepsSession, Shown
    <3>2. Has(r.chain, {"publish"}) <=> Has(k.chain, {"publish"})
      BY <1>1, <2>2, <2>3, <2>7, HasAppend
    <3>3. ASSUME Has(k.chain, {"publish"}) PROVE LastPublished(r)
      <4>1. PICK i \in DOMAIN k.chain :
              /\ k.chain[i].kind = "publish" /\ Shown(k.chain[i].handoff, k)
              /\ \A j \in DOMAIN k.chain : j > i => k.chain[j].kind = "poll"
        BY <1>1, <3>1, <3>3 DEF Steady, Agreement, LastPublished
      <4>2. \A j \in DOMAIN r.chain :
              r.chain[j] = item \/ (j \in DOMAIN k.chain /\ r.chain[j] = k.chain[j])
        BY <1>1, <2>2, <2>7, AppendShape
      <4>3. i \in DOMAIN r.chain /\ r.chain[i] = k.chain[i]
        BY <1>1, <2>2, <2>7, AppendShape
      <4>4. Shown(r.chain[i].handoff, r)  BY <4>1, <4>3, <2>7 DEF Shown, KeepsSession
      <4> QED  BY <4>1, <4>2, <4>3, <4>4, <2>3 DEF LastPublished
    <3> QED  BY <3>1, <3>2, <3>3, <1>1 DEF Steady, Agreement
  <2>9. Resuming(r)  BY <1>1, <2>7 DEF Steady, Resuming, KeepsSession
  <2> QED  BY <1>1, <1>2, <2>6, <2>7, <2>8, <2>9 DEF ConsoleInv, Steady
<1>4. CASE k.phase # "active"
  <2> DEFINE m == [k EXCEPT !.failed = TRUE]
  <2>1. console' = m  BY <1>4 DEF PollPresentationIntent
  <2>2. /\ Core(m, panel) /\ KeepsControl(m, k) /\ KeepsSession(m, k)
        /\ m.chain = k.chain /\ Served(m) /\ Commanded(m)
    BY <1>1, FailedFlag DEF Steady
  <2> HIDE DEF m
  <2>3. Agreement(m, panel)  BY <1>1, <2>2, AgreementStays DEF Steady, KeepsSession
  <2>4. Resuming(m)  BY <1>1, <2>2 DEF Steady, Resuming, KeepsSession
  <2> QED  BY <1>1, <1>2, <2>1, <2>2, <2>3, <2>4 DEF ConsoleInv, Steady
<1> QED  BY <1>3, <1>4

\* The controller moves on, the session stays what it is.
Moves(r, k) ==
  /\ r.phase = k.phase /\ r.active = k.active /\ r.last = k.last /\ r.ids = k.ids
  /\ r.summoned = k.summoned /\ r.chain = k.chain /\ KeepsSession(r, k)

LEMMA MoveKeeps ==
  ASSUME NEW k, NEW p, Core(k, p), NEW r \in Consoles, Moves(r, k),
         Has(r.chain, {"poll"}) => r.pc \in {"loop", "pollwait"}, r.polling => r.pc = "loop",
         PcSound(r), SummonsSound(r), PanelSound(r, p)
  PROVE  Core(r, p)
<1> USE DEF Moves, KeepsSession, Live
<1>1. SessionsSound(r)  BY DEF Core, SessionsSound
<1>2. ChainSound(r)  BY DEF Core, ChainSound
<1> QED  BY <1>1, <1>2 DEF Core

LEMMA MoveServed ==
  ASSUME NEW k, NEW p, NEW r, Moves(r, k)
  PROVE  /\ Served(k) /\ r.shell = k.shell => Served(r)
         /\ Agreement(k, p) => Agreement(r, p)
         /\ Resuming(k) => Resuming(r)
<1> USE DEF Moves, KeepsSession, Live
<1>1. Served(k) /\ r.shell = k.shell => Served(r)  BY DEF Served, Answers
<1>2. Agreement(k, p) => Agreement(r, p)  BY DEF Agreement, LastPublished, Shown
<1>3. Resuming(k) => Resuming(r)  BY DEF Resuming
<1> QED  BY <1>1, <1>2, <1>3

LEMMA CommandKeeps ==
  ASSUME ConsoleInv, NEW c \in {"hide", "clear", "reload", "quit"}, Command(c)
  PROVE  ConsoleInv'
<1> DEFINE k == console
           r == [k EXCEPT !.cmd = c, !.polling = FALSE, !.pc = "pollwait"]
<1>1. Steady(k, panel) /\ k \in Consoles /\ k.pc = "loop"
  BY DEF ConsoleInv, Steady, Core, Command
<1>2. console' = r /\ panel' = panel  BY DEF Command
<1>3. /\ r \in Consoles /\ Moves(r, k) /\ r.shell = k.shell /\ r.pc = "pollwait" /\ r.cmd = c
      /\ ~r.polling /\ r.hidden = k.hidden /\ r.unhidden = k.unhidden /\ r.target = k.target
  BY <1>1 DEF Consoles, Moves, KeepsSession
<1> HIDE DEF r
<1>4. /\ ~k.unhidden /\ (k.hidden => ~Live(k)) /\ k.phase # "opening"
      /\ (~k.summoned => ~Live(k)) /\ ~SummonAhead(k)
  BY <1>1 DEF Steady, Core, PcSound, SummonsSound
<1>5. PcSound(r)  BY <1>3, <1>4 DEF PcSound, Moves, Live
<1>6. SummonsSound(r)  BY <1>3, <1>4 DEF SummonsSound, SummonAhead, Moves
<1>7. PanelSound(r, panel)
  BY <1>1, <1>3 DEF Steady, Core, PanelSound, Moves, KeepsSession, Live
<1>8. Core(r, panel)  BY <1>1, <1>3, <1>5, <1>6, <1>7, MoveKeeps DEF Steady
<1>9. ~Has(r.shell, ControlKinds)  BY <1>1, <1>3 DEF Steady, Commanded
<1>10. Commanded(r)  BY <1>3, <1>9, NoCommand
<1>11. Served(r) /\ Agreement(r, panel) /\ Resuming(r)  BY <1>1, <1>3, MoveServed DEF Steady
<1>12. WorldSound'  BY WorldUnchanged DEF ConsoleInv, Command
<1> QED  BY <1>2, <1>8, <1>10, <1>11, <1>12 DEF ConsoleInv, Steady

\* The finally block, with no call of the controller under way.
LEMMA FinallyKeeps ==
  ASSUME NEW k, NEW p, Core(k, p), ~Has(k.shell, ControlKinds),
         k.pc \notin {"connect", "gate", "op"}
  PROVE  LET r == Finally(k)
         IN /\ Core(r, p) /\ Commanded(r) /\ Moves(r, k) /\ r.shell = k.shell
            /\ Served(k) => Served(r)
<1> DEFINE r == [k EXCEPT !.cmd = "quit", !.polling = FALSE, !.pc = "pollwait"]
<1>1. k \in Consoles  BY DEF Core
<1>2. Finally(k) = r  BY DEF Finally
<1>3. /\ r \in Consoles /\ Moves(r, k) /\ r.shell = k.shell /\ r.pc = "pollwait" /\ r.cmd = "quit"
      /\ ~r.polling /\ r.hidden = k.hidden /\ r.unhidden = k.unhidden /\ r.target = k.target
  BY <1>1 DEF Consoles, Moves, KeepsSession
<1> HIDE DEF r
<1>4. Core(r, p)  BY <1>3, QuitKeeps DEF Moves
<1>5. Commanded(r)  BY <1>3, NoCommand
<1>6. Served(k) => Served(r)  BY <1>3, MoveServed
<1> QED  BY <1>2, <1>3, <1>4, <1>5, <1>6

LEMMA StepsToQuit ==
  ASSUME ConsoleInv, CommandsFail \/ RescanFails
  PROVE  ConsoleInv'
<1> DEFINE k == console
           r == Finally(k)
<1>1. Steady(k, panel) /\ k.pc \in {"loop", "pollwait"} /\ console' = r /\ panel' = panel
  BY DEF ConsoleInv, CommandsFail, RescanFails
<1>2. ~Has(k.shell, ControlKinds)  BY <1>1 DEF Steady, Commanded
<1>3. Core(r, panel) /\ Commanded(r) /\ Moves(r, k) /\ Served(r)
  BY <1>1, <1>2, FinallyKeeps DEF Steady
<1> HIDE DEF r
<1>4. Agreement(r, panel) /\ Resuming(r)  BY <1>1, <1>3, MoveServed DEF Steady
<1>5. WorldSound'
  <2>1. "shell" \in Kinds \ {"all"}  BY DEF Kinds
  <2>2. CASE CommandsFail  BY <2>2, WorldUnchanged DEF ConsoleInv, CommandsFail
  <2>3. CASE RescanFails  BY <2>1, <2>3, WorldAfterSpending DEF ConsoleInv, RescanFails
  <2> QED  BY <2>2, <2>3
<1> QED  BY <1>1, <1>3, <1>4, <1>5 DEF ConsoleInv, Steady

\* A call of the controller, when no other is under way.
LEMMA ControlCall ==
  ASSUME NEW s \in Seq(Ops), ~Has(s, ControlKinds), NEW op \in Ops, op.kind \in ControlKinds
  PROVE  LET t == Append(s, op)
         IN /\ Once(t, ControlKinds) /\ Has(t, ControlKinds) /\ t # <<>> /\ t[Len(t)] = op
            /\ \A i \in DOMAIN t : t[i].kind \in ControlKinds => t[i] = op
<1> DEFINE t == Append(s, op)
<1>1. /\ DOMAIN t = 1 .. (Len(s) + 1) /\ Len(t) = Len(s) + 1 /\ t # <<>>
      /\ DOMAIN s = 1 .. Len(s) /\ Len(s) \in Nat
      /\ \A i \in DOMAIN s : t[i] = s[i]
      /\ t[Len(s) + 1] = op
  BY AppendShape
<1>2. Once(t, ControlKinds) /\ Has(t, ControlKinds)
  <2>1. Once(s, ControlKinds)  BY DEF Has, Once
  <2> QED  BY <2>1, HasAppend
<1> HIDE DEF t
<1>3. \A i \in DOMAIN t : t[i].kind \in ControlKinds => t[i] = op  BY <1>1 DEF Has
<1> QED  BY <1>1, <1>2, <1>3 DEF t

\* What follows a hide that is over: the panel is closed, no session is left.
LEMMA AfterHideKeeps ==
  ASSUME NEW k, NEW q, Core(k, q), Served(k), k.pc \in {"pollwait", "op"}, k.hidden,
         ~Live(k), k.cmd # "clear", ~Has(k.shell, ControlKinds), ~Has(k.chain, {"poll"}),
         ~k.unhidden => q.session = NoSession /\ ~q.opened
  PROVE  Steady(AfterHide(k), q)
<1>1. /\ k \in Consoles /\ k.cmd \in {"hide", "reload", "quit"} /\ ~k.polling
      /\ (k.unhidden => k.cmd = "quit") /\ ~SummonAhead(k)
  BY DEF Core, PcSound, ChainSound, SummonsSound, Consoles
<1>2. ASSUME NEW c \in {"loop", "discover", "exited"},
             c = "loop" => k.cmd = "hide", c = "discover" => k.cmd = "reload"
      PROVE  LET r == [k EXCEPT !.pc = c]
             IN /\ Core(r, q) /\ Served(r) /\ r.shell = k.shell /\ r.pc = c /\ ~Live(r)
                /\ r.chain = k.chain
  <2> DEFINE r == [k EXCEPT !.pc = c]
  <2>1. /\ r \in Consoles /\ Moves(r, k) /\ r.shell = k.shell /\ r.pc = c /\ r.cmd = k.cmd
        /\ ~r.polling /\ r.hidden = k.hidden /\ r.unhidden = k.unhidden /\ r.target = k.target
    BY <1>1, <1>2 DEF Consoles, Moves, KeepsSession
  <2> HIDE DEF r
  <2>2. ~Live(r) /\ Served(r)  BY <2>1, MoveServed DEF Moves, Live
  <2>3. PcSound(r)
    <3>1. (r.phase = "opening") = (r.pc \in {"connect", "gate"})  BY <1>2, <2>1, <2>2 DEF Live
    <3>2. r.hidden /\ (r.unhidden => r.hidden /\ r.cmd = "quit" /\ r.pc \in {"pollwait", "exited"})
      BY <1>1, <1>2, <2>1
    <3>3. r.cmd # "open"  BY <1>1, <2>1
    <3>4. r.pc \in {"loop", "discover", "exited"}  BY <1>2, <2>1
    <3> QED  BY <2>2, <3>1, <3>2, <3>3, <3>4 DEF PcSound
  <2>4. SummonsSound(r)  BY <1>1, <2>1 DEF SummonsSound, SummonAhead, Moves
  <2>5. PanelSound(r, q)
    BY <1>1, <1>2, <2>1, <2>2 DEF Core, PanelSound, Moves, KeepsSession
  <2>6. Core(r, q)  BY <2>1, <2>3, <2>4, <2>5, MoveKeeps DEF Moves
  <2> QED  BY <2>1, <2>2, <2>6 DEF r, Moves
<1>3. CASE k.cmd \in {"hide", "quit"}
  <2> DEFINE c == IF k.cmd = "hide" THEN "loop" ELSE "exited"
             r == [k EXCEPT !.pc = c]
  <2>1. AfterHide(k) = r  BY <1>3 DEF AfterHide
  <2>2. Core(r, q) /\ Served(r) /\ r.shell = k.shell /\ r.pc = c /\ ~Live(r)
    BY <1>2, <1>3
  <2> HIDE DEF r
  <2>3. Commanded(r)  BY <2>2, NoCommand
  <2> QED  BY <2>1, <2>2, <2>3, OverIsSteady
<1>4. CASE k.cmd = "reload"
  <2> DEFINE m == [k EXCEPT !.pc = "discover"]
             op == [kind |-> "capabilities", session |-> NoSession, handoff |-> NoHandoff,
                    intent |-> NoIntent]
             r == Call(m, "capabilities", NoSession, NoHandoff, NoIntent)
  <2>1. AfterHide(k) = r  BY <1>4 DEF AfterHide
  <2>2. /\ Core(m, q) /\ Served(m) /\ m.shell = k.shell /\ m.pc = "discover" /\ ~Live(m)
        /\ m.chain = k.chain
    BY <1>2, <1>4
  <2> HIDE DEF m
  <2>3. m \in Consoles  BY <2>2 DEF Core
  <2>4. NoSession \in SessionIds /\ NoHandoff \in Handoffs /\ NoIntent \in Intents
    BY DEF NoSession, NoHandoff, NoIntent, SessionIds, Handoffs, Handoff, Intents, Statuses
  <2>5. /\ r \in Consoles /\ op \in Ops /\ r.shell = Append(m.shell, op)
        /\ KeepsControl(r, m) /\ KeepsSession(r, m) /\ r.chain = m.chain /\ r.wait = m.wait
    BY <2>3, <2>4, CallShape DEF ControlKinds
  <2> HIDE DEF r
  <2>6. op.kind = "capabilities"  OBVIOUS
  <2> HIDE DEF op
  <2>7. m.shell \in Seq(Ops)  BY <2>3 DEF Consoles
  <2>8. Has(r.shell, {"summon"}) => SummonAhead(m)
    BY <2>5, <2>6, <2>7, HasAppend DEF SummonAhead
  <2>9. Core(r, q)  BY <2>2, <2>5, <2>8, CoreOfCalls
  <2>10. Served(r)  BY <2>2, <2>3, <2>5, <2>6, CallKeepsServed DEF ChainKinds
  <2>11. Commanded(r)
    <3>1. op.kind \in ControlKinds /\ ~Has(m.shell, ControlKinds)
      BY <2>2, <2>6 DEF ControlKinds
    <3>2. /\ Once(r.shell, ControlKinds) /\ Has(r.shell, ControlKinds)
          /\ r.shell # <<>> /\ r.shell[Len(r.shell)] = op
          /\ \A i \in DOMAIN r.shell : r.shell[i].kind \in ControlKinds => r.shell[i] = op
      BY <2>5, <2>7, <3>1, ControlCall
    <3>3. r.pc = "discover"  BY <2>2, <2>5 DEF KeepsControl
    <3> QED  BY <2>6, <3>2, <3>3 DEF Commanded, ControlKinds
  <2>12. ~Live(r)  BY <2>2, <2>5 DEF Live, KeepsControl
  <2> QED  BY <2>1, <2>9, <2>10, <2>11, <2>12, OverIsSteady
<1> QED  BY <1>1, <1>3, <1>4

LEMMA StoppedKeeps ==
  ASSUME ConsoleInv, PollingStopped
  PROVE  ConsoleInv'
<1> DEFINE k == console
<1>1. /\ Steady(k, panel) /\ k \in Consoles /\ k.pc = "pollwait" /\ ~Has(k.chain, {"poll"})
      /\ panel' = panel
  BY DEF ConsoleInv, Steady, Core, PollingStopped, Polling, IsPoll, Has
<1>2. WorldSound'  BY WorldUnchanged DEF ConsoleInv, PollingStopped
<1>3. ~Has(k.shell, ControlKinds)  BY <1>1 DEF Steady, Commanded
<1>4. CASE k.cmd # "clear" /\ k.hidden
  <2>1. console' = AfterHide(k)  BY <1>4 DEF PollingStopped
  <2>2. ~Live(k) /\ (~k.unhidden => panel.session = NoSession /\ ~panel.opened)
    BY <1>1, <1>4 DEF Steady, Core, PcSound, PanelSound
  <2>3. Steady(AfterHide(k), panel)  BY <1>1, <1>3, <1>4, <2>2, AfterHideKeeps DEF Steady
  <2> QED  BY <1>1, <1>2, <2>1, <2>3 DEF ConsoleInv
<1>5. CASE ~(k.cmd # "clear" /\ k.hidden)
  <2> DEFINE target == IF k.cmd = "clear" THEN k.active ELSE NoSession
             wait == Len(k.chain)
             r == [k EXCEPT !.pc = "drain", !.wait = wait, !.target = target]
  <2>1. console' = r  BY <1>5 DEF PollingStopped
  <2>2. target \in SessionIds /\ wait \in Nat /\ (wait = 0 => k.chain = <<>>)
    <3>1. NoSession \in SessionIds  BY DEF NoSession, SessionIds
    <3>2. k.chain \in Seq(Items)  BY <1>1 DEF Consoles
    <3> QED  BY <1>1, <3>1, <3>2, EmptySeq DEF Consoles
  <2> HIDE DEF target, wait
  <2>3. /\ r \in Consoles /\ Moves(r, k) /\ r.shell = k.shell /\ r.pc = "drain" /\ r.cmd = k.cmd
        /\ r.polling = k.polling /\ r.hidden = k.hidden /\ r.unhidden = k.unhidden
        /\ r.target = target /\ r.wait = wait
    BY <1>1, <2>2 DEF Consoles, Moves, KeepsSession
  <2> HIDE DEF r
  <2>4. ~k.unhidden /\ (k.hidden => ~Live(k) /\ target = NoSession) /\ ~k.polling
    BY <1>1, <1>5 DEF Steady, Core, PcSound, ChainSound, SessionsSound, Live, target
  <2>5. PcSound(r)
    BY <1>1, <1>5, <2>3, <2>4 DEF Steady, Core, PcSound, Moves, Live
  <2>6. SummonAhead(k) => wait > 0
    <3>1. ASSUME wait = 0 PROVE ~SummonAhead(k)
      <4>1. ~Has(k.chain, {"publish"})  BY <2>2, <3>1, HasNothing
      <4>2. ~Has(k.shell, ChainKinds)  BY <1>1, <2>2, <3>1 DEF Steady, Served
      <4> QED  BY <4>1, <4>2 DEF SummonAhead, Has, ChainKinds
    <3> QED  BY <2>2, <3>1
  <2>7. SummonsSound(r)
    BY <1>1, <2>3, <2>4, <2>6 DEF Steady, Core, SummonsSound, SummonAhead, Moves, Live
  <2>8. PanelSound(r, panel)
    BY <1>1, <2>3, <2>4 DEF Steady, Core, PanelSound, Moves, KeepsSession, Live
  <2>9. Core(r, panel)  BY <1>1, <2>3, <2>4, <2>5, <2>7, <2>8, MoveKeeps DEF Moves, Steady
  <2>10. Commanded(r)  BY <1>3, <2>3, NoCommand
  <2>11. Served(r) /\ Agreement(r, panel) /\ Resuming(r)  BY <1>1, <2>3, MoveServed DEF Steady
  <2> QED  BY <1>1, <1>2, <2>1, <2>9, <2>10, <2>11 DEF ConsoleInv, Steady
<1> QED  BY <1>4, <1>5

\* The end of the session in hide() and clear().
LEMMA EndedKeeps ==
  ASSUME NEW k, NEW p, Core(k, p), k.pc \notin {"connect", "gate"}
  PROVE  LET e == Ended(k)
         IN /\ Core(e, p) /\ ~Live(e) /\ e.shell = k.shell /\ e = FailSession(k)
            /\ e.pc = k.pc /\ e.cmd = k.cmd /\ e.target = k.target /\ e.unhidden = k.unhidden
            /\ e.hidden = k.hidden /\ e.polling = k.polling
            /\ Served(k) => Served(e)
            /\ SummonAhead(e) => SummonAhead(k)
<1> DEFINE e == Ended(k)
<1>1. k \in Consoles /\ Once(k.chain, {"poll"})  BY DEF Core, ChainSound
<1>2. CASE Live(k)
  <2>1. e = EndSession(k) /\ FailSession(k) = EndSession(k)
    BY <1>2 DEF Ended, FailSession, Live
  <2>2. Core(EndSession(k), p)  BY <1>2, EndKeeps
  <2>3. Served(k) => Served(EndSession(k))  BY <1>1, EndServed
  <2>4. SummonAhead(EndSession(k)) => SummonAhead(k)
    BY <1>1, EndShape DEF SummonAhead, Has
  <2> QED  BY <1>1, <2>1, <2>2, <2>3, <2>4, EndShape DEF Live
<1>3. CASE ~Live(k)  BY <1>3 DEF Ended, FailSession, Live
<1> QED  BY <1>2, <1>3

\* The controller awaits its next command, the session being over.
LEMMA LoopKeeps ==
  ASSUME NEW e, NEW q, Core(e, q), Served(e), ~Live(e), e.pc \in {"drain", "op"},
         ~Has(e.shell, ControlKinds), ~SummonAhead(e),
         e.target = NoSession \/ q.session = NoSession, e.hidden => e.pc = "drain"
  PROVE  Steady([e EXCEPT !.pc = "loop"], q)
<1> DEFINE r == [e EXCEPT !.pc = "loop"]
<1>1. e \in Consoles  BY DEF Core
<1>2. /\ r \in Consoles /\ Moves(r, e) /\ r.shell = e.shell /\ r.pc = "loop" /\ r.cmd = e.cmd
      /\ r.polling = e.polling /\ r.hidden = e.hidden /\ r.unhidden = e.unhidden
      /\ r.target = e.target
  BY <1>1 DEF Consoles, Moves, KeepsSession
<1> HIDE DEF r
<1>3. ~e.polling /\ ~e.unhidden  BY DEF Core, ChainSound, PcSound
<1>4. ~Live(r)  BY <1>2 DEF Moves, Live
<1>5. PcSound(r)
  <2>1. (r.phase = "opening") = (r.pc \in {"connect", "gate"})  BY <1>2, <1>4 DEF Live
  <2> QED  BY <1>2, <1>3, <1>4, <2>1 DEF PcSound
<1>6. SummonsSound(r)  BY <1>2 DEF SummonsSound, SummonAhead, Moves
<1>7. PanelSound(r, q)
  <2>1. PanelSound(e, q)  BY DEF Core
  <2>2. r.hidden /\ ~r.unhidden => q.session = NoSession /\ ~q.opened
    BY <1>2, <2>1 DEF PanelSound
  <2> QED  BY <1>2, <1>4, <2>1, <2>2 DEF PanelSound, Moves
<1>8. Core(r, q)  BY <1>2, <1>3, <1>5, <1>6, <1>7, MoveKeeps DEF Moves
<1>9. Served(r)  BY <1>2, MoveServed
<1>10. Commanded(r)  BY <1>2, NoCommand
<1> QED  BY <1>4, <1>8, <1>9, <1>10, OverIsSteady DEF r

\* hide() and clear() once the chain they found is done.
LEMMA DrainedKeeps ==
  ASSUME ConsoleInv, ChainDrained
  PROVE  ConsoleInv'
<1> DEFINE k == console
           s == IF k.cmd = "clear" THEN k.target
                ELSE IF k.active # NoSession THEN k.active ELSE k.last
           hidden == k.cmd # "clear" \/ k.hidden
           m == [k EXCEPT !.hidden = hidden, !.pc = "op"]
           kind == IF k.cmd = "clear" THEN "clear" ELSE "hide"
<1>1. /\ Steady(k, panel) /\ k \in Consoles /\ k.pc = "drain" /\ k.wait = 0
      /\ panel' = panel
      /\ console' = CASE s # NoSession -> Call(m, kind, s, NoHandoff, NoIntent)
                      [] s = NoSession /\ k.cmd = "clear" -> [Ended(k) EXCEPT !.pc = "loop"]
                      [] OTHER -> AfterHide(Ended(m))
  BY DEF ConsoleInv, Steady, Core, ChainDrained
<1>2. WorldSound'  BY WorldUnchanged DEF ConsoleInv, ChainDrained
<1>3. /\ ~Has(k.shell, ControlKinds) /\ ~Has(k.chain, {"poll"}) /\ ~SummonAhead(k)
      /\ ~k.unhidden /\ ~k.polling /\ k.phase # "opening"
      /\ k.cmd # "open" /\ (k.hidden => k.cmd = "clear" /\ k.target = NoSession)
      /\ (k.hidden => ~Live(k)) /\ (~k.summoned => ~Live(k))
  BY <1>1 DEF Steady, Core, Commanded, ChainSound, PcSound, SummonsSound
<1>4. s \in SessionIds  BY <1>1 DEF Consoles
<1>5. ASSUME k.hidden => k.cmd # "clear"
      PROVE  /\ Core(m, panel) /\ Served(m) /\ Agreement(m, panel) /\ Resuming(m)
             /\ m.shell = k.shell /\ m.chain = k.chain /\ m.pc = "op" /\ m.cmd = k.cmd
             /\ m.hidden = (k.cmd # "clear") /\ ~m.unhidden /\ m.phase = k.phase
  <2>1. hidden = (k.cmd # "clear")  BY <1>1, <1>5 DEF Consoles
  <2>2. hidden \in BOOLEAN  OBVIOUS
  <2> HIDE DEF hidden
  <2>3. /\ m \in Consoles /\ Moves(m, k) /\ m.shell = k.shell /\ m.pc = "op" /\ m.cmd = k.cmd
        /\ m.polling = k.polling /\ m.hidden = hidden /\ m.unhidden = k.unhidden
        /\ m.target = k.target
    BY <1>1, <2>2 DEF Consoles, Moves, KeepsSession
  <2> HIDE DEF m
  <2>4. PcSound(m)
    BY <1>3, <2>1, <2>3 DEF PcSound, Moves, Live
  <2>5. SummonsSound(m)  BY <1>3, <2>3 DEF SummonsSound, SummonAhead, Moves
  <2>6. PanelSound(m, panel)
    BY <1>1, <2>3 DEF Steady, Core, PanelSound, Moves, KeepsSession, Live
  <2>7. Core(m, panel)
    BY <1>1, <1>3, <2>3, <2>4, <2>5, <2>6, MoveKeeps DEF Moves, Steady
  <2>8. Served(m) /\ Agreement(m, panel) /\ Resuming(m)  BY <1>1, <2>3, MoveServed DEF Steady
  <2> QED  BY <1>3, <2>1, <2>3, <2>7, <2>8 DEF Moves
<1>6. CASE s # NoSession
  <2> DEFINE r == Call(m, kind, s, NoHandoff, NoIntent)
             op == [kind |-> kind, session |-> s, handoff |-> NoHandoff, intent |-> NoIntent]
  <2>1. console' = r  BY <1>1, <1>6
  <2>2. k.hidden => k.cmd # "clear"  BY <1>3, <1>6
  <2>3. /\ Core(m, panel) /\ Served(m) /\ Agreement(m, panel) /\ Resuming(m)
        /\ m.shell = k.shell /\ m.chain = k.chain /\ m.pc = "op" /\ m.cmd = k.cmd
    BY <1>5, <2>2
  <2> HIDE DEF m
  <2>4. m \in Consoles  BY <2>3 DEF Core
  <2>5. NoHandoff \in Handoffs /\ NoIntent \in Intents
    BY DEF NoHandoff, NoIntent, Handoffs, Handoff, Intents, Statuses
  <2>6. kind \in {"hide", "clear"} /\ (kind = "clear" <=> k.cmd = "clear")  OBVIOUS
  <2> HIDE DEF s, kind
  <2>7. /\ r \in Consoles /\ op \in Ops /\ r.shell = Append(m.shell, op)
        /\ KeepsControl(r, m) /\ KeepsSession(r, m) /\ r.chain = m.chain /\ r.wait = m.wait
    BY <1>4, <2>4, <2>5, <2>6, CallShape DEF ControlKinds
  <2> HIDE DEF r
  <2>8. op.kind = kind  OBVIOUS
  <2> HIDE DEF op
  <2>9. m.shell \in Seq(Ops)  BY <2>4 DEF Consoles
  <2>10. Has(r.shell, {"summon"}) => SummonAhead(m)
    BY <2>6, <2>7, <2>8, <2>9, HasAppend DEF SummonAhead
  <2>11. Core(r, panel)  BY <2>3, <2>7, <2>10, CoreOfCalls
  <2>12. Served(r)  BY <2>3, <2>4, <2>6, <2>7, <2>8, CallKeepsServed DEF ChainKinds
  <2>13. Commanded(r)
    <3>1. op.kind \in ControlKinds /\ ~Has(m.shell, ControlKinds)
      BY <1>3, <2>3, <2>6, <2>8 DEF ControlKinds
    <3>2. /\ Once(r.shell, ControlKinds) /\ Has(r.shell, ControlKinds)
          /\ \A i \in DOMAIN r.shell : r.shell[i].kind \in ControlKinds => r.shell[i] = op
      BY <2>7, <2>9, <3>1, ControlCall
    <3>3. r.pc = "op" /\ r.cmd = k.cmd  BY <2>3, <2>7 DEF KeepsControl
    <3> QED  BY <2>6, <2>8, <3>2, <3>3 DEF Commanded, ControlKinds
  <2>14. Agreement(r, panel)  BY <2>3, <2>7, AgreementStays DEF KeepsSession
  <2>15. Resuming(r)  BY <2>3, <2>7 DEF Resuming, KeepsSession
  <2> QED  BY <1>1, <1>2, <2>1, <2>11, <2>12, <2>13, <2>14, <2>15 DEF ConsoleInv, Steady
<1>7. CASE s = NoSession /\ k.cmd = "clear"
  <2> DEFINE e == Ended(k)
  <2>1. console' = [e EXCEPT !.pc = "loop"]  BY <1>1, <1>7
  <2>2. /\ Core(e, panel) /\ Served(e) /\ ~Live(e) /\ e.shell = k.shell
        /\ e.pc = k.pc /\ e.target = k.target /\ e.hidden = k.hidden
        /\ SummonAhead(e) => SummonAhead(k)
    BY <1>1, EndedKeeps DEF Steady
  <2> HIDE DEF e
  <2>3. Steady([e EXCEPT !.pc = "loop"], panel)
    BY <1>1, <1>3, <1>7, <2>2, LoopKeeps
  <2> QED  BY <1>1, <1>2, <2>1, <2>3 DEF ConsoleInv
<1>8. CASE s = NoSession /\ k.cmd # "clear"
  <2>1. console' = AfterHide(Ended(m))  BY <1>1, <1>8
  <2>2. /\ Core(m, panel) /\ Served(m) /\ m.shell = k.shell /\ m.chain = k.chain
        /\ m.pc = "op" /\ m.cmd = k.cmd /\ m.hidden = (k.cmd # "clear") /\ m.phase = k.phase
    BY <1>3, <1>5, <1>8
  <2> HIDE DEF m
  <2>3. k.active = NoSession /\ k.last = NoSession  BY <1>8
  <2>4. ~Live(k) /\ k.ids = 0
    <3>1. SessionsSound(k)  BY <1>1 DEF Steady, Core
    <3>2. ~Live(k) /\ k.last.id = k.ids  BY <2>3, <3>1 DEF SessionsSound, Live
    <3> QED  BY <2>3, <3>2 DEF NoSession
  <2>5. ~Live(m) /\ Ended(m) = m  BY <2>2, <2>4 DEF Live, Ended
  <2>6. panel.session = NoSession /\ ~panel.opened
    BY <1>1, <2>4 DEF Steady, Core, PanelSound
  <2>7. Steady(AfterHide(m), panel)
    BY <1>3, <1>8, <2>2, <2>5, <2>6, AfterHideKeeps
  <2> QED  BY <1>1, <1>2, <2>1, <2>5, <2>7 DEF ConsoleInv
<1> QED  BY <1>6, <1>7, <1>8

-----------------------------------------------------------------------------
(* The answers of the shell. *)

\* The call that is answered, and what is left of the console.
LEMMA ShellShape ==
  ASSUME NEW k, NEW p, Steady(k, p), k.shell # <<>>
  PROVE  LET op == Head(k.shell)
             m == Rest(k)
         IN /\ op \in Ops /\ Core(m, p) /\ Agreement(m, p) /\ Resuming(m)
            /\ m.shell = Tail(k.shell) /\ KeepsControl(m, k) /\ KeepsSession(m, k)
            /\ m.chain = k.chain /\ m.wait = k.wait /\ k.pc # "connect"
            /\ IF op.kind \in ChainKinds
               THEN ~Has(m.shell, ChainKinds) /\ k.chain # <<>> /\ Answers(op, k)
               ELSE Served(m)
            /\ IF op.kind \in ControlKinds THEN ~Has(m.shell, ControlKinds) ELSE Commanded(m)
            /\ op.kind = "summon" => SummonAhead(k)
            /\ op.kind = "capabilities" => k.pc = "discover" /\ m.shell = <<>> /\ m.chain = <<>>
            /\ op.kind = "hide" => k.pc = "op" /\ k.cmd # "clear"
            /\ op.kind = "clear" => k.pc = "op" /\ k.cmd = "clear"
<1> DEFINE op == Head(k.shell)
           t == Tail(k.shell)
           m == [k EXCEPT !.shell = t]
<1>1. Core(k, p) /\ k \in Consoles /\ k.shell \in Seq(Ops)  BY DEF Steady, Core, Consoles
<1>2. /\ t \in Seq(Ops) /\ op \in Ops /\ op = k.shell[1] /\ 1 \in DOMAIN k.shell
      /\ DOMAIN k.shell = 1 .. Len(k.shell) /\ Len(k.shell) \in Nat \ {0}
      /\ t = <<>> <=> Len(k.shell) = 1
  BY <1>1, TailShape
<1>3. Rest(k) = m  BY DEF Rest
<1>4. \A kinds : (Has(k.shell, kinds) <=> Has(t, kinds) \/ op.kind \in kinds)
  BY <1>1, <1>2, HasTail
<1>5. \A kinds : Once(k.shell, kinds) /\ op.kind \in kinds => ~Has(t, kinds)
  BY <1>1, <1>2, HasTail
<1>6. t = Tail(k.shell)  OBVIOUS
<1> HIDE DEF op, t
<1>7. /\ m \in Consoles /\ m.shell = t /\ KeepsControl(m, k) /\ KeepsSession(m, k)
      /\ m.chain = k.chain /\ m.wait = k.wait
  BY <1>1, <1>2 DEF Consoles, KeepsControl, KeepsSession
<1> HIDE DEF m
<1>8. k.pc # "connect"  BY <1>1 DEF Core, PcSound
<1>9. Core(m, p)
  <2>1. Has(m.shell, {"summon"}) => SummonAhead(k)  BY <1>4, <1>7 DEF SummonAhead
  <2> QED  BY <1>1, <1>7, <1>8, <2>1, CoreOfCalls
<1>10. Agreement(m, p)  BY <1>7, AgreementStays DEF Steady, KeepsSession
<1>11. Resuming(m)  BY <1>7 DEF Steady, Resuming, KeepsSession
<1>12. IF op.kind \in ChainKinds
       THEN ~Has(m.shell, ChainKinds) /\ k.chain # <<>> /\ Answers(op, k)
       ELSE Served(m)
  <2>1. CASE op.kind \in ChainKinds  BY <1>2, <1>4, <1>5, <1>7, <2>1 DEF Steady, Served
  <2>2. CASE op.kind \notin ChainKinds
    <3>1. Served(m)  BY <1>1, <1>2, <1>6, <1>7, <2>2, RestKeepsServed DEF Steady
    <3> QED  BY <2>2, <3>1
  <2> QED  BY <2>1, <2>2
<1>13. IF op.kind \in ControlKinds THEN ~Has(m.shell, ControlKinds) ELSE Commanded(m)
  <2>1. CASE op.kind \in ControlKinds  BY <1>2, <1>4, <1>5, <1>7, <2>1 DEF Steady, Commanded
  <2>2. CASE op.kind \notin ControlKinds
    <3>1. Commanded(m)  BY <1>1, <1>2, <1>6, <1>7, <2>2, RestKeepsCommanded DEF Steady
    <3> QED  BY <2>2, <3>1
  <2> QED  BY <2>1, <2>2
<1>14. op.kind = "summon" => SummonAhead(k)  BY <1>4 DEF SummonAhead
<1>15. /\ op.kind = "capabilities" => k.pc = "discover"
       /\ op.kind = "hide" => k.pc = "op" /\ k.cmd # "clear"
       /\ op.kind = "clear" => k.pc = "op" /\ k.cmd = "clear"
  BY <1>2 DEF Steady, Commanded
<1>16. ASSUME op.kind = "capabilities" PROVE m.shell = <<>> /\ m.chain = <<>>
  <2>1. k.shell[Len(k.shell)].kind = "capabilities" /\ Len(k.shell) \in DOMAIN k.shell
    BY <1>2, <1>15, <1>16 DEF Steady, Commanded
  <2>2. Once(k.shell, ControlKinds)  BY DEF Steady, Commanded
  <2>3. Len(k.shell) = 1  BY <1>2, <1>16, <2>1, <2>2 DEF Once, ControlKinds
  <2>4. t = <<>> /\ ~Has(t, ChainKinds)  BY <1>2, <2>3, HasNothing
  <2>5. ~Has(k.shell, ChainKinds)  BY <1>4, <1>16, <2>4 DEF ChainKinds
  <2> QED  BY <1>7, <2>4, <2>5 DEF Steady, Served
<1> QED
  BY <1>2, <1>3, <1>6, <1>7, <1>8, <1>9, <1>10, <1>11, <1>12, <1>13, <1>14, <1>15, <1>16
  DEF op, m, t

\* What the call does to the panel.
LEMMA ShownKeeps ==
  ASSUME NEW k, NEW p, Steady(k, p), k.shell # <<>>
  PROVE  LET op == Head(k.shell)
             q == Shows(p, op)
         IN /\ Core(Rest(k), q)
            /\ op.kind \notin {"summon", "apply"} =>
                 q.session = NoSession \/ (q.session = p.session /\ q.shown = p.shown)
            /\ op.kind = "apply" /\ ~Refuses(p, op) => q.shown = op.handoff
            /\ op.kind = "hide" => q.session = NoSession /\ ~q.opened
            /\ op.kind = "clear" /\ ~Refuses(p, op) => q.session = NoSession
            /\ op.kind \in {"capabilities", "result"} => q = p
<1> DEFINE op == Head(k.shell)
           q == Shows(p, op)
           m == Rest(k)
<1> SUFFICES /\ Core(m, q)
             /\ op.kind \notin {"summon", "apply"} =>
                  q.session = NoSession \/ (q.session = p.session /\ q.shown = p.shown)
             /\ op.kind = "apply" /\ ~Refuses(p, op) => q.shown = op.handoff
             /\ op.kind = "hide" => q.session = NoSession /\ ~q.opened
             /\ op.kind = "clear" /\ ~Refuses(p, op) => q.session = NoSession
             /\ op.kind \in {"capabilities", "result"} => q = p
  OBVIOUS
<1>1. /\ op \in Ops /\ Core(m, p) /\ KeepsControl(m, k) /\ KeepsSession(m, k)
      /\ op.kind \in ChainKinds => k.chain # <<>> /\ Answers(op, k)
      /\ op.kind = "summon" => SummonAhead(k)
  BY ShellShape
<1>2. Core(k, p) /\ k \in Consoles /\ p \in Panels  BY DEF Steady, Core
<1> HIDE DEF op, m
<1>3. /\ op.kind \in {"summon", "apply", "take", "hide", "clear", "capabilities", "result"}
      /\ op.session \in SessionIds /\ op.handoff \in Handoffs
  BY <1>1 DEF Ops, ChainKinds, ControlKinds
<1>4. /\ p.intents \in Seq(Intents) /\ Len(p.intents) <= PanelQueue /\ PanelQueue \in Nat \ {0}
      /\ NoSession \in SessionIds /\ NoHandoff \in Handoffs /\ <<>> \in Seq(Intents)
      /\ Len(<<>>) = 0
  BY <1>2, BoundsAssumption
  DEF Panels, Core, PanelSound, NoSession, NoHandoff, SessionIds, Handoffs, Handoff, Statuses
<1>5. CASE q = p /\ op.kind # "hide" /\ (op.kind \in {"apply", "clear"} => Refuses(p, op))
  BY <1>1, <1>5
<1>6. CASE op.kind = "summon" /\ ~Refuses(p, op)
  <2>1. q = [p EXCEPT !.opened = TRUE, !.session = op.session, !.shown = op.handoff,
                      !.intents = <<>>, !.count = 0]
    BY <1>6 DEF Shows, PanelOpen
  <2> HIDE DEF q
  <2>2. /\ q \in Panels /\ q.session = op.session /\ q.intents = <<>>
    <3>1. q = [opened |-> TRUE, session |-> op.session, gen |-> p.gen, shown |-> op.handoff,
               intents |-> <<>>, count |-> 0]
      BY <1>2, <2>1 DEF Panels
    <3> QED  BY <1>2, <1>3, <1>4, <3>1 DEF Panels
  <2>3. k.chain \in Seq(Items) /\ 1 \in DOMAIN k.chain
    <3>1. k.chain \in Seq(Items) /\ k.chain # <<>>  BY <1>1, <1>2, <1>6 DEF Consoles, ChainKinds
    <3> QED  BY <3>1, TailShape
  <2>4. k.chain[1].kind = "publish" /\ op.session = k.chain[1].session
    <3>1. k.chain[1] \in Items  BY <2>3
    <3>2. Answers(op, k) /\ op.kind # "take"  BY <1>1, <1>6 DEF ChainKinds
    <3> QED  BY <3>1, <3>2 DEF Answers, Items
  <2>5. op.session.id \in 1 .. k.ids /\ (Live(k) => k.proj.status # "none")
    BY <1>2, <2>3, <2>4 DEF Core, ChainSound
  <2>6. k.ids > 0
    <3>1. k.ids \in Nat  BY <1>2 DEF Consoles
    <3> QED  BY <2>5, <3>1
  <2>7. ~k.hidden /\ k.pc # "loop"
    BY <1>1, <1>2, <1>6 DEF Core, SummonsSound, PcSound, Live
  <2>8. PanelSound(m, q)
    BY <1>1, <1>4, <2>2, <2>5, <2>6, <2>7 DEF PanelSound, KeepsControl, KeepsSession, Live
  <2> QED  BY <1>1, <1>6, <2>2, <2>8 DEF Core
<1>7. CASE op.kind = "apply" /\ ~Refuses(p, op)
  <2>1. q = [p EXCEPT !.shown = op.handoff]  BY <1>7 DEF Shows
  <2>2. /\ q \in Panels /\ q.session = p.session /\ q.shown = op.handoff
        /\ q.opened = p.opened /\ q.intents = p.intents
    BY <1>2, <1>3, <2>1 DEF Panels
  <2> HIDE DEF q
  <2>3. Core(m, q)  BY <1>1, <1>4, <2>2, PanelCore
  <2> QED  BY <1>7, <2>2, <2>3
<1>8. CASE op.kind = "hide"
  <2>1. q = [p EXCEPT !.opened = FALSE, !.session = NoSession, !.shown = NoHandoff,
                      !.intents = <<>>]
    BY <1>8 DEF Shows, PanelClose, Refuses
  <2>2. q \in Panels /\ q.session = NoSession /\ ~q.opened /\ q.intents = <<>>
    BY <1>2, <1>4, <2>1 DEF Panels
  <2> HIDE DEF q
  <2>3. Core(m, q)  BY <1>1, <1>4, <2>2, PanelCore
  <2> QED  BY <1>8, <2>2, <2>3
<1>9. CASE op.kind = "clear" /\ ~Refuses(p, op)
  <2>1. q = [p EXCEPT !.session = NoSession, !.shown = NoHandoff, !.intents = <<>>]
    BY <1>9 DEF Shows, PanelClear
  <2>2. q \in Panels /\ q.session = NoSession /\ q.opened = p.opened /\ q.intents = <<>>
    BY <1>2, <1>4, <2>1 DEF Panels
  <2> HIDE DEF q
  <2>3. Core(m, q)  BY <1>1, <1>4, <2>2, PanelCore
  <2> QED  BY <1>9, <2>2, <2>3
<1>10. CASE op.kind = "take" /\ SessionMatches(p, op.session) /\ p.intents # <<>>
  <2> DEFINE t == Tail(p.intents)
  <2>1. q = [p EXCEPT !.intents = t]  BY <1>10 DEF Shows, Refuses
  <2>2. t \in Seq(Intents) /\ Len(t) <= PanelQueue
    <3>1. t \in Seq(Intents) /\ Len(t) = Len(p.intents) - 1 /\ Len(p.intents) \in Nat
      BY <1>4, <1>10, TailShape
    <3> QED  BY <1>4, <3>1
  <2> HIDE DEF t
  <2>3. /\ q \in Panels /\ q.session = p.session /\ q.shown = p.shown
        /\ q.opened = p.opened /\ q.intents = t
    BY <1>2, <2>1, <2>2 DEF Panels
  <2> HIDE DEF q
  <2>4. Core(m, q)  BY <1>1, <2>2, <2>3, PanelCore
  <2> QED  BY <1>10, <2>3, <2>4
<1>11. (q = p /\ op.kind # "hide" /\ (op.kind \in {"apply", "clear"} => Refuses(p, op)))
       \/ (op.kind = "summon" /\ ~Refuses(p, op)) \/ (op.kind = "apply" /\ ~Refuses(p, op))
       \/ op.kind = "hide" \/ (op.kind = "clear" /\ ~Refuses(p, op))
       \/ (op.kind = "take" /\ SessionMatches(p, op.session) /\ p.intents # <<>>)
  BY <1>3 DEF Shows, Refuses
<1> QED  BY <1>5, <1>6, <1>7, <1>8, <1>9, <1>10, <1>11

\* A call that fails, or is refused, whether it has reached the panel or not.
LEMMA FailedKeeps ==
  ASSUME NEW k, NEW p, Steady(k, p), k.shell # <<>>, NEW q, Core(Rest(k), q)
  PROVE  Steady(Failed(Rest(k), Head(k.shell)), q)
<1> DEFINE op == Head(k.shell)
           m == Rest(k)
<1> SUFFICES Steady(Failed(m, op), q)  OBVIOUS
<1>1. /\ op \in Ops /\ Core(m, q) /\ KeepsControl(m, k) /\ m.chain = k.chain /\ m.pc # "connect"
      /\ IF op.kind \in ChainKinds
         THEN ~Has(m.shell, ChainKinds) /\ m.chain # <<>>
         ELSE Served(m)
      /\ IF op.kind \in ControlKinds THEN ~Has(m.shell, ControlKinds) ELSE Commanded(m)
      /\ op.kind = "capabilities" => m.pc = "discover"
      /\ op.kind = "hide" => m.pc = "op" /\ m.cmd # "clear"
      /\ op.kind = "clear" => m.pc = "op" /\ m.cmd = "clear"
  BY ShellShape DEF KeepsControl
<1> HIDE DEF op, m
<1>2. op.kind \in {"summon", "apply", "take", "hide", "clear", "capabilities", "result"}
  BY <1>1 DEF Ops, ChainKinds, ControlKinds
<1>3. CASE op.kind = "capabilities"
  <2> DEFINE r == Finally(m)
  <2>1. Failed(m, op) = r  BY <1>3 DEF Failed
  <2>2. ~Has(m.shell, ControlKinds) /\ Served(m) /\ m.pc = "discover" /\ ~Live(m)
    BY <1>1, <1>3 DEF ControlKinds, ChainKinds, Core, PcSound
  <2>3. Core(r, q) /\ Commanded(r) /\ Served(r) /\ Moves(r, m)  BY <1>1, <2>2, FinallyKeeps
  <2> HIDE DEF r
  <2>4. ~Live(r)  BY <2>2, <2>3 DEF Moves, Live
  <2> QED  BY <2>1, <2>3, <2>4, OverIsSteady
<1>4. CASE op.kind \in ChainKinds
  <2> DEFINE f == FailSession(m)
             g == IF op.kind = "take" THEN [f EXCEPT !.failed = TRUE] ELSE f
             r == FinishFirst(g)
  <2>1. Failed(m, op) = r  BY <1>4 DEF Failed, ChainKinds
  <2>2. op.kind \notin ControlKinds  BY <1>4 DEF ChainKinds, ControlKinds
  <2>3. /\ Core(f, q) /\ ~Live(f) /\ Commanded(f)
        /\ ~Has(f.shell, ChainKinds) /\ f.chain # <<>>
    BY <1>1, <1>4, <2>2, FailKeeps
  <2> HIDE DEF f
  <2>4. /\ Core(g, q) /\ ~Live(g) /\ Commanded(g)
        /\ ~Has(g.shell, ChainKinds) /\ g.chain # <<>>
    <3>1. CASE op.kind = "take"
      <4> DEFINE h == [f EXCEPT !.failed = TRUE]
      <4>1. /\ Core(h, q) /\ Commanded(h) /\ KeepsControl(h, f)
            /\ h.chain = f.chain /\ h.shell = f.shell
        BY <2>3, FailedFlag
      <4> HIDE DEF h
      <4>2. g = h  BY <3>1 DEF h
      <4> QED  BY <2>3, <4>1, <4>2 DEF KeepsControl, Live
    <3>2. CASE op.kind # "take"  BY <2>3, <3>2
    <3> QED  BY <3>1, <3>2
  <2> HIDE DEF g
  <2>5. Core(r, q) /\ Served(r) /\ Commanded(r) /\ KeepsControl(r, g)  BY <2>4, FinishKeeps
  <2> HIDE DEF r
  <2>6. ~Live(r)  BY <2>4, <2>5 DEF KeepsControl, Live
  <2> QED  BY <2>1, <2>5, <2>6, OverIsSteady
<1>5. CASE op.kind = "result"
  <2>1. Failed(m, op) = FailSession(m)  BY <1>5 DEF Failed
  <2>2. Served(m) /\ Commanded(m)  BY <1>1, <1>5 DEF ControlKinds, ChainKinds
  <2>3. LET f == FailSession(m) IN Core(f, q) /\ ~Live(f) /\ Served(f) /\ Commanded(f)
    BY <1>1, <2>2, FailKeeps
  <2> QED  BY <2>1, <2>3, OverIsSteady
<1>6. CASE op.kind \in {"hide", "clear"}
  <2> DEFINE e == Ended(m)
  <2>1. /\ m.pc = "op" /\ ~Has(m.shell, ControlKinds) /\ Served(m)
        /\ (op.kind = "clear" <=> m.cmd = "clear")
    BY <1>1, <1>6 DEF ControlKinds, ChainKinds
  <2>2. /\ Core(e, q) /\ ~Live(e) /\ e.shell = m.shell /\ e = FailSession(m)
        /\ e.pc = "op" /\ e.cmd = m.cmd /\ Served(e)
    BY <1>1, <2>1, EndedKeeps
  <2> HIDE DEF e
  <2>3. /\ e \in Consoles /\ e.hidden = (e.cmd # "clear") /\ ~e.polling
        /\ ~SummonAhead(e) /\ ~Has(e.chain, {"poll"})
    BY <2>2 DEF Core, PcSound, ChainSound, SummonsSound
  <2>4. CASE op.kind = "hide" /\ m.cmd = "quit"
    <3> DEFINE n == [e EXCEPT !.unhidden = TRUE]
               r == [n EXCEPT !.pc = "exited"]
    <3>1. Failed(m, op) = r  BY <2>4 DEF Failed, e
    <3>2. r = [e EXCEPT !.unhidden = TRUE, !.pc = "exited"]  BY <2>3 DEF Consoles
    <3>3. /\ r \in Consoles /\ Moves(r, e) /\ r.shell = e.shell /\ r.pc = "exited"
          /\ r.cmd = "quit" /\ r.polling = e.polling /\ r.hidden = e.hidden /\ r.unhidden
          /\ r.target = e.target
      BY <2>2, <2>3, <2>4, <3>2 DEF Consoles, Moves, KeepsSession
    <3> HIDE DEF r
    <3>4. r.hidden /\ ~Live(r) /\ ~r.polling /\ ~Has(r.chain, {"poll"})
      BY <2>2, <2>3, <2>4, <3>3 DEF Moves, Live
    <3>5. PcSound(r)  BY <3>3, <3>4 DEF PcSound, Live
    <3>6. SummonsSound(r)  BY <2>3, <3>3 DEF SummonsSound, SummonAhead, Moves
    <3>7. PanelSound(r, q)  BY <2>2, <3>3, <3>4 DEF Core, PanelSound, Moves
    <3>8. Core(r, q)  BY <2>2, <3>3, <3>4, <3>5, <3>6, <3>7, MoveKeeps
    <3>9. Served(r)  BY <2>2, <3>3, MoveServed
    <3>10. Commanded(r)
      <4>1. ~Has(r.shell, ControlKinds)  BY <2>1, <2>2, <3>3
      <4> QED  BY <3>3, <4>1, NoCommand
    <3> QED  BY <3>1, <3>4, <3>8, <3>9, <3>10, OverIsSteady
  <2>5. CASE ~(op.kind = "hide" /\ m.cmd = "quit")
    <3> DEFINE u == IF op.kind = "hide" THEN TRUE ELSE e.unhidden
               r == [e EXCEPT !.unhidden = u, !.cmd = "quit", !.polling = FALSE, !.pc = "pollwait"]
    <3>1. u \in BOOLEAN  BY <2>3 DEF Consoles
    <3>2. Failed(m, op) = r
      <4>1. CASE op.kind = "hide"
        <5>1. Failed(m, op) = Finally([e EXCEPT !.unhidden = TRUE])
          BY <2>5, <4>1 DEF Failed, e
        <5> QED  BY <2>3, <4>1, <5>1 DEF Finally, Consoles
      <4>2. CASE op.kind = "clear"
        <5>1. Failed(m, op) = Finally(e)  BY <2>2, <4>2 DEF Failed
        <5>2. [e EXCEPT !.unhidden = e.unhidden, !.cmd = "quit", !.polling = FALSE,
                        !.pc = "pollwait"] = Finally(e)
          BY <2>3 DEF Finally, Consoles
        <5> QED  BY <4>2, <5>1, <5>2
      <4> QED  BY <1>6, <4>1, <4>2
    <3>3. e.hidden => u  BY <1>6, <2>1, <2>2, <2>3
    <3>4. u \in {e.unhidden, e.hidden}  BY <1>6, <2>1, <2>2, <2>3
    <3> HIDE DEF u
    <3>5. /\ r \in Consoles /\ Moves(r, e) /\ r.shell = e.shell /\ r.pc = "pollwait"
          /\ r.cmd = "quit" /\ ~r.polling /\ r.hidden = e.hidden /\ r.unhidden = u
          /\ r.target = e.target
      BY <2>3, <3>1 DEF Consoles, Moves, KeepsSession
    <3> HIDE DEF r
    <3>6. Core(r, q)  BY <2>2, <3>3, <3>4, <3>5, QuitKeeps DEF Moves
    <3>7. Served(r)  BY <2>2, <3>5, MoveServed
    <3>8. Commanded(r)
      <4>1. ~Has(r.shell, ControlKinds)  BY <2>1, <2>2, <3>5
      <4> QED  BY <3>5, <4>1, NoCommand
    <3>9. ~Live(r)  BY <2>2, <3>5 DEF Moves, Live
    <3> QED  BY <3>2, <3>6, <3>7, <3>8, <3>9, OverIsSteady
  <2> QED  BY <2>4, <2>5
<1> QED  BY <1>2, <1>3, <1>4, <1>5, <1>6 DEF ChainKinds

\* open() with the capabilities: a session nobody has seen yet.
LEMMA AllocateKeeps ==
  ASSUME NEW k, NEW p, Core(k, p), k.pc = "discover", k.shell = <<>>, k.chain = <<>>,
         NEW gen \in Nat
  PROVE  Steady(Allocate(k, gen), p)
<1> DEFINE s == [id |-> k.ids + 1, gen |-> gen]
           from == IF "initial" = "resume" THEN NoHandoff.cursor ELSE 0
           c == [NoConnection EXCEPT !.stage = "connecting", !.mode = "initial", !.from = from]
           ids == k.ids + 1
           n == [k EXCEPT !.ids = ids, !.active = s, !.last = s, !.phase = "opening",
                          !.summoned = FALSE, !.hidden = FALSE, !.completed = {},
                          !.proj = NoHandoff, !.pc = "connect"]
           r == [n EXCEPT !.conn = c]
<1>1. k \in Consoles /\ k.ids \in Nat  BY DEF Core, Consoles
<1>2. /\ s \in SessionIds /\ s # NoSession /\ s.id = ids /\ ids \in Nat /\ ids = k.ids + 1
      /\ ids # 0
  BY <1>1 DEF SessionIds, NoSession
<1>3. Allocate(k, gen) = r  BY DEF Allocate, ReplaceConnection
<1>4. /\ c \in RunnerConnections /\ c.stage = "connecting" /\ c.mode = "initial"
      /\ c.frames = <<>> /\ ~c.eof /\ ~c.served
  <2>1. from \in Nat  OBVIOUS
  <2> HIDE DEF from
  <2>2. /\ NoConnection \in RunnerConnections
        /\ NoConnection.frames = <<>> /\ ~NoConnection.eof /\ ~NoConnection.served
    BY DEF NoConnection, RunnerConnections
  <2> QED  BY <2>1, <2>2 DEF RunnerConnections
<1>5. NoHandoff \in Handoffs /\ NoHandoff.status = "none"
  BY DEF NoHandoff, Handoff, Handoffs, Statuses
<1> HIDE DEF s, c, ids, from
<1>6. /\ n \in Consoles /\ n.ids = ids /\ n.active = s /\ n.last = s /\ n.phase = "opening"
      /\ n.hidden = FALSE /\ n.proj = NoHandoff /\ n.pc = "connect"
      /\ n.shell = k.shell /\ n.chain = k.chain /\ n.polling = k.polling
      /\ n.unhidden = k.unhidden /\ n.cmd = k.cmd
  BY <1>1, <1>2, <1>5 DEF Consoles
<1> HIDE DEF n
<1>7. /\ r \in Consoles /\ r.ids = ids /\ r.active = s /\ r.last = s /\ r.phase = "opening"
      /\ r.hidden = FALSE /\ r.proj = NoHandoff /\ r.pc = "connect" /\ r.conn = c
      /\ r.shell = <<>> /\ r.chain = <<>> /\ r.polling = k.polling /\ r.unhidden = k.unhidden
  BY <1>4, <1>6 DEF Consoles
<1> HIDE DEF r
<1>8. Live(r) /\ ~k.polling /\ ~k.unhidden
  BY <1>7 DEF Live, Core, ChainSound, PcSound
<1>9. SessionsSound(r)  BY <1>2, <1>4, <1>7, <1>8 DEF SessionsSound, Live
<1>10. \A kinds : ~Has(r.chain, kinds) /\ ~Has(r.shell, kinds) /\ Once(r.chain, kinds)
                  /\ Once(r.shell, kinds)
  BY <1>7, HasNothing
<1>11. ChainSound(r)
  <2>1. DOMAIN r.chain = {}  BY <1>7
  <2> QED  BY <1>7, <1>8, <1>10, <2>1 DEF ChainSound
<1>12. PcSound(r)  BY <1>4, <1>5, <1>7, <1>8 DEF PcSound
<1>13. SummonsSound(r)  BY <1>10 DEF SummonsSound, SummonAhead
<1>14. PanelSound(r, p)
  <2>1. PanelSound(k, p) /\ p.session \in SessionIds  BY DEF Core, Panels
  <2>2. p.session # NoSession => p.session.id \in 1 .. ids /\ p.session # s
    BY <1>1, <1>2, <2>1 DEF PanelSound, SessionIds
  <2>3. s # NoSession /\ (p.opened => ids > 0)  BY <1>1, <1>2, <2>1 DEF PanelSound
  <2> QED  BY <1>7, <2>1, <2>2, <2>3 DEF PanelSound
<1>15. Core(r, p)  BY <1>7, <1>9, <1>11, <1>12, <1>13, <1>14 DEF Core
<1>16. Served(r)
  <2>1. DOMAIN r.shell = {}  BY <1>7
  <2> QED  BY <1>7, <1>10, <2>1 DEF Served
<1>17. Commanded(r)  BY <1>7, <1>10, NoCommand
<1>18. Agreement(r, p) /\ Resuming(r)  BY <1>4, <1>5, <1>7 DEF Agreement, Resuming
<1> QED  BY <1>3, <1>15, <1>16, <1>17, <1>18 DEF Steady, s, c, n, r, ids, from

\* The panel is summoned: the handoff is applied next.
LEMMA SummonedKeeps ==
  ASSUME NEW k, NEW p, NEW q, Core(k, q), Agreement(k, p), Resuming(k), Commanded(k),
         k.pc \notin {"connect", "discover"}, ~Has(k.shell, ChainKinds), k.chain # <<>>,
         NEW op \in Ops, Answers(op, k), op.kind = "summon"
  PROVE  Steady(Call([k EXCEPT !.summoned = TRUE], "apply", op.session, op.handoff, NoIntent), q)
<1> DEFINE n == [k EXCEPT !.summoned = TRUE]
           call == [kind |-> "apply", session |-> op.session, handoff |-> op.handoff,
                    intent |-> NoIntent]
           r == Call(n, "apply", op.session, op.handoff, NoIntent)
<1> SUFFICES Steady(r, q)  OBVIOUS
<1>1. k \in Consoles  BY DEF Core
<1>2. op.session \in SessionIds /\ op.handoff \in Handoffs /\ NoIntent \in Intents
  BY DEF Ops, NoIntent, Intents
<1>3. /\ n \in Consoles /\ n.summoned
      /\ n.phase = k.phase /\ n.active = k.active /\ n.last = k.last /\ n.ids = k.ids
      /\ n.hidden = k.hidden /\ n.pc = k.pc /\ n.cmd = k.cmd /\ n.polling = k.polling
      /\ n.target = k.target /\ n.unhidden = k.unhidden /\ KeepsSession(n, k)
      /\ n.chain = k.chain /\ n.wait = k.wait /\ n.shell = k.shell
  BY <1>1 DEF Consoles, KeepsSession
<1> HIDE DEF n
<1>4. Core(n, q)
  <2> USE DEF Live, KeepsSession
  <2>1. SessionsSound(n)  BY <1>3 DEF Core, SessionsSound
  <2>2. ChainSound(n)  BY <1>3 DEF Core, ChainSound
  <2>3. PcSound(n)  BY <1>3 DEF Core, PcSound
  <2>4. ~SummonAhead(n)  BY <1>3 DEF SummonAhead, Has, ChainKinds
  <2>5. SummonsSound(n)  BY <2>4 DEF SummonsSound
  <2>6. PanelSound(n, q)  BY <1>3 DEF Core, PanelSound
  <2> QED  BY <1>3, <2>1, <2>2, <2>3, <2>5, <2>6 DEF Core
<1>5. Agreement(n, p) /\ Resuming(n) /\ Commanded(n)
  BY <1>3 DEF Agreement, LastPublished, Shown, Resuming, Commanded, Live, KeepsSession
<1>6. /\ r \in Consoles /\ call \in Ops /\ r.shell = Append(n.shell, call)
      /\ KeepsControl(r, n) /\ KeepsSession(r, n) /\ r.chain = n.chain /\ r.wait = n.wait
  BY <1>2, <1>3, CallShape DEF ChainKinds
<1>7. call.kind = "apply" /\ call.session = op.session /\ call.handoff = op.handoff  OBVIOUS
<1> HIDE DEF r, call
<1>8. n.shell \in Seq(Ops) /\ ~Has(n.shell, ChainKinds)  BY <1>3 DEF Consoles
<1>9. Core(r, q)
  <2>1. ~Has(r.shell, {"summon"})
    <3>1. ~Has(n.shell, {"summon"})  BY <1>8 DEF Has, ChainKinds
    <3> QED  BY <1>6, <1>7, <1>8, <3>1, HasAppend
  <2> QED  BY <1>3, <1>4, <1>6, <2>1, CoreOfCalls
<1>10. Served(r)
  <2>1. Has(r.shell, ChainKinds) /\ Once(r.shell, ChainKinds)
    <3>1. call.kind \in ChainKinds /\ Once(n.shell, ChainKinds)
      BY <1>7, <1>8 DEF ChainKinds, Has, Once
    <3> QED  BY <1>6, <1>8, <3>1, HasAppend
  <2>2. ASSUME NEW i \in DOMAIN r.shell, r.shell[i].kind \in ChainKinds PROVE r.shell[i] = call
    <3>1. i \in DOMAIN n.shell \/ i = Len(n.shell) + 1
      BY <1>6, <1>8, AppendShape
    <3>2. i \in DOMAIN n.shell => r.shell[i] = n.shell[i]  BY <1>6, <1>8, AppendShape
    <3>3. r.shell[Len(n.shell) + 1] = call  BY <1>6, <1>8, AppendShape
    <3> QED  BY <1>8, <2>2, <3>1, <3>2, <3>3 DEF Has
  <2>3. Answers(call, r)
    <3>1. k.chain[1].kind # "poll"  BY DEF Answers
    <3> QED  BY <1>3, <1>6, <1>7, <3>1 DEF Answers, KeepsControl
  <2> QED  BY <1>3, <1>6, <2>1, <2>2, <2>3 DEF Served
<1>11. Commanded(r)
  BY <1>3, <1>5, <1>6, <1>7, CallKeepsCommanded DEF ControlKinds
<1>12. Agreement(r, q)
  <2>1. Has(r.chain, {"publish"})
    <3>1. k.chain \in Seq(Items) /\ 1 \in DOMAIN k.chain  BY <1>1, TailShape DEF Consoles
    <3>2. k.chain[1] \in Items  BY <3>1
    <3>3. k.chain[1].kind = "publish"  BY <3>2 DEF Answers, Items
    <3> QED  BY <1>3, <1>6, <3>1, <3>3 DEF Has
  <2>2. Agreement(r, p)  BY <1>5, <1>6, AgreementStays DEF KeepsSession
  <2> QED  BY <2>1, <2>2 DEF Agreement
<1>13. Resuming(r)  BY <1>5, <1>6 DEF Resuming, KeepsSession
<1> QED  BY <1>9, <1>10, <1>11, <1>12, <1>13 DEF Steady

\* The first handoff that is applied opens the gate.
LEMMA OpenGateKeeps ==
  ASSUME NEW k, NEW p, NEW q, Core(k, q), Agreement(k, p), Resuming(k), Commanded(k),
         ~Has(k.shell, ChainKinds), k.summoned
  PROVE  LET r == OpenGate(k)
         IN /\ Core(r, q) /\ Agreement(r, p) /\ Resuming(r) /\ Commanded(r)
            /\ r.chain = k.chain /\ r.shell = k.shell /\ r.active = k.active
<1>1. CASE k.pc # "gate"  BY <1>1 DEF OpenGate
<1>2. CASE k.pc = "gate"
  <2> DEFINE r == [k EXCEPT !.phase = "active", !.pc = "loop", !.polling = TRUE]
  <2>1. OpenGate(k) = r  BY <1>2 DEF OpenGate
  <2>2. k \in Consoles /\ k.phase = "opening" /\ ~k.hidden /\ ~k.unhidden
    BY <1>2 DEF Core, PcSound, Live
  <2>3. /\ r \in Consoles /\ r.phase = "active" /\ r.pc = "loop" /\ r.polling
        /\ r.active = k.active /\ r.last = k.last /\ r.ids = k.ids
        /\ r.hidden = k.hidden /\ r.summoned = k.summoned /\ r.cmd = k.cmd
        /\ r.target = k.target /\ r.unhidden = k.unhidden /\ KeepsSession(r, k)
        /\ r.chain = k.chain /\ r.wait = k.wait /\ r.shell = k.shell
    BY <2>2 DEF Consoles, KeepsSession
  <2> HIDE DEF r
  <2>4. Live(r) /\ Live(k)  BY <2>2, <2>3 DEF Live
  <2> USE DEF KeepsSession
  <2>5. SessionsSound(r)  BY <2>3, <2>4 DEF Core, SessionsSound
  <2>6. ChainSound(r)  BY <2>3, <2>4 DEF Core, ChainSound
  <2>7. PcSound(r)  BY <2>2, <2>3 DEF PcSound
  <2>8. ~SummonAhead(r)  BY <2>3 DEF SummonAhead, Has, ChainKinds
  <2>9. SummonsSound(r)  BY <2>8 DEF SummonsSound
  <2>10. PanelSound(r, q)  BY <2>2, <2>3, <2>4 DEF Core, PanelSound
  <2>11. Core(r, q)  BY <2>3, <2>5, <2>6, <2>7, <2>9, <2>10 DEF Core
  <2>12. Agreement(r, p)  BY <2>3, <2>4 DEF Agreement, LastPublished, Shown
  <2>13. Resuming(r)  BY <2>3 DEF Resuming
  <2>14. Commanded(r)
    <3>1. ~Has(r.shell, ControlKinds)  BY <1>2, <2>3 DEF Commanded
    <3> QED  BY <2>3, <3>1, NoCommand
  <2> QED  BY <2>1, <2>3, <2>11, <2>12, <2>13, <2>14
<1> QED  BY <1>1, <1>2

\* An intent the panel gave: refused at once, or sent and pending.
LEMMA SendKeeps ==
  ASSUME NEW k, NEW p, NEW q, Core(k, q), Agreement(k, p), Resuming(k), Commanded(k),
         ~Has(k.shell, ChainKinds), k.pc # "connect",
         NEW s \in SessionIds, NEW i \in Intents
  PROVE  LET r == SendIntent(k, s, i)
         IN /\ Core(r, q) /\ Agreement(r, p) /\ Resuming(r) /\ Commanded(r)
            /\ r.chain = k.chain /\ ~Has(r.shell, ChainKinds) /\ r.active = k.active
<1> DEFINE refused == k.proj.status # "ready" \/ i \in k.pending \cup k.completed
                      \/ k.conn.stage # "live" \/ ~k.carries
<1>1. CASE k.phase # "active"  BY <1>1 DEF SendIntent
<1>2. CASE k.phase = "active" /\ refused
  <2> DEFINE r == Call(k, "result", s, NoHandoff, i)
  <2>1. SendIntent(k, s, i) = r  BY <1>2 DEF SendIntent
  <2>2. k.pc # "discover"  BY <1>2 DEF Core, PcSound, Live
  <2>3. /\ Core(r, q) /\ KeepsControl(r, k) /\ KeepsSession(r, k) /\ r.chain = k.chain
        /\ Commanded(r) /\ ~Has(r.shell, ChainKinds)
    BY <2>2, ResultKeeps
  <2> HIDE DEF r
  <2>4. Agreement(r, p)  BY <2>3, AgreementStays DEF KeepsSession
  <2>5. Resuming(r)  BY <2>3 DEF Resuming, KeepsSession
  <2> QED  BY <2>1, <2>3, <2>4, <2>5 DEF KeepsControl
<1>3. CASE k.phase = "active" /\ ~refused
  <2> DEFINE pd == k.pending \cup {i}
             cd == k.completed
             ak == k.conn.asked \cup {i}
             n == [k EXCEPT !.pending = pd, !.completed = cd]
             c == [k.conn EXCEPT !.asked = ak]
             r == [n EXCEPT !.conn = c]
  <2>1. k \in Consoles /\ Live(k) /\ k.conn \in RunnerConnections /\ k.conn.stage = "live"
    BY <1>3 DEF Core, Consoles, Live
  <2>2. /\ pd \in SUBSET Intents /\ cd \in SUBSET Intents /\ ak \in SUBSET Intents
    BY <2>1 DEF Consoles, RunnerConnections
  <2>3. SendIntent(k, s, i) = r
    <3>1. SendIntent(k, s, i) = [k EXCEPT !.pending = pd, !.conn.asked = ak]
      BY <1>3 DEF SendIntent
    <3>2. [k EXCEPT !.pending = pd, !.conn.asked = ak] = r  BY <2>1 DEF Consoles
    <3> QED  BY <3>1, <3>2
  <2> HIDE DEF pd, cd, ak
  <2>4. /\ Core(n, q) /\ KeepsControl(n, k) /\ n.conn = k.conn /\ n.proj = k.proj
        /\ n.chain = k.chain /\ n.shell = k.shell /\ Commanded(n)
    <3>1. Core(k, q) /\ Live(k) /\ Commanded(k)  BY <2>1
    <3>2. ASSUME NEW a \in SUBSET Intents, NEW b \in SUBSET Intents
          PROVE  LET x == [k EXCEPT !.pending = a, !.completed = b]
                 IN /\ Core(x, q) /\ KeepsControl(x, k) /\ x.conn = k.conn /\ x.proj = k.proj
                    /\ x.chain = k.chain /\ x.shell = k.shell /\ Commanded(x)
      BY <3>1, PendingKeeps
    <3> QED  BY <2>2, <3>2
  <2> HIDE DEF n
  <2>5. /\ c \in RunnerConnections /\ c.stage = "live" /\ c.paged = k.conn.paged
        /\ c.mode = k.conn.mode
    BY <2>1, <2>2 DEF RunnerConnections
  <2> HIDE DEF c
  <2>6. Live(n) /\ n.pc # "connect"  BY <2>1, <2>4 DEF Live, KeepsControl
  <2>7. /\ Core(r, q) /\ r.conn = c /\ r.proj = n.proj /\ KeepsControl(r, n)
        /\ r.chain = n.chain /\ r.shell = n.shell /\ Commanded(r)
    BY <2>4, <2>5, <2>6, ConnKeeps
  <2> HIDE DEF r
  <2>8. KeepsControl(r, k)  BY <2>4, <2>7 DEF KeepsControl
  <2>9. Agreement(r, p)  BY <2>4, <2>5, <2>7, <2>8, AgreementStays
  <2>10. Resuming(r)  BY <2>1, <2>4, <2>5, <2>7 DEF Resuming
  <2> QED  BY <2>3, <2>4, <2>7, <2>8, <2>9, <2>10 DEF KeepsControl
<1> QED  BY <1>1, <1>2, <1>3

\* The item in progress is done, its publication shown or its poll answered.
LEMMA DoneKeeps ==
  ASSUME NEW k, NEW p, NEW q, Core(k, q), Agreement(k, p), Resuming(k), Commanded(k),
         ~Has(k.shell, ChainKinds), k.chain # <<>>,
         IF k.chain[1].kind = "publish"
         THEN q.session = k.active => q.shown = k.chain[1].handoff
         ELSE q.session = k.active => p.session = k.active /\ q.shown = p.shown
  PROVE  Steady(FinishFirst(k), q)
<1> DEFINE r == FinishFirst(k)
<1>1. /\ Core(r, q) /\ Served(r) /\ Commanded(r)
      /\ KeepsControl(r, k) /\ KeepsSession(r, k) /\ r.chain = Tail(k.chain)
  BY FinishKeeps
<1> HIDE DEF r
<1>2. k \in Consoles  BY DEF Core
<1>3. Agreement(r, q)  BY <1>1, <1>2, FinishAgrees
<1>4. Resuming(r)  BY <1>1 DEF Resuming, KeepsSession
<1> QED  BY <1>1, <1>3, <1>4 DEF Steady, r

LEMMA SucceededKeeps ==
  ASSUME ConsoleInv, console.shell # <<>>, ~Refuses(panel, Head(console.shell))
  PROVE  LET op == Head(console.shell)
         IN Steady(Succeeded(Rest(console), op, Taken(panel, op)), Shows(panel, op))
<1> DEFINE k == console
           op == Head(k.shell)
           m == Rest(k)
           q == Shows(panel, op)
           answer == Taken(panel, op)
           r == Succeeded(m, op, answer)
<1> SUFFICES Steady(r, q)  OBVIOUS
<1>1. Steady(k, panel) /\ Core(k, panel) /\ k \in Consoles /\ panel \in Panels
  BY DEF ConsoleInv, Steady, Core
<1>2. /\ op \in Ops /\ Agreement(m, panel) /\ Resuming(m) /\ KeepsControl(m, k)
      /\ m.chain = k.chain /\ m.pc # "connect"
      /\ IF op.kind \in ChainKinds
         THEN ~Has(m.shell, ChainKinds) /\ m.chain # <<>> /\ Answers(op, m)
         ELSE Served(m)
      /\ IF op.kind \in ControlKinds THEN ~Has(m.shell, ControlKinds) ELSE Commanded(m)
      /\ op.kind = "summon" => SummonAhead(k)
      /\ op.kind = "capabilities" => m.pc = "discover" /\ m.shell = <<>> /\ m.chain = <<>>
      /\ op.kind = "hide" => m.pc = "op" /\ m.cmd # "clear"
      /\ op.kind = "clear" => m.pc = "op" /\ m.cmd = "clear"
  BY <1>1, ShellShape DEF KeepsControl, Answers
<1>3. /\ Core(m, q)
      /\ op.kind \notin {"summon", "apply"} =>
           q.session = NoSession \/ (q.session = panel.session /\ q.shown = panel.shown)
      /\ op.kind = "apply" => q.shown = op.handoff
      /\ op.kind = "hide" => q.session = NoSession /\ ~q.opened
      /\ op.kind = "clear" => q.session = NoSession
      /\ op.kind \in {"capabilities", "result"} => q = panel
  BY <1>1, ShownKeeps
<1>4. answer = NoIntent \/ answer \in Intents
  <2>1. CASE panel.intents # <<>>
    <3>1. Head(panel.intents) \in Intents  BY <1>1, <2>1, TailShape DEF Panels
    <3> QED  BY <3>1 DEF Taken
  <2>2. CASE panel.intents = <<>>  BY <2>2 DEF Taken
  <2> QED  BY <2>1, <2>2
<1>5. op.kind \in {"summon", "apply", "take", "hide", "clear", "capabilities", "result"}
  BY <1>2 DEF Ops, ChainKinds, ControlKinds
<1> HIDE DEF op, m, q, answer
<1>6. m \in Consoles /\ op.session \in SessionIds  BY <1>2, <1>3 DEF Core, Ops
<1>7. op.kind \in ChainKinds =>
        /\ m.chain \in Seq(Items) /\ m.chain[1] \in Items
        /\ (m.chain[1].kind = "publish" <=> op.kind # "take")
        /\ op.handoff = m.chain[1].handoff /\ op.kind \notin ControlKinds
  <2> SUFFICES ASSUME op.kind \in ChainKinds
               PROVE  /\ m.chain \in Seq(Items) /\ m.chain[1] \in Items
                      /\ (m.chain[1].kind = "publish" <=> op.kind # "take")
                      /\ op.handoff = m.chain[1].handoff /\ op.kind \notin ControlKinds
    OBVIOUS
  <2>1. m.chain \in Seq(Items)  BY <1>6 DEF Consoles
  <2>2. m.chain[1] \in Items
    <3>1. 1 \in DOMAIN m.chain  BY <1>2, <2>1, TailShape
    <3> QED  BY <2>1, <3>1
  <2>3. Answers(op, m)  BY <1>2
  <2>4. m.chain[1].kind \in {"poll", "publish"}  BY <2>2 DEF Items
  <2> QED  BY <2>1, <2>2, <2>3, <2>4 DEF Answers, ChainKinds, ControlKinds
<1>8. CASE op.kind = "capabilities"
  <2>1. r = Allocate(m, panel.gen)  BY <1>8 DEF Succeeded
  <2>2. panel.gen \in Nat  BY <1>1 DEF Panels
  <2> QED  BY <1>2, <1>3, <1>8, <2>1, <2>2, AllocateKeeps
<1>9. CASE op.kind = "summon"
  <2>1. r = Call([m EXCEPT !.summoned = TRUE], "apply", op.session, op.handoff, NoIntent)
    BY <1>9 DEF Succeeded
  <2>2. op.kind \in ChainKinds  BY <1>9 DEF ChainKinds
  <2>3. m.pc # "discover"
    BY <1>1, <1>2, <1>9 DEF Core, SummonsSound, KeepsControl
  <2>4. /\ Core(m, q) /\ Agreement(m, panel) /\ Resuming(m) /\ Commanded(m)
        /\ m.pc \notin {"connect", "discover"} /\ ~Has(m.shell, ChainKinds) /\ m.chain # <<>>
        /\ Answers(op, m)
    BY <1>2, <1>3, <1>7, <2>2, <2>3
  <2> QED  BY <1>2, <1>9, <2>1, <2>4, SummonedKeeps
<1>10. CASE op.kind = "apply"
  <2> DEFINE n == OpenGate(m)
  <2>1. r = FinishFirst(n)  BY <1>10 DEF Succeeded
  <2>2. op.kind \in ChainKinds  BY <1>10 DEF ChainKinds
  <2>3. m.summoned  BY <1>2, <1>10, <2>2 DEF Answers
  <2>4. /\ Core(n, q) /\ Agreement(n, panel) /\ Resuming(n) /\ Commanded(n)
        /\ n.chain = m.chain /\ n.shell = m.shell
    BY <1>2, <1>3, <1>7, <2>2, <2>3, OpenGateKeeps
  <2> HIDE DEF n
  <2>5. n.chain[1].kind = "publish" /\ q.shown = n.chain[1].handoff
    BY <1>3, <1>7, <1>10, <2>2, <2>4
  <2>6. ~Has(n.shell, ChainKinds) /\ n.chain # <<>>  BY <1>2, <2>2, <2>4
  <2> QED  BY <2>1, <2>4, <2>5, <2>6, DoneKeeps
<1>11. CASE op.kind = "take"
  <2> DEFINE n == IF answer = NoIntent THEN m ELSE SendIntent(m, op.session, answer)
  <2>1. r = FinishFirst(n)  BY <1>11 DEF Succeeded
  <2>2. op.kind \in ChainKinds  BY <1>11 DEF ChainKinds
  <2>3. ~Has(m.shell, ChainKinds) /\ m.chain # <<>> /\ Commanded(m)  BY <1>2, <1>7, <2>2
  <2>4. /\ Core(n, q) /\ Agreement(n, panel) /\ Resuming(n) /\ Commanded(n)
        /\ n.chain = m.chain /\ ~Has(n.shell, ChainKinds) /\ n.active = m.active
    <3>1. CASE answer = NoIntent  BY <1>2, <1>3, <2>3, <3>1
    <3>2. CASE answer # NoIntent
      <4>1. LET s == SendIntent(m, op.session, answer)
            IN /\ Core(s, q) /\ Agreement(s, panel) /\ Resuming(s) /\ Commanded(s)
               /\ s.chain = m.chain /\ ~Has(s.shell, ChainKinds) /\ s.active = m.active
        BY <1>2, <1>3, <1>4, <1>6, <2>3, <3>2, SendKeeps
      <4> QED  BY <3>2, <4>1
    <3> QED  BY <3>1, <3>2
  <2> HIDE DEF n
  <2>5. n.chain[1].kind # "publish"  BY <1>7, <1>11, <2>2, <2>4
  <2>6. q.session = n.active => panel.session = n.active /\ q.shown = panel.shown
    <3>1. CASE SessionMatches(panel, op.session) /\ panel.intents # <<>>
      <4>1. q = [panel EXCEPT !.intents = Tail(@)]  BY <1>11, <3>1 DEF Shows, Refuses, q
      <4> QED  BY <1>1, <4>1 DEF Panels
    <3>2. CASE ~(SessionMatches(panel, op.session) /\ panel.intents # <<>>)
      BY <1>11, <3>2 DEF Shows, q
    <3> QED  BY <3>1, <3>2
  <2> QED  BY <2>1, <2>3, <2>4, <2>5, <2>6, DoneKeeps
<1>12. CASE op.kind = "result"
  <2>1. r = m /\ q = panel  BY <1>3, <1>12 DEF Succeeded
  <2>2. Served(m) /\ Commanded(m)  BY <1>2, <1>12 DEF ChainKinds, ControlKinds
  <2> QED  BY <1>2, <1>3, <2>1, <2>2 DEF Steady
<1>13. CASE op.kind \in {"hide", "clear"}
  <2> DEFINE e == Ended(m)
  <2>1. /\ Served(m) /\ ~Has(m.shell, ControlKinds) /\ m.pc = "op"
        /\ (op.kind = "clear" <=> m.cmd = "clear")
    BY <1>2, <1>13 DEF ChainKinds, ControlKinds
  <2>2. /\ Core(e, q) /\ ~Live(e) /\ e.shell = m.shell /\ e.pc = "op" /\ e.cmd = m.cmd
        /\ Served(e)
    BY <1>3, <2>1, EndedKeeps
  <2> HIDE DEF e
  <2>3. e.hidden = (e.cmd # "clear") /\ ~SummonAhead(e) /\ ~Has(e.chain, {"poll"})
    BY <2>2 DEF Core, PcSound, ChainSound, SummonsSound
  <2>4. CASE op.kind = "hide"
    <3>1. r = AfterHide(e)  BY <2>4 DEF Succeeded, e
    <3> QED  BY <1>3, <2>1, <2>2, <2>3, <2>4, <3>1, AfterHideKeeps
  <2>5. CASE op.kind = "clear"
    <3>1. r = [e EXCEPT !.pc = "loop"]  BY <2>5 DEF Succeeded, e
    <3>2. ~e.hidden  BY <2>1, <2>2, <2>3, <2>5
    <3>3. Steady([e EXCEPT !.pc = "loop"], q)
      BY <1>3, <2>1, <2>2, <2>3, <2>5, <3>2, LoopKeeps
    <3> QED  BY <3>1, <3>3
  <2> QED  BY <1>13, <2>4, <2>5
<1> QED  BY <1>5, <1>8, <1>9, <1>10, <1>11, <1>12, <1>13

LEMMA ShellKeeps ==
  ASSUME ConsoleInv, ShellAnswers \/ ShellFails
  PROVE  ConsoleInv'
<1> DEFINE k == console
           op == Head(k.shell)
<1>1. k.shell # <<>> /\ Steady(k, panel)  BY DEF ConsoleInv, ShellAnswers, ShellFails
<1>2. Core(Rest(k), panel) /\ Core(Rest(k), Shows(panel, op))
  BY <1>1, ShellShape, ShownKeeps
<1>3. CASE ShellAnswers
  <2>1. WorldSound'  BY <1>3, WorldUnchanged DEF ConsoleInv, ShellAnswers
  <2>2. CASE Refuses(panel, op)
    <3>1. panel' = Shows(panel, op) /\ console' = Failed(Rest(k), op)
      BY <1>3, <2>2 DEF ShellAnswers
    <3>2. Steady(Failed(Rest(k), op), Shows(panel, op))  BY <1>1, <1>2, FailedKeeps
    <3> QED  BY <2>1, <3>1, <3>2 DEF ConsoleInv
  <2>3. CASE ~Refuses(panel, op)
    <3>1. panel' = Shows(panel, op) /\ console' = Succeeded(Rest(k), op, Taken(panel, op))
      BY <1>3, <2>3 DEF ShellAnswers
    <3>2. Steady(Succeeded(Rest(k), op, Taken(panel, op)), Shows(panel, op))
      BY <1>1, <2>3, SucceededKeeps
    <3> QED  BY <2>1, <3>1, <3>2 DEF ConsoleInv
  <2> QED  BY <2>2, <2>3
<1>4. CASE ShellFails
  <2>1. "shell" \in Kinds \ {"all"}  BY DEF Kinds
  <2>2. WorldSound'  BY <1>4, <2>1, WorldAfterSpending DEF ConsoleInv, ShellFails
  <2>3. panel' \in {panel, Shows(panel, op)} /\ console' = Failed(Rest(k), op)
    BY <1>4 DEF ShellFails
  <2>4. Steady(Failed(Rest(k), op), panel) /\ Steady(Failed(Rest(k), op), Shows(panel, op))
    BY <1>1, <1>2, FailedKeeps
  <2> QED  BY <2>2, <2>3, <2>4 DEF ConsoleInv
<1> QED  BY <1>3, <1>4

-----------------------------------------------------------------------------
(* The theorems. *)

LEMMA ConsoleStarts == ConsoleInit => ConsoleInv
<1> SUFFICES ASSUME ConsoleInit PROVE ConsoleInv  OBVIOUS
<1> DEFINE k == console
           op == [kind |-> "capabilities", session |-> NoSession, handoff |-> NoHandoff,
                  intent |-> NoIntent]
<1>1. /\ NoSession \in SessionIds /\ NoSession.id = 0
      /\ NoHandoff \in Handoffs /\ NoHandoff.status = "none" /\ NoIntent \in Intents
  BY DEF NoSession, NoHandoff, NoIntent, SessionIds, Handoffs, Handoff, Intents, Statuses
<1>2. /\ NoConnection \in RunnerConnections /\ NoConnection.stage = "none"
      /\ NoConnection.frames = <<>> /\ ~NoConnection.eof /\ ~NoConnection.served
      /\ NoConnection.mode = "initial"
  BY DEF NoConnection, RunnerConnections
<1>3. op \in Ops /\ op.kind = "capabilities"  BY <1>1 DEF Ops, ControlKinds
<1>4. /\ k.phase = "idle" /\ k.active = NoSession /\ k.last = NoSession /\ k.ids = 0
      /\ k.hidden = FALSE /\ k.summoned = FALSE /\ k.pending = {} /\ k.chain = <<>>
      /\ k.shell = <<op>> /\ k.conn = NoConnection /\ k.proj = NoHandoff
      /\ k.pc = "discover" /\ k.polling = FALSE /\ k.target = NoSession
      /\ k.unhidden = FALSE /\ k.cmd = "open"
  BY DEF ConsoleInit
<1> HIDE DEF op
<1>5. k \in Consoles
  <2>1. <<op>> \in Seq(Ops) /\ <<>> \in Seq(Items)  BY <1>3
  <2>2. PICK carries \in BOOLEAN : k =
          [carries |-> carries, phase |-> "idle", active |-> NoSession, last |-> NoSession,
           ids |-> 0, hidden |-> FALSE, summoned |-> FALSE, pending |-> {}, completed |-> {},
           chain |-> <<>>, shell |-> <<op>>, conn |-> NoConnection, proj |-> NoHandoff,
           pc |-> "discover", cmd |-> "open", polling |-> FALSE, failed |-> FALSE, wait |-> 0,
           target |-> NoSession, unhidden |-> FALSE]
    BY DEF ConsoleInit, op
  <2> QED  BY <1>1, <1>2, <2>1, <2>2 DEF Consoles
<1>6. /\ panel \in Panels /\ panel.session = NoSession /\ ~panel.opened
      /\ Len(panel.intents) <= PanelQueue
  <2>1. panel = [opened |-> FALSE, session |-> NoSession, gen |-> 1, shown |-> NoHandoff,
                 intents |-> <<>>, count |-> 0]
    BY DEF ConsoleInit, EmptyPanel
  <2>2. <<>> \in Seq(Intents) /\ Len(<<>>) = 0  OBVIOUS
  <2> QED  BY <1>1, <2>1, <2>2, BoundsAssumption DEF Panels
<1>7. /\ DOMAIN k.chain = {} /\ DOMAIN k.shell = {1} /\ Len(k.shell) = 1 /\ k.shell[1] = op
      /\ k.shell # <<>>
  BY <1>4
<1>8. ~Live(k)  BY <1>4 DEF Live
<1>9. SessionsSound(k)  BY <1>1, <1>2, <1>4, <1>8 DEF SessionsSound, Live
<1>10. \A kinds : ~Has(k.chain, kinds) /\ Once(k.chain, kinds) /\ Once(k.shell, kinds)
  BY <1>7 DEF Has, Once
<1>11. ChainSound(k)  BY <1>4, <1>7, <1>10 DEF ChainSound
<1>12. PcSound(k)  BY <1>4, <1>8 DEF PcSound
<1>13. SummonsSound(k)  BY <1>3, <1>7, <1>10 DEF SummonsSound, SummonAhead, Has
<1>14. PanelSound(k, panel)  BY <1>4, <1>6, <1>8 DEF PanelSound
<1>15. Core(k, panel)  BY <1>5, <1>6, <1>9, <1>11, <1>12, <1>13, <1>14 DEF Core
<1>16. Served(k)  BY <1>3, <1>4, <1>7, <1>10 DEF Served, Has, ChainKinds
<1>17. Commanded(k)  BY <1>3, <1>4, <1>7, <1>10 DEF Commanded, Has, ControlKinds
<1>18. WorldSound
  <2>1. runner = [cursor |-> 1, team |-> 1] /\ budget = Budget  BY DEF ConsoleInit
  <2>2. Budget["replace"] \in Nat  BY BoundsAssumption DEF Kinds
  <2> QED  BY <2>1, <2>2, BoundsAssumption DEF WorldSound
<1> QED  BY <1>8, <1>15, <1>16, <1>17, <1>18, OverIsSteady DEF ConsoleInv

LEMMA ConsoleStep == ConsoleInv /\ [ConsoleNext]_consoleVars => ConsoleInv'
<1> SUFFICES ASSUME ConsoleInv, [ConsoleNext]_consoleVars PROVE ConsoleInv'  OBVIOUS
<1>1. CASE Adapter  BY <1>1, HelloKeeps, ReceiveKeeps, ClosedKeeps DEF Adapter
<1>2. CASE ConnectFails  BY <1>2, ConnectFailsKeeps
<1>3. CASE ServeHello  BY <1>3, ServeKeeps
<1>4. CASE CommitEvent  BY <1>4, CommitKeeps
<1>5. CASE LoseConnection  BY <1>5, LoseKeeps
<1>6. CASE ReplaceRunner  BY <1>6, ReplaceRunnerKeeps
<1>7. CASE \E i \in console.conn.asked : RunnerAcknowledges(i)  BY <1>7, AcknowledgeKeeps
<1>8. CASE RequestPresent  BY <1>8, PressKeeps
<1>9. CASE ReloadPlugin  BY <1>9, ReloadKeeps
<1>10. CASE ShellAnswers \/ ShellFails  BY <1>10, ShellKeeps
<1>11. CASE PollPresentationIntent  BY <1>11, PollKeeps
<1>12. CASE Controller  BY <1>12, StepsToQuit, StoppedKeeps, DrainedKeeps DEF Controller
<1>13. CASE RescanFails  BY <1>13, StepsToQuit
<1>14. CASE \E c \in {"hide", "clear", "reload", "quit"} : Command(c)  BY <1>14, CommandKeeps
<1>15. CASE UNCHANGED consoleVars
  BY <1>15 DEF consoleVars, ConsoleInv, WorldSound, Steady, Core
<1> QED
  BY <1>1, <1>2, <1>3, <1>4, <1>5, <1>6, <1>7, <1>8, <1>9, <1>10, <1>11, <1>12, <1>13, <1>14,
     <1>15
  DEF ConsoleNext

\* The inductive invariant: what is written above of the process and the panel
\* holds in every reachable state, with every interleaving of calls, frames,
\* commands and faults.
THEOREM ConsoleStaysSound == ConsoleSpec => []ConsoleInv
BY ConsoleStarts, ConsoleStep, PTL DEF ConsoleSpec

\* The types, the bound of the panel's queue, and that an ended session keeps
\* no connection, no projection and no pending intent (endSession).
THEOREM ConsoleTypesCorrect == ConsoleSpec => []ConsoleTypeOK
<1>1. ConsoleInv => ConsoleTypeOK
  <2> SUFFICES ASSUME ConsoleInv PROVE ConsoleTypeOK  OBVIOUS
  <2>1. Core(console, panel) /\ WorldSound  BY DEF ConsoleInv, Steady
  <2>2. console \in Consoles /\ panel \in Panels /\ SessionsSound(console)
        /\ Len(panel.intents) <= PanelQueue
    BY <2>1 DEF Core, PanelSound
  <2>3. /\ console.proj.status \in Statuses /\ panel.shown.status \in Statuses
        /\ console.phase \in {"idle", "opening", "active", "ended"}
        /\ console.pc \in {"discover", "connect", "gate", "loop", "pollwait", "drain", "op",
                           "exited"}
    BY <2>2 DEF Consoles, Panels, Handoffs
  <2>4. runner.cursor \in 0 .. MaxEvents /\ runner.team \in 1 .. Budget.replace + 1
    <3>1. /\ runner.cursor \in Nat /\ runner.cursor <= MaxEvents /\ runner.team \in Nat
          /\ runner.team >= 1 /\ runner.team + budget["replace"] <= Budget["replace"] + 1
          /\ budget["replace"] \in Nat /\ Budget["replace"] \in Nat
      BY <2>1, BoundsAssumption DEF WorldSound, Kinds
    <3> QED  BY <3>1, BoundsAssumption
  <2>5. (console.active # NoSession) = (console.phase \in {"opening", "active"})
    BY <2>2 DEF SessionsSound, Live
  <2>6. OnlyWhileActive  BY <2>2 DEF SessionsSound, Live, OnlyWhileActive
  <2> QED  BY <2>2, <2>3, <2>4, <2>5, <2>6 DEF ConsoleTypeOK
<1> QED  BY <1>1, ConsoleStaysSound, PTL

\* Once every publication and call has been answered, the panel of the session
\* shows the projection: nothing published is overtaken, dropped or shown for
\* another session (the publication chain of the manager).
THEOREM PanelCorrect == ConsoleSpec => []PanelAgrees
<1>1. ConsoleInv => PanelAgrees
  <2> SUFFICES ASSUME ConsoleInv, console.chain = <<>>, console.shell = <<>>,
                      panel.session # NoSession, panel.session = console.active
               PROVE  /\ panel.shown.status = console.proj.status
                      /\ panel.shown.cards = console.proj.cards
                      /\ ~console.conn.paged => panel.shown.cursor = console.proj.cursor
    BY DEF PanelAgrees
  <2>1. Core(console, panel) /\ Agreement(console, panel)  BY DEF ConsoleInv, Steady
  <2>2. Live(console)  BY <2>1 DEF Core, SessionsSound, Live
  <2>3. console.proj.status # "none"  BY <2>1, <2>2 DEF Core, PanelSound
  <2>4. ~Has(console.chain, {"publish"})  BY HasNothing
  <2>5. Shown(panel.shown, console)  BY <2>1, <2>2, <2>3, <2>4 DEF Agreement
  <2> QED  BY <2>5 DEF Shown
<1> QED  BY <1>1, ConsoleStaysSound, PTL

\* After a hide, or the clear of a session, no call still under way brings the
\* panel back, and an exited controller leaves no open panel unless a hide failed.
THEOREM HiddenCorrect == ConsoleSpec => []HiddenStaysHidden
<1>1. ConsoleInv => HiddenStaysHidden
  <2> SUFFICES ASSUME ConsoleInv PROVE HiddenStaysHidden  OBVIOUS
  <2>1. PanelSound(console, panel) /\ PcSound(console)  BY DEF ConsoleInv, Steady, Core
  <2>2. console.pc = "exited" => console.hidden  BY <2>1 DEF PcSound
  <2>3. console.unhidden => console.pc # "loop"  BY <2>1 DEF PcSound
  <2> QED  BY <2>1, <2>2, <2>3 DEF PanelSound, HiddenStaysHidden
<1> QED  BY <1>1, ConsoleStaysSound, PTL
=============================================================================
