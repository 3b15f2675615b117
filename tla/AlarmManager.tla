---------------------------- MODULE AlarmManager ----------------------------
(***************************************************************************)
(* The alarm manager of one project instance                               *)
(* (backend/services/alarm_manager.py).                                    *)
(*                                                                         *)
(* Values change on the event loop: the datasource manager stores one in   *)
(* its cache and calls on_variable_change.  Acknowledgements run in worker *)
(* threads, configuration saves in the thread pool of the REST routes.     *)
(* _lock serialises them.  A handler that evaluates triggers keeps the     *)
(* lock through a loop over definitions and then saves and broadcasts:     *)
(* `work` is that handler, and every other critical section waits for it.  *)
(* The audit event of an acknowledgement is emitted after the lock is      *)
(* released, and broadcasts reach a panel through the queue of the loop.   *)
(***************************************************************************)
EXTENDS Naturals, FiniteSets, Sequences

CONSTANTS
    Tags,        \* variable keys
    StaticTags,  \* those of static datasources, which are seeded on start
    Roots,       \* slugs that alarm codes turn into: sequences, see Slug
    Clients,     \* worker threads that acknowledge, named for their operator
    Drafts,      \* configurations that may be saved: sequences of definitions
    MaxHistory,  \* _MAX_HISTORY
    MaxClock,    \* bound: alarms fired and cleared, all together
    MaxEdits,    \* bound: edits of alarms and datasources, failed saves, and
                 \* restarts other than one that follows a failed save
    MaxQueue,    \* bound: broadcasts waiting in the queue of the loop
    NoTag, NoValue, NoId, NoWork, NoDocument, Nobody, All, Nothing

ASSUME BoundsAssumption ==
    /\ MaxHistory \in Nat \ {0}
    /\ MaxClock \in Nat /\ MaxEdits \in Nat
    /\ MaxQueue \in Nat \ {0}

ASSUME ConstantsAssumption ==
    /\ StaticTags \subseteq Tags
    /\ NoTag \notin Tags
    /\ NoValue \notin BOOLEAN
    /\ NoWork \notin [todo : SUBSET Nat, changed : BOOLEAN, tags : SUBSET Tags]
    /\ Nobody \notin Clients

(* Slugs are sequences of their parts, so that the second "a" is "a-1",    *)
(* which may also be the name of an alarm of its own.                      *)
ASSUME SlugsAssumption ==
    /\ \A r \in Roots : r \in Seq(Nat)
    /\ NoId \notin Seq(Nat)

Slug(root, n) == IF n = 0 THEN root ELSE Append(root, n)

(* slug_id counts up to the first suffix that is free.                     *)
SlugId(root, taken) ==
    Slug(root, CHOOSE n \in 0..Cardinality(taken) :
                  /\ Slug(root, n) \notin taken
                  /\ \A m \in 0..(n - 1) : Slug(root, m) \in taken)

Ids == Seq(Nat)
Values == BOOLEAN \cup {NoValue}

Definition ==
    [id : Ids \cup {NoId}, code : Roots, trigger : Tags \cup {NoTag},
     on_true : BOOLEAN, ack_required : BOOLEAN, values : SUBSET Tags]

ASSUME DraftsAssumption == Drafts \subseteq Seq(Definition) /\ Drafts # {}

VARIABLES
    config,   \* the definitions of _trigger_map, in the order of _config
    active,   \* _state.active
    history,  \* _state.history, newest first
    disk,     \* alarms.json and alarm_state.json
    reload,   \* the alarms.json a reload has read and not applied yet
    cache,    \* the cached value of every tag
    work,     \* the trigger evaluation that holds _lock, or NoWork
    ack,      \* the acknowledgement of every worker thread
    trail,    \* the audit trail, each event with the occurrences it speaks of
    queue,    \* broadcasts handed to the event loop
    panel,    \* one display: "off", "registered" (no snapshot yet) or "on"
    view,     \* what that display shows
    clock,    \* time, one tick for every alarm fired or cleared
    edits,    \* what MaxEdits counts
    stale,    \* history variable: tags not evaluated since the config changed
              \* or since a read replaced their value without a word
    unsaved   \* history variable: the last save of the state failed

vars == <<config, active, history, disk, reload, cache, work, ack, trail, queue,
          panel, view, clock, edits, stale, unsaved>>

-----------------------------------------------------------------------------
(* Configuration.                                                          *)

Root(id, code) == IF id # NoId THEN id ELSE code

GivenIds(cfg) == {cfg[i].id : i \in DOMAIN cfg} \ {NoId}

(* _assign_config_ids: in their order, definitions without an id get the   *)
(* first slug of their code that is free; ns holds the suffixes.           *)
WithSuffixes(cfg, ns) ==
    [i \in DOMAIN cfg |->
        IF cfg[i].id # NoId THEN cfg[i] ELSE [cfg[i] EXCEPT !.id = Slug(cfg[i].code, ns[i])]]

AssignedIds(cfg, ns) ==
    \A i \in DOMAIN cfg :
        LET new == WithSuffixes(cfg, ns)
            taken == GivenIds(cfg) \cup {new[j].id : j \in 1..(i - 1)}
        IN  IF cfg[i].id # NoId THEN ns[i] = 0
            ELSE /\ Slug(cfg[i].code, ns[i]) \notin taken
                 /\ \A m \in 0..(ns[i] - 1) : Slug(cfg[i].code, m) \in taken

TriggeredBy(t) == {i \in DOMAIN config : config[i].trigger = t}
ValueKeys == UNION {config[i].values : i \in DOMAIN config}

SavedState == [active |-> active, history |-> history]

Free == work = NoWork
LoopFree == Free /\ reload = NoDocument
Edited == edits < MaxEdits /\ edits' = edits + 1
Room(todo) == clock + Cardinality(todo) <= MaxClock /\ Len(queue) < MaxQueue

Idle == [pc |-> "idle", target |-> Nothing, ats |-> {}]

-----------------------------------------------------------------------------
Seed == [t \in Tags |-> IF t \in StaticTags THEN FALSE ELSE NoValue]

(* The evaluation of the definitions numbered in todo.                     *)
Evaluation(todo, changed, tags) == [todo |-> todo, changed |-> changed, tags |-> tags]

Cached(values) == {t \in Tags : values[t] # NoValue}

EvaluateCachedMutant(values, cfg) == Evaluation({}, FALSE, Cached(values))

EvaluateCached(values, cfg) ==
    Evaluation({i \in DOMAIN cfg : cfg[i].trigger \in Cached(values)}, FALSE, Cached(values))

Init ==
    /\ config \in Drafts
    /\ active = {} /\ history = <<>>
    /\ disk = [config |-> config, state |-> SavedState]
    /\ reload = NoDocument
    /\ cache = Seed
    /\ work = EvaluateCached(Seed, config)
    /\ ack = [c \in Clients |-> Idle]
    /\ trail = {}
    /\ queue = <<>>
    /\ panel = "off" /\ view = {}
    /\ clock = 0 /\ edits = 0
    /\ Room(work.todo)
    /\ stale = Tags
    /\ unsaved = FALSE

-----------------------------------------------------------------------------
(* The event loop.                                                         *)

Backfilled(inst, t, v) ==
    IF t \in DOMAIN inst.values /\ inst.values[t] = NoValue
    THEN [inst EXCEPT !.values[t] = v] ELSE inst

(* A value arrives: it is cached, the None entries it feeds are filled and *)
(* the definitions it triggers come under evaluation, all with the lock.   *)
OnVariableChange(t, v) ==
    LET filled == IF t \in ValueKeys THEN {Backfilled(i, t, v) : i \in active} ELSE active
    IN  /\ LoopFree /\ Room(TriggeredBy(t))
        /\ cache' = [cache EXCEPT ![t] = v]
        /\ active' = filled
        /\ work' = Evaluation(TriggeredBy(t), filled # active, {t})
        /\ UNCHANGED <<config, history, disk, reload, ack, trail, queue, panel, view,
                       clock, edits, stale, unsaved>>

(* A static datasource is saved, and one of its variables reshaped (it     *)
(* restarts at its default without a change event) or removed.             *)
ReapplyDatasource(t) ==
    /\ LoopFree /\ Edited
    /\ t \in StaticTags
    /\ \E v \in {FALSE, NoValue} : cache' = [cache EXCEPT ![t] = v]
    /\ work' = EvaluateCached(cache', config)
    /\ Room(work'.todo)
    /\ UNCHANGED <<config, active, history, disk, reload, ack, trail, queue, panel,
                   view, clock, stale, unsaved>>

(* An OPC-UA tag is disabled: its value leaves the cache, no listener is   *)
(* told.                                                                   *)
Evict(t) ==
    /\ LoopFree /\ Edited
    /\ t \notin StaticTags /\ cache[t] # NoValue
    /\ cache' = [cache EXCEPT ![t] = NoValue]
    /\ UNCHANGED <<config, active, history, disk, reload, work, ack, trail, queue,
                   panel, view, clock, stale, unsaved>>

(* A panel's context, or a saved datasource, has had an OPC-UA tag read,   *)
(* and the answer comes in after any changes since: it replaces the cached *)
(* value, an evicted one too, and no listener is told.                     *)
SeedCachedValues(t, v) ==
    /\ LoopFree
    /\ t \notin StaticTags /\ cache[t] # v
    /\ cache' = [cache EXCEPT ![t] = v]
    /\ stale' = stale \cup {t}
    /\ UNCHANGED <<config, active, history, disk, reload, work, ack, trail, queue,
                   panel, view, clock, edits, unsaved>>

(* Definitions of one tag are evaluated in the order of the configuration. *)
NextUp(i) ==
    /\ i \in work.todo
    /\ \A j \in work.todo : config[j].trigger = config[i].trigger => i <= j

Triggered(d) == cache[d.trigger] = d.on_true

ActiveOf(alarm) == {inst \in active : inst.alarm_id = alarm}

UsedIdsMutant == {inst.id : inst \in active}

UsedIds == {inst.id : inst \in active} \cup {history[h].id : h \in DOMAIN history}

DoneMutant(i, changed) ==
    work' = [work EXCEPT !.todo = @ \ {i}, !.changed = changed]

Done(i, changed) ==
    work' = [work EXCEPT !.todo = @ \ {i}, !.changed = @ \/ changed]

Fire(i) ==
    LET d == config[i]
        inst == [id |-> SlugId(Root(d.id, d.code), UsedIds), alarm_id |-> d.id,
                 code |-> d.code, acked |-> ~d.ack_required, acked_by |-> Nobody,
                 values |-> [t \in d.values |-> cache[t]], triggered_at |-> clock + 1]
    IN  /\ work # NoWork /\ NextUp(i)
        /\ Triggered(d) /\ ActiveOf(d.id) = {}
        /\ clock' = clock + 1
        /\ active' = active \cup {inst}
        /\ Done(i, TRUE)
        /\ UNCHANGED <<config, history, disk, reload, cache, ack, trail, queue, panel,
                       view, edits, stale, unsaved>>


Without(inst) == {a \in active : a.id # inst.id}

TrimmedMutant(h) == IF Len(h) > MaxHistory THEN SubSeq(h, 2, Len(h)) ELSE h

TrimmedLateMutant(h) == IF Len(h) > MaxHistory + 1 THEN SubSeq(h, 1, MaxHistory) ELSE h

Trimmed(h) == IF Len(h) > MaxHistory THEN SubSeq(h, 1, MaxHistory) ELSE h

Clear(i) ==
    /\ work # NoWork /\ NextUp(i)
    /\ ~Triggered(config[i])
    /\ \E inst \in ActiveOf(config[i].id) :
          LET entry == [id |-> SlugId(Root(inst.alarm_id, inst.code), UsedIds),
                        alarm_id |-> inst.alarm_id, code |-> inst.code,
                        acked |-> inst.acked, acked_by |-> inst.acked_by,
                        values |-> inst.values, triggered_at |-> inst.triggered_at,
                        cleared_at |-> clock + 1]
          IN  /\ active' = Without(inst)
              /\ history' = Trimmed(<<entry>> \o history)
    /\ clock' = clock + 1
    /\ Done(i, TRUE)
    /\ UNCHANGED <<config, disk, reload, cache, ack, trail, queue, panel, view,
                   edits, stale, unsaved>>

Keep(i) ==
    /\ work # NoWork /\ NextUp(i)
    /\ Triggered(config[i]) <=> ActiveOf(config[i].id) # {}
    /\ Done(i, FALSE)
    /\ UNCHANGED <<config, active, history, disk, reload, cache, ack, trail, queue,
                   panel, view, clock, edits, stale, unsaved>>

SaveState == disk' = [disk EXCEPT !.state = [active |-> active', history |-> history']]

(* _request_broadcast carries the whole active list.                       *)
BroadcastMutant == queue' = Append(queue, active)

Broadcast == queue' = Append(queue, active')

(* The evaluation is over: what changed is saved and broadcast.            *)
Finish ==
    /\ work # NoWork /\ work.todo = {}
    /\ work' = NoWork
    /\ stale' = stale \ work.tags
    /\ UNCHANGED <<config, active, history, reload, cache, ack, trail, panel,
                   view, clock, edits>>
    /\ \/ ~work.changed /\ UNCHANGED <<disk, queue, unsaved>>
       \/ work.changed /\ SaveState /\ Broadcast /\ unsaved' = FALSE

(* The save raises: the datasource manager logs it, and nobody is told.    *)
FinishSaveFails ==
    /\ work # NoWork /\ work.todo = {} /\ work.changed /\ Edited
    /\ work' = NoWork
    /\ stale' = stale \ work.tags
    /\ unsaved' = TRUE
    /\ UNCHANGED <<config, active, history, disk, reload, cache, ack, trail, queue,
                   panel, view, clock>>

-----------------------------------------------------------------------------
(* Configuration saves.                                                    *)

Rebuilt == stale' = Tags

(* PUT /api/alarms/config.  A save that raises leaves file and trigger map *)
(* as they were.                                                           *)
SetConfig(cfg) ==
    /\ Free
    /\ Edited
    /\ \E ns \in [DOMAIN cfg -> 0..Len(cfg)] :
          AssignedIds(cfg, ns) /\ config' = WithSuffixes(cfg, ns)
    /\ disk' = [disk EXCEPT !.config = config']
    /\ Rebuilt
    /\ UNCHANGED <<active, history, reload, cache, work, ack, trail, queue, panel, view,
                   clock, unsaved>>

(* A workspace tool, in the manager's process, writes alarms.json and      *)
(* tells the child, whose event loop reads the file ...                    *)
ReloadRead(cfg) ==
    /\ LoopFree
    /\ Edited
    /\ disk' = [disk EXCEPT !.config = cfg]
    /\ reload' = cfg
    /\ UNCHANGED <<config, active, history, cache, work, ack, trail, queue,
                   panel, view, clock, stale, unsaved>>

(* ... and applies what it read: apply_config, which assigns no ids.       *)
ApplyConfig ==
    /\ Free /\ reload # NoDocument
    /\ config' = reload
    /\ reload' = NoDocument
    /\ Rebuilt
    /\ UNCHANGED <<active, history, disk, cache, work, ack, trail, queue,
                   panel, view, clock, edits, unsaved>>

-----------------------------------------------------------------------------
(* Acknowledgements.                                                       *)

(* A panel asks for an instance it shows (by its id), or for all of them;  *)
(* the request then waits for a worker thread.                             *)
AckAsked(c) ==
    /\ ack[c].pc = "idle" /\ LoopFree
    /\ panel = "on"
    /\ \/ \E inst \in view :
            ack' = [ack EXCEPT ![c] = [pc |-> "asked", target |-> inst.id, ats |-> {}]]
       \/ ack' = [ack EXCEPT ![c] = [pc |-> "asked", target |-> All, ats |-> {}]]
    /\ UNCHANGED <<config, active, history, disk, reload, cache, work, trail, queue,
                   panel, view, clock, edits, stale, unsaved>>

Reached(target) == {inst \in active : target \in {inst.id, All}}
UnackedMutant(target) == Reached(target)

Unacked(target) == {inst \in Reached(target) : ~inst.acked}

Acked(inst, who) == [inst EXCEPT !.acked = TRUE, !.acked_by = who]

Acknowledged(target, who) ==
    (active \ Unacked(target)) \cup {Acked(inst, who) : inst \in Unacked(target)}

(* ack_alarm and ack_all with the lock.  Only an unacked alarm changes.    *)
AckApply(c) ==
    /\ ack[c].pc = "asked" /\ Free
    /\ Len(queue) < MaxQueue
    /\ Unacked(ack[c].target) # {}
    /\ active' = Acknowledged(ack[c].target, c)
    /\ history' = history
    /\ SaveState /\ Broadcast
    /\ unsaved' = FALSE
    /\ ack' = [ack EXCEPT ![c].pc = "emit",
                          ![c].ats = {inst.triggered_at : inst \in Unacked(ack[c].target)}]
    /\ UNCHANGED <<config, reload, cache, work, trail, panel, view, clock,
                   edits, stale>>

(* The save raises: the alarm is acknowledged in memory, the trail never   *)
(* hears of it, and the caller gets the exception.                         *)
AckSaveFails(c) ==
    /\ ack[c].pc = "asked" /\ Free
    /\ Unacked(ack[c].target) # {}
    /\ active' = Acknowledged(ack[c].target, c)
    /\ Edited
    /\ unsaved' = TRUE
    /\ ack' = [ack EXCEPT ![c] = Idle]
    /\ UNCHANGED <<config, history, disk, reload, cache, work, trail, queue, panel,
                   view, clock, stale>>

(* Already acknowledged, or gone.                                          *)
AckNothing(c) ==
    /\ ack[c].pc = "asked" /\ Free
    /\ Unacked(ack[c].target) = {}
    /\ ack' = [ack EXCEPT ![c] = Idle]
    /\ UNCHANGED <<config, active, history, disk, reload, cache, work, trail, queue,
                   panel, view, clock, edits, stale, unsaved>>

(* audit.emit, outside the lock.                                           *)
AckEmit(c) ==
    /\ ack[c].pc = "emit"
    /\ trail' = trail \cup {[actor |-> c, subject |-> ack[c].target, ats |-> ack[c].ats]}
    /\ ack' = [ack EXCEPT ![c] = Idle]
    /\ UNCHANGED <<config, active, history, disk, reload, cache, work, queue, panel,
                   view, clock, edits, stale, unsaved>>

-----------------------------------------------------------------------------
(* One display.                                                            *)

PanelRegister ==
    /\ panel = "off" /\ LoopFree
    /\ panel' = "registered"
    /\ UNCHANGED <<config, active, history, disk, reload, cache, work, ack, trail,
                   queue, view, clock, edits, stale, unsaved>>

PanelSnapshot ==
    /\ panel = "registered" /\ LoopFree
    /\ panel' = "on"
    /\ view' = active
    /\ UNCHANGED <<config, active, history, disk, reload, cache, work, ack, trail,
                   queue, clock, edits, stale, unsaved>>

Deliver ==
    /\ queue # <<>> /\ LoopFree
    /\ queue' = Tail(queue)
    /\ view' = IF panel = "off" THEN view ELSE Head(queue)
    /\ UNCHANGED <<config, active, history, disk, reload, cache, work, ack, trail,
                   panel, clock, edits, stale, unsaved>>

(* The process ends, anywhere, and a new one loads what is on disk.        *)
Restart ==
    /\ Edited \/ (unsaved /\ UNCHANGED edits)
    /\ config' = disk.config
    /\ active' = disk.state.active
    /\ history' = disk.state.history
    /\ reload' = NoDocument
    /\ cache' = Seed
    /\ work' = EvaluateCached(Seed, disk.config)
    /\ clock + Cardinality(work'.todo) <= MaxClock
    /\ ack' = [c \in Clients |-> Idle]
    /\ queue' = <<>>
    /\ panel' = "off" /\ view' = {}
    /\ stale' = Tags
    /\ unsaved' = FALSE
    /\ UNCHANGED <<disk, trail, clock>>

-----------------------------------------------------------------------------
Next ==
    \/ \E t \in Tags, v \in BOOLEAN : OnVariableChange(t, v)
    \/ \E t \in Tags : ReapplyDatasource(t)
    \/ \E t \in Tags : Evict(t)
    \/ \E t \in Tags, v \in BOOLEAN : SeedCachedValues(t, v)
    \/ \E i \in DOMAIN config : Fire(i)
    \/ \E i \in DOMAIN config : Clear(i)
    \/ \E i \in DOMAIN config : Keep(i)
    \/ Finish
    \/ FinishSaveFails
    \/ \E cfg \in Drafts : SetConfig(cfg)
    \/ \E cfg \in Drafts : ReloadRead(cfg)
    \/ ApplyConfig
    \/ \E c \in Clients : AckAsked(c)
    \/ \E c \in Clients : AckApply(c)
    \/ \E c \in Clients : AckSaveFails(c)
    \/ \E c \in Clients : AckNothing(c)
    \/ \E c \in Clients : AckEmit(c)
    \/ PanelRegister
    \/ PanelSnapshot
    \/ Deliver
    \/ Restart

Spec == Init /\ [][Next]_vars

-----------------------------------------------------------------------------
(* Type correctness.                                                       *)

Instances ==
    [id : Ids, alarm_id : Ids \cup {NoId}, code : Roots, acked : BOOLEAN,
     acked_by : Clients \cup {Nobody}, triggered_at : 1..MaxClock,
     values : UNION {[ts -> Values] : ts \in SUBSET Tags}]

Entries ==
    [id : Ids, alarm_id : Ids \cup {NoId}, code : Roots, acked : BOOLEAN,
     acked_by : Clients \cup {Nobody}, triggered_at : 1..MaxClock,
     values : UNION {[ts -> Values] : ts \in SUBSET Tags},
     cleared_at : 1..MaxClock]

States == [active : SUBSET Instances, history : Seq(Entries)]

Acks ==
    [pc : {"idle", "asked", "emit"}, target : Ids \cup {All, Nothing},
     ats : SUBSET (1..MaxClock)]

(* Every variable holds a value the code could hold, and the history is    *)
(* never longer than _MAX_HISTORY.                                         *)
TypeOK ==
    /\ config \in Seq(Definition)
    /\ active \subseteq Instances
    /\ history \in Seq(Entries) /\ Len(history) <= MaxHistory
    /\ disk \in [config : Seq(Definition), state : States]
    /\ Len(disk.state.history) <= MaxHistory
    /\ reload = NoDocument \/ reload \in Seq(Definition)
    /\ cache \in [Tags -> Values]
    /\ \/ work = NoWork
       \/ work \in [todo : SUBSET (DOMAIN config), changed : BOOLEAN, tags : SUBSET Tags]
    /\ ack \in [Clients -> Acks]
    /\ trail \subseteq [actor : Clients, subject : Ids \cup {All, Nothing},
                        ats : SUBSET (1..MaxClock)]
    /\ queue \in Seq(SUBSET Instances) /\ Len(queue) <= MaxQueue
    /\ panel \in {"off", "registered", "on"}
    /\ view \subseteq Instances
    /\ clock \in 0..MaxClock /\ edits \in 0..MaxEdits
    /\ stale \subseteq Tags
    /\ unsaved \in BOOLEAN

-----------------------------------------------------------------------------
(* Safety.                                                                 *)

(* One alarm has at most one active instance, whatever the order of value  *)
(* changes, configuration saves, restarts and failed saves                 *)
(* (_find_active_by_alarm_id, _apply_trigger_value).                       *)
OneActivePerAlarm ==
    \A a, b \in active : a.alarm_id = b.alarm_id => a = b

(* An instance id names one instance, active or in the history: the id is  *)
(* what a panel acknowledges by (_used_instance_ids, slug_id).             *)
InstanceIdsUnique ==
    /\ \A a, b \in active : a.id = b.id => a = b
    /\ \A g, h \in DOMAIN history : history[g].id = history[h].id => g = h
    /\ \A a \in active, h \in DOMAIN history : a.id # history[h].id

(* Both: alarms, and the ids by which they are acknowledged, are distinct. *)
AlarmsAreDistinct == OneActivePerAlarm /\ InstanceIdsUnique

(* Once its tag has been evaluated under the present configuration, and    *)
(* unless a read of the tag has replaced its value since, an alarm with an *)
(* id of its own is active exactly while the cached value triggers it:     *)
(* after restarts that restore the active alarms, after values a static    *)
(* datasource sets without an event, after every edit.  A value that       *)
(* seed_cached_values put in is not followed until the next change.        *)
AlarmFollowsTag ==
    Free => \A i \in DOMAIN config :
        LET d == config[i]
        IN  (/\ d.trigger \in Tags \ stale
             /\ cache[d.trigger] # NoValue
             /\ \A j \in DOMAIN config : config[j].id = d.id => i = j)
            => (ActiveOf(d.id) # {} <=> Triggered(d))

(* What a restart would read is what the process knows, whenever the lock  *)
(* is free and the last save did not fail: a crash loses no alarm, no      *)
(* acknowledgement and no captured value.                                  *)
DiskIsCurrent == Free /\ ~unsaved => disk.state = SavedState

Occurrences(st) == st.active \cup {st.history[h] : h \in DOMAIN st.history}

(* The audit trail and the state never name two operators for one          *)
(* occurrence: "whoever got there first owns the acknowledgement, and the  *)
(* trail says the same" (ack_alarm), for ack_all and across restarts too.  *)
TrailAgrees ==
    \A e \in trail :
        /\ \A o \in Occurrences(SavedState) :
              o.triggered_at \in e.ats => o.acked /\ o.acked_by = e.actor
        /\ \A f \in trail : e.ats \cap f.ats # {} => e = f

(* A connected display shows the active alarms as they are once the queue  *)
(* of the event loop is empty, whatever order its registration, its        *)
(* snapshot and the broadcasts of other threads came in.                   *)
ViewIsCurrent ==
    panel = "on" /\ queue = <<>> /\ Free /\ ~unsaved => view = active

(* What the disk says of an occurrence stands, through clears, edits and   *)
(* restarts.  An active alarm is next still active or in the history,      *)
(* unless alarms cleared since have filled the history; nobody takes over  *)
(* its acknowledgement; and later values of its tags do not replace the    *)
(* values captured for it (_clear_alarm, ack_alarm, _backfill_values).     *)
Kept(o, now) ==
    \/ \E p \in Occurrences(now) : p.triggered_at = o.triggered_at
    \/ /\ Len(now.history) = MaxHistory
       /\ \A h \in DOMAIN now.history, g \in DOMAIN disk.state.history :
             now.history[h].cleared_at > disk.state.history[g].cleared_at
OccurrencesStand ==
    [][LET now == disk'.state IN
       /\ \A o \in disk.state.active : Kept(o, now)
       /\ \A o \in Occurrences(disk.state), p \in Occurrences(now) :
             o.triggered_at = p.triggered_at =>
                /\ o.acked => p.acked /\ p.acked_by = o.acked_by
                /\ DOMAIN p.values = DOMAIN o.values
                /\ \A t \in DOMAIN o.values :
                      o.values[t] # NoValue => p.values[t] = o.values[t]]_vars
=============================================================================
