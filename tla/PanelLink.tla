----------------------------- MODULE PanelLink -----------------------------
(***************************************************************************)
(* How values travel from the controller to an operator panel.             *)
(*                                                                         *)
(* The broadcast hub (services/websocket_manager.py) batches what the      *)
(* datasources report, greets a new socket with the values it holds and    *)
(* answers set_context, which names the page a panel shows, with that      *)
(* page's values and then context_ready.  The panel (hooks/useWebSocket.ts,*)
(* store/variableStore.ts) collects frames and puts them into its store    *)
(* once per animation frame.                                               *)
(*                                                                         *)
(* One panel.  A value is the number of the change that made it.  Alarms,  *)
(* recipes and connection states, which are sent beside the values, are    *)
(* left out; writes are the subject of the module WritePath, sign-ins of   *)
(* Sessions.                                                               *)
(***************************************************************************)
EXTENDS Naturals, Sequences, SequencesExt, FiniteSets, Functions

CONSTANTS
    Variables,   \* composite keys
    Pages,
    Bound,       \* Bound[p]: the variables that page p binds
    MaxEvents,   \* bound: reports, navigations, edits and failures
    MaxFaults,   \* bound: of these, failures
    MaxWire      \* bound: frames on their way; a send waits for room

ASSUME PagesAssumption == IsFiniteSet(Variables) /\ Bound \in [Pages -> SUBSET Variables]
ASSUME BoundsAssumption == MaxEvents \in Nat /\ MaxFaults \in Nat /\ MaxWire \in Nat \ {0}

VARIABLES
    plc,       \* the value each variable has in the controller
    hub,       \* the backend: what it holds and has on its hands
    wire,      \* frames on their way to the panel
    uplink,    \* frames on their way to the hub
    panel,     \* the panel's store and the state of its socket
    queue,     \* what waits for the next animation frame
    seen,      \* history variable: what the frames since the snapshot said
    late,      \* history variable: the tab was in the background, where
               \* frames are held up, while the panel connected anew
    sockets,   \* how many connections the panel has opened
    events     \* what the bound counts

panelSide == <<uplink, panel, queue, seen, sockets>>
vars == <<plc, hub, wire, panelSide, late, events>>

(* One more of the events that are bounded.                                *)
Counted == events.all < MaxEvents /\ events' = [events EXCEPT !.all = @ + 1]
Fault ==
    /\ events.all < MaxEvents /\ events.faults < MaxFaults
    /\ events' = [all |-> events.all + 1, faults |-> events.faults + 1]

(* Partial functions: some variables and the value of each.                *)
MaxValue == MaxEvents + 1
MaxSockets == 2 * (MaxFaults + 1) \* a socket may be given up to load the page anew
Values == UNION {[V -> 1..MaxValue] : V \in SUBSET Variables}
None == [v \in {} |-> 0]
Over(new, old) == [v \in DOMAIN new \cup DOMAIN old |->
                      IF v \in DOMAIN new THEN new[v] ELSE old[v]]

-----------------------------------------------------------------------------
(* The hub.                                                                *)

NoTask == [phase |-> "none"]

FreshHub(boot) ==
    [boot     |-> boot,
     enabled  |-> Variables,
     cache    |-> None,   \* the values that the datasource manager holds
     normal   |-> None,   \* _pending_updates
     priority |-> None,   \* _pending_priority_updates
     batches  |-> <<>>,   \* taken by broadcast_loop, not yet sent
     known    |-> FALSE,  \* the panel's socket is in _connections
     greeting |-> <<>>,   \* what connect still has to send
     promoted |-> {},     \* variables on the fast subscription
     serving  |-> NoTask, \* the set_context being handled
     prefetch |-> {},     \* reads that run in the background
     news     |-> <<>>]   \* frames that announce a datasource edit

Room == Len(wire) < MaxWire

(* A frame to the panel; one to a client the hub no longer knows is not    *)
(* sent.                                                                   *)
Send(frame) == IF hub.known THEN Append(wire, frame) ELSE wire
SendsWithoutWaiting == TRUE
CanSend == hub.known => Room

Update(values) == [type |-> "var_update", values |-> values]
Metadata == [type |-> "var_metadata", keys |-> hub.enabled]

(* A subscription reports a variable: the value goes into the cache and,   *)
(* with enqueue, into the batch of its subscription.                       *)
Enqueue(v, value, isPriority) ==
    IF isPriority
    THEN [hub EXCEPT !.cache = Over([w \in {v} |-> value], @),
                     !.priority = Over([w \in {v} |-> value], @)]
    ELSE [hub EXCEPT !.cache = Over([w \in {v} |-> value], @),
                     !.normal = Over([w \in {v} |-> value], @)]

Report(v) ==
    /\ v \in hub.enabled /\ Counted
    /\ plc' = [plc EXCEPT ![v] = @ + IF v \in DOMAIN hub.cache THEN 1 ELSE 0]
    /\ hub' = Enqueue(v, plc'[v], v \in hub.promoted)
    /\ UNCHANGED <<wire, panelSide, late>>

(* broadcast_loop takes what is due, sends the priority batch and then the *)
(* normal one, and takes no more before that.                              *)
NonEmpty(batch) == IF batch = None THEN <<>> ELSE <<batch>>

Broadcast ==
    /\ CanSend
    /\ \E isDue \in [{"priority", "normal"} -> BOOLEAN] :
        LET fast == IF isDue["priority"] THEN hub.priority ELSE None
            slow == IF isDue["normal"] THEN hub.normal ELSE None
            due == hub.batches \o NonEmpty(fast) \o NonEmpty(slow)
        IN  /\ due # <<>>
            /\ hub.batches # <<>> => fast = None /\ slow = None
            /\ wire' = Send(Update(Head(due)))
            /\ hub' = [hub EXCEPT
                  !.priority = IF fast = None THEN @ ELSE None,
                  !.normal = IF slow = None THEN @ ELSE None,
                  !.batches = Tail(due)]
    /\ UNCHANGED <<plc, panelSide, late, events>>

(* A panel that takes no frames for five seconds is taken out of           *)
(* _connections; its socket stays as it is.                                *)
DropClient ==
    /\ hub.known /\ ~Room /\ Fault
    /\ hub' = [hub EXCEPT !.known = FALSE]
    /\ UNCHANGED <<plc, wire, panelSide, late>>

(* A saved datasource no longer enables a variable: the panels are told,   *)
(* and sent the metadata that remains.                                     *)
Disable(v) ==
    /\ Counted /\ v \in hub.enabled /\ hub.news = <<>>
    /\ hub' = [hub EXCEPT !.enabled = @ \ {v},
                          !.cache = Restrict(@, DOMAIN @ \ {v}),
                          !.news = <<"var_removed", "var_metadata">>]
    /\ UNCHANGED <<plc, wire, panelSide, late>>

SendNews ==
    /\ hub.news # <<>> /\ CanSend
    /\ wire' = Send(IF Head(hub.news) = "var_metadata" THEN Metadata
                    ELSE [type |-> "var_removed", keys |-> Variables \ hub.enabled])
    /\ hub' = [hub EXCEPT !.news = Tail(@)]
    /\ UNCHANGED <<plc, panelSide, late, events>>

(* connect goes on after the empty snapshot: the metadata, and then the    *)
(* values it holds, in chunks, with other work between them.  A chunk is   *)
(* one variable.                                                           *)
Chunks(values) ==
    LET order == SetToSeq(DOMAIN values)
    IN  [i \in 1..Len(order) |-> Update([v \in {order[i]} |-> values[order[i]]])]

Greet ==
    /\ hub.greeting # <<>> /\ CanSend
    /\ IF Head(hub.greeting).type = "var_metadata"
       THEN /\ wire' = Send(Metadata)
            /\ hub' = [hub EXCEPT !.greeting =
                  Chunks(Restrict(hub.cache, DOMAIN hub.cache \cap hub.enabled))]
       ELSE /\ wire' = Send(Head(hub.greeting))
            /\ hub' = [hub EXCEPT !.greeting = Tail(@)]
    /\ UNCHANGED <<plc, panelSide, late, events>>

(* The frames of a panel are handled one after the other, from when it has *)
(* been greeted.                                                           *)
Listens == hub.greeting = <<>> /\ hub.serving = NoTask /\ uplink # <<>>

(* _handle_set_context: what is cached is sent, none of it to a client the *)
(* hub no longer knows, ...                                                *)
CachedFor(keys) ==
    IF hub.known THEN Restrict(hub.cache, keys \cap DOMAIN hub.cache) ELSE None

HandleContext ==
    /\ Listens /\ CanSend
    /\ LET page == Head(uplink).page
           cached == CachedFor(Bound[page])
       IN  /\ wire' = IF cached = None THEN wire ELSE Send(Update(cached))
           /\ hub' = [hub EXCEPT !.serving =
                 [phase |-> "cached", page |-> page, nr |-> Head(uplink).nr,
                  sent |-> DOMAIN cached]]
    /\ uplink' = Tail(uplink)
    /\ UNCHANGED <<plc, panel, queue, seen, sockets, late, events>>

(* ... the page's variables go to the fast subscription, and either the    *)
(* page is ready or a read of the others starts in the background.         *)
Ready(task, given) ==
    [type |-> "context_ready", page |-> task.page, given |-> given]

ContextApplied ==
    /\ hub.serving # NoTask /\ CanSend
    /\ LET task == hub.serving
           missing == Bound[task.page] \ task.sent
           done == [hub EXCEPT !.serving = NoTask, !.promoted = Bound[task.page]]
       IN  IF missing = {}
           THEN /\ wire' = Send(Ready(task, task.sent))
                /\ hub' = done
           ELSE /\ hub' = [done EXCEPT !.prefetch = @ \cup
                      {[phase |-> "reads", socket |-> sockets, page |-> task.page,
                        nr |-> task.nr, sent |-> task.sent, missing |-> missing, read |-> None]}]
                /\ UNCHANGED wire
    /\ UNCHANGED <<plc, panelSide, late, events>>

(* _send_uncached_values_then_ready: the controller is read, which may     *)
(* fail, ...                                                               *)
Prefetched(task) ==
    /\ task \in hub.prefetch /\ task.phase = "reads"
    /\ \E got \in {{}, task.missing \cap hub.enabled} :
        hub' = [hub EXCEPT !.prefetch = (@ \ {task}) \cup
                  {[task EXCEPT !.phase = "sends",
                                !.read = [v \in got |-> plc[v]]]}]
    /\ UNCHANGED <<plc, wire, panelSide, late, events>>

(* ... what came goes into the cache and to the panel that asked, ...      *)
ToAsker(task, frame) == IF task.socket = sockets THEN Send(frame) ELSE wire

SendUncached(task) ==
    /\ task \in hub.prefetch /\ task.phase = "sends" /\ CanSend
    /\ wire' = IF task.read = None THEN wire ELSE ToAsker(task, Update(task.read))
    /\ hub' = [hub EXCEPT !.cache = Over(task.read, @),
                          !.prefetch = (@ \ {task}) \cup {[task EXCEPT !.phase = "ready"]}]
    /\ UNCHANGED <<plc, panelSide, late, events>>

(* ... and the page is ready, whatever came.                               *)
SendReadyIfRead(task) ==
    /\ task \in hub.prefetch /\ task.phase = "ready" /\ CanSend /\ task.read # None
    /\ wire' = ToAsker(task, Ready(task, task.sent \cup DOMAIN task.read))
    /\ hub' = [hub EXCEPT !.prefetch = @ \ {task}]
    /\ UNCHANGED <<plc, panelSide, late, events>>

SendReady(task) ==
    /\ task \in hub.prefetch /\ task.phase = "ready" /\ CanSend
    /\ wire' = ToAsker(task, Ready(task, task.sent \cup DOMAIN task.read))
    /\ hub' = [hub EXCEPT !.prefetch = @ \ {task}]
    /\ UNCHANGED <<plc, panelSide, late, events>>

-----------------------------------------------------------------------------
(* The panel.                                                              *)

EmptyQueue == [values |-> None, snapshot |-> 0, ready |-> {}, given |-> {}]

(* variableStore, with the socket whose snapshot it has (snapshotReceived); *)
(* and of the socket's module the boot id and the page of the context that *)
(* was sent last.                                                          *)
FreshPanel(page) ==
    [up |-> FALSE, values |-> None, keys |-> {}, gen |-> 0, ready |-> {},
     given |-> {}, page |-> page, owes |-> FALSE, asked |-> {}, boot |-> 0]

(* The panel keeps of a value the socket that it came on.                  *)
Stamp(values) == [v \in DOMAIN values |-> <<values[v], sockets>>]

(* The queue.  A snapshot starts a generation of values of its own.        *)
SnapshotJoinsQueue == [queue EXCEPT !.snapshot = sockets]
EnqueueSnapshot == [queue EXCEPT !.values = None, !.snapshot = sockets]
EnqueueUpdate(values) == [queue EXCEPT !.values = Over(Stamp(values), @)]
EnqueueReady(page, given) == [queue EXCEPT !.ready = {page}, !.given = given]

(* The next animation frame: the values, then what they make true.         *)
AlwaysReplace == IF queue.values = None THEN panel.values ELSE queue.values
ReplaceOrApply ==
    IF queue.snapshot # 0 THEN queue.values ELSE Over(queue.values, panel.values)

Flush ==
    /\ queue # EmptyQueue
    /\ panel' = [panel EXCEPT
          !.values = ReplaceOrApply,
          !.gen = IF queue.snapshot = 0 THEN @ ELSE queue.snapshot,
          !.ready = IF queue.ready = {} THEN @ ELSE queue.ready,
          !.given = IF queue.ready = {} THEN @ ELSE queue.given]
    /\ queue' = EmptyQueue
    /\ UNCHANGED <<plc, hub, wire, uplink, seen, sockets, late, events>>

(* onopen: the store of the values is cleared.  A frame comes within 16 ms *)
(* of what it is for, the next socket no sooner than 500 ms after the last *)
(* has closed: only a hidden tab opens one with values in the queue.  The  *)
(* hub knows the socket from then on, and begins with the empty snapshot.  *)
SetConnected(store) ==
    [store EXCEPT !.up = TRUE, !.values = None, !.keys = {}, !.gen = 0,
                  !.ready = {}, !.given = {}]

Open ==
    /\ ~panel.up
    /\ late' = (late \/ queue # EmptyQueue)
    /\ panel' = [SetConnected(panel) EXCEPT !.owes = TRUE]
    /\ hub' = [hub EXCEPT !.known = TRUE, !.greeting = <<Metadata>>]
    /\ wire' = <<[type |-> "var_snapshot", boot |-> hub.boot]>>
    /\ uplink' = <<>>
    /\ sockets' = sockets + 1
    /\ UNCHANGED <<plc, queue, seen, events>>

(* The operator goes to another page; its context is sent by an effect,    *)
(* which a frame from the hub may come before.                             *)
Navigate(page) ==
    /\ Counted /\ page # panel.page
    /\ panel' = [panel EXCEPT !.page = page, !.owes = panel.up]
    /\ UNCHANGED <<plc, hub, wire, uplink, queue, seen, sockets, late>>

SendContext ==
    /\ panel.owes
    /\ uplink' = Append(uplink, [page |-> panel.page, nr |-> events.all])
    /\ panel' = [panel EXCEPT !.owes = FALSE, !.asked = {panel.page}]
    /\ UNCHANGED <<plc, hub, wire, queue, seen, sockets, late, events>>

-----------------------------------------------------------------------------
(* Frames that arrive, and sockets that go.                                *)

(* setVarMeta and removeVars act at once, the values of the others wait    *)
(* for the next frame.                                                     *)
Without(values, keys) == Restrict(values, DOMAIN values \ keys)
Within(values, keys) == Restrict(values, DOMAIN values \cap keys)
KeepsMetadata(keys) == [panel EXCEPT !.values = Without(@, keys)]
RemoveVars(keys) == [panel EXCEPT !.values = Without(@, keys), !.keys = @ \ keys]
SetVarMeta(keys) == [panel EXCEPT !.values = Within(@, keys), !.keys = keys]

(* Whether an answer is for the context that was sent last.                *)
IsForLastContext(frame) == {frame.page} = panel.asked

Restarted(frame) == panel.boot # 0 /\ frame.boot # panel.boot

Receive ==
    /\ panel.up /\ wire # <<>>
    /\ LET frame == Head(wire)
       IN  \/ /\ frame.type = "var_snapshot" /\ ~Restarted(frame)
              /\ queue' = EnqueueSnapshot
              /\ panel' = [panel EXCEPT !.boot = frame.boot]
              /\ seen' = None
           \/ /\ frame.type = "var_update"
              /\ queue' = EnqueueUpdate(frame.values)
              /\ seen' = Over(frame.values, seen)
              /\ UNCHANGED <<panel>>
           \/ /\ frame.type = "var_removed"
              /\ panel' = RemoveVars(frame.keys)
              /\ seen' = Without(seen, frame.keys)
              /\ UNCHANGED <<queue>>
           \/ /\ frame.type = "var_metadata"
              /\ panel' = SetVarMeta(frame.keys)
              /\ seen' = Within(seen, frame.keys)
              /\ UNCHANGED <<queue>>
           \/ /\ frame.type = "context_ready"
              /\ queue' = IF IsForLastContext(frame)
                          THEN EnqueueReady(frame.page, frame.given) ELSE queue
              /\ UNCHANGED <<panel, seen>>
    /\ wire' = Tail(wire)
    /\ UNCHANGED <<plc, hub, uplink, sockets, late, events>>

(* A snapshot of another backend process: the page loads anew, with an     *)
(* empty store.                                                            *)
Disconnected(state) ==
    [state EXCEPT !.known = FALSE, !.greeting = <<>>, !.serving = NoTask, !.promoted = {}]

Reload ==
    /\ panel.up /\ wire # <<>>
    /\ Head(wire).type = "var_snapshot" /\ Restarted(Head(wire))
    /\ panel' = FreshPanel(panel.page)
    /\ queue' = EmptyQueue
    /\ seen' = None
    /\ wire' = <<>> /\ uplink' = <<>>
    /\ hub' = Disconnected(hub)
    /\ UNCHANGED <<plc, sockets, late, events>>

(* onclose.  The frames on their way are lost; what is queued stays.       *)
OnClose ==
    /\ panel' = [panel EXCEPT !.up = FALSE, !.ready = {}, !.given = {}, !.owes = FALSE]
    /\ wire' = <<>> /\ uplink' = <<>>

ConnectionLost ==
    /\ panel.up /\ Fault
    /\ OnClose
    /\ hub' = Disconnected(hub)
    /\ UNCHANGED <<plc, queue, seen, sockets, late>>

(* The backend restarts: it holds no value, and knows no panel.            *)
Restart ==
    /\ Fault
    /\ IF panel.up THEN OnClose ELSE UNCHANGED <<panel, wire, uplink>>
    /\ hub' = [FreshHub(hub.boot + 1) EXCEPT !.enabled = hub.enabled]
    /\ UNCHANGED <<plc, queue, seen, sockets, late>>

-----------------------------------------------------------------------------
Init ==
    /\ plc = [v \in Variables |-> 1]
    /\ hub = FreshHub(1)
    /\ wire = <<>> /\ uplink = <<>>
    /\ \E page \in Pages : panel = FreshPanel(page)
    /\ queue = EmptyQueue
    /\ seen = None
    /\ late = FALSE
    /\ sockets = 0 /\ events = [all |-> 0, faults |-> 0]

TaskStep ==
    \E task \in hub.prefetch : Prefetched(task) \/ SendUncached(task) \/ SendReady(task)

HubStep ==
    \/ Broadcast \/ SendNews \/ Greet
    \/ HandleContext \/ ContextApplied \/ TaskStep

PanelStep == Flush \/ SendContext \/ Receive \/ Reload

Environment ==
    \/ \E v \in Variables : Report(v) \/ Disable(v)
    \/ \E page \in Pages : Navigate(page)
    \/ Open \/ ConnectionLost \/ DropClient \/ Restart

Next == HubStep \/ PanelStep \/ Environment

(* The hub's tasks run on one event loop, and the browser delivers frames, *)
(* runs effects and timers; a tab in the background comes to the front     *)
(* sooner or later.  Nothing is asked of the batches and of the news of a  *)
(* datasource edit: no page waits for them.                                *)
Fairness ==
    /\ WF_vars(Greet) /\ WF_vars(HandleContext) /\ WF_vars(ContextApplied)
    /\ WF_vars(TaskStep)
    /\ WF_vars(Flush) /\ WF_vars(SendContext)
    /\ WF_vars(Receive) /\ WF_vars(Reload)

Spec == Init /\ [][Next]_vars /\ Fairness

-----------------------------------------------------------------------------
(* Properties.                                                             *)

Stamped == UNION {[V -> (0..MaxValue) \X (1..MaxSockets)] : V \in SUBSET Variables}
AtMostOne == {{}} \cup {{p} : p \in Pages}

TypeOK ==
    /\ plc \in [Variables -> 1..MaxValue]
    /\ hub.cache \in Values /\ hub.normal \in Values /\ hub.priority \in Values
    /\ hub.promoted \subseteq Variables /\ hub.enabled \subseteq Variables
    /\ Len(wire) <= MaxWire
    /\ panel.values \in Stamped /\ panel.ready \in AtMostOne /\ panel.asked \in AtMostOne
    /\ queue.values \in Stamped /\ queue.ready \in AtMostOne
    /\ seen \in Values

(* A page that the store shows as ready has its values in the store: every *)
(* one the hub sent for it, but for variables that are gone.  (A tab that  *)
(* was hidden may carry the word that a page is ready over to a new        *)
(* socket.)                                                                *)
ReadyMeansDelivered ==
    ~late => panel.given \cap panel.keys \subseteq DOMAIN panel.values

(* Once the store has taken the snapshot of a socket, no value of an       *)
(* earlier connection is left in it, and none comes back.                  *)
NothingOfAnEarlierSocket ==
    panel.up /\ panel.gen = sockets =>
        \A v \in DOMAIN panel.values : panel.values[v][2] = sockets

(* Collecting frames for an animation frame loses none: with the queue put *)
(* into it, the store says of every variable what the last frame about it  *)
(* said.                                                                   *)
TheLastFrameCounts ==
    panel.up /\ (panel.gen = sockets \/ queue.snapshot = sockets) =>
        \A v \in DOMAIN seen :
            v \in DOMAIN ReplaceOrApply /\ ReplaceOrApply[v][1] = seen[v]

(* The page that is shown is ready, or known to be with the next frame.    *)
Settled ==
    /\ panel.up /\ panel.asked = {panel.page}
    /\ \/ queue.ready = panel.asked
       \/ queue.ready = {} /\ panel.ready = panel.asked

(* The page that a tab in the foreground shows becomes ready, also when    *)
(* its variables cannot be read, as long as it is shown, the connection    *)
(* holds and the hub has not given the panel up.  It then stays so: an     *)
(* answer to a context that was superseded, a late read, does not put its  *)
(* spinner back.                                                           *)
PageSettles ==
    /\ \A p \in Pages :
         panel.up /\ panel.page = p
             ~> panel.ready = {p} \/ panel.page # p \/ ~panel.up \/ ~hub.known
    /\ [][Settled /\ panel'.up /\ panel'.page = panel.page => Settled']_vars
=============================================================================
