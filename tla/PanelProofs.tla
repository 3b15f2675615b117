---------------------------- MODULE PanelProofs ----------------------------
(***************************************************************************)
(* What the panel shows, for any variables, pages and bounds: values of    *)
(* one connection, the last that was said of each, and of a ready page     *)
(* all of them.                                                            *)
(*                                                                         *)
(* Values of an earlier connection are kept out because of what is queued  *)
(* as much as of what is stored: once the snapshot of a socket is queued,  *)
(* all that is queued came on that socket, and once it is stored, so did   *)
(* all that is stored or queued.                                           *)
(***************************************************************************)
EXTENDS PanelLink, FiniteSetTheorems, TLAPS

From(values, socket) == \A v \in DOMAIN values : values[v][2] = socket

PanelFields == {"up", "values", "keys", "gen", "ready", "given", "page", "owes", "asked", "boot"}
QueueFields == {"values", "snapshot", "ready", "given"}

GenerationsInv ==
    /\ sockets \in Nat
    /\ DOMAIN panel = PanelFields /\ DOMAIN queue = QueueFields
    /\ panel.gen \in 0..sockets /\ queue.snapshot \in 0..sockets
    /\ panel.gen = sockets => From(panel.values, sockets) /\ From(queue.values, sockets)
    /\ queue.snapshot = sockets => From(queue.values, sockets)

(* Values that go leave the others as they are, and values that come are   *)
(* those of the socket they come on.                                       *)
LEMMA RestrictFrom ==
    ASSUME NEW f, NEW S, NEW n, From(f, n), S \subseteq DOMAIN f
    PROVE  From(Restrict(f, S), n)
BY DEF Restrict, From

LEMMA OverFrom ==
    ASSUME NEW f, NEW g, NEW n, From(f, n), From(g, n)
    PROVE  From(Over(f, g), n)
BY DEF Over, From

LEMMA StampFrom == ASSUME NEW f PROVE From(Stamp(f), sockets)
BY DEF Stamp, From

LEMMA NoneFrom == ASSUME NEW n PROVE From(None, n)
BY DEF None, From

LEMMA EmptyQueueFields ==
    DOMAIN EmptyQueue = QueueFields /\ EmptyQueue.values = None /\ EmptyQueue.snapshot = 0
BY DEF EmptyQueue, QueueFields

LEMMA FreshPanelFields ==
    ASSUME NEW page
    PROVE  /\ DOMAIN FreshPanel(page) = PanelFields
           /\ FreshPanel(page).values = None /\ FreshPanel(page).gen = 0
BY DEF FreshPanel, PanelFields

LEMMA GenerationsInit == Init => GenerationsInv
<1>1. SUFFICES ASSUME Init PROVE GenerationsInv
  OBVIOUS
<1>2. PICK page \in Pages : panel = FreshPanel(page)
  BY <1>1 DEF Init
<1>3. queue = EmptyQueue /\ sockets = 0
  BY <1>1 DEF Init
<1>4. From(panel.values, sockets) /\ From(queue.values, sockets)
  BY <1>2, <1>3, NoneFrom, EmptyQueueFields, FreshPanelFields
<1>5. QED
  BY <1>2, <1>3, <1>4, EmptyQueueFields, FreshPanelFields DEF GenerationsInv

(* A step that takes values at most, and leaves the queue alone.           *)
LEMMA StoreShrinks ==
    ASSUME GenerationsInv, UNCHANGED <<queue, sockets>>,
           DOMAIN panel' = PanelFields, panel'.gen = panel.gen,
           NEW S, S \subseteq DOMAIN panel.values,
           panel'.values = panel.values \/ panel'.values = Restrict(panel.values, S)
    PROVE  GenerationsInv'
<1>1. panel.gen = sockets => From(panel'.values, sockets)
  BY RestrictFrom DEF GenerationsInv
<1>2. QED
  BY <1>1 DEF GenerationsInv

(* A step that leaves the store, the queue and the socket alone.           *)
LEMMA PanelUntouched ==
    ASSUME GenerationsInv, UNCHANGED <<panel, queue, sockets>>
    PROVE  GenerationsInv'
BY DEF GenerationsInv

LEMMA FlushStep ==
    ASSUME GenerationsInv, Flush
    PROVE  GenerationsInv'
<1>1. /\ DOMAIN panel' = PanelFields
      /\ panel'.values = ReplaceOrApply
      /\ panel'.gen = IF queue.snapshot = 0 THEN panel.gen ELSE queue.snapshot
  BY DEF GenerationsInv, Flush, PanelFields
<1>2. queue' = EmptyQueue /\ sockets' = sockets
  BY DEF Flush
<1>3. queue'.snapshot = 0 /\ DOMAIN queue' = QueueFields /\ From(queue'.values, sockets)
  BY <1>2, EmptyQueueFields, NoneFrom
<1>4. panel'.gen \in 0..sockets
  BY <1>1 DEF GenerationsInv
<1>5. ASSUME panel'.gen = sockets PROVE From(panel'.values, sockets)
  <2>1. CASE queue.snapshot # 0
    <3>1. queue.snapshot = sockets /\ panel'.values = queue.values
      BY <1>1, <1>5, <2>1 DEF ReplaceOrApply
    <3>2. QED
      BY <3>1 DEF GenerationsInv
  <2>2. CASE queue.snapshot = 0
    <3>1. panel.gen = sockets /\ panel'.values = Over(queue.values, panel.values)
      BY <1>1, <1>5, <2>2 DEF ReplaceOrApply
    <3>2. QED
      BY <3>1, OverFrom DEF GenerationsInv
  <2>3. QED
    BY <2>1, <2>2
<1>6. QED
  BY <1>1, <1>2, <1>3, <1>4, <1>5 DEF GenerationsInv

LEMMA OpenStep ==
    ASSUME GenerationsInv, Open
    PROVE  GenerationsInv'
<1>1. /\ DOMAIN panel' = PanelFields /\ panel'.gen = 0
      /\ queue' = queue /\ sockets' = sockets + 1
  BY DEF GenerationsInv, Open, SetConnected, PanelFields
<1>2. queue'.snapshot # sockets' /\ panel'.gen # sockets'
  BY <1>1 DEF GenerationsInv
<1>3. QED
  BY <1>1, <1>2 DEF GenerationsInv

LEMMA ReceiveStep ==
    ASSUME GenerationsInv, Receive
    PROVE  GenerationsInv'
<1> DEFINE frame == Head(wire)
<1>1. sockets' = sockets
  BY DEF Receive
<1>2. CASE /\ queue' = EnqueueSnapshot
           /\ panel' = [panel EXCEPT !.boot = frame.boot]
  <2>1. /\ DOMAIN panel' = PanelFields /\ panel'.gen = panel.gen
        /\ panel'.values = panel.values
        /\ DOMAIN queue' = QueueFields /\ queue'.snapshot = sockets /\ queue'.values = None
    BY <1>2 DEF GenerationsInv, EnqueueSnapshot, PanelFields, QueueFields
  <2>2. QED
    BY <1>1, <2>1, NoneFrom DEF GenerationsInv
<1>3. CASE queue' = EnqueueUpdate(frame.values) /\ UNCHANGED panel
  <2>1. /\ DOMAIN queue' = QueueFields /\ queue'.snapshot = queue.snapshot
        /\ queue'.values = Over(Stamp(frame.values), queue.values)
    BY <1>3 DEF GenerationsInv, EnqueueUpdate, QueueFields
  <2>2. From(queue.values, sockets) => From(queue'.values, sockets)
    BY <2>1, OverFrom, StampFrom
  <2>3. QED
    BY <1>1, <1>3, <2>1, <2>2 DEF GenerationsInv
<1>4. CASE panel' = RemoveVars(frame.keys) /\ UNCHANGED queue
  <2>1. /\ DOMAIN panel' = PanelFields /\ panel'.gen = panel.gen
        /\ panel'.values = Restrict(panel.values, DOMAIN panel.values \ frame.keys)
    BY <1>4 DEF GenerationsInv, RemoveVars, Without, PanelFields
  <2>2. QED
    BY <1>1, <1>4, <2>1, StoreShrinks
<1>5. CASE panel' = SetVarMeta(frame.keys) /\ UNCHANGED queue
  <2>1. /\ DOMAIN panel' = PanelFields /\ panel'.gen = panel.gen
        /\ panel'.values = Restrict(panel.values, DOMAIN panel.values \cap frame.keys)
    BY <1>5 DEF GenerationsInv, SetVarMeta, Within, PanelFields
  <2>2. QED
    BY <1>1, <1>5, <2>1, StoreShrinks
<1>6. CASE /\ queue' = IF IsForLastContext(frame)
                       THEN EnqueueReady(frame.page, frame.given) ELSE queue
           /\ UNCHANGED panel
  <2>1. /\ DOMAIN queue' = QueueFields /\ queue'.snapshot = queue.snapshot
        /\ queue'.values = queue.values
    BY <1>6 DEF GenerationsInv, EnqueueReady, QueueFields
  <2>2. QED
    BY <1>1, <1>6, <2>1 DEF GenerationsInv
<1>7. QED
  BY <1>2, <1>3, <1>4, <1>5, <1>6 DEF Receive

LEMMA ReloadStep ==
    ASSUME GenerationsInv, Reload
    PROVE  GenerationsInv'
<1>1. panel' = FreshPanel(panel.page) /\ queue' = EmptyQueue /\ sockets' = sockets
  BY DEF Reload
<1>2. From(panel'.values, sockets) /\ From(queue'.values, sockets)
  BY <1>1, NoneFrom, EmptyQueueFields, FreshPanelFields
<1>3. QED
  BY <1>1, <1>2, EmptyQueueFields, FreshPanelFields DEF GenerationsInv

(* Navigation, the context that is sent and a socket that closes change    *)
(* other fields of the store.                                              *)
LEMMA OtherFields ==
    ASSUME GenerationsInv, UNCHANGED <<queue, sockets>>,
           DOMAIN panel' = PanelFields, panel'.gen = panel.gen,
           panel'.values = panel.values
    PROVE  GenerationsInv'
BY StoreShrinks

LEMMA GenerationsStep ==
    ASSUME GenerationsInv, [Next]_vars
    PROVE  GenerationsInv'
<1>1. ASSUME HubStep PROVE GenerationsInv'
  <2>1. UNCHANGED <<panel, queue, sockets>>
    BY <1>1 DEF HubStep, Broadcast, SendNews, Greet, HandleContext, ContextApplied, TaskStep,
                Prefetched, SendUncached, SendReady, panelSide
  <2>2. QED
    BY <2>1, PanelUntouched
<1>2. CASE Flush
  BY <1>2, FlushStep
<1>3. CASE Receive
  BY <1>3, ReceiveStep
<1>4. CASE Reload
  BY <1>4, ReloadStep
<1>5. CASE Open
  BY <1>5, OpenStep
<1>6. ASSUME SendContext PROVE GenerationsInv'
  <2>1. /\ UNCHANGED <<queue, sockets>> /\ DOMAIN panel' = PanelFields
        /\ panel'.gen = panel.gen /\ panel'.values = panel.values
    BY <1>6 DEF SendContext, GenerationsInv, PanelFields
  <2>2. QED
    BY <2>1, OtherFields
<1>7. ASSUME NEW page \in Pages, Navigate(page) PROVE GenerationsInv'
  <2>1. /\ UNCHANGED <<queue, sockets>> /\ DOMAIN panel' = PanelFields
        /\ panel'.gen = panel.gen /\ panel'.values = panel.values
    BY <1>7 DEF Navigate, GenerationsInv, PanelFields
  <2>2. QED
    BY <2>1, OtherFields
<1>8. ASSUME ConnectionLost \/ Restart PROVE GenerationsInv'
  <2>1. UNCHANGED <<queue, sockets>> /\ (OnClose \/ UNCHANGED panel)
    BY <1>8 DEF ConnectionLost, Restart
  <2>2. /\ DOMAIN panel' = PanelFields
        /\ panel'.gen = panel.gen /\ panel'.values = panel.values
    BY <2>1 DEF OnClose, GenerationsInv, PanelFields
  <2>3. QED
    BY <2>1, <2>2, OtherFields
<1>9. ASSUME DropClient \/ \E v \in Variables : Report(v) \/ Disable(v)
      PROVE GenerationsInv'
  <2>1. UNCHANGED <<panel, queue, sockets>>
    BY <1>9 DEF DropClient, Report, Disable, panelSide
  <2>2. QED
    BY <2>1, PanelUntouched
<1>10. CASE UNCHANGED vars
  BY <1>10, PanelUntouched DEF vars, panelSide
<1>11. QED
  BY <1>1, <1>2, <1>3, <1>4, <1>5, <1>6, <1>7, <1>8, <1>9, <1>10
     DEF Next, PanelStep, Environment

(* Once the store has taken the snapshot of a socket, it holds no value of *)
(* an earlier connection: useWebSocket.ts starts a generation with every   *)
(* snapshot (enqueueVarUpdate) and drops what was queued before it.        *)
THEOREM NoEarlierValue == Spec => []NothingOfAnEarlierSocket
<1>1. Init => GenerationsInv
  BY GenerationsInit
<1>2. GenerationsInv /\ [Next]_vars => GenerationsInv'
  BY GenerationsStep
<1>3. GenerationsInv => NothingOfAnEarlierSocket
  BY DEF GenerationsInv, NothingOfAnEarlierSocket, From
<1>4. QED
  BY <1>1, <1>2, <1>3, PTL DEF Spec

-----------------------------------------------------------------------------
(***************************************************************************)
(* The last frame about a variable.  With the generations known, the       *)
(* property is inductive as it stands.                                     *)
(***************************************************************************)

(* What the store will hold after the next animation frame.                *)
LEMMA OverValue ==
    ASSUME NEW new, NEW old, NEW v
    PROVE  /\ v \in DOMAIN Over(new, old) <=> v \in DOMAIN new \/ v \in DOMAIN old
           /\ v \in DOMAIN new => Over(new, old)[v] = new[v]
           /\ v \in DOMAIN old /\ v \notin DOMAIN new => Over(new, old)[v] = old[v]
BY DEF Over

LEMMA RestrictValue ==
    ASSUME NEW f, NEW S, NEW v
    PROVE  /\ v \in DOMAIN Restrict(f, S) <=> v \in S
           /\ v \in S => Restrict(f, S)[v] = f[v]
BY DEF Restrict

LEMMA StampValue ==
    ASSUME NEW f, NEW v
    PROVE  /\ v \in DOMAIN Stamp(f) <=> v \in DOMAIN f
           /\ v \in DOMAIN f => Stamp(f)[v] = <<f[v], sockets>>
BY DEF Stamp

LEMMA NoneValue == DOMAIN None = {}
BY DEF None

(* Steps that leave the queue, the store of values and what was seen.      *)
LEMMA LastFrameUnchanged ==
    ASSUME TheLastFrameCounts, UNCHANGED <<sockets, seen>>,
           queue'.values = queue.values, queue'.snapshot = queue.snapshot,
           panel'.up => panel.up, panel'.gen = panel.gen, panel'.values = panel.values
    PROVE  TheLastFrameCounts'
BY DEF TheLastFrameCounts, ReplaceOrApply

LEMMA LastFrameFlush ==
    ASSUME GenerationsInv, TheLastFrameCounts, Flush
    PROVE  TheLastFrameCounts'
<1>1. /\ panel'.values = ReplaceOrApply /\ panel'.up = panel.up
      /\ panel'.gen = IF queue.snapshot = 0 THEN panel.gen ELSE queue.snapshot
  BY DEF GenerationsInv, Flush, PanelFields
<1>2. /\ queue'.values = None /\ queue'.snapshot = 0 /\ UNCHANGED <<sockets, seen>>
  BY EmptyQueueFields DEF Flush
<1>3. SUFFICES ASSUME panel'.up, panel'.gen = sockets \/ queue'.snapshot = sockets,
                      NEW v \in DOMAIN seen
               PROVE  v \in DOMAIN ReplaceOrApply' /\ ReplaceOrApply'[v][1] = seen[v]
  BY <1>2 DEF TheLastFrameCounts
<1>4. CASE sockets # 0
  <2>1. panel.gen = sockets \/ queue.snapshot = sockets
    BY <1>1, <1>2, <1>3, <1>4
  <2>2. v \in DOMAIN ReplaceOrApply /\ ReplaceOrApply[v][1] = seen[v]
    BY <1>1, <1>3, <2>1 DEF TheLastFrameCounts
  <2>3. ReplaceOrApply' = Over(None, panel'.values)
    BY <1>2 DEF ReplaceOrApply
  <2>4. QED
    BY <1>1, <2>2, <2>3, NoneValue, OverValue
<1>5. CASE sockets = 0
  <2>1. panel.gen = sockets
    BY <1>5 DEF GenerationsInv
  <2>2. v \in DOMAIN ReplaceOrApply /\ ReplaceOrApply[v][1] = seen[v]
    BY <1>1, <1>3, <2>1 DEF TheLastFrameCounts
  <2>3. ReplaceOrApply' = Over(None, panel'.values)
    BY <1>2 DEF ReplaceOrApply
  <2>4. QED
    BY <1>1, <2>2, <2>3, NoneValue, OverValue
<1>6. QED
  BY <1>4, <1>5

(* Values that leave the store at once leave what was seen, too.           *)
LEMMA LastFrameShrinks ==
    ASSUME TheLastFrameCounts, NEW gone, UNCHANGED <<queue, sockets>>,
           panel'.up = panel.up, panel'.gen = panel.gen,
           panel'.values = Restrict(panel.values, DOMAIN panel.values \ gone),
           seen' = Restrict(seen, DOMAIN seen \ gone)
    PROVE  TheLastFrameCounts'
<1>1. SUFFICES ASSUME panel.up, panel.gen = sockets \/ queue.snapshot = sockets,
                      NEW v \in DOMAIN seen'
               PROVE  v \in DOMAIN ReplaceOrApply' /\ ReplaceOrApply'[v][1] = seen'[v]
  BY DEF TheLastFrameCounts
<1>2. v \in DOMAIN seen /\ v \notin gone /\ seen'[v] = seen[v]
  BY RestrictValue
<1>3. v \in DOMAIN ReplaceOrApply /\ ReplaceOrApply[v][1] = seen[v]
  BY <1>1, <1>2 DEF TheLastFrameCounts
<1>4. CASE queue.snapshot # 0
  BY <1>2, <1>3, <1>4 DEF ReplaceOrApply
<1>5. CASE queue.snapshot = 0
  <2>1. /\ ReplaceOrApply = Over(queue.values, panel.values)
        /\ ReplaceOrApply' = Over(queue.values, panel'.values)
    BY <1>5 DEF ReplaceOrApply
  <2>2. v \in DOMAIN queue.values \/ v \in DOMAIN panel.values \ gone
    BY <1>2, <1>3, <2>1, OverValue
  <2>3. v \in DOMAIN panel.values \ gone =>
           v \in DOMAIN panel'.values /\ panel'.values[v] = panel.values[v]
    BY RestrictValue
  <2>4. QED
    BY <1>2, <1>3, <2>1, <2>2, <2>3, OverValue
<1>6. QED
  BY <1>4, <1>5

LEMMA LastFrameReceive ==
    ASSUME GenerationsInv, TheLastFrameCounts, Receive
    PROVE  TheLastFrameCounts'
<1> DEFINE frame == Head(wire)
<1>1. sockets' = sockets /\ DOMAIN panel = PanelFields /\ DOMAIN queue = QueueFields
  BY DEF Receive, GenerationsInv
<1>2. CASE seen' = None
  BY <1>2, NoneValue DEF TheLastFrameCounts
<1>3. CASE /\ queue' = EnqueueUpdate(frame.values) /\ UNCHANGED panel
           /\ seen' = Over(frame.values, seen)
  <2> DEFINE new == frame.values
  <2> HIDE DEF new
  <2>1. /\ queue'.snapshot = queue.snapshot
        /\ queue'.values = Over(Stamp(new), queue.values)
    BY <1>1, <1>3 DEF EnqueueUpdate, QueueFields, new
  <2>2. SUFFICES ASSUME panel.up, panel.gen = sockets \/ queue.snapshot = sockets,
                        NEW v \in DOMAIN seen'
                 PROVE  v \in DOMAIN ReplaceOrApply' /\ ReplaceOrApply'[v][1] = seen'[v]
    BY <1>1, <1>3, <2>1 DEF TheLastFrameCounts
  <2>3. CASE v \in DOMAIN new
    <3>1. v \in DOMAIN queue'.values /\ queue'.values[v][1] = new[v] /\ seen'[v] = new[v]
      BY <1>3, <2>1, <2>3, OverValue, StampValue DEF new
    <3>2. v \in DOMAIN ReplaceOrApply' /\ ReplaceOrApply'[v] = queue'.values[v]
      BY <3>1, OverValue DEF ReplaceOrApply
    <3>3. QED
      BY <3>1, <3>2
  <2>4. CASE v \notin DOMAIN new
    <3>1. v \in DOMAIN seen /\ seen'[v] = seen[v]
      BY <1>3, <2>2, <2>4, OverValue DEF new
    <3>2. v \in DOMAIN ReplaceOrApply /\ ReplaceOrApply[v][1] = seen[v]
      BY <2>2, <3>1 DEF TheLastFrameCounts
    <3>3. /\ v \in DOMAIN queue'.values <=> v \in DOMAIN queue.values
          /\ v \in DOMAIN queue.values => queue'.values[v] = queue.values[v]
      BY <2>1, <2>4, OverValue, StampValue
    <3>4. v \in DOMAIN ReplaceOrApply' /\ ReplaceOrApply'[v] = ReplaceOrApply[v]
      BY <1>3, <2>1, <3>2, <3>3, OverValue DEF ReplaceOrApply
    <3>5. QED
      BY <3>1, <3>2, <3>4
  <2>5. QED
    BY <2>3, <2>4
<1>4. CASE /\ panel' = RemoveVars(frame.keys) /\ UNCHANGED queue
           /\ seen' = Without(seen, frame.keys)
  <2>1. /\ panel'.up = panel.up /\ panel'.gen = panel.gen
        /\ panel'.values = Restrict(panel.values, DOMAIN panel.values \ frame.keys)
    BY <1>1, <1>4 DEF RemoveVars, Without, PanelFields
  <2>2. QED
    BY <1>1, <1>4, <2>1, LastFrameShrinks DEF Without
<1>5. CASE /\ panel' = SetVarMeta(frame.keys) /\ UNCHANGED queue
           /\ seen' = Within(seen, frame.keys)
  <2> DEFINE gone == (DOMAIN panel.values \cup DOMAIN seen) \ frame.keys
  <2>1. /\ panel'.up = panel.up /\ panel'.gen = panel.gen
        /\ panel'.values = Restrict(panel.values, DOMAIN panel.values \cap frame.keys)
    BY <1>1, <1>5 DEF SetVarMeta, Within, PanelFields
  <2>2. /\ DOMAIN panel.values \cap frame.keys = DOMAIN panel.values \ gone
        /\ DOMAIN seen \cap frame.keys = DOMAIN seen \ gone
    OBVIOUS
  <2> HIDE DEF gone
  <2>3. QED
    BY <1>1, <1>5, <2>1, <2>2, LastFrameShrinks DEF Within
<1>6. CASE /\ queue' = IF IsForLastContext(frame)
                       THEN EnqueueReady(frame.page, frame.given) ELSE queue
           /\ UNCHANGED <<panel, seen>>
  <2>1. queue'.snapshot = queue.snapshot /\ queue'.values = queue.values
    BY <1>1, <1>6 DEF EnqueueReady, QueueFields
  <2>2. QED
    BY <1>1, <1>6, <2>1, LastFrameUnchanged
<1>7. QED
  BY <1>2, <1>3, <1>4, <1>5, <1>6 DEF Receive

LEMMA LastFrameStep ==
    ASSUME GenerationsInv, TheLastFrameCounts, [Next]_vars
    PROVE  TheLastFrameCounts'
<1>1. DOMAIN panel = PanelFields
  BY DEF GenerationsInv
<1>2. ASSUME UNCHANGED <<panel, queue, sockets, seen>>
      PROVE  TheLastFrameCounts'
  BY <1>2, LastFrameUnchanged
<1>3. ASSUME HubStep PROVE TheLastFrameCounts'
  <2>1. UNCHANGED <<panel, queue, sockets, seen>>
    BY <1>3 DEF HubStep, Broadcast, SendNews, Greet, HandleContext, ContextApplied, TaskStep,
                Prefetched, SendUncached, SendReady, panelSide
  <2>2. QED
    BY <1>2, <2>1
<1>4. CASE Flush
  BY <1>4, LastFrameFlush
<1>5. CASE Receive
  BY <1>5, LastFrameReceive
<1>6. CASE Reload
  BY <1>6, NoneValue DEF Reload, TheLastFrameCounts
<1>7. CASE Open
  <2>1. /\ panel'.gen = 0 /\ queue'.snapshot = queue.snapshot /\ sockets' = sockets + 1
    BY <1>1, <1>7 DEF Open, SetConnected, PanelFields
  <2>2. queue'.snapshot # sockets' /\ panel'.gen # sockets'
    BY <2>1 DEF GenerationsInv
  <2>3. QED
    BY <2>2 DEF TheLastFrameCounts
<1>8. ASSUME SendContext \/ \E page \in Pages : Navigate(page) PROVE TheLastFrameCounts'
  <2>1. /\ UNCHANGED <<queue, sockets, seen>>
        /\ panel'.up = panel.up /\ panel'.gen = panel.gen /\ panel'.values = panel.values
    BY <1>1, <1>8 DEF SendContext, Navigate, PanelFields
  <2>2. QED
    BY <2>1, LastFrameUnchanged
<1>9. ASSUME ConnectionLost \/ Restart PROVE TheLastFrameCounts'
  <2>1. ~panel'.up
    BY <1>1, <1>9 DEF ConnectionLost, Restart, OnClose, PanelFields
  <2>2. QED
    BY <2>1 DEF TheLastFrameCounts
<1>10. ASSUME DropClient \/ \E v \in Variables : Report(v) \/ Disable(v)
       PROVE  TheLastFrameCounts'
  <2>1. UNCHANGED <<panel, queue, sockets, seen>>
    BY <1>10 DEF DropClient, Report, Disable, panelSide
  <2>2. QED
    BY <1>2, <2>1
<1>11. CASE UNCHANGED vars
  BY <1>2, <1>11 DEF vars, panelSide
<1>12. QED
  BY <1>3, <1>4, <1>5, <1>6, <1>7, <1>8, <1>9, <1>10, <1>11 DEF Next, PanelStep, Environment

(* The store together with the queue says of every variable what the last  *)
(* frame about it said: flushPendingVarUpdates of useWebSocket.ts replaces *)
(* the values when a snapshot was queued and puts the others over them,    *)
(* later frames over earlier ones, and setVarMeta and removeVars, which do *)
(* not wait, take away only what the frame takes away.                     *)
THEOREM LastFrames == Spec => []TheLastFrameCounts
<1>1. Init => GenerationsInv /\ TheLastFrameCounts
  BY GenerationsInit, NoneValue DEF Init, TheLastFrameCounts
<1>2. GenerationsInv /\ TheLastFrameCounts /\ [Next]_vars =>
         GenerationsInv' /\ TheLastFrameCounts'
  BY GenerationsStep, LastFrameStep
<1>3. QED
  BY <1>1, <1>2, PTL DEF Spec

-----------------------------------------------------------------------------
(***************************************************************************)
(* Types.  What bounds the number of sockets is the number of failures: a  *)
(* socket is given up for one of them, or to load the page anew, once for  *)
(* every restart of the backend that the panel lives through.              *)
(***************************************************************************)
UpdateFrames == [type : {"var_update"}, values : Values]
KeyFrames == [type : {"var_metadata", "var_removed"}, keys : SUBSET Variables]
ReadyFrames == [type : {"context_ready"}, page : Pages, given : SUBSET Variables]
SnapshotFrames == [type : {"var_snapshot"}, boot : Nat \ {0}]
HubFrames == UpdateFrames \cup KeyFrames \cup ReadyFrames
GreetingFrames == UpdateFrames \cup [type : {"var_metadata"}, keys : SUBSET Variables]
Frames == HubFrames \cup SnapshotFrames
Contexts == [page : Pages, nr : Nat]
Servings == [phase : {"cached"}, page : Pages, nr : Nat, sent : SUBSET Variables]
Tasks ==
    [phase : {"reads", "sends", "ready"}, socket : Nat, page : Pages, nr : Nat,
     sent : SUBSET Variables, missing : SUBSET Variables, read : Values]
News == {"var_removed", "var_metadata"}

Hubs ==
    [boot : Nat \ {0}, enabled : SUBSET Variables, cache : Values, normal : Values,
     priority : Values, batches : Seq(Values), known : BOOLEAN,
     greeting : Seq(GreetingFrames), promoted : SUBSET Variables,
     serving : {NoTask} \cup Servings, prefetch : SUBSET Tasks, news : Seq(News)]

Panels ==
    [up : BOOLEAN, values : Stamped, keys : SUBSET Variables, gen : Nat, ready : AtMostOne,
     given : SUBSET Variables, page : Pages, owes : BOOLEAN, asked : AtMostOne, boot : Nat]

Queues ==
    [values : Stamped, snapshot : Nat, ready : AtMostOne, given : SUBSET Variables]

ControllerOK ==
    /\ events \in [all : 0..MaxEvents, faults : 0..MaxFaults]
    /\ plc \in [Variables -> 1..(events.all + 1)]

WireOK ==
    /\ wire \in Seq(Frames) /\ Len(wire) <= MaxWire
    /\ uplink \in Seq(Contexts)
    /\ \A i \in DOMAIN wire : wire[i].type = "var_snapshot" => wire[i].boot = hub.boot

LinkOK ==
    /\ hub.known => panel.up
    /\ panel.up => sockets # 0
    /\ ~panel.up => wire = <<>>

Opened ==
    sockets + (IF panel.up THEN 0 ELSE 1)
            + (IF panel.boot # 0 /\ panel.boot # hub.boot THEN 1 ELSE 0)

SocketsOK == sockets \in Nat /\ Opened <= 2 * events.faults + 1

PanelTypes ==
    /\ ControllerOK
    /\ hub \in Hubs
    /\ WireOK
    /\ LinkOK
    /\ panel \in Panels
    /\ queue \in Queues
    /\ seen \in Values
    /\ SocketsOK

(* Partial functions.                                                      *)
LEMMA ValuesMember ==
    ASSUME NEW f
    PROVE  f \in Values <=> DOMAIN f \subseteq Variables /\ f \in [DOMAIN f -> 1..MaxValue]
BY DEF Values

LEMMA StampedMember ==
    ASSUME NEW f
    PROVE  f \in Stamped <=> /\ DOMAIN f \subseteq Variables
                             /\ f \in [DOMAIN f -> (0..MaxValue) \X (1..MaxSockets)]
BY DEF Stamped

LEMMA NoneOK == None \in Values /\ None \in Stamped
<1>1. None = [v \in {} |-> 0] /\ DOMAIN None = {}
  BY DEF None
<1>2. \A S : None \in [{} -> S]
  BY <1>1
<1>3. QED
  BY <1>1, <1>2, ValuesMember, StampedMember

LEMMA OverOK ==
    ASSUME NEW new, NEW old
    PROVE  /\ new \in Values /\ old \in Values => Over(new, old) \in Values
           /\ new \in Stamped /\ old \in Stamped => Over(new, old) \in Stamped
<1>1. /\ DOMAIN Over(new, old) = DOMAIN new \cup DOMAIN old
      /\ \A S : new \in [DOMAIN new -> S] /\ old \in [DOMAIN old -> S]
                   => Over(new, old) \in [DOMAIN new \cup DOMAIN old -> S]
  BY DEF Over
<1>2. new \in Values /\ old \in Values => Over(new, old) \in Values
  BY <1>1, ValuesMember
<1>3. new \in Stamped /\ old \in Stamped => Over(new, old) \in Stamped
  BY <1>1, StampedMember
<1>4. QED
  BY <1>2, <1>3

LEMMA RestrictOK ==
    ASSUME NEW f, NEW S, S \subseteq DOMAIN f
    PROVE  /\ f \in Values => Restrict(f, S) \in Values
           /\ f \in Stamped => Restrict(f, S) \in Stamped
<1>1. /\ DOMAIN Restrict(f, S) = S
      /\ \A T : f \in [DOMAIN f -> T] => Restrict(f, S) \in [S -> T]
  BY DEF Restrict
<1>2. f \in Values => Restrict(f, S) \in Values
  BY <1>1, ValuesMember
<1>3. f \in Stamped => Restrict(f, S) \in Stamped
  BY <1>1, StampedMember
<1>4. QED
  BY <1>2, <1>3

LEMMA StampOK ==
    ASSUME NEW f \in Values, sockets \in 1..MaxSockets
    PROVE  Stamp(f) \in Stamped
<1>1. DOMAIN f \subseteq Variables /\ f \in [DOMAIN f -> 1..MaxValue]
  BY ValuesMember
<1>2. \A v \in DOMAIN f : <<f[v], sockets>> \in (0..MaxValue) \X (1..MaxSockets)
  <2>1. \A v \in DOMAIN f : f[v] \in 0..MaxValue
    <3>1. \A x \in 1..MaxValue : x \in 0..MaxValue
      OBVIOUS
    <3>2. QED
      BY <1>1, <3>1
  <2>2. QED
    BY <2>1
<1>3. /\ DOMAIN Stamp(f) = DOMAIN f
      /\ Stamp(f) \in [DOMAIN f -> (0..MaxValue) \X (1..MaxSockets)]
  BY <1>2 DEF Stamp
<1>4. QED
  BY <1>1, <1>3, StampedMember

(* A value of the controller.                                              *)
LEMMA SingleOK ==
    ASSUME NEW v \in Variables, NEW x \in 1..MaxValue
    PROVE  [w \in {v} |-> x] \in Values
BY ValuesMember

(* The chunks of what the hub holds, in some order.                        *)
LEMMA ChunksOK ==
    ASSUME NEW values \in Values
    PROVE  Chunks(values) \in Seq(GreetingFrames)
<1> DEFINE S == DOMAIN values
<1>1. S \subseteq Variables /\ values \in [S -> 1..MaxValue]
  BY ValuesMember
<1>2. IsFiniteSet(S)
  BY <1>1, PagesAssumption, FS_Subset
<1>3. Cardinality(S) \in Nat /\ ExistsBijection(1..Cardinality(S), S)
  BY <1>2, FS_CardinalityType
<1>4. \E f \in [1..Cardinality(S) -> S] : IsInjective(f)
  <2>1. PICK f \in Bijection(1..Cardinality(S), S) : TRUE
    BY <1>3 DEF ExistsBijection
  <2>2. f \in [1..Cardinality(S) -> S] /\ IsInjective(f)
    BY <2>1 DEF Bijection, Injection, IsInjective
  <2>3. QED
    BY <2>2
<1>5. SetToSeq(S) \in [1..Cardinality(S) -> S]
  BY <1>4 DEF SetToSeq
<1> DEFINE order == SetToSeq(S)
           chunk(i) == Update([v \in {order[i]} |-> values[order[i]]])
<1>6. order \in Seq(S) /\ Len(order) \in Nat
  BY <1>3, <1>5
<1>7. ASSUME NEW i \in 1..Len(order)
      PROVE  chunk(i) \in GreetingFrames
  <2>1. order[i] \in S
    BY <1>6, <1>7
  <2>2. [v \in {order[i]} |-> values[order[i]]] \in Values
    BY <1>1, <2>1, SingleOK
  <2>3. QED
    BY <2>2 DEF Update, GreetingFrames, UpdateFrames
<1>8. Chunks(values) = [i \in 1..Len(order) |-> chunk(i)]
  BY DEF Chunks
<1> HIDE DEF order, chunk
<1>9. QED
  BY <1>6, <1>7, <1>8

LEMMA SendOK ==
    ASSUME PanelTypes, CanSend, NEW frame \in HubFrames,
           wire' = wire \/ wire' = Send(frame), UNCHANGED uplink, hub'.boot = hub.boot
    PROVE  WireOK' /\ (hub.known \/ wire' = wire)
<1>1. wire \in Seq(Frames) /\ Len(wire) <= MaxWire /\ Len(wire) \in Nat /\ MaxWire \in Nat
  BY BoundsAssumption DEF PanelTypes, WireOK
<1>2. CASE wire' = wire
  BY <1>2 DEF PanelTypes, WireOK
<1>3. CASE hub.known /\ wire' = Append(wire, frame)
  <2>1. Len(wire) < MaxWire /\ frame \in Frames /\ frame.type # "var_snapshot"
    BY <1>3 DEF CanSend, Room, HubFrames, Frames, UpdateFrames, KeyFrames, ReadyFrames
  <2>2. wire' \in Seq(Frames) /\ Len(wire') <= MaxWire
    BY <1>1, <1>3, <2>1
  <2>3. \A i \in DOMAIN wire' :
           \/ i \in DOMAIN wire /\ wire'[i] = wire[i]
           \/ wire'[i] = frame
    BY <1>1, <1>3, <2>1
  <2>4. QED
    BY <1>3, <2>1, <2>2, <2>3 DEF PanelTypes, WireOK
<1>4. QED
  BY <1>2, <1>3 DEF Send

LEMMA TypesInit == Init => PanelTypes
<1> SUFFICES ASSUME Init PROVE PanelTypes
  OBVIOUS
<1>1. PICK page \in Pages : panel = FreshPanel(page)
  BY DEF Init
<1>2. /\ plc = [v \in Variables |-> 1] /\ hub = FreshHub(1) /\ wire = <<>> /\ uplink = <<>>
      /\ queue = EmptyQueue /\ seen = None /\ sockets = 0
      /\ events = [all |-> 0, faults |-> 0]
  BY DEF Init
<1>3. ControllerOK
  BY <1>2, BoundsAssumption DEF ControllerOK
<1>4. hub \in Hubs
  BY <1>2, NoneOK DEF FreshHub, Hubs
<1>5. WireOK
  BY <1>2, BoundsAssumption DEF WireOK
<1>6. panel \in Panels
  BY <1>1, NoneOK DEF FreshPanel, Panels, AtMostOne
<1>7. queue \in Queues
  BY <1>2, NoneOK DEF EmptyQueue, Queues, AtMostOne
<1>8. LinkOK
  BY <1>1, <1>2 DEF LinkOK, FreshHub, FreshPanel
<1>9. SocketsOK
  BY <1>1, <1>2 DEF SocketsOK, Opened, FreshPanel
<1>10. QED
  BY <1>2, <1>3, <1>4, <1>5, <1>6, <1>7, <1>8, <1>9, NoneOK DEF PanelTypes

LEMMA FreshPanelOK == ASSUME NEW page \in Pages PROVE FreshPanel(page) \in Panels
BY NoneOK DEF FreshPanel, Panels, AtMostOne

LEMMA EmptyQueueOK == EmptyQueue \in Queues
BY NoneOK DEF EmptyQueue, Queues, AtMostOne

(* Of the bounds, an event counts one.                                     *)
LEMMA EventOK ==
    ASSUME PanelTypes, Counted \/ Fault
    PROVE  /\ events' \in [all : 0..MaxEvents, faults : 0..MaxFaults]
           /\ events'.all = events.all + 1 /\ events.all + 1 \in 1..MaxEvents
           /\ Counted => events'.faults = events.faults
           /\ Fault => events'.faults = events.faults + 1
<1>1. /\ events \in [all : 0..MaxEvents, faults : 0..MaxFaults]
      /\ MaxEvents \in Nat /\ MaxFaults \in Nat
  BY BoundsAssumption DEF PanelTypes, ControllerOK
<1>2. CASE Counted
  BY <1>1, <1>2 DEF Counted, Fault
<1>3. CASE Fault
  BY <1>1, <1>3 DEF Counted, Fault
<1>4. QED
  BY <1>2, <1>3

LEMMA ControllerSame ==
    ASSUME PanelTypes, UNCHANGED plc, UNCHANGED events \/ Counted \/ Fault
    PROVE  ControllerOK'
<1>1. /\ events \in [all : 0..MaxEvents, faults : 0..MaxFaults]
      /\ plc \in [Variables -> 1..(events.all + 1)]
  BY DEF PanelTypes, ControllerOK
<1>2. CASE UNCHANGED events
  BY <1>1, <1>2 DEF ControllerOK
<1>3. CASE Counted \/ Fault
  <2>1. /\ events' \in [all : 0..MaxEvents, faults : 0..MaxFaults]
        /\ events'.all = events.all + 1
    BY <1>3, EventOK
  <2>2. \A x \in 1..(events.all + 1) : x \in 1..(events'.all + 1)
    BY <1>1, <2>1
  <2>3. plc' \in [Variables -> 1..(events'.all + 1)]
    BY <1>1, <2>2
  <2>4. QED
    BY <2>1, <2>3 DEF ControllerOK
<1>4. QED
  BY <1>2, <1>3

LEMMA PlcValues ==
    ASSUME PanelTypes
    PROVE  \A v \in Variables : plc[v] \in 1..MaxValue
<1>1. /\ events.all \in 0..MaxEvents /\ MaxEvents \in Nat
      /\ plc \in [Variables -> 1..(events.all + 1)]
  BY BoundsAssumption DEF PanelTypes, ControllerOK
<1>2. \A x \in 1..(events.all + 1) : x \in 1..MaxValue
  BY <1>1 DEF MaxValue
<1>3. QED
  BY <1>1, <1>2

(* How many sockets there were, if no socket is opened or given up and no  *)
(* backend restarted.                                                      *)
LEMMA SocketsSame ==
    ASSUME PanelTypes, events'.faults \in Nat,
           UNCHANGED sockets, panel'.up = panel.up, panel'.boot = panel.boot,
           hub'.boot = hub.boot, events'.faults >= events.faults
    PROVE  SocketsOK'
<1>1. /\ sockets \in Nat /\ Opened <= 2 * events.faults + 1
      /\ events.faults \in Nat /\ events'.faults \in Nat
  <2>1. events.faults \in 0..MaxFaults /\ MaxFaults \in Nat
    BY BoundsAssumption DEF PanelTypes, ControllerOK
  <2>2. QED
    BY <2>1 DEF PanelTypes, SocketsOK
<1>2. Opened' = Opened /\ Opened \in Nat
  BY <1>1 DEF Opened
<1>3. QED
  BY <1>1, <1>2 DEF SocketsOK

(* Steps of the hub that leave the panel alone.                            *)
LEMMA HubOnly ==
    ASSUME PanelTypes, UNCHANGED <<plc, panel, queue, seen, sockets>>,
           UNCHANGED events \/ Counted \/ Fault,
           hub' \in Hubs, hub'.boot = hub.boot, hub'.known => hub.known, WireOK',
           hub.known \/ wire' = wire
    PROVE  PanelTypes'
<1>1. ControllerOK'
  BY ControllerSame
<1>2. events'.faults \in Nat /\ events'.faults >= events.faults
  <2>1. events.faults \in 0..MaxFaults /\ MaxFaults \in Nat
    BY BoundsAssumption DEF PanelTypes, ControllerOK
  <2>2. UNCHANGED events \/ events'.faults = events.faults \/ events'.faults = events.faults + 1
    BY EventOK
  <2>3. QED
    BY <2>1, <2>2
<1>3. SocketsOK'
  BY <1>2, SocketsSame
<1>4. LinkOK'
  BY DEF PanelTypes, LinkOK
<1>5. QED
  BY <1>1, <1>3, <1>4 DEF PanelTypes

LEMMA WireSame ==
    ASSUME PanelTypes, UNCHANGED <<wire, uplink>>, hub'.boot = hub.boot
    PROVE  WireOK'
BY DEF PanelTypes, WireOK

LEMMA HubFields ==
    ASSUME PanelTypes
    PROVE  /\ hub \in Hubs /\ hub.boot \in Nat \ {0} /\ hub.enabled \subseteq Variables
           /\ hub.cache \in Values /\ hub.normal \in Values /\ hub.priority \in Values
           /\ hub.batches \in Seq(Values) /\ hub.known \in BOOLEAN
           /\ hub.greeting \in Seq(GreetingFrames) /\ hub.promoted \subseteq Variables
           /\ hub.serving \in {NoTask} \cup Servings /\ hub.prefetch \subseteq Tasks
           /\ hub.news \in Seq(News)
BY DEF PanelTypes, Hubs

LEMMA GreetingSent == GreetingFrames \subseteq HubFrames
BY DEF GreetingFrames, HubFrames, KeyFrames

LEMMA TypesReport ==
    ASSUME PanelTypes, NEW v \in Variables, Report(v)
    PROVE  PanelTypes'
<1>1. /\ Counted /\ UNCHANGED <<wire, panelSide, late>>
      /\ plc' = [plc EXCEPT ![v] = @ + IF v \in DOMAIN hub.cache THEN 1 ELSE 0]
      /\ hub' = Enqueue(v, plc'[v], v \in hub.promoted)
  BY DEF Report
<1>2. /\ events.all \in Nat /\ plc \in [Variables -> 1..(events.all + 1)]
      /\ events'.all = events.all + 1 /\ events.all + 1 \in 1..MaxEvents
      /\ events' \in [all : 0..MaxEvents, faults : 0..MaxFaults] /\ MaxEvents \in Nat
      /\ events'.faults = events.faults
  <2>1. events.all \in 0..MaxEvents /\ MaxEvents \in Nat
    BY BoundsAssumption DEF PanelTypes, ControllerOK
  <2>2. QED
    BY <1>1, <2>1, EventOK DEF PanelTypes, ControllerOK
<1>3. plc' \in [Variables -> 1..(events'.all + 1)]
  <2>1. \A x \in 1..(events.all + 1) : x \in 1..(events.all + 2) /\ x + 1 \in 1..(events.all + 2)
    BY <1>2
  <2>2. PICK x \in {plc[v], plc[v] + 1} : plc' = [plc EXCEPT ![v] = x]
    <3>1. plc[v] + 0 = plc[v]
      BY <1>2
    <3>2. QED
      BY <1>1, <3>1
  <2>3. plc' \in [Variables -> 1..(events.all + 2)]
    BY <1>2, <2>1, <2>2
  <2>4. events'.all + 1 = events.all + 2
    BY <1>2
  <2>5. QED
    BY <2>3, <2>4
<1>4. plc'[v] \in 1..MaxValue
  <2>1. plc'[v] \in 1..(events'.all + 1)
    BY <1>3
  <2>2. QED
    BY <1>2, <2>1 DEF MaxValue
<1> DEFINE one == [w \in {v} |-> plc'[v]]
<1>5. one \in Values
  BY <1>4, SingleOK
<1>6. hub' \in Hubs /\ hub'.boot = hub.boot /\ hub'.known = hub.known
  <2>1. Over(one, hub.cache) \in Values /\ Over(one, hub.priority) \in Values
        /\ Over(one, hub.normal) \in Values
    BY <1>5, HubFields, OverOK
  <2>2. \/ hub' = [hub EXCEPT !.cache = Over(one, hub.cache),
                              !.priority = Over(one, hub.priority)]
        \/ hub' = [hub EXCEPT !.cache = Over(one, hub.cache),
                              !.normal = Over(one, hub.normal)]
    BY <1>1 DEF Enqueue
  <2> HIDE DEF one
  <2>3. QED
    BY <2>1, <2>2, HubFields DEF Hubs
<1>7. WireOK'
  BY <1>1, <1>6, WireSame DEF panelSide
<1>8. SocketsOK' /\ LinkOK'
  <2>1. events'.faults \in Nat /\ events'.faults >= events.faults
    BY <1>2, BoundsAssumption
  <2>2. QED
    BY <1>1, <1>6, <2>1, SocketsSame DEF panelSide, PanelTypes, LinkOK
<1>9. QED
  BY <1>1, <1>2, <1>3, <1>6, <1>7, <1>8 DEF PanelTypes, ControllerOK, panelSide

LEMMA TypesBroadcast ==
    ASSUME PanelTypes, Broadcast
    PROVE  PanelTypes'
<1>1. PICK isDue \in [{"priority", "normal"} -> BOOLEAN] :
        LET fast == IF isDue["priority"] THEN hub.priority ELSE None
            slow == IF isDue["normal"] THEN hub.normal ELSE None
            due == hub.batches \o NonEmpty(fast) \o NonEmpty(slow)
        IN  /\ due # <<>>
            /\ hub.batches # <<>> => fast = None /\ slow = None
            /\ wire' = Send(Update(Head(due)))
            /\ hub' = [hub EXCEPT
                  !.priority = IF fast = None THEN @ ELSE None,
                  !.normal = IF slow = None THEN @ ELSE None,
                  !.batches = Tail(due)]
  BY DEF Broadcast
<1> DEFINE fast == IF isDue["priority"] THEN hub.priority ELSE None
           slow == IF isDue["normal"] THEN hub.normal ELSE None
           due == hub.batches \o NonEmpty(fast) \o NonEmpty(slow)
           p == IF fast = None THEN hub.priority ELSE None
           n == IF slow = None THEN hub.normal ELSE None
<1>2. /\ due # <<>> /\ wire' = Send(Update(Head(due)))
      /\ hub' = [hub EXCEPT !.priority = p, !.normal = n, !.batches = Tail(due)]
      /\ CanSend /\ UNCHANGED <<plc, panelSide, late, events>>
  BY <1>1 DEF Broadcast
<1>3. fast \in Values /\ slow \in Values /\ p \in Values /\ n \in Values
  BY HubFields, NoneOK
<1>4. due \in Seq(Values)
  <2>1. NonEmpty(fast) \in Seq(Values) /\ NonEmpty(slow) \in Seq(Values)
    BY <1>3 DEF NonEmpty
  <2> HIDE DEF fast, slow
  <2>2. QED
    BY <2>1, HubFields
<1> HIDE DEF due, p, n, fast, slow
<1>5. Head(due) \in Values /\ Tail(due) \in Seq(Values)
  BY <1>2, <1>4
<1>6. hub' \in Hubs /\ hub'.boot = hub.boot /\ hub'.known = hub.known
  BY <1>2, <1>3, <1>5, HubFields DEF Hubs
<1>7. Update(Head(due)) \in HubFrames
  BY <1>5 DEF Update, HubFrames, UpdateFrames
<1>8. WireOK' /\ (hub.known \/ wire' = wire)
  BY <1>2, <1>6, <1>7, SendOK DEF panelSide
<1>9. QED
  BY <1>2, <1>6, <1>8, HubOnly DEF panelSide

LEMMA TypesNews ==
    ASSUME PanelTypes, SendNews
    PROVE  PanelTypes'
<1> DEFINE frame == IF Head(hub.news) = "var_metadata" THEN Metadata
                    ELSE [type |-> "var_removed", keys |-> Variables \ hub.enabled]
<1>1. /\ wire' = Send(frame) /\ hub' = [hub EXCEPT !.news = Tail(hub.news)]
      /\ hub.news # <<>> /\ CanSend /\ UNCHANGED <<plc, panelSide, late, events>>
  BY DEF SendNews
<1>2. frame \in HubFrames
  BY HubFields DEF Metadata, HubFrames, KeyFrames
<1> HIDE DEF frame
<1>3. hub' \in Hubs /\ hub'.boot = hub.boot /\ hub'.known = hub.known
  <2>1. Tail(hub.news) \in Seq(News)
    BY <1>1, HubFields
  <2>2. QED
    BY <1>1, <2>1, HubFields DEF Hubs
<1>4. WireOK' /\ (hub.known \/ wire' = wire)
  BY <1>1, <1>2, <1>3, SendOK DEF panelSide
<1>5. QED
  BY <1>1, <1>3, <1>4, HubOnly DEF panelSide

LEMMA TypesGreet ==
    ASSUME PanelTypes, Greet
    PROVE  PanelTypes'
<1>1. hub.greeting # <<>> /\ CanSend /\ UNCHANGED <<plc, panelSide, late, events>>
  BY DEF Greet
<1>2. CASE /\ wire' = Send(Metadata)
           /\ hub' = [hub EXCEPT !.greeting =
                 Chunks(Restrict(hub.cache, DOMAIN hub.cache \cap hub.enabled))]
  <2>1. Chunks(Restrict(hub.cache, DOMAIN hub.cache \cap hub.enabled)) \in Seq(GreetingFrames)
    <3>1. Restrict(hub.cache, DOMAIN hub.cache \cap hub.enabled) \in Values
      BY HubFields, RestrictOK
    <3>2. QED
      BY <3>1, ChunksOK
  <2>2. hub' \in Hubs /\ hub'.boot = hub.boot /\ hub'.known = hub.known
    BY <1>2, <2>1, HubFields DEF Hubs
  <2>3. Metadata \in HubFrames
    BY HubFields DEF Metadata, HubFrames, KeyFrames
  <2>4. WireOK' /\ (hub.known \/ wire' = wire)
    BY <1>1, <1>2, <2>2, <2>3, SendOK DEF panelSide
  <2>5. QED
    BY <1>1, <2>2, <2>4, HubOnly DEF panelSide
<1>3. CASE /\ wire' = Send(Head(hub.greeting))
           /\ hub' = [hub EXCEPT !.greeting = Tail(hub.greeting)]
  <2>1. Head(hub.greeting) \in GreetingFrames /\ Tail(hub.greeting) \in Seq(GreetingFrames)
    BY <1>1, HubFields
  <2>5. Head(hub.greeting) \in HubFrames
    BY <2>1, GreetingSent
  <2>2. hub' \in Hubs /\ hub'.boot = hub.boot /\ hub'.known = hub.known
    BY <1>3, <2>1, HubFields DEF Hubs
  <2>3. WireOK' /\ (hub.known \/ wire' = wire)
    BY <1>1, <1>3, <2>5, <2>2, SendOK DEF panelSide
  <2>4. QED
    BY <1>1, <2>2, <2>3, HubOnly DEF panelSide
<1>4. QED
  BY <1>2, <1>3 DEF Greet

LEMMA PageBound == ASSUME NEW page \in Pages PROVE Bound[page] \subseteq Variables
BY PagesAssumption

LEMMA CachedForOK ==
    ASSUME PanelTypes, NEW keys
    PROVE  CachedFor(keys) \in Values
<1>1. hub.cache \in Values
  BY HubFields
<1>2. Restrict(hub.cache, keys \cap DOMAIN hub.cache) \in Values
  BY <1>1, RestrictOK
<1>3. QED
  BY <1>2, NoneOK DEF CachedFor

LEMMA TypesHandle ==
    ASSUME PanelTypes, HandleContext
    PROVE  PanelTypes'
<1> DEFINE page == Head(uplink).page
           cached == CachedFor(Bound[page])
           serving == [phase |-> "cached", page |-> page, nr |-> Head(uplink).nr,
                       sent |-> DOMAIN cached]
<1>1. /\ wire' = wire \/ wire' = Send(Update(cached))
      /\ hub' = [hub EXCEPT !.serving = serving]
      /\ uplink # <<>> /\ CanSend /\ uplink' = Tail(uplink)
      /\ UNCHANGED <<plc, panel, queue, seen, sockets, late, events>>
  BY DEF HandleContext, Listens
<1>2. uplink \in Seq(Contexts)
  BY DEF PanelTypes, WireOK
<1>3. Head(uplink) \in Contexts /\ Tail(uplink) \in Seq(Contexts)
  BY <1>1, <1>2
<1>4. page \in Pages /\ Head(uplink).nr \in Nat
  BY <1>3 DEF Contexts
<1> HIDE DEF page
<1>5. cached \in Values
  BY CachedForOK
<1>6. DOMAIN cached \subseteq Variables
  BY <1>5, ValuesMember
<1> HIDE DEF cached
<1>7. serving \in Servings
  BY <1>4, <1>6 DEF Servings
<1> HIDE DEF serving
<1>8. hub' \in Hubs /\ hub'.boot = hub.boot /\ hub'.known = hub.known
  BY <1>1, <1>7, HubFields DEF Hubs
<1>9. WireOK' /\ (hub.known \/ wire' = wire)
  <2>1. Update(cached) \in HubFrames
    BY <1>5 DEF Update, HubFrames, UpdateFrames
  <2>2. wire \in Seq(Frames) /\ Len(wire) <= MaxWire /\ Len(wire) \in Nat /\ MaxWire \in Nat
    BY BoundsAssumption DEF PanelTypes, WireOK
  <2>3. CASE wire' = wire
    BY <1>1, <1>3, <1>8, <2>3 DEF PanelTypes, WireOK
  <2>4. CASE hub.known /\ wire' = Append(wire, Update(cached))
    <3>1. /\ Len(wire) < MaxWire /\ Update(cached) \in Frames
          /\ Update(cached).type # "var_snapshot"
      BY <1>1, <2>1, <2>4 DEF CanSend, Room, Frames, Update
    <3>2. wire' \in Seq(Frames) /\ Len(wire') <= MaxWire
      BY <2>2, <2>4, <3>1
    <3>3. \A i \in DOMAIN wire' :
             \/ i \in DOMAIN wire /\ wire'[i] = wire[i]
             \/ wire'[i] = Update(cached)
      BY <2>2, <2>4, <3>1
    <3>4. QED
      BY <1>1, <1>3, <1>8, <2>4, <3>1, <3>2, <3>3 DEF PanelTypes, WireOK
  <2>5. QED
    BY <1>1, <2>3, <2>4 DEF Send
<1>10. QED
  BY <1>1, <1>8, <1>9, HubOnly

LEMMA TypesApplied ==
    ASSUME PanelTypes, ContextApplied
    PROVE  PanelTypes'
<1> DEFINE task == hub.serving
           missing == Bound[task.page] \ task.sent
           done == [hub EXCEPT !.serving = NoTask, !.promoted = Bound[task.page]]
           read == [phase |-> "reads", socket |-> sockets, page |-> task.page,
                    nr |-> task.nr, sent |-> task.sent, missing |-> missing, read |-> None]
<1>1. /\ hub.serving # NoTask /\ CanSend /\ UNCHANGED <<plc, panelSide, late, events>>
      /\ \/ wire' = Send(Ready(task, task.sent)) /\ hub' = done
         \/ wire' = wire /\ hub' = [done EXCEPT !.prefetch = @ \cup {read}]
  BY DEF ContextApplied
<1>2. task \in Servings
  BY <1>1, HubFields
<1>3. task.page \in Pages /\ task.nr \in Nat /\ task.sent \subseteq Variables
  BY <1>2 DEF Servings
<1>4. Bound[task.page] \subseteq Variables
  BY <1>3, PageBound
<1>5. Ready(task, task.sent) \in HubFrames
  BY <1>3 DEF Ready, HubFrames, ReadyFrames
<1>6. read \in Tasks
  <2>1. sockets \in Nat
    BY DEF PanelTypes, SocketsOK
  <2>2. QED
    BY <1>3, <1>4, <2>1, NoneOK DEF Tasks
<1> HIDE DEF read, task, missing
<1>7. done \in Hubs /\ done.boot = hub.boot /\ done.known = hub.known
      /\ done.prefetch = hub.prefetch
  BY <1>4, HubFields DEF Hubs, task
<1> HIDE DEF done
<1>8. hub' \in Hubs /\ hub'.boot = hub.boot /\ hub'.known = hub.known
  <2>1. CASE hub' = done
    BY <1>7, <2>1
  <2>2. CASE hub' = [done EXCEPT !.prefetch = @ \cup {read}]
    <3>1. done.prefetch \cup {read} \in SUBSET Tasks
      BY <1>6, <1>7, HubFields
    <3>2. QED
      BY <1>7, <2>2, <3>1 DEF Hubs
  <2>3. QED
    BY <1>1, <2>1, <2>2
<1>9. WireOK' /\ (hub.known \/ wire' = wire)
  BY <1>1, <1>5, <1>8, SendOK DEF panelSide
<1>10. QED
  BY <1>1, <1>8, <1>9, HubOnly DEF panelSide

LEMMA TypesTask ==
    ASSUME PanelTypes, TaskStep
    PROVE  PanelTypes'
<1>1. PICK task \in hub.prefetch : Prefetched(task) \/ SendUncached(task) \/ SendReady(task)
  BY DEF TaskStep
<1>2. /\ task \in Tasks /\ task.page \in Pages /\ task.sent \subseteq Variables
      /\ task.missing \subseteq Variables /\ task.read \in Values
  <2>1. task \in Tasks
    BY <1>1, HubFields
  <2>2. QED
    BY <2>1 DEF Tasks
<1>3. UNCHANGED <<plc, panelSide, late, events>>
  BY <1>1 DEF Prefetched, SendUncached, SendReady
<1>4. CASE Prefetched(task)
  <2>1. PICK got \in {{}, task.missing \cap hub.enabled} :
          hub' = [hub EXCEPT !.prefetch = (@ \ {task}) \cup
                    {[task EXCEPT !.phase = "sends", !.read = [v \in got |-> plc[v]]]}]
    BY <1>4 DEF Prefetched
  <2>2. got \subseteq Variables
    BY <1>2, <2>1
  <2> DEFINE values == [v \in got |-> plc[v]]
             new == [task EXCEPT !.phase = "sends", !.read = values]
  <2>3. values \in Values
    <3>1. DOMAIN values = got /\ values \in [got -> 1..MaxValue]
      BY <2>2, PlcValues
    <3>2. QED
      BY <2>2, <3>1, ValuesMember
  <2> HIDE DEF values
  <2>4. new \in Tasks
    BY <1>2, <2>3 DEF Tasks
  <2>5. hub' = [hub EXCEPT !.prefetch = (@ \ {task}) \cup {new}]
    BY <2>1 DEF values
  <2> HIDE DEF new
  <2>6. hub' \in Hubs /\ hub'.boot = hub.boot /\ hub'.known = hub.known
    BY <2>4, <2>5, HubFields DEF Hubs
  <2>7. wire' = wire
    BY <1>4 DEF Prefetched
  <2>8. QED
    BY <1>3, <2>6, <2>7, WireSame, HubOnly DEF panelSide
<1>5. CASE SendUncached(task)
  <2> DEFINE new == [task EXCEPT !.phase = "ready"]
  <2>1. /\ CanSend
        /\ wire' = wire \/ wire' = Send(Update(task.read))
        /\ hub' = [hub EXCEPT !.cache = Over(task.read, @),
                              !.prefetch = (@ \ {task}) \cup {new}]
    BY <1>5 DEF SendUncached, ToAsker
  <2>2. new \in Tasks /\ Over(task.read, hub.cache) \in Values
    BY <1>2, HubFields, OverOK DEF Tasks
  <2> HIDE DEF new
  <2>3. hub' \in Hubs /\ hub'.boot = hub.boot /\ hub'.known = hub.known
    BY <2>1, <2>2, HubFields DEF Hubs
  <2>4. Update(task.read) \in HubFrames
    BY <1>2 DEF Update, HubFrames, UpdateFrames
  <2>5. WireOK' /\ (hub.known \/ wire' = wire)
    BY <1>3, <2>1, <2>3, <2>4, SendOK DEF panelSide
  <2>6. QED
    BY <1>3, <2>3, <2>5, HubOnly DEF panelSide
<1>6. CASE SendReady(task)
  <2> DEFINE given == task.sent \cup DOMAIN task.read
  <2>1. /\ CanSend
        /\ wire' = wire \/ wire' = Send(Ready(task, given))
        /\ hub' = [hub EXCEPT !.prefetch = @ \ {task}]
    BY <1>6 DEF SendReady, ToAsker
  <2>2. given \subseteq Variables
    BY <1>2, ValuesMember
  <2> HIDE DEF given
  <2>3. Ready(task, given) \in HubFrames
    BY <1>2, <2>2 DEF Ready, HubFrames, ReadyFrames
  <2>4. hub' \in Hubs /\ hub'.boot = hub.boot /\ hub'.known = hub.known
    BY <2>1, HubFields DEF Hubs
  <2>5. WireOK' /\ (hub.known \/ wire' = wire)
    BY <1>3, <2>1, <2>3, <2>4, SendOK DEF panelSide
  <2>6. QED
    BY <1>3, <2>4, <2>5, HubOnly DEF panelSide
<1>7. QED
  BY <1>1, <1>4, <1>5, <1>6

LEMMA TypesHubEvents ==
    ASSUME PanelTypes, DropClient \/ \E v \in Variables : Disable(v)
    PROVE  PanelTypes'
<1>1. CASE DropClient
  <2>1. /\ Fault /\ hub' = [hub EXCEPT !.known = FALSE]
        /\ UNCHANGED <<plc, wire, panelSide, late>>
    BY <1>1 DEF DropClient
  <2>2. hub' \in Hubs /\ hub'.boot = hub.boot /\ ~hub'.known
    BY <2>1, HubFields DEF Hubs
  <2>3. QED
    BY <2>1, <2>2, WireSame, HubOnly DEF panelSide
<1>2. ASSUME NEW v \in Variables, Disable(v) PROVE PanelTypes'
  <2> DEFINE cache == Restrict(hub.cache, DOMAIN hub.cache \ {v})
             news == <<"var_removed", "var_metadata">>
  <2>1. /\ Counted
        /\ hub' = [hub EXCEPT !.enabled = @ \ {v}, !.cache = cache, !.news = news]
        /\ UNCHANGED <<plc, wire, panelSide, late>>
    BY <1>2 DEF Disable
  <2>2. cache \in Values /\ news \in Seq(News)
    BY HubFields, RestrictOK DEF News
  <2> HIDE DEF cache, news
  <2>3. hub' \in Hubs /\ hub'.boot = hub.boot /\ hub'.known = hub.known
    BY <2>1, <2>2, HubFields DEF Hubs
  <2>4. QED
    BY <2>1, <2>3, WireSame, HubOnly DEF panelSide
<1>3. QED
  BY <1>1, <1>2

-----------------------------------------------------------------------------
(* Steps of the panel.                                                     *)

LEMMA PanelFieldsOK ==
    ASSUME PanelTypes
    PROVE  /\ panel \in Panels /\ panel.up \in BOOLEAN /\ panel.values \in Stamped
           /\ panel.keys \subseteq Variables /\ panel.gen \in Nat /\ panel.ready \in AtMostOne
           /\ panel.given \subseteq Variables /\ panel.page \in Pages
           /\ panel.owes \in BOOLEAN /\ panel.asked \in AtMostOne /\ panel.boot \in Nat
           /\ queue \in Queues /\ queue.values \in Stamped /\ queue.snapshot \in Nat
           /\ queue.ready \in AtMostOne /\ queue.given \subseteq Variables
BY DEF PanelTypes, Panels, Queues

LEMMA FaultsOK ==
    ASSUME PanelTypes
    PROVE  /\ sockets \in Nat /\ events.faults \in 0..MaxFaults /\ MaxFaults \in Nat
           /\ hub.boot \in Nat \ {0} /\ panel.boot \in Nat
           /\ Opened <= 2 * events.faults + 1 /\ Opened \in Nat
<1>1. /\ sockets \in Nat /\ events.faults \in 0..MaxFaults /\ MaxFaults \in Nat
      /\ Opened <= 2 * events.faults + 1
  BY BoundsAssumption DEF PanelTypes, ControllerOK, SocketsOK
<1>2. Opened \in Nat
  BY <1>1 DEF Opened
<1>3. QED
  BY <1>1, <1>2, HubFields, PanelFieldsOK

LEMMA SocketsBounded ==
    ASSUME PanelTypes
    PROVE  sockets <= 2 * MaxFaults + 1 /\ (~panel.up => sockets <= 2 * MaxFaults)
BY FaultsOK DEF Opened

LEMMA TypesFlush ==
    ASSUME PanelTypes, Flush
    PROVE  PanelTypes'
<1> DEFINE gen == IF queue.snapshot = 0 THEN panel.gen ELSE queue.snapshot
           ready == IF queue.ready = {} THEN panel.ready ELSE queue.ready
           given == IF queue.ready = {} THEN panel.given ELSE queue.given
<1>1. /\ panel' = [panel EXCEPT !.values = ReplaceOrApply, !.gen = gen, !.ready = ready,
                                !.given = given]
      /\ queue' = EmptyQueue
      /\ UNCHANGED <<plc, hub, wire, uplink, seen, sockets, late, events>>
  BY DEF Flush
<1>2. /\ ReplaceOrApply \in Stamped /\ gen \in Nat /\ ready \in AtMostOne
      /\ given \subseteq Variables
  BY PanelFieldsOK, OverOK DEF ReplaceOrApply
<1> HIDE DEF gen, ready, given
<1>3. panel' \in Panels /\ panel'.up = panel.up /\ panel'.boot = panel.boot
  BY <1>1, <1>2, PanelFieldsOK DEF Panels
<1>4. SocketsOK' /\ LinkOK' /\ WireOK' /\ ControllerOK'
  BY <1>1, <1>3 DEF PanelTypes, SocketsOK, Opened, LinkOK, WireOK, ControllerOK
<1>5. QED
  BY <1>1, <1>3, <1>4, EmptyQueueOK DEF PanelTypes

LEMMA TypesReceive ==
    ASSUME PanelTypes, Receive
    PROVE  PanelTypes'
<1> DEFINE frame == Head(wire)
<1>1. /\ panel.up /\ wire # <<>> /\ wire' = Tail(wire)
      /\ UNCHANGED <<plc, hub, uplink, sockets, late, events>>
  BY DEF Receive
<1>2. wire \in Seq(Frames) /\ Len(wire) <= MaxWire /\ MaxWire \in Nat
  BY BoundsAssumption DEF PanelTypes, WireOK
<1>3. frame \in Frames /\ frame = wire[1] /\ 1 \in DOMAIN wire
  BY <1>1, <1>2
<1>4. WireOK'
  <2>1. wire' \in Seq(Frames) /\ Len(wire') <= MaxWire
    BY <1>1, <1>2
  <2>2. \A i \in DOMAIN wire' : i + 1 \in DOMAIN wire /\ wire'[i] = wire[i + 1]
    BY <1>1, <1>2
  <2>3. QED
    BY <1>1, <2>1, <2>2 DEF PanelTypes, WireOK
<1>5. seen \in Values
  BY DEF PanelTypes
<1>6. /\ panel' \in Panels /\ panel'.up = panel.up
      /\ panel'.boot = panel.boot \/ panel'.boot = hub.boot
      /\ queue' \in Queues /\ seen' \in Values
  <2>1. CASE /\ frame.type = "var_snapshot"
             /\ queue' = EnqueueSnapshot
             /\ panel' = [panel EXCEPT !.boot = frame.boot]
             /\ seen' = None
    <3>1. frame.boot = hub.boot
      BY <1>3, <2>1 DEF PanelTypes, WireOK
    <3>2. queue' \in Queues
      BY <2>1, FaultsOK, PanelFieldsOK, NoneOK DEF EnqueueSnapshot, Queues
    <3>3. QED
      BY <2>1, <3>1, <3>2, PanelFieldsOK, HubFields, NoneOK DEF Panels
  <2>2. CASE /\ frame.type = "var_update"
             /\ queue' = EnqueueUpdate(frame.values)
             /\ seen' = Over(frame.values, seen)
             /\ UNCHANGED panel
    <3>1. frame.values \in Values
      BY <1>3, <2>2 DEF Frames, HubFrames, UpdateFrames, KeyFrames, ReadyFrames, SnapshotFrames
    <3>2. sockets \in 1..MaxSockets
      <4>1. sockets # 0
        BY <1>1 DEF PanelTypes, LinkOK
      <4>2. QED
        BY <4>1, FaultsOK, SocketsBounded DEF MaxSockets
    <3>3. Over(Stamp(frame.values), queue.values) \in Stamped
      BY <3>1, <3>2, StampOK, OverOK, PanelFieldsOK
    <3>4. queue' \in Queues
      BY <2>2, <3>3, PanelFieldsOK DEF EnqueueUpdate, Queues
    <3>5. QED
      BY <1>5, <2>2, <3>1, <3>4, PanelFieldsOK, OverOK
  <2>3. CASE /\ frame.type = "var_removed"
             /\ panel' = RemoveVars(frame.keys)
             /\ seen' = Without(seen, frame.keys)
             /\ UNCHANGED queue
    <3>1. Without(panel.values, frame.keys) \in Stamped /\ Without(seen, frame.keys) \in Values
      BY <1>5, RestrictOK, PanelFieldsOK DEF Without
    <3>2. panel' \in Panels /\ panel'.up = panel.up /\ panel'.boot = panel.boot
      BY <2>3, <3>1, PanelFieldsOK DEF RemoveVars, Panels
    <3>3. QED
      BY <2>3, <3>1, <3>2, PanelFieldsOK
  <2>4. CASE /\ frame.type = "var_metadata"
             /\ panel' = SetVarMeta(frame.keys)
             /\ seen' = Within(seen, frame.keys)
             /\ UNCHANGED queue
    <3>1. Within(panel.values, frame.keys) \in Stamped /\ Within(seen, frame.keys) \in Values
      BY <1>5, RestrictOK, PanelFieldsOK DEF Within
    <3>2. frame.keys \subseteq Variables
      BY <1>3, <2>4 DEF Frames, HubFrames, UpdateFrames, KeyFrames, ReadyFrames, SnapshotFrames
    <3>3. panel' \in Panels /\ panel'.up = panel.up /\ panel'.boot = panel.boot
      BY <2>4, <3>1, <3>2, PanelFieldsOK DEF SetVarMeta, Panels
    <3>4. QED
      BY <2>4, <3>1, <3>3, PanelFieldsOK
  <2>5. CASE /\ frame.type = "context_ready"
             /\ queue' = IF IsForLastContext(frame)
                         THEN EnqueueReady(frame.page, frame.given) ELSE queue
             /\ UNCHANGED <<panel, seen>>
    <3>1. frame.page \in Pages /\ frame.given \subseteq Variables
      BY <1>3, <2>5 DEF Frames, HubFrames, UpdateFrames, KeyFrames, ReadyFrames, SnapshotFrames
    <3>2. queue' \in Queues
      BY <2>5, <3>1, PanelFieldsOK DEF EnqueueReady, Queues, AtMostOne
    <3>3. QED
      BY <1>5, <2>5, <3>2, PanelFieldsOK
  <2>6. QED
    BY <2>1, <2>2, <2>3, <2>4, <2>5 DEF Receive
<1>7. SocketsOK'
  <2>1. Opened' <= Opened
    BY <1>1, <1>6, FaultsOK DEF Opened
  <2>2. Opened' \in Nat
    BY <1>1, FaultsOK DEF Opened
  <2>3. QED
    BY <1>1, <2>1, <2>2, FaultsOK DEF SocketsOK
<1>8. LinkOK' /\ ControllerOK'
  BY <1>1, <1>6 DEF PanelTypes, LinkOK, ControllerOK
<1>9. QED
  BY <1>1, <1>4, <1>6, <1>7, <1>8 DEF PanelTypes

(* The end of a connection, as the hub has it and as the panel has it.     *)
LEMMA DisconnectedOK ==
    ASSUME PanelTypes
    PROVE  /\ Disconnected(hub) \in Hubs /\ Disconnected(hub).boot = hub.boot
           /\ ~Disconnected(hub).known
<1>1. Disconnected(hub) = [hub EXCEPT !.known = FALSE, !.greeting = <<>>,
                                      !.serving = NoTask, !.promoted = {}]
  BY DEF Disconnected
<1>2. <<>> \in Seq(GreetingFrames) /\ NoTask \in {NoTask} \cup Servings
  OBVIOUS
<1>3. QED
  BY <1>1, <1>2, HubFields DEF Hubs

LEMMA EmptyWireOK ==
    ASSUME wire' = <<>>, uplink' = <<>>
    PROVE  WireOK'
BY BoundsAssumption DEF WireOK

LEMMA TypesOpen ==
    ASSUME PanelTypes, Open
    PROVE  PanelTypes'
<1> DEFINE greeting == <<Metadata>>
           snapshot == [type |-> "var_snapshot", boot |-> hub.boot]
<1>1. /\ ~panel.up
      /\ panel' = [panel EXCEPT !.up = TRUE, !.values = None, !.keys = {}, !.gen = 0,
                                !.ready = {}, !.given = {}, !.owes = TRUE]
      /\ hub' = [hub EXCEPT !.known = TRUE, !.greeting = greeting]
      /\ wire' = <<snapshot>> /\ uplink' = <<>> /\ sockets' = sockets + 1
      /\ UNCHANGED <<plc, queue, seen, events>>
  <2>1. [SetConnected(panel) EXCEPT !.owes = TRUE]
          = [panel EXCEPT !.up = TRUE, !.values = None, !.keys = {}, !.gen = 0,
                          !.ready = {}, !.given = {}, !.owes = TRUE]
    BY PanelFieldsOK DEF SetConnected, Panels
  <2>2. QED
    BY <2>1 DEF Open
<1>2. greeting \in Seq(GreetingFrames)
  BY HubFields DEF Metadata, GreetingFrames
<1>3. snapshot \in Frames /\ snapshot.boot = hub.boot
  BY HubFields DEF Frames, SnapshotFrames
<1> HIDE DEF greeting, snapshot
<1>4. hub' \in Hubs /\ hub'.boot = hub.boot
  BY <1>1, <1>2, HubFields DEF Hubs
<1>5. panel' \in Panels /\ panel'.up /\ panel'.boot = panel.boot
  BY <1>1, NoneOK, PanelFieldsOK DEF Panels, AtMostOne
<1>6. WireOK'
  <2>1. /\ wire' \in Seq(Frames) /\ Len(wire') = 1
        /\ \A i \in DOMAIN wire' : wire'[i] = snapshot
    BY <1>1, <1>3
  <2>2. QED
    BY <1>1, <1>3, <1>4, <2>1, BoundsAssumption DEF WireOK
<1>7. SocketsOK' /\ LinkOK'
  BY <1>1, <1>4, <1>5, FaultsOK DEF SocketsOK, Opened, LinkOK
<1>8. ControllerOK'
  BY <1>1, ControllerSame
<1>9. QED
  BY <1>1, <1>4, <1>5, <1>6, <1>7, <1>8 DEF PanelTypes

LEMMA TypesReload ==
    ASSUME PanelTypes, Reload
    PROVE  PanelTypes'
<1>1. /\ panel.up /\ wire # <<>> /\ Head(wire).type = "var_snapshot"
      /\ panel.boot # 0 /\ Head(wire).boot # panel.boot
      /\ panel' = FreshPanel(panel.page) /\ queue' = EmptyQueue /\ seen' = None
      /\ wire' = <<>> /\ uplink' = <<>> /\ hub' = Disconnected(hub)
      /\ UNCHANGED <<plc, sockets, late, events>>
  BY DEF Reload, Restarted
<1>2. hub' \in Hubs /\ hub'.boot = hub.boot /\ ~hub'.known
  BY <1>1, DisconnectedOK
<1>3. panel' \in Panels /\ ~panel'.up /\ panel'.boot = 0
  BY <1>1, PanelFieldsOK, FreshPanelOK DEF FreshPanel
<1>4. panel.boot # hub.boot
  <2>1. wire \in Seq(Frames)
    BY DEF PanelTypes, WireOK
  <2>2. Head(wire) = wire[1] /\ 1 \in DOMAIN wire
    BY <1>1, <2>1
  <2>3. QED
    BY <1>1, <2>2 DEF PanelTypes, WireOK
<1>5. SocketsOK' /\ LinkOK'
  BY <1>1, <1>2, <1>3, <1>4, FaultsOK DEF SocketsOK, Opened, LinkOK
<1>6. WireOK' /\ ControllerOK'
  BY <1>1, EmptyWireOK, ControllerSame
<1>7. QED
  BY <1>1, <1>2, <1>3, <1>5, <1>6, EmptyQueueOK, NoneOK DEF PanelTypes

LEMMA ClosedOK ==
    ASSUME PanelTypes, OnClose
    PROVE  panel' \in Panels /\ ~panel'.up /\ panel'.boot = panel.boot
<1>1. panel' = [panel EXCEPT !.up = FALSE, !.ready = {}, !.given = {}, !.owes = FALSE]
  BY DEF OnClose
<1>2. QED
  BY <1>1, PanelFieldsOK DEF Panels, AtMostOne

LEMMA TypesLost ==
    ASSUME PanelTypes, ConnectionLost
    PROVE  PanelTypes'
<1>1. /\ panel.up /\ Fault /\ OnClose /\ hub' = Disconnected(hub)
      /\ UNCHANGED <<plc, queue, seen, sockets, late>>
  BY DEF ConnectionLost
<1>2. hub' \in Hubs /\ hub'.boot = hub.boot /\ ~hub'.known
  BY <1>1, DisconnectedOK
<1>3. panel' \in Panels /\ ~panel'.up /\ panel'.boot = panel.boot
  BY <1>1, ClosedOK
<1>4. events'.faults = events.faults + 1
  BY <1>1, EventOK
<1>5. WireOK' /\ ControllerOK'
  BY <1>1, EmptyWireOK, ControllerSame DEF OnClose
<1>6. SocketsOK' /\ LinkOK'
  BY <1>1, <1>2, <1>3, <1>4, FaultsOK DEF SocketsOK, Opened, LinkOK, OnClose
<1>7. QED
  BY <1>1, <1>2, <1>3, <1>5, <1>6 DEF PanelTypes

LEMMA TypesRestart ==
    ASSUME PanelTypes, Restart
    PROVE  PanelTypes'
<1>1. /\ Fault /\ hub' = [FreshHub(hub.boot + 1) EXCEPT !.enabled = hub.enabled]
      /\ UNCHANGED <<plc, queue, seen, sockets, late>>
      /\ IF panel.up THEN OnClose ELSE UNCHANGED <<panel, wire, uplink>>
  BY DEF Restart
<1> DEFINE boot == hub.boot + 1
<1>2. hub' \in Hubs /\ ~hub'.known
  <2>1. /\ <<>> \in Seq(GreetingFrames) /\ <<>> \in Seq(Values) /\ <<>> \in Seq(News)
        /\ NoTask \in {NoTask} \cup Servings /\ boot \in Nat \ {0}
    BY HubFields
  <2>2. hub' = [boot |-> boot, enabled |-> hub.enabled, cache |-> None, normal |-> None,
                priority |-> None, batches |-> <<>>, known |-> FALSE, greeting |-> <<>>,
                promoted |-> {}, serving |-> NoTask, prefetch |-> {}, news |-> <<>>]
    BY <1>1 DEF FreshHub
  <2> HIDE DEF boot
  <2>3. QED
    BY <2>1, <2>2, HubFields, NoneOK DEF Hubs
<1>3. panel' \in Panels /\ ~panel'.up /\ panel'.boot = panel.boot
  BY <1>1, ClosedOK, PanelFieldsOK
<1>4. wire' = <<>> /\ uplink' \in Seq(Contexts)
  <2>1. ~panel.up => wire = <<>>
    BY DEF PanelTypes, LinkOK
  <2>2. uplink \in Seq(Contexts)
    BY DEF PanelTypes, WireOK
  <2>3. CASE panel.up
    <3>1. <<>> \in Seq(Contexts)
      OBVIOUS
    <3>2. wire' = <<>> /\ uplink' = <<>>
      BY <1>1, <2>3 DEF OnClose
    <3>3. QED
      BY <3>1, <3>2
  <2>4. CASE ~panel.up
    <3>1. wire' = wire /\ uplink' = uplink
      BY <1>1, <2>4
    <3>2. QED
      BY <2>1, <2>2, <2>4, <3>1
  <2>5. QED
    BY <2>3, <2>4
<1>5. WireOK' /\ ControllerOK'
  BY <1>1, <1>4, ControllerSame, BoundsAssumption DEF WireOK
<1>6. events'.faults = events.faults + 1
  BY <1>1, EventOK
<1>7. SocketsOK' /\ LinkOK'
  <2>1. Opened' <= Opened + 2
    <3>1. sockets' = sockets /\ sockets \in Nat
      BY <1>1, FaultsOK
    <3>2. ~panel'.up
      BY <1>3
    <3>3. QED
      BY <3>1, <3>2 DEF Opened
  <2>2. Opened' \in Nat /\ sockets' \in Nat
    BY <1>1, FaultsOK DEF Opened
  <2>3. Opened' <= 2 * events'.faults + 1
    <3> HIDE DEF Opened
    <3>1. QED
      BY <1>6, <2>1, <2>2, FaultsOK
  <2>4. SocketsOK'
    BY <2>2, <2>3 DEF SocketsOK
  <2>5. LinkOK'
    BY <1>2, <1>3, <1>4 DEF LinkOK
  <2>6. QED
    BY <2>4, <2>5
<1>8. QED
  BY <1>1, <1>2, <1>3, <1>5, <1>7 DEF PanelTypes

LEMMA TypesNavigate ==
    ASSUME PanelTypes, NEW page \in Pages, Navigate(page)
    PROVE  PanelTypes'
<1>1. /\ Counted /\ panel' = [panel EXCEPT !.page = page, !.owes = panel.up]
      /\ UNCHANGED <<plc, hub, wire, uplink, queue, seen, sockets, late>>
  BY DEF Navigate
<1>2. panel' \in Panels /\ panel'.up = panel.up /\ panel'.boot = panel.boot
  BY <1>1, PanelFieldsOK DEF Panels
<1>3. events'.faults = events.faults
  BY <1>1, EventOK
<1>4. WireOK' /\ ControllerOK'
  BY <1>1, WireSame, ControllerSame
<1>5. SocketsOK' /\ LinkOK'
  BY <1>1, <1>2, <1>3 DEF PanelTypes, SocketsOK, Opened, LinkOK
<1>6. QED
  BY <1>1, <1>2, <1>4, <1>5 DEF PanelTypes

LEMMA TypesSendContext ==
    ASSUME PanelTypes, SendContext
    PROVE  PanelTypes'
<1> DEFINE context == [page |-> panel.page, nr |-> events.all]
<1>1. /\ uplink' = Append(uplink, context)
      /\ panel' = [panel EXCEPT !.owes = FALSE, !.asked = {panel.page}]
      /\ UNCHANGED <<plc, hub, wire, queue, seen, sockets, late, events>>
  BY DEF SendContext
<1>2. context \in Contexts
  <2>1. events.all \in 0..MaxEvents /\ MaxEvents \in Nat
    BY BoundsAssumption DEF PanelTypes, ControllerOK
  <2>2. QED
    BY <2>1, PanelFieldsOK DEF Contexts
<1> HIDE DEF context
<1>3. panel' \in Panels /\ panel'.up = panel.up /\ panel'.boot = panel.boot
  BY <1>1, PanelFieldsOK DEF Panels, AtMostOne
<1>4. WireOK'
  <2>1. uplink' \in Seq(Contexts)
    BY <1>1, <1>2 DEF PanelTypes, WireOK
  <2>2. QED
    BY <1>1, <2>1 DEF PanelTypes, WireOK
<1>5. SocketsOK' /\ LinkOK' /\ ControllerOK'
  BY <1>1, <1>3 DEF PanelTypes, SocketsOK, Opened, LinkOK, ControllerOK
<1>6. QED
  BY <1>1, <1>3, <1>4, <1>5 DEF PanelTypes

LEMMA PanelTypesStep == PanelTypes /\ [Next]_vars => PanelTypes'
<1> SUFFICES ASSUME PanelTypes, [Next]_vars PROVE PanelTypes'
  OBVIOUS
<1>1. CASE HubStep
  BY <1>1, TypesBroadcast, TypesNews, TypesGreet, TypesHandle, TypesApplied, TypesTask DEF HubStep
<1>2. CASE PanelStep
  BY <1>2, TypesFlush, TypesSendContext, TypesReceive, TypesReload DEF PanelStep
<1>3. CASE Environment
  <2>1. ASSUME NEW v \in Variables, Report(v) \/ Disable(v) PROVE PanelTypes'
    BY <2>1, TypesReport, TypesHubEvents
  <2>2. ASSUME NEW page \in Pages, Navigate(page) PROVE PanelTypes'
    BY <2>2, TypesNavigate
  <2>3. QED
    BY <1>3, <2>1, <2>2, TypesOpen, TypesLost, TypesHubEvents, TypesRestart DEF Environment
<1>4. CASE UNCHANGED vars
  BY <1>4 DEF vars, panelSide, PanelTypes, ControllerOK, WireOK, LinkOK, SocketsOK, Opened
<1>5. QED
  BY <1>1, <1>2, <1>3, <1>4 DEF Next

LEMMA PanelTypesHold == Spec => []PanelTypes
BY TypesInit, PanelTypesStep, PTL DEF Spec

(* Type correctness.  That a value is stamped with one of at most          *)
(* MaxSockets connections (Stamp, useWebSocket.ts) rests on the count of   *)
(* the sockets, and that no frame is sent into a full wire on CanSend.     *)
THEOREM PanelTypeCorrect == Spec => []TypeOK
<1>1. PanelTypes => TypeOK
  <2> SUFFICES ASSUME PanelTypes PROVE TypeOK
    OBVIOUS
  <2>1. \A v \in Variables : plc[v] \in 1..MaxValue
    BY PlcValues
  <2>2. plc \in [Variables -> 1..MaxValue]
    BY <2>1 DEF PanelTypes, ControllerOK
  <2>3. QED
    BY <2>2, HubFields, PanelFieldsOK DEF TypeOK, PanelTypes, WireOK
<1>2. QED
  BY <1>1, PanelTypesHold, PTL

-----------------------------------------------------------------------------
(***************************************************************************)
(* What a ready page has been given.                                       *)
(*                                                                         *)
(* The hub says that a page is ready after it has sent the values; between *)
(* the two and the store lie the wire, the queue and the frames that take  *)
(* values away.  The invariant follows a variable that was sent along this *)
(* way: it is held by the panel, is carried by a frame before the word     *)
(* that the page is ready, or is gone, for the panel, for the hub and in   *)
(* every frame that is on its way.  That what is gone does not come back   *)
(* is MetadataShrinks: of two frames the later one names fewer variables.  *)
(***************************************************************************)
Held == DOMAIN ReplaceOrApply
Carries(frame, v) == frame.type = "var_update" /\ v \in DOMAIN frame.values
Names(frame, v) == frame.type = "var_metadata" /\ v \in frame.keys
Removes(frame, v) == frame.type = "var_removed" /\ v \in frame.keys

Delivered(v, n) == v \in Held \/ \E j \in DOMAIN wire : j <= n /\ Carries(wire[j], v)
Gone(v) ==
    /\ v \notin panel.keys /\ v \notin hub.enabled
    /\ \A i \in DOMAIN wire : ~Names(wire[i], v)
Given(v, n) == Delivered(v, n) \/ Gone(v)

(* A frame that names a variable comes before every frame that does not.   *)
Drops(frame, v) ==
    \/ Removes(frame, v)
    \/ frame.type = "var_metadata" /\ v \notin frame.keys

MetadataShrinks ==
    \A v \in Variables : \A i \in DOMAIN wire : Drops(wire[i], v) =>
        /\ v \notin hub.enabled
        /\ \A j \in DOMAIN wire : j > i => ~Names(wire[j], v)

Idle ==
    /\ ~panel.up => hub.serving = NoTask /\ uplink = <<>> /\ ~panel.owes
    /\ \A task \in hub.prefetch : task.socket <= sockets

SnapshotFirst ==
    \A i \in DOMAIN wire : wire[i].type = "var_snapshot" =>
        /\ i = 1
        /\ ~late => queue = EmptyQueue /\ panel.given = {} /\ panel.values = None

FramesKept ==
    \A i \in DOMAIN wire : wire[i].type = "context_ready" =>
        \A v \in wire[i].given : Given(v, i)

QueueKept ==
    /\ \A v \in queue.given : Given(v, 0)
    /\ queue.ready = {} => queue.given = {}
    /\ queue.snapshot # 0 => panel.given = {}

StoreKept == \A v \in panel.given : v \in DOMAIN panel.values \/ Gone(v)

HubKept ==
    hub.known =>
        /\ hub.serving # NoTask => \A v \in hub.serving.sent : Given(v, Len(wire))
        /\ \A task \in hub.prefetch : task.socket = sockets =>
              /\ \A v \in task.sent : Given(v, Len(wire))
              /\ task.phase = "ready" => \A v \in DOMAIN task.read : Given(v, Len(wire))

Kept == MetadataShrinks /\ Idle /\ SnapshotFirst
GivenKept == FramesKept /\ QueueKept /\ StoreKept /\ HubKept
ReadyInv == PanelTypes /\ Kept /\ (~late => GivenKept)

LEMMA ReadyInit == Init => ReadyInv
<1> SUFFICES ASSUME Init PROVE ReadyInv
  OBVIOUS
<1>1. PICK page \in Pages : panel = FreshPanel(page)
  BY DEF Init
<1>2. /\ hub = FreshHub(1) /\ wire = <<>> /\ uplink = <<>> /\ queue = EmptyQueue
      /\ sockets = 0
  BY DEF Init
<1>3. PanelTypes
  BY TypesInit
<1>4. DOMAIN wire = {}
  BY <1>2
<1>5. /\ hub.serving = NoTask /\ hub.prefetch = {} /\ ~hub.known
      /\ panel.given = {} /\ ~panel.owes /\ queue.given = {} /\ queue.snapshot = 0
  BY <1>1, <1>2 DEF FreshHub, FreshPanel, EmptyQueue
<1>6. Kept
  BY <1>2, <1>4, <1>5 DEF Kept, MetadataShrinks, Idle, SnapshotFirst
<1>7. GivenKept
  BY <1>4, <1>5 DEF GivenKept, FramesKept, QueueKept, StoreKept, HubKept
<1>8. QED
  BY <1>3, <1>6, <1>7 DEF ReadyInv

LEMMA WireDomain ==
    ASSUME PanelTypes
    PROVE  /\ wire \in Seq(Frames) /\ Len(wire) \in Nat /\ DOMAIN wire = 1..Len(wire)
           /\ \A i \in DOMAIN wire : wire[i] \in Frames /\ i \in Nat /\ i <= Len(wire)
<1>1. wire \in Seq(Frames)
  BY DEF PanelTypes, WireOK
<1>2. QED
  BY <1>1

LEMMA HeldSame ==
    ASSUME UNCHANGED <<panel, queue>>
    PROVE  Held' = Held
BY DEF Held, ReplaceOrApply, Over

(* What a frame of the hub says is true when it is sent.                   *)
Says(frame) ==
    /\ frame.type = "var_metadata" => frame.keys = hub.enabled
    /\ frame.type = "var_removed" => frame.keys = Variables \ hub.enabled
    /\ frame.type = "context_ready" =>
          (~late /\ hub.known => \A v \in frame.given : Given(v, Len(wire)))

(* The wire after a step of the hub: at most one frame more.               *)
LEMMA Longer ==
    ASSUME PanelTypes, NEW frame \in HubFrames, wire' = wire \/ wire' = Send(frame)
    PROVE  /\ DOMAIN wire \subseteq DOMAIN wire' /\ Len(wire') \in Nat
           /\ DOMAIN wire' = 1..Len(wire') /\ Len(wire) <= Len(wire')
           /\ \A i \in DOMAIN wire : wire'[i] = wire[i]
           /\ \A i \in DOMAIN wire' : i \in DOMAIN wire \/
                 (hub.known /\ i = Len(wire) + 1 /\ i = Len(wire') /\ wire'[i] = frame)
           /\ wire' = Send(frame) /\ hub.known => Len(wire') \in DOMAIN wire' /\ wire'[Len(wire')] = frame
<1>1. wire \in Seq(Frames) /\ Len(wire) \in Nat /\ frame \in Frames
  BY WireDomain DEF Frames
<1>2. CASE hub.known /\ wire' = Append(wire, frame)
  BY <1>1, <1>2
<1>3. CASE wire' = wire /\ ~(hub.known /\ wire' = Send(frame))
  BY <1>1, <1>3, WireDomain
<1>4. QED
  BY <1>2, <1>3 DEF Send

LEMMA HubSends ==
    ASSUME PanelTypes, Kept, ~late => GivenKept, NEW frame \in HubFrames, Says(frame),
           wire' = wire \/ wire' = Send(frame),
           UNCHANGED <<panel, queue, late>>, hub'.enabled \subseteq hub.enabled
    PROVE  /\ MetadataShrinks' /\ SnapshotFirst'
           /\ ~late => FramesKept' /\ QueueKept' /\ StoreKept'
           /\ \A v : Given(v, Len(wire)) => Given(v, Len(wire))'
           /\ hub.known /\ wire' = Send(frame) =>
                 \A v : Carries(frame, v) => Given(v, Len(wire))'
<1>1. /\ DOMAIN wire \subseteq DOMAIN wire' /\ Len(wire') \in Nat
      /\ DOMAIN wire' = 1..Len(wire') /\ Len(wire) <= Len(wire')
      /\ \A i \in DOMAIN wire : wire'[i] = wire[i]
      /\ \A i \in DOMAIN wire' : i \in DOMAIN wire \/
            (hub.known /\ i = Len(wire) + 1 /\ i = Len(wire') /\ wire'[i] = frame)
      /\ wire' = Send(frame) /\ hub.known => Len(wire') \in DOMAIN wire' /\ wire'[Len(wire')] = frame
  BY Longer
<1>2. /\ Len(wire) \in Nat /\ DOMAIN wire = 1..Len(wire)
      /\ \A i \in DOMAIN wire : i \in Nat /\ i <= Len(wire)
  BY WireDomain
<1>3. Held' = Held
  BY HeldSame
<1>4. \A v : Gone(v) => Gone(v)'
  <2> SUFFICES ASSUME NEW v, Gone(v) PROVE Gone(v)'
    OBVIOUS
  <2>1. ~Names(frame, v)
    BY DEF Gone, Says, Names
  <2>2. QED
    BY <1>1, <2>1 DEF Gone
<1>5. \A v : \A m, n \in Nat : m <= n /\ Delivered(v, m) => Delivered(v, n)'
  <2> SUFFICES ASSUME NEW v, NEW m \in Nat, NEW n \in Nat, m <= n, Delivered(v, m)
               PROVE  Delivered(v, n)'
    OBVIOUS
  <2>1. CASE v \in Held
    BY <1>3, <2>1 DEF Delivered
  <2>2. CASE \E j \in DOMAIN wire : j <= m /\ Carries(wire[j], v)
    <3>1. PICK j \in DOMAIN wire : j <= m /\ Carries(wire[j], v)
      BY <2>2
    <3>2. j \in DOMAIN wire' /\ j <= n /\ Carries(wire'[j], v)
      BY <1>1, <1>2, <3>1
    <3>3. QED
      BY <3>2 DEF Delivered
  <2>3. QED
    BY <2>1, <2>2 DEF Delivered
<1>6. \A v : \A m, n \in Nat : m <= n /\ Given(v, m) => Given(v, n)'
  BY <1>4, <1>5 DEF Given
<1>7. MetadataShrinks'
  <2> SUFFICES ASSUME NEW v \in Variables, NEW i \in DOMAIN wire', Drops(wire'[i], v)
               PROVE  /\ v \notin hub'.enabled
                      /\ \A j \in DOMAIN wire' : j > i => ~Names(wire'[j], v)
    BY DEF MetadataShrinks
  <2>1. CASE i \in DOMAIN wire
    <3>1. /\ v \notin hub.enabled
          /\ \A j \in DOMAIN wire : j > i => ~Names(wire[j], v)
      BY <1>1, <2>1 DEF Kept, MetadataShrinks
    <3>2. ~Names(frame, v)
      BY <3>1 DEF Says, Names
    <3>3. QED
      BY <1>1, <3>1, <3>2
  <2>2. CASE i = Len(wire') /\ wire'[i] = frame
    <3>1. v \notin hub.enabled
      BY <2>2 DEF Drops, Removes, Says
    <3>2. \A j \in DOMAIN wire' : ~(j > i)
      BY <1>1, <2>2
    <3>3. QED
      BY <3>1, <3>2
  <2>3. QED
    BY <1>1, <2>1, <2>2
<1>8. SnapshotFirst'
  <2>1. frame.type # "var_snapshot"
    BY DEF HubFrames, UpdateFrames, KeyFrames, ReadyFrames
  <2>2. QED
    BY <1>1, <2>1 DEF Kept, SnapshotFirst
<1>9. ASSUME ~late PROVE FramesKept' /\ QueueKept' /\ StoreKept'
  <2>1. FramesKept /\ QueueKept /\ StoreKept
    BY <1>9 DEF GivenKept
  <2>2. FramesKept'
    <3> SUFFICES ASSUME NEW i \in DOMAIN wire', wire'[i].type = "context_ready",
                        NEW v \in wire'[i].given
                 PROVE  Given(v, i)'
      BY DEF FramesKept
    <3>1. CASE i \in DOMAIN wire
      BY <1>1, <1>2, <1>6, <2>1, <3>1 DEF FramesKept
    <3>2. CASE hub.known /\ i = Len(wire) + 1 /\ wire'[i] = frame
      <4>1. Given(v, Len(wire))
        BY <1>9, <3>2 DEF Says
      <4>2. i \in Nat /\ Len(wire) <= i
        BY <1>2, <3>2
      <4>3. QED
        BY <1>2, <1>6, <4>1, <4>2
    <3>3. QED
      BY <1>1, <3>1, <3>2
  <2>3. QueueKept'
    <3>1. \A v \in queue.given : Given(v, 0)'
      BY <1>6, <2>1 DEF QueueKept
    <3>2. QED
      BY <2>1, <3>1 DEF QueueKept
  <2>4. StoreKept'
    BY <1>4, <2>1 DEF StoreKept
  <2>5. QED
    BY <2>2, <2>3, <2>4
<1>10. \A v : Given(v, Len(wire)) => Given(v, Len(wire))'
  BY <1>1, <1>2, <1>6
<1>11. ASSUME hub.known, wire' = Send(frame), NEW v, Carries(frame, v)
       PROVE  Given(v, Len(wire))'
  <2>1. Len(wire') \in DOMAIN wire' /\ wire'[Len(wire')] = frame /\ Len(wire') <= Len(wire')
    BY <1>1, <1>11
  <2>2. Delivered(v, Len(wire))'
    BY <1>11, <2>1 DEF Delivered
  <2>3. QED
    BY <2>2 DEF Given
<1>12. QED
  BY <1>7, <1>8, <1>9, <1>10, <1>11

LEMMA MetadataSays == PanelTypes => Metadata \in HubFrames /\ Says(Metadata)
BY HubFields DEF Metadata, HubFrames, KeyFrames, Says

LEMMA UpdateSays ==
    ASSUME NEW values \in Values
    PROVE  Update(values) \in HubFrames /\ Says(Update(values))
BY DEF Update, HubFrames, UpdateFrames, Says

LEMMA ReadySays ==
    ASSUME NEW task, task.page \in Pages, NEW given \in SUBSET Variables,
           ~late /\ hub.known => \A v \in given : Given(v, Len(wire))
    PROVE  Ready(task, given) \in HubFrames /\ Says(Ready(task, given))
<1>1. Ready(task, given) = [type |-> "context_ready", page |-> task.page, given |-> given]
  BY DEF Ready
<1>2. Ready(task, given) \in HubFrames
  BY <1>1 DEF HubFrames, ReadyFrames
<1>3. Ready(task, given).type = "context_ready" /\ Ready(task, given).given = given
  BY <1>1
<1> HIDE DEF Ready
<1>4. Says(Ready(task, given))
  BY <1>3 DEF Says
<1>5. QED
  BY <1>2, <1>4

(* A step that leaves what the hub has in hand, or takes from it.          *)
LEMMA HubQuiet ==
    ASSUME ReadyInv, PanelTypes', NEW frame \in HubFrames, Says(frame),
           wire' = wire \/ wire' = Send(frame),
           UNCHANGED <<uplink, panel, queue, late, sockets>>,
           hub'.enabled \subseteq hub.enabled, hub'.known => hub.known,
           hub'.serving = hub.serving, hub'.prefetch \subseteq hub.prefetch
    PROVE  ReadyInv'
<1>1. /\ MetadataShrinks' /\ SnapshotFirst'
      /\ ~late => FramesKept' /\ QueueKept' /\ StoreKept'
      /\ \A v : Given(v, Len(wire)) => Given(v, Len(wire))'
  BY HubSends DEF ReadyInv
<1>2. Kept'
  BY <1>1 DEF ReadyInv, Kept, Idle
<1>3. ~late => HubKept'
  BY <1>1 DEF ReadyInv, GivenKept, HubKept
<1>4. QED
  BY <1>1, <1>2, <1>3 DEF ReadyInv, GivenKept

LEMMA ReadyReport ==
    ASSUME ReadyInv, PanelTypes', NEW v \in Variables, Report(v)
    PROVE  ReadyInv'
<1>1. UNCHANGED <<wire, panelSide, late>> /\ hub' = Enqueue(v, plc'[v], v \in hub.promoted)
  BY DEF Report
<1>2. /\ hub'.enabled = hub.enabled /\ hub'.known = hub.known
      /\ hub'.serving = hub.serving /\ hub'.prefetch = hub.prefetch
  <2>1. hub \in Hubs
    BY DEF ReadyInv, PanelTypes
  <2>2. QED
    BY <1>1, <2>1 DEF Enqueue, Hubs
<1>3. Metadata \in HubFrames /\ Says(Metadata)
  BY MetadataSays DEF ReadyInv
<1>4. QED
  BY <1>1, <1>2, <1>3, HubQuiet DEF panelSide

LEMMA ReadyHubEvents ==
    ASSUME ReadyInv, PanelTypes', DropClient \/ \E v \in Variables : Disable(v)
    PROVE  ReadyInv'
<1>1. hub \in Hubs
  BY DEF ReadyInv, PanelTypes
<1>2. Metadata \in HubFrames /\ Says(Metadata)
  BY MetadataSays DEF ReadyInv
<1>3. UNCHANGED <<wire, panelSide, late>>
  BY DEF DropClient, Disable
<1>4. /\ hub'.enabled \subseteq hub.enabled
      /\ hub'.known => hub.known
      /\ hub'.serving = hub.serving /\ hub'.prefetch = hub.prefetch
  BY <1>1 DEF DropClient, Disable, Hubs
<1>5. QED
  BY <1>2, <1>3, <1>4, HubQuiet DEF panelSide

LEMMA ReadyBroadcast ==
    ASSUME ReadyInv, PanelTypes', Broadcast
    PROVE  ReadyInv'
<1>1. PICK isDue \in [{"priority", "normal"} -> BOOLEAN] :
        LET fast == IF isDue["priority"] THEN hub.priority ELSE None
            slow == IF isDue["normal"] THEN hub.normal ELSE None
            due == hub.batches \o NonEmpty(fast) \o NonEmpty(slow)
        IN  /\ due # <<>>
            /\ hub.batches # <<>> => fast = None /\ slow = None
            /\ wire' = Send(Update(Head(due)))
            /\ hub' = [hub EXCEPT
                  !.priority = IF fast = None THEN @ ELSE None,
                  !.normal = IF slow = None THEN @ ELSE None,
                  !.batches = Tail(due)]
  BY DEF Broadcast
<1> DEFINE fast == IF isDue["priority"] THEN hub.priority ELSE None
           slow == IF isDue["normal"] THEN hub.normal ELSE None
           due == hub.batches \o NonEmpty(fast) \o NonEmpty(slow)
           p == IF fast = None THEN hub.priority ELSE None
           n == IF slow = None THEN hub.normal ELSE None
<1>2. /\ due # <<>> /\ wire' = Send(Update(Head(due)))
      /\ hub' = [hub EXCEPT !.priority = p, !.normal = n, !.batches = Tail(due)]
      /\ UNCHANGED <<plc, panelSide, late, events>>
  BY <1>1 DEF Broadcast
<1>3. PanelTypes
  BY DEF ReadyInv
<1>4. fast \in Values /\ slow \in Values
  BY <1>3, HubFields, NoneOK
<1>5. due \in Seq(Values)
  <2>1. NonEmpty(fast) \in Seq(Values) /\ NonEmpty(slow) \in Seq(Values)
    BY <1>4 DEF NonEmpty
  <2> HIDE DEF fast, slow
  <2>2. QED
    BY <1>3, <2>1, HubFields
<1> HIDE DEF due, p, n, fast, slow
<1>6. Head(due) \in Values
  BY <1>2, <1>5
<1>7. Update(Head(due)) \in HubFrames /\ Says(Update(Head(due)))
  BY <1>6, UpdateSays
<1>8. /\ hub'.enabled = hub.enabled /\ hub'.known = hub.known
      /\ hub'.serving = hub.serving /\ hub'.prefetch = hub.prefetch
  BY <1>2, <1>3, HubFields DEF Hubs
<1>9. QED
  BY <1>2, <1>7, <1>8, HubQuiet DEF panelSide

LEMMA ReadyNews ==
    ASSUME ReadyInv, PanelTypes', SendNews
    PROVE  ReadyInv'
<1> DEFINE frame == IF Head(hub.news) = "var_metadata" THEN Metadata
                    ELSE [type |-> "var_removed", keys |-> Variables \ hub.enabled]
<1>1. /\ wire' = Send(frame) /\ hub' = [hub EXCEPT !.news = Tail(hub.news)]
      /\ UNCHANGED <<plc, panelSide, late, events>>
  BY DEF SendNews
<1>2. PanelTypes
  BY DEF ReadyInv
<1>3. frame \in HubFrames /\ Says(frame)
  <2>1. CASE frame = Metadata
    BY <1>2, <2>1, MetadataSays
  <2>2. CASE frame = [type |-> "var_removed", keys |-> Variables \ hub.enabled]
    <3> DEFINE keys == Variables \ hub.enabled
    <3>1. keys \in SUBSET Variables
      OBVIOUS
    <3> HIDE DEF keys
    <3>2. frame = [type |-> "var_removed", keys |-> keys]
      BY <2>2 DEF keys
    <3> HIDE DEF frame
    <3>3. frame \in HubFrames
      BY <3>1, <3>2 DEF HubFrames, KeyFrames
    <3>4. frame.type = "var_removed" /\ frame.keys = keys
      BY <3>2
    <3>5. Says(frame)
      BY <3>4 DEF Says, keys
    <3>6. QED
      BY <3>3, <3>5
  <2>3. QED
    BY <2>1, <2>2
<1> HIDE DEF frame
<1>4. /\ hub'.enabled = hub.enabled /\ hub'.known = hub.known
      /\ hub'.serving = hub.serving /\ hub'.prefetch = hub.prefetch
  BY <1>1, <1>2, HubFields DEF Hubs
<1>5. QED
  BY <1>1, <1>3, <1>4, HubQuiet DEF panelSide

LEMMA ReadyGreet ==
    ASSUME ReadyInv, PanelTypes', Greet
    PROVE  ReadyInv'
<1>1. hub.greeting # <<>> /\ UNCHANGED <<plc, panelSide, late, events>>
  BY DEF Greet
<1>2. PanelTypes
  BY DEF ReadyInv
<1>3. PICK frame \in HubFrames : wire' = Send(frame) /\ Says(frame)
  <2>1. CASE Head(hub.greeting).type = "var_metadata"
    BY <1>2, <2>1, MetadataSays DEF Greet
  <2>2. CASE Head(hub.greeting).type # "var_metadata"
    <3>1. Head(hub.greeting) \in GreetingFrames
      BY <1>1, <1>2, HubFields
    <3>2. Head(hub.greeting) \in UpdateFrames
      BY <2>2, <3>1 DEF GreetingFrames
    <3>3. Says(Head(hub.greeting)) /\ Head(hub.greeting) \in HubFrames
      BY <3>2 DEF UpdateFrames, Says, HubFrames
    <3>4. QED
      BY <2>2, <3>3 DEF Greet
  <2>3. QED
    BY <2>1, <2>2
<1>4. /\ hub'.enabled = hub.enabled /\ hub'.known = hub.known
      /\ hub'.serving = hub.serving /\ hub'.prefetch = hub.prefetch
  <2>1. PICK greeting : hub' = [hub EXCEPT !.greeting = greeting]
    BY DEF Greet
  <2>2. QED
    BY <1>2, <2>1, HubFields DEF Hubs
<1>5. QED
  BY <1>1, <1>3, <1>4, HubQuiet DEF panelSide

LEMMA TaskFields ==
    ASSUME PanelTypes, NEW task \in hub.prefetch
    PROVE  /\ task \in Tasks /\ task.page \in Pages /\ task.sent \subseteq Variables
           /\ task.read \in Values /\ DOMAIN task.read \subseteq Variables
<1>1. task \in Tasks
  BY HubFields
<1>2. task.page \in Pages /\ task.sent \subseteq Variables /\ task.read \in Values
  BY <1>1 DEF Tasks
<1>3. QED
  BY <1>1, <1>2, ValuesMember

(* A task that goes on with what it has.                                   *)
LEMMA TaskGoesOn ==
    ASSUME ReadyInv, PanelTypes', NEW frame \in HubFrames, Says(frame),
           wire' = wire \/ wire' = Send(frame),
           UNCHANGED <<uplink, panel, queue, late, sockets>>,
           hub'.enabled \subseteq hub.enabled, hub'.known = hub.known,
           hub'.serving = hub.serving \/ hub'.serving = NoTask, NEW new,
           new.socket = sockets /\ hub.known =>
               /\ ~late => \A v \in new.sent : Given(v, Len(wire))
               /\ ~late /\ new.phase = "ready" =>
                     \A v \in DOMAIN new.read : Given(v, Len(wire))',
           new.socket <= sockets,
           hub'.prefetch \subseteq hub.prefetch \cup {new}
    PROVE  ReadyInv'
<1>1. /\ MetadataShrinks' /\ SnapshotFirst'
      /\ ~late => FramesKept' /\ QueueKept' /\ StoreKept'
      /\ \A v : Given(v, Len(wire)) => Given(v, Len(wire))'
  BY HubSends DEF ReadyInv
<1>2. Kept'
  BY <1>1 DEF ReadyInv, Kept, Idle
<1>3. ASSUME ~late PROVE HubKept'
  <2> SUFFICES ASSUME hub.known
               PROVE  /\ hub'.serving # NoTask => \A v \in hub'.serving.sent : Given(v, Len(wire))'
                      /\ \A task \in hub'.prefetch : task.socket = sockets =>
                            /\ \A v \in task.sent : Given(v, Len(wire))'
                            /\ task.phase = "ready" =>
                                  \A v \in DOMAIN task.read : Given(v, Len(wire))'
    BY DEF HubKept
  <2>1. /\ hub.serving # NoTask => \A v \in hub.serving.sent : Given(v, Len(wire))
        /\ \A task \in hub.prefetch : task.socket = sockets =>
              /\ \A v \in task.sent : Given(v, Len(wire))
              /\ task.phase = "ready" => \A v \in DOMAIN task.read : Given(v, Len(wire))
    BY <1>3 DEF ReadyInv, GivenKept, HubKept
  <2>2. QED
    BY <1>1, <1>3, <2>1
<1>4. QED
  BY <1>1, <1>2, <1>3 DEF ReadyInv, GivenKept

LEMMA ReadyHandle ==
    ASSUME ReadyInv, PanelTypes', HandleContext
    PROVE  ReadyInv'
<1> DEFINE page == Head(uplink).page
           cached == CachedFor(Bound[page])
           serving == [phase |-> "cached", page |-> page, nr |-> Head(uplink).nr,
                       sent |-> DOMAIN cached]
<1>1. /\ wire' = IF cached = None THEN wire ELSE Send(Update(cached))
      /\ hub' = [hub EXCEPT !.serving = serving]
      /\ uplink # <<>> /\ uplink' = Tail(uplink)
      /\ UNCHANGED <<plc, panel, queue, seen, sockets, late, events>>
  BY DEF HandleContext, Listens
<1>2. PanelTypes /\ panel.up
  BY <1>1 DEF ReadyInv, Kept, Idle
<1>3. cached \in Values
  BY <1>2, CachedForOK
<1>4. serving.sent = DOMAIN cached
  OBVIOUS
<1> HIDE DEF cached, serving, page
<1>5. /\ hub'.enabled = hub.enabled /\ hub'.known = hub.known
      /\ hub'.serving = serving /\ hub'.prefetch = hub.prefetch
  BY <1>1, <1>2, HubFields DEF Hubs
<1>6. Update(cached) \in HubFrames /\ Says(Update(cached))
  BY <1>3, UpdateSays
<1>7. /\ MetadataShrinks' /\ SnapshotFirst'
      /\ ~late => FramesKept' /\ QueueKept' /\ StoreKept'
      /\ \A v : Given(v, Len(wire)) => Given(v, Len(wire))'
      /\ hub.known /\ wire' = Send(Update(cached)) =>
            \A v : Carries(Update(cached), v) => Given(v, Len(wire))'
  BY <1>1, <1>5, <1>6, HubSends DEF ReadyInv
<1>8. Kept'
  BY <1>1, <1>2, <1>5, <1>7 DEF ReadyInv, Kept, Idle
<1>9. ASSUME hub.known PROVE \A v \in DOMAIN cached : Given(v, Len(wire))'
  <2>1. CASE cached = None
    BY <2>1 DEF None
  <2>2. CASE cached # None
    <3>1. \A v \in DOMAIN cached : Carries(Update(cached), v)
      BY DEF Carries, Update
    <3>2. QED
      BY <1>1, <1>7, <1>9, <2>2, <3>1
  <2>3. QED
    BY <2>1, <2>2
<1>10. ~late => HubKept'
  BY <1>1, <1>4, <1>5, <1>7, <1>9 DEF ReadyInv, GivenKept, HubKept
<1>11. QED
  BY <1>1, <1>7, <1>8, <1>10 DEF ReadyInv, GivenKept

LEMMA ReadyApplied ==
    ASSUME ReadyInv, PanelTypes', ContextApplied
    PROVE  ReadyInv'
<1> DEFINE task == hub.serving
           missing == Bound[task.page] \ task.sent
           done == [hub EXCEPT !.serving = NoTask, !.promoted = Bound[task.page]]
           read == [phase |-> "reads", socket |-> sockets, page |-> task.page,
                    nr |-> task.nr, sent |-> task.sent, missing |-> missing, read |-> None]
<1>1. /\ hub.serving # NoTask /\ UNCHANGED <<plc, panelSide, late, events>>
      /\ \/ wire' = Send(Ready(task, task.sent)) /\ hub' = done
         \/ wire' = wire /\ hub' = [done EXCEPT !.prefetch = @ \cup {read}]
  BY DEF ContextApplied
<1>2. PanelTypes /\ hub \in Hubs
  BY HubFields DEF ReadyInv
<1>3. task \in Servings
  BY <1>1, <1>2, HubFields
<1>4. task.page \in Pages /\ task.nr \in Nat /\ task.sent \in SUBSET Variables
  BY <1>3 DEF Servings
<1>5. ~late /\ hub.known => \A v \in task.sent : Given(v, Len(wire))
  BY <1>1 DEF ReadyInv, GivenKept, HubKept
<1>6. Ready(task, task.sent) \in HubFrames /\ Says(Ready(task, task.sent))
  BY <1>4, <1>5, ReadySays
<1>7. read.sent = task.sent /\ read.socket = sockets /\ read.phase = "reads"
  OBVIOUS
<1>8. sockets \in Nat
  BY <1>2, FaultsOK
<1> HIDE DEF read, missing
<1>9. /\ done.enabled = hub.enabled /\ done.known = hub.known /\ done.serving = NoTask
      /\ done.prefetch = hub.prefetch /\ done \in Hubs
  <2>1. Bound[task.page] \subseteq Variables
    BY <1>4, PageBound
  <2>2. QED
    BY <1>2, <2>1 DEF Hubs
<1> HIDE DEF done
<1>10. /\ hub'.enabled = hub.enabled /\ hub'.known = hub.known /\ hub'.serving = NoTask
       /\ hub'.prefetch \subseteq hub.prefetch \cup {read}
  BY <1>1, <1>9 DEF Hubs
<1> HIDE DEF task
<1>11. /\ wire' = wire \/ wire' = Send(Ready(task, task.sent))
       /\ UNCHANGED <<uplink, panel, queue, late, sockets>>
  BY <1>1 DEF panelSide
<1>12. read.socket <= sockets
  BY <1>7, <1>8
<1>13. QED
  BY <1>5, <1>6, <1>7, <1>10, <1>11, <1>12, TaskGoesOn

LEMMA ReadyTask ==
    ASSUME ReadyInv, PanelTypes', TaskStep
    PROVE  ReadyInv'
<1>1. PICK task \in hub.prefetch : Prefetched(task) \/ SendUncached(task) \/ SendReady(task)
  BY DEF TaskStep
<1>2. PanelTypes /\ hub \in Hubs /\ sockets \in Nat
  BY HubFields, FaultsOK DEF ReadyInv
<1>3. /\ task \in Tasks /\ task.page \in Pages /\ task.sent \subseteq Variables
      /\ task.read \in Values /\ DOMAIN task.read \subseteq Variables
      /\ task.socket <= sockets
  BY <1>2, TaskFields DEF ReadyInv, Kept, Idle
<1>4. UNCHANGED <<uplink, panel, queue, late, sockets>>
  BY <1>1 DEF Prefetched, SendUncached, SendReady, panelSide
<1>5. task.socket = sockets /\ hub.known /\ ~late =>
          /\ \A v \in task.sent : Given(v, Len(wire))
          /\ task.phase = "ready" => \A v \in DOMAIN task.read : Given(v, Len(wire))
  BY DEF ReadyInv, GivenKept, HubKept
<1>6. CASE Prefetched(task)
  <2>1. PICK got :
          hub' = [hub EXCEPT !.prefetch = (@ \ {task}) \cup
                    {[task EXCEPT !.phase = "sends", !.read = [v \in got |-> plc[v]]]}]
    BY <1>6 DEF Prefetched
  <2> DEFINE values == [v \in got |-> plc[v]]
             new == [task EXCEPT !.phase = "sends", !.read = values]
  <2>2. new.socket = task.socket /\ new.sent = task.sent /\ new.phase = "sends"
    BY <1>3 DEF Tasks
  <2>3. hub' = [hub EXCEPT !.prefetch = (@ \ {task}) \cup {new}]
    BY <2>1
  <2> HIDE DEF new, values
  <2>4. /\ hub'.enabled = hub.enabled /\ hub'.known = hub.known
        /\ hub'.serving = hub.serving /\ hub'.prefetch \subseteq hub.prefetch \cup {new}
    BY <1>2, <2>3 DEF Hubs
  <2>5. wire' = wire /\ Metadata \in HubFrames /\ Says(Metadata)
    BY <1>2, <1>6, MetadataSays DEF Prefetched
  <2>6. QED
    BY <1>3, <1>4, <1>5, <2>2, <2>4, <2>5, TaskGoesOn
<1>7. CASE SendUncached(task)
  <2> DEFINE new == [task EXCEPT !.phase = "ready"]
             frame == Update(task.read)
  <2>1. /\ wire' = IF task.read = None THEN wire ELSE ToAsker(task, frame)
        /\ hub' = [hub EXCEPT !.cache = Over(task.read, @),
                              !.prefetch = (@ \ {task}) \cup {new}]
    BY <1>7 DEF SendUncached
  <2>2. /\ new.socket = task.socket /\ new.sent = task.sent /\ new.read = task.read
    BY <1>3 DEF Tasks
  <2>3. frame \in HubFrames /\ Says(frame)
    BY <1>3, UpdateSays
  <2>4. \A v \in DOMAIN task.read : Carries(frame, v)
    BY DEF Carries, Update
  <2> HIDE DEF new, frame
  <2>5. /\ hub'.enabled = hub.enabled /\ hub'.known = hub.known
        /\ hub'.serving = hub.serving /\ hub'.prefetch \subseteq hub.prefetch \cup {new}
    BY <1>2, <2>1 DEF Hubs
  <2>6. wire' = wire \/ wire' = Send(frame)
    BY <2>1 DEF ToAsker
  <2>7. hub.known /\ wire' = Send(frame) =>
            \A v : Carries(frame, v) => Given(v, Len(wire))'
    BY <1>4, <2>3, <2>5, <2>6, HubSends DEF ReadyInv
  <2>8. ASSUME task.socket = sockets, hub.known
        PROVE  \A v \in DOMAIN task.read : Given(v, Len(wire))'
    <3>1. CASE task.read = None
      BY <3>1 DEF None
    <3>2. CASE task.read # None
      BY <2>1, <2>4, <2>7, <2>8, <3>2 DEF ToAsker
    <3>3. QED
      BY <3>1, <3>2
  <2>9. QED
    BY <1>3, <1>4, <1>5, <2>2, <2>3, <2>5, <2>6, <2>8, TaskGoesOn
<1>8. CASE SendReady(task)
  <2> DEFINE given == task.sent \cup DOMAIN task.read
  <2>1. /\ wire' = ToAsker(task, Ready(task, given)) /\ task.phase = "ready"
        /\ hub' = [hub EXCEPT !.prefetch = @ \ {task}]
    BY <1>8 DEF SendReady
  <2>2. given \in SUBSET Variables
    BY <1>3
  <2>3. /\ hub'.enabled = hub.enabled /\ hub'.known = hub.known
        /\ hub'.serving = hub.serving /\ hub'.prefetch \subseteq hub.prefetch
    BY <1>2, <2>1 DEF Hubs
  <2>4. CASE task.socket = sockets
    <3>1. ~late /\ hub.known => \A v \in given : Given(v, Len(wire))
      BY <1>5, <2>1, <2>4
    <3> HIDE DEF given
    <3>2. Ready(task, given) \in HubFrames /\ Says(Ready(task, given))
      BY <1>3, <2>2, <3>1, ReadySays
    <3>3. wire' = Send(Ready(task, given))
      BY <2>1, <2>4 DEF ToAsker
    <3>4. QED
      BY <1>4, <2>3, <3>2, <3>3, HubQuiet
  <2>5. CASE task.socket # sockets
    <3>1. wire' = wire /\ Metadata \in HubFrames /\ Says(Metadata)
      BY <1>2, <2>1, <2>5, MetadataSays DEF ToAsker
    <3>2. QED
      BY <1>4, <2>3, <3>1, HubQuiet
  <2>6. QED
    BY <2>4, <2>5
<1>9. QED
  BY <1>1, <1>6, <1>7, <1>8

(* What the panel holds, by its parts.                                     *)
LEMMA HeldIs ==
    /\ queue.snapshot # 0 => Held = DOMAIN queue.values
    /\ queue.snapshot = 0 => Held = DOMAIN queue.values \cup DOMAIN panel.values
    /\ DOMAIN queue.values \subseteq Held
BY DEF Held, ReplaceOrApply, Over

LEMMA NoneIsEmpty == DOMAIN None = {} /\ EmptyQueue.values = None /\ EmptyQueue.snapshot = 0
                     /\ EmptyQueue.ready = {} /\ EmptyQueue.given = {}
BY DEF None, EmptyQueue

LEMMA ReadyFlush ==
    ASSUME ReadyInv, PanelTypes', Flush
    PROVE  ReadyInv'
<1> DEFINE gen == IF queue.snapshot = 0 THEN panel.gen ELSE queue.snapshot
           ready == IF queue.ready = {} THEN panel.ready ELSE queue.ready
           given == IF queue.ready = {} THEN panel.given ELSE queue.given
<1>1. /\ panel' = [panel EXCEPT !.values = ReplaceOrApply, !.gen = gen, !.ready = ready,
                                !.given = given]
      /\ queue' = EmptyQueue /\ queue # EmptyQueue
      /\ UNCHANGED <<plc, hub, wire, uplink, seen, sockets, late, events>>
  BY DEF Flush
<1>2. PanelTypes /\ panel \in Panels
  BY PanelFieldsOK DEF ReadyInv
<1>3. /\ panel'.up = panel.up /\ panel'.keys = panel.keys /\ panel'.owes = panel.owes
      /\ panel'.given = given /\ DOMAIN panel'.values = Held
  BY <1>1, <1>2 DEF Panels, Held
<1>4. Held' = Held
  BY <1>1, <1>3, NoneIsEmpty DEF Held, ReplaceOrApply, Over
<1>5. \A v : Gone(v) => Gone(v)'
  BY <1>1, <1>3 DEF Gone
<1>6. \A v, n : Given(v, n) => Given(v, n)'
  BY <1>1, <1>4, <1>5 DEF Given, Delivered
<1>7. Kept'
  <2>1. \A i \in DOMAIN wire : wire[i].type # "var_snapshot" \/ late
    BY <1>1 DEF ReadyInv, Kept, SnapshotFirst
  <2>2. SnapshotFirst'
    BY <1>1, <2>1 DEF ReadyInv, Kept, SnapshotFirst
  <2>3. MetadataShrinks' /\ Idle'
    BY <1>1, <1>3 DEF ReadyInv, Kept, MetadataShrinks, Idle
  <2>4. QED
    BY <2>2, <2>3 DEF Kept
<1>8. ASSUME ~late PROVE GivenKept'
  <2>1. GivenKept
    BY <1>8 DEF ReadyInv
  <2>2. FramesKept' /\ HubKept'
    BY <1>1, <1>6, <2>1 DEF GivenKept, FramesKept, HubKept
  <2>3. QueueKept'
    BY <1>1, NoneIsEmpty DEF QueueKept
  <2>4. StoreKept'
    <3> SUFFICES ASSUME NEW v \in given PROVE v \in Held \/ Gone(v)
      BY <1>3, <1>5 DEF StoreKept
    <3>1. CASE queue.ready = {}
      <4>1. v \in panel.given
        BY <3>1
      <4>2. queue.snapshot = 0
        BY <2>1, <4>1 DEF GivenKept, QueueKept
      <4>3. v \in DOMAIN panel.values \/ Gone(v)
        BY <2>1, <4>1 DEF GivenKept, StoreKept
      <4>4. QED
        BY <4>2, <4>3, HeldIs
    <3>2. CASE queue.ready # {}
      <4>1. Given(v, 0)
        BY <2>1, <3>2 DEF GivenKept, QueueKept
      <4>2. \A j \in DOMAIN wire : ~(j <= 0)
        BY <1>2, WireDomain
      <4>3. QED
        BY <4>1, <4>2 DEF Given, Delivered
    <3>3. QED
      BY <3>1, <3>2
  <2>5. QED
    BY <2>2, <2>3, <2>4 DEF GivenKept
<1>9. QED
  BY <1>1, <1>7, <1>8 DEF ReadyInv

(* The wire when its first frame has been taken.                           *)
LEMMA Shorter ==
    ASSUME PanelTypes, wire # <<>>, wire' = Tail(wire)
    PROVE  /\ 1 \in DOMAIN wire /\ Head(wire) = wire[1] /\ Head(wire) \in Frames
           /\ \A i \in DOMAIN wire' : /\ i \in Nat /\ i > 0 /\ i + 1 \in DOMAIN wire
                                      /\ i + 1 > 1 /\ wire'[i] = wire[i + 1]
           /\ \A i \in DOMAIN wire : i = 1 \/
                 (i \in Nat /\ i - 1 \in DOMAIN wire' /\ wire'[i - 1] = wire[i])
           /\ Len(wire') \in Nat /\ Len(wire) = Len(wire') + 1
BY WireDomain

(* A frame is taken off the wire.  What the panel holds, it keeps, or      *)
(* loses to the frame, which then makes it gone.                           *)
LEMMA ReadyTakes ==
    ASSUME ReadyInv, PanelTypes', Receive, NEW frame, frame = Head(wire),
           panel'.given = panel.given, panel'.owes = panel.owes,
           \A v \in Held : v \in Held' \/ Drops(frame, v) \/ frame.type = "var_snapshot",
           \A v : Carries(frame, v) => v \in Held',
           \A v : v \in panel'.keys => v \in panel.keys \/ Names(frame, v),
           \A v : Drops(frame, v) => v \notin panel'.keys,
           \A v \in DOMAIN panel.values : v \in DOMAIN panel'.values \/ Drops(frame, v),
           queue'.snapshot = queue.snapshot \/ frame.type = "var_snapshot",
           \/ queue'.given = queue.given /\ queue'.ready = queue.ready
           \/ /\ frame.type = "context_ready" /\ queue'.given = frame.given
              /\ queue'.ready # {}
    PROVE  ReadyInv'
<1>1. /\ panel.up /\ wire # <<>> /\ wire' = Tail(wire)
      /\ UNCHANGED <<plc, hub, uplink, sockets, late, events>>
  BY DEF Receive
<1>2. PanelTypes
  BY DEF ReadyInv
<1>3. /\ 1 \in DOMAIN wire /\ frame = wire[1] /\ frame \in Frames
      /\ \A i \in DOMAIN wire' : /\ i \in Nat /\ i > 0 /\ i + 1 \in DOMAIN wire
                                 /\ i + 1 > 1 /\ wire'[i] = wire[i + 1]
      /\ \A i \in DOMAIN wire : i = 1 \/
            (i \in Nat /\ i - 1 \in DOMAIN wire' /\ wire'[i - 1] = wire[i])
      /\ Len(wire') \in Nat /\ Len(wire) = Len(wire') + 1
  BY <1>1, <1>2, Shorter
<1>4. panel'.up
  <2>1. panel' = panel \/ \E keys, boot : panel' = RemoveVars(keys) \/ panel' = SetVarMeta(keys)
                                            \/ panel' = [panel EXCEPT !.boot = boot]
    BY DEF Receive
  <2>2. QED
    BY <1>1, <1>2, <2>1, PanelFieldsOK DEF RemoveVars, SetVarMeta, Panels
<1>5. \A v \in Variables : Drops(frame, v) =>
         v \notin hub.enabled /\ \A j \in DOMAIN wire : j > 1 => ~Names(wire[j], v)
  BY <1>3 DEF ReadyInv, Kept, MetadataShrinks
<1>6. \A v \in Variables : Drops(frame, v) => Gone(v)'
  BY <1>1, <1>3, <1>5 DEF Gone
<1>7. \A v : Gone(v) => Gone(v)'
  BY <1>1, <1>3 DEF Gone
<1>8. MetadataShrinks'
  <2> SUFFICES ASSUME NEW v \in Variables, NEW i \in DOMAIN wire', Drops(wire'[i], v)
               PROVE  /\ v \notin hub.enabled
                      /\ \A j \in DOMAIN wire' : j > i => ~Names(wire'[j], v)
    BY <1>1 DEF MetadataShrinks
  <2>1. i + 1 \in DOMAIN wire /\ wire'[i] = wire[i + 1] /\ i \in Nat
    BY <1>3
  <2>2. /\ v \notin hub.enabled
        /\ \A j \in DOMAIN wire : j > i + 1 => ~Names(wire[j], v)
    BY <2>1 DEF ReadyInv, Kept, MetadataShrinks
  <2>3. \A j \in DOMAIN wire' : j > i => j + 1 > i + 1
    BY <1>3, <2>1
  <2>4. QED
    BY <1>3, <2>2, <2>3
<1>9. \A i \in DOMAIN wire' : wire'[i].type # "var_snapshot"
  <2>1. \A i \in DOMAIN wire : wire[i].type = "var_snapshot" => i = 1
    BY DEF ReadyInv, Kept, SnapshotFirst
  <2>2. \A i \in DOMAIN wire' : i + 1 # 1
    BY <1>3
  <2>3. QED
    BY <1>3, <2>1, <2>2
<1>10. Kept'
  BY <1>1, <1>4, <1>8, <1>9 DEF ReadyInv, Kept, SnapshotFirst, Idle
<1>11. ASSUME ~late PROVE GivenKept'
  <2>1. GivenKept
    BY <1>11 DEF ReadyInv
  <2>2. frame.type = "var_snapshot" => Held = {} /\ panel.given = {}
    <3> SUFFICES ASSUME frame.type = "var_snapshot" PROVE Held = {} /\ panel.given = {}
      OBVIOUS
    <3>1. queue = EmptyQueue /\ panel.given = {} /\ panel.values = None
      BY <1>3, <1>11 DEF ReadyInv, Kept, SnapshotFirst
    <3>2. QED
      BY <3>1, HeldIs, NoneIsEmpty
  <2>3. \A v \in Held : v \in Held' \/ Gone(v)'
    <3> SUFFICES ASSUME NEW v \in Held PROVE v \in Held' \/ Gone(v)'
      OBVIOUS
    <3>1. v \in Variables
      <4>1. queue.values \in Stamped /\ panel.values \in Stamped
        BY <1>2, PanelFieldsOK
      <4>2. DOMAIN queue.values \subseteq Variables /\ DOMAIN panel.values \subseteq Variables
        BY <4>1, StampedMember
      <4>3. QED
        BY <4>2, HeldIs
    <3>2. QED
      BY <1>6, <2>2, <3>1
  <2>4. \A v : \A n \in Nat : Given(v, n + 1) => Given(v, n)'
    <3> SUFFICES ASSUME NEW v, NEW n \in Nat, Given(v, n + 1) PROVE Given(v, n)'
      OBVIOUS
    <3>1. CASE v \in Held \/ Gone(v)
      BY <1>7, <2>3, <3>1 DEF Given, Delivered
    <3>2. CASE \E j \in DOMAIN wire : j <= n + 1 /\ Carries(wire[j], v)
      <4>1. PICK j \in DOMAIN wire : j <= n + 1 /\ Carries(wire[j], v)
        BY <3>2
      <4>2. CASE j = 1
        BY <1>3, <4>1, <4>2 DEF Given, Delivered
      <4>3. CASE j # 1
        <5>1. j - 1 \in DOMAIN wire' /\ wire'[j - 1] = wire[j] /\ j \in Nat
          BY <1>3, <4>3
        <5>2. j - 1 <= n
          BY <4>1, <5>1
        <5>3. QED
          BY <4>1, <5>1, <5>2 DEF Given, Delivered
      <4>4. QED
        BY <4>2, <4>3
    <3>3. QED
      BY <3>1, <3>2 DEF Given, Delivered
  <2>5. FramesKept'
    <3> SUFFICES ASSUME NEW i \in DOMAIN wire', wire'[i].type = "context_ready",
                        NEW v \in wire'[i].given
                 PROVE  Given(v, i)'
      BY DEF FramesKept
    <3>1. i \in Nat /\ i + 1 \in DOMAIN wire /\ wire'[i] = wire[i + 1]
      BY <1>3
    <3>2. Given(v, i + 1)
      BY <2>1, <3>1 DEF GivenKept, FramesKept
    <3>3. QED
      BY <2>4, <3>1, <3>2
  <2>6. QueueKept'
    <3>1. \A v \in queue.given : Given(v, 0)'
      <4>1. \A v \in queue.given : Given(v, 0 + 1)
        <5>1. \A v : \A m, n \in Nat : m <= n => (Given(v, m) => Given(v, n))
          <6>1. \A j \in DOMAIN wire : j \in Nat
            BY <1>2, WireDomain
          <6>2. QED
            BY <6>1 DEF Given, Delivered
        <5>2. QED
          BY <2>1, <5>1 DEF GivenKept, QueueKept
      <4>2. QED
        BY <2>4, <4>1
    <3>2. frame.type = "context_ready" => \A v \in frame.given : Given(v, 0)'
      <4>1. frame.type = "context_ready" => \A v \in frame.given : Given(v, 0 + 1)
        BY <1>3, <2>1 DEF GivenKept, FramesKept
      <4>2. QED
        BY <2>4, <4>1
    <3>3. QED
      BY <2>1, <2>2, <3>1, <3>2 DEF GivenKept, QueueKept
  <2>7. StoreKept'
    <3> SUFFICES ASSUME NEW v \in panel.given
                 PROVE  v \in DOMAIN panel'.values \/ Gone(v)'
      BY DEF StoreKept
    <3>1. v \in Variables
      BY <1>2, PanelFieldsOK
    <3>2. QED
      BY <1>6, <1>7, <2>1, <3>1 DEF GivenKept, StoreKept
  <2>8. HubKept'
    <3>1. \A v : Given(v, Len(wire)) => Given(v, Len(wire))'
      BY <1>3, <2>4
    <3>2. QED
      BY <1>1, <2>1, <3>1 DEF GivenKept, HubKept
  <2>9. QED
    BY <2>5, <2>6, <2>7, <2>8 DEF GivenKept
<1>12. QED
  BY <1>1, <1>10, <1>11 DEF ReadyInv

LEMMA ReadyReceive ==
    ASSUME ReadyInv, PanelTypes', Receive
    PROVE  ReadyInv'
<1> DEFINE frame == Head(wire)
<1>1. PanelTypes /\ panel \in Panels /\ queue \in Queues
  BY PanelFieldsOK DEF ReadyInv
<1>2. CASE /\ frame.type = "var_snapshot"
           /\ queue' = EnqueueSnapshot
           /\ panel' = [panel EXCEPT !.boot = frame.boot]
  <2>1. /\ panel'.given = panel.given /\ panel'.owes = panel.owes
        /\ panel'.keys = panel.keys /\ panel'.values = panel.values
        /\ queue'.given = queue.given /\ queue'.ready = queue.ready
    BY <1>1, <1>2 DEF EnqueueSnapshot, Panels, Queues
  <2>2. \A v : ~Carries(frame, v) /\ ~Drops(frame, v)
    BY <1>2 DEF Carries, Drops, Removes
  <2>3. QED
    BY <1>2, <2>1, <2>2, ReadyTakes
<1>3. CASE /\ frame.type = "var_update"
           /\ queue' = EnqueueUpdate(frame.values)
           /\ UNCHANGED panel
  <2>1. /\ queue'.values = Over(Stamp(frame.values), queue.values)
        /\ queue'.snapshot = queue.snapshot
        /\ queue'.given = queue.given /\ queue'.ready = queue.ready
    BY <1>1, <1>3 DEF EnqueueUpdate, Queues
  <2>2. DOMAIN queue'.values = DOMAIN frame.values \cup DOMAIN queue.values
    BY <2>1 DEF Over, Stamp
  <2>3. \A v \in Held : v \in Held'
    <3>1. Held' = IF queue'.snapshot # 0 THEN DOMAIN queue'.values
                  ELSE DOMAIN queue'.values \cup DOMAIN panel'.values
      BY DEF Held, ReplaceOrApply, Over
    <3>2. QED
      BY <1>3, <2>1, <2>2, <3>1, HeldIs
  <2>4. \A v : Carries(frame, v) => v \in Held'
    <3>1. DOMAIN queue'.values \subseteq Held'
      BY DEF Held, ReplaceOrApply, Over
    <3>2. QED
      BY <2>2, <3>1 DEF Carries
  <2>5. \A v : ~Drops(frame, v)
    BY <1>3 DEF Drops, Removes
  <2>6. QED
    BY <1>3, <2>1, <2>3, <2>4, <2>5, ReadyTakes
<1>4. CASE /\ frame.type = "var_removed" \/ frame.type = "var_metadata"
           /\ panel' = IF frame.type = "var_removed" THEN RemoveVars(frame.keys)
                       ELSE SetVarMeta(frame.keys)
           /\ UNCHANGED queue
  <2>1. /\ panel'.given = panel.given /\ panel'.owes = panel.owes
        /\ queue'.given = queue.given /\ queue'.ready = queue.ready
        /\ queue'.snapshot = queue.snapshot
    BY <1>1, <1>4 DEF RemoveVars, SetVarMeta, Panels
  <2>2. /\ panel'.keys = IF frame.type = "var_removed" THEN panel.keys \ frame.keys
                         ELSE frame.keys
        /\ panel'.values = IF frame.type = "var_removed" THEN Without(panel.values, frame.keys)
                           ELSE Within(panel.values, frame.keys)
    BY <1>1, <1>4 DEF RemoveVars, SetVarMeta, Panels
  <2>3. /\ DOMAIN Without(panel.values, frame.keys) = DOMAIN panel.values \ frame.keys
        /\ DOMAIN Within(panel.values, frame.keys) = DOMAIN panel.values \cap frame.keys
    BY DEF Without, Within, Restrict
  <2>4. \A v : Drops(frame, v) <=>
           IF frame.type = "var_removed" THEN v \in frame.keys ELSE v \notin frame.keys
    BY <1>4 DEF Drops, Removes
  <2>5. \A v \in DOMAIN panel.values : v \in DOMAIN panel'.values \/ Drops(frame, v)
    BY <2>2, <2>3, <2>4
  <2>6. /\ \A v : v \in panel'.keys => v \in panel.keys \/ Names(frame, v)
        /\ \A v : Drops(frame, v) => v \notin panel'.keys
    BY <1>4, <2>2, <2>4 DEF Names
  <2>7. \A v \in Held : v \in Held' \/ Drops(frame, v)
    <3>1. Held' = IF queue.snapshot # 0 THEN DOMAIN queue.values
                  ELSE DOMAIN queue.values \cup DOMAIN panel'.values
      BY <1>4 DEF Held, ReplaceOrApply, Over
    <3>2. QED
      BY <2>5, <3>1, HeldIs
  <2>8. \A v : ~Carries(frame, v)
    BY <1>4 DEF Carries
  <2>9. QED
    BY <2>1, <2>5, <2>6, <2>7, <2>8, ReadyTakes
<1>5. CASE /\ frame.type = "context_ready"
           /\ queue' = IF IsForLastContext(frame)
                       THEN EnqueueReady(frame.page, frame.given) ELSE queue
           /\ UNCHANGED panel
  <2>1. /\ queue'.values = queue.values /\ queue'.snapshot = queue.snapshot
        /\ \/ queue'.given = queue.given /\ queue'.ready = queue.ready
           \/ queue'.given = frame.given /\ queue'.ready # {}
    BY <1>1, <1>5 DEF EnqueueReady, Queues
  <2>2. Held' = Held
    BY <1>5, <2>1 DEF Held, ReplaceOrApply, Over
  <2>3. \A v : ~Carries(frame, v) /\ ~Drops(frame, v)
    BY <1>5 DEF Carries, Drops, Removes
  <2>4. QED
    BY <1>5, <2>1, <2>2, <2>3, ReadyTakes
<1>6. QED
  BY <1>2, <1>3, <1>4, <1>5 DEF Receive

(* The wire and the contexts are gone, and the hub has nothing in hand.    *)
LEMMA ReadyCut ==
    ASSUME ReadyInv, PanelTypes', UNCHANGED <<sockets, late>>,
           wire' = <<>>, uplink' = <<>>, hub'.enabled = hub.enabled,
           ~hub'.known, hub'.serving = NoTask, hub'.prefetch \subseteq hub.prefetch,
           ~panel'.owes, panel'.given = {}, panel'.keys \subseteq panel.keys,
           Held' = Held \/ queue'.given = {}, queue'.given \subseteq queue.given,
           ~late => (queue'.ready = {} => queue'.given = {})
    PROVE  ReadyInv'
<1>1. DOMAIN wire' = {}
  OBVIOUS
<1>2. Kept'
  BY <1>1 DEF ReadyInv, Kept, MetadataShrinks, SnapshotFirst, Idle
<1>3. ASSUME ~late PROVE GivenKept'
  <2>1. FramesKept' /\ StoreKept' /\ HubKept'
    BY <1>1 DEF FramesKept, StoreKept, HubKept
  <2>2. \A v : Gone(v) => Gone(v)'
    BY <1>1 DEF Gone
  <2>3. \A v \in queue'.given : Given(v, 0)'
    <3> SUFFICES ASSUME NEW v \in queue'.given PROVE Given(v, 0)'
      OBVIOUS
    <3>1. Given(v, 0)
      BY <1>3 DEF ReadyInv, GivenKept, QueueKept
    <3>2. \A j \in DOMAIN wire : ~(j <= 0)
      BY WireDomain DEF ReadyInv
    <3>3. v \in Held \/ Gone(v)
      BY <3>1, <3>2 DEF Given, Delivered
    <3>4. QED
      BY <2>2, <3>3 DEF Given, Delivered
  <2>4. QueueKept'
    BY <1>3, <2>3 DEF QueueKept
  <2>5. QED
    BY <2>1, <2>4 DEF GivenKept
<1>4. QED
  BY <1>2, <1>3 DEF ReadyInv

LEMMA ClosedPanel ==
    ASSUME PanelTypes, OnClose, UNCHANGED queue
    PROVE  /\ wire' = <<>> /\ uplink' = <<>> /\ ~panel'.owes /\ panel'.given = {}
           /\ panel'.keys = panel.keys /\ Held' = Held
<1>1. /\ panel' = [panel EXCEPT !.up = FALSE, !.ready = {}, !.given = {}, !.owes = FALSE]
      /\ wire' = <<>> /\ uplink' = <<>>
  BY DEF OnClose
<1>2. /\ ~panel'.owes /\ panel'.given = {} /\ panel'.keys = panel.keys
      /\ panel'.values = panel.values
  BY <1>1, PanelFieldsOK DEF Panels
<1>3. Held' = Held
  BY <1>2 DEF Held, ReplaceOrApply, Over
<1>4. QED
  BY <1>1, <1>2, <1>3

LEMMA DisconnectedKeeps ==
    ASSUME PanelTypes
    PROVE  /\ Disconnected(hub).enabled = hub.enabled
           /\ Disconnected(hub).prefetch = hub.prefetch
           /\ Disconnected(hub).serving = NoTask /\ ~Disconnected(hub).known
BY HubFields DEF Disconnected, Hubs

LEMMA QueueWord ==
    ASSUME ReadyInv
    PROVE  ~late => (queue.ready = {} => queue.given = {})
BY DEF ReadyInv, GivenKept, QueueKept

LEMMA ReadyLost ==
    ASSUME ReadyInv, PanelTypes', ConnectionLost
    PROVE  ReadyInv'
<1>1. /\ OnClose /\ hub' = Disconnected(hub) /\ UNCHANGED <<plc, queue, seen, sockets, late>>
  BY DEF ConnectionLost
<1>2. PanelTypes
  BY DEF ReadyInv
<1>3. QED
  BY <1>1, <1>2, ClosedPanel, DisconnectedKeeps, ReadyCut, QueueWord

LEMMA ReadyReload ==
    ASSUME ReadyInv, PanelTypes', Reload
    PROVE  ReadyInv'
<1>1. /\ panel' = FreshPanel(panel.page) /\ queue' = EmptyQueue
      /\ wire' = <<>> /\ uplink' = <<>> /\ hub' = Disconnected(hub)
      /\ UNCHANGED <<plc, sockets, late, events>>
  BY DEF Reload
<1>2. PanelTypes
  BY DEF ReadyInv
<1>3. ~panel'.owes /\ panel'.given = {} /\ panel'.keys = {}
  BY <1>1 DEF FreshPanel
<1>4. QED
  BY <1>1, <1>2, <1>3, NoneIsEmpty, DisconnectedKeeps, ReadyCut

LEMMA ReadyOpen ==
    ASSUME ReadyInv, PanelTypes', Open
    PROVE  ReadyInv'
<1>1. /\ ~panel.up /\ late' = (late \/ queue # EmptyQueue)
      /\ panel' = [SetConnected(panel) EXCEPT !.owes = TRUE]
      /\ hub' = [hub EXCEPT !.known = TRUE, !.greeting = <<Metadata>>]
      /\ wire' = <<[type |-> "var_snapshot", boot |-> hub.boot]>>
      /\ uplink' = <<>> /\ sockets' = sockets + 1
      /\ UNCHANGED <<plc, queue, seen, events>>
  BY DEF Open
<1>2. PanelTypes /\ hub \in Hubs /\ panel \in Panels /\ sockets \in Nat
  BY HubFields, PanelFieldsOK, FaultsOK DEF ReadyInv
<1>3. panel'.up /\ panel'.given = {} /\ panel'.keys = {} /\ panel'.values = None
  BY <1>1, <1>2 DEF SetConnected, Panels
<1>4. hub'.enabled = hub.enabled /\ hub'.serving = NoTask /\ hub'.prefetch = hub.prefetch
  BY <1>1, <1>2 DEF Hubs, ReadyInv, Kept, Idle
<1>5. /\ DOMAIN wire' = {1} /\ wire'[1].type = "var_snapshot"
  BY <1>1
<1>6. \A task \in hub'.prefetch : task.socket # sockets' /\ task.socket <= sockets'
  <2>1. \A task \in hub.prefetch : task.socket \in Nat /\ task.socket <= sockets
    BY <1>2, HubFields DEF ReadyInv, Kept, Idle, Tasks
  <2>2. QED
    BY <1>1, <1>2, <1>4, <2>1
<1>7. Kept'
  <2>1. MetadataShrinks'
    BY <1>5 DEF MetadataShrinks, Drops, Removes
  <2>2. SnapshotFirst'
    BY <1>1, <1>3, <1>5 DEF SnapshotFirst
  <2>3. Idle'
    BY <1>3, <1>6 DEF Idle
  <2>4. QED
    BY <2>1, <2>2, <2>3 DEF Kept
<1>8. ASSUME ~late' PROVE GivenKept'
  <2>1. queue' = EmptyQueue
    BY <1>1, <1>8
  <2>2. QueueKept'
    BY <2>1, NoneIsEmpty DEF QueueKept
  <2>3. FramesKept' /\ StoreKept' /\ HubKept'
    BY <1>3, <1>4, <1>5, <1>6 DEF FramesKept, StoreKept, HubKept
  <2>4. QED
    BY <2>2, <2>3 DEF GivenKept
<1>9. QED
  BY <1>7, <1>8 DEF ReadyInv

LEMMA ReadyRestart ==
    ASSUME ReadyInv, PanelTypes', Restart
    PROVE  ReadyInv'
<1>1. /\ hub' = [FreshHub(hub.boot + 1) EXCEPT !.enabled = hub.enabled]
      /\ UNCHANGED <<plc, queue, seen, sockets, late>>
      /\ IF panel.up THEN OnClose ELSE UNCHANGED <<panel, wire, uplink>>
  BY DEF Restart
<1>2. PanelTypes
  BY DEF ReadyInv
<1>3. /\ hub'.enabled = hub.enabled /\ hub'.prefetch = {} /\ hub'.serving = NoTask
      /\ ~hub'.known
  BY <1>1 DEF FreshHub
<1>4. CASE panel.up
  BY <1>1, <1>2, <1>3, <1>4, ClosedPanel, ReadyCut, QueueWord
<1>5. CASE ~panel.up
  <2>1. UNCHANGED <<panel, wire, uplink>>
    BY <1>1, <1>5
  <2>2. Held' = Held
    BY <1>1, <2>1, HeldSame
  <2>3. Kept'
    BY <1>1, <1>3, <2>1 DEF ReadyInv, Kept, MetadataShrinks, SnapshotFirst, Idle
  <2>4. \A v : Gone(v) => Gone(v)'
    BY <1>3, <2>1 DEF Gone
  <2>5. \A v, n : Given(v, n) => Given(v, n)'
    BY <2>1, <2>2, <2>4 DEF Given, Delivered
  <2>6. ~late => GivenKept'
    BY <1>1, <1>3, <2>1, <2>4, <2>5
       DEF ReadyInv, GivenKept, FramesKept, QueueKept, StoreKept, HubKept
  <2>7. QED
    BY <1>1, <2>3, <2>6 DEF ReadyInv
<1>6. QED
  BY <1>4, <1>5

(* The operator goes to another page, and the hub is told.                 *)
LEMMA ReadyAsks ==
    ASSUME ReadyInv, PanelTypes', SendContext \/ \E page \in Pages : Navigate(page)
    PROVE  ReadyInv'
<1>1. PanelTypes /\ panel \in Panels
  BY PanelFieldsOK DEF ReadyInv
<1>2. UNCHANGED <<hub, wire, queue, sockets, late>>
  BY DEF SendContext, Navigate
<1>3. /\ panel'.up = panel.up /\ panel'.given = panel.given /\ panel'.keys = panel.keys
      /\ panel'.values = panel.values
      /\ ~panel.up => ~panel'.owes /\ uplink' = uplink
  BY <1>1 DEF SendContext, Navigate, Panels, ReadyInv, Kept, Idle
<1>4. Held' = Held
  BY <1>2, <1>3 DEF Held, ReplaceOrApply, Over
<1>5. Kept'
  BY <1>2, <1>3 DEF ReadyInv, Kept, MetadataShrinks, SnapshotFirst, Idle
<1>6. \A v : Gone(v) => Gone(v)'
  BY <1>2, <1>3 DEF Gone
<1>7. \A v, n : Given(v, n) => Given(v, n)'
  BY <1>2, <1>4, <1>6 DEF Given, Delivered
<1>8. ~late => GivenKept'
  BY <1>2, <1>3, <1>6, <1>7
     DEF ReadyInv, GivenKept, FramesKept, QueueKept, StoreKept, HubKept
<1>9. QED
  BY <1>2, <1>5, <1>8 DEF ReadyInv

LEMMA ReadyStep == ReadyInv /\ [Next]_vars => ReadyInv'
<1> SUFFICES ASSUME ReadyInv, [Next]_vars PROVE ReadyInv'
  OBVIOUS
<1>1. PanelTypes'
  BY PanelTypesStep DEF ReadyInv
<1>2. CASE HubStep
  BY <1>1, <1>2, ReadyBroadcast, ReadyNews, ReadyGreet, ReadyHandle, ReadyApplied, ReadyTask
     DEF HubStep
<1>3. CASE PanelStep
  BY <1>1, <1>3, ReadyFlush, ReadyAsks, ReadyReceive, ReadyReload DEF PanelStep
<1>4. CASE Environment
  <2>1. ASSUME NEW v \in Variables, Report(v) \/ Disable(v) PROVE ReadyInv'
    BY <1>1, <2>1, ReadyReport, ReadyHubEvents
  <2>2. ASSUME NEW page \in Pages, Navigate(page) PROVE ReadyInv'
    BY <1>1, <2>2, ReadyAsks
  <2>3. QED
    BY <1>1, <1>4, <2>1, <2>2, ReadyOpen, ReadyLost, ReadyHubEvents, ReadyRestart
       DEF Environment
<1>5. CASE UNCHANGED vars
  BY <1>1, <1>5 DEF vars, panelSide, ReadyInv, Kept, MetadataShrinks, SnapshotFirst, Idle,
     GivenKept, FramesKept, QueueKept, StoreKept, HubKept, Given, Delivered, Gone, Held,
     ReplaceOrApply, Over
<1>6. QED
  BY <1>2, <1>3, <1>4, <1>5 DEF Next

(* A page that the store shows as ready has the values that the hub sent   *)
(* for it (flushPendingVarUpdates of useWebSocket.ts): the values go       *)
(* ahead of the word that the page is ready on the wire, in the queue and  *)
(* when the queue is put into the store, and what an edit takes away on    *)
(* that way is gone for good.                                              *)
THEOREM ReadyPagesAreComplete == Spec => []ReadyMeansDelivered
<1>1. ReadyInv => ReadyMeansDelivered
  BY DEF ReadyInv, GivenKept, StoreKept, Gone, ReadyMeansDelivered
<1>2. QED
  BY <1>1, ReadyInit, ReadyStep, PTL DEF Spec

(* The action of PageSettles, which is a liveness property besides.        *)
StaysSettled == Settled /\ panel'.up /\ panel'.page = panel.page => Settled'

LEMMA SettledStep == PanelTypes /\ [Next]_vars => StaysSettled
<1> SUFFICES ASSUME PanelTypes, [Next]_vars, Settled, panel'.up, panel'.page = panel.page
             PROVE  Settled'
  BY DEF StaysSettled
<1>1. panel \in Panels /\ queue \in Queues /\ panel.up
  BY PanelFieldsOK DEF Settled
<1>2. CASE /\ panel'.asked = panel.asked /\ queue'.ready = queue.ready
           /\ panel'.ready = panel.ready
  BY <1>1, <1>2 DEF Settled
<1>3. CASE UNCHANGED <<panel, queue>>
  BY <1>1, <1>2, <1>3
<1>4. CASE HubStep
  <2>1. UNCHANGED <<panel, queue>>
    BY <1>4 DEF HubStep, Broadcast, SendNews, Greet, HandleContext, ContextApplied, TaskStep,
       Prefetched, SendUncached, SendReady, panelSide
  <2>2. QED
    BY <1>3, <2>1
<1>5. CASE Flush
  <2>1. /\ queue'.ready = {} /\ panel'.asked = panel.asked
        /\ panel'.ready = IF queue.ready = {} THEN panel.ready ELSE queue.ready
    BY <1>1, <1>5 DEF Flush, EmptyQueue, Panels
  <2>2. QED
    BY <1>1, <2>1 DEF Settled
<1>6. CASE SendContext
  <2>1. panel'.asked = {panel.page} /\ panel'.ready = panel.ready /\ queue' = queue
    BY <1>1, <1>6 DEF SendContext, Panels
  <2>2. QED
    BY <2>1 DEF Settled
<1>7. CASE Receive
  <2>1. panel'.asked = panel.asked /\ panel'.ready = panel.ready
    <3>1. panel' = panel \/ \E keys, boot : panel' = RemoveVars(keys) \/ panel' = SetVarMeta(keys)
                                              \/ panel' = [panel EXCEPT !.boot = boot]
      BY <1>7 DEF Receive
    <3>2. QED
      BY <1>1, <3>1 DEF RemoveVars, SetVarMeta, Panels
  <2>2. queue'.ready = queue.ready \/ queue'.ready = panel.asked
    <3>1. \/ queue' = queue \/ queue' = EnqueueSnapshot
          \/ queue' = EnqueueUpdate(Head(wire).values)
          \/ /\ IsForLastContext(Head(wire))
             /\ queue' = EnqueueReady(Head(wire).page, Head(wire).given)
      BY <1>7 DEF Receive
    <3>2. QED
      BY <1>1, <3>1 DEF EnqueueSnapshot, EnqueueUpdate, EnqueueReady, IsForLastContext, Queues
  <2>3. QED
    BY <1>1, <2>1, <2>2 DEF Settled
<1>8. CASE Reload
  BY <1>8 DEF Reload, FreshPanel
<1>9. CASE Environment
  <2>1. CASE \E page \in Pages : Navigate(page)
    BY <1>1, <2>1 DEF Navigate, Panels
  <2>2. CASE ConnectionLost \/ Restart
    BY <1>1, <2>2, ClosedOK DEF ConnectionLost, Restart
  <2>3. CASE Open
    BY <1>1, <2>3 DEF Open
  <2>4. CASE DropClient \/ \E v \in Variables : Report(v) \/ Disable(v)
    BY <1>3, <2>4 DEF DropClient, Report, Disable, panelSide
  <2>5. QED
    BY <1>9, <2>1, <2>2, <2>3, <2>4 DEF Environment
<1>10. CASE UNCHANGED vars
  BY <1>3, <1>10 DEF vars, panelSide
<1>11. QED
  BY <1>4, <1>5, <1>6, <1>7, <1>8, <1>9, <1>10 DEF Next, PanelStep

(* A page that has settled stays so while it is shown and the connection   *)
(* holds (useWebSocket.ts drops a context_ready that is not for the        *)
(* context sent last): nothing that was on its way before, the snapshot    *)
(* and the answers to earlier contexts included, puts the spinner back.    *)
THEOREM PagesStaySettled == Spec => [][StaysSettled]_vars
BY PanelTypesHold, SettledStep, PTL DEF Spec
=============================================================================
