----------------------------- MODULE WritePath -----------------------------
(***************************************************************************)
(* An operator's write, from the widget to the controller and back.        *)
(*                                                                         *)
(* A widget's writer (hooks/useWriteVariable.ts) checks the value and      *)
(* registers the request with the dispatcher (utils/actionDispatcher.ts),  *)
(* which awaits its outcome: the answer of the backend, ten seconds, or    *)
(* the loss of the connection.  The outcome runs the author's handlers,    *)
(* which may write in turn (utils/widgetActions.ts); those writes are not  *)
(* checked by the panel.  The backend (websocket_manager.py,               *)
(* write_service.py) handles the frames of a connection one by one and     *)
(* awaits the controller.                                                  *)
(*                                                                         *)
(* One panel and one variable.                                             *)
(***************************************************************************)
EXTENDS WriteCoercion, FiniteSets

CONSTANTS
    Requests,    \* the requests that the panel makes
    Cases,       \* what the variable may be, and what may be entered
    MaxFaults    \* bound: losses of the connection and restarts

ASSUME MaxFaultsAssumption == MaxFaults \in Nat
ASSUME CasesAssumption == Cases \subseteq [entry : Entries, value : Payloads]

VARIABLES
    entry,       \* the variable in the registry
    entered,     \* what the operator entered
    told,        \* what the one who made a request has been told of it
    pending,     \* requests whose outcome the dispatcher awaits
    up,          \* the panel's socket is open
    uplink,      \* write_field frames on their way
    wire,        \* answers on their way
    handlers,    \* writes that the backend is carrying out
    landed,      \* history variable: what the controller took of a request
    sockets,     \* connections so far
    faults

vars == <<entry, entered, told, pending, up, uplink, wire, handlers, landed, sockets, faults>>

Outcomes == {"ok", "failed", "lost"}
Unmade == {r \in Requests : told[r] = "unasked"}
NotTaken == One(Refused("nothing was written"))

-----------------------------------------------------------------------------
(* The panel.                                                              *)

(* registerPending and sendWsMessage; without a socket the frame is        *)
(* dropped, and the time limit tells so.                                   *)
Frame(r, payload) == [id |-> r, value |-> Framed(payload)]
Transmit(frames) == uplink' = IF up THEN uplink \o frames ELSE uplink

(* useWriteVariable.                                                       *)
Write(r) ==
    /\ r \in Unmade
    /\ LET sent == Sent(entered, entry)
       IN  IF IsRefused(sent)
           THEN /\ told' = [told EXCEPT ![r] = "refused"]
                /\ UNCHANGED <<pending, uplink>>
           ELSE /\ told' = [told EXCEPT ![r] = "waits"]
                /\ pending' = pending \cup {r}
                /\ Transmit(<<Frame(r, sent)>>)
    /\ UNCHANGED <<entry, entered, up, wire, handlers, landed, sockets, faults>>

(* A continuous writer asks for no answer, and is told only of its own     *)
(* check.                                                                  *)
WriteUntracked(r) ==
    /\ r \in Unmade
    /\ LET sent == Sent(entered, entry)
       IN  IF IsRefused(sent)
           THEN told' = [told EXCEPT ![r] = "refused"] /\ UNCHANGED uplink
           ELSE told' = [told EXCEPT ![r] = "untracked"] /\ Transmit(<<Frame(r, sent)>>)
    /\ UNCHANGED <<entry, entered, pending, up, wire, handlers, landed, sockets, faults>>

(* The handlers of an outcome: each makes no write, or one of its own.     *)
Follow(next) ==
    Transmit(IF next = {} THEN <<>> ELSE <<Frame(CHOOSE r \in next : TRUE, entered)>>)
FollowUps == {{}} \cup {{r} : r \in Unmade}

(* resolvePending: the entry goes, then its handlers run.                  *)
ResolveAnyway(r, outcome) ==
    \E next \in FollowUps :
        /\ told' = [q \in Requests |->
              IF q = r THEN outcome ELSE IF q \in next THEN "waits" ELSE told[q]]
        /\ pending' = (pending \ {r}) \cup next
        /\ Follow(next)

ResolvePending(r, outcome) ==
    IF r \in pending
    THEN \E next \in FollowUps :
            /\ told' = [q \in Requests |->
                  IF q = r THEN outcome ELSE IF q \in next THEN "waits" ELSE told[q]]
            /\ pending' = (pending \ {r}) \cup next
            /\ Follow(next)
    ELSE UNCHANGED <<told, pending, uplink>>

TimeOut(r) ==
    /\ r \in pending
    /\ ResolvePending(r, "lost")
    /\ UNCHANGED <<entry, entered, up, wire, handlers, landed, sockets, faults>>

Receive ==
    /\ up /\ wire # <<>>
    /\ ResolvePending(Head(wire).id, Head(wire).outcome)
    /\ wire' = Tail(wire)
    /\ UNCHANGED <<entry, entered, up, handlers, landed, sockets, faults>>

(* flushAllAsDisconnected: what waited is told; what the handlers write,   *)
(* which is dropped without a socket, waits anew.  Abstracted: frames that *)
(* queue behind one that is being handled are lost with the connection,    *)
(* though the server may have received them and handle them yet.           *)
ClearsAfterHandlers(next) == {}
StillPending(next) == next

Disconnect ==
    /\ up' = FALSE /\ uplink' = <<>> /\ wire' = <<>>
    /\ \E next \in IF pending = {} THEN {{}} ELSE SUBSET Unmade :
          /\ Cardinality(next) <= Cardinality(pending)
          /\ told' = [q \in Requests |->
                IF q \in pending THEN "lost" ELSE IF q \in next THEN "waits" ELSE told[q]]
          /\ pending' = StillPending(next)

ConnectionLost ==
    /\ up /\ faults < MaxFaults /\ faults' = faults + 1
    /\ Disconnect
    /\ UNCHANGED <<entry, entered, handlers, landed, sockets>>

Connect ==
    /\ ~up
    /\ up' = TRUE /\ sockets' = sockets + 1
    /\ UNCHANGED <<entry, entered, told, pending, uplink, wire, handlers, landed, faults>>

-----------------------------------------------------------------------------
(* The backend.                                                            *)

Answer(handler, outcome) ==
    wire' = IF up /\ handler.socket = sockets /\ told[handler.id] # "untracked"
            THEN Append(wire, [id |-> handler.id, outcome |-> outcome]) ELSE wire

(* A frame is handled when the one before it is: what it asks is checked,  *)
(* and refused, ...                                                        *)
HandleWrite ==
    /\ up /\ uplink # <<>> /\ \A h \in handlers : h.socket # sockets
    /\ LET handler == [id |-> Head(uplink).id, socket |-> sockets,
                       value |-> Written(Head(uplink).value, entry)]
       IN  IF IsRefused(handler.value)
           THEN Answer(handler, "failed") /\ UNCHANGED handlers
           ELSE handlers' = handlers \cup {handler} /\ UNCHANGED wire
    /\ uplink' = Tail(uplink)
    /\ UNCHANGED <<entry, entered, told, pending, up, landed, sockets, faults>>

(* ... or written to the controller.  The handler of a connection that is  *)
(* gone goes on.  An element that the array does not have cannot be        *)
(* written; a write that fails may have reached the controller.            *)
Land(handler) == landed' = [landed EXCEPT ![handler.id] = handler.value]

WriteNode(handler) ==
    /\ handler \in handlers
    /\ \/ entry.index # "beyond" /\ Land(handler) /\ Answer(handler, "ok")
       \/ /\ landed' = landed \/ Land(handler)
          /\ Answer(handler, "failed")
    /\ handlers' = handlers \ {handler}
    /\ UNCHANGED <<entry, entered, told, pending, up, uplink, sockets, faults>>

(* The backend restarts; what it was doing is not done.                    *)
Restart ==
    /\ faults < MaxFaults /\ faults' = faults + 1
    /\ IF up THEN Disconnect ELSE UNCHANGED <<told, pending, up, uplink, wire>>
    /\ handlers' = {}
    /\ UNCHANGED <<entry, entered, landed, sockets>>

-----------------------------------------------------------------------------
Init ==
    /\ \E case \in Cases : entry = case.entry /\ entered = case.value
    /\ told = [r \in Requests |-> "unasked"]
    /\ pending = {} /\ up = TRUE
    /\ uplink = <<>> /\ wire = <<>> /\ handlers = {}
    /\ landed = [r \in Requests |-> NotTaken]
    /\ sockets = 1 /\ faults = 0

Next ==
    \/ \E r \in Requests : Write(r) \/ WriteUntracked(r) \/ TimeOut(r)
    \/ Receive \/ HandleWrite \/ \E h \in handlers : WriteNode(h)
    \/ ConnectionLost \/ Connect \/ Restart

(* Timers run.                                                             *)
Spec == Init /\ [][Next]_vars /\ \A r \in Requests : WF_vars(TimeOut(r))

-----------------------------------------------------------------------------
(* Properties.                                                             *)

(* What a browse may say of a type: the truth, nothing, or of a Float that *)
(* it is a Double and the reverse.                                         *)
Honest ==
    \/ entry.wire \in {"unknown", VariantType(entry.label)}
    \/ entry.label \notin Types
    \/ {entry.label, entry.wire} = {"float", "double"}

(* The two sides judge a range by different numbers.  A bound beyond 2^53  *)
(* is a double in the panel and its exact digits in the backend: with a    *)
(* maximum of 2^63, saved as 9223372036854776000, the panel refuses the    *)
(* digits 9223372036854775900 and the backend takes them; and a range may  *)
(* be crossed, and so not enforced, on one side only.  Of a field of which *)
(* it knows only the range, the panel also compares digits as they are,    *)
(* the backend the double that a Float makes of them.  It all takes digits *)
(* that no double holds, or two bounds that no double tells apart.         *)
DigitsBeyondDoubles ==
    \E i \in DOMAIN entered.items :
        entered.items[i].kind = "integer text"
            /\ Double(entered.items[i].is) # entered.items[i].is
ComparedAlike ==
    /\ RangeBounds(PanelEntry(entry)) = PanelEntry(RangeBounds(entry))
    /\ DigitsBeyondDoubles =>
          /\ PanelEntry(entry) = entry
          /\ ~(entry.knows = "range" /\ entry.label \in FloatTypes)

(* The check of the panel is a pre-flight: a value that the backend would  *)
(* write as it was entered is let through, and the same is written.        *)
PreflightChangesNothing ==
    LET asEntered == Written(Framed(entered), entry)
    IN  Honest /\ ComparedAlike /\ ~IsRefused(asEntered) =>
            \A r \in Requests :
                /\ told[r] # "refused"
                /\ landed[r] \in {NotTaken, asEntered}

(* What is told of a request is final, and of a success it is true: the    *)
(* controller took the value.                                              *)
AnswersAreTrue ==
    [][\A r \in Requests :
         /\ told[r] \in Outcomes \cup {"refused"} => told'[r] = told[r]
         /\ told'[r] = "ok" => landed'[r] # NotTaken
         /\ told'[r] = "refused" => landed'[r] = NotTaken]_vars

(* Every request that waits is told, also one that a handler makes of the  *)
(* loss of the connection (flushAllAsDisconnected).                        *)
EveryWriteIsTold == \A r \in Requests : told[r] = "waits" ~> told[r] # "waits"
=============================================================================
