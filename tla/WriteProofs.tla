---------------------------- MODULE WriteProofs ----------------------------
(***************************************************************************)
(* What the panel is told of its writes, and what its check does to them,  *)
(* for any requests, variables, values and number of faults.               *)
(*                                                                         *)
(* A request that waits may still be told anything; the invariant says     *)
(* what is true of an answer while it is on its way: the controller has    *)
(* what a success is about, and a request that was never sent has no frame *)
(* and no handler that could reach the controller later.                   *)
(*                                                                         *)
(* That the panel's check is harmless is shown of one item first, for each *)
(* type that the metadata may name a variable and each that it may have,   *)
(* then of payloads, then of what a browse can make known of a variable;   *)
(* the invariant of the steps adds that nothing is written but the value   *)
(* that was entered and the one that the check made of it.                 *)
(***************************************************************************)
EXTENDS WritePath, TLAPS, NaturalsInduction, WellFoundedInduction

Words == {"unasked", "refused", "untracked", "waits"} \cup Outcomes
Answers == [id : Requests, outcome : {"ok", "failed"}]
Frames == [id : Requests, value : {Framed(entered), Framed(Sent(entered, entry))}]
Asked == {r \in Requests : told[r] \notin {"unasked", "refused"}}

TypeInv ==
    /\ told \in [Requests -> Words]
    /\ uplink \in Seq(Frames) /\ wire \in Seq(Answers)
    /\ landed = [r \in Requests |-> landed[r]]
    /\ \A h \in handlers : ~IsRefused(h.value)
PendingInv == \A r \in pending : r \in Requests /\ told[r] = "waits"
UplinkInv == \A i \in 1..Len(uplink) : uplink[i].id \in Asked
HandlersInv == \A h \in handlers : h.id \in Asked
WireInv == \A i \in 1..Len(wire) : wire[i].outcome = "ok" => landed[wire[i].id] # NotTaken
LandedInv ==
    \A r \in Requests :
        /\ told[r] = "ok" => landed[r] # NotTaken
        /\ r \notin Asked => landed[r] = NotTaken
AnswersInv ==
    TypeInv /\ PendingInv /\ UplinkInv /\ HandlersInv /\ WireInv /\ LandedInv

(* What a step may do to the words: an outcome is final, and what was      *)
(* asked of the backend stays so.                                          *)
Final ==
    /\ told' \in [Requests -> Words]
    /\ \A r \in Requests : told[r] \in Outcomes \cup {"refused"} => told'[r] = told[r]
    /\ Asked \subseteq Asked'

LEMMA NotTakenIsRefused == IsRefused(NotTaken)
<1> DEFINE nothing == Refused("nothing was written")
<1>1. NotTaken.items = <<nothing>>
  BY DEF NotTaken, One
<1>2. 1 \in DOMAIN NotTaken.items /\ NotTaken.items[1] = nothing
  <2>1. 1 \in DOMAIN <<nothing>> /\ <<nothing>>[1] = nothing
    OBVIOUS
  <2>2. QED
    BY <1>1, <2>1
<1>3. Refused("nothing was written").kind = "refused"
  BY DEF Refused
<1>4. QED
  BY <1>2, <1>3 DEF IsRefused

LEMMA AnswersInit == Init => AnswersInv
<1>1. SUFFICES ASSUME Init PROVE AnswersInv
  OBVIOUS
<1>2. /\ told = [r \in Requests |-> "unasked"] /\ landed = [r \in Requests |-> NotTaken]
      /\ uplink = <<>> /\ wire = <<>> /\ handlers = {} /\ pending = {}
  BY <1>1 DEF Init
<1>3. TypeInv
  BY <1>2 DEF TypeInv, Words
<1>4. QED
  BY <1>2, <1>3 DEF AnswersInv, PendingInv, UplinkInv, HandlersInv, WireInv, LandedInv, Asked

(* What the panel sends is asked of the backend.                           *)
LEMMA TransmitKeeps ==
    ASSUME AnswersInv, Final, UNCHANGED <<entered, entry>>,
           NEW frames \in Seq(Frames), Transmit(frames),
           \A i \in 1..Len(frames) : frames[i].id \in Asked'
    PROVE  UplinkInv' /\ (uplink \in Seq(Frames))'
<1>1. Frames' = Frames
  BY DEF Frames
<1>2. uplink' = uplink \o frames \/ uplink' = uplink
  BY DEF Transmit
<1>3. uplink \in Seq(Frames) /\ \A i \in 1..Len(uplink) : uplink[i].id \in Asked'
  BY DEF AnswersInv, TypeInv, UplinkInv, Final
<1>4. CASE uplink' = uplink
  BY <1>1, <1>3, <1>4 DEF UplinkInv
<1>5. CASE uplink' = uplink \o frames
  <2>1. uplink' \in Seq(Frames)
    BY <1>3, <1>5
  <2>2. \A i \in 1..Len(uplink') : uplink'[i].id \in Asked'
    BY <1>3, <1>5
  <2>3. QED
    BY <1>1, <2>1, <2>2 DEF UplinkInv
<1>6. QED
  BY <1>2, <1>4, <1>5

(* A step that tells, and takes nothing to the controller.                 *)
LEMMA TellingKeeps ==
    ASSUME AnswersInv, Final, UNCHANGED landed, handlers' \subseteq handlers,
           \A r \in Requests : told'[r] = "ok" => told[r] = "ok" \/ landed[r] # NotTaken
    PROVE  HandlersInv' /\ LandedInv' /\ \A h \in handlers' : ~IsRefused(h.value)
<1>1. HandlersInv'
  BY DEF AnswersInv, HandlersInv, Final
<1>2. LandedInv'
  BY DEF AnswersInv, LandedInv, Final
<1>3. QED
  BY <1>1, <1>2 DEF AnswersInv, TypeInv

LEMMA WriteKeeps ==
    ASSUME AnswersInv, NEW r \in Requests, Write(r)
    PROVE  AnswersInv' /\ Final
<1>1. /\ told[r] = "unasked" /\ told \in [Requests -> Words]
      /\ UNCHANGED <<entry, entered, wire, handlers, landed>>
  BY DEF Write, Unmade, AnswersInv, TypeInv
<1>2. CASE IsRefused(Sent(entered, entry))
  <2>1. told' = [told EXCEPT ![r] = "refused"] /\ UNCHANGED <<pending, uplink>>
    BY <1>2 DEF Write
  <2>2. Final
    BY <1>1, <2>1 DEF Final, Words, Asked, Outcomes
  <2>3. HandlersInv' /\ LandedInv' /\ \A h \in handlers' : ~IsRefused(h.value)
    BY <1>1, <2>1, <2>2, TellingKeeps DEF Words
  <2>4. PendingInv' /\ WireInv'
    BY <1>1, <2>1 DEF AnswersInv, PendingInv, WireInv
  <2>5. UplinkInv' /\ (uplink \in Seq(Frames))'
    BY <1>1, <2>1, <2>2 DEF AnswersInv, TypeInv, UplinkInv, Final, Frames
  <2>6. TypeInv'
    BY <1>1, <2>2, <2>3, <2>5 DEF AnswersInv, TypeInv, Final, Answers
  <2>7. QED
    BY <2>2, <2>3, <2>4, <2>5, <2>6 DEF AnswersInv
<1>3. CASE ~IsRefused(Sent(entered, entry))
  <2> DEFINE frames == <<Frame(r, Sent(entered, entry))>>
  <2>1. /\ told' = [told EXCEPT ![r] = "waits"] /\ pending' = pending \cup {r}
        /\ Transmit(frames)
    BY <1>3 DEF Write
  <2>2. Final
    BY <1>1, <2>1 DEF Final, Words, Asked, Outcomes
  <2>3. HandlersInv' /\ LandedInv' /\ \A h \in handlers' : ~IsRefused(h.value)
    BY <1>1, <2>1, <2>2, TellingKeeps DEF Words
  <2>4. PendingInv' /\ WireInv'
    BY <1>1, <2>1 DEF AnswersInv, PendingInv, WireInv
  <2>5. frames \in Seq(Frames) /\ \A i \in 1..Len(frames) : frames[i].id \in Asked'
    BY <1>1, <2>1 DEF Frame, Frames, Asked, Words
  <2>6. UplinkInv' /\ (uplink \in Seq(Frames))'
    BY <1>1, <2>1, <2>2, <2>5, TransmitKeeps
  <2>7. TypeInv'
    BY <1>1, <2>2, <2>3, <2>6 DEF AnswersInv, TypeInv, Final, Answers
  <2>8. QED
    BY <2>2, <2>3, <2>4, <2>6, <2>7 DEF AnswersInv
<1>4. QED
  BY <1>2, <1>3

LEMMA WriteUntrackedKeeps ==
    ASSUME AnswersInv, NEW r \in Requests, WriteUntracked(r)
    PROVE  AnswersInv' /\ Final
<1>1. /\ told[r] = "unasked" /\ told \in [Requests -> Words]
      /\ UNCHANGED <<entry, entered, pending, wire, handlers, landed>>
  BY DEF WriteUntracked, Unmade, AnswersInv, TypeInv
<1>2. told' = [told EXCEPT ![r] = "refused"] \/ told' = [told EXCEPT ![r] = "untracked"]
  BY DEF WriteUntracked
<1>3. Final
  BY <1>1, <1>2 DEF Final, Words, Asked, Outcomes
<1>4. HandlersInv' /\ LandedInv' /\ \A h \in handlers' : ~IsRefused(h.value)
  BY <1>1, <1>2, <1>3, TellingKeeps DEF Words
<1>5. PendingInv' /\ WireInv'
  BY <1>1, <1>2 DEF AnswersInv, PendingInv, WireInv
<1>6. UplinkInv' /\ (uplink \in Seq(Frames))'
  <2>1. CASE IsRefused(Sent(entered, entry))
    <3>1. UNCHANGED uplink
      BY <2>1 DEF WriteUntracked
    <3>2. QED
      BY <1>1, <1>3, <3>1 DEF AnswersInv, TypeInv, UplinkInv, Final, Frames
  <2>2. CASE ~IsRefused(Sent(entered, entry))
    <3> DEFINE frames == <<Frame(r, Sent(entered, entry))>>
    <3>1. told' = [told EXCEPT ![r] = "untracked"] /\ Transmit(frames)
      BY <2>2 DEF WriteUntracked
    <3>2. frames \in Seq(Frames) /\ \A i \in 1..Len(frames) : frames[i].id \in Asked'
      BY <1>1, <3>1 DEF Frame, Frames, Asked, Words
    <3>3. QED
      BY <1>1, <1>3, <3>1, <3>2, TransmitKeeps
  <2>3. QED
    BY <2>1, <2>2
<1>7. TypeInv'
  BY <1>1, <1>3, <1>4, <1>6 DEF AnswersInv, TypeInv, Final, Answers
<1>8. QED
  BY <1>3, <1>4, <1>5, <1>6, <1>7 DEF AnswersInv

(* An outcome, true if it is a success, with the writes of its handlers.   *)
LEMMA ResolveKeeps ==
    ASSUME AnswersInv, NEW r, NEW outcome \in Outcomes, ResolvePending(r, outcome),
           outcome = "ok" => landed[r] # NotTaken,
           UNCHANGED <<entry, entered, handlers, landed>>
    PROVE  /\ Final /\ PendingInv' /\ HandlersInv' /\ LandedInv'
           /\ UplinkInv' /\ (uplink \in Seq(Frames))'
           /\ \A h \in handlers' : ~IsRefused(h.value)
<1>1. told \in [Requests -> Words] /\ \A q \in pending : q \in Requests /\ told[q] = "waits"
  BY DEF AnswersInv, TypeInv, PendingInv
<1>2. CASE r \notin pending
  <2>1. UNCHANGED <<told, pending, uplink>>
    BY <1>2 DEF ResolvePending
  <2>2. Final
    BY <1>1, <2>1 DEF Final, Asked
  <2>3. HandlersInv' /\ LandedInv' /\ \A h \in handlers' : ~IsRefused(h.value)
    BY <1>1, <2>1, <2>2, TellingKeeps
  <2>4. PendingInv' /\ UplinkInv' /\ (uplink \in Seq(Frames))'
    BY <2>1, <2>2 DEF AnswersInv, PendingInv, UplinkInv, TypeInv, Frames, Final
  <2>5. QED
    BY <2>2, <2>3, <2>4
<1>3. CASE r \in pending
  <2>1. PICK next \in FollowUps :
          /\ told' = [q \in Requests |->
                IF q = r THEN outcome ELSE IF q \in next THEN "waits" ELSE told[q]]
          /\ pending' = (pending \ {r}) \cup next
          /\ Follow(next)
    BY <1>3 DEF ResolvePending
  <2>2. next \subseteq Requests /\ \A q \in next : told[q] = "unasked"
    BY DEF FollowUps, Unmade
  <2>3. Final
    BY <1>1, <1>3, <2>1, <2>2 DEF Final, Words, Asked, Outcomes
  <2>4. HandlersInv' /\ LandedInv' /\ \A h \in handlers' : ~IsRefused(h.value)
    BY <1>1, <1>3, <2>1, <2>2, <2>3, TellingKeeps
  <2>5. PendingInv'
    BY <1>1, <1>3, <2>1, <2>2 DEF PendingInv
  <2>6. UplinkInv' /\ (uplink \in Seq(Frames))'
    <3>1. CASE next = {}
      <4>1. Transmit(<<>>) /\ <<>> \in Seq(Frames)
        BY <2>1, <3>1 DEF Follow
      <4>2. \A i \in 1..Len(<<>>) : <<>>[i].id \in Asked'
        OBVIOUS
      <4>3. QED
        BY <2>3, <4>1, <4>2, TransmitKeeps
    <3>2. CASE next # {}
      <4>1. PICK asked \in next : asked = CHOOSE q \in next : TRUE
        BY <3>2
      <4> DEFINE frames == <<Frame(asked, entered)>>
      <4>2. asked \in Requests /\ asked \in Asked'
        <5>1. asked \in Requests /\ asked \notin pending /\ asked # r
          BY <1>1, <1>3, <2>2, <4>1
        <5>2. told'[asked] = "waits"
          BY <2>1, <4>1, <5>1
        <5>3. QED
          BY <5>1, <5>2 DEF Asked
      <4>3. Transmit(frames)
        BY <2>1, <3>2, <4>1 DEF Follow
      <4>4. frames \in Seq(Frames) /\ \A i \in 1..Len(frames) : frames[i].id \in Asked'
        <5>1. Frame(asked, entered) \in Frames /\ Frame(asked, entered).id = asked
          BY <4>2 DEF Frame, Frames
        <5>2. Len(frames) = 1 /\ frames[1] = Frame(asked, entered)
          OBVIOUS
        <5>3. frames \in Seq(Frames)
          BY <5>1
        <5>4. QED
          BY <4>2, <5>1, <5>2, <5>3
      <4>5. QED
        BY <2>3, <4>3, <4>4, TransmitKeeps
    <3>3. QED
      BY <3>1, <3>2
  <2>7. QED
    BY <2>3, <2>4, <2>5, <2>6
<1>4. QED
  BY <1>2, <1>3

LEMMA TimeOutKeeps ==
    ASSUME AnswersInv, NEW r \in Requests, TimeOut(r)
    PROVE  AnswersInv' /\ Final
<1>1. /\ ResolvePending(r, "lost") /\ "lost" \in Outcomes
      /\ UNCHANGED <<entry, entered, wire, handlers, landed>>
  BY DEF TimeOut, Outcomes
<1>2. /\ Final /\ PendingInv' /\ HandlersInv' /\ LandedInv'
      /\ UplinkInv' /\ (uplink \in Seq(Frames))'
      /\ \A h \in handlers' : ~IsRefused(h.value)
  BY <1>1, ResolveKeeps
<1>3. TypeInv' /\ WireInv'
  BY <1>1, <1>2 DEF AnswersInv, TypeInv, WireInv, Final, Answers
<1>4. QED
  BY <1>2, <1>3 DEF AnswersInv

LEMMA ReceiveKeeps ==
    ASSUME AnswersInv, Receive
    PROVE  AnswersInv' /\ Final
<1>1. /\ wire \in Seq(Answers) /\ wire # <<>> /\ wire' = Tail(wire)
      /\ ResolvePending(Head(wire).id, Head(wire).outcome)
      /\ UNCHANGED <<entry, entered, handlers, landed>>
  BY DEF Receive, AnswersInv, TypeInv
<1>2. Head(wire) = wire[1] /\ 1 \in 1..Len(wire) /\ wire[1] \in Answers
  BY <1>1
<1>3. /\ Head(wire).outcome \in Outcomes
      /\ Head(wire).outcome = "ok" => landed[Head(wire).id] # NotTaken
  BY <1>2 DEF Answers, Outcomes, AnswersInv, WireInv
<1>4. /\ Final /\ PendingInv' /\ HandlersInv' /\ LandedInv'
      /\ UplinkInv' /\ (uplink \in Seq(Frames))'
      /\ \A h \in handlers' : ~IsRefused(h.value)
  BY <1>1, <1>3, ResolveKeeps
<1>5. /\ Tail(wire) \in Seq(Answers) /\ Len(Tail(wire)) = Len(wire) - 1
      /\ \A i \in 1..Len(Tail(wire)) : i + 1 \in 1..Len(wire) /\ Tail(wire)[i] = wire[i + 1]
  BY <1>1
<1>6. WireInv'
  BY <1>1, <1>5 DEF AnswersInv, WireInv
<1>7. TypeInv'
  BY <1>1, <1>4, <1>5 DEF AnswersInv, TypeInv, Final, Answers
<1>8. QED
  BY <1>4, <1>6, <1>7 DEF AnswersInv

(* The panel is without a connection: what waited is lost.                 *)
LEMMA DisconnectKeeps ==
    ASSUME AnswersInv, Disconnect, UNCHANGED <<entry, entered, landed>>,
           handlers' \subseteq handlers
    PROVE  AnswersInv' /\ Final
<1>1. told \in [Requests -> Words] /\ \A q \in pending : q \in Requests /\ told[q] = "waits"
  BY DEF AnswersInv, TypeInv, PendingInv
<1>2. PICK next \in IF pending = {} THEN {{}} ELSE SUBSET Unmade :
        /\ told' = [q \in Requests |->
              IF q \in pending THEN "lost" ELSE IF q \in next THEN "waits" ELSE told[q]]
        /\ pending' = next
  BY DEF Disconnect, StillPending
<1>3. next \subseteq Requests /\ \A q \in next : told[q] = "unasked"
  BY <1>2 DEF Unmade
<1>4. Final
  BY <1>1, <1>2, <1>3 DEF Final, Words, Asked, Outcomes
<1>5. HandlersInv' /\ LandedInv' /\ \A h \in handlers' : ~IsRefused(h.value)
  BY <1>1, <1>2, <1>3, <1>4, TellingKeeps
<1>6. PendingInv'
  BY <1>1, <1>2, <1>3 DEF PendingInv
<1>7. uplink' = <<>> /\ wire' = <<>>
  BY DEF Disconnect
<1>8. UplinkInv' /\ WireInv'
  BY <1>7 DEF UplinkInv, WireInv
<1>9. TypeInv'
  BY <1>4, <1>5, <1>7 DEF AnswersInv, TypeInv, Final
<1>10. QED
  BY <1>4, <1>5, <1>6, <1>8, <1>9 DEF AnswersInv

(* An answer is true of what the controller has.                           *)
LEMMA AnswerKeeps ==
    ASSUME AnswersInv, NEW handler, handler.id \in Requests,
           NEW outcome \in {"ok", "failed"}, Answer(handler, outcome),
           outcome = "ok" => landed'[handler.id] # NotTaken,
           \A r \in Requests : landed[r] # NotTaken => landed'[r] # NotTaken
    PROVE  WireInv' /\ wire' \in Seq(Answers)
<1> DEFINE answer == [id |-> handler.id, outcome |-> outcome]
<1>1. wire \in Seq(Answers) /\ answer \in Answers
  BY DEF AnswersInv, TypeInv, Answers
<1>2. wire' = wire \/ wire' = Append(wire, answer)
  BY DEF Answer
<1>3. \A i \in 1..Len(wire) : /\ wire[i].id \in Requests
                              /\ wire[i].outcome = "ok" => landed'[wire[i].id] # NotTaken
  <2>1. \A i \in 1..Len(wire) : wire[i] \in Answers
    BY <1>1
  <2>2. QED
    BY <2>1 DEF AnswersInv, WireInv, Answers
<1>4. CASE wire' = wire
  BY <1>1, <1>3, <1>4 DEF WireInv, NotTaken
<1>5. CASE wire' = Append(wire, answer)
  <2>1. wire' \in Seq(Answers) /\ Len(wire') = Len(wire) + 1
    BY <1>1, <1>5
  <2>2. ASSUME NEW i \in 1..Len(wire')
        PROVE  wire'[i] = answer \/ (i \in 1..Len(wire) /\ wire'[i] = wire[i])
    BY <1>1, <1>5, <2>1
  <2>3. \A i \in 1..Len(wire') : wire'[i].outcome = "ok" => landed'[wire'[i].id] # NotTaken
    BY <1>3, <2>2
  <2>4. QED
    BY <2>1, <2>3 DEF WireInv, NotTaken
<1>6. QED
  BY <1>2, <1>4, <1>5

LEMMA HandleWriteKeeps ==
    ASSUME AnswersInv, HandleWrite
    PROVE  AnswersInv' /\ Final
<1> DEFINE handler == [id |-> Head(uplink).id, socket |-> sockets,
                       value |-> Written(Head(uplink).value, entry)]
<1>1. /\ uplink \in Seq(Frames) /\ uplink # <<>> /\ uplink' = Tail(uplink)
      /\ UNCHANGED <<entry, entered, told, pending, landed>>
  BY DEF HandleWrite, AnswersInv, TypeInv
<1>2. IF IsRefused(handler.value)
      THEN Answer(handler, "failed") /\ UNCHANGED handlers
      ELSE handlers' = handlers \cup {handler} /\ UNCHANGED wire
  BY DEF HandleWrite
<1>3. Head(uplink) = uplink[1] /\ 1 \in 1..Len(uplink)
  BY <1>1
<1>4. handler.id \in Asked /\ handler.id \in Requests
  BY <1>3 DEF AnswersInv, UplinkInv, Asked
<1>5. Final /\ PendingInv' /\ LandedInv'
  BY <1>1 DEF AnswersInv, TypeInv, Final, Asked, PendingInv, LandedInv
<1>6. HandlersInv' /\ \A h \in handlers' : ~IsRefused(h.value)
  BY <1>1, <1>2, <1>4 DEF AnswersInv, TypeInv, HandlersInv, Asked
<1>7. WireInv' /\ wire' \in Seq(Answers)
  <2>1. CASE IsRefused(handler.value)
    <3>1. Answer(handler, "failed")
      BY <1>2, <2>1
    <3>2. QED
      BY <1>1, <1>4, <3>1, AnswerKeeps
  <2>2. CASE ~IsRefused(handler.value)
    BY <1>1, <1>2, <2>2 DEF AnswersInv, TypeInv, WireInv
  <2>3. QED
    BY <2>1, <2>2
<1>8. UplinkInv' /\ (uplink \in Seq(Frames))'
  <2>1. /\ Tail(uplink) \in Seq(Frames) /\ Len(Tail(uplink)) = Len(uplink) - 1
        /\ \A i \in 1..Len(Tail(uplink)) :
              i + 1 \in 1..Len(uplink) /\ Tail(uplink)[i] = uplink[i + 1]
    BY <1>1
  <2>2. QED
    BY <1>1, <2>1 DEF AnswersInv, UplinkInv, Asked, Frames
<1>9. TypeInv'
  BY <1>1, <1>5, <1>6, <1>7, <1>8 DEF AnswersInv, TypeInv, Answers
<1>10. QED
  BY <1>5, <1>6, <1>7, <1>8, <1>9 DEF AnswersInv

(* What is not refused is not nothing: a write that lands is seen.         *)
LEMMA WriteNodeKeeps ==
    ASSUME AnswersInv, NEW handler \in handlers, WriteNode(handler)
    PROVE  AnswersInv' /\ Final
<1>1. /\ handlers' = handlers \ {handler}
      /\ UNCHANGED <<entry, entered, told, pending, uplink>>
  BY DEF WriteNode
<1>2. /\ handler.id \in Asked /\ handler.id \in Requests
      /\ handler.value # NotTaken
  BY NotTakenIsRefused DEF AnswersInv, TypeInv, HandlersInv, Asked
<1>3. landed' = landed \/ landed' = [landed EXCEPT ![handler.id] = handler.value]
  BY DEF WriteNode, Land
<1>4. /\ landed' = [r \in Requests |-> landed'[r]]
      /\ \A r \in Requests : landed[r] # NotTaken => landed'[r] # NotTaken
      /\ \A r \in Requests : r \notin Asked => landed'[r] = landed[r]
  BY <1>2, <1>3 DEF AnswersInv, TypeInv
<1>5. WireInv' /\ wire' \in Seq(Answers)
  <2>1. CASE Land(handler) /\ Answer(handler, "ok")
    <3>1. landed'[handler.id] # NotTaken
      BY <1>2, <2>1 DEF Land, AnswersInv, TypeInv
    <3>2. QED
      BY <1>2, <1>4, <2>1, <3>1, AnswerKeeps
  <2>2. CASE Answer(handler, "failed")
    BY <1>2, <1>4, <2>2, AnswerKeeps
  <2>3. QED
    BY <2>1, <2>2 DEF WriteNode
<1>6. Final /\ PendingInv' /\ UplinkInv' /\ HandlersInv'
  BY <1>1 DEF AnswersInv, TypeInv, Final, Asked, PendingInv, UplinkInv, HandlersInv
<1>7. LandedInv'
  BY <1>1, <1>4 DEF AnswersInv, LandedInv, Asked, NotTaken
<1>8. TypeInv'
  BY <1>1, <1>4, <1>5 DEF AnswersInv, TypeInv, Frames, Answers
<1>9. QED
  BY <1>5, <1>6, <1>7, <1>8 DEF AnswersInv

LEMMA StutterKeeps ==
    ASSUME AnswersInv,
           UNCHANGED <<entry, entered, told, pending, uplink, wire, landed>>,
           handlers' \subseteq handlers
    PROVE  AnswersInv' /\ Final
<1>1. Final /\ PendingInv' /\ UplinkInv' /\ HandlersInv'
  BY DEF AnswersInv, TypeInv, Final, Asked, PendingInv, UplinkInv, HandlersInv
<1>2. WireInv' /\ LandedInv'
  BY DEF AnswersInv, WireInv, LandedInv, Asked
<1>3. TypeInv'
  BY DEF AnswersInv, TypeInv, Frames, Answers
<1>4. QED
  BY <1>1, <1>2, <1>3 DEF AnswersInv

LEMMA AnswersStep == AnswersInv /\ [Next]_vars => AnswersInv' /\ Final
<1>1. SUFFICES ASSUME AnswersInv, [Next]_vars PROVE AnswersInv' /\ Final
  OBVIOUS
<1>2. ASSUME NEW r \in Requests, Write(r) PROVE AnswersInv' /\ Final
  BY <1>1, <1>2, WriteKeeps
<1>3. ASSUME NEW r \in Requests, WriteUntracked(r) PROVE AnswersInv' /\ Final
  BY <1>1, <1>3, WriteUntrackedKeeps
<1>4. ASSUME NEW r \in Requests, TimeOut(r) PROVE AnswersInv' /\ Final
  BY <1>1, <1>4, TimeOutKeeps
<1>5. CASE Receive
  BY <1>1, <1>5, ReceiveKeeps
<1>6. CASE HandleWrite
  BY <1>1, <1>6, HandleWriteKeeps
<1>7. ASSUME NEW h \in handlers, WriteNode(h) PROVE AnswersInv' /\ Final
  BY <1>1, <1>7, WriteNodeKeeps
<1>8. CASE ConnectionLost
  BY <1>1, <1>8, DisconnectKeeps DEF ConnectionLost
<1>9. CASE Restart
  <2>1. UNCHANGED <<entry, entered, landed>> /\ handlers' \subseteq handlers
    BY <1>9 DEF Restart
  <2>2. Disconnect \/ UNCHANGED <<told, pending, uplink, wire>>
    BY <1>9 DEF Restart
  <2>3. QED
    BY <1>1, <2>1, <2>2, DisconnectKeeps, StutterKeeps
<1>10. CASE Connect
  BY <1>1, <1>10, StutterKeeps DEF Connect
<1>11. CASE UNCHANGED vars
  BY <1>1, <1>11, StutterKeeps DEF vars
<1>12. QED
  BY <1>1, <1>2, <1>3, <1>4, <1>5, <1>6, <1>7, <1>8, <1>9, <1>10, <1>11 DEF Next

(* No step takes back what was told, a write that succeeded has reached    *)
(* the controller (write_service.py answers after the write), and one that *)
(* the panel refused never does.                                           *)
THEOREM WritesAreAnsweredTruly == Spec => AnswersAreTrue
<1> DEFINE True_ ==
        \A r \in Requests :
            /\ told[r] \in Outcomes \cup {"refused"} => told'[r] = told[r]
            /\ told'[r] = "ok" => landed'[r] # NotTaken
            /\ told'[r] = "refused" => landed'[r] = NotTaken
<1>1. AnswersInv /\ AnswersInv' /\ Final => True_
  BY DEF AnswersInv, LandedInv, Final, Asked, NotTaken
<1>2. AnswersInv /\ [Next]_vars => AnswersInv' /\ True_
  BY <1>1, AnswersStep
<1>3. Init => AnswersInv
  BY AnswersInit
<1>4. QED
  BY <1>2, <1>3, PTL DEF Spec, AnswersAreTrue

-----------------------------------------------------------------------------
(* The axis.                                                               *)

LEMMA AxisIs ==
    /\ Axis[1] = "-1e30" /\ Axis[2] = "-2^63-in-JSON" /\ Axis[3] = "-2^63"
    /\ Axis[4] = "-2^53" /\ Axis[5] = "-2^31" /\ Axis[6] = "-1" /\ Axis[7] = "0"
    /\ Axis[8] = "1" /\ Axis[9] = "19.9 as float32" /\ Axis[10] = "19.9"
    /\ Axis[11] = "255" /\ Axis[12] = "256" /\ Axis[13] = "2^31-1"
    /\ Axis[14] = "2^31" /\ Axis[15] = "2^53-1" /\ Axis[16] = "2^53"
    /\ Axis[17] = "2^63-1" /\ Axis[18] = "2^63" /\ Axis[19] = "2^63-in-JSON"
    /\ Axis[20] = "2^64-1" /\ Axis[21] = "2^64" /\ Axis[22] = "2^64-in-JSON"
    /\ Axis[23] = "1e39" /\ Axis[24] = "1e400" /\ DOMAIN Axis = 1..24
BY DEF Axis

(* Landmarks of different places are different: each tells its place.      *)
Place(n) ==
    CASE n = "-1e30" -> 1
      [] n = "-2^63-in-JSON" -> 2
      [] n = "-2^63" -> 3
      [] n = "-2^53" -> 4
      [] n = "-2^31" -> 5
      [] n = "-1" -> 6
      [] n = "0" -> 7
      [] n = "1" -> 8
      [] n = "19.9 as float32" -> 9
      [] n = "19.9" -> 10
      [] n = "255" -> 11
      [] n = "256" -> 12
      [] n = "2^31-1" -> 13
      [] n = "2^31" -> 14
      [] n = "2^53-1" -> 15
      [] n = "2^53" -> 16
      [] n = "2^63-1" -> 17
      [] n = "2^63" -> 18
      [] n = "2^63-in-JSON" -> 19
      [] n = "2^64-1" -> 20
      [] n = "2^64" -> 21
      [] n = "2^64-in-JSON" -> 22
      [] n = "1e39" -> 23
      [] n = "1e400" -> 24

LEMMA PlaceOfLandmark == \A k \in 1..24 : Place(Axis[k]) = k
<1>1. \A k \in 1..24 : k \in {1, 2, 3, 4, 5, 6, 7, 8, 9, 10, 11, 12, 13, 14, 15, 16, 17,
                           18, 19, 20, 21, 22, 23, 24}
  OBVIOUS
<1>2. Place(Axis[1]) = 1
  BY ONLY AxisIs DEF Place
<1>3. Place(Axis[2]) = 2
  BY ONLY AxisIs DEF Place
<1>4. Place(Axis[3]) = 3
  BY ONLY AxisIs DEF Place
<1>5. Place(Axis[4]) = 4
  BY ONLY AxisIs DEF Place
<1>6. Place(Axis[5]) = 5
  BY ONLY AxisIs DEF Place
<1>7. Place(Axis[6]) = 6
  BY ONLY AxisIs DEF Place
<1>8. Place(Axis[7]) = 7
  BY ONLY AxisIs DEF Place
<1>9. Place(Axis[8]) = 8
  BY ONLY AxisIs DEF Place
<1>10. Place(Axis[9]) = 9
  BY ONLY AxisIs DEF Place
<1>11. Place(Axis[10]) = 10
  BY ONLY AxisIs DEF Place
<1>12. Place(Axis[11]) = 11
  BY ONLY AxisIs DEF Place
<1>13. Place(Axis[12]) = 12
  BY ONLY AxisIs DEF Place
<1>14. Place(Axis[13]) = 13
  BY ONLY AxisIs DEF Place
<1>15. Place(Axis[14]) = 14
  BY ONLY AxisIs DEF Place
<1>16. Place(Axis[15]) = 15
  BY ONLY AxisIs DEF Place
<1>17. Place(Axis[16]) = 16
  BY ONLY AxisIs DEF Place
<1>18. Place(Axis[17]) = 17
  BY ONLY AxisIs DEF Place
<1>19. Place(Axis[18]) = 18
  BY ONLY AxisIs DEF Place
<1>20. Place(Axis[19]) = 19
  BY ONLY AxisIs DEF Place
<1>21. Place(Axis[20]) = 20
  BY ONLY AxisIs DEF Place
<1>22. Place(Axis[21]) = 21
  BY ONLY AxisIs DEF Place
<1>23. Place(Axis[22]) = 22
  BY ONLY AxisIs DEF Place
<1>24. Place(Axis[23]) = 23
  BY ONLY AxisIs DEF Place
<1>25. Place(Axis[24]) = 24
  BY ONLY AxisIs DEF Place
<1> QED
  BY ONLY <1>1, <1>2, <1>3, <1>4, <1>5, <1>6, <1>7, <1>8, <1>9, <1>10, <1>11, <1>12, <1>13,
     <1>14, <1>15, <1>16, <1>17, <1>18, <1>19, <1>20, <1>21, <1>22, <1>23, <1>24,
     <1>25

LEMMA RankOfLandmark ==
    ASSUME NEW k \in 1..24
    PROVE  Axis[k] \in Numbers /\ Rank[Axis[k]] = k
<1>1. DOMAIN Axis = 1..24
  BY DEF Axis
<1>2. \A i \in 1..24 : Axis[i] = Axis[k] => i = k
  BY PlaceOfLandmark
<1>3. Axis[k] \in Numbers
  BY <1>1 DEF Numbers, ToSet
<1>4. Rank[Axis[k]] = CHOOSE i \in DOMAIN Axis : Axis[i] = Axis[k]
  BY <1>3 DEF Rank
<1>5. QED
  BY <1>1, <1>2, <1>3, <1>4

(* The places of the limits, and of the numbers that are no doubles.       *)
LEMMA Ranks ==
    /\ Rank["-1e30"] = 1 /\ Rank["-2^63-in-JSON"] = 2 /\ Rank["-2^63"] = 3
    /\ Rank["-2^31"] = 5 /\ Rank["0"] = 7 /\ Rank["255"] = 11 /\ Rank["2^31-1"] = 13
    /\ Rank["2^53-1"] = 15 /\ Rank["2^63-1"] = 17 /\ Rank["2^63"] = 18
    /\ Rank["2^63-in-JSON"] = 19 /\ Rank["2^64-1"] = 20 /\ Rank["2^64"] = 21
    /\ Rank["2^64-in-JSON"] = 22 /\ Rank["1e39"] = 23 /\ Rank["1e400"] = 24
    /\ \A n \in Numbers : Rank[n] \in 1..24
    /\ \A n \in Numbers : Rank[n] = 2 => n = "-2^63-in-JSON"
    /\ \A n \in Numbers : Rank[n] = 17 => n = "2^63-1"
    /\ \A n \in Numbers : Rank[n] = 19 => n = "2^63-in-JSON"
    /\ \A n \in Numbers : Rank[n] = 20 => n = "2^64-1"
    /\ \A n \in Numbers : Rank[n] = 22 => n = "2^64-in-JSON"
<1>1. \A n \in Numbers : \E k \in 1..24 : n = Axis[k] /\ Rank[n] = k
  <2>1. Numbers = {Axis[k] : k \in 1..24}
    BY AxisIs DEF Numbers, ToSet
  <2>2. QED
    BY <2>1, RankOfLandmark
<1>2. /\ Axis[1] = "-1e30" /\ Axis[2] = "-2^63-in-JSON" /\ Axis[3] = "-2^63"
      /\ Axis[5] = "-2^31" /\ Axis[7] = "0" /\ Axis[11] = "255"
      /\ Axis[13] = "2^31-1" /\ Axis[15] = "2^53-1" /\ Axis[17] = "2^63-1"
      /\ Axis[18] = "2^63" /\ Axis[19] = "2^63-in-JSON" /\ Axis[20] = "2^64-1"
      /\ Axis[21] = "2^64" /\ Axis[22] = "2^64-in-JSON" /\ Axis[23] = "1e39"
      /\ Axis[24] = "1e400"
  BY DEF Axis
<1>3. \A k \in {1, 2, 3, 5, 7, 11, 13, 15, 17, 18, 19, 20, 21, 22, 23, 24} : Rank[Axis[k]] = k
  BY RankOfLandmark
<1>4. /\ Rank["-1e30"] = 1 /\ Rank["-2^63-in-JSON"] = 2 /\ Rank["-2^63"] = 3
      /\ Rank["-2^31"] = 5 /\ Rank["0"] = 7 /\ Rank["255"] = 11 /\ Rank["2^31-1"] = 13
      /\ Rank["2^53-1"] = 15 /\ Rank["2^63-1"] = 17 /\ Rank["2^63"] = 18
      /\ Rank["2^63-in-JSON"] = 19 /\ Rank["2^64-1"] = 20 /\ Rank["2^64"] = 21
      /\ Rank["2^64-in-JSON"] = 22 /\ Rank["1e39"] = 23 /\ Rank["1e400"] = 24
  BY <1>2, <1>3
<1>5. QED
  BY <1>1, <1>2, <1>4

LEMMA Landmarks ==
    /\ "NaN" \notin Numbers
    /\ "-1e30" \in Numbers /\ "0" \in Numbers /\ "1" \in Numbers
    /\ "19.9 as float32" \in Numbers /\ "19.9" \in Numbers
    /\ "-2^63" \in Numbers /\ "-2^63-in-JSON" \in Numbers
    /\ "2^63-1" \in Numbers /\ "2^63" \in Numbers /\ "2^63-in-JSON" \in Numbers
    /\ "2^64-1" \in Numbers /\ "2^64" \in Numbers /\ "2^64-in-JSON" \in Numbers
    /\ "1e39" \in Numbers /\ "1e400" \in Numbers
<1>1. Numbers = {Axis[k] : k \in 1..24}
  BY AxisIs DEF Numbers, ToSet
<1>2. \A k \in 1..24 : k \in {1, 2, 3, 4, 5, 6, 7, 8, 9, 10, 11, 12, 13, 14, 15, 16, 17,
                           18, 19, 20, 21, 22, 23, 24}
  OBVIOUS
<1>3. \A k \in 1..24 : Axis[k] # "NaN"
  BY ONLY <1>2, AxisIs
<1>4. {1, 2, 3, 7, 8, 9, 10, 17, 18, 19, 20, 21, 22, 23, 24} \subseteq 1..24
  OBVIOUS
<1>5. \A k \in {1, 2, 3, 7, 8, 9, 10, 17, 18, 19, 20, 21, 22, 23, 24} : Axis[k] \in Numbers
  BY <1>1, <1>4
<1>6. /\ Axis[1] \in Numbers /\ Axis[2] \in Numbers /\ Axis[3] \in Numbers
      /\ Axis[7] \in Numbers /\ Axis[8] \in Numbers /\ Axis[9] \in Numbers
      /\ Axis[10] \in Numbers /\ Axis[17] \in Numbers /\ Axis[18] \in Numbers
      /\ Axis[19] \in Numbers /\ Axis[20] \in Numbers /\ Axis[21] \in Numbers
      /\ Axis[22] \in Numbers /\ Axis[23] \in Numbers /\ Axis[24] \in Numbers
  BY <1>5
<1>7. "NaN" \notin Numbers
  BY <1>1, <1>3
<1> QED BY ONLY <1>6, <1>7, AxisIs

(* JavaScript holds no number beyond 2^53-1 exactly.                       *)
LEMMA SafeOnes ==
    /\ ~Safe("-1e30") /\ ~Safe("1e39") /\ ~Safe("1e400")
    /\ \A n : Safe(n) => Digits(n) = n /\ Double(n) = n
<1>1. \A n \in {"-2^63-in-JSON", "-2^63", "2^63-1", "2^63", "2^63-in-JSON",
                "2^64-1", "2^64", "2^64-in-JSON"} : ~Safe(n)
  BY Ranks DEF Safe, InOrder
<1>2. ~Safe("-1e30") /\ ~Safe("1e39") /\ ~Safe("1e400")
  BY Ranks DEF Safe, InOrder
<1>3. \A n : n \notin {"-2^63-in-JSON", "-2^63", "2^63-1", "2^63", "2^63-in-JSON",
                      "2^64-1", "2^64", "2^64-in-JSON"} => Digits(n) = n /\ Double(n) = n
  BY DEF Digits, Double
<1> QED BY <1>1, <1>2, <1>3

(* What fits a narrower type fits the widest.                              *)
LEMMA Widest ==
    ASSUME NEW n \in Numbers
    PROVE  /\ Fits(n, "int32") => Fits(n, "int64")
           /\ Fits(n, "uint64") /\ Safe(n) => Fits(n, "int64")
BY Ranks DEF Fits, Safe, InOrder, Least, Greatest

OnTheWire(v) ==
    IF v = NotANumber \/ (v.kind = "number" /\ ~Finite(v.is)) THEN Null ELSE v

(* What of the panel is judged by the range.                               *)
Judged(p, type) == p.kind = "number" \/ (p.kind = "integer text" /\ type # "string")

(* What the panel makes of an item that the backend would take: it is      *)
(* taken for the same, and the same number is judged by its range.         *)
SameTaken(v, p, type, real) ==
    /\ p.kind # "refused"
    /\ CoerceScalar(OnTheWire(p), real) = CoerceScalar(OnTheWire(v), real)
    /\ Judged(p, type) =>
         /\ CoerceScalar(OnTheWire(v), real).kind = "number"
         /\ CoerceScalar(OnTheWire(v), real).is = p.is

Passes(v, type, real) ==
    CoerceScalar(OnTheWire(v), real).kind # "refused"
        => SameTaken(v, PanelScalar(v, type), type, real)

Kinds(v) ==
    \/ v = Null \/ v = Object \/ v = NotANumber
    \/ \E n \in JsNumbers : v = Number(n)
    \/ \E n \in Whole : v = IntegerText(n)
    \/ \E n \in Numbers : v = DecimalText(n)
    \/ \E w \in STRING : v = Word(w)
    \/ v = Boolean("true") \/ v = Boolean("false")

(* What an operator can enter, one by one.                                 *)
LEMMA ScalarKinds == ASSUME NEW v \in Scalars PROVE Kinds(v)
<1>1. CASE v \in [kind : {"number"}, is : JsNumbers \cup {"NaN"}]
  BY <1>1 DEF Kinds, NotANumber, Number
<1>2. CASE v \in [kind : {"integer text"}, is : Whole]
  BY <1>2 DEF Kinds, IntegerText
<1>3. CASE v \in [kind : {"decimal text"}, is : Numbers]
  BY <1>3 DEF Kinds, DecimalText
<1>4. CASE v \in [kind : {"word"}, is : STRING]
  BY <1>4 DEF Kinds, Word
<1>5. CASE v \in [kind : {"boolean"}, is : {"true", "false"}]
  BY <1>5 DEF Kinds, Boolean
<1> QED BY <1>1, <1>2, <1>3, <1>4, <1>5 DEF Scalars, Kinds

(* The doubles: rounding is done once, makes no number infinite and keeps  *)
(* the order; and a number is written with digits that are rounded to it.  *)
LEMMA Doubles ==
    /\ \A n : Double(Double(n)) = Double(n)
    /\ \A n \in JsNumbers : Double(n) = n
    /\ \A n \in Numbers : Double(n) \in Numbers /\ Double(n) # "NaN"
    /\ \A n \in Numbers \ {"1e400"} : Double(n) # "1e400"
    /\ \A n \in Numbers \ {"1e39"} : Double(n) # "1e39"
BY Landmarks DEF Double, JsNumbers

LEMMA RoundingKeepsOrder ==
    ASSUME NEW m \in Numbers, NEW n \in Numbers, InOrder(m, n)
    PROVE  InOrder(Double(m), Double(n))
<1> DEFINE Rounds(k) ==
        \/ k = "-2^63-in-JSON" /\ Rank[k] = 2 /\ Rank[Double(k)] = 3
        \/ k = "2^63-1" /\ Rank[k] = 17 /\ Rank[Double(k)] = 18
        \/ k = "2^63-in-JSON" /\ Rank[k] = 19 /\ Rank[Double(k)] = 18
        \/ k = "2^64-1" /\ Rank[k] = 20 /\ Rank[Double(k)] = 21
        \/ k = "2^64-in-JSON" /\ Rank[k] = 22 /\ Rank[Double(k)] = 21
        \/ Rank[k] \notin {2, 17, 19, 20, 22} /\ Rank[Double(k)] = Rank[k]
<1>1. ASSUME NEW k \in Numbers PROVE Rounds(k) /\ Rank[k] \in 1..24
  <2>1. Rank[k] \in 1..24
    BY Ranks
  <2>2. CASE k \in {"-2^63-in-JSON", "2^63-1", "2^63-in-JSON", "2^64-1", "2^64-in-JSON"}
    BY <2>2, Ranks DEF Double
  <2>3. CASE k \notin {"-2^63-in-JSON", "2^63-1", "2^63-in-JSON", "2^64-1", "2^64-in-JSON"}
    BY <2>3, Ranks DEF Double
  <2> QED BY <2>1, <2>2, <2>3
<1>2. Rank[m] <= Rank[n]
  BY DEF InOrder
<1>3. Rank[Double(m)] <= Rank[Double(n)]
  BY <1>1, <1>2
<1> QED BY <1>3 DEF InOrder

LEMMA DigitsRound ==
    /\ \A n : Double(Digits(n)) = Double(n)
    /\ Digits("0") = "0" /\ Digits("1") = "1" /\ Digits("1e400") = "1e400"
    /\ \A n \in Numbers \ {"1e400"} : Digits(n) # "1e400"
    /\ \A n \in Numbers \ {"1e39"} : Digits(n) # "1e39"
BY Landmarks DEF Double, Digits

(* What the backend takes under no type.                                   *)
LEMMA NeverTaken ==
    ASSUME NEW v \in {Null, Object, NotANumber}, NEW real
    PROVE  CoerceScalar(OnTheWire(v), real).kind = "refused"
<1>1. CASE v = Null
  BY <1>1 DEF CoerceScalar, OnTheWire, Null, NotANumber, Refused
<1>2. CASE v = Object
  BY <1>2 DEF CoerceScalar, OnTheWire, Object, NotANumber, Refused
<1>3. CASE v = NotANumber
  BY <1>3 DEF CoerceScalar, OnTheWire, Null, Refused
<1> QED BY <1>1, <1>2, <1>3

(* Item by item: what the panel makes of a value for the type that the     *)
(* metadata names it, and the backend for the type that it has.            *)
LEMMA BooleanPasses ==
    ASSUME NEW v \in Scalars
    PROVE  Passes(v, "boolean", "boolean")
<1>1. Kinds(v)
  BY ScalarKinds
<1>2. CASE v \in {Null, Object, NotANumber}
  BY <1>2, NeverTaken DEF Passes
<1>3. ASSUME NEW n \in JsNumbers, v = Number(n) PROVE Passes(v, "boolean", "boolean")
  BY <1>3, Landmarks, ZenonT(30) DEF Passes, SameTaken, Judged, OnTheWire, PanelScalar,
     CoerceScalar, Finite, IsText, IsNumeric, AsBoolean, Yes, No, Null, Object,
     NotANumber, Number, IntegerText, DecimalText, Word, Boolean, Refused,
     JsNumbers
<1>4. ASSUME NEW n \in Whole, v = IntegerText(n) PROVE Passes(v, "boolean", "boolean")
  BY <1>4, Landmarks, ZenonT(30) DEF Passes, SameTaken, Judged, OnTheWire, PanelScalar,
     CoerceScalar, Finite, IsText, IsNumeric, AsBoolean, Yes, No, Null, Object,
     NotANumber, Number, IntegerText, DecimalText, Word, Boolean, Refused, Whole
<1>5. ASSUME NEW n \in Numbers, v = DecimalText(n) PROVE Passes(v, "boolean", "boolean")
  BY <1>5, Landmarks, ZenonT(30) DEF Passes, SameTaken, Judged, OnTheWire, PanelScalar,
     CoerceScalar, Finite, IsText, IsNumeric, AsBoolean, Yes, No, Null, Object,
     NotANumber, Number, IntegerText, DecimalText, Word, Boolean, Refused
<1>6. ASSUME NEW w \in STRING, v = Word(w) PROVE Passes(v, "boolean", "boolean")
  BY <1>6, ZenonT(30) DEF Passes, SameTaken, Judged, OnTheWire, PanelScalar,
     CoerceScalar, Finite, IsText, IsNumeric, AsBoolean, Yes, No, Null, Object,
     NotANumber, Number, IntegerText, DecimalText, Word, Boolean, Refused
<1>7. ASSUME NEW b \in {"true", "false"}, v = Boolean(b) PROVE Passes(v, "boolean", "boolean")
  BY <1>7, ZenonT(30) DEF Passes, SameTaken, Judged, OnTheWire, PanelScalar,
     CoerceScalar, Finite, IsText, IsNumeric, AsBoolean, Yes, No, Null, Object,
     NotANumber, Number, IntegerText, DecimalText, Word, Boolean, Refused
<1> QED
  BY <1>1, <1>2, <1>3, <1>4, <1>5, <1>6, <1>7 DEF Kinds

LEMMA MomentPasses ==
    ASSUME NEW v \in Scalars
    PROVE  Passes(v, "datetime", "datetime")
<1>1. Kinds(v)
  BY ScalarKinds
<1>2. CASE v \in {Null, Object, NotANumber}
  BY <1>2, NeverTaken DEF Passes
<1>3. ASSUME NEW n \in JsNumbers, v = Number(n) PROVE Passes(v, "datetime", "datetime")
  BY <1>3, Landmarks, ZenonT(30) DEF Passes, SameTaken, Judged, OnTheWire, PanelScalar,
     CoerceScalar, Finite, IsText, IsNumeric, AsMoment, Moments, IntegerTypes,
     FloatTypes, Null, Object, NotANumber, Number, IntegerText, DecimalText,
     Word, Boolean, Refused, JsNumbers
<1>4. ASSUME NEW n \in Whole, v = IntegerText(n) PROVE Passes(v, "datetime", "datetime")
  BY <1>4, Landmarks, ZenonT(30) DEF Passes, SameTaken, Judged, OnTheWire, PanelScalar,
     CoerceScalar, Finite, IsText, IsNumeric, AsMoment, Moments, IntegerTypes,
     FloatTypes, Null, Object, NotANumber, Number, IntegerText, DecimalText,
     Word, Boolean, Refused, Whole
<1>5. ASSUME NEW n \in Numbers, v = DecimalText(n) PROVE Passes(v, "datetime", "datetime")
  BY <1>5, Landmarks, ZenonT(30) DEF Passes, SameTaken, Judged, OnTheWire, PanelScalar,
     CoerceScalar, Finite, IsText, IsNumeric, AsMoment, Moments, IntegerTypes,
     FloatTypes, Null, Object, NotANumber, Number, IntegerText, DecimalText,
     Word, Boolean, Refused
<1>6. ASSUME NEW w \in STRING, v = Word(w) PROVE Passes(v, "datetime", "datetime")
  BY <1>6, ZenonT(30) DEF Passes, SameTaken, Judged, OnTheWire, PanelScalar,
     CoerceScalar, Finite, IsText, IsNumeric, AsMoment, Moments, IntegerTypes,
     FloatTypes, Null, Object, NotANumber, Number, IntegerText, DecimalText,
     Word, Boolean, Refused
<1>7. ASSUME NEW b \in {"true", "false"}, v = Boolean(b) PROVE Passes(v, "datetime", "datetime")
  BY <1>7, ZenonT(30) DEF Passes, SameTaken, Judged, OnTheWire, PanelScalar,
     CoerceScalar, Finite, IsText, IsNumeric, AsMoment, Moments, IntegerTypes,
     FloatTypes, Null, Object, NotANumber, Number, IntegerText, DecimalText,
     Word, Boolean, Refused
<1> QED
  BY <1>1, <1>2, <1>3, <1>4, <1>5, <1>6, <1>7 DEF Kinds

LEMMA TextPasses ==
    ASSUME NEW v \in Scalars
    PROVE  Passes(v, "string", "string")
<1>1. Kinds(v)
  BY ScalarKinds
<1>2. CASE v \in {Null, Object, NotANumber}
  BY <1>2, NeverTaken DEF Passes
<1>3. ASSUME NEW n \in JsNumbers, v = Number(n) PROVE Passes(v, "string", "string")
  BY <1>3, Landmarks, DigitsRound, Doubles, ZenonT(30)
     DEF Passes, SameTaken, Judged, OnTheWire, PanelScalar,
     CoerceScalar, Finite, IsText, IsNumeric, AsText, Whole, IntegerTypes,
     FloatTypes, Null, Object, NotANumber, Number, IntegerText, DecimalText,
     Word, Boolean, Refused, JsNumbers
<1>4. ASSUME NEW n \in Whole, v = IntegerText(n) PROVE Passes(v, "string", "string")
  BY <1>4, Landmarks, ZenonT(30) DEF Passes, SameTaken, Judged, OnTheWire, PanelScalar,
     CoerceScalar, Finite, IsText, IsNumeric, AsText, Whole, IntegerTypes,
     FloatTypes, Null, Object, NotANumber, Number, IntegerText, DecimalText,
     Word, Boolean, Refused
<1>5. ASSUME NEW n \in Numbers, v = DecimalText(n) PROVE Passes(v, "string", "string")
  BY <1>5, Landmarks, ZenonT(30) DEF Passes, SameTaken, Judged, OnTheWire, PanelScalar,
     CoerceScalar, Finite, IsText, IsNumeric, AsText, Whole, IntegerTypes,
     FloatTypes, Null, Object, NotANumber, Number, IntegerText, DecimalText,
     Word, Boolean, Refused
<1>6. ASSUME NEW w \in STRING, v = Word(w) PROVE Passes(v, "string", "string")
  BY <1>6, ZenonT(30) DEF Passes, SameTaken, Judged, OnTheWire, PanelScalar,
     CoerceScalar, Finite, IsText, IsNumeric, AsText, Whole, IntegerTypes,
     FloatTypes, Null, Object, NotANumber, Number, IntegerText, DecimalText,
     Word, Boolean, Refused
<1>7. ASSUME NEW b \in {"true", "false"}, v = Boolean(b) PROVE Passes(v, "string", "string")
  BY <1>7, ZenonT(30) DEF Passes, SameTaken, Judged, OnTheWire, PanelScalar,
     CoerceScalar, Finite, IsText, IsNumeric, AsText, Whole, IntegerTypes,
     FloatTypes, Null, Object, NotANumber, Number, IntegerText, DecimalText,
     Word, Boolean, Refused
<1> QED
  BY <1>1, <1>2, <1>3, <1>4, <1>5, <1>6, <1>7 DEF Kinds

LEMMA TextForBoolean ==
    ASSUME NEW v \in Scalars
    PROVE  Passes(v, "string", "boolean")
<1>1. Kinds(v)
  BY ScalarKinds
<1>2. CASE v \in {Null, Object, NotANumber}
  BY <1>2, NeverTaken DEF Passes
<1>3. ASSUME NEW n \in JsNumbers, v = Number(n) PROVE Passes(v, "string", "boolean")
  BY <1>3, Landmarks, DigitsRound, Doubles, ZenonT(30)
     DEF Passes, SameTaken, Judged, OnTheWire, PanelScalar,
     CoerceScalar, Finite, IsText, IsNumeric, AsText, AsBoolean, Yes, No, Whole,
     IntegerTypes, FloatTypes, Null, Object, NotANumber, Number, IntegerText,
     DecimalText, Word, Boolean, Refused, JsNumbers
<1>4. ASSUME NEW n \in Whole, v = IntegerText(n) PROVE Passes(v, "string", "boolean")
  BY <1>4, Landmarks, ZenonT(30) DEF Passes, SameTaken, Judged, OnTheWire, PanelScalar,
     CoerceScalar, Finite, IsText, IsNumeric, AsText, AsBoolean, Yes, No, Whole,
     IntegerTypes, FloatTypes, Null, Object, NotANumber, Number, IntegerText,
     DecimalText, Word, Boolean, Refused
<1>5. ASSUME NEW n \in Numbers, v = DecimalText(n) PROVE Passes(v, "string", "boolean")
  BY <1>5, Landmarks, ZenonT(30) DEF Passes, SameTaken, Judged, OnTheWire, PanelScalar,
     CoerceScalar, Finite, IsText, IsNumeric, AsText, AsBoolean, Yes, No, Whole,
     IntegerTypes, FloatTypes, Null, Object, NotANumber, Number, IntegerText,
     DecimalText, Word, Boolean, Refused
<1>6. ASSUME NEW w \in STRING, v = Word(w) PROVE Passes(v, "string", "boolean")
  BY <1>6, ZenonT(30) DEF Passes, SameTaken, Judged, OnTheWire, PanelScalar,
     CoerceScalar, Finite, IsText, IsNumeric, AsText, AsBoolean, Yes, No, Whole,
     IntegerTypes, FloatTypes, Null, Object, NotANumber, Number, IntegerText,
     DecimalText, Word, Boolean, Refused
<1>7. ASSUME NEW b \in {"true", "false"}, v = Boolean(b) PROVE Passes(v, "string", "boolean")
  BY <1>7, ZenonT(30) DEF Passes, SameTaken, Judged, OnTheWire, PanelScalar,
     CoerceScalar, Finite, IsText, IsNumeric, AsText, AsBoolean, Yes, No, Whole,
     IntegerTypes, FloatTypes, Null, Object, NotANumber, Number, IntegerText,
     DecimalText, Word, Boolean, Refused
<1> QED
  BY <1>1, <1>2, <1>3, <1>4, <1>5, <1>6, <1>7 DEF Kinds

LEMMA TextForMoment ==
    ASSUME NEW v \in Scalars
    PROVE  Passes(v, "string", "datetime")
<1>1. Kinds(v)
  BY ScalarKinds
<1>2. CASE v \in {Null, Object, NotANumber}
  BY <1>2, NeverTaken DEF Passes
<1>3. ASSUME NEW n \in JsNumbers, v = Number(n) PROVE Passes(v, "string", "datetime")
  BY <1>3, Landmarks, DigitsRound, Doubles, ZenonT(30)
     DEF Passes, SameTaken, Judged, OnTheWire, PanelScalar,
     CoerceScalar, Finite, IsText, IsNumeric, AsText, AsMoment, Moments, Whole,
     IntegerTypes, FloatTypes, Null, Object, NotANumber, Number, IntegerText,
     DecimalText, Word, Boolean, Refused, JsNumbers
<1>4. ASSUME NEW n \in Whole, v = IntegerText(n) PROVE Passes(v, "string", "datetime")
  BY <1>4, Landmarks, ZenonT(30) DEF Passes, SameTaken, Judged, OnTheWire, PanelScalar,
     CoerceScalar, Finite, IsText, IsNumeric, AsText, AsMoment, Moments, Whole,
     IntegerTypes, FloatTypes, Null, Object, NotANumber, Number, IntegerText,
     DecimalText, Word, Boolean, Refused
<1>5. ASSUME NEW n \in Numbers, v = DecimalText(n) PROVE Passes(v, "string", "datetime")
  BY <1>5, Landmarks, ZenonT(30) DEF Passes, SameTaken, Judged, OnTheWire, PanelScalar,
     CoerceScalar, Finite, IsText, IsNumeric, AsText, AsMoment, Moments, Whole,
     IntegerTypes, FloatTypes, Null, Object, NotANumber, Number, IntegerText,
     DecimalText, Word, Boolean, Refused
<1>6. ASSUME NEW w \in STRING, v = Word(w) PROVE Passes(v, "string", "datetime")
  BY <1>6, ZenonT(30) DEF Passes, SameTaken, Judged, OnTheWire, PanelScalar,
     CoerceScalar, Finite, IsText, IsNumeric, AsText, AsMoment, Moments, Whole,
     IntegerTypes, FloatTypes, Null, Object, NotANumber, Number, IntegerText,
     DecimalText, Word, Boolean, Refused
<1>7. ASSUME NEW b \in {"true", "false"}, v = Boolean(b) PROVE Passes(v, "string", "datetime")
  BY <1>7, ZenonT(30) DEF Passes, SameTaken, Judged, OnTheWire, PanelScalar,
     CoerceScalar, Finite, IsText, IsNumeric, AsText, AsMoment, Moments, Whole,
     IntegerTypes, FloatTypes, Null, Object, NotANumber, Number, IntegerText,
     DecimalText, Word, Boolean, Refused
<1> QED
  BY <1>1, <1>2, <1>3, <1>4, <1>5, <1>6, <1>7 DEF Kinds

LEMMA TextForInteger ==
    ASSUME NEW v \in Scalars, NEW type \in IntegerTypes
    PROVE  Passes(v, "string", type)
<1>1. Kinds(v)
  BY ScalarKinds
<1>2. CASE v \in {Null, Object, NotANumber}
  BY <1>2, NeverTaken DEF Passes
<1>3. ASSUME NEW n \in JsNumbers, v = Number(n) PROVE Passes(v, "string", type)
  BY <1>3, Landmarks, DigitsRound, Doubles, SafeOnes, ZenonT(30)
     DEF Passes, SameTaken, Judged, OnTheWire,
     PanelScalar, CoerceScalar, Finite, IsText, IsNumeric, AsText,
     BackendInteger, Whole, IntegerTypes, FloatTypes, Null, Object, NotANumber,
     Number, IntegerText, DecimalText, Word, Boolean, Refused, JsNumbers
<1>4. ASSUME NEW n \in Whole, v = IntegerText(n) PROVE Passes(v, "string", type)
  BY <1>4, Landmarks, SafeOnes, ZenonT(30) DEF Passes, SameTaken, Judged, OnTheWire,
     PanelScalar, CoerceScalar, Finite, IsText, IsNumeric, AsText,
     BackendInteger, Whole, IntegerTypes, FloatTypes, Null, Object, NotANumber,
     Number, IntegerText, DecimalText, Word, Boolean, Refused
<1>5. ASSUME NEW n \in Numbers, v = DecimalText(n) PROVE Passes(v, "string", type)
  BY <1>5, Landmarks, SafeOnes, ZenonT(30) DEF Passes, SameTaken, Judged, OnTheWire,
     PanelScalar, CoerceScalar, Finite, IsText, IsNumeric, AsText,
     BackendInteger, Whole, IntegerTypes, FloatTypes, Null, Object, NotANumber,
     Number, IntegerText, DecimalText, Word, Boolean, Refused
<1>6. ASSUME NEW w \in STRING, v = Word(w) PROVE Passes(v, "string", type)
  BY <1>6, ZenonT(30) DEF Passes, SameTaken, Judged, OnTheWire, PanelScalar,
     CoerceScalar, Finite, IsText, IsNumeric, AsText, BackendInteger, Whole,
     IntegerTypes, FloatTypes, Null, Object, NotANumber, Number, IntegerText,
     DecimalText, Word, Boolean, Refused
<1>7. ASSUME NEW b \in {"true", "false"}, v = Boolean(b) PROVE Passes(v, "string", type)
  BY <1>7, ZenonT(30) DEF Passes, SameTaken, Judged, OnTheWire, PanelScalar,
     CoerceScalar, Finite, IsText, IsNumeric, AsText, BackendInteger, Whole,
     IntegerTypes, FloatTypes, Null, Object, NotANumber, Number, IntegerText,
     DecimalText, Word, Boolean, Refused
<1> QED
  BY <1>1, <1>2, <1>3, <1>4, <1>5, <1>6, <1>7 DEF Kinds

LEMMA TextForFloat ==
    ASSUME NEW v \in Scalars, NEW type \in FloatTypes
    PROVE  Passes(v, "string", type)
<1>1. Kinds(v)
  BY ScalarKinds
<1>2. CASE v \in {Null, Object, NotANumber}
  BY <1>2, NeverTaken DEF Passes
<1>3. ASSUME NEW n \in JsNumbers, v = Number(n) PROVE Passes(v, "string", type)
  BY <1>3, Landmarks, DigitsRound, Doubles, ZenonT(30)
     DEF Passes, SameTaken, Judged, OnTheWire, PanelScalar,
     CoerceScalar, Finite, IsText, IsNumeric, AsText, AsFloat, Whole,
     IntegerTypes, FloatTypes, Null, Object, NotANumber, Number, IntegerText,
     DecimalText, Word, Boolean, Refused, JsNumbers
<1>4. ASSUME NEW n \in Whole, v = IntegerText(n) PROVE Passes(v, "string", type)
  BY <1>4, Landmarks, ZenonT(30) DEF Passes, SameTaken, Judged, OnTheWire, PanelScalar,
     CoerceScalar, Finite, IsText, IsNumeric, AsText, AsFloat, Whole,
     IntegerTypes, FloatTypes, Null, Object, NotANumber, Number, IntegerText,
     DecimalText, Word, Boolean, Refused
<1>5. ASSUME NEW n \in Numbers, v = DecimalText(n) PROVE Passes(v, "string", type)
  BY <1>5, Landmarks, ZenonT(30) DEF Passes, SameTaken, Judged, OnTheWire, PanelScalar,
     CoerceScalar, Finite, IsText, IsNumeric, AsText, AsFloat, Whole,
     IntegerTypes, FloatTypes, Null, Object, NotANumber, Number, IntegerText,
     DecimalText, Word, Boolean, Refused
<1>6. ASSUME NEW w \in STRING, v = Word(w) PROVE Passes(v, "string", type)
  BY <1>6, ZenonT(30) DEF Passes, SameTaken, Judged, OnTheWire, PanelScalar,
     CoerceScalar, Finite, IsText, IsNumeric, AsText, AsFloat, Whole,
     IntegerTypes, FloatTypes, Null, Object, NotANumber, Number, IntegerText,
     DecimalText, Word, Boolean, Refused
<1>7. ASSUME NEW b \in {"true", "false"}, v = Boolean(b) PROVE Passes(v, "string", type)
  BY <1>7, ZenonT(30) DEF Passes, SameTaken, Judged, OnTheWire, PanelScalar,
     CoerceScalar, Finite, IsText, IsNumeric, AsText, AsFloat, Whole,
     IntegerTypes, FloatTypes, Null, Object, NotANumber, Number, IntegerText,
     DecimalText, Word, Boolean, Refused
<1> QED
  BY <1>1, <1>2, <1>3, <1>4, <1>5, <1>6, <1>7 DEF Kinds

LEMMA BytePasses ==
    ASSUME NEW v \in Scalars
    PROVE  Passes(v, "byte", "byte")
<1>1. Kinds(v)
  BY ScalarKinds
<1>2. CASE v \in {Null, Object, NotANumber}
  BY <1>2, NeverTaken DEF Passes
<1>3. ASSUME NEW n \in JsNumbers, v = Number(n) PROVE Passes(v, "byte", "byte")
  BY <1>3, Landmarks, SafeOnes, ZenonT(30) DEF Passes, SameTaken, Judged, OnTheWire,
     PanelScalar, CoerceScalar, Finite, IsText, IsNumeric, PanelInteger,
     BackendInteger, Whole, IntegerTypes, FloatTypes, Null, Object, NotANumber,
     Number, IntegerText, DecimalText, Word, Boolean, Refused, JsNumbers
<1>4. ASSUME NEW n \in Whole, v = IntegerText(n) PROVE Passes(v, "byte", "byte")
  BY <1>4, Landmarks, SafeOnes, ZenonT(30) DEF Passes, SameTaken, Judged, OnTheWire,
     PanelScalar, CoerceScalar, Finite, IsText, IsNumeric, PanelInteger,
     BackendInteger, Whole, IntegerTypes, FloatTypes, Null, Object, NotANumber,
     Number, IntegerText, DecimalText, Word, Boolean, Refused
<1>5. ASSUME NEW n \in Numbers, v = DecimalText(n) PROVE Passes(v, "byte", "byte")
  BY <1>5, Landmarks, SafeOnes, ZenonT(30) DEF Passes, SameTaken, Judged, OnTheWire,
     PanelScalar, CoerceScalar, Finite, IsText, IsNumeric, PanelInteger,
     BackendInteger, Whole, IntegerTypes, FloatTypes, Null, Object, NotANumber,
     Number, IntegerText, DecimalText, Word, Boolean, Refused
<1>6. ASSUME NEW w \in STRING, v = Word(w) PROVE Passes(v, "byte", "byte")
  BY <1>6, ZenonT(30) DEF Passes, SameTaken, Judged, OnTheWire, PanelScalar,
     CoerceScalar, Finite, IsText, IsNumeric, PanelInteger, BackendInteger,
     Whole, IntegerTypes, FloatTypes, Null, Object, NotANumber, Number,
     IntegerText, DecimalText, Word, Boolean, Refused
<1>7. ASSUME NEW b \in {"true", "false"}, v = Boolean(b) PROVE Passes(v, "byte", "byte")
  BY <1>7, ZenonT(30) DEF Passes, SameTaken, Judged, OnTheWire, PanelScalar,
     CoerceScalar, Finite, IsText, IsNumeric, PanelInteger, BackendInteger,
     Whole, IntegerTypes, FloatTypes, Null, Object, NotANumber, Number,
     IntegerText, DecimalText, Word, Boolean, Refused
<1> QED
  BY <1>1, <1>2, <1>3, <1>4, <1>5, <1>6, <1>7 DEF Kinds

LEMMA WidestPasses ==
    ASSUME NEW v \in Scalars
    PROVE  Passes(v, "uint64", "uint64")
<1>1. Kinds(v)
  BY ScalarKinds
<1>2. CASE v \in {Null, Object, NotANumber}
  BY <1>2, NeverTaken DEF Passes
<1>3. ASSUME NEW n \in JsNumbers, v = Number(n) PROVE Passes(v, "uint64", "uint64")
  BY <1>3, Landmarks, SafeOnes, ZenonT(30) DEF Passes, SameTaken, Judged, OnTheWire,
     PanelScalar, CoerceScalar, Finite, IsText, IsNumeric, PanelInteger,
     BackendInteger, Whole, IntegerTypes, FloatTypes, Null, Object, NotANumber,
     Number, IntegerText, DecimalText, Word, Boolean, Refused, JsNumbers
<1>4. ASSUME NEW n \in Whole, v = IntegerText(n) PROVE Passes(v, "uint64", "uint64")
  BY <1>4, Landmarks, SafeOnes, ZenonT(30) DEF Passes, SameTaken, Judged, OnTheWire,
     PanelScalar, CoerceScalar, Finite, IsText, IsNumeric, PanelInteger,
     BackendInteger, Whole, IntegerTypes, FloatTypes, Null, Object, NotANumber,
     Number, IntegerText, DecimalText, Word, Boolean, Refused
<1>5. ASSUME NEW n \in Numbers, v = DecimalText(n) PROVE Passes(v, "uint64", "uint64")
  BY <1>5, Landmarks, SafeOnes, ZenonT(30) DEF Passes, SameTaken, Judged, OnTheWire,
     PanelScalar, CoerceScalar, Finite, IsText, IsNumeric, PanelInteger,
     BackendInteger, Whole, IntegerTypes, FloatTypes, Null, Object, NotANumber,
     Number, IntegerText, DecimalText, Word, Boolean, Refused
<1>6. ASSUME NEW w \in STRING, v = Word(w) PROVE Passes(v, "uint64", "uint64")
  BY <1>6, ZenonT(30) DEF Passes, SameTaken, Judged, OnTheWire, PanelScalar,
     CoerceScalar, Finite, IsText, IsNumeric, PanelInteger, BackendInteger,
     Whole, IntegerTypes, FloatTypes, Null, Object, NotANumber, Number,
     IntegerText, DecimalText, Word, Boolean, Refused
<1>7. ASSUME NEW b \in {"true", "false"}, v = Boolean(b) PROVE Passes(v, "uint64", "uint64")
  BY <1>7, ZenonT(30) DEF Passes, SameTaken, Judged, OnTheWire, PanelScalar,
     CoerceScalar, Finite, IsText, IsNumeric, PanelInteger, BackendInteger,
     Whole, IntegerTypes, FloatTypes, Null, Object, NotANumber, Number,
     IntegerText, DecimalText, Word, Boolean, Refused
<1> QED
  BY <1>1, <1>2, <1>3, <1>4, <1>5, <1>6, <1>7 DEF Kinds

LEMMA FloatPasses ==
    ASSUME NEW v \in Scalars, NEW wide \in {"double", "duration"}, NEW type \in FloatTypes
    PROVE  Passes(v, wide, type)
<1>1. Kinds(v)
  BY ScalarKinds
<1>2. CASE v \in {Null, Object, NotANumber}
  BY <1>2, NeverTaken DEF Passes
<1>3. ASSUME NEW n \in JsNumbers, v = Number(n) PROVE Passes(v, wide, type)
  BY <1>3, Landmarks, Doubles, ZenonT(30) DEF Passes, SameTaken, Judged, OnTheWire,
     PanelScalar, CoerceScalar, Finite, IsText, IsNumeric, AsFloat,
     IntegerTypes, FloatTypes, Null, Object, NotANumber, Number, IntegerText,
     DecimalText, Word, Boolean, Refused, JsNumbers
<1>4. ASSUME NEW n \in Whole, v = IntegerText(n) PROVE Passes(v, wide, type)
  BY <1>4, Landmarks, Doubles, ZenonT(30) DEF Passes, SameTaken, Judged, OnTheWire,
     PanelScalar, CoerceScalar, Finite, IsText, IsNumeric, AsFloat,
     IntegerTypes, FloatTypes, Null, Object, NotANumber, Number, IntegerText,
     DecimalText, Word, Boolean, Refused, Whole
<1>5. ASSUME NEW n \in Numbers, v = DecimalText(n) PROVE Passes(v, wide, type)
  BY <1>5, Landmarks, Doubles, ZenonT(30) DEF Passes, SameTaken, Judged, OnTheWire,
     PanelScalar, CoerceScalar, Finite, IsText, IsNumeric, AsFloat,
     IntegerTypes, FloatTypes, Null, Object, NotANumber, Number, IntegerText,
     DecimalText, Word, Boolean, Refused
<1>6. ASSUME NEW w \in STRING, v = Word(w) PROVE Passes(v, wide, type)
  BY <1>6, ZenonT(30) DEF Passes, SameTaken, Judged, OnTheWire, PanelScalar,
     CoerceScalar, Finite, IsText, IsNumeric, AsFloat, IntegerTypes, FloatTypes,
     Null, Object, NotANumber, Number, IntegerText, DecimalText, Word, Boolean,
     Refused
<1>7. ASSUME NEW b \in {"true", "false"}, v = Boolean(b) PROVE Passes(v, wide, type)
  BY <1>7, ZenonT(30) DEF Passes, SameTaken, Judged, OnTheWire, PanelScalar,
     CoerceScalar, Finite, IsText, IsNumeric, AsFloat, IntegerTypes, FloatTypes,
     Null, Object, NotANumber, Number, IntegerText, DecimalText, Word, Boolean,
     Refused
<1> QED
  BY <1>1, <1>2, <1>3, <1>4, <1>5, <1>6, <1>7 DEF Kinds

(* What int64 refuses of it, uint64 will take.                             *)
Splits(v, type) ==
    CoerceScalar(OnTheWire(v), type).kind # "refused" =>
      IF PanelScalar(v, "int64").kind = "refused"
      THEN type = "uint64" /\ PanelScalar(v, "int64") = Refused("integer_out_of_range")
      ELSE SameTaken(v, PanelScalar(v, "int64"), "int64", type)

LEMMA IntegerPasses ==
    ASSUME NEW v \in Scalars, NEW type \in {"int32", "int64", "uint64"}
    PROVE  Splits(v, type)
<1>1. Kinds(v)
  BY ScalarKinds
<1>2. CASE v \in {Null, Object, NotANumber}
  BY <1>2, NeverTaken DEF Splits
<1>3. ASSUME NEW n \in JsNumbers, v = Number(n) PROVE Splits(v, type)
  BY <1>3, Landmarks, SafeOnes, Widest, ZenonT(30) DEF Splits, SameTaken, Judged,
     OnTheWire, PanelScalar, CoerceScalar, Finite, IsText, IsNumeric,
     PanelInteger, BackendInteger, Whole, IntegerTypes, FloatTypes, Null,
     Object, NotANumber, Number, IntegerText, DecimalText, Word, Boolean,
     Refused, JsNumbers
<1>4. ASSUME NEW n \in Whole, v = IntegerText(n) PROVE Splits(v, type)
  BY <1>4, Landmarks, SafeOnes, Widest, ZenonT(30) DEF Splits, SameTaken, Judged,
     OnTheWire, PanelScalar, CoerceScalar, Finite, IsText, IsNumeric,
     PanelInteger, BackendInteger, Whole, IntegerTypes, FloatTypes, Null,
     Object, NotANumber, Number, IntegerText, DecimalText, Word, Boolean,
     Refused
<1>5. ASSUME NEW n \in Numbers, v = DecimalText(n) PROVE Splits(v, type)
  BY <1>5, Landmarks, SafeOnes, Widest, ZenonT(30) DEF Splits, SameTaken, Judged,
     OnTheWire, PanelScalar, CoerceScalar, Finite, IsText, IsNumeric,
     PanelInteger, BackendInteger, Whole, IntegerTypes, FloatTypes, Null,
     Object, NotANumber, Number, IntegerText, DecimalText, Word, Boolean,
     Refused
<1>6. ASSUME NEW w \in STRING, v = Word(w) PROVE Splits(v, type)
  BY <1>6, ZenonT(30) DEF Splits, SameTaken, Judged, OnTheWire, PanelScalar,
     CoerceScalar, Finite, IsText, IsNumeric, PanelInteger, BackendInteger,
     Whole, IntegerTypes, FloatTypes, Null, Object, NotANumber, Number,
     IntegerText, DecimalText, Word, Boolean, Refused
<1>7. ASSUME NEW b \in {"true", "false"}, v = Boolean(b) PROVE Splits(v, type)
  BY <1>7, ZenonT(30) DEF Splits, SameTaken, Judged, OnTheWire, PanelScalar,
     CoerceScalar, Finite, IsText, IsNumeric, PanelInteger, BackendInteger,
     Whole, IntegerTypes, FloatTypes, Null, Object, NotANumber, Number,
     IntegerText, DecimalText, Word, Boolean, Refused
<1> QED
  BY <1>1, <1>2, <1>3, <1>4, <1>5, <1>6, <1>7 DEF Kinds

(* Payloads of any items.                                                  *)
Shapes(S) == [array : BOOLEAN, items : Seq(S)]
NoneRefused(items) == \A i \in DOMAIN items : items[i].kind # "refused"

(* Some item is the first to be refused.                                   *)
LEMMA FirstRefusalIsOne ==
    ASSUME NEW n \in Nat, NEW items, DOMAIN items = 1..n, ~NoneRefused(items)
    PROVE  \E i \in DOMAIN items : FirstRefusal(items) = items[i] /\ items[i].kind = "refused"
<1> DEFINE refused == {i \in DOMAIN items : items[i].kind = "refused"}
<1>1. refused \subseteq Nat /\ refused # {}
  BY DEF NoneRefused
<1>2. PICK i \in refused : \A j \in refused : <<j, i>> \notin OpToRel(<, Nat)
  BY <1>1, NatLessThanWellFounded, WFMin
<1>3. i \in DOMAIN items /\ items[i].kind = "refused"
      /\ \A j \in 1..(i - 1) : items[j].kind # "refused"
  <2>1. i \in DOMAIN items /\ items[i].kind = "refused" /\ i \in 1..n
    OBVIOUS
  <2>2. ASSUME NEW j \in 1..(i - 1) PROVE items[j].kind # "refused"
    <3>1. j \in Nat /\ i \in Nat /\ j < i /\ j \in DOMAIN items
      BY <2>1
    <3>2. <<j, i>> \in OpToRel(<, Nat)
      BY <3>1 DEF OpToRel
    <3> QED BY <1>2, <3>1, <3>2
  <2> QED BY <2>1, <2>2
<1> QED BY <1>3 DEF FirstRefusal

(* A payload is whole, or its first refusal.                               *)
LEMMA CollectedTaken ==
    ASSUME NEW S, NEW p \in Shapes(S), NEW items, NoneRefused(items)
    PROVE  /\ Collected(p, items) = [array |-> p.array, items |-> items]
           /\ ~IsRefused(Collected(p, items))
<1>1. [p EXCEPT !.items = items] = [array |-> p.array, items |-> items]
  BY DEF Shapes
<1>2. ~IsRefused([array |-> p.array, items |-> items])
  BY DEF IsRefused, NoneRefused
<1> QED BY <1>1, <1>2 DEF Collected

LEMMA OneIsRefused == ASSUME NEW v, v.kind = "refused" PROVE IsRefused(One(v))
BY DEF One, IsRefused

LEMMA CollectedRefused ==
    ASSUME NEW S, NEW p \in Shapes(S), NEW n \in Nat, NEW items, DOMAIN items = 1..n,
           ~NoneRefused(items)
    PROVE  /\ IsRefused(Collected(p, items))
           /\ \E i \in DOMAIN items : items[i].kind = "refused" /\ Collected(p, items) = One(items[i])
<1>1. IsRefused([p EXCEPT !.items = items])
  BY DEF Shapes, IsRefused, NoneRefused
<1>2. Collected(p, items) = One(FirstRefusal(items))
  BY <1>1 DEF Collected
<1>3. PICK i \in DOMAIN items : FirstRefusal(items) = items[i] /\ items[i].kind = "refused"
  BY FirstRefusalIsOne
<1> QED BY <1>2, <1>3, OneIsRefused

(* The shape of a payload is judged by its length alone, and both sides    *)
(* judge it alike.                                                         *)
LEMMA AsLong ==
    ASSUME NEW S, NEW T, NEW s \in Seq(S), NEW f \in [DOMAIN s -> T]
    PROVE  f \in Seq(T) /\ Len(f) = Len(s)
<1>1. DOMAIN s = 1..Len(s) /\ Len(s) \in Nat
  OBVIOUS
<1> QED BY <1>1

LEMMA ShapedAlike ==
    ASSUME NEW S, NEW T, NEW p \in Shapes(S), NEW q \in Shapes(T), NEW descriptor, NEW length,
           p.array = q.array, Len(p.items) = Len(q.items),
           ~IsRefused(Shaped(p, descriptor, length))
    PROVE  Shaped(p, descriptor, length) = p /\ Shaped(q, descriptor, length) = q
<1>1. \A reason : IsRefused(One(Refused(reason)))
  BY OneIsRefused DEF Refused
<1> QED
  BY <1>1 DEF Shaped, Shapes

(* No item is refused on the wire.                                         *)
LEMMA FramedIs ==
    ASSUME NEW S, NEW p \in Shapes(S), NoneRefused(p.items)
    PROVE  Framed(p) = [array |-> p.array, items |-> [i \in DOMAIN p.items |-> OnTheWire(p.items[i])]]
<1> DEFINE items == [i \in DOMAIN p.items |-> OnTheWire(p.items[i])]
<1>1. Framed(p) = Collected(p, items)
  BY DEF Framed, Gathered, Each, OnTheWire
<1>2. NoneRefused(items)
  BY DEF NoneRefused, OnTheWire, Null
<1> HIDE DEF items
<1>3. QED
  BY <1>1, <1>2, CollectedTaken DEF items

(* The backend takes a payload if it takes every item of it.               *)
Taken(v, descriptor) ==
    LET b == CoerceScalar(v, WireDataType(descriptor))
    IN  b.kind # "refused" /\ (b.kind = "number" => InRange(b.is, descriptor))
Stored(v, descriptor) ==
    LET b == CoerceScalar(v, WireDataType(descriptor))
    IN  IF WireDataType(descriptor) = "float" THEN Number(Float32(b.is)) ELSE b

(* What the backend does not refuse has a type and a shape, and each item  *)
(* of it is taken ...                                                      *)
LEMMA BackendTakes ==
    ASSUME NEW S, NEW p \in Shapes(S), NEW descriptor, NoneRefused(p.items),
           ~IsRefused(CoerceEntryWriteValue(p, descriptor))
    PROVE  /\ WireDataType(descriptor) \in Types
           /\ Shaped(p, descriptor, descriptor.length) = p
           /\ \A i \in DOMAIN p.items : Taken(p.items[i], descriptor)
<1> DEFINE type == WireDataType(descriptor)
           shaped == Shaped(p, descriptor, descriptor.length)
           Convert(v) == IF v.kind = "refused" THEN v ELSE CoerceScalar(v, type)
           coerced == Gathered(shaped, Convert)
           InBounds(v) == IF v.kind = "number" /\ ~InRange(v.is, descriptor)
                        THEN Refused("value_out_of_range") ELSE v
           judged == IF IsRefused(coerced) THEN coerced ELSE Gathered(coerced, InBounds)
<1>1. type \in Types /\ ~IsRefused(judged)
  BY OneIsRefused DEF CoerceEntryWriteValue, Refused
<1>2. ~IsRefused(coerced) /\ judged = Gathered(coerced, InBounds)
  BY <1>1
<1>3. shaped = p
  <2>1. shaped = p \/ \E reason : shaped = One(Refused(reason))
    BY DEF Shaped
  <2>2. ASSUME NEW reason, shaped = One(Refused(reason)) PROVE FALSE
    <3>1. shaped \in Shapes({Refused(reason)}) /\ shaped.items = <<Refused(reason)>>
      BY <2>2 DEF One, Shapes
    <3> DEFINE items == Each(shaped.items, Convert)
    <3>2. DOMAIN items = 1..1 /\ items[1].kind = "refused"
      BY <3>1 DEF Each, Refused
    <3>3. coerced = Collected(shaped, items)
      BY DEF Gathered
    <3> HIDE DEF items, coerced, shaped
    <3>4. ~NoneRefused(items)
      BY <3>2 DEF NoneRefused
    <3> QED BY <1>2, <3>1, <3>2, <3>3, <3>4, CollectedRefused
  <2> QED BY <2>1, <2>2
<1> DEFINE coercions == [i \in DOMAIN p.items |-> CoerceScalar(p.items[i], type)]
<1>4. coerced = Collected(p, coercions)
  BY <1>3 DEF Gathered, Each, NoneRefused
<1>5. DOMAIN coercions = 1..Len(p.items) /\ Len(p.items) \in Nat
  BY DEF Shapes
<1>6. NoneRefused(coercions)
  <2> HIDE DEF coercions
  <2> QED BY <1>2, <1>4, <1>5, CollectedRefused
<1>7. coerced = [array |-> p.array, items |-> coercions]
  <2> HIDE DEF coercions
  <2> QED BY <1>4, <1>6, CollectedTaken
<1>8. ASSUME NEW i \in DOMAIN p.items PROVE Taken(p.items[i], descriptor)
  <2> DEFINE judgements == [j \in DOMAIN p.items |-> InBounds(coercions[j])]
  <2>1. judged = Collected(coerced, judgements)
    <3>1. coerced.items = coercions
      BY <1>7
    <3>2. Each(coerced.items, InBounds) = judgements
      BY <3>1 DEF Each
    <3> QED BY <1>2, <3>2 DEF Gathered
  <2>2. coercions \in Seq({coercions[j] : j \in DOMAIN p.items})
    BY AsLong DEF Shapes
  <2>3. coerced \in Shapes({coercions[j] : j \in DOMAIN p.items})
    BY <1>7, <2>2 DEF Shapes
  <2>4. DOMAIN judgements = 1..Len(p.items)
    BY <1>5
  <2>5. NoneRefused(judgements)
    <3> HIDE DEF judgements, coerced
    <3> QED BY <1>1, <1>5, <2>1, <2>3, <2>4, CollectedRefused
  <2>6. judgements[i].kind # "refused" /\ coercions[i].kind # "refused"
    BY <1>6, <2>5 DEF NoneRefused
  <2>7. coercions[i].kind = "number" => InRange(coercions[i].is, descriptor)
    BY <2>6 DEF Refused
  <2> QED BY <2>6, <2>7 DEF Taken
<1> QED BY <1>1, <1>3, <1>8

(* ... and then it is written item by item.                                *)
LEMMA BackendWrites ==
    ASSUME NEW S, NEW p \in Shapes(S), NEW descriptor, NoneRefused(p.items),
           WireDataType(descriptor) \in Types,
           Shaped(p, descriptor, descriptor.length) = p,
           \A i \in DOMAIN p.items : Taken(p.items[i], descriptor)
    PROVE  CoerceEntryWriteValue(p, descriptor)
               = [array |-> p.array,
                  items |-> [i \in DOMAIN p.items |-> Stored(p.items[i], descriptor)]]
<1> DEFINE type == WireDataType(descriptor)
           Convert(v) == IF v.kind = "refused" THEN v ELSE CoerceScalar(v, type)
           coerced == Gathered(p, Convert)
           InBounds(v) == IF v.kind = "number" /\ ~InRange(v.is, descriptor)
                        THEN Refused("value_out_of_range") ELSE v
           Kept(v) == IF type = "float" THEN Number(Float32(v.is)) ELSE v
           judged == IF IsRefused(coerced) THEN coerced ELSE Gathered(coerced, InBounds)
           coercions == [i \in DOMAIN p.items |-> CoerceScalar(p.items[i], type)]
           whole == [array |-> p.array, items |-> coercions]
           stored == [i \in DOMAIN p.items |-> Stored(p.items[i], descriptor)]
<1>1. CoerceEntryWriteValue(p, descriptor) = IF IsRefused(judged) THEN judged ELSE Gathered(judged, Kept)
  BY DEF CoerceEntryWriteValue
<1>2. coerced = Collected(p, coercions)
  BY DEF Gathered, Each, NoneRefused
<1>3. NoneRefused(coercions)
  BY DEF Taken, NoneRefused
<1>4. coerced = whole /\ ~IsRefused(coerced)
  <2> HIDE DEF coercions
  <2> QED BY <1>2, <1>3, CollectedTaken
<1>5. whole \in Shapes({coercions[i] : i \in DOMAIN p.items}) /\ whole.items = coercions
  <2>1. coercions \in Seq({coercions[i] : i \in DOMAIN p.items})
    BY AsLong DEF Shapes
  <2> QED BY <2>1 DEF Shapes
<1>6. judged = whole /\ ~IsRefused(judged)
  <2>1. Each(coercions, InBounds) = coercions
    BY DEF Each, Taken
  <2>2. Gathered(whole, InBounds) = Collected(whole, coercions)
    BY <1>5, <2>1 DEF Gathered
  <2> HIDE DEF coercions, whole
  <2>3. Collected(whole, coercions) = [array |-> whole.array, items |-> coercions]
        /\ ~IsRefused(Collected(whole, coercions))
    BY <1>3, <1>5, CollectedTaken
  <2>4. [array |-> whole.array, items |-> coercions] = whole
    BY DEF whole
  <2> QED BY <1>4, <2>2, <2>3, <2>4
<1>7. Gathered(whole, Kept) = Collected(whole, stored)
  <2>1. Each(coercions, Kept) = stored
    BY DEF Each, Stored
  <2> QED BY <1>5, <2>1 DEF Gathered
<1>8. NoneRefused(stored)
  BY DEF NoneRefused, Stored, Taken, Number
<1>9. Collected(whole, stored) = [array |-> p.array, items |-> stored]
  <2> HIDE DEF stored, coercions
  <2> QED BY <1>5, <1>8, CollectedTaken
<1> QED BY <1>1, <1>6, <1>7, <1>9

(* The panel lets a payload through if it takes every item.                *)
Passed(v, descriptor, type) ==
    LET p == PanelScalar(v, type)
    IN  /\ p.kind # "refused"
        /\ Judged(p, type) => InRange(p.is, descriptor)

LEMMA PanelPasses ==
    ASSUME NEW S, NEW p \in Shapes(S), NEW descriptor, NEW type, type # "float",
           NoneRefused(p.items),
           Shaped(p, descriptor, descriptor.length) = p,
           \A i \in DOMAIN p.items : Passed(p.items[i], descriptor, type)
    PROVE  /\ CoerceOpcuaWrite(p, descriptor, type)
               = [array |-> p.array,
                  items |-> [i \in DOMAIN p.items |-> PanelScalar(p.items[i], type)]]
           /\ ~IsRefused(CoerceOpcuaWrite(p, descriptor, type))
<1> DEFINE Convert(v) == IF v.kind = "refused" THEN v ELSE PanelScalar(v, type)
           coerced == Gathered(p, Convert)
           InBounds(v) == IF v.kind = "number" \/ (v.kind = "integer text" /\ type # "string")
                        THEN IF InRange(v.is, descriptor) THEN v ELSE Refused("value_out_of_range")
                        ELSE v
           Rounded(v) == IF type = "float" THEN Number(Float32(v.is)) ELSE v
           judged == IF IsRefused(coerced) THEN coerced ELSE Gathered(coerced, InBounds)
           coercions == [i \in DOMAIN p.items |-> PanelScalar(p.items[i], type)]
           whole == [array |-> p.array, items |-> coercions]
<1>1. CoerceOpcuaWrite(p, descriptor, type) = IF IsRefused(judged) THEN judged ELSE Gathered(judged, Rounded)
  BY DEF CoerceOpcuaWrite
<1>2. coerced = Collected(p, coercions)
  BY DEF Gathered, Each, NoneRefused
<1>3. NoneRefused(coercions)
  BY DEF Passed, NoneRefused
<1>4. coerced = whole /\ ~IsRefused(coerced)
  <2> HIDE DEF coercions
  <2> QED BY <1>2, <1>3, CollectedTaken
<1>5. whole \in Shapes({coercions[i] : i \in DOMAIN p.items}) /\ whole.items = coercions
  <2>1. coercions \in Seq({coercions[i] : i \in DOMAIN p.items})
    BY AsLong DEF Shapes
  <2> QED BY <2>1 DEF Shapes
<1>6. Collected(whole, coercions) = whole /\ ~IsRefused(Collected(whole, coercions))
  <2> HIDE DEF coercions, whole
  <2>1. Collected(whole, coercions) = [array |-> whole.array, items |-> coercions]
        /\ ~IsRefused(Collected(whole, coercions))
    BY <1>3, <1>5, CollectedTaken
  <2>2. [array |-> whole.array, items |-> coercions] = whole
    BY DEF whole
  <2> QED BY <2>1, <2>2
<1>7. judged = whole /\ ~IsRefused(judged)
  <2>1. Each(coercions, InBounds) = coercions
    BY DEF Each, Passed, Judged
  <2>2. Gathered(whole, InBounds) = Collected(whole, coercions)
    BY <1>5, <2>1 DEF Gathered
  <2> QED BY <1>4, <1>6, <2>2
<1>8. Gathered(whole, Rounded) = Collected(whole, coercions)
  <2>1. Each(coercions, Rounded) = coercions
    BY DEF Each
  <2> QED BY <1>5, <2>1 DEF Gathered
<1> HIDE DEF coerced, judged
<1> QED BY <1>1, <1>6, <1>7, <1>8

(* If every item that it refuses is refused for one reason, the payload is *)
(* refused for it.                                                         *)
LEMMA PanelRefuses ==
    ASSUME NEW S, NEW p \in Shapes(S), NEW descriptor, NEW type, NEW reason,
           NoneRefused(p.items),
           Shaped(p, descriptor, descriptor.length) = p,
           \A i \in DOMAIN p.items :
               PanelScalar(p.items[i], type).kind = "refused"
                   => PanelScalar(p.items[i], type) = Refused(reason),
           NEW i \in DOMAIN p.items, PanelScalar(p.items[i], type).kind = "refused"
    PROVE  CoerceOpcuaWrite(p, descriptor, type) = One(Refused(reason))
<1> DEFINE Convert(v) == IF v.kind = "refused" THEN v ELSE PanelScalar(v, type)
           coerced == Gathered(p, Convert)
           coercions == [j \in DOMAIN p.items |-> PanelScalar(p.items[j], type)]
<1>1. coerced = Collected(p, coercions)
  BY DEF Gathered, Each, NoneRefused
<1>2. ~NoneRefused(coercions) /\ DOMAIN coercions = 1..Len(p.items) /\ Len(p.items) \in Nat
  BY DEF NoneRefused, Shapes
<1>3. IsRefused(coerced) /\ \E j \in DOMAIN coercions : coercions[j].kind = "refused" /\ coerced = One(coercions[j])
  <2> HIDE DEF coercions
  <2> QED BY <1>1, <1>2, CollectedRefused
<1>4. coerced = One(Refused(reason))
  BY <1>3
<1>5. CoerceOpcuaWrite(p, descriptor, type) = coerced
  <2> HIDE DEF coerced
  <2>1. IsRefused(coerced) => CoerceOpcuaWrite(p, descriptor, type) = coerced
    BY DEF CoerceOpcuaWrite, coerced
  <2> QED BY <1>3, <2>1
<1> QED BY <1>4, <1>5

(* A payload on its way, of which nothing is refused.                      *)
Wired(p) == [array |-> p.array, items |-> [i \in DOMAIN p.items |-> OnTheWire(p.items[i])]]

LEMMA WiredShape ==
    ASSUME NEW S, NEW p \in Shapes(S), NoneRefused(p.items)
    PROVE  /\ Framed(p) = Wired(p)
           /\ Wired(p) \in Shapes({OnTheWire(p.items[i]) : i \in DOMAIN p.items})
           /\ Wired(p).array = p.array /\ Len(Wired(p).items) = Len(p.items)
           /\ DOMAIN Wired(p).items = DOMAIN p.items
           /\ NoneRefused(Wired(p).items)
<1> DEFINE T == {OnTheWire(p.items[i]) : i \in DOMAIN p.items}
           items == [i \in DOMAIN p.items |-> OnTheWire(p.items[i])]
<1>1. p.items \in Seq(S) /\ p.array \in BOOLEAN
  BY DEF Shapes
<1>2. items \in [DOMAIN p.items -> T]
  OBVIOUS
<1>3. items \in Seq(T) /\ Len(items) = Len(p.items)
  <2> HIDE DEF items, T
  <2> QED BY <1>1, <1>2, AsLong
<1>4. NoneRefused(items)
  BY DEF NoneRefused, OnTheWire, Null
<1>5. Wired(p) = [array |-> p.array, items |-> items]
  BY DEF Wired
<1>6. Framed(p) = Wired(p)
  BY FramedIs DEF Wired
<1> HIDE DEF items
<1>7. Wired(p) \in Shapes(T)
  BY <1>1, <1>3, <1>5 DEF Shapes
<1> QED BY <1>2, <1>3, <1>4, <1>5, <1>6, <1>7

(* A payload of which every item passes is sent, and written as it was     *)
(* entered: "known" is what the panel has of the descriptor.               *)
LEMMA ItemsPass ==
    ASSUME NEW S, NEW p \in Shapes(S), NEW descriptor, NEW type, type # "float",
           NoneRefused(p.items),
           ~IsRefused(CoerceEntryWriteValue(Framed(p), descriptor)),
           NEW known, known.array = descriptor.array, known.length = descriptor.length,
           known.index = descriptor.index,
           \A i \in DOMAIN p.items :
               /\ SameTaken(p.items[i], PanelScalar(p.items[i], type), type,
                            WireDataType(descriptor))
               /\ Judged(PanelScalar(p.items[i], type), type)
                    /\ InRange(PanelScalar(p.items[i], type).is, descriptor)
                        => InRange(PanelScalar(p.items[i], type).is, known)
    PROVE  LET sent == CoerceOpcuaWrite(p, known, type)
           IN  /\ ~IsRefused(sent)
               /\ CoerceEntryWriteValue(Framed(sent), descriptor)
                      = CoerceEntryWriteValue(Framed(p), descriptor)
<1> DEFINE real == WireDataType(descriptor)
           sent == CoerceOpcuaWrite(p, known, type)
           coercions == [i \in DOMAIN p.items |-> PanelScalar(p.items[i], type)]
           whole == [array |-> p.array, items |-> coercions]
           T == {coercions[i] : i \in DOMAIN p.items}
<1>1. /\ real \in Types
      /\ Shaped(Wired(p), descriptor, descriptor.length) = Wired(p)
      /\ \A i \in DOMAIN p.items : Taken(OnTheWire(p.items[i]), descriptor)
  <2> DEFINE q == Wired(p)
             U == {OnTheWire(p.items[i]) : i \in DOMAIN p.items}
  <2>1. \A i \in DOMAIN p.items : q.items[i] = OnTheWire(p.items[i])
    BY DEF Wired
  <2>2. q \in Shapes(U) /\ NoneRefused(q.items) /\ DOMAIN q.items = DOMAIN p.items
        /\ ~IsRefused(CoerceEntryWriteValue(q, descriptor))
    BY WiredShape
  <2> HIDE DEF q, U
  <2>3. /\ real \in Types /\ Shaped(q, descriptor, descriptor.length) = q
        /\ \A i \in DOMAIN p.items : Taken(q.items[i], descriptor)
    BY <2>2, BackendTakes
  <2> QED BY <2>1, <2>3 DEF q
<1>2. ~IsRefused(Wired(p))
  BY WiredShape DEF IsRefused, NoneRefused
<1>3. Shaped(p, descriptor, descriptor.length) = p
  <2> DEFINE q == Wired(p)
             U == {OnTheWire(p.items[i]) : i \in DOMAIN p.items}
  <2>1. q \in Shapes(U) /\ q.array = p.array /\ Len(q.items) = Len(p.items)
    BY WiredShape
  <2>2. ~IsRefused(Shaped(q, descriptor, descriptor.length))
    BY <1>1, <1>2
  <2> HIDE DEF q, U
  <2> QED BY <2>1, <2>2, ShapedAlike
<1>4. \A i \in DOMAIN p.items : Passed(p.items[i], known, type)
  BY <1>1 DEF Passed, Judged, SameTaken, Taken
<1>5. sent = whole /\ ~IsRefused(sent)
  <2>1. Shaped(p, known, known.length) = p
    BY <1>3 DEF Shaped
  <2> QED BY <1>4, <2>1, PanelPasses
<1>6. whole \in Shapes(T) /\ Len(whole.items) = Len(p.items) /\ NoneRefused(whole.items)
      /\ whole.array = p.array /\ DOMAIN whole.items = DOMAIN p.items
  <2>1. p.items \in Seq(S) /\ p.array \in BOOLEAN
    BY DEF Shapes
  <2>2. coercions \in [DOMAIN p.items -> T]
    OBVIOUS
  <2>3. NoneRefused(coercions)
    BY DEF SameTaken, NoneRefused
  <2> HIDE DEF coercions, T
  <2>4. coercions \in Seq(T) /\ Len(coercions) = Len(p.items)
    BY <2>1, <2>2, AsLong
  <2> QED BY <2>1, <2>2, <2>3, <2>4 DEF Shapes
<1>7. \A i \in DOMAIN p.items : Wired(whole).items[i] = OnTheWire(PanelScalar(p.items[i], type))
  BY DEF Wired
<1>8. \A i \in DOMAIN p.items : Wired(p).items[i] = OnTheWire(p.items[i])
  BY DEF Wired
<1> HIDE DEF whole, coercions, T
<1>9. /\ Framed(whole) = Wired(whole) /\ Framed(p) = Wired(p)
      /\ Wired(whole) \in Shapes({OnTheWire(whole.items[i]) : i \in DOMAIN whole.items})
      /\ Wired(p) \in Shapes({OnTheWire(p.items[i]) : i \in DOMAIN p.items})
      /\ Wired(whole).array = Wired(p).array
      /\ Len(Wired(whole).items) = Len(Wired(p).items)
      /\ DOMAIN Wired(whole).items = DOMAIN p.items
      /\ DOMAIN Wired(p).items = DOMAIN p.items
      /\ NoneRefused(Wired(whole).items) /\ NoneRefused(Wired(p).items)
  BY <1>6, WiredShape
<1>10. Shaped(Wired(whole), descriptor, descriptor.length) = Wired(whole)
  BY <1>1, <1>2, <1>9, ShapedAlike
<1>11. \A i \in DOMAIN p.items :
          /\ Taken(Wired(whole).items[i], descriptor)
          /\ Taken(Wired(p).items[i], descriptor)
          /\ Stored(Wired(whole).items[i], descriptor) = Stored(Wired(p).items[i], descriptor)
  BY <1>1, <1>7, <1>8 DEF SameTaken, Taken, Stored
<1>12. CoerceEntryWriteValue(Wired(whole), descriptor)
         = [array |-> Wired(whole).array,
            items |-> [i \in DOMAIN p.items |-> Stored(Wired(whole).items[i], descriptor)]]
  BY <1>1, <1>9, <1>10, <1>11, BackendWrites
<1>13. CoerceEntryWriteValue(Wired(p), descriptor)
         = [array |-> Wired(p).array,
            items |-> [i \in DOMAIN p.items |-> Stored(Wired(p).items[i], descriptor)]]
  BY <1>1, <1>9, <1>11, BackendWrites
<1>14. CoerceEntryWriteValue(Framed(whole), descriptor) = CoerceEntryWriteValue(Framed(p), descriptor)
  BY <1>9, <1>11, <1>12, <1>13
<1> QED BY <1>5, <1>14

(* What the panel knows of a type (to_simple_type, WIDEST_FOR_SIMPLE).     *)
LEMMA Widening ==
    ASSUME NEW label
    PROVE  /\ label \in {"int32", "int64", "uint64"} => WidestForSimple(SimpleType(label)) = "int64"
           /\ label \in {"float", "double"} => WidestForSimple(SimpleType(label)) = "double"
           /\ label \notin Types => WidestForSimple(SimpleType(label)) = "string"
           /\ label \in {"byte", "duration", "boolean", "string", "datetime"} =>
                WidestForSimple(SimpleType(label)) = label
<1>1. label \in {"int32", "int64", "uint64"} => WidestForSimple(SimpleType(label)) = "int64"
  BY DEF WidestForSimple, SimpleType, Types, NumericTypes, IntegerTypes, FloatTypes
<1>2. label \in {"float", "double"} => WidestForSimple(SimpleType(label)) = "double"
  BY DEF WidestForSimple, SimpleType, Types, NumericTypes, IntegerTypes, FloatTypes
<1>3. label \notin Types => WidestForSimple(SimpleType(label)) = "string"
  BY DEF WidestForSimple, SimpleType, Types, NumericTypes, IntegerTypes, FloatTypes
<1>4. label \in {"byte", "duration", "boolean", "string", "datetime"} =>
                WidestForSimple(SimpleType(label)) = label
  BY DEF WidestForSimple, SimpleType, Types, NumericTypes, IntegerTypes, FloatTypes
<1> QED BY <1>1, <1>2, <1>3, <1>4

(* What the panel checks against, and what the backend writes.             *)
Paired(wide, real) ==
    \/ wide \in {"boolean", "datetime", "byte"} /\ real = wide
    \/ wide = "string" /\ real \in Types
    \/ wide = "int64" /\ real \in {"int32", "int64", "uint64"}
    \/ wide \in {"double", "duration"} /\ real \in FloatTypes

(* A browse that does not lie leaves the panel with a type as wide as the  *)
(* one that the backend writes.                                            *)
LEMMA HonestlyPaired ==
    ASSUME Honest, WireDataType(entry) \in Types
    PROVE  Paired(WidestForSimple(SimpleType(entry.label)), WireDataType(entry))
<1> DEFINE label == entry.label
           real == WireDataType(entry)
           wide == WidestForSimple(SimpleType(label))
<1>1. "unknown" \notin Types
  BY DEF Types, NumericTypes, IntegerTypes, FloatTypes
<1>2. CASE label \notin Types
  BY <1>2, Widening DEF Paired
<1>3. CASE label \in Types /\ real = label
  <2>1. label \in {"boolean", "string", "datetime", "byte", "int32", "int64", "uint64",
                   "float", "double", "duration"}
    BY <1>3 DEF Types, NumericTypes, IntegerTypes, FloatTypes
  <2>2. real \in FloatTypes <=> label \in {"float", "double", "duration"}
    BY <1>3 DEF FloatTypes
  <2> HIDE DEF real, label
  <2> QED BY <1>3, <2>1, <2>2, Widening DEF Paired, label, real
<1>4. CASE label \in {"float", "double"} /\ real \in {"float", "double"}
  BY <1>4, Widening DEF Paired, FloatTypes
<1>5. label \in Types /\ real # label => label \in {"float", "double"} /\ real \in {"float", "double"}
  BY <1>1 DEF Honest, WireDataType
<1> QED BY <1>2, <1>3, <1>4, <1>5

LEMMA PairedPasses ==
    ASSUME NEW v \in Scalars, NEW wide, NEW real, Paired(wide, real), wide # "int64"
    PROVE  Passes(v, wide, real)
<1>1. CASE wide \in {"boolean", "datetime", "byte"} /\ real = wide
  BY <1>1, BooleanPasses, MomentPasses, BytePasses
<1>2. CASE wide = "string" /\ real \in Types
  BY <1>2, TextPasses, TextForBoolean, TextForMoment, TextForInteger, TextForFloat
     DEF Types, NumericTypes
<1>3. CASE wide \in {"double", "duration"} /\ real \in FloatTypes
  BY <1>3, FloatPasses
<1> QED BY <1>1, <1>2, <1>3 DEF Paired

LEMMA KindOfScalar ==
    ASSUME NEW v \in Scalars
    PROVE  /\ v.kind # "refused"
           /\ IsNumeric(v) /\ v # NotANumber => v.is \in Numbers
           /\ v.kind = "number" /\ v # NotANumber => Double(v.is) = v.is
           /\ v.kind = "integer text" => v # NotANumber
<1>1. Kinds(v)
  BY ScalarKinds
<1>2. Null.kind = "null" /\ Object.kind = "object" /\ NotANumber.kind = "number"
  BY DEF Null, Object, NotANumber
<1>3. ASSUME NEW n \in JsNumbers, v = Number(n)
      PROVE  v.kind = "number" /\ v.is \in Numbers /\ Double(v.is) = v.is
  BY <1>3 DEF Number, JsNumbers
<1>4. ASSUME NEW n \in Whole, v = IntegerText(n)
      PROVE  v.kind = "integer text" /\ v.is \in Numbers /\ v # NotANumber
  BY <1>4 DEF IntegerText, Whole, NotANumber
<1>5. ASSUME NEW n \in Numbers, v = DecimalText(n)
      PROVE  v.kind = "decimal text" /\ v.is \in Numbers
  BY <1>5 DEF DecimalText
<1>6. ASSUME NEW n \in STRING, v = Word(n) PROVE v.kind = "word"
  BY <1>6 DEF Word
<1>7. ASSUME NEW n, v = Boolean(n) PROVE v.kind = "boolean"
  BY <1>7 DEF Boolean
<1> QED BY <1>1, <1>2, <1>3, <1>4, <1>5, <1>6, <1>7 DEF Kinds, IsNumeric

(* Nothing that is entered is a refusal.                                   *)
LEMMA Unrefused ==
    ASSUME NEW p \in Payloads
    PROVE  p \in Shapes(Scalars) /\ NoneRefused(p.items)
           /\ \A i \in DOMAIN p.items : p.items[i] \in Scalars
<1>1. p \in Shapes(Scalars) /\ \A i \in DOMAIN p.items : p.items[i] \in Scalars
  BY DEF Payloads, Shapes
<1>2. \A v \in Scalars : v.kind # "refused"
  BY KindOfScalar
<1> QED BY <1>1, <1>2 DEF NoneRefused

(* What the backend takes as it was entered.                               *)
LEMMA TakenAsEntered ==
    ASSUME NEW p \in Payloads, NEW descriptor,
           ~IsRefused(CoerceEntryWriteValue(Framed(p), descriptor))
    PROVE  /\ WireDataType(descriptor) \in Types
           /\ Shaped(p, descriptor, descriptor.length) = p
           /\ \A i \in DOMAIN p.items : Taken(OnTheWire(p.items[i]), descriptor)
<1> DEFINE q == Wired(p)
           U == {OnTheWire(p.items[i]) : i \in DOMAIN p.items}
<1>1. p \in Shapes(Scalars) /\ NoneRefused(p.items)
  BY Unrefused
<1>2. /\ Framed(p) = q /\ q \in Shapes(U) /\ q.array = p.array
      /\ Len(q.items) = Len(p.items) /\ DOMAIN q.items = DOMAIN p.items /\ NoneRefused(q.items)
  BY <1>1, WiredShape
<1>3. \A i \in DOMAIN p.items : q.items[i] = OnTheWire(p.items[i])
  BY DEF Wired
<1> HIDE DEF q, U
<1>4. /\ WireDataType(descriptor) \in Types
      /\ Shaped(q, descriptor, descriptor.length) = q
      /\ \A i \in DOMAIN q.items : Taken(q.items[i], descriptor)
  BY <1>2, BackendTakes
<1>5. ~IsRefused(q)
  BY <1>2 DEF IsRefused, NoneRefused
<1>6. Shaped(p, descriptor, descriptor.length) = p
  BY <1>1, <1>2, <1>4, <1>5, ShapedAlike
<1> QED BY <1>2, <1>3, <1>4, <1>6

(* What the panel judges by the range is a double, or digits as they were  *)
(* entered.                                                                *)
LEMMA JudgedByPanel ==
    ASSUME NEW v \in Scalars, NEW type, Judged(PanelScalar(v, type), type)
    PROVE  LET n == PanelScalar(v, type).is
           IN  /\ n \in Numbers
               /\ Double(n) = n \/ (v.kind = "integer text" /\ v.is = n)
<1> DEFINE p == PanelScalar(v, type)
<1>1. p.kind \in {"number", "integer text"} /\ (p.kind = "integer text" => type # "string")
  BY DEF Judged
<1>2. \A reason : Refused(reason).kind = "refused"
  BY DEF Refused
<1>3. v.kind \notin {"null", "object"} /\ type # "boolean"
  BY <1>1, <1>2 DEF PanelScalar, AsBoolean, Boolean
<1>4. CASE type \in IntegerTypes
  <2>1. p = PanelInteger(v, type)
    BY <1>3, <1>4 DEF PanelScalar
  <2>2. v.kind \in {"number", "integer text"} /\ (v.kind = "number" => Safe(v.is))
        /\ p = IF Safe(v.is) THEN Number(v.is) ELSE IntegerText(v.is)
    <3> HIDE DEF p
    <3> QED BY <1>1, <1>2, <2>1 DEF PanelInteger
  <2>3. p.is = v.is
    <3> HIDE DEF p
    <3> QED BY <2>2 DEF Number, IntegerText
  <2>4. v # NotANumber
    <3>1. "NaN" \notin Whole
      BY Landmarks DEF Whole
    <3>2. NotANumber.kind = "number" /\ NotANumber.is = "NaN"
      BY DEF NotANumber
    <3> HIDE DEF p
    <3> QED BY <1>1, <1>2, <2>1, <3>1, <3>2 DEF PanelInteger
  <2>5. v.is \in Numbers
    BY <2>2, <2>4, KindOfScalar DEF IsNumeric
  <2> HIDE DEF p
  <2> QED BY <2>2, <2>3, <2>5, SafeOnes DEF p
<1>5. CASE type \in FloatTypes
  <2>1. type \notin IntegerTypes
    BY <1>5 DEF IntegerTypes, FloatTypes
  <2>2. p = AsFloat(v, type) /\ v # NotANumber
    <3>1. p = IF v = NotANumber THEN Refused("non_finite_float") ELSE AsFloat(v, type)
      BY <1>3, <1>5, <2>1 DEF PanelScalar
    <3> HIDE DEF p
    <3> QED BY <1>1, <1>2, <3>1
  <2>3. IsNumeric(v) /\ p = Number(Double(v.is))
    <3> HIDE DEF p
    <3> QED BY <1>1, <1>2, <2>2 DEF AsFloat
  <2>4. v.is \in Numbers
    BY <2>2, <2>3, KindOfScalar DEF IsNumeric
  <2>5. p.is = Double(v.is)
    <3> HIDE DEF p
    <3> QED BY <2>3 DEF Number
  <2> HIDE DEF p
  <2> QED BY <2>4, <2>5, Doubles DEF p
<1>6. CASE type = "string"
  <2>1. type \notin IntegerTypes \cup FloatTypes
    BY <1>6 DEF IntegerTypes, FloatTypes
  <2>2. p \in {Refused("invalid_string"), AsText(v)}
    BY <1>3, <1>6, <2>1 DEF PanelScalar
  <2>3. p.kind = "number"
    BY <1>1, <1>6
  <2>4. AsText(v).kind # "number"
    BY DEF AsText, IsText, Word, IntegerText, DecimalText
  <2> HIDE DEF p
  <2> QED BY <1>2, <2>2, <2>3, <2>4
<1>7. CASE type \notin IntegerTypes \cup FloatTypes \cup {"string"}
  <2>1. p = AsMoment(v)
    BY <1>3, <1>7 DEF PanelScalar
  <2>2. AsMoment(v).kind \in {"word", "refused"}
    BY DEF AsMoment, Moments, Word, Refused
  <2> HIDE DEF p
  <2> QED BY <1>1, <2>1, <2>2
<1> QED BY <1>4, <1>5, <1>6, <1>7

(* The panel takes what the backend takes: rounding the bounds keeps the   *)
(* place of a double among them.                                           *)
LEMMA RangeJudgedAlike ==
    ASSUME entry \in Entries, RangeBounds(PanelEntry(entry)) = PanelEntry(RangeBounds(entry)),
           NEW n \in Numbers, Double(n) = n \/ PanelEntry(entry) = entry,
           InRange(n, entry)
    PROVE  InRange(n, PanelEntry(entry))
<1> DEFINE bounds == RangeBounds(entry)
<1>1. CASE PanelEntry(entry) = entry
  BY <1>1
<1>2. CASE Double(n) = n
  <2>1. /\ bounds.min \in Numbers \cup {Unset} /\ bounds.max \in Numbers \cup {Unset}
        /\ PanelEntry(bounds).min = AsDouble(bounds.min)
        /\ PanelEntry(bounds).max = AsDouble(bounds.max)
    BY DEF RangeBounds, Entries, PanelEntry
  <2>2. /\ bounds.min = Unset \/ InOrder(bounds.min, n)
        /\ bounds.max = Unset \/ InOrder(n, bounds.max)
    BY DEF InRange
  <2>3. AsDouble(bounds.min) = Unset \/ InOrder(AsDouble(bounds.min), n)
    <3> HIDE DEF bounds
    <3> QED BY <1>2, <2>1, <2>2, RoundingKeepsOrder DEF AsDouble
  <2>4. AsDouble(bounds.max) = Unset \/ InOrder(n, AsDouble(bounds.max))
    <3> HIDE DEF bounds
    <3> QED BY <1>2, <2>1, <2>2, RoundingKeepsOrder DEF AsDouble
  <2>5. RangeBounds(PanelEntry(entry)) = PanelEntry(bounds)
    OBVIOUS
  <2> HIDE DEF bounds
  <2> QED BY <2>1, <2>3, <2>4, <2>5 DEF InRange
<1> QED BY <1>1, <1>2

(* The panel has the shape and the type of the descriptor as they are.     *)
LEMMA PanelHas ==
    ASSUME entry \in Entries
    PROVE  /\ PanelEntry(entry).label = entry.label /\ PanelEntry(entry).array = entry.array
           /\ PanelEntry(entry).length = entry.length /\ PanelEntry(entry).index = entry.index
           /\ PanelEntry(entry).min = AsDouble(entry.min)
           /\ PanelEntry(entry).max = AsDouble(entry.max)
BY DEF PanelEntry, Entries

(* preflight lets through what the backend takes: also the upper half of   *)
(* UInt64, which int64 refuses.                                            *)
LEMMA PreflightPasses ==
    ASSUME entry \in Entries, entered \in Payloads, Honest, ComparedAlike,
           ~IsRefused(CoerceEntryWriteValue(Framed(entered), entry))
    PROVE  /\ ~IsRefused(Preflight(entered, PanelEntry(entry)))
           /\ CoerceEntryWriteValue(Framed(Preflight(entered, PanelEntry(entry))), entry)
                  = CoerceEntryWriteValue(Framed(entered), entry)
<1> DEFINE known == PanelEntry(entry)
           real == WireDataType(entry)
           wide == WidestForSimple(SimpleType(entry.label))
           Unchanged(sent) ==
               /\ ~IsRefused(sent)
               /\ CoerceEntryWriteValue(Framed(sent), entry)
                      = CoerceEntryWriteValue(Framed(entered), entry)
<1>1. /\ real \in Types
      /\ Shaped(entered, entry, entry.length) = entered
      /\ \A i \in DOMAIN entered.items : Taken(OnTheWire(entered.items[i]), entry)
  BY TakenAsEntered
<1>2. \A i \in DOMAIN entered.items : CoerceScalar(OnTheWire(entered.items[i]), real).kind # "refused"
  BY <1>1 DEF Taken
<1>3. Paired(wide, real)
  BY <1>1, HonestlyPaired
<1>4. entered \in Shapes(Scalars) /\ NoneRefused(entered.items)
      /\ \A i \in DOMAIN entered.items : entered.items[i] \in Scalars
  BY Unrefused
<1>5. ASSUME NEW type, type # "float",
             \A i \in DOMAIN entered.items :
                 SameTaken(entered.items[i], PanelScalar(entered.items[i], type), type, real)
      PROVE  Unchanged(CoerceOpcuaWrite(entered, known, type))
  <2> DEFINE n(i) == PanelScalar(entered.items[i], type).is
  <2>1. ASSUME NEW i \in DOMAIN entered.items, Judged(PanelScalar(entered.items[i], type), type),
               InRange(n(i), entry)
        PROVE  InRange(n(i), known)
    <3>1. n(i) \in Numbers /\ (Double(n(i)) = n(i)
            \/ (entered.items[i].kind = "integer text" /\ entered.items[i].is = n(i)))
      BY <1>4, <2>1, JudgedByPanel
    <3>2. Double(n(i)) # n(i) => DigitsBeyondDoubles
      <4> HIDE DEF n
      <4> QED BY <3>1 DEF DigitsBeyondDoubles
    <3> HIDE DEF n
    <3> QED BY <2>1, <3>1, <3>2, RangeJudgedAlike DEF ComparedAlike
  <2>2. known.array = entry.array /\ known.length = entry.length /\ known.index = entry.index
    BY PanelHas
  <2> HIDE DEF known
  <2> QED BY <1>4, <1>5, <2>1, <2>2, ItemsPass
<1>6. CASE wide # "int64"
  <2>1. \A i \in DOMAIN entered.items :
            SameTaken(entered.items[i], PanelScalar(entered.items[i], wide), wide, real)
    <3>1. \A i \in DOMAIN entered.items : Passes(entered.items[i], wide, real)
      <4> HIDE DEF wide, real
      <4> QED BY <1>3, <1>4, <1>6, PairedPasses
    <3> QED BY <1>2, <3>1 DEF Passes
  <2>2. wide # "float"
    BY <1>3 DEF Paired
  <2>3. Unchanged(CoerceOpcuaWrite(entered, known, wide))
    <3> HIDE DEF wide, real, Unchanged
    <3> QED BY <1>5, <2>1, <2>2
  <2>4. Preflight(entered, known) = CoerceOpcuaWrite(entered, known, wide)
    BY <1>6, PanelHas DEF Preflight
  <2> QED BY <2>3, <2>4
<1>7. CASE wide = "int64"
  <2>1. real \in {"int32", "int64", "uint64"}
    BY <1>3, <1>7 DEF Paired
  <2>2. \A i \in DOMAIN entered.items : Splits(entered.items[i], real)
    <3> HIDE DEF real
    <3> QED BY <1>4, <2>1, IntegerPasses
  <2>3. CASE \A i \in DOMAIN entered.items : PanelScalar(entered.items[i], "int64").kind # "refused"
    <3>1. \A i \in DOMAIN entered.items :
              SameTaken(entered.items[i], PanelScalar(entered.items[i], "int64"), "int64", real)
      BY <1>2, <2>2, <2>3 DEF Splits
    <3>2. Unchanged(CoerceOpcuaWrite(entered, known, "int64"))
      <4> HIDE DEF real, Unchanged
      <4> QED BY <1>5, <3>1
    <3>3. CoerceOpcuaWrite(entered, known, "int64") # One(Refused("integer_out_of_range"))
      BY <3>2, OneIsRefused DEF Refused
    <3>4. Preflight(entered, known) = CoerceOpcuaWrite(entered, known, "int64")
      BY <1>7, <3>3, PanelHas DEF Preflight
    <3> QED BY <3>2, <3>4
  <2>4. ASSUME NEW i \in DOMAIN entered.items, PanelScalar(entered.items[i], "int64").kind = "refused"
        PROVE  Unchanged(Preflight(entered, known))
    <3>1. real = "uint64"
      BY <1>2, <2>2, <2>4 DEF Splits
    <3>2. \A j \in DOMAIN entered.items :
             PanelScalar(entered.items[j], "int64").kind = "refused"
                 => PanelScalar(entered.items[j], "int64") = Refused("integer_out_of_range")
      BY <1>2, <2>2 DEF Splits
    <3>3. CoerceOpcuaWrite(entered, known, "int64") = One(Refused("integer_out_of_range"))
      <4>1. Shaped(entered, known, known.length) = entered
        BY <1>1, PanelHas DEF Shaped
      <4> HIDE DEF known
      <4> QED BY <1>4, <2>4, <3>2, <4>1, PanelRefuses
    <3>4. Preflight(entered, known) = CoerceOpcuaWrite(entered, known, "uint64")
      BY <1>7, <3>3, PanelHas DEF Preflight
    <3>5. \A j \in DOMAIN entered.items :
              SameTaken(entered.items[j], PanelScalar(entered.items[j], "uint64"), "uint64", real)
      <4>1. \A j \in DOMAIN entered.items : Passes(entered.items[j], "uint64", "uint64")
        BY <1>4, WidestPasses
      <4> QED BY <1>2, <3>1, <4>1 DEF Passes
    <3>6. Unchanged(CoerceOpcuaWrite(entered, known, "uint64"))
      <4> HIDE DEF real, Unchanged
      <4> QED BY <1>5, <3>5
    <3> QED BY <3>4, <3>6
  <2> QED BY <2>3, <2>4
<1> QED BY <1>6, <1>7

(* outOfRange, the check of a field of unknown type, too.                  *)
LEMMA RangePasses ==
    ASSUME entry \in Entries, entered \in Payloads, Honest, ComparedAlike,
           entry.knows = "range",
           ~IsRefused(CoerceEntryWriteValue(Framed(entered), entry))
    PROVE  ~OutOfRange(entered, PanelEntry(entry))
<1> DEFINE v == entered.items[1]
           real == WireDataType(entry)
<1>1. SUFFICES ASSUME OutOfRange(entered, PanelEntry(entry)) PROVE FALSE
  OBVIOUS
<1>2. /\ v.kind \in {"number", "integer text"} /\ v # NotANumber /\ ~InRange(v.is, PanelEntry(entry))
      /\ v \in Scalars /\ Taken(OnTheWire(v), entry) /\ real \in Types
  <2>1. 1 \in DOMAIN entered.items
    <3>1. ~entered.array
      BY <1>1 DEF OutOfRange
    <3>2. entered.items \in Seq(Scalars) /\ Len(entered.items) = 1
      BY <3>1 DEF Payloads
    <3> QED BY <3>2
  <2>2. v \in Scalars /\ Taken(OnTheWire(v), entry) /\ real \in Types
    BY <2>1, TakenAsEntered, Unrefused
  <2>3. /\ v.kind \in {"number", "integer text"} /\ ~InRange(v.is, PanelEntry(entry))
        /\ v.kind = "number" => v # NotANumber
    BY <1>1 DEF OutOfRange
  <2>4. v # NotANumber
    <3> HIDE DEF v
    <3> QED BY <2>2, <2>3, KindOfScalar
  <2> HIDE DEF v, real
  <2> QED BY <2>2, <2>3, <2>4
<1>3. v.is \in Numbers /\ (v.kind = "number" => Double(v.is) = v.is)
  <2>1. v \in Scalars /\ v.kind \in {"number", "integer text"} /\ v # NotANumber
    BY <1>2
  <2> HIDE DEF v
  <2> QED BY <2>1, KindOfScalar DEF IsNumeric
<1>4. OnTheWire(v) = v
  BY <1>2 DEF OnTheWire, Taken, CoerceScalar, Null, Refused
<1>5. entry.label \in NumericTypes
  <2>1. PanelEntry(entry).min # Unset \/ PanelEntry(entry).max # Unset
    BY <1>2 DEF InRange, RangeBounds
  <2>2. entry.min # Unset \/ entry.max # Unset
    BY <2>1, PanelHas DEF AsDouble
  <2> QED BY <2>2 DEF Entries
<1>6. real \in NumericTypes /\ (real \in FloatTypes => entry.label \in FloatTypes)
  <2>1. "unknown" \notin Types /\ NumericTypes \subseteq Types
    BY DEF Types, NumericTypes, IntegerTypes, FloatTypes
  <2>2. real = entry.label \/ {entry.label, real} \subseteq {"float", "double"}
    BY <1>5, <2>1 DEF Honest, WireDataType
  <2> HIDE DEF real
  <2> QED BY <1>5, <2>2 DEF NumericTypes, FloatTypes
<1>7. /\ CoerceScalar(v, real).kind # "refused"
      /\ CoerceScalar(v, real).kind = "number" => InRange(CoerceScalar(v, real).is, entry)
  BY <1>2, <1>4 DEF Taken
<1>8. Double(v.is) = v.is \/ DigitsBeyondDoubles
  <2>1. 1 \in DOMAIN entered.items
    <3>1. ~entered.array
      BY <1>1 DEF OutOfRange
    <3>2. entered.items \in Seq(Scalars) /\ Len(entered.items) = 1
      BY <3>1 DEF Payloads
    <3> QED BY <3>2
  <2>2. v.kind = "integer text" \/ Double(v.is) = v.is
    BY <1>2, <1>3
  <2> QED BY <2>1, <2>2 DEF DigitsBeyondDoubles
<1>9. ~InRange(v.is, entry) /\ v.kind \in {"number", "integer text"}
  <2>1. v.is \in Numbers /\ ~InRange(v.is, PanelEntry(entry)) /\ v.kind \in {"number", "integer text"}
    BY <1>2, <1>3
  <2> HIDE DEF v
  <2> QED BY <1>8, <2>1, RangeJudgedAlike DEF ComparedAlike
<1> HIDE DEF v, real
<1>10. CASE real \in IntegerTypes
  <2>1. CoerceScalar(v, real) = BackendInteger(v, real)
    BY <1>9, <1>10 DEF CoerceScalar, IntegerTypes
  <2>2. CoerceScalar(v, real) = Number(v.is)
    <3>1. \A reason : Refused(reason).kind = "refused"
      BY DEF Refused
    <3> QED BY <1>7, <2>1, <3>1 DEF BackendInteger
  <2>3. Number(v.is).kind = "number" /\ Number(v.is).is = v.is
    BY DEF Number
  <2> QED BY <1>7, <1>9, <2>2, <2>3
<1>11. CASE real \in FloatTypes
  <2>1. CoerceScalar(v, real) = AsFloat(v, real)
    BY <1>9, <1>11 DEF CoerceScalar, IntegerTypes, FloatTypes
  <2>2. CoerceScalar(v, real) = Number(Double(v.is))
    BY <1>7, <2>1 DEF AsFloat, Refused
  <2>3. InRange(Double(v.is), entry)
    BY <1>7, <2>2 DEF Number
  <2>4. Double(v.is) = v.is
    BY <1>6, <1>8, <1>11 DEF ComparedAlike
  <2> QED BY <1>9, <2>3, <2>4
<1> QED BY <1>6, <1>10, <1>11 DEF NumericTypes

(* Together: what is sent is written as what was entered.                  *)
LEMMA SentAlike ==
    ASSUME entry \in Entries, entered \in Payloads, Honest, ComparedAlike,
           ~IsRefused(Written(Framed(entered), entry))
    PROVE  /\ ~IsRefused(Sent(entered, entry))
           /\ Written(Framed(Sent(entered, entry)), entry) = Written(Framed(entered), entry)
<1>1. entry.writable
  BY OneIsRefused DEF Written, Refused
<1>2. ~IsRefused(CoerceEntryWriteValue(Framed(entered), entry))
  BY <1>1 DEF Written
<1>3. CASE entry.knows = "metadata"
  <2>1. Sent(entered, entry) = Preflight(entered, PanelEntry(entry))
    BY <1>1, <1>3 DEF Sent
  <2> QED BY <1>1, <1>2, <2>1, PreflightPasses DEF Written
<1>4. CASE entry.knows # "metadata"
  <2>1. entry.knows = "range" => ~OutOfRange(entered, PanelEntry(entry))
    BY <1>2, RangePasses
  <2>2. Sent(entered, entry) = entered
    BY <1>4, <2>1 DEF Sent
  <2>3. ~IsRefused(entered)
    BY Unrefused DEF NoneRefused, IsRefused
  <2> QED BY <2>2, <2>3
<1> QED BY <1>3, <1>4

-----------------------------------------------------------------------------
(* The steps.                                                              *)

(* What a value becomes, entered by a handler or sent by the panel.        *)
Makes == {Written(Framed(entered), entry), Written(Framed(Sent(entered, entry)), entry)}

CaseInv == entry \in Entries /\ entered \in Payloads
RefusedInv == \A r \in Requests : told[r] = "refused" => IsRefused(Sent(entered, entry))
MadeInv ==
    /\ \A h \in handlers : h.value \in Makes
    /\ \A r \in Requests : landed[r] \in {NotTaken} \cup Makes
ValuesInv == CaseInv /\ RefusedInv /\ MadeInv

LEMMA ValuesInit == Init => ValuesInv
BY CasesAssumption DEF Init, ValuesInv, CaseInv, RefusedInv, MadeInv

(* What is asked changes no value.                                         *)
LEMMA AskingKeeps ==
    ASSUME ValuesInv, UNCHANGED <<entry, entered, landed>>, handlers' \subseteq handlers,
           \A r \in Requests : told'[r] = "refused" =>
               told[r] = "refused" \/ IsRefused(Sent(entered, entry))
    PROVE  ValuesInv'
<1>1. CaseInv' /\ Makes' = Makes
  BY DEF ValuesInv, CaseInv, Makes
<1>2. RefusedInv'
  BY DEF ValuesInv, RefusedInv
<1>3. MadeInv'
  BY <1>1 DEF ValuesInv, MadeInv, NotTaken
<1> QED BY <1>1, <1>2, <1>3 DEF ValuesInv

LEMMA ResolvedIsNotRefused ==
    ASSUME AnswersInv, NEW r, NEW outcome \in Outcomes, ResolvePending(r, outcome)
    PROVE  \A q \in Requests : told'[q] = "refused" => told[q] = "refused"
<1>1. CASE r \notin pending
  BY <1>1 DEF ResolvePending
<1>2. CASE r \in pending
  <2>1. PICK next \in FollowUps :
          told' = [q \in Requests |->
                IF q = r THEN outcome ELSE IF q \in next THEN "waits" ELSE told[q]]
    BY <1>2 DEF ResolvePending
  <2> QED BY <2>1 DEF Outcomes
<1> QED BY <1>1, <1>2

LEMMA DisconnectedIsNotRefused ==
    ASSUME Disconnect
    PROVE  \A q \in Requests : told'[q] = "refused" => told[q] = "refused"
<1>1. PICK next \in IF pending = {} THEN {{}} ELSE SUBSET Unmade :
        told' = [q \in Requests |->
              IF q \in pending THEN "lost" ELSE IF q \in next THEN "waits" ELSE told[q]]
  BY DEF Disconnect
<1> QED BY <1>1

(* A frame carries what was entered, or what the panel made of it.         *)
LEMMA HandledIsMade ==
    ASSUME AnswersInv, ValuesInv, HandleWrite
    PROVE  ValuesInv'
<1> DEFINE handler == [id |-> Head(uplink).id, socket |-> sockets,
                       value |-> Written(Head(uplink).value, entry)]
<1>1. /\ uplink \in Seq(Frames) /\ uplink # <<>>
      /\ UNCHANGED <<entry, entered, told, landed>>
      /\ handlers' = handlers \/ handlers' = handlers \cup {handler}
  BY DEF HandleWrite, AnswersInv, TypeInv
<1>2. Head(uplink) \in Frames
  BY <1>1
<1>3. handler.value \in Makes
  BY <1>2 DEF Frames, Makes
<1>4. CaseInv' /\ RefusedInv' /\ Makes' = Makes
  BY <1>1 DEF ValuesInv, CaseInv, RefusedInv, Makes
<1>5. MadeInv'
  BY <1>1, <1>3, <1>4 DEF ValuesInv, MadeInv, NotTaken
<1> QED BY <1>4, <1>5 DEF ValuesInv

LEMMA LandedIsMade ==
    ASSUME AnswersInv, ValuesInv, NEW handler \in handlers, WriteNode(handler)
    PROVE  ValuesInv'
<1>1. /\ UNCHANGED <<entry, entered, told>> /\ handlers' = handlers \ {handler}
      /\ landed' = landed \/ landed' = [landed EXCEPT ![handler.id] = handler.value]
  BY DEF WriteNode, Land
<1>2. CaseInv' /\ RefusedInv' /\ Makes' = Makes
  BY <1>1 DEF ValuesInv, CaseInv, RefusedInv, Makes
<1>3. handler.value \in Makes
  BY DEF ValuesInv, MadeInv
<1>4. \A r \in Requests : landed'[r] = landed[r] \/ landed'[r] = handler.value
  BY <1>1 DEF AnswersInv, TypeInv
<1>5. MadeInv'
  BY <1>1, <1>2, <1>3, <1>4 DEF ValuesInv, MadeInv, NotTaken
<1> QED BY <1>2, <1>5 DEF ValuesInv

LEMMA ValuesStep == AnswersInv /\ ValuesInv /\ [Next]_vars => ValuesInv'
<1> SUFFICES ASSUME AnswersInv, ValuesInv, [Next]_vars PROVE ValuesInv'
  OBVIOUS
<1>1. told \in [Requests -> Words]
  BY DEF AnswersInv, TypeInv
<1>2. ASSUME NEW r \in Requests, Write(r) \/ WriteUntracked(r) PROVE ValuesInv'
  <2>1. UNCHANGED <<entry, entered, landed, handlers>>
    BY <1>2 DEF Write, WriteUntracked
  <2>2. \/ IsRefused(Sent(entered, entry)) /\ told' = [told EXCEPT ![r] = "refused"]
        \/ told' = [told EXCEPT ![r] = "waits"] \/ told' = [told EXCEPT ![r] = "untracked"]
    BY <1>2 DEF Write, WriteUntracked
  <2>3. \A q \in Requests : told'[q] = "refused" =>
            told[q] = "refused" \/ IsRefused(Sent(entered, entry))
    BY <1>1, <2>2
  <2> QED BY <2>1, <2>3, AskingKeeps
<1>3. ASSUME NEW r \in Requests, TimeOut(r) PROVE ValuesInv'
  <2>1. ResolvePending(r, "lost") /\ "lost" \in Outcomes /\ UNCHANGED <<entry, entered, landed, handlers>>
    BY <1>3 DEF TimeOut, Outcomes
  <2>2. \A q \in Requests : told'[q] = "refused" => told[q] = "refused"
    BY <2>1, ResolvedIsNotRefused
  <2> QED BY <2>1, <2>2, AskingKeeps
<1>4. CASE Receive
  <2>1. /\ ResolvePending(Head(wire).id, Head(wire).outcome)
        /\ UNCHANGED <<entry, entered, landed, handlers>>
    BY <1>4 DEF Receive
  <2>2. Head(wire).outcome \in Outcomes
    <3>1. wire \in Seq(Answers) /\ wire # <<>>
      BY <1>4 DEF Receive, AnswersInv, TypeInv
    <3>2. Head(wire) \in Answers
      BY <3>1
    <3> QED BY <3>2 DEF Answers, Outcomes
  <2>3. \A q \in Requests : told'[q] = "refused" => told[q] = "refused"
    BY <2>1, <2>2, ResolvedIsNotRefused
  <2> QED BY <2>1, <2>3, AskingKeeps
<1>5. CASE HandleWrite
  BY <1>5, HandledIsMade
<1>6. ASSUME NEW h \in handlers, WriteNode(h) PROVE ValuesInv'
  BY <1>6, LandedIsMade
<1>7. CASE ConnectionLost
  BY <1>7, DisconnectedIsNotRefused, AskingKeeps DEF ConnectionLost
<1>8. CASE Restart
  <2>1. UNCHANGED <<entry, entered, landed>> /\ handlers' \subseteq handlers
    BY <1>8 DEF Restart
  <2>2. Disconnect \/ UNCHANGED told
    BY <1>8 DEF Restart
  <2>3. \A q \in Requests : told'[q] = "refused" => told[q] = "refused"
    BY <2>2, DisconnectedIsNotRefused
  <2> QED BY <2>1, <2>3, AskingKeeps
<1>9. CASE Connect
  BY <1>9, AskingKeeps DEF Connect
<1>10. CASE UNCHANGED vars
  BY <1>10, AskingKeeps DEF vars
<1> QED BY <1>2, <1>3, <1>4, <1>5, <1>6, <1>7, <1>8, <1>9, <1>10 DEF Next

(* What the panel refuses, the backend would have refused.                 *)
LEMMA ValuesAreAsEntered == ValuesInv => PreflightChangesNothing
<1> SUFFICES ASSUME ValuesInv, Honest, ComparedAlike, ~IsRefused(Written(Framed(entered), entry)),
                    NEW r \in Requests
             PROVE  told[r] # "refused" /\ landed[r] \in {NotTaken, Written(Framed(entered), entry)}
  BY DEF PreflightChangesNothing
<1>1. /\ ~IsRefused(Sent(entered, entry))
      /\ Written(Framed(Sent(entered, entry)), entry) = Written(Framed(entered), entry)
  BY SentAlike DEF ValuesInv, CaseInv
<1> QED BY <1>1 DEF ValuesInv, RefusedInv, MadeInv, Makes

(* Whatever the variable and the value, if the browse was honest and the   *)
(* two sides do not judge them by numbers that rounding has made different *)
(* (ComparedAlike), the check of the panel (useWriteVariable.ts) stands in *)
(* the way of no write that the backend (coerce_entry_write_value) would   *)
(* carry out, and changes none.                                            *)
THEOREM PreflightIsHarmless == Spec => []PreflightChangesNothing
<1>1. Init => AnswersInv /\ ValuesInv
  BY AnswersInit, ValuesInit
<1>2. AnswersInv /\ ValuesInv /\ [Next]_vars => AnswersInv' /\ ValuesInv'
  BY AnswersStep, ValuesStep
<1>3. ValuesInv => PreflightChangesNothing
  BY ValuesAreAsEntered
<1> QED BY <1>1, <1>2, <1>3, PTL DEF Spec
=============================================================================
