----------------------- MODULE GenerationStreamProofs ------------------------
(***************************************************************************)
(* Theorems about GenerationStream for any number of attempts, any buffer  *)
(* of the connection, and any heartbeat, latency and blocking of the event *)
(* loop that together stay below the client's idle timeout.                *)
(***************************************************************************)
EXTENDS GenerationStream, SequenceTheorems, TLAPS

LEMMA BeginIsEvent == Begin \in Event
  BY AttemptsAssumption DEF Begin, Ev, Event

\* Whatever follows an event is an event: no attempt passes MaxAttempts.
LEMMA FollowsAreEvents ==
  ASSUME NEW e \in Event
  PROVE  Follows(e) \subseteq Event
<1>1. ASSUME NEW n \in Nat PROVE AttemptEvents(n) \subseteq Event
  BY AttemptsAssumption DEF AttemptEvents, Ev, Event, Steps, Judged
<1>2. /\ e.attempt \in 0..MaxAttempts
      /\ e.step \in Steps \cup {"begin", "quota_check", "failed"}
  BY DEF Event
<1>3. CASE e = Begin
  <2>1. AttemptEvents(1) \subseteq Event
    BY <1>1
  <2>2. Ev("quota_check", "rejected", 0) \in Event
    BY AttemptsAssumption DEF Ev, Event
  <2> QED
    BY <1>3, <2>1, <2>2 DEF Follows, Begin, Ev, Judged
<1>4. CASE e # Begin /\ e.step \in Judged
  <2>1. Verdicts(e) \subseteq Event
    BY <1>2, <1>4 DEF Verdicts, Ev, Event, Steps
  <2>2. Successor[e.step] \in Steps
    BY <1>4 DEF Successor, Judged, Steps
  <2>3. Ev(Successor[e.step], "running", e.attempt) \in Event
    BY <1>2, <2>2 DEF Ev, Event
  <2>4. AttemptEvents(e.attempt + 1) \subseteq Event
    BY <1>1, <1>2
  <2> QED
    BY <1>4, <2>1, <2>3, <2>4 DEF Follows, Judged
<1>5. CASE e # Begin /\ e.step \notin Judged
  <2>1. {Ev("saving", "rejected", e.attempt), Ev("saving", "done", e.attempt)} \subseteq Event
    BY <1>2 DEF Ev, Event, Steps
  <2> QED
    BY <1>5, <2>1 DEF Follows
<1> QED
  BY <1>3, <1>4, <1>5

LEMMA LatestIsEvent ==
  ASSUME NEW s \in Seq(Event)
  PROVE  Latest(s) \in Event
  BY BeginIsEvent DEF Latest

LEMMA FramesAreFrames ==
  /\ \A e \in Event : Data(e) \in Frame
  /\ \A k \in {"comment", "end", "abort"} : Control(k) \in Frame
  BY BeginIsEvent, ClockAssumption DEF Data, Control, Frame

LEMMA EmptyLength ==
  ASSUME NEW s \in Seq(Frame)
  PROVE  Len(s) \in Nat /\ (s = <<>> <=> Len(s) = 0)
<1>1. s # <<>> => Len(s) \in Nat \ {0}
  BY EmptySeq
<1>2. s = <<>> => Len(s) = 0
  BY EmptySeq
<1> QED
  BY <1>1, <1>2

LEMMA TailOfLonger ==
  ASSUME NEW s \in Seq(Frame), s # <<>>, Len(s) # 1
  PROVE  /\ Tail(s) # <<>>
         /\ Tail(s)[Len(Tail(s))] = s[Len(s)]
         /\ Tail(s)[1] \in Frame
<1> DEFINE n == Len(s)
           t == Tail(s)
<1>1. n \in Nat /\ n # 0 /\ n # 1
  BY EmptyLength
<1>2. t \in Seq(Frame) /\ Len(t) = n - 1 /\ \A i \in 1..Len(t) : t[i] = s[i + 1]
  BY HeadTailProperties
<1> HIDE DEF n, t
<1>3. t # <<>> /\ t[n - 1] = s[n] /\ t[1] \in Frame
  BY <1>1, <1>2, EmptyLength
<1> QED
  BY <1>2, <1>3 DEF n, t

LEMMA FreshIsView == Fresh \in View
  BY AttemptsAssumption DEF Fresh, View, State

LEMMA OlderIsFrame ==
  ASSUME NEW f \in Frame
  PROVE  Older(f) \in Frame
<1>1. f.age \in 0..Latency
  BY DEF Frame
<1>2. (IF f.age < Latency THEN f.age + 1 ELSE Latency) \in 0..Latency
  BY <1>1, ClockAssumption
<1> QED
  BY <1>2 DEF Older, Frame

\* A handled event leaves a view; the listener only ever resets it.
LEMMA HandledIsView ==
  ASSUME NEW v \in View, NEW e \in Event
  PROVE  OnGenerationChanged(HandleEvent(v, e)) \in View
<1>1. Checklist(v, e) \in [Steps -> {"none", "running", "passed", "rejected", "done"}]
  BY DEF Checklist, Fresh, View
<1>2. NewState(v, e) \in State
  BY DEF NewState, State, View
<1>3. e.attempt > v.attempt => e.attempt \in 1..MaxAttempts
  BY AttemptsAssumption DEF Event, View
<1>4. e.status \in {"none", "running", "passed", "rejected", "done"}
  BY DEF Event
<1>5. (IF e.step \in Steps THEN [Checklist(v, e) EXCEPT ![e.step] = e.status] ELSE Checklist(v, e))
        \in [Steps -> {"none", "running", "passed", "rejected", "done"}]
  BY <1>1, <1>4
<1>6. HandleEvent(v, e) \in View
  BY <1>2, <1>3, <1>5 DEF HandleEvent, Handled, View
<1> QED
  BY <1>6 DEF OnGenerationChanged, View, State

LEMMA InitTypeOK == Init => TypeOK
<1>1. Control("comment") \in Frame
  BY FramesAreFrames
<1> QED
  BY <1>1, FreshIsView, ClockAssumption DEF Init, TypeOK, Task, Response, Link

LEMMA NextTypeOK ==
  ASSUME TypeOK, [Next]_vars
  PROVE  TypeOK'
<1> USE DEF TypeOK
<1>1. CASE UNCHANGED vars
  BY <1>1 DEF vars, server, client
<1>2. CASE Yield
  <2>1. \A e \in Follows(Latest(yielded)) : e \in Event
    BY LatestIsEvent, FollowsAreEvents
  <2>3. \/ UNCHANGED yielded
        \/ \E e \in Follows(Latest(yielded)) : yielded' = Append(yielded, e)
    BY <1>2 DEF Yield
  <2>4. ASSUME \E e \in Follows(Latest(yielded)) : yielded' = Append(yielded, e)
        PROVE  yielded' \in Seq(Event)
    <3>1. PICK e \in Event : yielded' = Append(yielded, e)
      BY <2>1, <2>4
    <3> QED
      BY <3>1
  <2>5. task' \in {"event", "stop", "raise"}
    BY <1>2 DEF Yield
  <2>2. yielded' \in Seq(Event) /\ task' \in Task
    BY <2>3, <2>4, <2>5 DEF Task
  <2> QED
    BY <1>2, <2>2 DEF Yield, client
<1>3. CASE Take
  <2>1. Data(Latest(yielded)) \in Frame
    BY LatestIsEvent, FramesAreFrames
  <2> QED
    BY <1>3, <2>1 DEF Take, client, Task, Response
<1>4. CASE KeepAlive
  BY <1>4, FramesAreFrames DEF KeepAlive, client, Response
<1>5. CASE Send
  BY <1>5, ClockAssumption DEF Send, client, Response
<1>6. CASE Finish
  BY <1>6, FramesAreFrames DEF Finish, client, Response
<1>7. CASE Cancel
  BY <1>7 DEF Cancel, client, Response, Task
<1>8. CASE Start
  <2>1. [Fresh EXCEPT !.state = "inProgress"] \in View
    BY FreshIsView DEF View, State
  <2> QED
    BY <1>8, <2>1 DEF Start, server, Link
<1>9. CASE Refused \/ RefusalRead \/ RefusalSilent \/ ConnectFails
  BY <1>9 DEF Refused, RefusalRead, RefusalSilent, ConnectFails, Fail, server, client, Link, View, State
<1>10. CASE Open
  BY <1>10 DEF Open, client, Link, Response
<1>11. CASE Deliver
  <2>1. wire' \in Seq(Frame) /\ Head(wire) \in Frame
    BY <1>11 DEF Deliver
  <2>2. Head(wire).event \in Event
    BY <2>1 DEF Frame
  <2>3. CASE Head(wire).kind = "data"
    <3>1. /\ view' = OnGenerationChanged(HandleEvent(view, Head(wire).event))
          /\ received' = Append(received, Head(wire).event)
          /\ quiet' = 0
          /\ UNCHANGED <<link, closedBy, server>>
      BY <1>11, <2>3 DEF Deliver
    <3>2. view' \in View /\ received' \in Seq(Event)
      BY <2>2, <3>1, HandledIsView
    <3> QED
      BY <2>1, <3>1, <3>2, ClockAssumption DEF server
  <2>4. CASE Head(wire).kind = "comment"
    BY <1>11, <2>1, <2>4, ClockAssumption DEF Deliver, server, client
  <2>5. CASE Head(wire).kind = "end"
    BY <1>11, <2>1, <2>5, ClockAssumption DEF Deliver, server, Link
  <2>6. CASE Head(wire).kind = "abort"
    <3>1. Fail /\ UNCHANGED <<received, server>> /\ quiet' = 0
      BY <1>11, <2>6 DEF Deliver
    <3>2. view' \in View /\ link' \in Link /\ closedBy' = "error"
      BY <3>1 DEF Fail, View, State, Link
    <3> QED
      BY <2>1, <3>1, <3>2, ClockAssumption DEF server
  <2> QED
    <3>1. Head(wire).kind \in {"data", "comment", "end", "abort"}
      BY <2>1 DEF Frame
    <3> QED
      BY <2>3, <2>4, <2>5, <2>6, <3>1
<1>12. CASE IdleTimeoutFires \/ LinkResets
  BY <1>12 DEF IdleTimeoutFires, LinkResets, Fail, server, Link, View, State
<1>13. CASE LinkBreaks
  BY <1>13 DEF LinkBreaks, server, client, Link
<1>15. CASE Stall
  BY <1>15 DEF Stall, client
<1>14. CASE Tick
  <2>1. wire' = [i \in 1..Len(wire) |-> Older(wire[i])] /\ Len(wire) \in Nat
    BY <1>14 DEF Tick
  <2>2. \A i \in 1..Len(wire) : Older(wire[i]) \in Frame
    BY OlderIsFrame
  <2>3. wire' \in Seq(Frame)
    BY <2>1, <2>2
  <2>4. quiet' \in 0..IdleTimeout /\ waited' \in 0..Heartbeat /\ stall' \in 0..MaxStall
    BY <1>14, ClockAssumption DEF Tick
  <2> QED
    BY <1>14, <2>3, <2>4 DEF Tick, client
<1> QED
  BY <1>1, <1>2, <1>3, <1>4, <1>5, <1>6, <1>7, <1>8, <1>9, <1>10, <1>11, <1>12, <1>13, <1>14, <1>15 DEF Next

\* Every step keeps the types: attempts, ages and clocks stay within bounds.
THEOREM GenerationStreamTypeOK == Spec => []TypeOK
  BY InitTypeOK, NextTypeOK, PTL DEF Spec

-----------------------------------------------------------------------------
(***************************************************************************)
(* The client's timer.  On a working connection something is always on its *)
(* way or about to be sent: with nothing on the way, the client has waited *)
(* no longer than the server since its last frame, unless the heartbeat is *)
(* due and the event loop is blocked; with something on the way, no longer *)
(* than an interval, a stall and the age of the oldest frame.  For this    *)
(* the response must not fall silent, so it ends with a last frame.        *)
(***************************************************************************)
NothingSent ==
    link \in {"none", "connecting"} => response = "none" /\ quiet = 0 /\ wire = <<>>

NothingOnTheWay ==
    wire = <<>> =>
        /\ response \in {"wait", "send"}
        /\ quiet + stall <= Heartbeat + MaxStall
        /\ response = "wait" => quiet <= waited \/ waited = Heartbeat

SomethingOnTheWay ==
    wire # <<>> =>
        /\ quiet <= Heartbeat + MaxStall + wire[1].age
        /\ response = "done" => wire[Len(wire)].kind \in {"end", "abort"}

TimerInv ==
    /\ TypeOK
    /\ NothingSent
    /\ task = "cancelled" => response = "done"
    /\ link = "up" => response # "none" /\ NothingOnTheWay /\ SomethingOnTheWay

\* What the timer may show, from the invariant.
LEMMA TimerBound == TimerInv => NoFalseTimeout
<1>1. ASSUME TimerInv, link = "up" PROVE quiet < IdleTimeout
  <2>1. CASE wire = <<>>
    BY <1>1, <2>1, ClockAssumption DEF TimerInv, NothingOnTheWay, TypeOK
  <2>2. CASE wire # <<>>
    <3>1. wire[1] \in Frame
      BY <1>1, <2>2 DEF TimerInv, TypeOK
    <3> QED
      BY <1>1, <2>2, <3>1, ClockAssumption DEF TimerInv, SomethingOnTheWay, TypeOK, Frame
  <2> QED
    BY <2>1, <2>2
<1> QED
  BY <1>1 DEF NoFalseTimeout

\* A frame is put on the connection.
LEMMA FrameSent ==
  ASSUME TimerInv, link = "up", NEW f \in Frame, wire' = Append(wire, f),
         response \in {"wait", "send"}, quiet' = quiet, stall' = stall,
         response' = "done" => f.kind \in {"end", "abort"}
  PROVE  NothingOnTheWay' /\ SomethingOnTheWay'
<1> USE DEF TimerInv, TypeOK
<1>1. wire' # <<>> /\ wire'[Len(wire')] = f
  OBVIOUS
<1>2. CASE wire = <<>>
  <2>1. wire'[1] = f /\ f.age \in Nat /\ quiet <= Heartbeat + MaxStall
    BY <1>2, ClockAssumption DEF NothingOnTheWay, Frame
  <2> QED
    BY <1>1, <2>1, ClockAssumption DEF NothingOnTheWay, SomethingOnTheWay
<1>3. CASE wire # <<>>
  <2>1. wire'[1] = wire[1]
    BY <1>3
  <2> QED
    BY <1>1, <1>3, <2>1 DEF NothingOnTheWay, SomethingOnTheWay
<1> QED
  BY <1>2, <1>3

\* The oldest frame arrives, and the connection stays up.
LEMMA FrameDelivered ==
  ASSUME TimerInv, link = "up", wire # <<>>, wire' = Tail(wire),
         Head(wire).kind \notin {"end", "abort"}, quiet' = 0, UNCHANGED <<response, waited, stall>>
  PROVE  NothingOnTheWay' /\ SomethingOnTheWay'
<1> USE DEF TimerInv, TypeOK
<1>1. CASE Len(wire) = 1
  <2>1. response # "done"
    BY <1>1 DEF SomethingOnTheWay
  <2>2. wire' = <<>>
    BY <1>1
  <2> QED
    BY <2>1, <2>2, ClockAssumption DEF NothingOnTheWay, SomethingOnTheWay, Response
<1>2. CASE Len(wire) # 1
  <2>1. wire' # <<>> /\ wire'[Len(wire')] = wire[Len(wire)] /\ wire'[1] \in Frame
    BY <1>2, TailOfLonger
  <2>2. wire'[1].age \in Nat
    BY <2>1, ClockAssumption DEF Frame
  <2> QED
    BY <2>1, <2>2, ClockAssumption DEF NothingOnTheWay, SomethingOnTheWay
<1> QED
  BY <1>1, <1>2

\* Time passes on a working connection.
LEMMA TimePasses ==
  ASSUME TimerInv, link = "up", Tick
  PROVE  NothingOnTheWay' /\ SomethingOnTheWay'
<1> USE DEF TimerInv, TypeOK
<1>1. CASE wire = <<>>
  <2>1. wire' = <<>> /\ Len(wire) < MaxWire
    BY <1>1, WireAssumption DEF Tick
  <2>2. CASE stall = 0
    <3>1. response = "wait" /\ task = "running" /\ waited # Heartbeat
      BY <1>1, <2>1, <2>2 DEF Tick, Ready, NothingOnTheWay, Task
    <3> QED
      BY <1>1, <2>1, <2>2, <3>1, ClockAssumption DEF Tick, NothingOnTheWay, SomethingOnTheWay
  <2>3. CASE stall > 0
    BY <1>1, <2>1, <2>3, ClockAssumption DEF Tick, NothingOnTheWay, SomethingOnTheWay
  <2> QED
    BY <2>2, <2>3, ClockAssumption
<1>2. CASE wire # <<>>
  <2>1. /\ wire[1] \in Frame /\ wire[1].age < Latency
        /\ wire' = [i \in 1..Len(wire) |-> Older(wire[i])]
    BY <1>2 DEF Tick
  <2>2. wire' # <<>> /\ Len(wire') = Len(wire) /\ wire'[1] = Older(wire[1])
        /\ wire'[Len(wire')] = Older(wire[Len(wire)]) /\ wire[Len(wire)] \in Frame
    BY <1>2, <2>1
  <2>3. \A f \in Frame : Older(f).kind = f.kind
    BY DEF Older, Frame
  <2>4. wire[1].age \in Nat /\ Older(wire[1]).age = wire[1].age + 1
    BY <2>1, ClockAssumption DEF Older, Frame
  <2> QED
    BY <1>2, <2>2, <2>3, <2>4, ClockAssumption DEF Tick, NothingOnTheWay, SomethingOnTheWay
<1> QED
  BY <1>1, <1>2

LEMMA TimerInvStep ==
  ASSUME TimerInv, [Next]_vars
  PROVE  TimerInv'
<1>0. TypeOK'
  BY NextTypeOK DEF TimerInv
<1> DEFINE Timer == NothingOnTheWay /\ SomethingOnTheWay
<1>1. CASE UNCHANGED vars
  BY <1>0, <1>1 DEF TimerInv, vars, server, NothingSent, NothingOnTheWay, SomethingOnTheWay
<1>2. CASE Yield
  BY <1>0, <1>2 DEF TimerInv, Yield, NothingSent, NothingOnTheWay, SomethingOnTheWay
<1>3. CASE Take \/ KeepAlive
  BY <1>0, <1>3, ClockAssumption
  DEF TimerInv, TypeOK, Take, KeepAlive, NothingSent, NothingOnTheWay, SomethingOnTheWay
<1>4. CASE Send
  <2>1. link = "up" => Timer'
    BY <1>4, FrameSent DEF TimerInv, TypeOK, Send
  <2> QED
    BY <1>0, <1>4, <2>1 DEF TimerInv, Send, NothingSent
<1>5. CASE Finish
  <2>1. \A k \in {"end", "abort"} : Control(k) \in Frame /\ Control(k).kind = k
    BY FramesAreFrames DEF Control
  <2>2. link = "up" => Timer'
    BY <1>5, <2>1, FrameSent DEF Finish
  <2> QED
    BY <1>0, <1>5, <2>2 DEF TimerInv, Finish, NothingSent
<1>6. CASE Cancel
  BY <1>0, <1>6 DEF TimerInv, Cancel, NothingSent
<1>7. CASE \/ Start \/ Refused \/ RefusalRead \/ RefusalSilent \/ ConnectFails
           \/ IdleTimeoutFires \/ LinkResets \/ LinkBreaks
  BY <1>0, <1>7
  DEF TimerInv, Start, Refused, RefusalRead, RefusalSilent, ConnectFails, IdleTimeoutFires, LinkResets, LinkBreaks, Fail,
      server, NothingSent
<1>8. CASE Open
  BY <1>0, <1>8, ClockAssumption
  DEF TimerInv, TypeOK, Open, NothingSent, NothingOnTheWay, SomethingOnTheWay
<1>9. CASE Deliver
  <2>1. link = "up" /\ wire # <<>> /\ wire' = Tail(wire) /\ quiet' = 0 /\ UNCHANGED server
    BY <1>9 DEF Deliver
  <2>2. CASE Head(wire).kind \in {"data", "comment"}
    <3>1. Timer'
      BY <2>1, <2>2, FrameDelivered DEF server
    <3> QED
      BY <1>0, <1>9, <2>1, <2>2, <3>1 DEF TimerInv, Deliver, server, NothingSent
  <2>3. CASE Head(wire).kind \notin {"data", "comment"}
    <3>1. link' = "closed"
      BY <1>9, <2>3 DEF Deliver, Fail
    <3> QED
      BY <1>0, <2>1, <3>1 DEF TimerInv, server, NothingSent
  <2> QED
    BY <2>2, <2>3
<1>10. CASE Tick
  <2>1. link = "up" => Timer'
    BY <1>10, TimePasses
  <2> QED
    BY <1>0, <1>10, <2>1 DEF TimerInv, Tick, NothingSent
<1>11. CASE Stall
  <2>1. link = "up" /\ wire = <<>> => response = "wait" /\ waited # Heartbeat
    <3>1. wire = <<>> => Len(wire) < MaxWire
      BY WireAssumption
    <3> QED
      BY <1>11, <3>1 DEF Stall, Ready, TimerInv, TypeOK, NothingOnTheWay, Task
  <2>3. /\ response' = response /\ waited' = waited /\ wire' = wire /\ quiet' = quiet
        /\ stall' \in 0..MaxStall
    BY <1>11, ClockAssumption DEF Stall
  <2>4. ASSUME link = "up" PROVE NothingOnTheWay'
    <3>1. wire = <<>> => quiet <= waited /\ waited <= Heartbeat /\ response = "wait"
      BY <2>1, <2>4, ClockAssumption DEF TimerInv, TypeOK, NothingOnTheWay
    <3>2. quiet \in Nat /\ waited \in Nat
      BY ClockAssumption DEF TimerInv, TypeOK
    <3>3. stall' \in Nat /\ stall' <= MaxStall
      BY <2>3, ClockAssumption
    <3>5. Heartbeat \in Nat /\ MaxStall \in Nat
      BY ClockAssumption
    <3>6. wire = <<>> => quiet <= Heartbeat
      BY <3>1, <3>2, <3>5
    <3>4. wire = <<>> => quiet + stall' <= Heartbeat + MaxStall
      <4> DEFINE a == stall'
      <4>1. a \in Nat /\ a <= MaxStall
        BY <3>3
      <4> HIDE DEF a
      <4>2. wire = <<>> => quiet + a <= Heartbeat + MaxStall
        BY <3>2, <3>5, <3>6, <4>1
      <4> QED
        BY <4>2 DEF a
    <3> QED
      BY <2>3, <3>1, <3>4 DEF NothingOnTheWay
  <2>5. link = "up" => SomethingOnTheWay'
    BY <2>3 DEF TimerInv, SomethingOnTheWay
  <2>2. link = "up" => Timer'
    BY <2>4, <2>5
  <2> QED
    BY <1>0, <1>11, <2>2 DEF TimerInv, Stall, NothingSent
<1> QED
  BY <1>1, <1>2, <1>3, <1>4, <1>5, <1>6, <1>7, <1>8, <1>9, <1>10, <1>11 DEF Next

\* The client gives up only on a dead connection (cases.py:40-43): on a working
\* one its timer stays below the idle timeout, whenever the heartbeat interval,
\* the longest stall of the event loop and the latency together do.
THEOREM OnlyDeadConnectionsTimeOut == Spec => []NoFalseTimeout
<1>1. Init => TimerInv
  BY InitTypeOK DEF Init, TimerInv, NothingSent
<1> QED
  BY <1>1, TimerInvStep, TimerBound, PTL DEF Spec

-----------------------------------------------------------------------------
(***************************************************************************)
(* Nothing is lost between execute() and the page.  What execute() has     *)
(* yielded is a run of the pipeline; the data frames on their way carry    *)
(* its events in order, from the one after the last received one on, up to *)
(* the frame that is about to be sent and the event that is prefetched.    *)
(* Reached(at, n, w, y) counts them: having read i of the frames w after n *)
(* events, the client has read at[i] events of y.                          *)
(***************************************************************************)
Outcome(e) ==
    \/ e.step = "quota_check" /\ e.status = "rejected"
    \/ e.step = "saving" /\ e.status \in {"rejected", "done"}
    \/ e.step = "failed" /\ e.status = "done"
Underway(e) ==
    /\ e.attempt \in 1..MaxAttempts
    /\ \/ e.step \in Judged /\ e.status \in {"running", "passed", "rejected"}
       \/ e.step = "saving" /\ e.status = "running"
Proper(e) == e = Begin \/ Underway(e) \/ Outcome(e)

Before(s, i) == IF i = 1 THEN Begin ELSE s[i - 1]
YieldedIsARun ==
    \A i \in 1..Len(yielded) : Proper(yielded[i]) /\ yielded[i] \in Follows(Before(yielded, i))

Reached(at, n, w, y) ==
    /\ at \in [0..Len(w) -> Nat]
    /\ at[0] = n
    /\ \A i \in 1..Len(w) :
          IF w[i].kind = "data"
          THEN at[i] = at[i - 1] + 1 /\ at[i] \in 1..Len(y) /\ w[i].event = y[at[i]]
          ELSE at[i] = at[i - 1]

Prefetched == IF task = "event" THEN 1 ELSE 0
Pending == IF response = "send" /\ out.kind = "data" THEN 1 ELSE 0
Ended == \E i \in 1..Len(wire) : wire[i].kind = "end"
NothingIsLost ==
    \E at \in [0..Len(wire) -> Nat] :
        /\ Reached(at, Len(received), wire, yielded)
        /\ response # "done" \/ Ended => at[Len(wire)] + Pending + Prefetched = Len(yielded)

NextIsSent ==
    /\ out.kind \in {"data", "comment"}
    /\ Pending = 1 => /\ Len(yielded) - Prefetched \in 1..Len(yielded)
                      /\ out.event = yielded[Len(yielded) - Prefetched]
    /\ task = "event" => Len(yielded) # 0

\* "end" comes last, and only when execute() has nothing more to yield.
EndIsLast ==
    /\ task = "stop" => IsLast(Latest(yielded))
    /\ response = "done" => task # "running"
    /\ \A i \in 1..Len(wire) : wire[i].kind = "end" =>
          i = Len(wire) /\ response = "done" /\ task = "stop"
    /\ closedBy = "end" =>
          link = "closed" /\ response = "done" /\ task = "stop" /\ Len(received) = Len(yielded)

LosslessInv ==
    TypeOK /\ YieldedIsARun /\ NothingIsLost /\ NextIsSent /\ EndIsLast /\ DeliveredInOrder

\* What follows an event of a run is one, and is not of an earlier attempt.
LEMMA RunGoesOn ==
  ASSUME NEW e \in Event, Proper(e), NEW f \in Follows(e)
  PROVE  /\ Proper(f) /\ f # Begin
         /\ f.step \in Steps => f.attempt \in 1..MaxAttempts /\ f.attempt >= e.attempt
<1> DEFINE Next1 == Proper(f) /\ f # Begin
                    /\ (f.step \in Steps => f.attempt \in 1..MaxAttempts /\ f.attempt >= e.attempt)
<1>1. f \in Event /\ e.attempt \in 0..MaxAttempts /\ f.attempt \in 0..MaxAttempts
  BY FollowsAreEvents DEF Event
<1>2. ASSUME NEW n \in Nat, n >= 1, n >= e.attempt, f \in AttemptEvents(n) PROVE Next1
  BY <1>2, <1>1, AttemptsAssumption
  DEF AttemptEvents, Ev, Begin, Proper, Underway, Outcome, Steps, Judged
<1>3. CASE e = Begin
  <2>1. f = Ev("quota_check", "rejected", 0) \/ f \in AttemptEvents(1)
    BY <1>3 DEF Follows, Begin, Ev, Judged
  <2>2. e.attempt = 0
    BY <1>3 DEF Begin, Ev
  <2>3. f = Ev("quota_check", "rejected", 0) => Next1
    BY DEF Ev, Begin, Proper, Outcome, Steps, Judged
  <2> QED
    BY <1>2, <2>1, <2>2, <2>3
<1>4. CASE Underway(e) /\ e # Begin /\ e.step \in Judged
  <2>1. /\ e.step # "saving"
        /\ \/ e.status = "running" /\ f \in Verdicts(e)
           \/ e.status = "passed" /\ f = Ev(Successor[e.step], "running", e.attempt)
           \/ e.status = "rejected" /\ f \in AttemptEvents(e.attempt + 1)
    BY <1>4 DEF Underway, Judged, Follows
  <2>2. e.attempt \in 1..MaxAttempts
    BY <1>4 DEF Underway
  <2>3. f \in Verdicts(e) => Next1
    BY <1>4, <2>2, AttemptsAssumption DEF Verdicts, Ev, Begin, Proper, Underway, Judged
  <2>4. Successor[e.step] \in {"logic_check", "safety_check", "saving"}
    BY <1>4 DEF Successor, Judged
  <2>5. f = Ev(Successor[e.step], "running", e.attempt) => Next1
    BY <2>2, <2>4, AttemptsAssumption DEF Ev, Begin, Proper, Underway, Judged
  <2>6. f \in AttemptEvents(e.attempt + 1) => Next1
    BY <1>1, <1>2
  <2> QED
    BY <2>1, <2>3, <2>5, <2>6
<1>5. CASE Underway(e) /\ e # Begin /\ e.step \notin Judged
  <2>1. e.attempt \in 1..MaxAttempts /\ e.step = "saving" /\ e.status = "running"
    BY <1>5 DEF Underway
  <2>2. f = Ev("saving", "rejected", e.attempt) \/ f = Ev("saving", "done", e.attempt)
    BY <1>5, <2>1 DEF Follows, Judged
  <2> QED
    BY <2>1, <2>2, AttemptsAssumption DEF Ev, Begin, Proper, Outcome
<1>6. CASE Outcome(e) /\ e # Begin
  BY <1>6 DEF Outcome, Follows, Judged
<1> QED
  BY <1>3, <1>4, <1>5, <1>6 DEF Proper

\* A run ends with an outcome, and with nothing else.
LEMMA RunEndsWithAnOutcome ==
  ASSUME NEW e \in Event, Proper(e)
  PROVE  IsLast(e) <=> Outcome(e)
<1>1. CASE Outcome(e)
  <2>1. e # Begin
    BY <1>1 DEF Outcome, Begin, Ev
  <2> QED
    BY <1>1, <2>1 DEF Outcome, IsLast, Follows, Judged
<1>2. CASE e = Begin
  BY <1>2 DEF IsLast, Follows, Outcome, Begin, Ev, Judged
<1>3. CASE Underway(e) /\ e # Begin
  <2>1. AttemptEvents(e.attempt + 1) # {}
    BY DEF AttemptEvents
  <2>2. Follows(e) # {}
    BY <1>3, <2>1 DEF Underway, Follows, Verdicts, Judged
  <2> QED
    BY <1>3, <2>2 DEF IsLast, Underway, Outcome, Judged
<1> QED
  BY <1>1, <1>2, <1>3 DEF Proper

LEMMA ReachedWithOneMore ==
  ASSUME NEW y \in Seq(Event), NEW w \in Seq(Frame), NEW n \in Nat, NEW f \in Frame, NEW at,
         Reached(at, n, w, y),
         f.kind = "data" => at[Len(w)] + 1 \in 1..Len(y) /\ f.event = y[at[Len(w)] + 1]
  PROVE  \E bt \in [0..Len(Append(w, f)) -> Nat] :
            /\ Reached(bt, n, Append(w, f), y)
            /\ bt[Len(Append(w, f))] = at[Len(w)] + (IF f.kind = "data" THEN 1 ELSE 0)
<1> DEFINE l == Len(w)
           d == IF f.kind = "data" THEN 1 ELSE 0
           w1 == Append(w, f)
           bt == [i \in 0..l + 1 |-> IF i <= l THEN at[i] ELSE at[l] + d]
<1>1. l \in Nat /\ Len(w1) = l + 1 /\ w1[l + 1] = f /\ \A i \in 1..l : w1[i] = w[i]
  OBVIOUS
<1>2. at \in [0..l -> Nat] /\ at[0] = n /\ at[l] \in Nat
  BY <1>1 DEF Reached
<1>3. bt \in [0..l + 1 -> Nat] /\ bt[0] = n /\ bt[l + 1] = at[l] + d /\ \A i \in 0..l : bt[i] = at[i]
  BY <1>1, <1>2
<1> HIDE DEF bt
<1>4. ASSUME NEW i \in 1..l + 1
      PROVE  IF w1[i].kind = "data"
             THEN bt[i] = bt[i - 1] + 1 /\ bt[i] \in 1..Len(y) /\ w1[i].event = y[bt[i]]
             ELSE bt[i] = bt[i - 1]
  <2>1. CASE i = l + 1
    BY <1>1, <1>2, <1>3, <2>1
  <2>2. CASE i # l + 1
    <3>1. i \in 1..l /\ i - 1 \in 0..l /\ i \in 0..l
      BY <1>1, <2>2
    <3> QED
      BY <1>1, <1>3, <3>1 DEF Reached
  <2> QED
    BY <2>1, <2>2
<1>5. Reached(bt, n, w1, y)
  BY <1>1, <1>3, <1>4 DEF Reached
<1> QED
  BY <1>1, <1>3, <1>5

LEMMA ReachedAfterOne ==
  ASSUME NEW y \in Seq(Event), NEW w \in Seq(Frame), w # <<>>, NEW n \in Nat, NEW at,
         Reached(at, n, w, y)
  PROVE  \E bt \in [0..Len(Tail(w)) -> Nat] :
            /\ Reached(bt, at[1], Tail(w), y)
            /\ bt[Len(Tail(w))] = at[Len(w)]
<1> DEFINE l == Len(w)
           t == Tail(w)
           bt == [i \in 0..l - 1 |-> at[i + 1]]
<1>1. l \in Nat /\ l # 0 /\ t \in Seq(Frame) /\ Len(t) = l - 1 /\ \A i \in 1..l - 1 : t[i] = w[i + 1]
  BY EmptyLength, HeadTailProperties
<1>2. at \in [0..l -> Nat]
  BY DEF Reached
<1>3. bt \in [0..l - 1 -> Nat] /\ bt[0] = at[1] /\ bt[l - 1] = at[l] /\ \A i \in 0..l - 1 : bt[i] = at[i + 1]
  BY <1>1, <1>2
<1> HIDE DEF bt, t
<1>4. ASSUME NEW i \in 1..l - 1
      PROVE  IF t[i].kind = "data"
             THEN bt[i] = bt[i - 1] + 1 /\ bt[i] \in 1..Len(y) /\ t[i].event = y[bt[i]]
             ELSE bt[i] = bt[i - 1]
  <2>1. i + 1 \in 1..l /\ i \in 0..l - 1 /\ i - 1 \in 0..l - 1 /\ (i + 1) - 1 = i /\ (i - 1) + 1 = i
    BY <1>1
  <2>2. IF w[i + 1].kind = "data"
        THEN at[i + 1] = at[i] + 1 /\ at[i + 1] \in 1..Len(y) /\ w[i + 1].event = y[at[i + 1]]
        ELSE at[i + 1] = at[i]
    BY <2>1 DEF Reached
  <2>3. bt[i] = at[i + 1] /\ bt[i - 1] = at[i] /\ t[i] = w[i + 1]
    BY <1>1, <1>3, <2>1
  <2> QED
    BY <2>2, <2>3
<1>5. Reached(bt, at[1], t, y)
  BY <1>1, <1>3, <1>4 DEF Reached
<1> QED
  BY <1>1, <1>3, <1>5 DEF t

LEMMA LatestOfRun ==
  ASSUME LosslessInv
  PROVE  Latest(yielded) \in Event /\ Proper(Latest(yielded))
<1>1. yielded # <<>> => Len(yielded) \in 1..Len(yielded)
  BY EmptySeq DEF LosslessInv, TypeOK
<1> QED
  BY <1>1, LatestIsEvent DEF LosslessInv, TypeOK, YieldedIsARun, Latest, Proper

\* Steps of the client and of the connection that move no frame and no event.
LEMMA NothingMoves ==
  ASSUME LosslessInv, TypeOK', UNCHANGED <<yielded, task, out, wire, received>>,
         response' = response \/ (response = "none" /\ response' = "wait"),
         \/ UNCHANGED <<link, closedBy>>
         \/ link # "closed" /\ closedBy' \in {closedBy, "error", "refused"}
  PROVE  LosslessInv'
<1> USE DEF LosslessInv
<1>1. Ended' = Ended /\ Pending' = Pending /\ Prefetched' = Prefetched
      /\ (response' = "done" <=> response = "done")
  BY DEF Ended, Pending, Prefetched
<1>2. NothingIsLost'
  BY <1>1 DEF NothingIsLost
<1>3. NextIsSent' /\ DeliveredInOrder' /\ YieldedIsARun'
  BY <1>1 DEF NextIsSent, DeliveredInOrder, YieldedIsARun
<1>4. EndIsLast'
  BY <1>1 DEF EndIsLast
<1> QED
  BY <1>2, <1>3, <1>4

LEMMA LosslessYield ==
  ASSUME LosslessInv, TypeOK', Yield
  PROVE  LosslessInv'
<1> USE DEF LosslessInv
<1>1. /\ task = "running" /\ UNCHANGED <<response, out, wire, received, link, closedBy>>
      /\ response # "done" /\ ~Ended /\ ~Ended' /\ closedBy # "end"
  BY DEF Yield, client, EndIsLast, Ended
<1>2. PICK at \in [0..Len(wire) -> Nat] :
        /\ Reached(at, Len(received), wire, yielded)
        /\ at[Len(wire)] + Pending = Len(yielded)
  BY <1>1 DEF NothingIsLost, Prefetched
<1>3. CASE UNCHANGED yielded
  <2>1. task' \in {"stop", "raise"} /\ (task' = "stop" => IsLast(Latest(yielded)))
    <3>1. ASSUME NEW e \in Follows(Latest(yielded)), yielded' = Append(yielded, e) PROVE FALSE
      <4>1. e \in Event
        BY LatestOfRun, FollowsAreEvents
      <4> QED
        BY <1>3, <3>1, <4>1 DEF TypeOK
    <3> QED
      BY <3>1 DEF Yield
  <2>2. Pending' = Pending /\ Prefetched' = 0 /\ Prefetched = 0
    BY <1>1, <2>1 DEF Pending, Prefetched
  <2>3. NothingIsLost'
    BY <1>1, <1>2, <1>3, <2>2 DEF NothingIsLost
  <2>4. NextIsSent' /\ YieldedIsARun' /\ DeliveredInOrder'
    BY <1>1, <1>3, <2>1, <2>2 DEF NextIsSent, YieldedIsARun, DeliveredInOrder
  <2>5. EndIsLast'
    BY <1>1, <1>3, <2>1 DEF EndIsLast
  <2> QED
    BY <2>3, <2>4, <2>5
<1>4. ASSUME NEW e \in Follows(Latest(yielded)), task' = "event", yielded' = Append(yielded, e)
      PROVE  LosslessInv'
  <2>1. e \in Event /\ Proper(e)
    BY LatestOfRun, FollowsAreEvents, RunGoesOn
  <2>2. /\ Len(yielded) \in Nat /\ Len(yielded') = Len(yielded) + 1
        /\ yielded'[Len(yielded) + 1] = e
        /\ \A i \in 1..Len(yielded) : yielded'[i] = yielded[i]
    BY <1>4, <2>1 DEF TypeOK
  <2>3. YieldedIsARun'
    <3>1. Before(yielded', Len(yielded) + 1) = Latest(yielded)
      <4>1. yielded = <<>> <=> Len(yielded) = 0
        BY EmptySeq, <2>2 DEF TypeOK
      <4> QED
        BY <2>2, <4>1 DEF Before, Latest
    <3>2. \A i \in 1..Len(yielded) : Before(yielded', i) = Before(yielded, i)
      BY <2>2 DEF Before
    <3>3. \A i \in 1..Len(yielded') : i \in 1..Len(yielded) \/ i = Len(yielded) + 1
      BY <2>2
    <3> QED
      BY <1>4, <2>1, <2>2, <3>1, <3>2, <3>3 DEF YieldedIsARun
  <2>4. Reached(at, Len(received), wire, yielded')
    BY <1>2, <2>2 DEF Reached
  <2>5. Pending' = Pending /\ Prefetched' = 1 /\ Prefetched = 0
    BY <1>1, <1>4 DEF Pending, Prefetched
  <2>6. at[Len(wire)] + Pending' + Prefetched' = Len(yielded')
    BY <1>2, <2>2, <2>5 DEF Pending, TypeOK
  <2>7. NothingIsLost'
    BY <1>1, <2>4, <2>6 DEF NothingIsLost
  <2>8. NextIsSent'
    BY <1>1, <1>4, <2>2, <2>5 DEF NextIsSent
  <2>9. EndIsLast'
    BY <1>1, <1>4 DEF EndIsLast
  <2>10. DeliveredInOrder'
    BY <1>1, <2>2 DEF DeliveredInOrder, TypeOK
  <2> QED
    BY <2>3, <2>7, <2>8, <2>9, <2>10
<1> QED
  BY <1>3, <1>4 DEF Yield

LEMMA LosslessTake ==
  ASSUME LosslessInv, TypeOK', Take
  PROVE  LosslessInv'
<1> USE DEF LosslessInv
<1>1. /\ response = "wait" /\ task = "event" /\ out' = Data(Latest(yielded))
      /\ task' = "running" /\ response' = "send"
      /\ UNCHANGED <<yielded, wire, received, link, closedBy>>
      /\ ~Ended /\ ~Ended' /\ closedBy # "end"
  BY DEF Take, client, EndIsLast, Ended
<1>2. Latest(yielded) = yielded[Len(yielded)] /\ Len(yielded) \in 1..Len(yielded)
  BY <1>1, EmptySeq DEF NextIsSent, Latest, TypeOK
<1>3. out'.kind = "data" /\ out'.event = Latest(yielded)
  BY <1>1 DEF Data
<1>4. Pending = 0 /\ Prefetched = 1 /\ Pending' = 1 /\ Prefetched' = 0
  BY <1>1, <1>3 DEF Pending, Prefetched
<1>5. NothingIsLost'
  <2>1. PICK at \in [0..Len(wire) -> Nat] :
          Reached(at, Len(received), wire, yielded) /\ at[Len(wire)] + Pending + Prefetched = Len(yielded)
    BY <1>1 DEF NothingIsLost
  <2>2. at[Len(wire)] \in Nat
    <3>1. Len(wire) \in Nat
      BY DEF TypeOK
    <3> QED
      BY <3>1
  <2>3. at[Len(wire)] + Pending' + Prefetched' = Len(yielded)
    BY <1>4, <2>1, <2>2
  <2> QED
    BY <1>1, <2>1, <2>3 DEF NothingIsLost
<1>6. NextIsSent'
  BY <1>1, <1>2, <1>3, <1>4 DEF NextIsSent
<1>7. EndIsLast' /\ YieldedIsARun' /\ DeliveredInOrder'
  BY <1>1 DEF EndIsLast, YieldedIsARun, DeliveredInOrder
<1> QED
  BY <1>5, <1>6, <1>7

LEMMA LosslessKeepAlive ==
  ASSUME LosslessInv, TypeOK', KeepAlive
  PROVE  LosslessInv'
<1> USE DEF LosslessInv
<1>1. /\ response = "wait" /\ response' = "send" /\ out'.kind = "comment"
      /\ UNCHANGED <<yielded, task, wire, received, link, closedBy>>
  BY DEF KeepAlive, client, Control
<1>2. Pending = 0 /\ Pending' = 0 /\ Prefetched' = Prefetched /\ Ended' = Ended
  BY <1>1 DEF Pending, Prefetched, Ended
<1>3. NothingIsLost'
  BY <1>1, <1>2 DEF NothingIsLost
<1>4. NextIsSent' /\ YieldedIsARun' /\ DeliveredInOrder'
  BY <1>1, <1>2 DEF NextIsSent, YieldedIsARun, DeliveredInOrder
<1>5. EndIsLast'
  BY <1>1 DEF EndIsLast
<1> QED
  BY <1>3, <1>4, <1>5

LEMMA LosslessSend ==
  ASSUME LosslessInv, TypeOK', Send
  PROVE  LosslessInv'
<1> USE DEF LosslessInv
<1>1. /\ response = "send" /\ response' = "wait" /\ wire' = Append(wire, out)
      /\ UNCHANGED <<yielded, task, out, received, link, closedBy>>
      /\ ~Ended /\ closedBy # "end"
  BY DEF Send, client, EndIsLast, Ended
<1>2. Pending' = 0 /\ Prefetched' = Prefetched /\ Pending = IF out.kind = "data" THEN 1 ELSE 0
  BY <1>1 DEF Pending, Prefetched
<1>3. Len(wire') = Len(wire) + 1 /\ wire'[Len(wire) + 1] = out /\ \A i \in 1..Len(wire) : wire'[i] = wire[i]
  BY <1>1 DEF TypeOK
<1>4. \A i \in 1..Len(wire') : wire'[i].kind # "end"
  <2>1. \A i \in 1..Len(wire') : i \in 1..Len(wire) \/ i = Len(wire) + 1
    BY <1>3 DEF TypeOK
  <2>2. out.kind # "end"
    BY DEF NextIsSent
  <2> QED
    BY <1>1, <1>3, <2>1, <2>2 DEF Ended
<1>5. NothingIsLost'
  <2>1. PICK at \in [0..Len(wire) -> Nat] :
          Reached(at, Len(received), wire, yielded) /\ at[Len(wire)] + Pending + Prefetched = Len(yielded)
    BY <1>1 DEF NothingIsLost
  <2>2. at[Len(wire)] \in Nat /\ Prefetched \in Nat /\ Len(yielded) \in Nat
    <3>1. Len(wire) \in Nat /\ Prefetched \in Nat /\ Len(yielded) \in Nat
      BY DEF TypeOK, Prefetched
    <3> QED
      BY <3>1
  <2>3. out.kind = "data" => at[Len(wire)] + 1 \in 1..Len(yielded) /\ out.event = yielded[at[Len(wire)] + 1]
    <3>1. SUFFICES ASSUME out.kind = "data"
                   PROVE  at[Len(wire)] + 1 \in 1..Len(yielded) /\ out.event = yielded[at[Len(wire)] + 1]
      OBVIOUS
    <3>2. at[Len(wire)] + 1 = Len(yielded) - Prefetched
      BY <1>2, <2>1, <2>2, <3>1
    <3> QED
      BY <1>2, <3>1, <3>2 DEF NextIsSent
  <2>4. PICK bt \in [0..Len(wire') -> Nat] :
          Reached(bt, Len(received), wire', yielded) /\ bt[Len(wire')] = at[Len(wire)] + Pending
    <3>1. wire \in Seq(Frame) /\ out \in Frame /\ yielded \in Seq(Event) /\ Len(received) \in Nat
      BY DEF TypeOK
    <3> QED
      BY <1>1, <1>2, <2>1, <2>3, <3>1, ReachedWithOneMore
  <2>5. bt[Len(wire')] + Pending' + Prefetched' = Len(yielded)
    BY <1>2, <2>1, <2>2, <2>4
  <2> QED
    BY <1>1, <2>4, <2>5 DEF NothingIsLost
<1>6. NextIsSent'
  BY <1>1, <1>2 DEF NextIsSent
<1>7. EndIsLast'
  BY <1>1, <1>4 DEF EndIsLast
<1>8. YieldedIsARun' /\ DeliveredInOrder'
  BY <1>1 DEF YieldedIsARun, DeliveredInOrder
<1> QED
  BY <1>5, <1>6, <1>7, <1>8

LEMMA LosslessFinish ==
  ASSUME LosslessInv, TypeOK', Finish
  PROVE  LosslessInv'
<1> USE DEF LosslessInv
<1> DEFINE f == Control(IF task = "stop" THEN "end" ELSE "abort")
<1>1. /\ response = "wait" /\ response' = "done" /\ wire' = Append(wire, f)
      /\ task \in {"stop", "raise"}
      /\ UNCHANGED <<yielded, task, out, received, link, closedBy>>
      /\ ~Ended /\ closedBy # "end"
  BY DEF Finish, client, EndIsLast, Ended
<1>2. Pending' = 0 /\ Prefetched' = 0 /\ Pending = 0 /\ Prefetched = 0
  BY <1>1 DEF Pending, Prefetched
<1>3. f \in Frame /\ f.kind = (IF task = "stop" THEN "end" ELSE "abort")
  BY FramesAreFrames DEF Control
<1> HIDE DEF f
<1>4. Len(wire') = Len(wire) + 1 /\ wire'[Len(wire) + 1] = f /\ \A i \in 1..Len(wire) : wire'[i] = wire[i]
  BY <1>1, <1>3 DEF TypeOK
<1>5. \A i \in 1..Len(wire') : wire'[i].kind = "end" => i = Len(wire') /\ task = "stop"
  <2>1. \A i \in 1..Len(wire') : i \in 1..Len(wire) \/ i = Len(wire) + 1
    BY <1>4 DEF TypeOK
  <2> QED
    BY <1>1, <1>3, <1>4, <2>1 DEF Ended
<1>6. NothingIsLost'
  <2>1. PICK at \in [0..Len(wire) -> Nat] :
          Reached(at, Len(received), wire, yielded) /\ at[Len(wire)] + Pending + Prefetched = Len(yielded)
    BY <1>1 DEF NothingIsLost
  <2>2. at[Len(wire)] \in Nat
    <3>1. Len(wire) \in Nat
      BY DEF TypeOK
    <3> QED
      BY <3>1
  <2>3. PICK bt \in [0..Len(wire') -> Nat] :
          Reached(bt, Len(received), wire', yielded) /\ bt[Len(wire')] = at[Len(wire)] + 0
    <3>1. wire \in Seq(Frame) /\ yielded \in Seq(Event) /\ Len(received) \in Nat
      BY DEF TypeOK
    <3>2. f.kind # "data"
      BY <1>3
    <3> QED
      BY <1>1, <1>3, <2>1, <3>1, <3>2, ReachedWithOneMore
  <2>4. bt[Len(wire')] + Pending' + Prefetched' = Len(yielded)
    BY <1>2, <2>1, <2>2, <2>3
  <2> QED
    BY <1>1, <2>3, <2>4 DEF NothingIsLost
<1>7. NextIsSent'
  BY <1>1, <1>2 DEF NextIsSent
<1>8. EndIsLast'
  BY <1>1, <1>5 DEF EndIsLast
<1>9. YieldedIsARun' /\ DeliveredInOrder'
  BY <1>1 DEF YieldedIsARun, DeliveredInOrder
<1> QED
  BY <1>6, <1>7, <1>8, <1>9

LEMMA LosslessCancel ==
  ASSUME LosslessInv, TypeOK', Cancel
  PROVE  LosslessInv'
<1> USE DEF LosslessInv
<1>1. /\ response # "done" /\ response' = "done" /\ task' # "running"
      /\ task' \in {task, "cancelled"} /\ (task' # task => task = "running")
      /\ UNCHANGED <<yielded, out, wire, received, link, closedBy>>
      /\ ~Ended /\ ~Ended' /\ closedBy # "end"
  BY DEF Cancel, client, EndIsLast, Ended
<1>2. Pending' = 0 /\ Prefetched' = Prefetched
  BY <1>1 DEF Pending, Prefetched
<1>3. NothingIsLost'
  BY <1>1 DEF NothingIsLost
<1>4. NextIsSent' /\ EndIsLast'
  BY <1>1, <1>2 DEF NextIsSent, EndIsLast, Ended
<1>5. YieldedIsARun' /\ DeliveredInOrder'
  BY <1>1 DEF YieldedIsARun, DeliveredInOrder
<1> QED
  BY <1>3, <1>4, <1>5

LEMMA LosslessDeliver ==
  ASSUME LosslessInv, TypeOK', Deliver
  PROVE  LosslessInv'
<1> USE DEF LosslessInv
<1> DEFINE f == wire[1]
           n == Len(received)
<1>1. /\ link = "up" /\ wire # <<>> /\ wire' = Tail(wire) /\ closedBy # "end"
      /\ UNCHANGED <<yielded, task, response, out>>
  BY DEF Deliver, server, EndIsLast
<1>2. f \in Frame /\ f = Head(wire) /\ Len(wire) \in Nat \ {0} /\ n \in Nat
  BY <1>1 DEF TypeOK
<1>3. Len(wire') = Len(wire) - 1 /\ \A i \in 1..Len(wire') : wire'[i] = wire[i + 1]
  BY <1>1, HeadTailProperties DEF TypeOK
<1>4. PICK at \in [0..Len(wire) -> Nat] :
        /\ Reached(at, n, wire, yielded)
        /\ response # "done" \/ Ended => at[Len(wire)] + Pending + Prefetched = Len(yielded)
  BY DEF NothingIsLost
<1>5. IF f.kind = "data" THEN at[1] = n + 1 /\ at[1] \in 1..Len(yielded) /\ f.event = yielded[at[1]]
                        ELSE at[1] = n
  BY <1>2, <1>4 DEF Reached
<1>6. Len(received') = at[1]
  <2>1. CASE f.kind = "data"
    <3>1. received' = Append(received, f.event) /\ f.event \in Event
      BY <1>2, <2>1 DEF Deliver, Frame
    <3> QED
      BY <1>5, <2>1, <3>1 DEF TypeOK
  <2>2. CASE f.kind # "data"
    <3>1. received' = received
      BY <1>2, <2>2 DEF Deliver, client
    <3> QED
      BY <1>5, <2>2, <3>1
  <2> QED
    BY <2>1, <2>2
<1>7. Pending' = Pending /\ Prefetched' = Prefetched /\ (Ended' => Ended)
  <2>1. ASSUME NEW i \in 1..Len(wire'), wire'[i].kind = "end" PROVE Ended
    <3>1. i + 1 \in 1..Len(wire)
      BY <1>2, <1>3
    <3> QED
      BY <1>3, <2>1, <3>1 DEF Ended
  <2> QED
    BY <1>1, <2>1 DEF Pending, Prefetched, Ended
<1>8. NothingIsLost'
  <2>1. PICK bt \in [0..Len(wire') -> Nat] :
          Reached(bt, at[1], wire', yielded) /\ bt[Len(wire')] = at[Len(wire)]
    <3>1. wire \in Seq(Frame) /\ yielded \in Seq(Event)
      BY DEF TypeOK
    <3> QED
      BY <1>1, <1>2, <1>4, <3>1, ReachedAfterOne
  <2> QED
    BY <1>1, <1>4, <1>6, <1>7, <2>1 DEF NothingIsLost
<1>9. NextIsSent' /\ YieldedIsARun'
  BY <1>1, <1>7 DEF NextIsSent, YieldedIsARun
<1>10. DeliveredInOrder'
  <2>1. CASE f.kind = "data"
    <3>1. received' = Append(received, f.event) /\ f.event \in Event
      BY <1>2, <2>1 DEF Deliver, Frame
    <3> QED
      BY <1>1, <1>5, <2>1, <3>1 DEF TypeOK, DeliveredInOrder
  <2>2. CASE f.kind # "data"
    <3>1. received' = received
      BY <1>2, <2>2 DEF Deliver, client
    <3> QED
      BY <1>1, <3>1 DEF DeliveredInOrder
  <2> QED
    BY <2>1, <2>2
<1>11. EndIsLast'
  <2>1. ASSUME NEW i \in 1..Len(wire'), wire'[i].kind = "end"
        PROVE  i = Len(wire') /\ response = "done" /\ task = "stop"
    <3>1. i + 1 \in 1..Len(wire) /\ wire[i + 1].kind = "end"
      BY <1>2, <1>3, <2>1
    <3>2. i + 1 = Len(wire) /\ response = "done" /\ task = "stop"
      BY <3>1 DEF EndIsLast
    <3> QED
      BY <1>2, <1>3, <3>2
  <2>2. closedBy' = "end" =>
          link' = "closed" /\ response = "done" /\ task = "stop" /\ Len(received') = Len(yielded)
    <3>1. SUFFICES ASSUME closedBy' = "end"
                   PROVE  link' = "closed" /\ response = "done" /\ task = "stop" /\ at[1] = Len(yielded)
      BY <1>6
    <3>2. f.kind = "end" /\ link' = "closed"
      BY <1>1, <1>2, <3>1 DEF Deliver, client, Fail
    <3>3. 1 = Len(wire) /\ response = "done" /\ task = "stop" /\ Ended
      BY <1>2, <3>2 DEF EndIsLast, Ended
    <3>4. Pending = 0 /\ Prefetched = 0
      BY <3>3 DEF Pending, Prefetched
    <3>5. at[1] \in Nat /\ at[1] + Pending + Prefetched = Len(yielded)
      BY <1>4, <3>3
    <3>6. at[1] = Len(yielded)
      BY <3>4, <3>5
    <3> QED
      BY <3>2, <3>3, <3>6
  <2> QED
    BY <1>1, <2>1, <2>2 DEF EndIsLast
<1> QED
  BY <1>8, <1>9, <1>10, <1>11

LEMMA LosslessTick ==
  ASSUME LosslessInv, TypeOK', Tick
  PROVE  LosslessInv'
<1> USE DEF LosslessInv
<1>1. /\ UNCHANGED <<yielded, task, response, out, received, link, closedBy>>
      /\ wire' = [i \in 1..Len(wire) |-> Older(wire[i])] /\ Len(wire) \in Nat
  BY DEF Tick, client, TypeOK
<1>2. Len(wire') = Len(wire) /\ \A i \in 1..Len(wire) : wire'[i].kind = wire[i].kind /\ wire'[i].event = wire[i].event
  <2>1. \A g \in Frame : Older(g).kind = g.kind /\ Older(g).event = g.event
    BY DEF Older, Frame
  <2>2. Len(wire') = Len(wire) /\ \A i \in 1..Len(wire) : wire'[i] = Older(wire[i]) /\ wire[i] \in Frame
    BY <1>1 DEF TypeOK
  <2> QED
    BY <2>1, <2>2
<1>3. Ended' = Ended /\ Pending' = Pending /\ Prefetched' = Prefetched
  BY <1>1, <1>2 DEF Ended, Pending, Prefetched
<1>4. NothingIsLost'
  <2>1. PICK at \in [0..Len(wire) -> Nat] :
          /\ Reached(at, Len(received), wire, yielded)
          /\ response # "done" \/ Ended => at[Len(wire)] + Pending + Prefetched = Len(yielded)
    BY DEF NothingIsLost
  <2>2. Reached(at, Len(received), wire', yielded)
    BY <1>2, <2>1 DEF Reached
  <2> QED
    BY <1>1, <1>2, <1>3, <2>1, <2>2 DEF NothingIsLost
<1>5. NextIsSent' /\ YieldedIsARun' /\ DeliveredInOrder'
  BY <1>1, <1>3 DEF NextIsSent, YieldedIsARun, DeliveredInOrder
<1>6. EndIsLast'
  BY <1>1, <1>2 DEF EndIsLast
<1> QED
  BY <1>4, <1>5, <1>6

LEMMA LosslessStep ==
  ASSUME TimerInv, LosslessInv, [Next]_vars
  PROVE  LosslessInv'
<1>0. TypeOK'
  BY NextTypeOK DEF LosslessInv
<1>1. CASE Yield \/ Take \/ KeepAlive \/ Send \/ Finish \/ Cancel \/ Deliver \/ Tick
  BY <1>0, <1>1, LosslessYield, LosslessTake, LosslessKeepAlive, LosslessSend, LosslessFinish,
     LosslessCancel, LosslessDeliver, LosslessTick
<1>2. CASE UNCHANGED vars
  BY <1>0, <1>2, NothingMoves DEF vars, server, client
<1>3. CASE Open
  <2>1. response = "none"
    BY <1>3 DEF Open, TimerInv, NothingSent
  <2> QED
    BY <1>0, <1>3, <2>1, NothingMoves DEF Open, client
<1>4. CASE \/ Start \/ Refused \/ RefusalRead \/ RefusalSilent \/ ConnectFails
           \/ IdleTimeoutFires \/ LinkResets \/ LinkBreaks \/ Stall
  BY <1>0, <1>4, NothingMoves
  DEF Start, Refused, RefusalRead, RefusalSilent, ConnectFails, IdleTimeoutFires, LinkResets, LinkBreaks, Stall, Fail, server, client
<1> QED
  BY <1>1, <1>2, <1>3, <1>4 DEF Next

-----------------------------------------------------------------------------
(***************************************************************************)
(* What the page shows is determined by the events it has received.        *)
(***************************************************************************)
Current(r, v) ==
    \A s \in Steps :
        LET mine == {i \in DOMAIN r : r[i].step = s /\ r[i].attempt = v.attempt} IN
        IF mine = {}
        THEN v.steps[s] = "none"
        ELSE \E i \in mine : v.steps[s] = r[i].status /\ \A j \in mine : j <= i

Shown(e) == NewState([state |-> "inProgress"], e)

StreamEnds ==
    /\ link = "closed" <=> closedBy # "none"
    /\ link \in {"none", "connecting"} => received = <<>>
    /\ link = "none" => view.state = "idle"

ShowsWhatCame ==
    LET e == Latest(received) IN
    /\ e = Begin => view.attempt = 1
    /\ Underway(e) => view.attempt = e.attempt
    /\ view.loaded <=> e.step = "saving" /\ e.status = "done"
    /\ link \in {"connecting", "refused", "silent", "up", "down"} \/ closedBy = "end" =>
          view.state = IF view.loaded THEN "idle" ELSE Shown(e)
    /\ closedBy = "error" => view.state = "networkError"

PageInv ==
    /\ StreamEnds
    /\ ShowsWhatCame
    /\ Current(received, view)
    /\ \A i \in 1..Len(received) : received[i].attempt <= view.attempt

LEMMA ReceivedIsARun ==
  ASSUME LosslessInv
  PROVE  /\ Latest(received) \in Event /\ Proper(Latest(received))
         /\ Len(received) # Len(yielded) =>
               /\ Len(received) + 1 \in 1..Len(yielded)
               /\ yielded[Len(received) + 1] \in Follows(Latest(received))
         /\ Len(received) = Len(yielded) => received = yielded
         /\ IsLast(Latest(received)) => received = yielded
<1> USE DEF LosslessInv
<1>1. /\ Len(received) \in Nat /\ Len(yielded) \in Nat /\ Len(received) <= Len(yielded)
      /\ \A i \in 1..Len(received) : received[i] = yielded[i]
      /\ received = <<>> <=> Len(received) = 0
  BY EmptySeq DEF TypeOK, DeliveredInOrder
<1>2. Latest(received) = IF Len(received) = 0 THEN Begin ELSE yielded[Len(received)]
  BY <1>1 DEF Latest
<1>3. Latest(received) \in Event /\ Proper(Latest(received))
  <2>1. Len(received) # 0 => Len(received) \in 1..Len(yielded)
    BY <1>1
  <2> QED
    BY <1>2, <2>1, LatestIsEvent DEF TypeOK, YieldedIsARun, Proper
<1>4. ASSUME Len(received) # Len(yielded)
      PROVE  /\ Len(received) + 1 \in 1..Len(yielded)
             /\ yielded[Len(received) + 1] \in Follows(Latest(received))
  <2>1. Len(received) + 1 \in 1..Len(yielded)
    BY <1>1, <1>4
  <2>2. Before(yielded, Len(received) + 1) = Latest(received)
    BY <1>1, <1>2 DEF Before
  <2> QED
    BY <2>1, <2>2 DEF YieldedIsARun
<1>5. Len(received) = Len(yielded) => received = yielded
  BY <1>1, SeqEqual DEF TypeOK
<1>6. IsLast(Latest(received)) => Len(received) = Len(yielded)
  BY <1>4 DEF IsLast
<1> QED
  BY <1>3, <1>4, <1>5, <1>6

\* An event handled keeps the checklist to the current attempt: one of a new
\* attempt wipes it, one of this attempt replaces what its step showed.
LEMMA ChecklistKept ==
  ASSUME NEW r \in Seq(Event), NEW v \in View, NEW e \in Event, Current(r, v),
         \A i \in 1..Len(r) : r[i].attempt <= v.attempt,
         e.step \in Steps => e.attempt >= v.attempt
  PROVE  LET w == OnGenerationChanged(HandleEvent(v, e)) IN
         /\ Current(Append(r, e), w)
         /\ \A i \in 1..Len(Append(r, e)) : Append(r, e)[i].attempt <= w.attempt
<1> DEFINE w == OnGenerationChanged(HandleEvent(v, e))
           r1 == Append(r, e)
           n == Len(r)
           base == Checklist(v, e)
<1>1. n \in Nat /\ DOMAIN r = 1..n /\ DOMAIN r1 = 1..n + 1 /\ Len(r1) = n + 1 /\ r1[n + 1] = e
      /\ \A i \in 1..n : r1[i] = r[i] /\ r[i] \in Event
  OBVIOUS
<1>2. e.attempt \in Nat /\ v.attempt \in Nat /\ \A i \in 1..n : r[i].attempt \in Nat
  BY <1>1, AttemptsAssumption DEF Event, View
<1>3. w.attempt = IF e.attempt > v.attempt THEN e.attempt ELSE v.attempt
  BY DEF OnGenerationChanged, HandleEvent, Handled
<1>4. w.steps = IF e.step \in Steps THEN [base EXCEPT ![e.step] = e.status] ELSE base
  BY DEF OnGenerationChanged, HandleEvent, Handled
<1>5. base \in [Steps -> {"none", "running", "passed", "rejected", "done"}]
  BY DEF Checklist, Fresh, View
<1> HIDE DEF w, r1, n, base
<1>6. ASSUME NEW i \in 1..Len(r1) PROVE r1[i].attempt <= w.attempt
  <2>1. CASE i = n + 1
    BY <1>1, <1>2, <1>3, <2>1
  <2>2. CASE i \in 1..n
    BY <1>1, <1>2, <1>3, <2>2 DEF n
  <2> QED
    BY <1>1, <2>1, <2>2
<1>7. ASSUME NEW s \in Steps
      PROVE  LET mine == {i \in DOMAIN r1 : r1[i].step = s /\ r1[i].attempt = w.attempt} IN
             IF mine = {}
             THEN w.steps[s] = "none"
             ELSE \E i \in mine : w.steps[s] = r1[i].status /\ \A j \in mine : j <= i
  <2> DEFINE mine == {i \in DOMAIN r1 : r1[i].step = s /\ r1[i].attempt = w.attempt}
             old == {i \in DOMAIN r : r[i].step = s /\ r[i].attempt = v.attempt}
  <2>1. CASE e.step = s
    <3>1. e.attempt = w.attempt
      BY <1>2, <1>3, <2>1
    <3>2. n + 1 \in mine /\ \A j \in mine : j <= n + 1
      BY <1>1, <2>1, <3>1
    <3>3. w.steps[s] = r1[n + 1].status
      BY <1>1, <1>4, <1>5, <2>1
    <3> QED
      BY <3>2, <3>3
  <2>2. CASE e.step # s /\ e.attempt > v.attempt
    <3>1. mine = {}
      BY <1>1, <1>2, <1>3, <2>2 DEF n
    <3>2. w.steps[s] = "none"
      BY <1>4, <1>5, <2>2 DEF base, Checklist, Fresh
    <3> QED
      BY <3>1, <3>2
  <2>3. CASE e.step # s /\ ~(e.attempt > v.attempt)
    <3>1. w.attempt = v.attempt /\ mine = old
      BY <1>1, <1>3, <2>3
    <3>2. w.steps[s] = v.steps[s]
      BY <1>4, <1>5, <2>3 DEF base, Checklist
    <3>3. IF old = {}
          THEN v.steps[s] = "none"
          ELSE \E i \in old : v.steps[s] = r[i].status /\ \A j \in old : j <= i
      BY DEF Current
    <3>4. \A i \in old : r1[i] = r[i]
      BY <1>1
    <3> QED
      BY <3>1, <3>2, <3>3, <3>4
  <2> QED
    BY <2>1, <2>2, <2>3
<1>8. Current(r1, w)
  BY <1>7 DEF Current
<1> QED
  BY <1>6, <1>8 DEF w, r1

\* An event arrives: it follows the last one received, so there was no outcome.
LEMMA PageHandles ==
  ASSUME LosslessInv, LosslessInv', PageInv, Deliver, Head(wire).kind = "data"
  PROVE  PageInv'
<1> DEFINE e == Head(wire).event
           p == Latest(received)
           v1 == HandleEvent(view, e)
<1>1. /\ link = "up" /\ link' = link /\ closedBy' = closedBy
      /\ received' = Append(received, e) /\ view' = OnGenerationChanged(v1)
      /\ yielded' = yielded
  BY DEF Deliver, server
<1>2. received \in Seq(Event) /\ received' \in Seq(Event) /\ view \in View /\ wire \in Seq(Frame)
  BY DEF LosslessInv, TypeOK
<1>3. e \in Event
  BY <1>2 DEF Deliver, Frame
<1> HIDE DEF e
<1>4. Latest(received') = e /\ received' # <<>>
  BY <1>1, <1>2, <1>3 DEF Latest
<1>5. Len(received') = Len(received) + 1 /\ received'[Len(received) + 1] = e /\ Len(received) \in Nat
  BY <1>1, <1>2, <1>3
<1>6. Len(received) # Len(yielded) /\ e = yielded[Len(received) + 1]
  <2>1. Len(yielded) \in Nat /\ Len(received) + 1 <= Len(yielded) /\ received'[Len(received) + 1] = yielded[Len(received) + 1]
    BY <1>1, <1>5 DEF LosslessInv, DeliveredInOrder, TypeOK
  <2> QED
    BY <1>5, <2>1
<1>7. p \in Event /\ Proper(p) /\ e \in Follows(p)
  BY <1>6, ReceivedIsARun
<1>8. ~Outcome(p)
  BY <1>7, RunEndsWithAnOutcome DEF IsLast
<1>9. /\ Proper(e) /\ e # Begin
      /\ e.step \in Steps => e.attempt \in 1..MaxAttempts /\ e.attempt >= p.attempt
  BY <1>7, RunGoesOn
<1>10. p = Begin \/ Underway(p)
  BY <1>7, <1>8 DEF Proper
<1>11. ~view.loaded /\ view.state = "inProgress"
  <2>1. Shown(p) = "inProgress" /\ ~(p.step = "saving" /\ p.status = "done")
    BY <1>10 DEF Shown, NewState, Underway, Judged, Begin, Ev
  <2> QED
    BY <1>1, <2>1 DEF PageInv, ShowsWhatCame
<1>12. e.step \in Steps => e.attempt >= view.attempt
  BY <1>9, <1>10, <1>2 DEF PageInv, ShowsWhatCame, View
<1>13. /\ Current(received', view')
       /\ \A i \in 1..Len(received') : received'[i].attempt <= view'.attempt
  BY <1>1, <1>2, <1>3, <1>12, ChecklistKept DEF PageInv
<1>14. /\ v1.state = Shown(e) /\ v1.loaded = FALSE
       /\ v1.attempt = IF e.attempt > view.attempt THEN e.attempt ELSE view.attempt
  <2>1. view.loaded = FALSE
    BY <1>2, <1>11 DEF View
  <2>2. NewState(view, e) = Shown(e)
    BY <1>11 DEF NewState, Shown
  <2> QED
    BY <2>1, <2>2 DEF HandleEvent, Handled
<1>15. v1 \in [state : State, attempt : 1..MaxAttempts, loaded : BOOLEAN,
                steps : {v1.steps}]
  <2>1. v1.state \in State
    BY <1>14 DEF Shown, NewState, State
  <2>2. v1.attempt \in 1..MaxAttempts
    BY <1>2, <1>3, <1>14, AttemptsAssumption DEF Event, View
  <2> QED
    BY <1>14, <2>1, <2>2 DEF HandleEvent, Handled
<1> HIDE DEF v1
<1>16. Shown(e) = "success" <=> e.step = "saving" /\ e.status = "done"
  BY <1>9 DEF Shown, NewState, Proper, Underway, Outcome, Judged
<1>17. /\ view'.attempt = v1.attempt
       /\ view'.loaded <=> Shown(e) = "success"
       /\ view'.state = IF Shown(e) = "success" THEN "idle" ELSE Shown(e)
  BY <1>1, <1>14, <1>15 DEF OnGenerationChanged
<1>18. Underway(e) => view'.attempt = e.attempt
  <2>1. SUFFICES ASSUME Underway(e) PROVE view'.attempt = e.attempt
    OBVIOUS
  <2>2. e.step \in Steps /\ e.attempt \in 1..MaxAttempts
    BY <2>1 DEF Underway, Steps
  <2> QED
    BY <1>2, <1>12, <1>14, <1>17, <2>2, AttemptsAssumption DEF View
<1>19. ShowsWhatCame'
  <2>1. closedBy = "none"
    BY <1>1 DEF PageInv, StreamEnds
  <2> QED
    BY <1>1, <1>4, <1>9, <1>16, <1>17, <1>18, <2>1 DEF ShowsWhatCame
<1>20. StreamEnds'
  BY <1>1 DEF PageInv, StreamEnds
<1> QED
  BY <1>13, <1>19, <1>20 DEF PageInv

\* The stream ends, for the view model a network error.
LEMMA PageFails ==
  ASSUME LosslessInv, PageInv, Fail, link # "closed", UNCHANGED received
  PROVE  PageInv'
<1>1. /\ view' = [view EXCEPT !.state = "networkError"] /\ closedBy' = "error" /\ link' = "closed"
      /\ view \in View
  BY DEF Fail, LosslessInv, TypeOK
<1>2. /\ view'.state = "networkError" /\ view'.attempt = view.attempt
      /\ view'.loaded = view.loaded /\ view'.steps = view.steps
  BY <1>1 DEF View
<1>3. Current(received', view')
  BY <1>2 DEF PageInv, Current
<1>4. ShowsWhatCame'
  BY <1>1, <1>2 DEF PageInv, ShowsWhatCame
<1>5. StreamEnds'
  BY <1>1 DEF StreamEnds
<1> QED
  BY <1>2, <1>3, <1>4, <1>5 DEF PageInv

LEMMA PageStep ==
  ASSUME LosslessInv, LosslessInv', PageInv, [Next]_vars
  PROVE  PageInv'
<1>1. CASE UNCHANGED client /\ UNCHANGED link
  BY <1>1 DEF client, PageInv, StreamEnds, ShowsWhatCame
<1>2. CASE Yield \/ Take \/ KeepAlive \/ Send \/ Finish \/ Cancel \/ Stall \/ Tick \/ UNCHANGED vars
  BY <1>1, <1>2 DEF Yield, Take, KeepAlive, Send, Finish, Cancel, Stall, Tick, vars
<1>3. CASE Start
  <2>1. /\ link = "none" /\ link' = "connecting" /\ view' = [Fresh EXCEPT !.state = "inProgress"]
        /\ UNCHANGED <<received, closedBy>> /\ received = <<>> /\ closedBy = "none"
    BY <1>3 DEF Start, PageInv, StreamEnds
  <2>2. /\ view'.state = "inProgress" /\ view'.attempt = 1 /\ view'.loaded = FALSE
        /\ \A s \in Steps : view'.steps[s] = "none"
    BY <2>1 DEF Fresh
  <2>3. Current(received', view')
    BY <2>1, <2>2 DEF Current
  <2>4. Latest(received') = Begin /\ ~Underway(Begin) /\ Begin.step = "begin" /\ Shown(Begin) = "inProgress"
    BY <2>1 DEF Latest, Begin, Ev, Underway, Judged, Shown, NewState
  <2>5. ShowsWhatCame'
    BY <2>1, <2>2, <2>4 DEF ShowsWhatCame
  <2> QED
    BY <2>1, <2>3, <2>5 DEF PageInv, StreamEnds
<1>4. CASE RefusalRead
  <2>1. link = "refused" /\ UNCHANGED received
    BY <1>4 DEF RefusalRead
  <2>2. CASE Fail
    BY <2>1, <2>2, PageFails
  <2>3. CASE ~Fail
    <3>1. /\ link' = "closed" /\ closedBy' = "refused" /\ view \in View
          /\ view' = [view EXCEPT !.state = "quotaExhausted"]
      BY <1>4, <2>3 DEF RefusalRead, LosslessInv, TypeOK
    <3>2. /\ view'.attempt = view.attempt /\ view'.loaded = view.loaded /\ view'.steps = view.steps
      BY <3>1 DEF View
    <3>3. Current(received', view')
      BY <2>1, <3>2 DEF PageInv, Current
    <3>4. ShowsWhatCame'
      BY <2>1, <3>1, <3>2 DEF PageInv, ShowsWhatCame
    <3>5. StreamEnds'
      BY <3>1 DEF StreamEnds
    <3> QED
      BY <2>1, <3>2, <3>3, <3>4, <3>5 DEF PageInv
  <2> QED
    BY <2>2, <2>3
<1>5. CASE ConnectFails \/ IdleTimeoutFires \/ LinkResets
  BY <1>5, PageFails DEF ConnectFails, IdleTimeoutFires, LinkResets
<1>6. CASE Open \/ LinkBreaks \/ Refused \/ RefusalSilent
  <2>1. /\ UNCHANGED client /\ link \in {"connecting", "refused", "up"}
        /\ link' \in {"refused", "silent", "up", "down"}
    BY <1>6 DEF Open, LinkBreaks, Refused, RefusalSilent
  <2> QED
    BY <2>1 DEF client, PageInv, StreamEnds, ShowsWhatCame
<1>7. CASE Deliver
  <2>1. wire # <<>> /\ wire \in Seq(Frame) /\ link = "up"
    BY <1>7 DEF Deliver, LosslessInv, TypeOK
  <2>2. Head(wire).kind \in {"data", "comment", "end", "abort"}
    <3>1. Head(wire) \in Frame
      BY <2>1
    <3> QED
      BY <3>1 DEF Frame
  <2>3. CASE Head(wire).kind = "data"
    BY <1>7, <2>3, PageHandles
  <2>4. CASE Head(wire).kind = "comment"
    BY <1>1, <1>7, <2>4 DEF Deliver
  <2>5. CASE Head(wire).kind = "end"
    <3>1. link' = "closed" /\ closedBy' = "end" /\ UNCHANGED <<view, received>>
      BY <1>7, <2>5 DEF Deliver
    <3> QED
      BY <2>1, <3>1 DEF PageInv, StreamEnds, ShowsWhatCame
  <2>6. CASE Head(wire).kind = "abort"
    BY <1>7, <2>1, <2>6, PageFails DEF Deliver
  <2> QED
    BY <2>2, <2>3, <2>4, <2>5, <2>6
<1> QED
  BY <1>2, <1>3, <1>4, <1>5, <1>6, <1>7 DEF Next

StreamInv == TimerInv /\ LosslessInv /\ PageInv

LEMMA StreamInvInit == Init => StreamInv
<1> SUFFICES ASSUME Init PROVE StreamInv
  OBVIOUS
<1>1. TypeOK /\ TimerInv
  BY InitTypeOK DEF Init, TimerInv, NothingSent
<1>2. Reached([i \in 0..0 |-> 0], 0, <<>>, <<>>)
  BY DEF Reached
<1>3. NothingIsLost
  BY <1>2 DEF Init, NothingIsLost, Pending, Prefetched
<1>4. LosslessInv
  BY <1>1, <1>3 DEF Init, LosslessInv, YieldedIsARun, NextIsSent, EndIsLast, DeliveredInOrder, Pending, Control
<1>5. Latest(<<>>) = Begin /\ ~Underway(Begin) /\ Begin.step = "begin"
  BY DEF Latest, Begin, Ev, Underway, Judged
<1>6. PageInv
  BY <1>5 DEF Init, PageInv, StreamEnds, ShowsWhatCame, Current, Fresh
<1> QED
  BY <1>1, <1>4, <1>6 DEF StreamInv

LEMMA StreamInvStep ==
  ASSUME StreamInv, [Next]_vars
  PROVE  StreamInv'
  BY TimerInvStep, LosslessStep, PageStep DEF StreamInv

LEMMA LosslessShown == StreamInv => StreamIsLossless
<1>1. StreamInv /\ closedBy = "end" => received = yielded /\ IsLast(Latest(received))
  BY ReceivedIsARun DEF StreamInv, LosslessInv, EndIsLast
<1> QED
  BY <1>1 DEF StreamInv, LosslessInv, StreamIsLossless, CleanEndIsComplete

LEMMA PageShown == StreamInv => PageIsTruthful
<1> SUFFICES ASSUME StreamInv PROVE PageIsTruthful
  OBVIOUS
<1> DEFINE e == Latest(received)
<1>1. ChecklistIsCurrent
  BY DEF StreamInv, PageInv, Current, ChecklistIsCurrent
<1>2. e \in Event /\ Proper(e) /\ (IsLast(e) => received = yielded)
  BY ReceivedIsARun DEF StreamInv
<1>3. Outcome(e) => IsLast(Latest(yielded))
  BY <1>2, RunEndsWithAnOutcome
<1>4. view.loaded => Outcome(e)
  BY DEF StreamInv, PageInv, ShowsWhatCame, Outcome
<1>5. ASSUME view.state \in {"quotaExhausted", "pipelineFailed"}, closedBy # "refused"
      PROVE  Outcome(e)
  <2>1. link \in Link /\ closedBy \in {"none", "refused", "end", "error"}
    BY DEF StreamInv, LosslessInv, TypeOK
  <2>2. link \in {"connecting", "refused", "silent", "up", "down"} \/ closedBy = "end"
    BY <1>5, <2>1 DEF StreamInv, PageInv, StreamEnds, ShowsWhatCame, Link
  <2>3. view.state = Shown(e)
    BY <1>5, <2>2 DEF StreamInv, PageInv, ShowsWhatCame
  <2> HIDE DEF e
  <2> QED
    BY <1>2, <1>5, <2>3 DEF Shown, NewState, Proper, Underway, Outcome, Judged, Begin, Ev
<1>6. OutcomeIsFinal
  BY <1>3, <1>4, <1>5 DEF OutcomeIsFinal
<1>7. ASSUME closedBy = "end"
      PROVE  /\ view.loaded <=> e.step = "saving" /\ e.status = "done"
             /\ view.state = "pipelineFailed" <=> e.step = "failed"
             /\ view.state = "quotaExhausted" <=> e.status = "rejected"
  <2>1. Outcome(e)
    BY <1>7, LosslessShown, ReceivedIsARun, RunEndsWithAnOutcome
       DEF StreamInv, StreamIsLossless, CleanEndIsComplete
  <2>2. /\ view.loaded <=> e.step = "saving" /\ e.status = "done"
        /\ view.state = IF view.loaded THEN "idle" ELSE Shown(e)
    BY <1>7 DEF StreamInv, PageInv, ShowsWhatCame
  <2> HIDE DEF e
  <2> QED
    BY <2>1, <2>2 DEF Outcome, Shown, NewState
<1>8. OutcomeIsShown
  BY <1>7 DEF OutcomeIsShown
<1> QED
  BY <1>1, <1>6, <1>8 DEF PageIsTruthful

\* Whatever heartbeats, stalls and breaks fall into it, the client handles a
\* prefix of what execute() yielded; a stream that ends without an error was
\* complete.
THEOREM NothingIsLostOnTheWay == Spec => []StreamIsLossless
<1>1. StreamInv /\ [Next]_vars => StreamInv'
  BY StreamInvStep
<1> QED
  BY <1>1, StreamInvInit, LosslessShown, PTL DEF Spec

\* The checklist is that of the current attempt, the page shows an outcome or
\* loads a case only when the pipeline has yielded its last event, and after a
\* clean end it shows the outcome of that event.
THEOREM PagesAreTruthful == Spec => []PageIsTruthful
<1>1. StreamInv /\ [Next]_vars => StreamInv'
  BY StreamInvStep
<1> QED
  BY <1>1, StreamInvInit, PageShown, PTL DEF Spec

-----------------------------------------------------------------------------
(***************************************************************************)
(* The stream as a feed of one generation.                                 *)
(***************************************************************************)
LEMMA LastOfFeed ==
  ASSUME NEW y \in Seq(Event), Proper(Latest(y))
  PROVE  Feed!Over(y) <=> IsLast(Latest(y))
<1>1. y = <<>> => ~IsLast(Latest(y))
  BY BeginIsEvent, RunEndsWithAnOutcome DEF Latest, Proper, Outcome, Begin, Ev
<1>2. y # <<>> => Latest(y) = y[Len(y)] /\ Latest(y) \in Event
  BY LatestIsEvent DEF Latest
<1> QED
  BY <1>1, <1>2 DEF Feed!Over

\* Steps of the server behind its response, of the connection and of time.
LEMMA FeedRests ==
  ASSUME UNCHANGED <<yielded, received, closedBy>>
  PROVE  UNCHANGED Feed!vars
  BY DEF Feed!vars

LEMMA FeedBreaks ==
  ASSUME StreamInv, link # "closed", Fail \/ closedBy' = "refused", UNCHANGED <<yielded, received>>
  PROVE  Feed!Next
<1>1. link \in Link /\ closedBy = "none" /\ closedBy' \in {"error", "refused"}
  BY DEF StreamInv, PageInv, StreamEnds, LosslessInv, TypeOK, Fail
<1> QED
  BY <1>1 DEF Feed!Next, Feed!Break

LEMMA FeedStep ==
  ASSUME StreamInv, StreamInv', StreamIsLossless', [Next]_vars
  PROVE  [Feed!Next]_(Feed!vars)
<1> USE DEF server, client
<1>1. CASE Yield
  <2>1. ASSUME NEW e \in Follows(Latest(yielded)), yielded' = Append(yielded, e)
        PROVE  Feed!Next
    <3>1. Latest(yielded) \in Event /\ Proper(Latest(yielded)) /\ yielded \in Seq(Event)
      BY LatestOfRun DEF StreamInv, LosslessInv, TypeOK
    <3>2. e \in Event /\ ~Feed!Over(yielded)
      BY <3>1, FollowsAreEvents, LastOfFeed DEF IsLast
    <3>3. Feed!Emit(e)
      BY <1>1, <2>1, <3>2 DEF Feed!Emit, Yield
    <3> QED
      BY <3>2, <3>3 DEF Feed!Next
  <2> QED
    BY <1>1, <2>1, FeedRests DEF Yield
<1>2. CASE Deliver
  <2>1. link = "up" /\ closedBy = "none" /\ yielded' = yielded /\ wire # <<>>
    BY <1>2 DEF Deliver, StreamInv, PageInv, StreamEnds
  <2>2. CASE Head(wire).kind = "data"
    <3>1. PICK e \in Event : received' = Append(received, e) /\ closedBy' = closedBy
      <4>1. Head(wire) \in Frame
        BY <2>1 DEF StreamInv, LosslessInv, TypeOK
      <4> QED
        BY <1>2, <2>2, <4>1 DEF Deliver, Frame
    <3>2. Len(received) \in Nat /\ Len(received') = Len(received) + 1 /\ received'[Len(received) + 1] = e
      BY <3>1 DEF StreamInv, LosslessInv, TypeOK
    <3>3. Len(received') <= Len(yielded) /\ \A i \in 1..Len(received') : received'[i] = yielded[i]
      BY <2>1 DEF StreamInv, LosslessInv, DeliveredInOrder
    <3>4. Len(yielded) \in Nat
      BY DEF StreamInv, LosslessInv, TypeOK
    <3>5. Len(received) < Len(yielded) /\ e = yielded[Len(received) + 1]
      BY <3>2, <3>3, <3>4
    <3> QED
      BY <2>1, <3>1, <3>5 DEF Feed!Next, Feed!Receive
  <2>3. CASE Head(wire).kind = "end"
    <3>1. received' = received /\ closedBy' = "end"
      BY <1>2, <2>3 DEF Deliver
    <3>2. received = yielded /\ IsLast(Latest(yielded))
      BY <2>1, <3>1 DEF StreamIsLossless, CleanEndIsComplete
    <3>3. Feed!Over(yielded)
      BY <3>2, LastOfFeed, LatestOfRun DEF StreamInv, LosslessInv, TypeOK
    <3> QED
      BY <2>1, <3>1, <3>2, <3>3 DEF Feed!Next, Feed!Complete
  <2>4. CASE Head(wire).kind = "abort"
    BY <1>2, <2>1, <2>4, FeedBreaks DEF Deliver
  <2>5. CASE Head(wire).kind = "comment"
    BY <1>2, <2>1, <2>5, FeedRests DEF Deliver
  <2> QED
    BY <1>2, <2>2, <2>3, <2>4, <2>5 DEF Deliver
<1>3. CASE RefusalRead \/ ConnectFails \/ IdleTimeoutFires \/ LinkResets
  BY <1>3, FeedBreaks DEF RefusalRead, ConnectFails, IdleTimeoutFires, LinkResets
<1>4. CASE \/ Take \/ KeepAlive \/ Send \/ Finish \/ Cancel \/ Start \/ Open \/ Refused
           \/ RefusalSilent \/ LinkBreaks \/ Stall \/ Tick \/ UNCHANGED vars
  BY <1>4, FeedRests
  DEF Take, KeepAlive, Send, Finish, Cancel, Start, Open, Refused, RefusalSilent, LinkBreaks, Stall, Tick, vars
<1> QED
  BY <1>1, <1>2, <1>3, <1>4 DEF Next

\* What the page gets is what execute() yields, as from an ideal feed.
LEMMA StreamIsAFeed == Spec => Feed!Spec
<1>1. Init => Feed!Init
  BY DEF Init, Feed!Init
<1>2. StreamInv /\ [Next]_vars => StreamInv'
  BY StreamInvStep
<1>3. StreamInv /\ StreamInv' /\ StreamIsLossless' /\ [Next]_vars => [Feed!Next]_(Feed!vars)
  BY FeedStep
<1> QED
  BY <1>1, <1>2, <1>3, StreamInvInit, LosslessShown, PTL DEF Spec, Feed!Spec

-----------------------------------------------------------------------------
(***************************************************************************)
(* The events as one run of GenerationPath.                                *)
(***************************************************************************)
LEMMA ToldEvents ==
  ASSUME NEW e \in Event, Proper(e)
  PROVE  /\ IsLast(e) => \A t \in Task : Told(e, t) = Told(e, "running")
         /\ ~IsLast(e) => \A t \in {"raise", "cancelled"} : Told(e, t) = Path!Out("interrupted")
         /\ \A t \in Task \ {"raise", "cancelled"} : Told(e, t) = Told(e, "running")
         /\ e.step = "quota_check" => Told(e, "running") = Path!Out("quota_rejected")
         /\ e.step = "failed" => Told(e, "running") = Path!Out("failed")
         /\ e.step = "saving" /\ e.status = "rejected" => Told(e, "running") = Path!Out("slot_lost")
         /\ e.step = "saving" /\ e.status = "done" => Told(e, "running") = Path!Out("done")
         /\ e = Begin => Told(e, "running") = Path!Start
         /\ e.status = "running" /\ e # Begin => Told(e, "running") = [step |-> e.step, attempt |-> e.attempt]
         /\ e.step \in Judged /\ e.status = "rejected" =>
               Told(e, "running") = [step |-> "rejected", attempt |-> e.attempt]
         /\ e.step \in Judged /\ e.status = "passed" =>
               Told(e, "running") = [step |-> Successor[e.step], attempt |-> e.attempt]
<1>1. IsLast(e) <=> Outcome(e)
  BY RunEndsWithAnOutcome
<1>2. e = Begin => e.step = "begin" /\ e.status = "running" /\ e.attempt = 0
  BY DEF Begin, Ev
<1>3. CASE IsLast(e)
  <2>1. Outcome(e) /\ ~Underway(e) /\ e # Begin /\ e.step \notin Judged /\ e.status # "running"
    BY <1>1, <1>2, <1>3 DEF Outcome, Underway, Judged
  <2> DEFINE last == CASE e.step = "quota_check" -> "quota_rejected"
                       [] e.step = "failed" -> "failed"
                       [] e.step = "saving" -> IF e.status = "rejected" THEN "slot_lost" ELSE "done"
  <2>2. \A t : Told(e, t) = Path!Out(last)
    BY <1>3 DEF Told, Path!Out
  <2>3. /\ e.step = "quota_check" => last = "quota_rejected"
        /\ e.step = "failed" => last = "failed"
        /\ e.step = "saving" /\ e.status = "rejected" => last = "slot_lost"
        /\ e.step = "saving" /\ e.status = "done" => last = "done"
    OBVIOUS
  <2> HIDE DEF last
  <2> QED
    BY <1>3, <2>1, <2>2, <2>3
<1>4. CASE ~IsLast(e)
  <2> DEFINE present == CASE e = Begin -> "start"
                          [] e.status = "rejected" -> "rejected"
                          [] e.status = "passed" -> Successor[e.step]
                          [] OTHER -> e.step
  <2>1. /\ \A t \in {"raise", "cancelled"} : Told(e, t) = Path!Out("interrupted")
        /\ \A t \in Task \ {"raise", "cancelled"} :
              Told(e, t) = [step |-> present, attempt |-> e.attempt]
        /\ "running" \in Task \ {"raise", "cancelled"}
    BY <1>4 DEF Told, Path!Out, Task
  <2>2. /\ e = Begin => present = "start"
        /\ e # Begin /\ e.status = "rejected" => present = "rejected"
        /\ e # Begin /\ e.status = "passed" => present = Successor[e.step]
        /\ e # Begin /\ e.status = "running" => present = e.step
    BY <1>2
  <2>3. e.step # "quota_check" /\ e.step # "failed" /\ (e.step \in Judged => e # Begin)
        /\ ~(e.step = "saving" /\ e.status \in {"rejected", "done"})
    BY <1>1, <1>2, <1>4 DEF Proper, Underway, Judged
  <2> HIDE DEF present
  <2>4. e = Begin => Told(e, "running") = Path!Start
    BY <1>2, <2>1, <2>2 DEF Path!Start
  <2> QED
    BY <1>4, <2>1, <2>2, <2>3, <2>4
<1> QED
  BY <1>3, <1>4

\* The one run of a stream.
This == [r \in {"this"} |-> Told(Latest(yielded), task)]

LEMMA ThisMoves ==
  ASSUME NEW p, p = This["this"]', NEW q, q = This["this"]
  PROVE  /\ This' = [This EXCEPT !["this"] = p]
         /\ p = q => This' = This
  BY DEF This

\* An event is followed by the next step of its run.
LEMMA NextEventPath ==
  ASSUME NEW e \in Event, Proper(e), NEW f \in Follows(e),
         This["this"] = Told(e, "running"), This["this"]' = Told(f, "running")
  PROVE  Path!Next \/ UNCHANGED This
<1> DEFINE p == Told(e, "running")
           q == Told(f, "running")
<1>1. f \in Event /\ Proper(f) /\ MaxAttempts \in Nat /\ MaxAttempts > 0
  BY FollowsAreEvents, RunGoesOn, AttemptsAssumption
<1>2. /\ This["this"] = p
      /\ This' = [This EXCEPT !["this"] = q]
      /\ p = q => This' = This
  BY ThisMoves
<1>3. \/ Path!Reserve("this") \/ Path!RefuseQuota("this") \/ Path!Pass("this") \/ Path!Reject("this")
      \/ Path!GiveUp("this") \/ Path!Save("this") \/ Path!LoseSlot("this")
      => Path!Next
  BY DEF Path!Next
<1> USE <1>1
<1>4. ASSUME NEW n \in Nat, p.step \in {"start", "rejected"}, p.attempt = n, n <= MaxAttempts,
             n = MaxAttempts => p.step = "rejected", f \in AttemptEvents(n + 1)
      PROVE  Path!Next
  <2>1. CASE n = MaxAttempts
    <3>1. f.step = "failed"
      BY <1>4, <2>1 DEF AttemptEvents, Ev
    <3>2. q = Path!Out("failed")
      BY <3>1, ToldEvents
    <3> HIDE DEF p, q
    <3> QED
      BY <1>2, <1>3, <1>4, <2>1, <3>2 DEF Path!GiveUp, Path!Move, This
  <2>2. CASE n < MaxAttempts
    <3>1. \/ f.step = "generating" /\ f.status = "running" /\ f.attempt = n + 1
          \/ f.step = "quota_check"
      BY <1>4, <2>2 DEF AttemptEvents, Ev
    <3>2. q = [step |-> "generating", attempt |-> n + 1] \/ q = Path!Out("quota_rejected")
      BY <3>1, ToldEvents DEF Begin, Ev
    <3> HIDE DEF p, q
    <3> QED
      BY <1>2, <1>3, <1>4, <2>2, <3>2 DEF Path!Reserve, Path!RefuseQuota, Path!Move, This
  <2> QED
    BY <1>4, <2>1, <2>2
<1>5. CASE e = Begin
  <2>1. p = Path!Start
    BY <1>5, ToldEvents
  <2>2. f = Ev("quota_check", "rejected", 0) \/ f \in AttemptEvents(0 + 1)
    BY <1>5 DEF Follows, Begin, Ev, Judged
  <2>3. CASE f = Ev("quota_check", "rejected", 0)
    <3>1. q = Path!Out("quota_rejected") /\ p.step = "start" /\ p.attempt = 0
      BY <2>1, <2>3, ToldEvents DEF Ev, Path!Start
    <3> HIDE DEF p, q
    <3> QED
      BY <1>2, <1>3, <3>1 DEF Path!RefuseQuota, Path!Move, This
  <2> QED
    BY <1>4, <2>1, <2>2, <2>3 DEF Path!Start
<1>6. CASE e # Begin /\ Underway(e) /\ e.step \in Judged
  <2>1. e.attempt \in 1..MaxAttempts /\ e.step # "saving"
    BY <1>6 DEF Underway, Judged
  <2>2. CASE e.status = "running"
    <3>1. p = [step |-> e.step, attempt |-> e.attempt]
      BY <1>6, <2>2, ToldEvents
    <3>2. f.step = e.step /\ f.attempt = e.attempt /\ f.status \in {"passed", "rejected"}
      BY <1>6, <2>1, <2>2 DEF Follows, Verdicts, Ev
    <3>3. \/ q = [step |-> "rejected", attempt |-> e.attempt]
          \/ q = [step |-> Path!Successor[e.step], attempt |-> e.attempt]
      BY <1>6, <3>2, ToldEvents DEF Successor, Path!Successor
    <3>4. p.step = e.step /\ \A s : [p EXCEPT !.step = s] = [step |-> s, attempt |-> e.attempt]
      BY <3>1
    <3>5. p.step \in Path!Judged
      BY <1>6, <3>4 DEF Path!Judged, Judged
    <3> HIDE DEF p, q
    <3>6. CASE q = [step |-> "rejected", attempt |-> e.attempt]
      <4>1. Path!Reject("this")
        BY <1>2, <3>4, <3>5, <3>6 DEF Path!Reject, Path!Move, This
      <4> QED
        BY <1>3, <4>1
    <3>7. CASE q = [step |-> Path!Successor[e.step], attempt |-> e.attempt]
      <4>1. Path!Pass("this")
        BY <1>2, <3>4, <3>5, <3>7 DEF Path!Pass, Path!Move, This
      <4> QED
        BY <1>3, <4>1
    <3> QED
      BY <3>3, <3>6, <3>7
  <2>3. CASE e.status = "passed"
    <3>1. f = Ev(Successor[e.step], "running", e.attempt)
      BY <1>6, <2>3 DEF Follows
    <3>2. f.step = Successor[e.step] /\ f.attempt = e.attempt /\ f.status = "running" /\ f # Begin
      BY <3>1, RunGoesOn DEF Ev
    <3>3. q = p
      BY <1>6, <2>3, <3>2, ToldEvents
    <3> QED
      BY <1>2, <3>3
  <2>4. CASE e.status = "rejected"
    <3>1. p = [step |-> "rejected", attempt |-> e.attempt] /\ f \in AttemptEvents(e.attempt + 1)
      BY <1>6, <2>4, ToldEvents DEF Follows
    <3> QED
      BY <1>4, <2>1, <3>1
  <2> QED
    BY <1>6, <2>1, <2>2, <2>3, <2>4 DEF Underway
<1>7. CASE e # Begin /\ Underway(e) /\ e.step \notin Judged
  <2>1. e.step = "saving" /\ e.status = "running" /\ p = [step |-> "saving", attempt |-> e.attempt]
    BY <1>7, ToldEvents DEF Underway
  <2>2. f.step = "saving" /\ f.status \in {"rejected", "done"}
    BY <1>7, <2>1 DEF Follows, Judged, Ev
  <2>3. p.step = "saving" /\ (q = Path!Out("slot_lost") \/ q = Path!Out("done"))
    BY <2>1, <2>2, ToldEvents
  <2> HIDE DEF p, q
  <2> QED
    BY <1>2, <1>3, <2>3 DEF Path!Save, Path!LoseSlot, Path!Move, This
<1>8. CASE Outcome(e)
  BY <1>8, RunEndsWithAnOutcome DEF IsLast
<1> QED
  BY <1>5, <1>6, <1>7, <1>8 DEF Proper

LEMMA PathStep ==
  ASSUME StreamInv, StreamInv', [Next]_vars
  PROVE  Path!Next \/ UNCHANGED This
<1> DEFINE e == Latest(yielded)
<1>1. e \in Event /\ Proper(e) /\ task \in Task
  BY LatestOfRun DEF StreamInv, LosslessInv, TypeOK
<1>2. ASSUME yielded' = yielded,
             task' = task \/ {task, task'} \subseteq Task \ {"raise", "cancelled"}
      PROVE  UNCHANGED This
  <2>1. Told(e, task') = Told(e, task)
    BY <1>1, <1>2, ToldEvents
  <2> QED
    BY <1>2, <2>1 DEF This
<1>3. ASSUME yielded' = yielded, task = "running", task' \in {"stop", "raise", "cancelled"},
             task' = "stop" => IsLast(e)
      PROVE  Path!Next \/ UNCHANGED This
  <2>1. Latest(yielded)' = e
    BY <1>3 DEF Latest
  <2>2. This["this"] = Told(e, "running") /\ This["this"]' = Told(e, task')
    BY <1>3, <2>1 DEF This
  <2>3. CASE IsLast(e)
    <3>1. task' \in Task
      BY <1>3 DEF Task
    <3>2. This["this"]' = This["this"]
      BY <1>1, <2>2, <2>3, <3>1, ToldEvents
    <3> QED
      BY <3>2, ThisMoves
  <2>4. CASE ~IsLast(e)
    <3>1. This["this"]' = Path!Out("interrupted")
      BY <1>1, <1>3, <2>2, <2>4, ToldEvents
    <3>2. Told(e, "running").step \notin Path!Final
      <4>1. ~Outcome(e)
        BY <1>1, <2>4, RunEndsWithAnOutcome
      <4>2. CASE e = Begin
        BY <1>1, <4>2, ToldEvents DEF Path!Start, Path!Final
      <4>3. CASE e # Begin /\ Underway(e)
        <5>1. \/ e.step \in Judged /\ e.status \in {"running", "passed", "rejected"}
              \/ e.step = "saving" /\ e.status = "running"
          BY <4>3 DEF Underway
        <5> HIDE DEF e
        <5>2. Told(e, "running").step \in {e.step, "rejected"} \/ (e.step \in Judged /\ Told(e, "running").step = Successor[e.step])
          BY <1>1, <4>3, <5>1, ToldEvents
        <5> QED
          BY <5>1, <5>2 DEF Judged, Successor, Path!Final
      <4> QED
        BY <1>1, <4>1, <4>2, <4>3 DEF Proper
    <3>3. Path!Interrupt("this")
      BY <2>2, <3>1, <3>2, ThisMoves DEF Path!Interrupt, Path!Move, This
    <3> QED
      BY <3>3 DEF Path!Next
  <2> QED
    BY <2>3, <2>4
<1>4. CASE Yield
  <2>1. ASSUME NEW f \in Follows(e), yielded' = Append(yielded, f), task' = "event"
        PROVE  Path!Next \/ UNCHANGED This
    <3>1. Latest(yielded)' = f
      <4>1. f \in Event /\ yielded \in Seq(Event)
        BY <1>1, FollowsAreEvents DEF StreamInv, LosslessInv, TypeOK
      <4>2. yielded' \in Seq(Event) /\ Len(yielded') # 0 /\ yielded'[Len(yielded')] = f
        BY <2>1, <4>1
      <4>3. yielded' # <<>>
        BY <4>2
      <4> QED
        BY <4>2, <4>3 DEF Latest
    <3>2. f \in Event /\ Proper(f)
      BY <1>1, FollowsAreEvents, RunGoesOn
    <3>3. Told(f, "event") = Told(f, "running")
      BY <3>2, ToldEvents DEF Task
    <3>4. This["this"] = Told(e, "running") /\ This["this"]' = Told(f, "event")
      BY <1>4, <2>1, <3>1 DEF This, Yield
    <3> QED
      BY <1>1, <3>3, <3>4, NextEventPath
  <2> QED
    BY <1>3, <1>4, <2>1 DEF Yield
<1>5. CASE Take
  BY <1>2, <1>5 DEF Take, Task
<1>6. CASE Cancel
  BY <1>2, <1>3, <1>6 DEF Cancel
<1>7. CASE \/ KeepAlive \/ Send \/ Finish \/ Start \/ Refused \/ RefusalRead \/ RefusalSilent
           \/ ConnectFails \/ Open \/ Deliver \/ IdleTimeoutFires \/ LinkBreaks \/ LinkResets \/ Stall \/ Tick \/ UNCHANGED vars
  <2>1. yielded' = yielded /\ task' = task
    BY <1>7 DEF KeepAlive, Send, Finish, Start, Refused, RefusalRead, RefusalSilent, ConnectFails,
       Open, Deliver, IdleTimeoutFires, LinkBreaks, LinkResets, Stall, Tick, vars, client, server
  <2> QED
    BY <1>2, <2>1
<1> QED
  BY <1>4, <1>5, <1>6, <1>7 DEF Next

LEMMA StreamIsOneRun == Spec => Path!Spec
<1>1. Init => Path!Init
  <2>1. Init => Latest(yielded) = Begin /\ task = "running"
    BY DEF Init, Latest
  <2>2. Told(Begin, "running") = Path!Start
    BY BeginIsEvent, ToldEvents DEF Proper
  <2> QED
    BY <2>1, <2>2 DEF Path!Init
<1>2. StreamInv /\ [Next]_vars => StreamInv'
  BY StreamInvStep
<1>3. StreamInv /\ StreamInv' /\ [Next]_vars => [Path!Next]_This
  BY PathStep
<1> QED
  BY <1>1, <1>2, <1>3, StreamInvInit, PTL DEF Spec, Path!Spec, This

\* The page is sent one run of the pipeline, in its order, as from an ideal
\* feed.
THEOREM StreamsCarryOneGeneration == Spec => CarriesOneGeneration
  BY StreamIsAFeed, StreamIsOneRun DEF CarriesOneGeneration
=============================================================================
