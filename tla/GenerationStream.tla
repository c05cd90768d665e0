--------------------------- MODULE GenerationStream ---------------------------
(***************************************************************************)
(* One live generation as its player sees it: the events that              *)
(* GenerateCase.execute yields, the response generator                     *)
(* stream_generation_events that prefetches them and fills pauses with     *)
(* heartbeats, the connection, and the client that reads it into           *)
(* CaseGenerationViewModel under a per-chunk idle timeout.                 *)
(*                                                                         *)
(* Time is counted in ticks.  A tick cannot pass while the server's event  *)
(* loop has something to do at once, nor keep a frame on a working         *)
(* connection longer than Latency.  But the loop may be stalled: the       *)
(* quota's get_status is a blocking call, made on the loop itself by every *)
(* request for a generation of the instance.                               *)
(***************************************************************************)
EXTENDS Naturals, Sequences

CONSTANTS
    MaxAttempts,  \* MAX_ATTEMPTS_PER_REQUEST
    Heartbeat,    \* HEARTBEAT_INTERVAL_SECONDS, in ticks
    IdleTimeout,  \* the client's per-chunk timeout, in ticks
    Latency,      \* ticks a frame may take on a working connection
    MaxStall,     \* ticks the loop may be blocked between two of its rounds
    MaxWire       \* frames the connection buffers before a send waits

ASSUME AttemptsAssumption == MaxAttempts \in Nat \ {0}
ASSUME ClockAssumption ==
    /\ Heartbeat \in Nat \ {0} /\ Latency \in Nat /\ IdleTimeout \in Nat
    /\ MaxStall \in Nat
    /\ Heartbeat + MaxStall + Latency < IdleTimeout
ASSUME WireAssumption == MaxWire \in Nat \ {0}

VARIABLES
    yielded,   \* events execute() has yielded
    task,      \* the pending __anext__(): Task
    response,  \* where stream_generation_events is: Response
    out,       \* the frame it is about to send
    waited,    \* ticks since it began to wait
    stall,     \* ticks for which the event loop is still blocked
    wire,      \* frames on their way, with their age
    link,      \* Link
    quiet,     \* ticks since the client last received a chunk
    view,      \* the view model; loaded: its case was handed to the game
    received,  \* history: events the client has handled
    closedBy   \* history: how the client's stream ended

server == <<yielded, task, response, out, waited, stall>>
client == <<view, received, closedBy>>
vars == <<server, wire, link, quiet, client>>

Judged == {"generating", "logic_check", "safety_check"}
Steps == Judged \cup {"saving"}
Event == [step : Steps \cup {"begin", "quota_check", "failed"},
          status : {"running", "passed", "rejected", "done"},
          attempt : 0..MaxAttempts]  \* 0: the event carries none
Ev(step, status, n) == [step |-> step, status |-> status, attempt |-> n]
Begin == Ev("begin", "running", 0)

Frame == [kind : {"data", "comment", "end", "abort"}, event : Event, age : 0..Latency]
Data(e) == [kind |-> "data", event |-> e, age |-> 0]
Control(kind) == [kind |-> kind, event |-> Begin, age |-> 0]

Task == {"running", "event", "stop", "raise", "cancelled"}
Response == {"none", "wait", "send", "done"}
\* refused: the status of an error answer came, its body has not; silent: nor will it.
Link == {"none", "connecting", "refused", "silent", "up", "down", "closed"}
State == {"idle", "inProgress", "success", "quotaExhausted", "pipelineFailed", "networkError"}
View == [state : State, attempt : 1..MaxAttempts, loaded : BOOLEAN,
         steps : [Steps -> {"none", "running", "passed", "rejected", "done"}]]

TypeOK ==
    /\ yielded \in Seq(Event)
    /\ task \in Task
    /\ response \in Response
    /\ out \in Frame
    /\ waited \in 0..Heartbeat
    /\ stall \in 0..MaxStall
    /\ wire \in Seq(Frame)
    /\ link \in Link
    /\ quiet \in 0..IdleTimeout
    /\ view \in View
    /\ received \in Seq(Event)
    /\ closedBy \in {"none", "refused", "end", "error"}

Fresh == [state |-> "idle", attempt |-> 1, loaded |-> FALSE, steps |-> [s \in Steps |-> "none"]]

Init ==
    /\ yielded = <<>>
    /\ task = "running"
    /\ response = "none"
    /\ out = Control("comment")
    /\ waited = 0
    /\ stall = 0
    /\ wire = <<>>
    /\ link = "none"
    /\ quiet = 0
    /\ view = Fresh
    /\ received = <<>>
    /\ closedBy = "none"

-----------------------------------------------------------------------------
(***************************************************************************)
(* GenerateCase.execute: what it may yield after event e.                  *)
(***************************************************************************)
Successor == [generating |-> "logic_check", logic_check |-> "safety_check", safety_check |-> "saving"]
Verdicts(e) == {Ev(e.step, "passed", e.attempt), Ev(e.step, "rejected", e.attempt)}

\* Attempt n starts with a reservation; after the last one it has failed.
AttemptEvents(n) ==
    IF n > MaxAttempts
    THEN {Ev("failed", "done", 0)}
    ELSE {Ev("generating", "running", n), Ev("quota_check", "rejected", n)}

Follows(e) ==
    CASE e = Begin -> {Ev("quota_check", "rejected", 0)} \cup AttemptEvents(1)
      [] e.step \in Judged /\ e.status = "running" -> Verdicts(e)
      [] e.step \in Judged /\ e.status = "passed" -> {Ev(Successor[e.step], "running", e.attempt)}
      [] e.step \in Judged /\ e.status = "rejected" -> AttemptEvents(e.attempt + 1)
      [] e.step = "saving" /\ e.status = "running" ->
            {Ev("saving", "rejected", e.attempt), Ev("saving", "done", e.attempt)}
      [] OTHER -> {}
IsLast(e) == Follows(e) = {}

Latest(s) == IF s = <<>> THEN Begin ELSE s[Len(s)]

\* The pending __anext__() completes: with an event, with StopAsyncIteration
\* after the last one, or with an exception out of a repository or adapter.
Yield ==
    /\ response # "none" /\ task = "running"
    /\ \/ \E e \in Follows(Latest(yielded)) : task' = "event" /\ yielded' = Append(yielded, e)
       \/ IsLast(Latest(yielded)) /\ task' = "stop" /\ UNCHANGED yielded
       \/ ~IsLast(Latest(yielded)) /\ task' = "raise" /\ UNCHANGED yielded
    /\ UNCHANGED <<response, out, waited, stall, wire, link, quiet, client>>

-----------------------------------------------------------------------------
(***************************************************************************)
(* stream_generation_events.                                               *)
(***************************************************************************)
\* asyncio.wait returns the event; the next __anext__() is started at once.
Take ==
    /\ stall = 0 /\ response = "wait" /\ task = "event"
    /\ out' = Data(Latest(yielded))
    /\ task' = "running"
    /\ response' = "send"
    /\ UNCHANGED <<yielded, waited, stall, wire, link, quiet, client>>

\* Mutants: asyncio.wait_for, whose timeout cancels __anext__() and with it the
\* generator (cases.py:60); an interval that passes without a frame.
Bug_WaitForCancels ==
    /\ stall = 0 /\ response = "wait" /\ task = "running" /\ waited = Heartbeat
    /\ out' = Control("comment")
    /\ response' = "send"
    /\ task' = "stop"
    /\ UNCHANGED <<yielded, waited, stall, wire, link, quiet, client>>
Bug_SilentInterval ==
    /\ stall = 0 /\ response = "wait" /\ task = "running" /\ waited = Heartbeat
    /\ waited' = 0
    /\ UNCHANGED <<yielded, task, response, out, stall, wire, link, quiet, client>>

\* asyncio.wait timed out with the task still pending: a comment line.
KeepAlive ==
    /\ stall = 0 /\ response = "wait" /\ task = "running" /\ waited = Heartbeat
    /\ out' = Control("comment")
    /\ response' = "send"
    /\ UNCHANGED <<yielded, task, waited, stall, wire, link, quiet, client>>

\* yield: the frame goes out when the connection takes it; then the wait begins.
Send ==
    /\ stall = 0 /\ response = "send" /\ Len(wire) < MaxWire
    /\ wire' = Append(wire, out)
    /\ response' = "wait"
    /\ waited' = 0
    /\ UNCHANGED <<yielded, task, out, stall, link, quiet, client>>

\* StopAsyncIteration ends the response; an exception cuts it off.
Finish ==
    /\ stall = 0 /\ response = "wait" /\ task \in {"stop", "raise"} /\ Len(wire) < MaxWire
    /\ wire' = Append(wire, Control(IF task = "stop" THEN "end" ELSE "abort"))
    /\ response' = "done"
    /\ UNCHANGED <<yielded, task, out, waited, stall, link, quiet, client>>

\* The server notices that the client is gone; the finally block cancels the
\* pending task.
Cancel ==
    /\ stall = 0 /\ link \in {"down", "closed"} /\ response \in {"wait", "send"}
    /\ response' = "done"
    /\ task' = IF task = "running" THEN "cancelled" ELSE task
    /\ UNCHANGED <<yielded, out, waited, stall, wire, link, quiet, client>>

-----------------------------------------------------------------------------
(***************************************************************************)
(* The client.                                                             *)
(***************************************************************************)
\* _handleEvent
NewState(v, e) ==
    CASE e.step \in {"quota_check", "saving"} /\ e.status = "rejected" -> "quotaExhausted"
      [] e.step = "saving" /\ e.status = "done" -> "success"
      [] e.step = "failed" -> "pipelineFailed"
      [] OTHER -> v.state
Handled(v, e, state, steps) ==
    [state |-> state,
     attempt |-> IF e.attempt > v.attempt THEN e.attempt ELSE v.attempt,
     loaded |-> v.loaded,
     steps |-> IF e.step \in Steps THEN [steps EXCEPT ![e.step] = e.status] ELSE steps]
Checklist(v, e) == IF e.attempt > v.attempt THEN Fresh.steps ELSE v.steps

\* Mutant: a new attempt leaves the old checklist.
Bug_HandleKeepsChecklist(v, e) == Handled(v, e, NewState(v, e), v.steps)
HandleEvent(v, e) == Handled(v, e, NewState(v, e), Checklist(v, e))

\* The screen's listener: a successful generation is loaded as the case to
\* play and the view model is reset.
OnGenerationChanged(v) == IF v.state = "success" THEN [v EXCEPT !.state = "idle", !.loaded = TRUE] ELSE v

\* start(): the request is sent.
Start ==
    /\ link = "none"
    /\ link' = "connecting"
    /\ view' = [Fresh EXCEPT !.state = "inProgress"]
    /\ UNCHANGED <<server, wire, quiet, received, closedBy>>

\* The stream ends in an exception, for the view model a network error.
Fail ==
    /\ view' = [view EXCEPT !.state = "networkError"]
    /\ closedBy' = "error"
    /\ link' = "closed"

\* No stream, but a status that is not 2xx: the client reads the body.
Refused ==
    /\ link = "connecting"
    /\ link' = "refused"
    /\ UNCHANGED <<server, wire, quiet, client>>

\* The body is there: a 429, or another error.
RefusalRead ==
    /\ link = "refused"
    /\ \/ /\ view' = [view EXCEPT !.state = "quotaExhausted"]
          /\ closedBy' = "refused"
          /\ link' = "closed"
       \/ Fail
    /\ UNCHANGED <<server, wire, quiet, received>>

\* The connection dies silently before the body is there: the read of the body
\* has no timeout.
RefusalSilent ==
    /\ link = "refused"
    /\ link' = "silent"
    /\ UNCHANGED <<server, wire, quiet, client>>

\* No status within the request timeout, or no connection.
ConnectFails ==
    /\ link = "connecting"
    /\ Fail
    /\ UNCHANGED <<server, wire, quiet, received>>

\* The route's StreamingResponse begins; the first __anext__() is started.
Open ==
    /\ link = "connecting"
    /\ link' = "up"
    /\ response' = "wait"
    /\ UNCHANGED <<yielded, task, out, waited, stall, wire, quiet, client>>

\* The next frame arrives.
Deliver ==
    /\ link = "up" /\ wire # <<>>
    /\ wire' = Tail(wire)
    /\ quiet' = 0
    /\ LET f == Head(wire) IN
       \/ /\ f.kind = "data"
          /\ view' = OnGenerationChanged(HandleEvent(view, f.event))
          /\ received' = Append(received, f.event)
          /\ UNCHANGED <<link, closedBy>>
       \/ /\ f.kind = "comment"
          /\ UNCHANGED <<link, client>>
       \/ /\ f.kind = "end"
          /\ link' = "closed"
          /\ closedBy' = "end"
          /\ UNCHANGED <<view, received>>
       \/ /\ f.kind = "abort"
          /\ Fail
          /\ UNCHANGED received
    /\ UNCHANGED server

\* Mutant: the timeout closes the stream and is caught by nobody.
Bug_TimeoutUncaught ==
    /\ link \in {"up", "down"} /\ quiet = IdleTimeout
    /\ closedBy' = "error"
    /\ link' = "closed"
    /\ UNCHANGED <<server, wire, quiet, view, received>>

\* Nothing came for IdleTimeout ticks: TimeoutException.
IdleTimeoutFires ==
    /\ link \in {"up", "down"} /\ quiet = IdleTimeout
    /\ Fail
    /\ UNCHANGED <<server, wire, quiet, received>>

-----------------------------------------------------------------------------
(***************************************************************************)
(* The connection and time.                                                *)
(***************************************************************************)
\* The connection dies silently, or visibly.
LinkBreaks ==
    /\ link = "up"
    /\ link' = "down"
    /\ UNCHANGED <<server, wire, quiet, client>>
LinkResets ==
    /\ link = "up"
    /\ Fail
    /\ UNCHANGED <<server, wire, quiet, received>>

Older(f) == [f EXCEPT !.age = IF f.age < Latency THEN f.age + 1 ELSE Latency]

\* The event loop has something to do at once.
Ready ==
    \/ response = "wait" /\ task = "event"
    \/ response = "wait" /\ task = "running" /\ waited = Heartbeat
    \/ response = "wait" /\ task \in {"stop", "raise"} /\ Len(wire) < MaxWire
    \/ response = "send" /\ Len(wire) < MaxWire

\* A request for a generation asks Firestore for the day's counters, before
\* its first await: until the answer the loop serves nobody.
Stall ==
    /\ link \in {"up", "down"}
    /\ stall = 0 /\ ~Ready
    /\ stall' \in 1..MaxStall
    /\ UNCHANGED <<yielded, task, response, out, waited, wire, link, quiet, client>>

Tick ==
    /\ link \in {"up", "down"}
    /\ quiet < IdleTimeout
    /\ stall > 0 \/ ~Ready
    /\ link = "up" /\ wire # <<>> => Head(wire).age < Latency
    /\ quiet' = quiet + 1
    /\ stall' = IF stall > 0 THEN stall - 1 ELSE 0
    /\ waited' = IF response = "wait" /\ waited < Heartbeat THEN waited + 1 ELSE waited
    /\ wire' = [i \in DOMAIN wire |-> Older(wire[i])]
    /\ UNCHANGED <<yielded, task, response, out, link, client>>

Next ==
    \/ Yield \/ Take \/ KeepAlive \/ Send \/ Finish \/ Cancel
    \/ Start \/ Refused \/ RefusalRead \/ RefusalSilent
    \/ ConnectFails \/ Open \/ Deliver \/ IdleTimeoutFires
    \/ LinkBreaks \/ LinkResets
    \/ Stall \/ Tick

Spec == Init /\ [][Next]_vars

\* Time passes, threads and the event loop run, a working connection delivers
\* frames and bodies, a request gets a status or times out.  Nobody has to
\* start, no connection has to break, and nothing has to block the loop.
FairSpec ==
    /\ Spec
    /\ WF_vars(Tick) /\ WF_vars(Yield)
    /\ WF_vars(Take \/ KeepAlive \/ Send \/ Finish)
    /\ WF_vars(Refused \/ ConnectFails \/ Open) /\ WF_vars(RefusalRead)
    /\ WF_vars(Deliver) /\ WF_vars(IdleTimeoutFires)

-----------------------------------------------------------------------------
\* Prefetching neither loses, repeats nor reorders: the client has handled a
\* prefix of what execute() yielded.
DeliveredInOrder ==
    /\ Len(received) <= Len(yielded)
    /\ \A i \in 1..Len(received) : received[i] = yielded[i]

\* A stream that ends without an error was complete: whatever heartbeats fell
\* into it, its last event was the last of the pipeline.
CleanEndIsComplete == closedBy = "end" => received = yielded /\ IsLast(Latest(received))

\* What reaches the page is what execute() yielded, on the way and at the end.
StreamIsLossless == DeliveredInOrder /\ CleanEndIsComplete

\* The heartbeat "is always the thing that fires first under normal conditions,
\* not a race" (cases.py:40): the client gives up only on a dead connection.
NoFalseTimeout == link = "up" => quiet < IdleTimeout

\* The checklist shows the current attempt and nothing of an earlier one
\* (case_generation_view_model.dart:20).
ChecklistIsCurrent ==
    \A s \in Steps :
        LET mine == {i \in DOMAIN received : received[i].step = s /\ received[i].attempt = view.attempt} IN
        IF mine = {}
        THEN view.steps[s] = "none"
        ELSE \E i \in mine : view.steps[s] = received[i].status /\ \A j \in mine : j <= i

\* The page never reports an outcome, nor loads a case, while the pipeline
\* goes on.
OutcomeIsFinal ==
    view.loaded \/ (view.state \in {"quotaExhausted", "pipelineFailed"} /\ closedBy # "refused")
        => IsLast(Latest(yielded))

\* After a clean end the page shows what the last event says.
OutcomeIsShown ==
    closedBy = "end" =>
        LET e == Latest(received) IN
        /\ view.loaded <=> e.step = "saving" /\ e.status = "done"
        /\ view.state = "pipelineFailed" <=> e.step = "failed"
        /\ view.state = "quotaExhausted" <=> e.status = "rejected"

\* What the page says of the generation is so: each step of this attempt, and
\* the outcome.
PageIsTruthful == ChecklistIsCurrent /\ OutcomeIsFinal /\ OutcomeIsShown

\* What execute()'s latest event and its task tell of the generation.
Told(e, t) ==
    CASE IsLast(e) ->
            [step |-> CASE e.step = "quota_check" -> "quota_rejected"
                        [] e.step = "failed" -> "failed"
                        [] e.step = "saving" -> IF e.status = "rejected" THEN "slot_lost" ELSE "done",
             attempt |-> 0]
      [] ~IsLast(e) /\ t \in {"raise", "cancelled"} -> [step |-> "interrupted", attempt |-> 0]
      [] OTHER ->
            [step |-> CASE e = Begin -> "start"
                        [] e.status = "rejected" -> "rejected"
                        [] e.status = "passed" -> Successor[e.step]
                        [] OTHER -> e.step,
             attempt |-> e.attempt]

Path == INSTANCE GenerationPath WITH
            Runs <- {"this"},
            at <- [r \in {"this"} |-> Told(Latest(yielded), task)]
Feed == INSTANCE EventFeed WITH
            Events <- Event, LastEvents <- {e \in Event : IsLast(e)},
            sent <- yielded, got <- received,
            feed <- CASE closedBy = "none" -> "open" [] closedBy = "end" -> "complete" [] OTHER -> "broken"

\* What the page is sent is one run of the pipeline, in its order, and it gets
\* it as from an ideal feed: nothing lost, repeated or overtaken by the
\* prefetching, the heartbeats and the connection, and no clean end before the
\* last event.
CarriesOneGeneration == Feed!Spec /\ Path!Spec

\* The page does not show progress for ever, whatever breaks before the status
\* or in the stream; it does when the connection dies silently between the
\* status and the body of an error answer, which neither the "dead connection
\* before the stream even opens" nor the "per-chunk timeout"
\* (case_generation_api_client.dart:27) covers.
PageLeavesProgress == view.state = "inProgress" ~> view.state # "inProgress" \/ link = "silent"
=============================================================================
