---------------------------- MODULE LiveUpdates ----------------------------
(***************************************************************************)
(* What the page of a run shows while the run goes on: the events a node   *)
(* publishes (backend/nodes/content_generator.py and self_refiner.py), the *)
(* event bus (services/workflow_event_bus.py), the SSE stream of           *)
(* routes/workflow_routes.py and the page that reads it, falls back to     *)
(* polling and makes requests of its own (frontend, page.tsx and api.ts).  *)
(*                                                                         *)
(* The states of the run are numbered by "moment", the last one is its     *)
(* end.  One section is followed; a take is one attempt at its text, by a  *)
(* retry or by a refinement.  Names, titles and heartbeats are left out,   *)
(* and so are parts of a snapshot: it is the moment it was read at.        *)
(***************************************************************************)
EXTENDS Integers, Sequences, FiniteSets

CONSTANTS Backends,   \* the event buses looked at: "memory", "redis"
          QueueSize,  \* asyncio.Queue(maxsize=...)
          WireSize,   \* messages on the way before the server waits
          LastMoment, \* the moment at which the run ends
          MaxTakes,   \* bound on the takes of the section
          MaxTokens,  \* bound on the tokens of a take
          MaxPolls,   \* bound on the poll answers under way
          MaxAsks,    \* bound on the requests the user makes
          MaxFaults   \* bound on lost events, connections and requests

ASSUME ConstantsAssumption ==
    /\ {QueueSize, WireSize, LastMoment} \subseteq Nat
    /\ {MaxTakes, MaxTokens, MaxPolls, MaxAsks, MaxFaults} \subseteq Nat

VARIABLES backend,
          moment,  \* the state of the run
          work,    \* the node at work on the section
          lengths, \* the tokens of the takes that were completed
          gaps,    \* takes of which the page has missed an event
          conn,    \* the SSE stream, as the server has it, and what is on the way
          page,    \* what the page shows, and whether it polls
          polls,   \* answers to polls under way
          ask,     \* the page's request under way
          asks, faults

vars == <<backend, moment, work, lengths, gaps, conn, page, polls, ask, asks, faults>>
serverSide == <<moment, work, lengths>>
clientSide == <<page, polls, ask, asks>>

Takes == 1..MaxTakes
Ended == moment = LastMoment

Event(type, n) == [type |-> type, take |-> work.take, n |-> n, moment |-> 0]
Message(type, m) == [type |-> type, take |-> 0, n |-> 0, moment |-> m]

NoConn == [pc |-> "none"]
Open == conn # NoConn
\* The bus has a queue for the stream.
Subscribed == Open /\ conn.pc # "over" /\ conn.sub = "on"

Fault == faults < MaxFaults /\ faults' = faults + 1

-----------------------------------------------------------------------------
(* The bus. *)

\* The take of an event that does not reach the page has a gap.
Missed(e) == IF e.take # 0 THEN {e.take} ELSE {}
MissedIn(queue) == UNION {Missed(queue[i]) : i \in DOMAIN queue}

\* publish: a queue that is full drops the event, so that a slow client does
\* not hold up the node.
Publish(e) ==
    IF Subscribed /\ Len(conn.queue) < QueueSize
    THEN conn' = [conn EXCEPT !.queue = Append(@, e)] /\ UNCHANGED gaps
    ELSE gaps' = gaps \cup Missed(e) /\ UNCHANGED conn

\* Redis turns a publication down; the node goes on.
PublishLost(e) ==
    backend = "redis" /\ Fault /\ gaps' = gaps \cup Missed(e) /\ UNCHANGED conn

Emit(e) ==
    /\ (Publish(e) /\ UNCHANGED faults) \/ PublishLost(e)
    /\ UNCHANGED <<backend, clientSide>>

\* _consume_pubsub: the subscription is made after the stream was opened ...
SubscriptionMade ==
    /\ Open /\ conn.sub = "pending"
    /\ conn' = [conn EXCEPT !.sub = "on"]
    /\ UNCHANGED <<backend, serverSide, gaps, clientSide, faults>>

\* ... and may break; the page is told, if there is room, and nothing repairs it.
SubscriptionLost ==
    /\ Open /\ backend = "redis" /\ conn.sub # "lost" /\ Fault
    /\ conn' = [conn EXCEPT !.sub = "lost",
                            !.queue = IF conn.pc # "over" /\ Len(@) < QueueSize
                                      THEN Append(@, Message("stream_error", 0)) ELSE @]
    /\ UNCHANGED <<backend, serverSide, gaps, clientSide>>

-----------------------------------------------------------------------------
(* The run: _stream_once under invoke_with_llm_retry, and the nodes around it. *)

\* A retry that goes on without announcing that the text begins anew.
RetrySilently ==
    /\ work.pc = "retry" /\ work.take < MaxTakes
    /\ work' = [take |-> work.take + 1, sent |-> 0, pc |-> "streaming"]
    /\ UNCHANGED <<backend, moment, lengths, gaps, conn, clientSide, faults>>

\* Every attempt begins with section_started.
Begin(from) ==
    /\ work.pc = from /\ work.take < MaxTakes /\ ~Ended
    /\ work' = [take |-> work.take + 1, sent |-> 0, pc |-> "streaming"]
    /\ Emit([type |-> "section_started", take |-> work.take + 1, n |-> 0, moment |-> 0])
    /\ UNCHANGED <<moment, lengths>>

Generate == Begin("idle")
Retry == Begin("retry")

Token ==
    /\ work.pc = "streaming" /\ work.sent < MaxTokens
    /\ work' = [work EXCEPT !.sent = @ + 1]
    /\ Emit(Event("token", work.sent + 1))
    /\ UNCHANGED <<moment, lengths>>

\* An error that may pass is tried again, without a word to the page.
Interrupted ==
    /\ work.pc = "streaming"
    /\ work' = [work EXCEPT !.pc = "retry"]
    /\ UNCHANGED <<backend, moment, lengths, gaps, conn, clientSide, faults>>

Completed ==
    /\ work.pc = "streaming"
    /\ work' = [work EXCEPT !.pc = "idle"]
    /\ lengths' = [lengths EXCEPT ![work.take] = work.sent]
    /\ Emit(Event("section_completed", 0))
    /\ UNCHANGED moment

\* Any other error: the page is told, the node fails and with it the run.
StreamFails ==
    /\ work.pc \in {"streaming", "retry"}
    /\ work' = [work EXCEPT !.pc = "failing"]
    /\ Emit(Message("stream_error", 0))
    /\ UNCHANGED <<moment, lengths>>

\* The row and the checkpoint move on, and then the page is told so by an event
\* it does not listen to (_emit_node_status, _emit_workflow_status).
Move ==
    /\ work.pc \in {"idle", "failing"} /\ ~Ended
    /\ moment' = IF work.pc = "failing" THEN LastMoment ELSE moment + 1
    /\ Emit(Message("status", 0))
    /\ UNCHANGED <<work, lengths>>

-----------------------------------------------------------------------------
(* stream_workflow_events.  A snapshot is due once a second, and goes first. *)

Loop(new) ==
    /\ conn' = new
    /\ UNCHANGED <<backend, serverSide, gaps, clientSide>>

SecondPasses ==
    /\ Open /\ conn.pc = "loop" /\ ~conn.due
    /\ Loop([conn EXCEPT !.due = TRUE]) /\ UNCHANGED faults

Room == Len(conn.wire) < WireSize

\* The stream's loop is left, and its queue is given back.
Leave(e) ==
    /\ conn' = [conn EXCEPT !.pc = "over", !.due = FALSE, !.queue = << >>, !.wire = Append(@, e)]
    /\ gaps' = gaps \cup MissedIn(conn.queue)
    /\ UNCHANGED <<backend, serverSide, clientSide>>

\* A snapshot is sent when it differs from the last one.  The one of an ended run
\* is followed by "done" and the end of the stream; the page has closed it by then.
SendSnapshot ==
    /\ Open /\ conn.pc = "loop" /\ conn.due /\ Room
    /\ \/ /\ ~Ended
          /\ Loop([conn EXCEPT !.due = FALSE, !.sent = moment,
                               !.wire = IF conn.sent = moment THEN @
                                        ELSE Append(@, Message("snapshot", moment))])
       \/ Ended /\ Leave(Message("snapshot", moment))
    /\ UNCHANGED faults

\* A snapshot that cannot be built ends the stream with an app_error.
SnapshotFails ==
    /\ Open /\ conn.pc = "loop" /\ conn.due /\ Room /\ Fault
    /\ Leave(Message("app_error", 0))

\* Between two snapshots the events of the queue are passed on.
PassEvent ==
    /\ Open /\ conn.pc = "loop" /\ ~conn.due /\ conn.queue # << >> /\ Room
    /\ Loop([conn EXCEPT !.queue = Tail(@), !.wire = Append(@, Head(conn.queue))])
    /\ UNCHANGED faults

-----------------------------------------------------------------------------
(* The page. *)

\* The page after it was told of moment m; the streamed text goes when the run
\* is seen to end (the effect on workflow.status).
Showing(m) ==
    [page EXCEPT !.shown = m, !.newest = IF m > @ THEN m ELSE @,
                 !.text = IF m = LastMoment /\ page.shown # LastMoment THEN << >> ELSE @,
                 !.state = IF m = LastMoment /\ page.shown # LastMoment THEN "none" ELSE @]

Live(m) == m # LastMoment

\* The source is closed and forgotten; what was under way is not read any more.
Close ==
    /\ conn' = NoConn
    /\ gaps' = IF Open THEN gaps \cup MissedIn(conn.queue) \cup MissedIn(conn.wire) ELSE gaps

\* startEventStream: the handler subscribes before the stream begins.
OpenStream ==
    conn' = IF Open THEN conn
            ELSE [pc |-> "loop", due |-> TRUE, sent |-> -1,
                  queue |-> << >>, wire |-> << >>,
                  sub |-> IF backend = "redis" THEN "pending" ELSE "on"]

\* A page that only notes that its stream is gone.
NoFallback == [page EXCEPT !.polling = FALSE]

\* onError: without its stream the page polls.
Fallback == [page EXCEPT !.polling = TRUE]

\* handleStreamingSectionStarted, -Token and -SectionCompleted
Entry(e) ==
    CASE e.type = "section_started" ->
             [page EXCEPT !.text = << >>, !.state = "streaming"]
      [] e.type = "token" ->
             [page EXCEPT !.text = Append(@, <<e.take, e.n>>), !.state = "streaming"]
      [] e.type = "section_completed" /\ page.state # "none" ->
             [page EXCEPT !.state = "complete", !.take = e.take]
      [] OTHER -> page

Receive ==
    /\ Open /\ conn.wire # << >>
    /\ LET e == Head(conn.wire)
           Rest == [conn EXCEPT !.wire = Tail(@)]
       IN  \/ /\ e.type = "snapshot"
              /\ page' = Showing(e.moment)
              /\ IF Live(e.moment) THEN conn' = Rest /\ UNCHANGED gaps ELSE Close
           \/ e.type = "app_error" /\ Close /\ page' = Fallback
           \/ /\ e.type \notin {"snapshot", "app_error"}
              /\ page' = Entry(e) /\ conn' = Rest /\ UNCHANGED gaps
    /\ UNCHANGED <<backend, serverSide, polls, ask, asks, faults>>

\* The connection breaks.
Disconnect ==
    /\ Open /\ Fault
    /\ Close /\ page' = Fallback
    /\ UNCHANGED <<backend, serverSide, polls, ask, asks>>

\* Every three seconds the status and the trace are asked for, whether or not
\* the last answer has come.
Poll ==
    /\ page.polling /\ Cardinality(polls) < MaxPolls
    /\ polls' = polls \cup {moment}
    /\ UNCHANGED <<backend, serverSide, gaps, conn, page, ask, asks, faults>>

\* Answers come in any order, and the last one to come is shown.
PollAnswered(m) ==
    /\ m \in polls /\ polls' = polls \ {m}
    /\ page' = [Showing(m) EXCEPT !.polling = @ /\ Live(m)]
    /\ UNCHANGED <<backend, serverSide, gaps, conn, ask, asks, faults>>

\* One answer that fails ends the polling; it needs no bound, since only another
\* fault starts the polling again.
PollFails(m) ==
    /\ m \in polls /\ polls' = polls \ {m}
    /\ page' = [page EXCEPT !.polling = FALSE, !.deaf = @ \/ ~Open]
    /\ UNCHANGED <<backend, serverSide, gaps, conn, ask, asks, faults>>

NoAsk == [kind |-> "none", read |-> 0]

\* The user reloads the page, or answers, pauses or resumes the run; the answer
\* with the state the server has read is on its way.
Ask ==
    /\ ask = NoAsk /\ asks < MaxAsks /\ asks' = asks + 1
    /\ \E kind \in {"load", "act"} :
           /\ kind = "act" => page.shown \in 0..LastMoment - 1
           /\ ask' = [kind |-> kind, read |-> moment]
    /\ UNCHANGED <<backend, serverSide, gaps, conn, page, polls, faults>>

\* loadWorkflow and the handlers of the user's actions: a live run is followed
\* through a stream, and of an ended one a reload stops all updates.
AskAnswered ==
    /\ ask # NoAsk
    /\ ask' = NoAsk
    /\ \/ /\ Live(ask.read) /\ OpenStream /\ UNCHANGED gaps
          /\ page' = [Showing(ask.read) EXCEPT !.polling = @ /\ Open, !.newest = ask.read, !.deaf = FALSE]
       \/ /\ ~Live(ask.read) /\ ask.kind = "load" /\ Close
          /\ page' = [Showing(ask.read) EXCEPT !.polling = FALSE, !.newest = ask.read]
       \/ /\ ~Live(ask.read) /\ ask.kind = "act" /\ UNCHANGED <<conn, gaps>>
          /\ page' = [Showing(ask.read) EXCEPT !.newest = ask.read]
    /\ UNCHANGED <<backend, serverSide, polls, asks, faults>>

\* A reload that fails stops all updates; an action that fails changes nothing.
AskFails ==
    /\ ask # NoAsk /\ Fault
    /\ ask' = NoAsk
    /\ \/ ask.kind = "load" /\ Close /\ page' = [page EXCEPT !.polling = FALSE, !.deaf = TRUE]
       \/ ask.kind = "act" /\ UNCHANGED <<conn, gaps, page>>
    /\ UNCHANGED <<backend, serverSide, polls, asks>>

-----------------------------------------------------------------------------

\* The page has just been opened, and the state it loads is on its way.
Init ==
    /\ backend \in Backends
    /\ moment = 0
    /\ work = [take |-> 0, sent |-> 0, pc |-> "idle"]
    /\ lengths = [t \in Takes |-> 0]
    /\ gaps = {}
    /\ conn = NoConn
    /\ page = [shown |-> -1, polling |-> FALSE, text |-> << >>, state |-> "none", take |-> 0,
               newest |-> -1, deaf |-> FALSE]
    /\ polls = {}
    /\ ask = [kind |-> "load", read |-> 0]
    /\ asks = 0 /\ faults = 0

RunStep == Generate \/ Retry \/ Token \/ Interrupted \/ Completed \/ StreamFails \/ Move

StreamStep == SubscriptionMade \/ SendSnapshot \/ PassEvent

Next ==
    \/ RunStep \/ StreamStep \/ SecondPasses \/ SnapshotFails \/ SubscriptionLost
    \/ Receive \/ Disconnect
    \/ Poll \/ \E m \in 0..LastMoment : PollAnswered(m) \/ PollFails(m)
    \/ Ask \/ AskAnswered \/ AskFails

Spec == Init /\ [][Next]_vars

\* The server's loop and the browser's go on, time passes and answers come; the
\* run may stay where it is.
Fairness ==
    /\ WF_vars(StreamStep) /\ WF_vars(SecondPasses) /\ WF_vars(Receive)
    /\ WF_vars(Poll) /\ \A m \in 0..LastMoment : WF_vars(PollAnswered(m))
    /\ WF_vars(AskAnswered)

FairSpec == Spec /\ Fairness

-----------------------------------------------------------------------------
(* Properties. *)

\* The text of a section that the page shows as complete is the text of the take
\* that was completed, whatever earlier attempts had streamed, provided that all
\* events of this take have reached the page: it has not been opened, lost its
\* connection or had its queue filled during the take (_stream_once,
\* handleStreamingToken).  It holds until the page is told that the run has ended:
\* when an action's answer tells it, the text is cleared and the stream is not
\* closed, so that the tokens under way begin a text without its beginning.
CompleteTextIsWhole ==
    page.state = "complete" /\ page.take \notin gaps /\ page.newest # LastMoment =>
        page.text = [i \in 1..lengths[page.take] |-> <<page.take, i>>]

\* A page shows the end of a run that ends, and goes on showing it, through
\* broken streams, lost subscriptions and failing snapshots; except that a
\* request that fails leaves it without updates, and that the answer to an old
\* poll may replace a newer state (loadWorkflow, startEventStream, startPolling).
PageSeesTheEnd ==
    <>Ended => <>[](page.shown = LastMoment \/ page.deaf \/ page.shown < page.newest)

=============================================================================
