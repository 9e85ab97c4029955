--------------------------- MODULE MessageChannel ---------------------------
(***************************************************************************)
(* One end of a JsonMessageChannel (src/ptvsd/common/messaging.py).        *)
(*                                                                         *)
(* Three kinds of threads share the channel: application threads, which    *)
(* send messages, wait for responses, register response handlers and close *)
(* the channel; the parser thread, which reads the stream and turns what   *)
(* it reads into queued handlers; and the handler thread, which runs the   *)
(* queued handlers.  While a handler runs, the handler thread is a client  *)
(* of the channel too.                                                     *)
(*                                                                         *)
(* A step is what the code does between two points where another thread    *)
(* may intervene: one section under the channel lock, one read of the      *)
(* stream, one read of _closed.  The only section that is split is the one *)
(* at the end of the message loop, where the parser holds the lock over    *)
(* several steps (ppc = "closing"); see LockFree.                          *)
(***************************************************************************)
EXTENDS Naturals, Sequences, FiniteSets

CONSTANTS
    App,        \* application threads
    H,          \* the handler thread, as a client of its own channel
    MaxSeq,     \* bound: messages sent through _send_message
    MaxIn,      \* bound: messages the other party puts on the wire
    MaxHooks,   \* bound: handlers registered with on_response()
    PeerKinds   \* the kinds of message the other party sends

ASSUME ChannelConstants ==
    /\ H \notin App
    /\ MaxSeq \in Nat /\ MaxIn \in Nat /\ MaxHooks \in Nat
    /\ PeerKinds \subseteq {"message", "response", "invalid", "malformed"}

Threads == App \cup {H}
Seqs    == 1..MaxSeq
Hooks   == 1..MaxHooks

(* What waits in _handler_queue.  A "message" stands for an event or a     *)
(* request of the other party, numbered in order of arrival; "response" is *)
(* the run_handlers closure of a response, followed by the handlers it     *)
(* runs; "disconnect" is _handle_disconnect.                               *)
Units == [kind : {"message", "response", "hook", "disconnect"}, id : Nat]
Unit(k, n) == [kind |-> k, id |-> n]
Disconnect == Unit("disconnect", 0)

Incoming == [kind : PeerKinds, id : Nat]

VARIABLES
    nextSeq,    \* _seq_iter
    closed,     \* _closed, and the _closed of the stream
    sent,       \* keys of _sent_requests
    response,   \* OutgoingRequest.response: "none", "answered" or "gone"
    hooks,      \* OutgoingRequest._response_handlers
    queue,      \* _handler_queue
    waitset,    \* threads asleep on _handlers_enqueued
    ppc,        \* parser thread: where it is; the message it has in hand stays
                \* at the head of inbox until the parser is done with it
    hpc, batch, \* handler thread: where it is, its snapshot of the queue
    pc, at,     \* client threads: where each is, and with which request
    inbox, eof, arrived,            \* the stream and the other party
    issued,     \* history: requests that send_request() returned
    hookOf,     \* history: the request each handler was registered for
    nhooks,     \* history: how many were registered
    handled     \* history: the handlers that have returned, in order

chan   == <<nextSeq, closed, sent, response, hooks, queue, waitset>>
runner == <<hpc, batch>>
client == <<pc, at>>
peer   == <<inbox, eof, arrived>>
hist   == <<issued, hookOf, nhooks, handled>>
vars   == <<chan, ppc, runner, client, peer, hist>>

Stopped  == {"stopped", "crashed"}       \* the parser thread is not alive
LockFree == ppc # "closing"

TypeOK ==
    /\ nextSeq \in 1..(MaxSeq + 1)
    /\ closed \in BOOLEAN /\ eof \in BOOLEAN
    /\ sent \subseteq Seqs /\ issued \subseteq Seqs
    /\ response \in [Seqs -> {"none", "answered", "gone"}]
    /\ hooks \in [Seqs -> Seq(Hooks)]
    /\ queue \in Seq(Units) /\ batch \in Seq(Units) /\ handled \in Seq(Units)
    /\ waitset \subseteq Threads
    /\ ppc \in {"off", "read", "parse", "answer", "unknown", "closing", "killed"}
               \cup Stopped
    /\ hpc \in {"absent", "check", "join", "take", "drain", "asleep", "woken",
               "run", "inside", "killed"}
    /\ pc \in [Threads -> {"idle", "request", "event", "wait", "joinP", "joinH",
                        "killed"}]
    /\ at \in [Threads -> 0..MaxSeq]
    /\ inbox \in Seq(Incoming)
    /\ arrived \in 0..MaxIn
    /\ nhooks \in 0..MaxHooks
    /\ hookOf \in [Hooks -> 0..MaxSeq]

Init ==
    /\ nextSeq = 1 /\ closed = FALSE /\ sent = {}
    /\ response = [s \in Seqs |-> "none"]
    /\ hooks = [s \in Seqs |-> <<>>]
    /\ queue = <<>> /\ waitset = {}
    /\ ppc = "off" /\ hpc = "absent" /\ batch = <<>>
    /\ pc = [t \in Threads |-> "idle"]
    /\ at = [t \in Threads |-> 0]
    /\ inbox = <<>> /\ eof = FALSE /\ arrived = 0
    /\ issued = {} /\ hookOf = [h \in Hooks |-> 0] /\ nhooks = 0 /\ handled = <<>>

-----------------------------------------------------------------------------
(* _enqueue_handlers: queue the units, wake every waiter of the condition, *)
(* and start a handler thread if there is work and no thread to do it.     *)
NeedsThread(q) == hpc = "absent" /\ q # <<>>

EnqueueSilently(units) ==       \* faulty: no notify_all()
    /\ queue' = queue \o units
    /\ hpc' = IF NeedsThread(queue') THEN "check" ELSE hpc
    /\ UNCHANGED waitset

EnqueueFirst(units) ==          \* faulty: at the wrong end
    /\ queue' = units \o queue
    /\ waitset' = {}
    /\ hpc' = CASE hpc = "asleep"        -> "woken"
                [] NeedsThread(queue') -> "check"
                [] OTHER               -> hpc

Enqueue(units) ==
    /\ queue' = queue \o units
    /\ waitset' = {}
    /\ hpc' = CASE hpc = "asleep"            -> "woken"
                [] NeedsThread(queue') -> "check"
                [] OTHER               -> hpc

(* _enqueue_response_handlers of a request that has its response: the list *)
(* of handlers is copied into the closure and cleared.                     *)
ResponseUnits(s, hs) ==
    <<Unit("response", s)>> \o [i \in 1..Len(hs) |-> Unit("hook", hs[i])]


EnqueueResponse(s, hs) ==
    /\ Enqueue(ResponseUnits(s, hs))
    /\ hooks' = [hooks EXCEPT ![s] = <<>>]

-----------------------------------------------------------------------------
(* Application threads, and handlers while they run.                       *)
Runs(t) == t \in App \/ hpc = "inside"
Ready(t) == Runs(t) /\ pc[t] = "idle"

(* start(): asserts that it is called once. *)
Start ==
    /\ ppc = "off"
    /\ ppc' = "read"
    /\ UNCHANGED <<chan, runner, client, peer, hist>>

(* _send_message, first section: the sequence number.  An "event" stands   *)
(* for the messages nobody answers: events and responses.                  *)
BeginSend(t, kind) ==
    /\ Ready(t) /\ LockFree
    /\ nextSeq <= MaxSeq
    /\ nextSeq' = nextSeq + 1
    /\ pc' = [pc EXCEPT ![t] = kind]
    /\ at' = [at EXCEPT ![t] = nextSeq]
    /\ UNCHANGED <<closed, sent, response, hooks, queue, waitset>>
    /\ UNCHANGED <<ppc, runner, peer, hist>>

(* _send_message, second section: a request is registered, then written.   *)
(* The write raises NoMoreMessages on a closed stream and JsonIOError when *)
(* the write fails; the caller then never gets the request, which stays in *)
(* _sent_requests.                                                         *)
RegisterNext(t) == sent' = sent \cup {nextSeq}   \* faulty: the counter, not the seq

Register(t) == sent' = IF pc[t] = "request" THEN sent \cup {at[t]} ELSE sent

EndSend(t) ==
    /\ pc[t] \in {"request", "event"} /\ LockFree
    /\ Register(t)
    /\ \/ ~closed /\ pc[t] = "request" /\ issued' = issued \cup {at[t]}
       \/ UNCHANGED issued
    /\ pc' = [pc EXCEPT ![t] = "idle"] /\ at' = [at EXCEPT ![t] = 0]
    /\ UNCHANGED <<nextSeq, closed, response, hooks, queue, waitset>>
    /\ UNCHANGED <<ppc, runner, peer, hookOf, nhooks, handled>>

(* wait_for_response: only a call that finds no response changes the state *)
(* of the channel, by joining the waiters of the condition.                *)
BeginWait(t, s) ==
    /\ Ready(t) /\ LockFree
    /\ s \in issued /\ response[s] = "none"
    /\ waitset' = waitset \cup {t}
    /\ pc' = [pc EXCEPT ![t] = "wait"]
    /\ at' = [at EXCEPT ![t] = s]
    /\ UNCHANGED <<nextSeq, closed, sent, response, hooks, queue>>
    /\ UNCHANGED <<ppc, runner, peer, hist>>

(* A notified waiter looks again, and sleeps again if there is nothing.    *)
Recheck(t) ==
    /\ pc[t] = "wait" /\ t \notin waitset /\ LockFree
    /\ IF response[at[t]] = "none"
         THEN waitset' = waitset \cup {t} /\ UNCHANGED client
         ELSE /\ pc' = [pc EXCEPT ![t] = "idle"] /\ at' = [at EXCEPT ![t] = 0]
              /\ UNCHANGED waitset
    /\ UNCHANGED <<nextSeq, closed, sent, response, hooks, queue>>
    /\ UNCHANGED <<ppc, runner, peer, hist>>

NotSent(s)  == s \notin sent                \* faulty: popped is not yet answered
Answered(s) == response[s] # "none"

(* on_response: registers the handler, and queues it at once if there is a *)
(* response already; the handler thread may be gone by then.               *)
OnResponse(t, s) ==
    /\ Ready(t) /\ LockFree
    /\ s \in issued /\ nhooks < MaxHooks
    /\ nhooks' = nhooks + 1
    /\ hookOf' = [hookOf EXCEPT ![nhooks + 1] = s]
    /\ IF ~Answered(s)
         THEN /\ hooks' = [hooks EXCEPT ![s] = Append(@, nhooks + 1)]
              /\ UNCHANGED <<queue, waitset, hpc>>
         ELSE EnqueueResponse(s, Append(hooks[s], nhooks + 1))
    /\ UNCHANGED <<nextSeq, closed, sent, response, batch, issued, handled>>
    /\ UNCHANGED <<ppc, client, peer>>

(* close(): the channel and its stream; wakes nobody. *)
Close(t) ==
    /\ Ready(t) /\ LockFree
    /\ ~closed
    /\ closed' = TRUE
    /\ UNCHANGED <<nextSeq, sent, response, hooks, queue, waitset>>
    /\ UNCHANGED <<ppc, runner, client, peer, hist>>

(* wait(): joins the parser thread, then the handler thread it then finds, *)
(* if any; the second join returns when that thread quits (TakeBatch).     *)
BeginJoin(t) ==
    /\ t \in App /\ Ready(t) /\ ppc # "off"
    /\ pc' = [pc EXCEPT ![t] = "joinP"]
    /\ UNCHANGED <<chan, ppc, runner, at, peer, hist>>

JoinParser(t) ==
    /\ pc[t] = "joinP" /\ ppc \in Stopped
    /\ pc' = [pc EXCEPT ![t] = IF hpc = "absent" THEN "idle" ELSE "joinH"]
    /\ UNCHANGED <<chan, ppc, runner, at, peer, hist>>

JoinersReturn == pc' = [t \in Threads |-> IF pc[t] = "joinH" THEN "idle" ELSE pc[t]]

-----------------------------------------------------------------------------
(* The parser thread: _parse_incoming_messages.                            *)
InHand == Head(inbox)
Parsed == inbox' = Tail(inbox) /\ ppc' = "read"

(* read_json on an open stream.  A body that is not JSON, a bad header or  *)
(* a message without a valid "type" raises outside every `except` of the   *)
(* loop: the thread ends there, and nothing else happens.                  *)
Read ==
    /\ ppc = "read" /\ ~closed /\ inbox # <<>>
    /\ ppc' = IF InHand.kind = "malformed" THEN "crashed" ELSE "parse"
    /\ UNCHANGED <<chan, runner, client, peer, hist>>

(* Event._parse and Request._parse queue the handler. *)
ParseMessage ==
    /\ ppc = "parse" /\ InHand.kind = "message"
    /\ Enqueue(<<Unit("message", InHand.id)>>)
    /\ Parsed
    /\ UNCHANGED <<nextSeq, closed, sent, response, hooks, batch>>
    /\ UNCHANGED <<client, eof, arrived, hist>>

(* A message that lacks a required property is logged and skipped. *)
ParseInvalid ==
    /\ ppc = "parse" /\ InHand.kind = "invalid"
    /\ Parsed
    /\ UNCHANGED <<chan, runner, client, eof, arrived, hist>>

(* Response._parse, first section: the request is looked up by pop(). *)
Peek(s) == s \in Seqs /\ UNCHANGED sent         \* faulty: get() for pop()
Pop(s) == sent' = sent \ {s}

ParseResponse ==
    /\ ppc = "parse" /\ InHand.kind = "response"
    /\ Pop(InHand.id)
    /\ ppc' = IF InHand.id \in sent THEN "answer" ELSE "unknown"
    /\ UNCHANGED <<nextSeq, closed, response, hooks, queue, waitset>>
    /\ UNCHANGED <<runner, client, peer, hist>>

(* Response._parse, second section. *)
Answer ==
    /\ ppc = "answer"
    /\ response' = [response EXCEPT ![InHand.id] = "answered"]
    /\ EnqueueResponse(InHand.id, hooks[InHand.id])
    /\ Parsed
    /\ UNCHANGED <<nextSeq, closed, sent, batch, client, eof, arrived, hist>>

(* A response to no known request is given a request of its own, queued    *)
(* all the same, and then reported as invalid.                             *)
AnswerUnknown ==
    /\ ppc = "unknown"
    /\ Enqueue(ResponseUnits(InHand.id, <<>>))
    /\ Parsed
    /\ UNCHANGED <<nextSeq, closed, sent, response, hooks, batch>>
    /\ UNCHANGED <<client, eof, arrived, hist>>

(* NoMoreMessages: the other party closed its end, or the stream has been  *)
(* closed here, which makes the pending read fail.  The parser takes the   *)
(* lock and keeps it until it has finished.                                *)
EndOfStream ==
    /\ ppc = "read"
    /\ closed \/ (eof /\ inbox = <<>>)
    /\ ppc' = "closing"
    /\ UNCHANGED <<chan, runner, client, peer, hist>>

GiveUp(s) ==
    /\ ppc = "closing" /\ s \in sent
    /\ Pop(s)
    /\ response' = [response EXCEPT ![s] = "gone"]
    /\ EnqueueResponse(s, hooks[s])
    /\ UNCHANGED <<nextSeq, closed, ppc, batch, client, peer, hist>>

NoMatter == TRUE                            \* faulty: leaves before the last
AllAnswered == sent = {}

EndParser ==
    /\ ppc = "closing" /\ AllAnswered
    /\ Enqueue(<<Disconnect>>)
    /\ closed' = TRUE
    /\ ppc' = "stopped"
    /\ UNCHANGED <<nextSeq, sent, response, hooks, batch, client, peer, hist>>

-----------------------------------------------------------------------------
(* The handler thread: _run_handlers.                                      *)

SeesNothing == FALSE                        \* faulty: goes on for ever
SeesClosed  == closed

(* `closed` is read once a round; "join" and "drain" are where it was set. *)
ReadClosed ==
    /\ hpc = "check" /\ LockFree
    /\ hpc' = IF SeesClosed THEN "join" ELSE "take"
    /\ UNCHANGED <<chan, ppc, batch, client, peer, hist>>

JoinedParser ==
    /\ hpc = "join" /\ ppc \in Stopped
    /\ hpc' = "drain"
    /\ UNCHANGED <<chan, ppc, batch, client, peer, hist>>

(* The snapshot.  The thread sleeps at most once per round, does not look  *)
(* at the queue again before it goes on, and quits only if it saw the      *)
(* channel closed before it joined the parser.                             *)
SleepsAlways == hpc = "take"                \* faulty: without a look at the queue
Sleeps == hpc = "take" /\ queue = <<>>
QuitsAtOnce == hpc = "drain"                \* faulty: with work in the queue
Quits  == hpc = "drain" /\ queue = <<>>

TakeBatch ==
    /\ hpc \in {"take", "drain", "woken"} /\ LockFree
    /\ batch' = queue
    /\ queue' = <<>>
    /\ hpc' = CASE Sleeps -> "asleep" [] Quits -> "absent" [] OTHER -> "run"
    /\ IF Quits THEN JoinersReturn ELSE UNCHANGED pc
    /\ UNCHANGED <<nextSeq, closed, sent, response, hooks, waitset>>
    /\ UNCHANGED <<ppc, at, peer, hist>>

EndBatch ==
    /\ hpc = "run" /\ batch = <<>>
    /\ hpc' = "check"
    /\ UNCHANGED <<chan, ppc, batch, client, peer, hist>>

(* One handler.  The code means to skip events and requests once `closed`  *)
(* is set, but compares a bound method with a function, which never holds: *)
(* no unit is skipped.                                                     *)
BeginHandler ==
    /\ hpc = "run" /\ batch # <<>>
    /\ hpc' = "inside"
    /\ UNCHANGED <<chan, ppc, batch, client, peer, hist>>

EndHandler ==
    /\ hpc = "inside" /\ pc[H] = "idle"
    /\ handled' = Append(handled, Head(batch))
    /\ batch' = Tail(batch)
    /\ hpc' = "run"
    /\ UNCHANGED <<chan, ppc, client, peer, issued, hookOf, nhooks>>

(* An exception that is not a MessageHandlingError of the message closes   *)
(* the channel and ends the process, with all its threads.                 *)
HandlerFails ==
    /\ hpc = "inside" /\ pc[H] = "idle" /\ LockFree
    /\ closed' = TRUE
    /\ hpc' = "killed"
    /\ ppc' = IF ppc \in Stopped THEN ppc ELSE "killed"
    /\ pc' = [t \in Threads |-> "killed"]
    /\ waitset' = {}
    /\ UNCHANGED <<nextSeq, sent, response, hooks, queue, batch, at, peer, hist>>

-----------------------------------------------------------------------------
(* The other party.  What it sends after the local close is never read.    *)
PeerSends(m) ==
    /\ ~eof /\ ~closed /\ arrived < MaxIn
    /\ arrived' = arrived + 1
    /\ inbox' = Append(inbox, m)
    /\ UNCHANGED <<chan, ppc, runner, client, eof, hist>>

PeerMessage(k) ==
    \/ k = "message" /\ PeerSends([kind |-> k, id |-> arrived + 1])
    \/ k = "response" /\ \E s \in Seqs : PeerSends([kind |-> k, id |-> s])
    \/ k \in {"invalid", "malformed"} /\ PeerSends([kind |-> k, id |-> 0])

PeerCloses ==
    /\ ~eof
    /\ eof' = TRUE
    /\ UNCHANGED <<chan, ppc, runner, client, inbox, arrived, hist>>

-----------------------------------------------------------------------------
ClientStep(t) ==
    \/ \E k \in {"request", "event"} : BeginSend(t, k)
    \/ EndSend(t)
    \/ \E s \in Seqs : BeginWait(t, s) \/ OnResponse(t, s)
    \/ Recheck(t)
    \/ Close(t)
    \/ BeginJoin(t) \/ JoinParser(t)

ParserStep ==
    \/ Read \/ ParseMessage \/ ParseInvalid \/ ParseResponse
    \/ Answer \/ AnswerUnknown
    \/ EndOfStream \/ (\E s \in Seqs : GiveUp(s)) \/ EndParser

HandlerStep ==
    \/ ReadClosed \/ JoinedParser \/ TakeBatch \/ EndBatch
    \/ BeginHandler \/ EndHandler

Next ==
    \/ Start
    \/ \E t \in Threads : ClientStep(t)
    \/ ParserStep
    \/ HandlerStep
    \/ HandlerFails
    \/ \E k \in PeerKinds : PeerMessage(k)
    \/ PeerCloses

(* The operating system schedules every thread that can go on; handlers    *)
(* return once what they wait for has come.  Nothing is assumed of the     *)
(* other party, or of the threads that begin an operation.                 *)
Fairness ==
    /\ WF_vars(ParserStep)
    /\ WF_vars(HandlerStep)
    /\ \A t \in Threads : WF_vars(EndSend(t) \/ Recheck(t))
    /\ \A t \in App : WF_vars(JoinParser(t))

Spec == Init /\ [][Next]_vars
FairSpec == Spec /\ Fairness

-----------------------------------------------------------------------------
(* The properties. *)

Elems(q)  == {q[i] : i \in 1..Len(q)}
Backlog   == batch \o queue
Timeline  == handled \o Backlog          \* every unit ever queued, in order
Done(u)   == u \in Elems(handled)

(* A handler given to on_response() is in one place only - still attached  *)
(* to its request, or queued once - so it can be neither lost nor run      *)
(* twice, whichever of on_response() and the response comes first          *)
(* (_enqueue_response_handlers).                                           *)
HooksAccounted ==
    \A h \in 1..nhooks :
        LET attached == {i \in 1..Len(hooks[hookOf[h]]) : hooks[hookOf[h]][i] = h}
            queued   == {i \in 1..Len(Timeline) : Timeline[i] = Unit("hook", h)}
        IN  /\ Cardinality(attached) + Cardinality(queued) = 1
            /\ queued # {} => response[hookOf[h]] # "none"

(* Events and requests are handled in the order of arrival, and Disconnect *)
(* is the last message received (Disconnect): only responses that were     *)
(* already complete can produce work after it.                             *)
ReceivedInOrder ==
    \A i, j \in 1..Len(Timeline) :
        i < j /\ Timeline[i].kind \in {"message", "disconnect"}
        => /\ Timeline[j].kind # "disconnect" \/ Timeline[i].kind = "message"
           /\ Timeline[j].kind = "message" =>
                 Timeline[i].kind = "message" /\ Timeline[i].id < Timeline[j].id

(* Once the message loop has ended normally, no request that a caller got  *)
(* from send_request() is without a response, and none can become so: a    *)
(* send that races with the end of the loop either fails or is answered    *)
(* (_parse_incoming_messages, under the lock up to close()).               *)
NoRequestForgotten ==
    ppc = "stopped" => closed /\ \A s \in issued : response[s] # "none"

(* No wake-up is lost on _handlers_enqueued, which the handler thread and  *)
(* the waiters for responses share: nobody sleeps on what has come, and    *)
(* queued work always has a thread to run it.                              *)
NoLostWakeup ==
    /\ queue # <<>> => hpc \notin {"absent", "asleep"}
    /\ \A t \in waitset : pc[t] = "wait" /\ response[at[t]] = "none"

(* A response is set once: neither a second response of the other party    *)
(* with the same request_seq nor the dummy responses at the end of the     *)
(* loop replace it.                                                        *)
ResponseIsFinal ==
    [][\A s \in Seqs : response[s] # "none" => response'[s] = response[s]]_vars

(* wait() returns when the message loop has terminated and every handler   *)
(* queued by it has been executed (JsonMessageChannel.wait).               *)
Joining(t) == pc[t] \in {"joinP", "joinH"}
WaitDrains ==
    [][\A t \in App : Joining(t) /\ pc'[t] = "idle" /\ ppc = "stopped"
          => /\ Done(Disconnect)
             /\ \A u \in Elems(Backlog) : u.kind # "message"]_vars

(* When the connection ends, every thread that waits for a response goes   *)
(* on (wait_for_response), and wait() returns.                             *)
Exited == hpc = "killed"
Ended  == ppc # "off" /\ (closed \/ eof)
WaitersReturn ==
    /\ \A t \in Threads : (pc[t] = "wait" /\ Ended) ~> (pc[t] # "wait" \/ Exited)
    /\ \A t \in App : (Joining(t) /\ Ended) ~> (~Joining(t) \/ Exited)

(* When the connection ends, every registered response handler runs, and   *)
(* so does the disconnect handler (_run_handlers).                         *)
HooksRun ==
    /\ \A h \in Hooks : (h <= nhooks /\ Ended) ~> (Done(Unit("hook", h)) \/ Exited)
    /\ Ended ~> (Done(Disconnect) \/ Exited)

(* The channel keeps the promise of RequestLifecycle to its callers. *)
Link == CASE ppc = "closing" -> "lost" [] ppc = "stopped" -> "over" [] OTHER -> "open"
Phase == [s \in Seqs |-> IF s \notin issued THEN "unissued"
                         ELSE IF response[s] = "none" THEN "pending" ELSE response[s]]
HookState == [h \in Hooks |-> IF h > nhooks THEN "unused"
                              ELSE IF Done(Unit("hook", h)) THEN "done" ELSE "attached"]
Promise == INSTANCE RequestLifecycle WITH
    link <- Link, phase <- Phase, hook <- HookState, owner <- hookOf
KeepsPromise == Promise!Spec

(* What the documentation says and the code does not do. *)

(* "No new request or event handlers will execute after this method is     *)
(* called, even for messages that have already been received" (close).     *)
NoNewHandlersAfterClose ==
    [][closed /\ hpc # "inside" /\ hpc' = "inside" => Head(batch).kind # "message"]_vars

(* "It's always the last message received from any channel" (Disconnect):  *)
(* the message loop never ends without it.                                 *)
DisconnectIsLast == ppc \in Stopped => Disconnect \in Elems(Timeline)
=============================================================================
