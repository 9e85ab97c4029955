# A TLA+ model of ptvsd

ptvsd is a debug adapter for Python. An IDE speaks the Debug Adapter Protocol
(DAP) to the *adapter*, the adapter speaks it to the *debug servers* (one in
each debugged process) and, if it started the process itself, to the
*launcher*. All of them use one message library, `src/ptvsd/common/messaging.py`,
in which every connection has its own parser thread and its own handler thread.

What goes wrong in such a program goes wrong between threads: a response that
arrives while its caller gives up, a server that leaves while it is being
registered, two threads that share one event. The modules here model that part
of the code, action by action; TLC checks them on small instances, and the
TLA+ proof system proves their safety properties for any number of threads,
messages, connections, sessions and subprocesses.

Paths below are relative to the repository (`src/ptvsd/...`).

## 1. The system

### Parts

**Message stream** (`JsonIOStream`, `MessageDict` in `common/messaging.py`).
State: the reader, the writer, the cleanup and the `_closed` flag. Operations:
`read_json`, `write_json`, `close`. Turns a byte stream into framed JSON
messages. Hard: end of stream in the middle of a message, partial writes,
closing while another thread reads. Correct if what one end writes is what the
other reads, whole and in order, or the end of the stream is reported, as long
as no write has failed in the middle of a message.

**Message channel** (`JsonMessageChannel`, `OutgoingRequest`, `Response`,
`Disconnect` in `common/messaging.py`). State: sequence counter, sent requests,
queue of handlers, handler thread, `_closed`, the condition
`_handlers_enqueued` that shares the channel lock. Operations: `start`,
`send_event`, `send_request`, `wait_for_response`, `on_response`, `close`,
`wait`; the parser loop; the handler loop. Application threads, parser and
handler thread share all of it. Hard: responses that race with waiters, with
registration of response handlers and with the end of the connection; the
handler thread that comes and goes; one condition for all waiters. Correct if
every request that was sent gets one response, every waiter returns, every
response handler runs once and after the response, messages are handled in the
order of arrival, and `wait()` returns when all has been handled.

**Request handling** (`Request`, `Message.error`, `MessageHandlingError` in
`common/messaging.py`; `Component.message_handler` in `adapter/components.py`).
State: the response of each request. Operations: what a handler can do (return
a body, respond itself and return `None`, return `NO_RESPONSE` and respond
later, raise its own error, another request's, any other exception) and what
the loop does with it. Hard: an error has an identity; errors are sent when they are created;
the connection can be lost at any write; an exception that the loop does not
expect ends the process. Correct if every request is answered once and a
documented handler never ends the process.

**Debug servers** (`adapter/servers.py`). State: `_connections`, the event
`_connections_changed`, the module lock; for each connection its channel, its
`Server` component and `disconnected`. Operations: accept and register,
`wait_for_connection`, `attach_to_session`, `detach_from_session`, the two
`disconnect` handlers, `wait_until_disconnected`. Hard: an accept thread,
channel threads, IDE threads, timers and the main thread meet in one list, one
event and two kinds of locks. Correct if the list holds live connections, a
server belongs to one session, nobody waits for what has happened, and no two
threads wait for each other.

**Sessions** (`adapter/sessions.py`). State: registry `_sessions`, the event
`_sessions_changed`, for each session its components, its lock, its observers,
`is_finalizing`. Operations: `register`, `notify_changed`, `wait_for`,
`finalize`, `wait_until_ended`. Correct if a session is registered while a component of
it is connected, ends when the last one has gone, and `finalize` runs once.

**IDE component** (`adapter/ide.py`). Handlers for the requests of the IDE.
State: `is_connected`, capabilities, start request, deferred events, known
subprocesses. Hard: the long sequence initialize / launch or attach /
configurationDone, interleaved with events of the server; subprocesses that
connect at any time.

**Launcher component** (`adapter/launchers.py`) and **launcher process**
(`launcher/`). The adapter starts the launcher in a terminal; the launcher
connects back, starts the debuggee, reports its exit code and kills it on
request. Hard: timeouts at every step of `spawn_debuggee`; the debuggee, the
launcher and the adapter can each end first.

**pydevd** (`_vendored/pydevd/`), the debugger engine in the debuggee, is
developed in another repository; the adapter turns on one of its modes,
`multiThreadsSingleNotification` (`adapter/ide.py:220`), in which all threads
are suspended and resumed together and each is notified once. State: of every
thread, `pydev_state`, `stop_reason` and the step command; the times, flag and
set of `AbstractSingleNotificationBehavior`; the callbacks that answer
"continue". Operations: hitting a breakpoint, ending a step, waiting, pausing,
continuing, stepping, "set next statement", the timer of a pause. Hard: threads stop at the same time
and mark each other without a lock; they leave their wait one by one while
others stop again. Correct if the IDE is always told in the end whether the
threads are suspended.

**Server API, command lines, injection, JSON validators, sockets, logging,
compatibility, entry points**: sequential code with little or no protocol state.

### Interaction

The channel calls handlers of the components on its handler thread; the
components lock their session (`@message_handler`), call other components'
channels (`delegate`, `send_request`) and, through `Observable`, notify the
session of every assignment. Connections, sessions and the main thread share
two module-level events. The lock order is session, then `servers._lock` -
with one exception, which a run below shows to deadlock.

## 2. Modules

| Module | Models | Composed with |
| --- | --- | --- |
| `MessageChannel` | one end of a channel, all its threads | refines `RequestLifecycle` |
| `RequestLifecycle` | what a channel promises to those who send requests | - |
| `MessageChannel_proofs` | theorems about requests, responses, wake-ups, the queue of handlers, and the refinement | extends `MessageChannel` |
| `RequestHandling` | the life of incoming requests under any handler | - |
| `RequestHandling_proofs` | theorems about `RequestHandling` | extends it |
| `AdapterServers` | debug servers, session registry, attach, end of the adapter | - |
| `AdapterServers_proofs` | theorems about `AdapterServers` | extends it |
| `DebuggeeLifecycle` | a "launch" session in the adapter, the launcher and the debuggee | - |
| `DebuggeeLifecycle_proofs` | theorems about `DebuggeeLifecycle` | extends it |
| `StartSequence` | how a session starts: the IDE's requests in any order, deferred events, subprocesses | refines `EventRelay` |
| `StartSequence_proofs` | theorems about `StartSequence` | extends it |
| `EventRelay` | what the adapter promises about the events of the debuggee | - |
| `JsonStream` | one direction of a connection: framing over partial writes and reads | - |
| `JsonStream_proofs` | theorems about `JsonStream` | extends it |
| `ThreadSuspension` | how pydevd suspends all threads and notifies once | - |
| `ThreadSuspension_proofs` | theorems about `ThreadSuspension` | extends it |
| `SequenceLemmas` | what the operators on lists return: removal, least place, places of a concatenation | used by the proofs |
| `MC...` | symmetry sets for TLC | extend the module of that name |

### MessageChannel

One action is one section of code between two points where another thread can
intervene: one section under the channel lock, one read of the stream, one
unlocked read of `_closed`.

| State | Code |
| --- | --- |
| `nextSeq`, `sent`, `closed` | `_seq_iter`, `_sent_requests`, `_closed` (channel and stream) |
| `response`, `hooks` | `OutgoingRequest.response`, `_response_handlers` |
| `queue`, `waitset` | `_handler_queue`, the threads asleep on `_handlers_enqueued` |
| `ppc` | the parser thread, and whether it has the lock (`"closing"`) |
| `hpc`, `batch` | the handler thread, and the queue it took |
| `pc`, `at` | each client thread, and the request it works on |
| `inbox`, `eof`, `arrived` | the stream and the other party |
| `issued`, `hookOf`, `nhooks`, `handled` | history, used by properties and bounds |

Actions: `BeginSend`/`EndSend` (the two locked sections of `_send_message`),
`BeginWait`/`Recheck` (`wait_for_response`), `OnResponse`, `Close`,
`BeginJoin`/`JoinParser` (`wait`); `Read`, `ParseMessage`, `ParseInvalid`,
`ParseResponse`/`Answer`/`AnswerUnknown` (the sections of `Response._parse`),
`EndOfStream`/`GiveUp`/`EndParser` (the end of the loop, in which the lock is
kept); `ReadClosed`, `JoinedParser`, `TakeBatch`, `EndBatch`, `BeginHandler`,
`EndHandler`, `HandlerFails` (`_run_handlers`); `PeerMessage`, `PeerCloses`.
While a handler runs, the handler thread `H` is a client like any application
thread, so handlers send, wait, register and close in every order.

Abstracted: what messages say. A message is a kind and a number, where the
number of a response names the request it answers. `"invalid"` is a message
that fails validation, which is skipped; `"malformed"` is one that ends the
parser thread with an exception. Nested `run_handlers` closures are the
sequence of units they run. `Link`, `Phase` and `HookState` are the state of
`RequestLifecycle`, read off the channel's: the refinement mapping.

### RequestHandling

`cur` is the request in hand, `at` the code it is in (the handler's body, the
decorator, `Request._handle` after the handler), `value` the result or the exception in flight,
`response` and `deferred` what the requests carry, `out` what was written.
`Statements` says which statements handlers consist of, `Decorated` whether
they are under `Component.message_handler`, `Unreliable` whether the connection
can be lost. A handler is any sequence of statements.

### AdapterServers

`listed`, `flag`/`asleep`, `lock` are `_connections`, `_connections_changed`
and `servers._lock`; `registered`, `sflag` those of `sessions`; `accept`, `mpc`,
`timers` the accept thread, the main thread and the timers of
`wait_for_connection`; `conn` and `sess` are a record per connection and per
session, with the program counter of its thread in `pc`.
`servers._lock` is held across steps in one place only (`lock = c`), where the
code calls `Server.disconnect()` with the lock held; sections that do not call
out are one step. Session locks are held across the steps of a handler, and in
particular across its requests to the debug server (`Asks`): those that follow
the attach, those that the IDE's requests are delegated to (`DelegateRequest`)
and the "disconnect" of `finalize()`. No timeout bounds them; each ends with an
answer (`RequestAnswered`) or with the connection (`RequestLost`), and the
server owes no answer.
A handler that fails with its request answered ends the process
(`AttachFails`), as `RequestHandling` shows it does.
The Server whose `disconnect()` runs is kept with its connection (`owner`),
since the connection may have been given to another session meanwhile. In that
corner - a second session attaches a connection whose former Server is already
in its `disconnect()` handler - the new session is never told that its server
has gone; `SessionsEnd` is checked with one session, where it cannot happen.

### DebuggeeLifecycle

| State | Code |
| --- | --- |
| `adapter` | the adapter process is alive |
| `ide`, `lch`, `srv` | the three components of the session: `is_connected`, `Launcher.pid` and `exit_code`, whether the launcher channel is closed; `ide.pc` is where the "launch" handler is |
| `fin` | `Session.finalize`: its step, the component on whose thread it runs, `terminate_debuggee` |
| `told` | "exited" and "terminated" as sent to the IDE |
| `toLch`, `toAdp`, `reply` | the connection between adapter and launcher |
| `lp` | the launcher process: its handler thread (`pc`), the thread of `wait_for_exit` (`wt`), `wait_on_exit_predicates` (`hold`) |
| `deb`, `pipe`, `dbg` | `debuggee.process`; a subprocess that inherited its output; its connection to the adapter |

A handler of the adapter is one step under the lock of the session, except for
"launch" and `finalize()`, which make requests with the session locked and let
go of it only in `wait_for()`; `Unlocked` and `Handles` say who may run.
A request to the debug server (`DelegateRequest`, the end of "launch", the
"disconnect" of `finalize()`) keeps the session until it is answered, if ever
(`ServerSilent`), and so does "runInTerminal" (`IdeSilent`).
Timeouts may expire whenever what they wait for has not happened. A write of
the launcher to an adapter that has gone may succeed or fail; if it fails in a
request handler, `os._exit()` ends the launcher without its exit handlers
(`pc = "died"`). The messages of the channel are whole and ordered here; what
`MessageChannel` shows about `close()` is included: events received before it
are still handled.

### StartSequence

| State | Code |
| --- | --- |
| `ide`, `initReq`, `start` | the handler of the IDE's request that runs, `_initialize_request`, `start_request` and whether it is answered |
| `deferred` | `_deferred_events`, kept until the response to the start request |
| `launcher`, `srv` | the two other components of the session, and `launcher.pid` |
| `conns`, `at`, `debugged` | `servers._connections` without the root process; where the accept thread is with each process; subprocesses that have a session |
| `known` | `_known_subprocesses` |
| `listing` | the connections that the loop of "configurationDone" has still to look at: the snapshot that `servers.connections()` returned |
| `told`, `handled` | what the IDE was sent; history of the events handled |

A handler keeps the session locked through its requests to launcher and server
and lets go of it only in `wait_for()`; its pieces between two such points are
the steps here, with their place in `ide.pc` (`Unlocked` says where the lock is
free). Handlers of events, and the accept thread in `notify_of_subprocess`,
need the lock. A request to the debug server keeps the session locked until the
server answers, which it may never do (`Unbounded`); the requests without a
handler of their own are `DelegateRequest`. The accept thread constructs one
connection after the other, the one of the root process as those of its
subprocesses: each is listed and then looked up, without a lock
(`FindParent`), and then reported with the session locked (`Notify`). A server
that does not tell its ppid (`Orphans`) has a session without a pid for its
parent, because `sessions.get(None)` matches it (`ParentFound`): the root process
can so be found to be a subprocess of the session that is about to attach to
it. Attaches by `"processId"` (`ide.byPid`) have no subprocesses reported, as
`notify_of_subprocess` looks for it in the arguments of the start request.
The root process stays until it is attached to. Otherwise an "attach" with
"waitForAttach" could wait for it with the session locked while the accept
thread, which would have to let it in again, waits for that lock.
`AdapterServers` has the contest for servers that is one step here
(`ServerTaken`), `DebuggeeLifecycle` the end of the session (`SessionEnds`).

### JsonStream

`writer`, `wire`, `reader` are `write_json`, the bytes under way and
`read_json`. A message is a number and the length of its body; its encoding is
a header text (place 1), two line ends (2 and 3) and the units of the body, so
that every cut of it that the code can tell apart is a cut of units. `Write`
takes any part of what is left, as `writer.write()` may; `WriteFails` drops the
rest and leaves the stream open (`torn` if the message was begun). `ReadEnd` is
what the reader makes of the end: nothing more at the start of a line, an error
in a body, and an endless loop inside a header line (`Spins`).

The reader counts what is missing of a body and looks at nothing else. So after
a torn message it takes the header and the body of the next one for the rest of
the body (`Swallows`), and if the stream ends there, or nothing more is written,
the messages swallowed are lost without an error. `ReadAsWritten` says what holds
nevertheless: nothing is returned that was not written, and nothing is left out
between two messages that are returned.

### ThreadSuspension

| State | Code |
| --- | --- |
| `state`, `reason`, `stepping` | `pydev_state`, `stop_reason`, `pydev_step_cmd` of each thread |
| `pc`, `why`, `marking` | where each thread is between `trace_dispatch`, `set_suspend` and `do_wait_suspend`, with its local stop reason and the threads it has still to mark |
| `queued`, `reader`, `asked` | step commands posted; the command that the reader thread handles; requests so far |
| `time`, `suspendTime`, `resumeTime`, `suspended`, `pausing` | the fields of `AbstractSingleNotificationBehavior` (the two last times start at 0, one more than in the code) |
| `timers`, `awaited` | `_notify_after_timeout` threads; the "continue" (`_callbacks`) or "goto" that a thread has still to answer |
| `told`, `paused` | history: the notifications, the last pause |

The sections under `_lock` are one step. `set_suspend` marks one thread per step,
in any order after itself; marking one thread (`_mark_suspend`) and running one
(`internal_run_thread`), four assignments each, are steps of their own, which
leaves out only interleavings inside these. The reader thread handles a command
with `_main_lock` held; a thread needs that lock when it enters its wait and
processes its commands (`EnterWait`), and each time around the wait
(`MainLockFree`), but not to read its stop reason in between (`ReadReason`). The adapter sends one request after the other and waits for the
answer, which for "continue" and "goto" a thread gives later (`ide.py:116-119`,
`384-393`). Where a thread stops is up to the
program: a breakpoint anywhere, the end of a step whenever a step command is
set; a "set next statement" works or fails. Left out: conditions and log points,
exceptions, threads that start or end, coroutines.

## 3. Runs

Bounds are constants of the module: `MaxSeq` (messages sent through
`_send_message`), `MaxIn` (messages received), `MaxHooks` (response handlers
registered), `PeerKinds` (kinds of messages received); `MaxRequests`,
`MaxErrors`; `MaxAttach` (attach requests of each IDE) and `Waits` (timeouts
they ask for); `MaxLaunch` ("launch" requests of the IDE); `MaxEvents`,
`MaxRequests` of `StartSequence` (events of each source, attempts to initialize
and to start); `MaxSend` (calls of `write_json`); `MaxTime` and `MaxRequests` of
`ThreadSuspension` (calls of `increment_suspend_time` and one, requests of the IDE). Every bound is a
guard of the action that would exceed it, so nothing is cut off in
mid-operation.

| Run | Question | Result |
| --- | --- | --- |
| `ChannelTwoClients` | two application threads that send twice, register two response handlers, wait and join, while a response, a malformed message or the end of the stream arrives: no lost wake-up, each handler once and after its response, `wait()` drains, the channel implements `RequestLifecycle` | holds |
| `ChannelLiveness` | one application thread and a handler thread, two messages received, valid or not: order of handling, no forgotten request, final responses; when the connection ends, waiters return, handlers run, the disconnect handler runs, `wait()` returns | holds |
| `RequestLostChannel` | decorated handlers that do anything, on a connection that may be lost: answered at most once, not dropped, failures reported as failures | holds |
| `RequestDecorated` | handlers that keep to the documented contract, under the decorator: process survives | violated |
| `ServersSafety` | two IDEs contend for a server that comes and goes, with a timeout: it goes to one of them, and the registry of sessions stays true | holds |
| `ServersLiveness` | two servers, which may stay silent, and one IDE: only live servers stay listed, servers that have gone are delisted, a session ends after its IDE has left if its server answers or leaves, the main thread returns when the last session has ended | holds |
| `ServersDeadlock` | a disconnecting connection gets to clean up | violated |
| `Lifecycle` | a launch session whose IDE, adapter, launcher, debuggee and debug server may each end first: order of the final events, no debuggee survives, none is killed without cause, `finalize()` returns and the session ends if the debug server answers or leaves | holds |
| `Start` | an IDE that sends its requests in any order, events of launcher and server, two subprocesses: events are relayed as `EventRelay` says, responses come in order, no process is reported twice; debug servers may stay silent: unless a handler keeps the session for ever, subprocesses are reported and the accept thread goes on | holds |
| `Stream` | three messages of three lengths, one long enough to swallow another, one longer than the reader accepts, cut anywhere, with failing writes, closing and reset: what is read is what was written, an error has a cause, the end is seen | holds |
| `Suspension` | two threads that hit breakpoints and step while the IDE pauses, continues, steps and jumps: no stop that is over is left with the IDE, no more stops than requests for them, a pause is reported | holds |
| `StopUnreported` | when all threads wait, the IDE has been told of a stop | violated |

Why the bounds are enough. The channel's code treats requests independently,
apart from the queue, the lock and the condition; two requests by two threads
are enough for every pair of them to interleave, two received messages for an
order, two response handlers for one before and one after the response, two
client threads for a waiter that is woken by the other's event. The invariants
proved in section 5 need no bound. In `RequestHandling`, requests interact only
through deferred responses and errors about another request. In
`AdapterServers`, two connections give `wait_for_connection` a choice, two
sessions a contest for one connection. `DebuggeeLifecycle` has one session and
one debuggee, as `launch_request` insists on, and its only bound is the number
of attempts: the second one can only follow a launcher that did not connect.
In `StartSequence` two subprocesses are the least for the accept thread to be
held up by one while the other registers, one event of each source for an order
between them, two requests for "initialize" and an attempt to start: an attempt
that fails ends the process, or can be repeated only if no launcher was started,
and the theorems of section 5 hold of any number of attempts. The root
process does not tell its ppid, so that it is sometimes taken for a
subprocess of its own session. `Stream` has bodies of one unit, of more than the whole of a
short message (with fewer than five units, none can be swallowed without an
error), and of more than `MaxBody`, and three messages for a damaged one in the
middle. In `Suspension`
two threads can stop together, three times in all, with two requests, for
instance two pauses with their timers; the theorems of section 5 need no bound.

Symmetry is used over application threads, connections and sessions, in runs
without liveness properties. Deadlock checking is off in every run, because a
terminated channel, an idle adapter and a dead process are legitimate ends; the
liveness runs are what excludes the others.

## 4. Fairness

The operating system schedules every thread that can go on: weak fairness of
the parser thread, of the handler thread, of each client in mid-operation, of
the accept, connection, IDE and main threads. Timers fire, as time passes.
Handlers return, once what they wait for has come. Nothing is assumed of the
other party, of debug servers or of IDEs: they may stay silent for ever.

That matters, because the adapter waits for them without a timeout and with the
session locked: for the debug server after the attach (`ide.py:178-223`), in
"configurationDone", in every delegated request (`ide.py:116-119`) and in
`finalize()` itself (`sessions.py:229`); for the IDE in "runInTerminal". A debug
server that is connected and silent keeps the session, and then the
accept thread, for ever, and `finalize()` does not return. So no such step is
fair, and the properties that depend on them are implications: `SessionsEnd`,
`SessionEnds`, `ChildReported` and `AcceptThreadReturns` hold of behaviours in
which, again and again, no handler is inside such a request (`[]<>~Asks(s)`,
`[]<>~ServerAsked`, `[]<>~Unbounded`), that is, each request ends in the end. A
request does end, and this is fair, once the connection that it was sent on is lost
(`RequestLost`; `ServerSilent` and `Unbounded` are false then). The handshake of
`Connection.__init__` waits for the server likewise, with no lock held, and is
fair only after the loss of the connection (`HandshakeLost`); the accept thread
then listens to no other server meanwhile. The launcher is different: it is a
part of ptvsd, and `DebuggeeLifecycle` has its handlers, which always answer or
die; so it is assumed to answer in `StartSequence`. The user's key press and
the end of a subprocess that holds the output, both of which the code awaits
without a timeout, are assumed in `DebuggeeLifecycle`, and that an exited
debuggee loses its connections.

In `StartSequence` the
accept thread gets the lock of a session that is free again and again (strong
fairness of `Notify`: Python's locks are handed to waiters in no fixed order,
but none is passed over for ever). In `ThreadSuspension` threads go on inside the
debugger, the reader handles what it has read and timers end; that the program
reaches a line is not assumed. Nothing forces an
application thread to begin an operation. Locks are not starved, because a
section that needs a lock is one step which is disabled only while another
thread holds the lock across steps; where such a wait never ends, the model
shows the deadlock (`ServersDeadlock`), and the liveness properties are stated
short of it (`Over`).

## 5. Proofs

Each proof module proves its theorems for every value of the constants, from
nothing but the assumptions that the model names: the bounds are natural
numbers (`ChannelConstants`, `SuspensionConstants`, `StartConstants`, ...), the
handler thread is not an application thread, and the value for "none" is no
connection and no session.

| Module | Theorem | States |
| --- | --- | --- |
| `MessageChannel_proofs` | `TypeCorrect` | `Spec => []TypeOK` |
| | `TypeInvariant` | also, that what a thread takes from the stream, its batch or its registers is there (`TypeInv`) |
| | `NothingForgotten` | `Spec => []NoRequestForgotten` |
| | `NoWakeupIsLost` | `Spec => []NoLostWakeup` |
| | `ResponsesAreFinal` | `Spec => ResponseIsFinal` |
| | `HandledInOrder` | `Spec => []ReceivedInOrder` |
| | `HooksKeepPlaces` | `Spec => []HooksAccounted` |
| | `WaitsForHandlers` | `Spec => WaitDrains` |
| | `PromiseKept` | `Spec => KeepsPromise`: the channel implements `RequestLifecycle` |
| `RequestHandling_proofs` | `Typing` | `Spec => []TypeOK` |
| | `AnswersOnce` | `Spec => []AnsweredOnce` |
| | `DropsNone` | `Spec => []NoneDropped` |
| | `ReportsFailures` | `Spec => []FailureReported` |
| `JsonStream_proofs` | `TypeCorrect` | `Spec => []TypeOK` |
| | `InvariantHolds` | `Spec => []IInv`, which implies the next two |
| | `ReadsAsWritten` | `Spec => []ReadAsWritten` |
| | `ErrorsHaveCause` | `Spec => []ErrorHasCause` |
| `AdapterServers_proofs` | `Typing` | `Spec => []TypeOK` |
| | `Registration` | `Spec => []RegisteredWhileConnected` |
| | `Attachment` | `Spec => []OneServerEach` |
| | `Listing` | `Spec => []ListedAreLive` |
| `DebuggeeLifecycle_proofs` | `Typing` | `Spec => []TypeOK` |
| | `OrderOfEvents` | `Spec => []EventsInOrder` |
| | `NoSurvivor` | `Spec => []NoneSurvives` |
| | `OnPurpose` | `Spec => KilledOnPurpose` |
| `StartSequence_proofs` | `Typing` | `Spec => []TypeOK` |
| | `ResponsesThenEvents` | `Spec => []ResponsesInOrder` |
| | `ReportsOnce` | `Spec => []ChildReportedOnce` |
| | `RelaysEvents` | `Spec => EventsRelayed`: the session implements `EventRelay` |
| `ThreadSuspension_proofs` | `TypeCorrect` | `Spec => []TypeOK` |
| | `ReportCorrect` | `Spec => []NotifiedInTurn`, which implies the next two |
| | `NoStopIsLeft` | `Spec => []NoneLeftStopped` |
| | `ContinuesOnce` | `Spec => []ContinuedOnce` |
| | `StopsAreRequested` | `Spec => []OneStopPerRequest` |

Every invariant below was checked by TLC on the constants of a run before it was
proved.

### MessageChannel

*Types.* `TypeOK` is not inductive: `Answer` takes the head of `inbox`, which
must be there and must name a request that exists. `InHandInv` adds this; a
step of the other party keeps it because it only appends.

*Forgotten requests.* `NoRequestForgotten` speaks of the end of the loop only.
The inductive invariant (`ForgetInv`) says that at any time an unanswered request
is in `sent` or in the parser's hand, and that once the loop has ended `sent`
holds only requests whose send has failed. It works because the end of the
loop keeps the lock from the last `GiveUp` to `close()`, so that a send that
comes later finds the channel closed.

*Wake-ups.* `NoLostWakeup` is inductive with `TypeInv`: a step that queues work
or answers a request wakes every sleeper, and a thread goes to sleep in the same
locked section in which it found nothing.

*Final responses.* The invariant (`FreshInv`) is about sequence numbers: one
not drawn yet is fresh, two threads never send the same, and a request that has
left `sent` is answered or in the parser's hand, and never returns. So the
second response with the same number finds no request.

*The queue of handlers.* The argument is about one sequence, `Timeline`: what
has been handled, then the batch, then the queue. A step either leaves it alone
- taking a batch, or ending a handler, only moves the border between its parts -
or appends to it, and the lemmas on these two cases carry all three
invariants. `BatchInv` says that only a thread that runs handlers has a batch.
For the order (`OrderInv`) the invariant includes what is still on the wire,
which was sent after all that has been queued, and that `Disconnect` is in the
timeline exactly when the message loop has ended. For the response handlers
(`HookInv`) it says where each is: attached to its request, if it is not in the
timeline, and there once, behind the response.

*The refinement.* `PromiseInv` gathers what the steps need of the invariants
above. Each action of the channel is one of `RequestLifecycle` (a send issues a
request, a parsed response or `GiveUp` answers it, `on_response` attaches a
handler, `EndHandler` of a response handler runs it, the end of the loop closes
the link), or leaves `Link`, `Phase` and `HookState` alone.

### RequestHandling

`IInv` relates three records of the same thing: the responses that requests
carry, what was written to the channel, and the place of the code in the handling
of the request in hand. `RecordInv` says that the first two agree, `SettledInv`
that every request whose handler is done is answered or deferred. The proof follows a
value from where it is returned or raised to where the loop deals with it,
under any set of statements, decorated or not, with the channel lost at any
write.

### JsonStream

`ReadAsWritten` speaks of three histories and says nothing of the units under way,
so it is far from inductive. `StreamInv` follows the units instead, without cutting
the wire into messages, which would be an induction over data: each unit
`Follows` its neighbour, as the next of the same message, or as the first of a
later one if the message before is at its end or a write was torn. The chain
begins at the unit that was read last, which the state of the reader shows
(`HasRead`), and goes on to the one that is written next (`WriterOrder`). Reading
k units of a body then either takes the next k of its message, or meets the
first unit of another, which is what `Swallows` means (`Run`, by the least place
at which the chain leaves the message). `Ending` are the messages whose last
unit is on the wire, or in a body not decoded yet; they are the messages written
and not returned (`After`), so that the body that is complete is the next of
them (`NextOwed`), and that none is left when nothing is on the wire. Once a body
swallows, `BodyInv` is what remains: it is equal to no body that was written.

### AdapterServers

`IInv` joins four invariants that need each other. `BusyInv`: an IDE that waits for a
server has its session locked and no server yet, and one that is inside a
request has its session locked. `OwnerInv`: the Server whose
`disconnect()` runs is the one that its connection belongs to, or its session
is being finalized by someone else. `FreshInv`: a connection that is not listed
yet belongs to no one, and one that an "attach" has found stays listed until it
disconnects. With `OwnerInv` a detached session has no server left, with
`FreshInv` no connection is appended twice or removed before it was listed. Each
step changes the record of one connection, of one session, or of one of each, and
the lemmas `One...` reduce the invariants to these. What `list.remove` and the
search of `wait_for_connection` return is proved in `SequenceLemmas`.

### DebuggeeLifecycle

The parts of `IInv` are named for what they are about: the launcher process and
the debuggee (`ProcessInv`), the launcher's connection (`LauncherInv`), the steps
of `finalize()` (`PhaseInv`), the one request that may be on its way
(`RequestInv`) and the events (`EventInv`). "exited" cannot follow "terminated",
because `finalize()` reaches its end only without a launcher, and a launcher
that is gone has had its last event handled. `KilledOnPurpose` is an action
property and follows from `RequestInv`: a launcher that is asked to terminate
was asked by `finalize()`.

### StartSequence

`ControlInv` keeps the handler of the IDE, the start request and what was
started for it together: a session that has started, or waits for
"configurationDone", has a launcher or a server, so it is not started again.
`SentInv` ties them to what the IDE has been sent, and with it each message
that is sent keeps `OrderInv`; what a concatenation of messages has, and in which order, is
`ConcatMessages`. `ChildInv`: a subprocess is known before it is reported, and
one that the accept thread is about to report has not been reported, so that
the loop of "configurationDone", which looks at the same set, passes it over.

*The refinement.* What `EventRelay` calls `delivered` is `EventsOf(told)`: the
messages at the places of events, by the rank of each place. To reason about it
without induction over the list, the relation `Lists(q, es)` says that an
increasing function numbers the places of the events of `q`, which are `es`;
it determines `EventsOf(q)` (`EventsAreListed`, a count by bijection), and two
lists that are joined have the events of both (`ListsConcat`). `RelayInv` is then
that `told` lists what was handled once the start request is answered and
nothing before, while `_deferred_events` keeps it all. A step that
appends other messages keeps it, an event is appended to both sides or to what
is kept, and the answer that opens the gate sends what was kept. So each
step handles an event, opens the gate, or is a stutter of `EventRelay`.

### ThreadSuspension

*Suspension.* What the IDE was told last is a matter of history; the two times are
what the code keeps of it. `NotifiedInTurn` says that the last notification is
a "stopped" exactly when `resumeTime < suspendTime`. It needs
`NoneLeftStopped` in the same invariant: a thread that leaves decides by the times
whether to notify, and the last one to leave must leave them equal. For types,
`TypeInv` adds that a timer holds a time that has been reached.

*Stops.* A stop is told at a later time than the one before it, so the last time
that was notified bounds their number (`StopsCounted`). The first one needs that
no thread waits before some thread or the reader has advanced the time
(`TimesInv`).

### What stays with TLC

Liveness is out of the prover's reach: `WaitersReturn`, `HooksRun`,
`SessionsEnd`, `GoneAreRemoved`, `SessionEnds`, `DebuggeeFollows`,
`ChildReported`, `AcceptThreadReturns`, `AllRead`, `PauseReported`. Every other
property that a passing run checks is a theorem. The well-ordering of
the natural numbers is available (`WFMin`, used in `SequenceLemmas`), induction
over data with an operator parameter is not.

## 6. Where the code and its documentation disagree

Each of these is a run that TLC refutes, with the quoted line in `PROJECT.json`.

* A decorated handler that raises `request.isnt_valid(...)` or
  `cant_handle(...)` ends the process, because the decorator replaces the error
  that was sent by a new one (`RequestDecorated`).
* `Connection.disconnect()` takes the session lock with `servers._lock` held, the
  IDE's handlers do the opposite (`ServersDeadlock`).
* Two threads that hit breakpoints together overwrite each other's stop reason
  with the one of a thread that was only marked, which is not reported: both
  wait, and the IDE believes that they run (`StopUnreported`).

Seen in the models, without a run of their own. Where a name is given, the
module defines the property, and TLC refutes it with the constants of a run of
that module, or with those given:

* `close()` does not stop events and requests: the queue holds bound methods,
  which are compared with functions, and `_closed` is read once per batch
  (`NoNewHandlersAfterClose` in `MessageChannel`).
* A message that is not valid JSON or has no valid `"type"` ends the parser
  thread without `Disconnect`: waiters wait for ever (`DisconnectIsLast`,
  with `"malformed"` in `PeerKinds`).
* `_connections_changed` is cleared by whoever wakes first: the main thread can
  take it from an "attach", which then sleeps through the connection it waits
  for, and without a timeout for ever. The docstring promises that it "waits until
  there is a server with the specified PID connected to this adapter, and returns
  the corresponding Connection" (`servers.py:362`; `FindsConnection` in
  `AdapterServers`, with one connection, one session and `Waits = {"forever"}`
  under `FairSpec`).
* If the launcher cannot spawn the debuggee, `finalize()` waits for ever for a
  launcher that has no reason to disconnect, and the "disconnect" request of
  the IDE is not answered (`AlwaysFinalizes` in `DebuggeeLifecycle`).
* A connection that ends inside a header line makes the parser thread spin:
  `readline()` returns nothing, but the line is not empty (`EndIsReported` in
  `JsonStream`).
* A message that was written whole can be lost without an error, if a write
  before it failed half-way: `write_json` leaves the stream open after a
  `JsonIOError`, and `read_json` reads the message as the rest of the torn body
  (`NothingSwallowed` in `JsonStream`).
* A debug server that stays connected and does not answer keeps `finalize()`,
  every handler of the session and the accept thread waiting for ever: its
  requests have no timeout (section 4).
* A server without a ppid is reported as a subprocess of any session that has no
  pid yet and is starting, even of the one that will attach to it (`ParentFound`
  in `StartSequence`).
* A subprocess can be reported to the IDE before the response to the start
  request (`NoChildBeforeStart` in `StartSequence`).
* "initialize" can succeed twice, because the check looks at the start request
  only (`InitializedOnce`, with `MaxRequests = 3`).
* An "attach" to a server that another session has just taken ends the process
  (`AttachFailureSurvived`).
* The pause flag is not reset by the notification that a timer sends
  (`PauseFlagReset` in `ThreadSuspension`), so that a later stop of a thread that
  was only marked can be reported as a pause.
* "continue" is not answered if a thread that is just stopping suspends all
  threads again before any has resumed; the adapter keeps the session locked
  until the next resume (`ContinueAnswered`).
* `wait_for_response()` can return before a response handler has run, although
  the docstring of `Response` promises the opposite order.
* The timer of a finished `wait_for_connection()` still sets the event, which
  the main thread takes for the end of the last server; conversely an `attach`
  can clear the event that the main thread waits for.
* `wait_until_ended()` does not return if no session was ever registered.
* A "launch" whose launcher is killed goes on if the "process" event came first:
  the session is finalized meanwhile, and the server attached after that is
  never detached (`Stranded`).
* A launcher whose adapter goes away during "launch" or "terminate" can fail to
  write its response and exits without killing the debuggee (`pc = "died"`).

## 7. Not modelled, and the plan

Not modelled: argument parsing, code injection, logging, Python 2 and 3
compatibility, sockets below the accept loop (sequential I/O without protocol
state), and the rest of pydevd, which is more than nine tenths of the lines in
the repository: generated schema classes, `winappdbg` and other vendored
libraries, frame evaluation and the tracing that decides where a thread stops.
They hold data and computation rather than protocols, and are developed
elsewhere.

Planned, in this order:

1. `ThreadSuspension`: threads that start and end.
2. `DuplexChannels`: two `MessageChannel`s joined by two bounded pipes, for the
   writes that block with the channel locked.
3. `ServerStartup` (`enable_attach`, `attach`, `wait_for_attach`), `tracing()`,
   the JSON validators, `Singleton`.
