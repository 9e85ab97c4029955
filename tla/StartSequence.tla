---------------------------- MODULE StartSequence ----------------------------
(***************************************************************************)
(* How a debug session starts, as the IDE sees it: adapter/ide.py with the *)
(* parts of adapter/servers.py, adapter/launchers.py and                   *)
(* adapter/sessions.py that its handlers call.  The IDE sends requests in  *)
(* any order; the handler of one of them runs with the session locked, on  *)
(* the handler thread of the IDE channel, and its waits are steps here.    *)
(* The handlers of the launcher's and of the debug server's events need    *)
(* the same lock.  Debug servers of subprocesses register on the accept    *)
(* thread, one after the other, which takes the lock of the session only   *)
(* in notify_of_subprocess.                                                *)
(*                                                                         *)
(* The debug server of the session is the one of its root process, which   *)
(* connects before its subprocesses and stays until it is attached.  How   *)
(* a session ends is the subject of DebuggeeLifecycle and AdapterServers:  *)
(* here the end is one step.                                               *)
(***************************************************************************)
EXTENDS Naturals, Sequences, SequencesExt, FiniteSets

CONSTANTS
    Root,           \* the process that the session debugs
    Children,       \* its subprocesses
    Orphans,        \* those of them whose servers do not tell their parent
    MaxEvents,      \* bound: events of the launcher, and of the debug server
    MaxRequests     \* bound: requests to initialize and to start

Procs == Children \cup {Root}

ASSUME StartConstants ==
    /\ Root \notin Children /\ Orphans \subseteq Procs
    /\ MaxEvents \in Nat /\ MaxRequests \in Nat

VARIABLES
    life,       \* the adapter: "running", session "ended", process "crashed"
    ide,        \* IDE handler: pc, kind of the start request it handles, is it by
                \* "processId", and how many requests were made to initialize and to start
    initReq,    \* is _initialize_request set?
    start,      \* start_request: "none", "pending", "answered"
    deferred,   \* _deferred_events: are they kept (on), and which (events)
    launcher,   \* the Launcher component: "none", "there", "pid" once it has one
    srv,        \* debug server of the root process: "away", "there" (registered),
                \* "taken" by another session, "attached", "gone"
    count,      \* events of each source so far
    conns,      \* servers._connections without the root process
    at,         \* where the connection of each process is on the accept thread
    debugged,   \* subprocesses that are attached to a session of their own
    known,      \* _known_subprocesses
    listing,    \* connections "configurationDone" has still to look at
    told,       \* what the IDE was sent, in order
    handled     \* history: events of the debuggee in the order of their handlers

control  == <<ide, initReq, start>>
relay    == <<deferred, count, handled>>
procs    == <<launcher, srv>>
children == <<conns, at, debugged, known, listing>>
vars     == <<life, control, relay, procs, children, told>>

Sources == {"launcher", "server"}
Kinds   == {"launch", "noDebug", "attach"}
Events  == [from : Sources, n : 1..MaxEvents]

(* What the IDE is sent.                                                   *)
Ok(r)      == <<"ok", r>>
Failed(r)  == <<"failed", r>>
AnEvent(e) == <<"event", e>>
Initialized == <<"initialized">>
Child(c)   == <<"child", c>>
Requests   == {"initialize", "start", "configurationDone"}
Answers    == {Ok(r) : r \in Requests} \cup {Failed(r) : r \in Requests}
Messages   == Answers \cup {Initialized}
                    \cup {AnEvent(e) : e \in Events}
                    \cup {Child(c) : c \in Procs}

Waits == {"spawn", "launching", "process", "server", "initialize", "start",
          "property", "configure", "list", "notify", "delegate"}

(* The types; the bound on "told" follows from those of its parts.         *)
TypeOK ==
    /\ life \in {"running", "ended", "crashed"}
    /\ ide \in [pc : {"idle"} \cup Waits, kind : Kinds, byPid : BOOLEAN, asked : 0..MaxRequests]
    /\ initReq \in BOOLEAN
    /\ start \in {"none", "pending", "answered"}
    /\ deferred \in [on : BOOLEAN, events : Seq(Events)]
    /\ launcher \in {"none", "there", "pid"}
    /\ srv \in {"away", "there", "taken", "attached", "gone"}
    /\ count \in [Sources -> 0..MaxEvents]
    /\ conns \in Seq(Children)
    /\ at \in [Procs -> {"none", "connected", "registered", "found", "report", "done"}]
    /\ debugged \subseteq Children /\ known \subseteq Procs
    /\ listing \in Seq(Children)
    /\ told \in Seq(Messages)
    /\ handled \in Seq(Events)

Idle == [pc |-> "idle", kind |-> "attach", byPid |-> FALSE, asked |-> 0]

Init ==
    /\ life = "running" /\ ide = Idle
    /\ initReq = FALSE /\ start = "none"
    /\ deferred = [on |-> TRUE, events |-> <<>>]
    /\ launcher = "none" /\ srv = "away"
    /\ count = [s \in Sources |-> 0] /\ handled = <<>>
    /\ conns = <<>> /\ at = [c \in Procs |-> "none"]
    /\ debugged = {} /\ known = {} /\ listing = <<>>
    /\ told = <<>>

-----------------------------------------------------------------------------
(* The lock of the session is free between the handlers of the IDE, and    *)
(* while the "launch" handler is inside Session.wait_for.                  *)
UnlockedLate == life = "running" /\ ide.pc = "idle" /\ start # "pending"  \* faulty
Unlocked == life = "running" /\ ide.pc \in {"idle", "process"}
At(pc)   == life = "running" /\ ide.pc = pc
Goto(pc) == ide' = [ide EXCEPT !.pc = pc]
Tell(ms) == told' = told \o ms

HasServer == srv \in {"attached", "gone"}

(* _propagate_deferred_events, between the responses that open the gate    *)
(* and what follows.                                                       *)
DeferredEvents == [i \in 1..Len(deferred.events) |-> AnEvent(deferred.events[i])]
ResponsesLast(before, after) == DeferredEvents \o before \o after    \* faulty
EventsDropped(before, after) == before \o after                      \* faulty
WithDeferred(before, after)  == before \o DeferredEvents \o after
TellDeferred(before, after)  ==
    /\ Tell(WithDeferred(before, after))
    /\ deferred' = [on |-> FALSE, events |-> <<>>]

(* The ways a handler fails: an error that the message loop turns into a   *)
(* response; an error that request.isnt_valid() or cant_handle() has sent, *)
(* which the decorator of the handler replaces by one that was not (see    *)
(* RequestHandling), and that ends the process; any other exception, which *)
(* ends the process too.                                                   *)
Fail(r)   == Tell(<<Failed(r)>>) /\ ide' = [Idle EXCEPT !.asked = ide.asked]
Crash     == life' = "crashed"
Refuse(r) == Tell(<<Failed(r)>>) /\ Crash

-----------------------------------------------------------------------------
(* Requests of the IDE.                                                    *)
Receives == At("idle") /\ ide.asked < MaxRequests

Asked(pc) == ide' = [ide EXCEPT !.asked = @ + 1, !.pc = pc]

initialize_request ==
    /\ Receives /\ Asked("idle")
    /\ IF initReq THEN Refuse("initialize")
                  ELSE Tell(<<Ok("initialize")>>) /\ UNCHANGED life
    /\ initReq' = TRUE
    /\ UNCHANGED <<start, relay, procs, children>>

(* _start_message_handler up to the call of "launch" or "attach".          *)
StartRefused ==
    /\ Receives /\ Asked("idle")
    /\ ~initReq \/ launcher # "none" \/ HasServer
    /\ Refuse("start")
    /\ UNCHANGED <<initReq, start, relay, procs, children>>

StartAccepted(kind, byPid) ==
    /\ Receives
    /\ initReq /\ launcher = "none" /\ ~HasServer
    /\ kind # "attach" => ~byPid
    /\ ide' = [pc |-> IF kind = "attach" THEN "server" ELSE "spawn",
               kind |-> kind, byPid |-> byPid, asked |-> ide.asked + 1]
    /\ UNCHANGED <<life, initReq, start, relay, procs, children, told>>

(* launch_request and spawn_debuggee.  It is refused with a server that is *)
(* connected already, or with arguments that are not valid; the launcher   *)
(* connects; the IDE fails to run it in its terminal, or it cannot be      *)
(* started, or does not connect in time.                                   *)
LaunchRefused ==
    /\ At("spawn") /\ Refuse("start")
    /\ UNCHANGED <<control, relay, procs, children>>

SpawnLauncher ==
    /\ At("spawn") /\ srv = "away"
    /\ launcher' = "there" /\ Goto("launching")
    /\ UNCHANGED <<life, initReq, start, relay, srv, children, told>>

SpawnFails ==
    /\ At("spawn") /\ srv = "away"
    /\ \/ Fail("start") /\ UNCHANGED life
       \/ Crash /\ UNCHANGED <<told, ide>>
    /\ UNCHANGED <<initReq, start, relay, procs, children>>

(* The launcher answers "launch".                                          *)
LauncherAnswers ==
    /\ At("launching")
    /\ IF ide.kind = "noDebug"
       THEN TellDeferred(<<Ok("start")>>, <<>>) /\ start' = "answered" /\ Goto("idle")
       ELSE Goto("process") /\ UNCHANGED <<start, deferred, told>>
    /\ UNCHANGED <<life, initReq, count, handled, procs, children>>

LauncherFails ==
    /\ At("launching") /\ Fail("start")
    /\ UNCHANGED <<life, initReq, start, relay, procs, children>>

(* The wait for the "process" event of the launcher.                       *)
HasPid ==
    /\ At("process") /\ launcher = "pid" /\ Goto("server")
    /\ UNCHANGED <<life, initReq, start, relay, procs, children, told>>

NoPid ==
    /\ At("process") /\ launcher # "pid" /\ Refuse("start")
    /\ UNCHANGED <<control, relay, procs, children>>

(* wait_for_connection and attach_to_session.  A server that belongs to    *)
(* another session fails the request and goes on: there is no server, so   *)
(* the next use of it fails the same request again, which is fatal.        *)
AttachServer ==
    /\ At("server") /\ srv = "there"
    /\ srv' = "attached" /\ Goto("initialize")
    /\ UNCHANGED <<life, initReq, start, relay, launcher, children, told>>

AttachTaken ==
    /\ At("server") /\ srv = "taken"
    /\ Refuse("start")
    /\ UNCHANGED <<control, relay, procs, children>>

(* Nothing connects in time; or "attach" has arguments that are not valid, *)
(* or asks for another process.                                            *)
NoServer ==
    /\ At("server")
    /\ srv = "away" \/ (srv = "there" /\ ide.kind = "attach")
    /\ Refuse("start")
    /\ UNCHANGED <<control, relay, procs, children>>

(* Server.initialize, the start request, and "setDebuggerProperty": each   *)
(* is sent to the debug server and waited for.                             *)
ServerAnswers ==
    /\ srv = "attached"
    /\ \/ /\ At("initialize") /\ Goto("start")
          /\ initReq' = FALSE
          /\ UNCHANGED <<start, told>>
       \/ /\ At("start") /\ Goto("property")
          /\ UNCHANGED <<initReq, start, told>>
       \/ /\ At("property") /\ Goto("idle")
          /\ Tell(<<Initialized>>)
          /\ start' = "pending"
          /\ UNCHANGED initReq
    /\ UNCHANGED <<life, relay, procs, children>>

(* The answer is an error, or the server disconnects.                      *)
ServerFails ==
    /\ \E pc \in {"initialize", "start", "property"} : At(pc)
    /\ Fail("start")
    /\ UNCHANGED <<life, initReq, start, relay, procs, children>>

(* configurationDone_request in its place, to the call of delegate().      *)
ConfigurationDone ==
    /\ At("idle") /\ start = "pending" /\ Goto("configure")
    /\ UNCHANGED <<life, initReq, start, relay, procs, children, told>>

(* Out of its place it is answered, and then handled all the same: the     *)
(* answer to the start request in "finally" is an error, either because    *)
(* there is none or because it is the second.                              *)
ConfigurationMisplaced ==
    /\ At("idle") /\ start # "pending"
    /\ Refuse("configurationDone")
    /\ UNCHANGED <<control, relay, procs, children>>

ConfigurationAnswered ==
    /\ At("configure") /\ srv = "attached"
    /\ TellDeferred(<<Ok("configurationDone"), Ok("start")>>, <<>>)
    /\ start' = "answered" /\ Goto("list")
    /\ UNCHANGED <<life, initReq, count, handled, procs, children>>

(* An error of the server fails the start request, which "finally" answers *)
(* again.                                                                  *)
ConfigurationFails ==
    /\ At("configure") /\ srv = "attached"
    /\ Refuse("start")
    /\ UNCHANGED <<control, relay, procs, children>>

(* The server disconnects: not an error of the request, so "finally" runs  *)
(* alone, and the rest of the handler does not.                            *)
ConfigurationLost ==
    /\ At("configure") /\ srv = "gone"
    /\ TellDeferred(<<Ok("start")>>, <<Failed("configurationDone")>>)
    /\ start' = "answered" /\ Goto("idle")
    /\ UNCHANGED <<life, initReq, count, handled, procs, children>>

(* The subprocesses that notify_of_subprocess would report, of some.       *)
ReportableAgain(cs) == IF start = "none" \/ ide.byPid THEN {} ELSE cs   \* faulty
Reportable(cs) == IF start = "none" \/ ide.byPid THEN {} ELSE cs \ known

NotDebuggedInverted == debugged                                       \* faulty
NotDebugged == Children \ debugged

ListChildren ==
    /\ At("list") /\ Goto(IF conns = <<>> THEN "idle" ELSE "notify")
    /\ listing' = conns
    /\ UNCHANGED <<life, initReq, start, relay, procs, conns, at, debugged, known, told>>

NotifyListed ==
    /\ At("notify") /\ listing # <<>>
    /\ LET new == Reportable(({Head(listing)} \cap NotDebugged) \ Orphans)
       IN /\ known' = known \cup new
          /\ IF new # {} THEN Tell(<<Child(Head(listing))>>) ELSE UNCHANGED told
    /\ listing' = Tail(listing)
    /\ Goto(IF listing' = <<>> THEN "idle" ELSE "notify")
    /\ UNCHANGED <<life, initReq, start, relay, procs, conns, at, debugged>>

(* Any other request is delegated to the debug server, and waited for.     *)
DelegateRequest ==
    /\ At("idle") /\ srv = "attached" /\ Goto("delegate")
    /\ UNCHANGED <<life, initReq, start, relay, procs, children, told>>

(* The answer is passed on; that the server has gone is one, too.          *)
DelegateAnswered ==
    /\ At("delegate") /\ Goto("idle")
    /\ UNCHANGED <<life, initReq, start, relay, procs, children, told>>

-----------------------------------------------------------------------------
(* Events of the launcher and of the debug server, each in its order.      *)
Attached(s) == IF s = "launcher" THEN launcher # "none" ELSE HasServer

EventFromZero(s) == [from |-> s, n |-> count[s]]                      \* faulty
Event(s) == [from |-> s, n |-> count[s] + 1]

HandleEvent(s) ==
    /\ Unlocked /\ Attached(s) /\ count[s] < MaxEvents
    /\ LET e == Event(s)
       IN /\ handled' = Append(handled, e)
          /\ IF deferred.on
             THEN /\ deferred' = [deferred EXCEPT !.events = Append(@, e)]
                  /\ UNCHANGED told
             ELSE Tell(<<AnEvent(e)>>) /\ UNCHANGED deferred
    /\ count' = [count EXCEPT ![s] = @ + 1]
    /\ launcher' = IF s = "launcher" THEN "pid" ELSE launcher
    /\ UNCHANGED <<life, control, srv, children>>

ServerGone ==
    /\ life = "running" /\ srv = "attached"
    /\ srv' = "gone"
    /\ UNCHANGED <<life, control, relay, launcher, children, told>>

(* Server.disconnect, which ends the session.                              *)
SessionEnds ==
    /\ Unlocked /\ srv = "gone"
    /\ life' = "ended"
    /\ UNCHANGED <<control, relay, procs, children, told>>

-----------------------------------------------------------------------------
(* The accept thread: Connection.__init__ for one connection at a time.    *)
Accepting == life = "running" /\ \A c \in Procs : at[c] \in {"none", "done"}
Step(c, from, to) == life = "running" /\ at[c] = from /\ at' = [at EXCEPT ![c] = to]

ServerConnects ==
    /\ Accepting /\ srv = "away" /\ srv' = "there"
    /\ Step(Root, "none", "registered")
    /\ UNCHANGED <<life, control, relay, launcher, conns, debugged, known, listing, told>>

ServerTaken ==
    /\ life = "running" /\ srv = "there" /\ srv' = "taken"
    /\ UNCHANGED <<life, control, relay, launcher, children, told>>

ChildConnects(c) ==
    /\ Accepting /\ srv # "away" /\ Step(c, "none", "connected")
    /\ UNCHANGED <<life, control, relay, procs, conns, debugged, known, told, listing>>

ChildRegisters(c) ==
    /\ Step(c, "connected", "registered")
    /\ conns' = Append(conns, c)
    /\ UNCHANGED <<life, control, relay, procs, debugged, known, told, listing>>

(* sessions.get(ppid): a session has its pid once it has its server.  A    *)
(* server that does not tell its ppid matches a session that has none yet, *)
(* this one or another: the root process can have its own for a parent.    *)
ParentFound(c) == IF c \in Orphans THEN {FALSE} \cup {~HasServer}
                                  ELSE {HasServer /\ c # Root}
FindParent(c) ==
    /\ \E found \in ParentFound(c) :
          Step(c, "registered", IF found THEN "found" ELSE "done")
    /\ UNCHANGED <<life, control, relay, procs, conns, debugged, known, told, listing>>

(* notify_of_subprocess: the part that locks the session, and the event.   *)
Notify(c) ==
    /\ Unlocked
    /\ Step(c, "found", IF c \in Reportable({c}) THEN "report" ELSE "done")
    /\ known' = known \cup Reportable({c})
    /\ UNCHANGED <<life, control, relay, procs, conns, debugged, told, listing>>

SendChild(c) ==
    /\ Step(c, "report", "done")
    /\ Tell(<<Child(c)>>)
    /\ UNCHANGED <<life, control, relay, procs, conns, debugged, known, listing>>

(* Another session attaches to the subprocess; the subprocess leaves.      *)
ChildTaken(c) ==
    /\ life = "running" /\ c \in ToSet(conns) \ debugged
    /\ debugged' = debugged \cup {c}
    /\ UNCHANGED <<life, control, relay, procs, conns, at, known, told, listing>>

ChildGone(c) ==
    /\ life = "running" /\ c \in ToSet(conns)
    /\ conns' = RemoveFirst(conns, c)
    /\ UNCHANGED <<life, control, relay, procs, at, debugged, known, told, listing>>

-----------------------------------------------------------------------------
StartHandler ==
    \/ StartRefused
    \/ \E kind \in Kinds, byPid \in BOOLEAN : StartAccepted(kind, byPid)
    \/ LaunchRefused \/ SpawnLauncher \/ SpawnFails \/ LauncherAnswers \/ LauncherFails
    \/ HasPid \/ NoPid
    \/ AttachServer \/ AttachTaken \/ NoServer
    \/ ServerAnswers \/ ServerFails

ConfigurationHandler ==
    \/ ConfigurationDone \/ ConfigurationMisplaced
    \/ ConfigurationAnswered \/ ConfigurationFails \/ ConfigurationLost
    \/ ListChildren \/ NotifyListed

RequestHandler == StartHandler \/ ConfigurationHandler \/ DelegateRequest \/ DelegateAnswered

AcceptThread(c) == FindParent(c) \/ Notify(c) \/ SendChild(c)

ChildStep(c) == ChildConnects(c) \/ ChildRegisters(c) \/ ChildTaken(c) \/ ChildGone(c)

Next ==
    \/ initialize_request \/ RequestHandler
    \/ \E s \in Sources : HandleEvent(s)
    \/ ServerGone \/ SessionEnds \/ ServerConnects \/ ServerTaken
    \/ \E c \in Procs : AcceptThread(c)
    \/ \E c \in Children : ChildStep(c)

Spec == Init /\ [][Next]_vars

(* Waits of the IDE handler that nothing bounds, with the session locked:  *)
(* for the IDE to answer "runInTerminal"; for a server to connect, if      *)
(* "waitForAttach" is set or the event of the connection is missed (see    *)
(* FindsConnection in AdapterServers); for the debug server to answer one  *)
(* of the requests above, as long as it is connected.                      *)
Unbounded ==
    \/ ide.pc \in {"spawn", "server"}
    \/ /\ ide.pc \in {"initialize", "start", "property", "configure", "delegate"}
       /\ srv = "attached"

(* The handler of the IDE goes on when it is not inside one of these: the  *)
(* launcher is a part of ptvsd and answers (see DebuggeeLifecycle), and    *)
(* the wait for its "process" event has a timeout.  The accept thread goes *)
(* on, and gets the lock of the session when it is free again and again;   *)
(* it need not come back from the handshake with a server.                 *)
Fairness ==
    /\ WF_vars(~Unbounded /\ ide.pc # "idle" /\ RequestHandler) /\ WF_vars(SessionEnds)
    /\ \A c \in Procs :
           WF_vars(FindParent(c)) /\ WF_vars(SendChild(c)) /\ SF_vars(Notify(c))

FairSpec == Spec /\ Fairness

-----------------------------------------------------------------------------
(* Properties.                                                             *)
EventPlaces(q) == {i \in DOMAIN q : q[i][1] = "event"}
Rank(i, P)     == Cardinality({j \in P : j <= i})
EventsOf(q)    == LET P == EventPlaces(q)
                  IN [k \in 1..Cardinality(P) |-> q[CHOOSE i \in P : Rank(i, P) = k][2]]
Delivered == EventsOf(told)     \* the events among what the IDE was sent, in order
Times(m) == Cardinality({i \in DOMAIN told : told[i] = m})
Before(m, n) == \A i \in DOMAIN told :
                    told[i] = n => \E j \in 1..(i - 1) : told[j] = m

(* The IDE is sent the events of the launcher and of the debug server all, *)
(* once, and in the order of their handlers, from the response to "launch" *)
(* or "attach" on, and none before (ide.py:89-106).                        *)
Relay == INSTANCE EventRelay WITH
             delivered <- Delivered,
             gate <- IF start = "answered" THEN "open" ELSE "closed"
EventsRelayed == Relay!Spec

(* What the comment in propagate_after_start asks for, on the wire: no     *)
(* event of the debuggee before the response to the start request, and,    *)
(* when the debug server lives, that response after the one to             *)
(* "configurationDone", after "initialized" (ide.py:225-231, 355-370).     *)
ResponsesInOrder ==
    /\ \A e \in Events : Before(Ok("start"), AnEvent(e))
    /\ Before(Initialized, Ok("configurationDone"))
    /\ start = "answered" /\ HasServer =>
           \/ Before(Ok("configurationDone"), Ok("start"))
           \/ srv = "gone" /\ Before(Ok("start"), Failed("configurationDone"))

(* The accept thread and "configurationDone" both look for subprocesses to *)
(* report: no process is reported twice (ide.py:374-376, 422-448).         *)
ChildReportedOnce == \A c \in Procs : Times(Child(c)) <= 1

(* ... and none falls between the two: a subprocess that is connected when *)
(* the session has started, or after, is reported, unless it leaves or is  *)
(* attached to by other means first, or does not tell its parent           *)
(* (ide.py:372-376, servers.py:133-144).  Provided that the handler of the *)
(* IDE does not stay for ever in a request that was delegated to a debug   *)
(* server which does not answer.                                           *)
ChildReported ==
    []<>~Unbounded =>
        \A c \in Children \ Orphans :
            (/\ c \in ToSet(conns) \ debugged
             /\ start = "answered" /\ srv = "attached" /\ ~ide.byPid)
            ~> \/ Times(Child(c)) = 1 \/ c \notin ToSet(conns) \/ c \in debugged
               \/ life # "running"

(* The accept thread gets past the lock of the parent session, which a     *)
(* handler of that session may hold through its waits (servers.py:133-138),*)
(* provided that the handler does not stay for ever in one of those that   *)
(* nothing bounds.                                                         *)
AcceptThreadReturns ==
    []<>~Unbounded =>
        \A c \in Procs : at[c] = "found" ~> at[c] # "found" \/ life # "running"

(* ide.py:90-92: "the IDE doesn't expect to see any [event] until it       *)
(* receives the response to \"launch\" or \"attach\" request".             *)
NoChildBeforeStart == \A c \in Procs : Before(Ok("start"), Child(c))

(* ide.py:124: a second "initialize" is refused, as the session "is        *)
(* already initialized".                                                   *)
InitializedOnce == Times(Ok("initialize")) <= 1

(* ide.py:349-352: attaching to a server that is already being debugged    *)
(* fails the request, and nothing else.                                    *)
AttachFailureSurvived == ~(life = "crashed" /\ ide.pc = "server" /\ srv = "taken")
===============================================================================
