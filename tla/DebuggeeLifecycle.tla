--------------------------- MODULE DebuggeeLifecycle ---------------------------
(***************************************************************************)
(* A "launch" session from the request of the IDE to its end, across three *)
(* processes: the adapter (Session.wait_for and Session.finalize in        *)
(* adapter/sessions.py, adapter/launchers.py, the launch and disconnect    *)
(* handlers of adapter/ide.py), the launcher (launcher/handlers.py,        *)
(* launcher/debuggee.py, launcher/output.py), and the debuggee.            *)
(*                                                                         *)
(* In the adapter, the handler threads of the IDE, of the Launcher and of  *)
(* the Server component share the lock of the session.  A handler is one   *)
(* step, except for "launch" and for finalize(), which make requests with  *)
(* the session locked, and release the lock only inside wait_for().        *)
(* In the launcher, there are a handler thread and the thread that waits   *)
(* for the debuggee to exit.                                               *)
(***************************************************************************)
EXTENDS Naturals, Sequences, FiniteSets

CONSTANTS
    Crashes,    \* processes that may be killed from outside
    MaxLaunch   \* bound: "launch" requests of the IDE

ASSUME LifecycleConstants ==
    Crashes \subseteq {"adapter", "launcher"} /\ MaxLaunch \in Nat

VARIABLES
    adapter,    \* is the adapter process alive?
    ide,        \* IDE component: where its handler thread is (pc), is_connected,
                \* has the IDE left, is this not a "noDebug" session, how often has
                \* it asked for "launch"
    lch,        \* Launcher component: is_connected ("none" before there is one),
                \* has it the pid, has it the exit code, is its channel closed
    srv,        \* Server component: "none", or is_connected
    fin,        \* Session.finalize: where it is, on whose thread, terminate_debuggee
    told,       \* events sent to the IDE at the end
    toLch, toAdp, reply,    \* requests to the launcher, its events, its response
    lp,         \* launcher process: main and handler thread (pc), exit thread (wt),
                \* are there wait_on_exit_predicates (hold)
    deb, pipe,  \* the debuggee process, and does a subprocess hold its output open?
    dbg         \* the connection of the debug server inside the debuggee

inAdapter == <<ide, lch, srv, fin, told>>
wires     == <<toLch, toAdp, reply>>
launcher  == <<lp, deb, pipe>>
vars      == <<adapter, inAdapter, wires, launcher, dbg>>

YesNo  == {"yes", "no"}
MayBe  == {"none", "yes", "no"}
Events == {"process", "exited", "terminated"}
Gone   == {"exited", "died", "crashed"}    \* the launcher process is not alive

(* The types.  At most one request to the launcher is pending, because each*)
(* is waited for with the session locked.                                  *)
IdeStates == [pc : {"idle", "spawn", "request", "process", "connect", "server"},
              conn : YesNo, left : BOOLEAN, debug : BOOLEAN, asked : 0..MaxLaunch]
LchStates == [conn : MayBe, pid : BOOLEAN, code : BOOLEAN, closed : BOOLEAN]
FinStates == [at : {"none", "server", "terminate", "disconnect", "detach", "exit",
                    "kill", "killing", "drain", "tell", "done"},
              by : {"none", "ide", "launcher", "server"}, term : BOOLEAN]
LpStates  == [pc : {"none", "idle", "spawned", "kill", "leaving"} \cup Gone,
              wt : {"none", "wait", "output", "input", "terminated", "done"},
              hold : BOOLEAN]

TypeOK ==
    /\ adapter \in BOOLEAN /\ pipe \in BOOLEAN
    /\ ide \in IdeStates /\ lch \in LchStates /\ fin \in FinStates /\ lp \in LpStates
    /\ srv \in MayBe
    /\ told \in Seq({"exited", "terminated"}) /\ Len(told) <= 2
    /\ toLch \in Seq({"launch", "terminate"}) /\ Len(toLch) <= 1
    /\ toAdp \in Seq(Events) /\ reply \in {"none", "ok", "failed"}
    /\ deb \in {"none", "running", "exited"}
    /\ dbg \in {"none", "up", "down"}

Init ==
    /\ adapter = TRUE /\ pipe = FALSE
    /\ ide = [pc |-> "idle", conn |-> "yes", left |-> FALSE, debug |-> FALSE, asked |-> 0]
    /\ lch = [conn |-> "none", pid |-> FALSE, code |-> FALSE, closed |-> FALSE]
    /\ srv = "none" /\ told = <<>>
    /\ fin = [at |-> "none", by |-> "none", term |-> FALSE]
    /\ toLch = <<>> /\ toAdp = <<>> /\ reply = "none"
    /\ lp = [pc |-> "none", wt |-> "none", hold |-> FALSE]
    /\ deb = "none" /\ dbg = "none"

-----------------------------------------------------------------------------
(* The lock of the session, which wait_for() releases, and the threads     *)
(* that finalize() keeps from handling messages meanwhile.                 *)
Waiting == {"exit", "drain"}
Over    == {"none", "done"}
Unlocked  == ide.pc \in {"idle", "process"} /\ fin.at \in Waiting \cup Over
Finalizes(t) == fin.by = t /\ fin.at \notin Over
Handles(t) == adapter /\ Unlocked /\ ~Finalizes(t)
Awake(t, at) == adapter /\ fin.at = at

ListenerGone == lp.pc \in Gone          \* the launcher's end of the channel
DoesNotWait == "ok"                     \* faulty: as if all requests succeed
Response == IF reply = "none" /\ ListenerGone THEN "gone" ELSE reply

(* Events to an IDE that has gone are lost. *)
Tell(e) == told' = IF ide.conn = "yes" /\ ~ide.left THEN Append(told, e) ELSE told

-----------------------------------------------------------------------------
(* "launch" on the thread of the IDE.  An IDE does not ask for it after it *)
(* has asked for "disconnect" (the code would not refuse).                 *)
BeginLaunch(debug) ==
    /\ Handles("ide") /\ ide.pc = "idle" /\ ide.conn = "yes"
    /\ lch.conn = "none" /\ fin.at = "none" /\ ide.asked < MaxLaunch
    /\ ide' = [ide EXCEPT !.pc = "spawn", !.debug = debug, !.asked = @ + 1]
    /\ UNCHANGED <<adapter, lch, srv, fin, told, wires, launcher, dbg>>

(* The launcher connects and is asked to start the debuggee. *)
LauncherConnects ==
    /\ adapter /\ ide.pc = "spawn"
    /\ ide' = [ide EXCEPT !.pc = "request"]
    /\ lch' = [lch EXCEPT !.conn = "yes"]
    /\ lp' = [lp EXCEPT !.pc = "idle"]
    /\ toLch' = <<"launch">>
    /\ UNCHANGED <<adapter, srv, fin, told, toAdp, reply, deb, pipe, dbg>>

(* "runInTerminal" fails; or no launcher connects in time, and accept()    *)
(* raises what no handler catches, so that the process exits.              *)
SpawnFails ==
    /\ adapter /\ ide.pc = "spawn"
    /\ ide' = [ide EXCEPT !.pc = "idle"]
    /\ adapter' \in BOOLEAN
    /\ UNCHANGED <<lch, srv, fin, told, wires, launcher, dbg>>

LaunchAnswered ==
    /\ adapter /\ ide.pc = "request" /\ Response # "none"
    /\ ide' = [ide EXCEPT !.pc = IF Response = "ok" /\ ide.debug THEN "process" ELSE "idle"]
    /\ reply' = "none"
    /\ UNCHANGED <<adapter, lch, srv, fin, told, toLch, toAdp, launcher, dbg>>

(* wait_for() the pid of the debuggee; then, with the session locked again,*)
(* wait_for_connection().  Either may time out: the error is sent to the   *)
(* IDE, then replaced by the decorator, which ends the process (see        *)
(* RequestHandling and StartSequence).                                     *)
ProcessKnown ==
    /\ adapter /\ Unlocked /\ ide.pc = "process"
    /\ \/ lch.pid /\ ide' = [ide EXCEPT !.pc = "connect"] /\ UNCHANGED adapter
       \/ ~lch.pid /\ adapter' = FALSE /\ UNCHANGED ide
    /\ UNCHANGED <<lch, srv, fin, told, wires, launcher, dbg>>

ServerAttached ==
    /\ adapter /\ ide.pc = "connect"
    /\ \/ dbg = "up" /\ srv' = "yes" /\ ide' = [ide EXCEPT !.pc = "server"]
          /\ UNCHANGED adapter
       \/ dbg # "up" /\ adapter' = FALSE /\ UNCHANGED <<ide, srv>>
    /\ UNCHANGED <<lch, fin, told, wires, launcher, dbg>>

(* The server is sent the requests of _start_message_handler once it is    *)
(* attached; later, the requests of the IDE that have no handler of their  *)
(* own are delegated to it, even when it is detached, as its channel is    *)
(* open.  (Requests still unhandled when the IDE leaves are not modelled.) *)
(* They succeed, or fail because the server says so or its connection is   *)
(* lost; nothing is undone.                                                *)
DelegateRequest ==
    /\ Handles("ide") /\ ide.pc = "idle" /\ ide.conn = "yes" /\ ~ide.left
    /\ srv # "none" /\ dbg = "up"
    /\ ide' = [ide EXCEPT !.pc = "server"]
    /\ UNCHANGED <<adapter, lch, srv, fin, told, wires, launcher, dbg>>

ServerAnswers ==
    /\ adapter /\ ide.pc = "server"
    /\ ide' = [ide EXCEPT !.pc = "idle"]
    /\ UNCHANGED <<adapter, lch, srv, fin, told, wires, launcher, dbg>>

-----------------------------------------------------------------------------
(* What starts finalize(); terminate_debuggee defaults to whether there is *)
(* (or was) a launcher.                                                    *)
Finalize(t, want) ==
    fin' = IF fin.at # "none" THEN fin
           ELSE [at |-> "server", by |-> t,
                 term |-> IF want = "default" THEN lch.conn # "none" ELSE want = "yes"]

(* "disconnect" and "terminate" requests; the IDE disconnects.             *)
EndRequest(want) ==
    /\ Handles("ide") /\ ide.pc = "idle" /\ ide.conn = "yes" /\ fin.at = "none"
    /\ Finalize("ide", want)
    /\ UNCHANGED <<adapter, ide, lch, srv, told, wires, launcher, dbg>>

IdeDisconnect ==
    /\ Handles("ide") /\ ide.pc = "idle" /\ ide.left /\ ide.conn = "yes"
    /\ ide' = [ide EXCEPT !.conn = "no"]
    /\ Finalize("ide", "default")
    /\ UNCHANGED <<adapter, lch, srv, told, wires, launcher, dbg>>

ServerDisconnect ==
    /\ Handles("server") /\ srv = "yes" /\ dbg = "down"
    /\ srv' = "no"
    /\ Finalize("server", "default")
    /\ UNCHANGED <<adapter, ide, lch, told, wires, launcher, dbg>>

LauncherDisconnect ==
    /\ Handles("launcher") /\ lch.conn = "yes"
    /\ lch.closed \/ (ListenerGone /\ toAdp = <<>>)
    /\ lch' = [lch EXCEPT !.conn = "no"]
    /\ Finalize("launcher", "default")
    /\ UNCHANGED <<adapter, ide, srv, told, wires, launcher, dbg>>

(* The events of the launcher.  "exited" is only noted, and passed on to   *)
(* the IDE when "terminated" comes, which also closes the channel: what    *)
(* has been received by then is still handled, what has not is lost.       *)
ClosesAlways(e) == e \in Events         \* faulty: on any event
NeverCloses(e) == FALSE                 \* faulty: the adapter waits to be left
Closes(e) == e = "terminated"

LauncherEvent ==
    /\ Handles("launcher") /\ toAdp # <<>> /\ lch.conn = "yes"
    /\ toAdp' = Tail(toAdp)
    /\ lch' = [lch EXCEPT !.pid = @ \/ Head(toAdp) = "process",
                          !.code = @ \/ Head(toAdp) = "exited",
                          !.closed = @ \/ Closes(Head(toAdp))]
    /\ IF Head(toAdp) = "terminated" THEN Tell("exited") ELSE UNCHANGED told
    /\ UNCHANGED <<adapter, ide, srv, fin, toLch, reply, launcher, dbg>>

-----------------------------------------------------------------------------
(* _finalize(), step by step.                                              *)
At(p) == fin' = [fin EXCEPT !.at = p]

(* Launcher.terminate_debuggee(): a request, unless the exit code is known.*)
Asks == ~lch.code
SendTerminate ==
    toLch' = IF ListenerGone \/ lch.closed THEN toLch ELSE Append(toLch, "terminate")

FinalizeServer ==
    /\ Awake(fin.by, "server")
    /\ \/ /\ srv = "yes" /\ fin.term /\ lch.conn = "yes"
          /\ IF Asks THEN SendTerminate /\ At("terminate") ELSE At("detach") /\ UNCHANGED toLch
       \/ srv = "yes" /\ ~(fin.term /\ lch.conn = "yes") /\ At("disconnect") /\ UNCHANGED toLch
       \/ srv # "yes" /\ At("detach") /\ UNCHANGED toLch
    /\ UNCHANGED <<adapter, ide, lch, srv, told, toAdp, reply, launcher, dbg>>

(* The launcher has responded, or its connection is lost. *)
TerminateAnswered ==
    /\ adapter /\ fin.at \in {"terminate", "killing"}
    /\ Response # "none" \/ lch.closed
    /\ reply' = "none"
    /\ At(IF fin.at = "terminate" THEN "detach" ELSE "drain")
    /\ UNCHANGED <<adapter, ide, lch, srv, told, toLch, toAdp, launcher, dbg>>

(* So has the server, which lets the debuggee go, or makes it exit. *)
DisconnectAnswered ==
    /\ Awake(fin.by, "disconnect")
    /\ At("detach")
    /\ \/ fin.term /\ deb = "running" /\ deb' = "exited"
       \/ UNCHANGED deb
    /\ UNCHANGED <<adapter, ide, lch, srv, told, wires, lp, pipe, dbg>>

DetachServer ==
    /\ Awake(fin.by, "detach")
    /\ srv' = IF srv = "none" THEN "none" ELSE "no"
    /\ At(IF lch.conn # "yes" THEN "tell" ELSE IF srv # "none" THEN "exit" ELSE "kill")
    /\ UNCHANGED <<adapter, ide, lch, told, wires, launcher, dbg>>

(* wait_for() the exit code, or for 5 seconds. *)
ExitAwaited ==
    /\ Awake(fin.by, "exit") /\ Unlocked
    /\ At("kill")
    /\ UNCHANGED <<adapter, ide, lch, srv, told, wires, launcher, dbg>>

KillDebuggee ==
    /\ Awake(fin.by, "kill")
    /\ IF Asks THEN SendTerminate /\ At("killing") ELSE At("drain") /\ UNCHANGED toLch
    /\ UNCHANGED <<adapter, ide, lch, srv, told, toAdp, reply, launcher, dbg>>

(* wait_for() the launcher to disconnect, without a timeout. *)
DoNotWait == lch.conn # "none"          \* faulty: there is one, is enough
LauncherLeft == lch.conn = "no"

Drained ==
    /\ Awake(fin.by, "drain") /\ Unlocked /\ LauncherLeft
    /\ lch' = [lch EXCEPT !.closed = TRUE]
    /\ At("tell")
    /\ UNCHANGED <<adapter, ide, srv, told, wires, launcher, dbg>>

TellIde ==
    /\ Awake(fin.by, "tell")
    /\ Tell("terminated") /\ At("done")
    /\ UNCHANGED <<adapter, ide, lch, srv, wires, launcher, dbg>>

-----------------------------------------------------------------------------
(* The handler thread of the launcher.  What it sends may fail to be       *)
(* written if the adapter has gone, and then ends the process at once      *)
(* (os._exit), without the atexit handlers.                                *)
Lost == ~adapter \/ lch.closed
AfterSend == {"idle"} \cup (IF Lost THEN {"died"} ELSE {})

KillsNothing == deb             \* faulty: the debuggee is left alone
Killed == IF deb = "running" THEN "exited" ELSE deb

(* launch_request: there is nothing to launch or it does not start; or the *)
(* debuggee is spawned, to be held at its exit or not.                     *)
LaunchRequest ==
    /\ lp.pc = "idle" /\ toLch # <<>> /\ Head(toLch) = "launch"
    /\ toLch' = Tail(toLch)
    /\ \/ /\ \E pc \in AfterSend : lp' = [lp EXCEPT !.pc = pc]
          /\ reply' = "failed" /\ UNCHANGED deb
       \/ /\ \E h \in BOOLEAN : lp' = [lp EXCEPT !.pc = "spawned", !.hold = h]
          /\ deb' = "running" /\ UNCHANGED reply
    /\ UNCHANGED <<adapter, inAdapter, toAdp, pipe, dbg>>

(* The rest of spawn(): the "process" event, the exit thread, the response.*)
Spawned ==
    /\ lp.pc = "spawned"
    /\ \/ /\ lp' = [lp EXCEPT !.pc = "idle", !.wt = "wait"]
          /\ toAdp' = Append(toAdp, "process") /\ reply' = "ok"
       \/ Lost /\ lp' = [lp EXCEPT !.pc = "died"] /\ UNCHANGED <<toAdp, reply>>
    /\ UNCHANGED <<adapter, inAdapter, toLch, deb, pipe, dbg>>

TerminateRequest ==
    /\ lp.pc = "idle" /\ toLch # <<>> /\ Head(toLch) = "terminate"
    /\ toLch' = Tail(toLch)
    /\ \/ reply' = "ok" /\ lp' = [lp EXCEPT !.hold = FALSE, !.pc = "kill"]
       \/ Lost /\ lp' = [lp EXCEPT !.hold = FALSE, !.pc = "died"] /\ UNCHANGED reply
    /\ UNCHANGED <<adapter, inAdapter, toAdp, deb, pipe, dbg>>

TerminateKills ==
    /\ lp.pc = "kill"
    /\ deb' = Killed /\ lp' = [lp EXCEPT !.pc = "idle"]
    /\ UNCHANGED <<adapter, inAdapter, wires, pipe, dbg>>

(* The end of the stream; disconnect(); channel.wait() returns in main().  *)
EndsWhenClosed == lch.closed    \* faulty: only close() is noticed
EndOfStream == lch.closed \/ ~adapter

LauncherLoopEnds ==
    /\ lp.pc = "idle" /\ toLch = <<>> /\ EndOfStream
    /\ lp' = [lp EXCEPT !.pc = "leaving", !.hold = FALSE] /\ deb' = Killed
    /\ UNCHANGED <<adapter, inAdapter, wires, pipe, dbg>>

(* The process exits when the threads that capture output have ended, and  *)
(* kills the debuggee at exit.                                             *)
LauncherExits ==
    /\ lp.pc = "leaving" /\ ~pipe
    /\ lp' = [lp EXCEPT !.pc = "exited"] /\ deb' = Killed
    /\ UNCHANGED <<adapter, inAdapter, wires, pipe, dbg>>

(* wait_for_exit(), a daemon thread; its sends may fail unnoticed.         *)
Runs(at) == lp.pc \notin Gone /\ lp.wt = at
Send(e) == toAdp' = IF Lost THEN toAdp ELSE Append(toAdp, e)

ExitSeen ==
    /\ Runs("wait") /\ deb = "exited"
    /\ lp' = [lp EXCEPT !.wt = "output"]
    /\ UNCHANGED <<adapter, inAdapter, wires, deb, pipe, dbg>>

(* All output has been captured.  A predicate may hold for the exit code.  *)
SendExited ==
    /\ Runs("output") /\ ~pipe
    /\ \/ lp' = [lp EXCEPT !.wt = "terminated"]
       \/ lp.hold /\ lp' = [lp EXCEPT !.wt = "input"]
    /\ Send("exited")
    /\ UNCHANGED <<adapter, inAdapter, toLch, reply, deb, pipe, dbg>>

UserInput ==
    /\ Runs("input")
    /\ lp' = [lp EXCEPT !.wt = "terminated"]
    /\ UNCHANGED <<adapter, inAdapter, wires, deb, pipe, dbg>>

SendTerminated ==
    /\ Runs("terminated")
    /\ lp' = [lp EXCEPT !.wt = "done"] /\ Send("terminated")
    /\ UNCHANGED <<adapter, inAdapter, toLch, reply, deb, pipe, dbg>>

-----------------------------------------------------------------------------
(* The environment: the debuggee, its debug server, a subprocess that      *)
(* inherits its output, the IDE, and crashes.                              *)
DebuggeeExits ==
    /\ deb = "running" /\ deb' = "exited"
    /\ UNCHANGED <<adapter, inAdapter, wires, lp, pipe, dbg>>

SubprocessStarts ==
    /\ deb = "running" /\ ~pipe /\ pipe' = TRUE
    /\ UNCHANGED <<adapter, inAdapter, wires, lp, deb, dbg>>

SubprocessEnds ==
    /\ pipe /\ pipe' = FALSE
    /\ UNCHANGED <<adapter, inAdapter, wires, lp, deb, dbg>>

DebugServerUp ==
    /\ adapter /\ ide.debug /\ deb = "running" /\ dbg = "none" /\ dbg' = "up"
    /\ UNCHANGED <<adapter, inAdapter, wires, launcher>>

DebugServerDown ==
    /\ dbg = "up" /\ dbg' = "down"
    /\ UNCHANGED <<adapter, inAdapter, wires, launcher>>

IdeLeaves ==
    /\ ~ide.left /\ ide' = [ide EXCEPT !.left = TRUE]
    /\ UNCHANGED <<adapter, lch, srv, fin, told, wires, launcher, dbg>>

Crash ==
    \/ /\ "adapter" \in Crashes /\ adapter /\ adapter' = FALSE
       /\ UNCHANGED <<inAdapter, wires, launcher, dbg>>
    \/ /\ "launcher" \in Crashes /\ lp.pc \notin Gone \cup {"none"}
       /\ lp' = [lp EXCEPT !.pc = "crashed"]
       /\ UNCHANGED <<adapter, inAdapter, wires, deb, pipe, dbg>>

-----------------------------------------------------------------------------
IdeThread ==
    \/ LauncherConnects \/ SpawnFails \/ LaunchAnswered \/ ProcessKnown
    \/ ServerAttached \/ ServerAnswers \/ IdeDisconnect
LauncherThread  == LauncherEvent \/ LauncherDisconnect
FinalizeStep    ==
    \/ FinalizeServer \/ TerminateAnswered \/ DisconnectAnswered \/ DetachServer
    \/ ExitAwaited \/ KillDebuggee \/ Drained \/ TellIde
LauncherHandler ==
    \/ LaunchRequest \/ Spawned \/ TerminateRequest \/ TerminateKills
    \/ LauncherLoopEnds \/ LauncherExits
ExitThread      == ExitSeen \/ SendExited \/ UserInput \/ SendTerminated
Requests        ==
    \/ \E debug \in BOOLEAN : BeginLaunch(debug)
    \/ \E want \in {"default", "yes", "no"} : EndRequest(want)
    \/ DelegateRequest
Outside         ==
    \/ DebuggeeExits \/ SubprocessStarts \/ SubprocessEnds \/ DebugServerUp
    \/ DebugServerDown \/ IdeLeaves \/ Crash

Next ==
    \/ IdeThread \/ LauncherThread \/ ServerDisconnect \/ FinalizeStep
    \/ LauncherHandler \/ ExitThread \/ Requests \/ Outside

Spec == Init /\ [][Next]_vars

(* Is the lock of the session kept for a request, made without a timeout,  *)
(* that the debug server or the IDE may leave unanswered for ever?  Once   *)
(* their connection is lost the request fails.                             *)
ServerAsked == adapter /\ (ide.pc = "server" \/ fin.at = "disconnect")
IdeSilent == ide.pc = "spawn" /\ ~ide.left           \* "runInTerminal"
ServerSilent == ServerAsked /\ dbg = "up"

(* Every thread goes on that waits for none of these two; the handlers of  *)
(* the launcher, a part of ptvsd, are among them.  The user presses a key  *)
(* at last and a subprocess ends at last (sessions.py waits for either     *)
(* without a timeout); a debug server loses its connection when its        *)
(* process has exited.  Nothing is asked of the IDE or of the debug server,*)
(* and the debuggee need not exit by itself.                               *)
FairSpec ==
    /\ Spec
    /\ WF_vars(~IdeSilent /\ ~ServerSilent /\ IdeThread)
    /\ WF_vars(~ServerSilent /\ FinalizeStep)
    /\ WF_vars(LauncherThread) /\ WF_vars(ServerDisconnect)
    /\ WF_vars(LauncherHandler) /\ WF_vars(ExitThread)
    /\ WF_vars(SubprocessEnds)
    /\ WF_vars(deb = "exited" /\ DebugServerDown)

-----------------------------------------------------------------------------
Orphaned == lp.pc \in {"died", "crashed"}

(* "exited" is never reported to the IDE after "terminated", nor twice:    *)
(* finalize() waits until the messages of the launcher have been handled.  *)
EventsInOrder == told \in {<<>>, <<"exited">>, <<"terminated">>, <<"exited", "terminated">>}

(* An IDE that has been told "terminated" by finalize() is not left with a *)
(* debuggee that still runs, as long as the launcher was there to kill it. *)
(* A launcher that leaves in good order leaves no debuggee behind either.  *)
NoneSurvives ==
    /\ fin.at = "done" /\ ~Orphaned => deb # "running"
    /\ lp.pc = "exited" => deb # "running"

(* The launcher kills the debuggee only when the session is finalized or   *)
(* the adapter has gone: never because of an event it has sent itself.     *)
KilledOnPurpose ==
    [][deb = "running" /\ deb' = "exited" /\ lp' # lp
       => fin.at # "none" \/ ~adapter]_vars

(* finalize() has no way out when the launcher runs but never spawned a    *)
(* debuggee: nothing will make it disconnect (see AlwaysFinalizes).        *)
NothingToEnd ==
    fin.at = "drain" /\ lch.conn = "yes" /\ deb = "none" /\ ~Orphaned

(* A "launch" that has lost its launcher but not its debuggee goes on      *)
(* although the session has been finalized meanwhile, and attaches a debug *)
(* server that nothing detaches any more.                                  *)
Stranded == lp.pc = "crashed" /\ fin.at = "done" /\ srv = "yes"

(* finalize() returns, although it waits for the launcher, the server and  *)
(* the user, and although messages are handled meanwhile; and when the IDE *)
(* has gone, every component disconnects in the end: then the session is   *)
(* removed and the adapter can exit (Session._finalize, notify_changed).   *)
(* Provided that the debug server does not leave unanswered for ever a     *)
(* request that is made with the session locked, such as the "disconnect"  *)
(* of finalize() itself: nothing bounds the wait for it.                   *)
SessionEnds ==
    []<>~ServerAsked =>
        /\ fin.at # "none" ~> (fin.at = "done" \/ ~adapter \/ NothingToEnd)
        /\ ide.left ~> ((ide.conn = "no" /\ lch.conn # "yes" /\ srv # "yes")
                     \/ ~adapter \/ NothingToEnd \/ Stranded)

(* If the adapter is gone the debuggee is killed, unless its launcher was  *)
(* lost as well: killed, or ended by a message it could not write.         *)
DebuggeeFollows == ~adapter ~> (deb # "running" \/ Orphaned)

(* "the final "terminated" event will only come after reading user input": *)
(* it comes at last, and finalize() returns (comment in Session._finalize).*)
AlwaysFinalizes == fin.at # "none" ~> (fin.at = "done" \/ ~adapter)
=============================================================================
