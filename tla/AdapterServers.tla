--------------------------- MODULE AdapterServers ---------------------------
(***************************************************************************)
(* The debug servers connected to the adapter and the threads that wait    *)
(* for them: src/ptvsd/adapter/servers.py, the registry of sessions in     *)
(* src/ptvsd/adapter/sessions.py, and the end of main() in                 *)
(* src/ptvsd/adapter/__main__.py.                                          *)
(*                                                                         *)
(* Threads: the main thread, which waits for all servers and then for all  *)
(* sessions to be gone; the accept thread of the server listener, which    *)
(* runs Connection.__init__ for one connection after another; a message    *)
(* handler thread for each connection, which matters here for its          *)
(* disconnect() handler; a message handler thread for each IDE, which runs *)
(* "attach", "disconnect" and the IDE's own disconnect() with the session  *)
(* locked; and the timers that wait_for_connection() starts.               *)
(*                                                                         *)
(* Sessions here are "attach" sessions, which have an IDE and at most one  *)
(* server, and no launcher.                                                *)
(***************************************************************************)
EXTENDS Naturals, SequencesExt

CONSTANTS
    Conns,      \* connections of debug servers
    Sess,       \* sessions, one for each connection of an IDE
    Main,       \* the main thread
    None,
    Waits,      \* what wait_for_connection() is asked for
    MaxAttach   \* bound: "attach" requests of each IDE

ASSUME ServersConstants ==
    /\ Main \notin Sess /\ None \notin Conns \cup Sess
    /\ "ide" \notin Conns \cup {None}
    /\ Conns \cap Sess = {}
    /\ Waits \subseteq {"no_wait", "timeout", "forever"}
    /\ MaxAttach \in Nat

VARIABLES
    listed,     \* _connections, oldest first
    flag,       \* _connections_changed: its flag,
    asleep,     \* and the threads inside its wait()
    lock,       \* servers._lock: None, or the connection whose disconnect() keeps it
    registered, \* sessions._sessions
    sflag,      \* the flag of sessions._sessions_changed
    mpc,        \* main thread
    accept,     \* accept thread: where it is, its connection, the parent session
    conn,       \* each connection: its link, its disconnect() handler (pc),
                \*   Connection.disconnected, Connection.server (as a session), and
                \*   the session of the Server whose disconnect() it runs (owner)
    sess,       \* each session: where the IDE's handler thread is (pc), what it
                \*   waits for, IDE.is_connected ("new" before the IDE connects),
                \*   whether the IDE has left, who has the lock of the session,
                \*   session.server and its is_connected, and is_finalizing
    timers      \* timer threads that have timed out but not called set() yet

mains == <<mpc, registered, sflag>>
vars  == <<listed, flag, asleep, lock, mains, accept, conn, sess, timers>>

ConnStates ==
    [link : {"new", "up", "down"},
     pc : {"none", "connection", "via_server", "server", "session", "unblock",
           "detach", "done", "dead"},
     disconnected : BOOLEAN, server : Sess \cup {None}, owner : Sess \cup {None}]
SessStates ==
    [pc : {"idle", "search", "gap", "asleep", "attach", "request", "unblock",
           "disconnect", "detach", "dead"},
     want : SUBSET Conns, wait : Waits \cup {None}, timedOut : BOOLEAN,
     found : Conns \cup {None}, attaches : 0..MaxAttach,
     ide : {"new", "yes", "no"}, left : BOOLEAN, lock : Conns \cup {None, "ide"},
     srv : {"none", "yes", "no"}, finalizing : BOOLEAN]

TypeOK ==
    /\ listed \in Seq(Conns)
    /\ flag \in BOOLEAN /\ asleep \subseteq Sess \cup {Main}
    /\ lock \in Conns \cup {None}
    /\ registered \subseteq Sess /\ sflag \in BOOLEAN
    /\ mpc \in {"wait", "asleep", "check", "ended_wait", "ended_check", "done", "dead"}
    /\ accept \in [pc : {"accept", "init", "notify", "dead"}, conn : Conns \cup {None},
                   parent : Sess \cup {None}]
    /\ conn \in [Conns -> ConnStates] /\ sess \in [Sess -> SessStates]
    /\ timers \in Nat

Init ==
    /\ listed = <<>> /\ flag = FALSE /\ asleep = {} /\ lock = None
    /\ registered = {} /\ sflag = FALSE /\ mpc = "wait"
    /\ accept = [pc |-> "accept", conn |-> None, parent |-> None]
    /\ conn = [c \in Conns |->
                [link |-> "new", pc |-> "none", disconnected |-> FALSE,
                 server |-> None, owner |-> None]]
    /\ sess = [s \in Sess |->
                [pc |-> "idle", want |-> {}, wait |-> None, timedOut |-> FALSE,
                 found |-> None, attaches |-> 0, ide |-> "new", left |-> FALSE,
                 lock |-> None, srv |-> "none", finalizing |-> FALSE]]
    /\ timers = 0

-----------------------------------------------------------------------------
(* threading.Event: set() wakes the threads that are inside wait(), and    *)
(* leaves the flag for those that come later, until someone clears it.     *)
SetChanged == flag' = TRUE /\ asleep' = {}
Clear == flag' = FALSE /\ UNCHANGED asleep

(* dont_wait_for_first_connection() *)
Release == SetChanged

Keeps(c) == c \in Conns /\ UNCHANGED listed      \* faulty: nothing is removed
Delist(c) == listed' = RemoveFirst(listed, c)

(* Session.notify_changed(), as every assignment to an attribute of a      *)
(* component calls it: a session ends once no component is connected.      *)
EndsWithIde(s) ==       \* faulty: without a look at the server
    s \in registered /\ sess'[s].ide = "no"
EndsAlone(s) ==         \* faulty: a server that has gone counts as connected
    s \in registered /\ sess'[s].ide = "no" /\ sess'[s].srv = "none"
Ends(s) == s \in registered /\ sess'[s].ide = "no" /\ sess'[s].srv # "yes"
NotifyChanged(s) ==
    /\ registered' = IF Ends(s) THEN registered \ {s} ELSE registered
    /\ sflag' = (sflag \/ Ends(s))

-----------------------------------------------------------------------------
(* The accept thread: Connection.__init__. *)
Accept(c) ==
    /\ accept.pc = "accept" /\ conn[c].link = "new"
    /\ accept' = [pc |-> "init", conn |-> c, parent |-> None]
    /\ conn' = [conn EXCEPT ![c].link = "up"]
    /\ UNCHANGED <<listed, flag, asleep, lock, mains, sess, timers>>

(* The server could not be identified, went away meanwhile, or has the     *)
(* process id of a server that is listed already.                          *)
InitFails ==
    /\ accept.pc = "init" /\ lock = None
    /\ accept' = [accept EXCEPT !.pc = "accept"]
    /\ conn' = [conn EXCEPT ![accept.conn].link = "down"]
    /\ Release
    /\ UNCHANGED <<listed, lock, mains, sess, timers>>

NeverGone(c) == c \notin Conns                    \* faulty: without the check
Gone(c) == conn[c].disconnected

WrongEntry == accept.parent                     \* faulty: the parent's session
Entry == accept.conn

Register ==
    /\ accept.pc = "init" /\ lock = None
    /\ IF Gone(accept.conn)
         THEN /\ accept' = [accept EXCEPT !.pc = "accept"]
              /\ UNCHANGED <<listed, flag, asleep>>
         ELSE /\ listed' = Append(listed, Entry)
              /\ SetChanged
              /\ \E p \in registered \cup {None} :
                    accept' = [accept EXCEPT !.pc = "notify", !.parent = p]
    /\ UNCHANGED <<lock, mains, conn, sess, timers>>

(* notify_of_subprocess() locks the parent session.  The parent is the     *)
(* session whose pid is the server's ppid, and that is a session without a *)
(* server if the server has no ppid.                                       *)
Notify ==
    /\ accept.pc = "notify"
    /\ accept.parent # None => sess[accept.parent].lock = None
    /\ accept' = [accept EXCEPT !.pc = "accept", !.parent = None]
    /\ UNCHANGED <<listed, flag, asleep, lock, mains, conn, sess, timers>>

-----------------------------------------------------------------------------
(* A server goes away; later, its channel runs the disconnect() handler of *)
(* what is then channel.handlers: the Connection, or its Server component. *)
ServerGoes(c) ==
    /\ conn[c].link = "up"
    /\ conn' = [conn EXCEPT ![c].link = "down"]
    /\ UNCHANGED <<listed, flag, asleep, lock, mains, accept, sess, timers>>

BeginDisconnect(c) ==
    /\ conn[c].link = "down" /\ conn[c].pc = "none"
    /\ conn' = [conn EXCEPT ![c].pc =
                    IF conn[c].server = None THEN "connection" ELSE "server",
                            ![c].owner = conn[c].server]
    /\ UNCHANGED <<listed, flag, asleep, lock, mains, accept, sess, timers>>

(* Connection.disconnect(): if a Server was attached since its handler was *)
(* looked up, Server.disconnect() is called with servers._lock held.       *)
ConnectionDisconnect(c) ==
    /\ conn[c].pc = "connection" /\ lock = None
    /\ Delist(c)
    /\ IF c \in ToSet(listed) THEN SetChanged ELSE UNCHANGED <<flag, asleep>>
    /\ IF conn[c].server = None
         THEN /\ conn' = [conn EXCEPT ![c].disconnected = TRUE, ![c].pc = "done"]
              /\ UNCHANGED lock
         ELSE /\ conn' = [conn EXCEPT ![c].disconnected = TRUE, ![c].pc = "via_server",
                                      ![c].owner = conn[c].server]
              /\ lock' = c
    /\ UNCHANGED <<mains, accept, sess, timers>>

ViaServer(c) ==
    LET s == conn[c].owner IN
    /\ conn[c].pc = "via_server" /\ sess[s].lock = None
    /\ sess' = [sess EXCEPT ![s].srv = "no", ![s].finalizing = TRUE]
    /\ NotifyChanged(s)
    /\ conn' = [conn EXCEPT ![c].pc = "done",
                            ![c].server = IF sess[s].finalizing THEN @ ELSE None]
    /\ IF sess[s].finalizing THEN UNCHANGED <<flag, asleep>> ELSE Release
    /\ lock' = None
    /\ UNCHANGED <<listed, mpc, accept, timers>>

(* Server.disconnect(): the connection is delisted, and then, with the     *)
(* session locked, Component.disconnect() finalizes it.                    *)
ServerDisconnect(c) ==
    /\ conn[c].pc = "server" /\ lock = None
    /\ Delist(c) /\ SetChanged
    /\ conn' = [conn EXCEPT ![c].pc = "session"]
    /\ UNCHANGED <<lock, mains, accept, sess, timers>>

SessionDisconnect(c) ==
    LET s == conn[c].owner
        lead == ~sess[s].finalizing IN
    /\ conn[c].pc = "session" /\ sess[s].lock = None
    /\ sess' = [sess EXCEPT ![s].srv = "no", ![s].finalizing = TRUE,
                            ![s].lock = IF lead THEN c ELSE None]
    /\ NotifyChanged(s)
    /\ conn' = [conn EXCEPT ![c].pc = IF lead THEN "unblock" ELSE "done"]
    /\ UNCHANGED <<listed, flag, asleep, lock, mpc, accept, timers>>

ServerUnblocks(c) ==
    /\ conn[c].pc = "unblock" /\ lock = None
    /\ Release
    /\ conn' = [conn EXCEPT ![c].pc = "detach"]
    /\ UNCHANGED <<listed, lock, mains, accept, sess, timers>>

ServerDetaches(c) ==
    /\ conn[c].pc = "detach" /\ lock = None
    /\ conn' = [conn EXCEPT ![c].pc = "done", ![c].server = None]
    /\ sess' = [sess EXCEPT ![conn[c].owner].lock = None]
    /\ UNCHANGED <<listed, flag, asleep, lock, mains, accept, timers>>

-----------------------------------------------------------------------------
(* The IDE and its handler thread. *)
IdeConnects(s) ==
    /\ sess[s].ide = "new"
    /\ sess' = [sess EXCEPT ![s].ide = "yes"]
    /\ registered' = registered \cup {s} /\ sflag' = TRUE
    /\ UNCHANGED <<listed, flag, asleep, lock, mpc, accept, conn, timers>>

IdeLeaves(s) ==
    /\ sess[s].ide = "yes" /\ ~sess[s].left
    /\ sess' = [sess EXCEPT ![s].left = TRUE]
    /\ UNCHANGED <<listed, flag, asleep, lock, mains, accept, conn, timers>>

Free(s) == sess[s].pc = "idle" /\ sess[s].ide = "yes" /\ sess[s].lock = None

(* "attach": which connections the predicate accepts, and how long to wait. *)
BeginAttach(s, P, w) ==
    /\ Free(s) /\ sess[s].srv = "none" /\ sess[s].attaches < MaxAttach
    /\ sess' = [sess EXCEPT ![s].pc = "search", ![s].lock = "ide", ![s].want = P,
                            ![s].wait = w, ![s].timedOut = (w = "no_wait"),
                            ![s].attaches = @ + 1]
    /\ UNCHANGED <<listed, flag, asleep, lock, mains, accept, conn, timers>>

(* A request that fails with an error the IDE has been sent already: the   *)
(* decorator replaces the error, the message loop asserts that it is the   *)
(* one that was sent, and the process exits (see RequestHandling).         *)
ProcessExits ==
    /\ conn' = [c \in Conns |-> [conn[c] EXCEPT !.pc = "dead"]]
    /\ sess' = [t \in Sess |-> [sess[t] EXCEPT !.pc = "dead", !.wait = None]]
    /\ accept' = [accept EXCEPT !.pc = "dead"]
    /\ mpc' = "dead" /\ timers' = 0

(* wait_for_connection(): clear the event and look.  A timer that is still *)
(* running when the call returns will call set() all the same.             *)
Oldest(s)  == SelectInSeq(listed, LAMBDA c : c \in sess[s].want)
Matches(s) == Oldest(s) # 0
TimerRuns(s) == sess[s].wait = "timeout" /\ ~sess[s].timedOut

Search(s) ==
    /\ sess[s].pc = "search" /\ lock = None
    /\ Clear
    /\ \/ /\ Matches(s)
          /\ sess' = [sess EXCEPT ![s].pc = "attach", ![s].found = listed[Oldest(s)],
                                  ![s].wait = None]
          /\ timers' = IF TimerRuns(s) THEN timers + 1 ELSE timers
       \/ /\ ~Matches(s) /\ ~sess[s].timedOut
          /\ sess' = [sess EXCEPT ![s].pc = "gap"]
          /\ UNCHANGED timers
    /\ UNCHANGED <<listed, lock, mains, accept, conn>>

(* ... and None when the time is over: attach_request raises cant_handle().*)
SearchFails(s) ==
    /\ sess[s].pc = "search" /\ lock = None
    /\ ~Matches(s) /\ sess[s].timedOut
    /\ Clear /\ ProcessExits
    /\ UNCHANGED <<listed, lock, registered, sflag>>

EventWait(s) ==
    /\ sess[s].pc = "gap"
    /\ sess' = [sess EXCEPT ![s].pc = IF flag THEN "search" ELSE "asleep"]
    /\ asleep' = IF flag THEN asleep ELSE asleep \cup {s}
    /\ UNCHANGED <<listed, flag, lock, mains, accept, conn, timers>>

Wakes(s) ==
    /\ sess[s].pc = "asleep" /\ s \notin asleep
    /\ sess' = [sess EXCEPT ![s].pc = "search"]
    /\ UNCHANGED <<listed, flag, asleep, lock, mains, accept, conn, timers>>

TimeOut(s) ==
    /\ TimerRuns(s)
    /\ sess' = [sess EXCEPT ![s].timedOut = TRUE]
    /\ timers' = timers + 1
    /\ UNCHANGED <<listed, flag, asleep, lock, mains, accept, conn>>

TimerSets ==
    /\ timers > 0 /\ lock = None
    /\ SetChanged
    /\ timers' = timers - 1
    /\ UNCHANGED <<listed, lock, mains, accept, conn, sess>>

(* attach_to_session().  If another session was faster, it raises, the     *)
(* error response is sent without leaving the handler, and the handler     *)
(* fails on the missing server with the request already answered, which    *)
(* is an assertion failure: the process exits.                             *)
NotTaken(c) == c \notin Conns                     \* faulty: without the check
Taken(c) == conn[c].server # None

AttachServer(s) ==
    LET c == sess[s].found IN
    /\ sess[s].pc = "attach" /\ lock = None /\ ~Taken(c)
    /\ conn' = [conn EXCEPT ![c].server = s]
    /\ sess' = [sess EXCEPT ![s].srv = "yes", ![s].pc = "request"]
    /\ UNCHANGED <<listed, flag, asleep, lock, mains, accept, timers>>

AttachFails(s) ==
    /\ sess[s].pc = "attach" /\ lock = None /\ Taken(sess[s].found)
    /\ ProcessExits
    /\ UNCHANGED <<listed, flag, asleep, lock, registered, sflag>>

(* The requests to the server: those of _start_message_handler once it is  *)
(* attached, those that the IDE's requests are delegated to (before the    *)
(* IDE leaves, but also after the server is detached: its channel is open),*)
(* and "disconnect" below.  Each is waited for without a timeout, with the *)
(* session locked, until the server answers or its connection is lost.  (A *)
(* request on a connection that is lost already fails at once.)            *)
Asks(s) == sess[s].pc \in {"request", "disconnect"}
Link(s) == conn[sess[s].found].link

DelegateRequest(s) ==
    /\ Free(s) /\ ~sess[s].left
    /\ sess[s].srv # "none" /\ Link(s) = "up"
    /\ sess' = [sess EXCEPT ![s].pc = "request", ![s].lock = "ide"]
    /\ UNCHANGED <<listed, flag, asleep, lock, mains, accept, conn, timers>>

RequestEnds(s) ==
    /\ Asks(s)
    /\ sess' = IF sess[s].pc = "request"
                 THEN [sess EXCEPT ![s].pc = "idle", ![s].lock = None]
                 ELSE [sess EXCEPT ![s].pc = "detach"]
    /\ UNCHANGED <<listed, flag, asleep, lock, mains, accept, conn, timers>>

RequestAnswered(s) == RequestEnds(s) /\ Link(s) = "up"
RequestLost(s) == RequestEnds(s) /\ Link(s) = "down"

(* Session.finalize(), with the session locked: on the request of the IDE, *)
(* or when the IDE has disconnected.                                       *)
IdeFinalizes(s, connected) ==
    /\ Free(s)
    /\ sess' = [sess EXCEPT ![s].ide = connected, ![s].finalizing = TRUE,
                            ![s].lock = IF sess[s].finalizing THEN None ELSE "ide",
                            ![s].pc = IF sess[s].finalizing THEN "idle" ELSE "unblock"]
    /\ NotifyChanged(s)
    /\ UNCHANGED <<listed, flag, asleep, lock, mpc, accept, conn, timers>>

DisconnectRequest(s) == ~sess[s].finalizing /\ IdeFinalizes(s, "yes")
IdeDisconnect(s) == sess[s].left /\ IdeFinalizes(s, "no")

IdeUnblocks(s) ==
    /\ sess[s].pc = "unblock" /\ lock = None
    /\ Release
    /\ \/ /\ sess[s].srv = "none"
          /\ sess' = [sess EXCEPT ![s].pc = "idle", ![s].lock = None]
       \/ /\ sess[s].srv # "none"
          /\ sess' = [sess EXCEPT ![s].pc = IF sess[s].srv = "yes" THEN "disconnect"
                                                                  ELSE "detach"]
    /\ UNCHANGED <<listed, lock, mains, accept, conn, timers>>

(* Server.detach_from_session(): the Connection takes over again. *)
IdeDetaches(s) ==
    /\ sess[s].pc = "detach" /\ lock = None
    /\ sess' = [sess EXCEPT ![s].pc = "idle", ![s].lock = None, ![s].srv = "no"]
    /\ conn' = [c \in Conns |-> IF conn[c].server = s
                                  THEN [conn[c] EXCEPT !.server = None] ELSE conn[c]]
    /\ NotifyChanged(s)
    /\ UNCHANGED <<listed, flag, asleep, lock, mpc, accept, timers>>

-----------------------------------------------------------------------------
(* The main thread: servers.wait_until_disconnected(), and then            *)
(* sessions.wait_until_ended(), which is alone to clear its event.         *)
MainWaits ==
    /\ mpc = "wait"
    /\ mpc' = IF flag THEN "check" ELSE "asleep"
    /\ asleep' = IF flag THEN asleep ELSE asleep \cup {Main}
    /\ UNCHANGED <<listed, flag, lock, registered, sflag, accept, conn, sess, timers>>

MainWakes ==
    /\ mpc = "asleep" /\ Main \notin asleep
    /\ mpc' = "check"
    /\ UNCHANGED <<listed, flag, asleep, lock, registered, sflag, accept, conn, sess,
                   timers>>

MainChecks ==
    /\ mpc = "check" /\ lock = None
    /\ Clear
    /\ mpc' = IF listed = <<>> THEN "ended_wait" ELSE "wait"
    /\ UNCHANGED <<listed, lock, registered, sflag, accept, conn, sess, timers>>

MainAwaitsSessions ==
    /\ \/ mpc = "ended_wait" /\ sflag /\ mpc' = "ended_check" /\ UNCHANGED sflag
       \/ /\ mpc = "ended_check" /\ sflag' = FALSE
          /\ mpc' = IF registered = {} THEN "done" ELSE "ended_wait"
    /\ UNCHANGED <<listed, flag, asleep, lock, registered, accept, conn, sess, timers>>

-----------------------------------------------------------------------------
AcceptStep == InitFails \/ Register \/ Notify
ConnStep(c) ==
    \/ BeginDisconnect(c) \/ ConnectionDisconnect(c) \/ ViaServer(c)
    \/ ServerDisconnect(c) \/ SessionDisconnect(c)
    \/ ServerUnblocks(c) \/ ServerDetaches(c)
IdeStep(s) ==
    \/ Search(s) \/ SearchFails(s) \/ EventWait(s) \/ Wakes(s)
    \/ AttachServer(s) \/ AttachFails(s) \/ RequestLost(s)
    \/ IdeDisconnect(s) \/ IdeUnblocks(s) \/ IdeDetaches(s)
MainStep == MainWaits \/ MainWakes \/ MainChecks \/ MainAwaitsSessions

Next ==
    \/ \E c \in Conns : Accept(c) \/ ServerGoes(c) \/ ConnStep(c)
    \/ AcceptStep
    \/ \E s \in Sess :
          \/ IdeConnects(s) \/ IdeLeaves(s) \/ DisconnectRequest(s) \/ TimeOut(s)
          \/ DelegateRequest(s) \/ RequestAnswered(s)
          \/ \E P \in SUBSET Conns, w \in Waits : BeginAttach(s, P, w)
          \/ IdeStep(s)
    \/ TimerSets
    \/ MainStep

(* Every thread that can go on is scheduled, and time passes.  Nothing is  *)
(* assumed of servers and IDEs: a server need not answer what it is asked  *)
(* by Connection.__init__ or by the handlers of an IDE, and both wait for  *)
(* it until its connection is lost.                                        *)
HandshakeLost ==
    accept.pc = "init" /\ conn[accept.conn].link = "down" /\ (InitFails \/ Register)

Fairness ==
    /\ WF_vars(HandshakeLost) /\ WF_vars(Notify)
    /\ WF_vars(TimerSets) /\ WF_vars(MainStep)
    /\ \A c \in Conns : WF_vars(ConnStep(c))
    /\ \A s \in Sess : WF_vars(IdeStep(s)) /\ WF_vars(TimeOut(s))

Spec == Init /\ [][Next]_vars
FairSpec == Spec /\ Fairness

-----------------------------------------------------------------------------
(* The properties. *)

(* A connection is listed once, and only until its disconnect() handler    *)
(* has run: whichever of the registration at the end of Connection.__init__*)
(* and the disconnect comes first, no dead server stays in _connections,   *)
(* and Server.disconnect() always finds its connection there to remove.    *)
ListedAreLive ==
    /\ \A i, j \in 1..Len(listed) : listed[i] = listed[j] => i = j
    /\ \A c \in ToSet(listed) :
          ~conn[c].disconnected /\ conn[c].pc \in {"none", "connection", "server", "dead"}
    /\ \A c \in Conns :
          conn[c].pc = "server" \/ (conn[c].pc = "connection" /\ conn[c].server # None)
          => c \in ToSet(listed)

(* A server belongs to one session and a session has one server, however   *)
(* many IDEs found the same connection at the same time                    *)
(* (Connection.attach_to_session, Server.detach_from_session).             *)
OneServerEach ==
    /\ \A c, d \in Conns : conn[c].server # None /\ conn[c].server = conn[d].server => c = d
    /\ \A s \in Sess : sess[s].srv = "yes" => \E c \in Conns : conn[c].server = s

(* A session is in the registry exactly while one of its components is     *)
(* connected, which is what wait_until_ended() relies on                   *)
(* (Session.register, Session.notify_changed).                             *)
RegisteredWhileConnected ==
    \A s \in Sess :
        s \in registered <=> sess[s].ide = "yes" \/ sess[s].srv = "yes"

(* The two locks are taken in opposite orders: the disconnect() of a       *)
(* connection that has just become a Server wants the lock of the session  *)
(* with servers._lock held, the IDE's handlers the other way round.        *)
Deadlocked == \E c \in Conns : conn[c].pc = "via_server"
                            /\ sess[conn[c].owner].lock = "ide"
                            /\ sess[conn[c].owner].pc \in {"unblock", "disconnect", "detach"}
Over == Deadlocked \/ mpc = "dead"

(* The main thread gets out of wait_until_ended() when the last session    *)
(* has ended, whichever of the events that it was woken for it has cleared *)
(* before; it need not if there never was a session.                       *)
MainReturns ==
    (/\ mpc \in {"ended_wait", "ended_check"} /\ registered = {}
     /\ \E s \in Sess : sess[s].ide # "new")
    ~> (mpc = "done" \/ registered # {} \/ Over)

(* When the IDE has gone, the session ends, even if its server had gone    *)
(* before it was attached, provided that the server does not leave a       *)
(* request of the session unanswered for ever: the handlers of the IDE     *)
(* wait for it with the session locked, and so does finalize().  (Short of *)
(* the deadlock above; and unless the IDE has sent "attach" after          *)
(* "disconnect", which nothing refuses and nothing undoes.  Stated for     *)
(* "no_wait" attaches: others can sleep through their own time-out.)       *)
(* And the end of the last session lets the main thread return.            *)
Stranded(s) == sess[s].finalizing /\ sess[s].srv = "yes" /\ sess[s].pc = "idle"
SessionsEnd ==
    /\ MainReturns
    /\ \A s \in Sess :
          []<>~Asks(s)
          => (sess[s].left ~> (s \notin registered \/ Over \/ Stranded(s)))

(* A server that has gone is removed from the list. *)
GoneAreRemoved ==
    \A c \in Conns : (conn[c].link = "down") ~> (c \notin ToSet(listed) \/ Over)

(* What the documentation says and the code does not do. *)

Waiting(s) == sess[s].pc \in {"search", "gap", "asleep"}

(* "Waits until there is a server with the specified PID connected to this *)
(* adapter, and returns the corresponding Connection"                      *)
(* (wait_for_connection).                                                  *)
FindsConnection ==
    \A s \in Sess :
        (Waiting(s) /\ Matches(s))
        ~> (~Waiting(s) \/ ~Matches(s))

(* "we need to tell it, so that it can clean up via Session.finalize()"    *)
(* (Connection.disconnect).                                                *)
CleansUp ==
    \A c \in Conns : (conn[c].pc = "via_server") ~> (conn[c].pc # "via_server")
=============================================================================
