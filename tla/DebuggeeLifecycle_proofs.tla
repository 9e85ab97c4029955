----------------------- MODULE DebuggeeLifecycle_proofs -----------------------
(***************************************************************************)
(* Proofs about DebuggeeLifecycle, for every set of processes that may be  *)
(* killed and every number of "launch" requests.                           *)
(***************************************************************************)
EXTENDS DebuggeeLifecycle, SequenceTheorems, TLAPS

(* The launcher has still to handle this request; the IDE knows of the exit. *)
Asked(r) == toLch # <<>> /\ Head(toLch) = r
ExitTold == told \in {<<"exited">>, <<"exited", "terminated">>}

(* The launcher process and the debuggee: the thread that waits for its    *)
(* exit is started once, and goes on when it has exited; a launcher that   *)
(* leaves has killed it.                                                   *)
ProcessInv ==
    /\ Asked("launch") \/ lp.pc \in {"none", "spawned"} => lp.wt = "none"
    /\ lp.wt \notin {"none", "wait"} => deb = "exited"
    /\ lp.pc \in {"leaving", "exited"} => deb # "running"

(* A launcher that has not connected has done nothing; one that is finished*)
(* with has sent "terminated" or is gone.                                  *)
LauncherInv ==
    /\ lch.conn = "none" =>
          /\ lp.pc = "none" /\ deb = "none"
          /\ toLch = <<>> /\ toAdp = <<>> /\ reply = "none" /\ ~lch.closed
    /\ lch.closed \/ lch.conn = "no" => lp.wt = "done" \/ ListenerGone

(* finalize() starts with the session unlocked.  It goes on to tell the    *)
(* IDE only without a launcher, and asks one only that has connected.      *)
PhaseInv ==
    /\ ide.pc \in {"spawn", "request"} => fin.at = "none"
    /\ ide.pc = "spawn" => lch.conn = "none"
    /\ fin.at \in {"terminate", "exit", "kill", "killing", "drain"} => lch.conn # "none"
    /\ fin.at \in {"tell", "done"} => lch.conn # "yes"

(* A request to the launcher that somebody waits for is the only one.      *)
Pending == toLch # <<>> \/ reply # "none" \/ lp.pc = "spawned"
RequestInv ==
    /\ Pending => \/ ide.pc = "request" \/ fin.at \in {"terminate", "killing"}
                  \/ lch.closed \/ ListenerGone
    /\ reply # "none" => toLch = <<>> /\ lp.pc # "spawned"
    /\ lp.pc = "spawned" => toLch = <<>>
    /\ Asked("terminate") \/ lp.pc = "kill" => fin.at # "none"

(* "terminated" is the last event of the launcher; the IDE is told of the  *)
(* exit when it has been handled.                                          *)
EventInv ==
    /\ \A i \in 1..Len(toAdp) : toAdp[i] = "terminated" => i = Len(toAdp) /\ lp.wt = "done"
    /\ ExitTold =>
          lp.wt = "done" /\ \A i \in 1..Len(toAdp) : toAdp[i] # "terminated"
    /\ fin.at # "done" => told \in {<<>>, <<"exited">>}

IInv ==
    /\ TypeOK /\ EventsInOrder
    /\ ProcessInv /\ LauncherInv /\ PhaseInv /\ RequestInv /\ EventInv

-----------------------------------------------------------------------------
(* At most one request is on its way to the launcher.                      *)
LEMMA Short ==
    ASSUME NEW S, NEW q \in Seq(S), Len(q) <= 1, q # <<>>
    PROVE  Len(q) = 1 /\ Tail(q) = <<>>
<1>1. Len(q) \in Nat \ {0}
  BY EmptySeq
<1>2. Len(q) = 1
  BY <1>1
<1>3. Tail(q) \in Seq(S) /\ Len(Tail(q)) = 0
  BY <1>2, HeadTailProperties
<1>4. Tail(q) = <<>>
  BY <1>3, EmptySeq
<1>5. QED
  BY <1>2, <1>4

(* The event that is handled next, and those after it.                     *)
LEMMA NextEvent ==
    ASSUME IInv, toAdp # <<>>
    PROVE  /\ Head(toAdp) = "terminated" =>
                  Len(Tail(toAdp)) = 0 /\ lp.wt = "done" /\ ~ExitTold
           /\ \A i \in 1..Len(Tail(toAdp)) :
                  Tail(toAdp)[i] = "terminated" =>
                      i = Len(Tail(toAdp)) /\ lp.wt = "done" /\ ~ExitTold
<1>1. toAdp \in Seq(Events)
  BY DEF IInv, TypeOK
<1>2. /\ Len(toAdp) \in Nat \ {0} /\ Len(Tail(toAdp)) = Len(toAdp) - 1
      /\ \A i \in 1..Len(Tail(toAdp)) : Tail(toAdp)[i] = toAdp[i + 1]
      /\ Head(toAdp) = toAdp[1]
  BY <1>1, EmptySeq, HeadTailProperties
<1>3. \A i \in 1..Len(toAdp) :
         toAdp[i] = "terminated" => i = Len(toAdp) /\ lp.wt = "done" /\ ~ExitTold
  BY DEF IInv, EventInv
<1>4. ASSUME Head(toAdp) = "terminated"
      PROVE  Len(Tail(toAdp)) = 0 /\ lp.wt = "done" /\ ~ExitTold
  <2>1. 1 \in 1..Len(toAdp) /\ toAdp[1] = "terminated"
    BY <1>2, <1>4
  <2>2. Len(toAdp) = 1 /\ lp.wt = "done" /\ ~ExitTold
    BY <1>3, <2>1
  <2>3. QED
    BY <1>2, <2>2
<1>5. ASSUME NEW i \in 1..Len(Tail(toAdp)), Tail(toAdp)[i] = "terminated"
      PROVE  i = Len(Tail(toAdp)) /\ lp.wt = "done" /\ ~ExitTold
  <2>1. i + 1 \in 1..Len(toAdp) /\ toAdp[i + 1] = "terminated"
    BY <1>2, <1>5
  <2>2. i + 1 = Len(toAdp) /\ lp.wt = "done" /\ ~ExitTold
    BY <1>3, <2>1
  <2>3. i \in Int /\ Len(toAdp) \in Int
    BY <1>2
  <2>4. i = Len(toAdp) - 1
    BY <2>2, <2>3
  <2>5. QED
    BY <1>2, <2>2, <2>4
<1>6. QED
  BY <1>4, <1>5

(* Which steps change what.                                                *)
LEMMA Changes ==
    [Next]_vars =>
        /\ ide' = ide \/ LauncherConnects \/ SpawnFails \/ LaunchAnswered \/
              ProcessKnown \/ ServerAttached \/ DelegateRequest \/ ServerAnswers \/
              IdeDisconnect \/ (\E debug \in BOOLEAN : BeginLaunch(debug)) \/ IdeLeaves
        /\ lch' = lch \/ LauncherConnects \/ LauncherEvent \/ LauncherDisconnect \/
              Drained
        /\ fin' = fin \/ IdeDisconnect \/ (\E want \in {"default", "yes", "no"} :
              EndRequest(want)) \/ ServerDisconnect \/ LauncherDisconnect \/
              FinalizeServer \/ TerminateAnswered \/ DisconnectAnswered \/
              DetachServer \/ ExitAwaited \/ KillDebuggee \/ Drained \/ TellIde
        /\ told' = told \/ LauncherEvent \/ TellIde
        /\ toLch' = toLch \/ LauncherConnects \/ FinalizeServer \/ KillDebuggee \/
              LaunchRequest \/ TerminateRequest
        /\ toAdp' = toAdp \/ LauncherEvent \/ Spawned \/ SendExited \/ SendTerminated
        /\ reply' = reply \/ LaunchAnswered \/ TerminateAnswered \/ LaunchRequest \/
              Spawned \/ TerminateRequest
        /\ lp' = lp \/ LauncherConnects \/ LaunchRequest \/ Spawned \/
              TerminateRequest \/ TerminateKills \/ LauncherLoopEnds \/ LauncherExits
              \/ ExitSeen \/ SendExited \/ UserInput \/ SendTerminated \/ Crash
        /\ deb' = deb \/ DisconnectAnswered \/ LaunchRequest \/ TerminateKills \/
              LauncherLoopEnds \/ LauncherExits \/ DebuggeeExits
  BY ZenonT(60) DEF Next, IdeThread, Requests, LauncherThread, FinalizeStep, LauncherHandler, ExitThread, Outside, vars, inAdapter, wires, launcher,
     LauncherConnects, SpawnFails, LaunchAnswered, ProcessKnown, ServerAttached, DelegateRequest, ServerAnswers, IdeDisconnect, BeginLaunch, EndRequest, ServerDisconnect, LauncherEvent, LauncherDisconnect, FinalizeServer, TerminateAnswered, DisconnectAnswered, DetachServer, ExitAwaited, KillDebuggee, Drained, TellIde, LaunchRequest, Spawned, TerminateRequest, TerminateKills, LauncherLoopEnds, LauncherExits, ExitSeen, SendExited, UserInput, SendTerminated, DebuggeeExits, SubprocessStarts, SubprocessEnds, DebugServerUp, DebugServerDown, IdeLeaves, Crash

(* The processes.                                                          *)
LEMMA StepProcessInv == IInv /\ [Next]_vars => ProcessInv'
<1> SUFFICES ASSUME IInv, [Next]_vars PROVE ProcessInv'
  OBVIOUS
<1>1. TypeOK /\ ProcessInv /\ LauncherInv /\ PhaseInv /\ RequestInv
  BY DEF IInv
<1>2. /\ lch \in LchStates /\ ide \in IdeStates /\ fin \in FinStates /\ lp \in LpStates
      /\ toLch # <<>> => Tail(toLch) = <<>>
  BY <1>1, Short DEF TypeOK
<1>3. CASE LauncherConnects
  BY <1>1, <1>2, <1>3 DEF ProcessInv, Asked, LauncherInv, PhaseInv, RequestInv,
                          LauncherConnects, IdeStates, YesNo, LchStates, MayBe,
                          LpStates, Gone
<1>4. CASE FinalizeServer
  BY <1>1, <1>2, <1>4 DEF ProcessInv, Asked, LauncherInv, PhaseInv, RequestInv,
                          FinalizeServer, Awake, Asks, SendTerminate, ListenerGone,
                          Gone, At, launcher, FinStates
<1>5. CASE DisconnectAnswered
  BY <1>1, <1>2, <1>5 DEF ProcessInv, Asked, LauncherInv, PhaseInv, RequestInv,
                          DisconnectAnswered, Awake, At, wires, FinStates
<1>6. CASE KillDebuggee
  BY <1>1, <1>2, <1>6 DEF ProcessInv, Asked, LauncherInv, PhaseInv, RequestInv,
                          KillDebuggee, Awake, Asks, SendTerminate, ListenerGone,
                          Gone, At, launcher, FinStates
<1>7. CASE LaunchRequest
  BY <1>1, <1>2, <1>7 DEF ProcessInv, Asked, LauncherInv, PhaseInv, RequestInv,
                          LaunchRequest, AfterSend, Lost, inAdapter, LpStates, Gone
<1>8. CASE Spawned
  BY <1>1, <1>2, <1>8 DEF TypeOK, ProcessInv, Asked, LauncherInv, PhaseInv,
                          RequestInv, Spawned, Lost, inAdapter, LpStates, Gone
<1>9. CASE TerminateRequest
  BY <1>1, <1>2, <1>9 DEF ProcessInv, Asked, LauncherInv, PhaseInv, RequestInv,
                          TerminateRequest, Lost, inAdapter, LpStates, Gone
<1>10. CASE TerminateKills
  BY <1>1, <1>2, <1>10 DEF ProcessInv, Asked, LauncherInv, PhaseInv, RequestInv,
                           TerminateKills, Killed, inAdapter, wires, LpStates, Gone
<1>11. CASE LauncherLoopEnds
  BY <1>1, <1>2, <1>11 DEF ProcessInv, Asked, LauncherInv, PhaseInv, RequestInv,
                           LauncherLoopEnds, EndOfStream, Killed, inAdapter, wires,
                           LpStates, Gone
<1>12. CASE LauncherExits
  BY <1>1, <1>2, <1>12 DEF ProcessInv, Asked, LauncherInv, PhaseInv, RequestInv,
                           LauncherExits, Killed, inAdapter, wires, LpStates, Gone
<1>13. CASE ExitSeen
  BY <1>1, <1>2, <1>13 DEF ProcessInv, Asked, LauncherInv, PhaseInv, RequestInv,
                           ExitSeen, Runs, Gone, inAdapter, wires, LpStates
<1>14. CASE SendExited
  BY <1>1, <1>2, <1>14 DEF TypeOK, ProcessInv, Asked, LauncherInv, PhaseInv,
                           RequestInv, SendExited, Runs, Gone, Send, Lost, inAdapter,
                           LpStates
<1>15. CASE UserInput
  BY <1>1, <1>2, <1>15 DEF ProcessInv, Asked, LauncherInv, PhaseInv, RequestInv,
                           UserInput, Runs, Gone, inAdapter, wires, LpStates
<1>16. CASE SendTerminated
  BY <1>1, <1>2, <1>16 DEF TypeOK, ProcessInv, Asked, LauncherInv, PhaseInv,
                           RequestInv, SendTerminated, Runs, Gone, Send, Lost,
                           inAdapter, LpStates
<1>17. CASE DebuggeeExits
  BY <1>1, <1>2, <1>17 DEF ProcessInv, Asked, LauncherInv, PhaseInv, RequestInv,
                           DebuggeeExits, inAdapter, wires
<1>18. CASE Crash
  BY <1>1, <1>2, <1>18 DEF ProcessInv, Asked, LauncherInv, PhaseInv, RequestInv,
                           Crash, inAdapter, wires, launcher, Gone, LpStates
<1>19. CASE UNCHANGED <<lp, deb, toLch>>
  BY <1>1, <1>19 DEF ProcessInv, Asked
<1>20. QED
  BY <1>3, <1>4, <1>5, <1>6, <1>7, <1>8, <1>9, <1>10, <1>11, <1>12, <1>13, <1>14,
     <1>15, <1>16, <1>17, <1>18, <1>19, Changes

(* The Launcher component.                                                 *)
LEMMA StepLauncherInv == IInv /\ [Next]_vars => LauncherInv'
<1> SUFFICES ASSUME IInv, [Next]_vars PROVE LauncherInv'
  OBVIOUS
<1>1. TypeOK /\ LauncherInv /\ ProcessInv /\ PhaseInv /\ EventInv
  BY DEF IInv
<1>2. /\ lch \in LchStates /\ ide \in IdeStates /\ fin \in FinStates /\ lp \in LpStates
      /\ toLch # <<>> => Tail(toLch) = <<>>
  BY <1>1, Short DEF TypeOK
<1>3. CASE LauncherConnects
  BY <1>1, <1>2, <1>3 DEF LauncherInv, ListenerGone, Gone, ProcessInv, PhaseInv,
                          EventInv, LauncherConnects, IdeStates, YesNo, LchStates,
                          MayBe, LpStates
<1>4. CASE LaunchAnswered
  BY <1>1, <1>2, <1>4 DEF LauncherInv, ListenerGone, Gone, ProcessInv, PhaseInv,
                          EventInv, LaunchAnswered, Response, launcher, IdeStates,
                          YesNo
<1>5. CASE LauncherEvent
  <2>1. /\ lch.conn = "yes" /\ lch'.conn = "yes" /\ lp' = lp
        /\ lch'.closed => lch.closed \/ Head(toAdp) = "terminated"
    BY <1>2, <1>5 DEF LauncherEvent, Closes, LchStates, launcher
  <2>2. Head(toAdp) = "terminated" => lp.wt = "done"
    BY <1>5, NextEvent DEF LauncherEvent
  <2>3. QED
    BY <1>1, <2>1, <2>2 DEF LauncherInv, ListenerGone
<1>6. CASE LauncherDisconnect
  BY <1>1, <1>2, <1>6 DEF LauncherInv, ListenerGone, Gone, ProcessInv, PhaseInv,
                          EventInv, LauncherDisconnect, Handles, Unlocked, Waiting,
                          Over, Finalizes, Finalize, wires, launcher, LchStates,
                          MayBe, FinStates
<1>7. CASE FinalizeServer
  BY <1>1, <1>2, <1>7 DEF LauncherInv, ListenerGone, Gone, ProcessInv, PhaseInv,
                          EventInv, FinalizeServer, Awake, Asks, SendTerminate, At,
                          launcher, FinStates
<1>8. CASE TerminateAnswered
  BY <1>1, <1>2, <1>8 DEF LauncherInv, ListenerGone, Gone, ProcessInv, PhaseInv,
                          EventInv, TerminateAnswered, Response, At, launcher,
                          FinStates
<1>9. CASE DisconnectAnswered
  BY <1>1, <1>2, <1>9 DEF LauncherInv, ListenerGone, Gone, ProcessInv, PhaseInv,
                          EventInv, DisconnectAnswered, Awake, At, wires, FinStates
<1>10. CASE KillDebuggee
  BY <1>1, <1>2, <1>10 DEF LauncherInv, ListenerGone, Gone, ProcessInv, PhaseInv,
                           EventInv, KillDebuggee, Awake, Asks, SendTerminate, At,
                           launcher, FinStates
<1>11. CASE Drained
  BY <1>1, <1>2, <1>11 DEF LauncherInv, ListenerGone, Gone, ProcessInv, PhaseInv,
                           EventInv, Drained, Awake, Unlocked, Waiting, Over,
                           LauncherLeft, At, wires, launcher, LchStates, MayBe,
                           FinStates
<1>12. CASE LaunchRequest
  BY <1>1, <1>2, <1>12 DEF LauncherInv, ListenerGone, Gone, ProcessInv, PhaseInv,
                           EventInv, LaunchRequest, AfterSend, Lost, inAdapter,
                           LpStates
<1>13. CASE Spawned
  BY <1>1, <1>2, <1>13 DEF TypeOK, LauncherInv, ListenerGone, Gone, ProcessInv,
                           PhaseInv, EventInv, Spawned, Lost, inAdapter, LpStates
<1>14. CASE TerminateRequest
  BY <1>1, <1>2, <1>14 DEF LauncherInv, ListenerGone, Gone, ProcessInv, PhaseInv,
                           EventInv, TerminateRequest, Lost, inAdapter, LpStates
<1>15. CASE TerminateKills
  BY <1>1, <1>2, <1>15 DEF LauncherInv, ListenerGone, Gone, ProcessInv, PhaseInv,
                           EventInv, TerminateKills, Killed, inAdapter, wires,
                           LpStates
<1>16. CASE LauncherLoopEnds
  BY <1>1, <1>2, <1>16 DEF LauncherInv, ListenerGone, Gone, ProcessInv, PhaseInv,
                           EventInv, LauncherLoopEnds, EndOfStream, Killed, inAdapter,
                           wires, LpStates
<1>17. CASE LauncherExits
  BY <1>1, <1>2, <1>17 DEF LauncherInv, ListenerGone, Gone, ProcessInv, PhaseInv,
                           EventInv, LauncherExits, Killed, inAdapter, wires, LpStates
<1>18. CASE ExitSeen
  BY <1>1, <1>2, <1>18 DEF LauncherInv, ListenerGone, Gone, ProcessInv, PhaseInv,
                           EventInv, ExitSeen, Runs, inAdapter, wires, LpStates
<1>19. CASE SendExited
  BY <1>1, <1>2, <1>19 DEF TypeOK, LauncherInv, ListenerGone, Gone, ProcessInv,
                           PhaseInv, EventInv, SendExited, Runs, Send, Lost,
                           inAdapter, LpStates
<1>20. CASE UserInput
  BY <1>1, <1>2, <1>20 DEF LauncherInv, ListenerGone, Gone, ProcessInv, PhaseInv,
                           EventInv, UserInput, Runs, inAdapter, wires, LpStates
<1>21. CASE SendTerminated
  BY <1>1, <1>2, <1>21 DEF TypeOK, LauncherInv, ListenerGone, Gone, ProcessInv,
                           PhaseInv, EventInv, SendTerminated, Runs, Send, Lost,
                           inAdapter, LpStates
<1>22. CASE DebuggeeExits
  BY <1>1, <1>2, <1>22 DEF LauncherInv, ListenerGone, Gone, ProcessInv, PhaseInv,
                           EventInv, DebuggeeExits, inAdapter, wires
<1>23. CASE Crash
  BY <1>1, <1>2, <1>23 DEF LauncherInv, ListenerGone, Gone, ProcessInv, PhaseInv,
                           EventInv, Crash, inAdapter, wires, launcher, LpStates
<1>24. CASE UNCHANGED <<lch, lp, deb, toLch, toAdp, reply>>
  BY <1>1, <1>24 DEF LauncherInv, ListenerGone, Gone
<1>25. QED
  BY <1>3, <1>4, <1>5, <1>6, <1>7, <1>8, <1>9, <1>10, <1>11, <1>12, <1>13, <1>14,
     <1>15, <1>16, <1>17, <1>18, <1>19, <1>20, <1>21, <1>22, <1>23, <1>24, Changes

(* How far "launch" and finalize() have come.                              *)
LEMMA StepPhaseInv == IInv /\ [Next]_vars => PhaseInv'
<1> SUFFICES ASSUME IInv, [Next]_vars PROVE PhaseInv'
  OBVIOUS
<1>1. TypeOK /\ PhaseInv /\ LauncherInv
  BY DEF IInv
<1>2. /\ lch \in LchStates /\ ide \in IdeStates /\ fin \in FinStates /\ lp \in LpStates
      /\ toLch # <<>> => Tail(toLch) = <<>>
  BY <1>1, Short DEF TypeOK
<1>3. CASE LauncherConnects
  BY <1>1, <1>2, <1>3 DEF PhaseInv, LauncherInv, LauncherConnects, IdeStates, YesNo,
                          LchStates, MayBe, LpStates, Gone
<1>4. CASE SpawnFails
  BY <1>1, <1>2, <1>4 DEF PhaseInv, LauncherInv, SpawnFails, wires, launcher,
                          IdeStates, YesNo
<1>5. CASE LaunchAnswered
  BY <1>1, <1>2, <1>5 DEF PhaseInv, LauncherInv, LaunchAnswered, Response,
                          ListenerGone, Gone, launcher, IdeStates, YesNo
<1>6. CASE ProcessKnown
  BY <1>1, <1>2, <1>6 DEF PhaseInv, LauncherInv, ProcessKnown, Unlocked, Waiting,
                          Over, wires, launcher, IdeStates, YesNo
<1>7. CASE ServerAttached
  BY <1>1, <1>2, <1>7 DEF PhaseInv, LauncherInv, ServerAttached, wires, launcher,
                          IdeStates, YesNo
<1>8. CASE DelegateRequest \/ ServerAnswers
  BY <1>1, <1>2, <1>8 DEF PhaseInv, LauncherInv, DelegateRequest, ServerAnswers,
                          Handles, Unlocked, Waiting, Over, wires, launcher,
                          IdeStates, YesNo
<1>9. CASE IdeDisconnect
  BY <1>1, <1>2, <1>9 DEF PhaseInv, LauncherInv, IdeDisconnect, Handles, Unlocked,
                          Waiting, Over, Finalizes, Finalize, wires, launcher,
                          IdeStates, YesNo, FinStates
<1>10. ASSUME NEW debug \in BOOLEAN, BeginLaunch(debug) PROVE PhaseInv'
  BY <1>1, <1>2, <1>10 DEF PhaseInv, LauncherInv, BeginLaunch, Handles, Unlocked,
                           Waiting, Over, Finalizes, wires, launcher, IdeStates, YesNo
<1>11. ASSUME NEW want \in {"default", "yes", "no"}, EndRequest(want) PROVE PhaseInv'
  BY <1>1, <1>2, <1>11 DEF PhaseInv, LauncherInv, EndRequest, Handles, Unlocked,
                           Waiting, Over, Finalizes, Finalize, wires, launcher,
                           FinStates
<1>12. CASE ServerDisconnect
  BY <1>1, <1>2, <1>12 DEF PhaseInv, LauncherInv, ServerDisconnect, Handles, Unlocked,
                           Waiting, Over, Finalizes, Finalize, wires, launcher,
                           FinStates
<1>13. CASE LauncherEvent
  BY <1>1, <1>2, <1>13 DEF TypeOK, PhaseInv, LauncherInv, LauncherEvent, Handles,
                           Unlocked, Waiting, Over, Finalizes, Closes, Tell, launcher,
                           LchStates, MayBe
<1>14. CASE LauncherDisconnect
  BY <1>1, <1>2, <1>14 DEF PhaseInv, LauncherInv, LauncherDisconnect, Handles,
                           Unlocked, Waiting, Over, Finalizes, ListenerGone, Gone,
                           Finalize, wires, launcher, LchStates, MayBe, FinStates
<1>15. CASE FinalizeServer
  BY <1>1, <1>2, <1>15 DEF PhaseInv, LauncherInv, FinalizeServer, Awake, Asks,
                           SendTerminate, ListenerGone, Gone, At, launcher, FinStates
<1>16. CASE TerminateAnswered
  BY <1>1, <1>2, <1>16 DEF PhaseInv, LauncherInv, TerminateAnswered, Response,
                           ListenerGone, Gone, At, launcher, FinStates
<1>17. CASE DisconnectAnswered
  BY <1>1, <1>2, <1>17 DEF PhaseInv, LauncherInv, DisconnectAnswered, Awake, At,
                           wires, FinStates
<1>18. CASE DetachServer
  <2>1. /\ fin.at = "detach" /\ ide' = ide /\ lch' = lch
        /\ \/ lch.conn # "yes" /\ fin'.at = "tell"
           \/ lch.conn = "yes" /\ fin'.at \in {"exit", "kill"}
    BY <1>1, <1>2, <1>18 DEF DetachServer, Awake, At, FinStates, wires, launcher
  <2>2. QED
    BY <1>1, <2>1 DEF PhaseInv
<1>19. CASE ExitAwaited
  BY <1>1, <1>2, <1>19 DEF PhaseInv, LauncherInv, ExitAwaited, Awake, Unlocked,
                           Waiting, Over, At, wires, launcher, FinStates
<1>20. CASE KillDebuggee
  BY <1>1, <1>2, <1>20 DEF PhaseInv, LauncherInv, KillDebuggee, Awake, Asks,
                           SendTerminate, ListenerGone, Gone, At, launcher, FinStates
<1>21. CASE Drained
  BY <1>1, <1>2, <1>21 DEF PhaseInv, LauncherInv, Drained, Awake, Unlocked, Waiting,
                           Over, LauncherLeft, At, wires, launcher, LchStates, MayBe,
                           FinStates
<1>22. CASE TellIde
  BY <1>1, <1>2, <1>22 DEF PhaseInv, LauncherInv, TellIde, Awake, Tell, At, wires,
                           launcher, FinStates
<1>23. CASE IdeLeaves
  BY <1>1, <1>2, <1>23 DEF PhaseInv, LauncherInv, IdeLeaves, wires, launcher,
                           IdeStates, YesNo
<1>24. CASE UNCHANGED <<ide, fin, lch>>
  BY <1>1, <1>24 DEF PhaseInv
<1>25. QED
  BY <1>3, <1>4, <1>5, <1>6, <1>7, <1>8, <1>9, <1>10, <1>11, <1>12, <1>13, <1>14,
     <1>15, <1>16, <1>17, <1>18, <1>19, <1>20, <1>21, <1>22, <1>23, <1>24, Changes

(* The requests to the launcher, and its responses.                        *)
LEMMA StepRequestInv == IInv /\ [Next]_vars => RequestInv'
<1> SUFFICES ASSUME IInv, [Next]_vars PROVE RequestInv'
  OBVIOUS
<1>1. TypeOK /\ RequestInv /\ LauncherInv /\ PhaseInv
  BY DEF IInv
<1>2. /\ lch \in LchStates /\ ide \in IdeStates /\ fin \in FinStates /\ lp \in LpStates
      /\ toLch # <<>> => Tail(toLch) = <<>>
  BY <1>1, Short DEF TypeOK
<1>3. CASE LauncherConnects
  BY <1>1, <1>2, <1>3 DEF RequestInv, Pending, Asked, ListenerGone, Gone, LauncherInv,
                          PhaseInv, LauncherConnects, IdeStates, YesNo, LchStates,
                          MayBe, LpStates
<1>4. CASE SpawnFails
  BY <1>1, <1>2, <1>4 DEF RequestInv, Pending, Asked, ListenerGone, Gone, LauncherInv,
                          PhaseInv, SpawnFails, wires, launcher, IdeStates, YesNo
<1>5. CASE LaunchAnswered
  BY <1>1, <1>2, <1>5 DEF RequestInv, Pending, Asked, ListenerGone, Gone, LauncherInv,
                          PhaseInv, LaunchAnswered, Response, launcher, IdeStates,
                          YesNo
<1>6. CASE ProcessKnown
  BY <1>1, <1>2, <1>6 DEF RequestInv, Pending, Asked, ListenerGone, Gone, LauncherInv,
                          PhaseInv, ProcessKnown, Unlocked, Waiting, Over, wires,
                          launcher, IdeStates, YesNo
<1>7. CASE ServerAttached
  BY <1>1, <1>2, <1>7 DEF RequestInv, Pending, Asked, ListenerGone, Gone, LauncherInv,
                          PhaseInv, ServerAttached, wires, launcher, IdeStates, YesNo
<1>8. CASE DelegateRequest \/ ServerAnswers
  BY <1>1, <1>2, <1>8 DEF RequestInv, Pending, Asked, ListenerGone, Gone, LauncherInv,
                          PhaseInv, DelegateRequest, ServerAnswers, wires, launcher,
                          IdeStates, YesNo
<1>9. CASE IdeDisconnect
  BY <1>1, <1>2, <1>9 DEF RequestInv, Pending, Asked, ListenerGone, Gone, LauncherInv,
                          PhaseInv, IdeDisconnect, Handles, Unlocked, Waiting, Over,
                          Finalizes, Finalize, wires, launcher, IdeStates, YesNo,
                          FinStates
<1>10. ASSUME NEW debug \in BOOLEAN, BeginLaunch(debug) PROVE RequestInv'
  BY <1>1, <1>2, <1>10 DEF RequestInv, Pending, Asked, ListenerGone, Gone,
                           LauncherInv, PhaseInv, BeginLaunch, Handles, Unlocked,
                           Waiting, Over, Finalizes, wires, launcher, IdeStates, YesNo
<1>11. ASSUME NEW want \in {"default", "yes", "no"}, EndRequest(want) PROVE RequestInv'
  BY <1>1, <1>2, <1>11 DEF RequestInv, Pending, Asked, ListenerGone, Gone,
                           LauncherInv, PhaseInv, EndRequest, Handles, Unlocked,
                           Waiting, Over, Finalizes, Finalize, wires, launcher,
                           FinStates
<1>12. CASE ServerDisconnect
  BY <1>1, <1>2, <1>12 DEF RequestInv, Pending, Asked, ListenerGone, Gone,
                           LauncherInv, PhaseInv, ServerDisconnect, Handles, Unlocked,
                           Waiting, Over, Finalizes, Finalize, wires, launcher,
                           FinStates
<1>13. CASE LauncherEvent
  BY <1>1, <1>2, <1>13 DEF TypeOK, RequestInv, Pending, Asked, ListenerGone, Gone,
                           LauncherInv, PhaseInv, LauncherEvent, Handles, Unlocked,
                           Waiting, Over, Finalizes, Closes, Tell, launcher,
                           LchStates, MayBe
<1>14. CASE LauncherDisconnect
  BY <1>1, <1>2, <1>14 DEF RequestInv, Pending, Asked, ListenerGone, Gone,
                           LauncherInv, PhaseInv, LauncherDisconnect, Handles,
                           Unlocked, Waiting, Over, Finalizes, Finalize, wires,
                           launcher, LchStates, MayBe, FinStates
<1>15. CASE FinalizeServer
  BY <1>1, <1>2, <1>15 DEF RequestInv, Pending, Asked, ListenerGone, Gone,
                           LauncherInv, PhaseInv, FinalizeServer, Awake, Asks,
                           SendTerminate, At, launcher, FinStates
<1>16. CASE TerminateAnswered
  BY <1>1, <1>2, <1>16 DEF RequestInv, Pending, Asked, ListenerGone, Gone,
                           LauncherInv, PhaseInv, TerminateAnswered, Response, At,
                           launcher, FinStates
<1>17. CASE DisconnectAnswered
  BY <1>1, <1>2, <1>17 DEF RequestInv, Pending, Asked, ListenerGone, Gone,
                           LauncherInv, PhaseInv, DisconnectAnswered, Awake, At,
                           wires, FinStates
<1>18. CASE DetachServer
  BY <1>1, <1>2, <1>18 DEF RequestInv, Pending, Asked, ListenerGone, Gone,
                           LauncherInv, PhaseInv, DetachServer, Awake, At, wires,
                           launcher, FinStates
<1>19. CASE ExitAwaited
  BY <1>1, <1>2, <1>19 DEF RequestInv, Pending, Asked, ListenerGone, Gone,
                           LauncherInv, PhaseInv, ExitAwaited, Awake, Unlocked,
                           Waiting, Over, At, wires, launcher, FinStates
<1>20. CASE KillDebuggee
  BY <1>1, <1>2, <1>20 DEF RequestInv, Pending, Asked, ListenerGone, Gone,
                           LauncherInv, PhaseInv, KillDebuggee, Awake, Asks,
                           SendTerminate, At, launcher, FinStates
<1>21. CASE Drained
  BY <1>1, <1>2, <1>21 DEF RequestInv, Pending, Asked, ListenerGone, Gone,
                           LauncherInv, PhaseInv, Drained, Awake, Unlocked, Waiting,
                           Over, LauncherLeft, At, wires, launcher, LchStates, MayBe,
                           FinStates
<1>22. CASE TellIde
  BY <1>1, <1>2, <1>22 DEF RequestInv, Pending, Asked, ListenerGone, Gone,
                           LauncherInv, PhaseInv, TellIde, Awake, Tell, At, wires,
                           launcher, FinStates
<1>23. CASE LaunchRequest
  <2>1. /\ lp.pc = "idle" /\ toLch # <<>> /\ toLch' = <<>>
        /\ lp'.pc \in {"idle", "died"} \/ (lp'.pc = "spawned" /\ reply' = reply)
        /\ ide' = ide /\ fin' = fin /\ lch' = lch
    BY <1>1, <1>2, <1>23 DEF LaunchRequest, AfterSend, LpStates, Gone, inAdapter
  <2>2. reply = "none"
    BY <1>1, <2>1 DEF RequestInv
  <2>3. \/ ide.pc = "request" \/ fin.at \in {"terminate", "killing"} \/ lch.closed
    BY <1>1, <2>1 DEF RequestInv, Pending, ListenerGone, Gone
  <2>4. QED
    BY <2>1, <2>2, <2>3 DEF RequestInv, Pending, Asked
<1>24. CASE Spawned
  BY <1>1, <1>2, <1>24 DEF TypeOK, RequestInv, Pending, Asked, ListenerGone, Gone,
                           LauncherInv, PhaseInv, Spawned, Lost, inAdapter, LpStates
<1>25. CASE TerminateRequest
  BY <1>1, <1>2, <1>25 DEF RequestInv, Pending, Asked, ListenerGone, Gone,
                           LauncherInv, PhaseInv, TerminateRequest, Lost, inAdapter,
                           LpStates
<1>26. CASE TerminateKills
  BY <1>1, <1>2, <1>26 DEF RequestInv, Pending, Asked, ListenerGone, Gone,
                           LauncherInv, PhaseInv, TerminateKills, Killed, inAdapter,
                           wires, LpStates
<1>27. CASE LauncherLoopEnds
  BY <1>1, <1>2, <1>27 DEF RequestInv, Pending, Asked, ListenerGone, Gone,
                           LauncherInv, PhaseInv, LauncherLoopEnds, EndOfStream,
                           Killed, inAdapter, wires, LpStates
<1>28. CASE LauncherExits
  BY <1>1, <1>2, <1>28 DEF RequestInv, Pending, Asked, ListenerGone, Gone,
                           LauncherInv, PhaseInv, LauncherExits, Killed, inAdapter,
                           wires, LpStates
<1>29. CASE ExitSeen
  BY <1>1, <1>2, <1>29 DEF RequestInv, Pending, Asked, ListenerGone, Gone,
                           LauncherInv, PhaseInv, ExitSeen, Runs, inAdapter, wires,
                           LpStates
<1>30. CASE SendExited
  BY <1>1, <1>2, <1>30 DEF TypeOK, RequestInv, Pending, Asked, ListenerGone, Gone,
                           LauncherInv, PhaseInv, SendExited, Runs, Send, Lost,
                           inAdapter, LpStates
<1>31. CASE UserInput
  BY <1>1, <1>2, <1>31 DEF RequestInv, Pending, Asked, ListenerGone, Gone,
                           LauncherInv, PhaseInv, UserInput, Runs, inAdapter, wires,
                           LpStates
<1>32. CASE SendTerminated
  BY <1>1, <1>2, <1>32 DEF TypeOK, RequestInv, Pending, Asked, ListenerGone, Gone,
                           LauncherInv, PhaseInv, SendTerminated, Runs, Send, Lost,
                           inAdapter, LpStates
<1>33. CASE IdeLeaves
  BY <1>1, <1>2, <1>33 DEF RequestInv, Pending, Asked, ListenerGone, Gone,
                           LauncherInv, PhaseInv, IdeLeaves, wires, launcher,
                           IdeStates, YesNo
<1>34. CASE Crash
  BY <1>1, <1>2, <1>34 DEF RequestInv, Pending, Asked, ListenerGone, Gone,
                           LauncherInv, PhaseInv, Crash, inAdapter, wires, launcher,
                           LpStates
<1>35. CASE UNCHANGED <<ide, fin, lch, lp, toLch, reply>>
  BY <1>1, <1>35 DEF RequestInv, Pending, Asked, ListenerGone, Gone
<1>36. QED
  BY <1>3, <1>4, <1>5, <1>6, <1>7, <1>8, <1>9, <1>10, <1>11, <1>12, <1>13, <1>14,
     <1>15, <1>16, <1>17, <1>18, <1>19, <1>20, <1>21, <1>22, <1>23, <1>24, <1>25,
     <1>26, <1>27, <1>28, <1>29, <1>30, <1>31, <1>32, <1>33, <1>34, <1>35, Changes

(* The events of the launcher.                                             *)
LEMMA StepEventInv == IInv /\ [Next]_vars => EventInv'
<1> SUFFICES ASSUME IInv, [Next]_vars PROVE EventInv'
  OBVIOUS
<1>1. TypeOK /\ EventInv /\ ProcessInv /\ LauncherInv /\ PhaseInv
  BY DEF IInv
<1>2. /\ lch \in LchStates /\ ide \in IdeStates /\ fin \in FinStates /\ lp \in LpStates
      /\ toLch # <<>> => Tail(toLch) = <<>>
  BY <1>1, Short DEF TypeOK
<1>3. CASE LauncherConnects
  BY <1>1, <1>2, <1>3 DEF EventInv, ExitTold, ProcessInv, LauncherInv, PhaseInv,
                          LauncherConnects, IdeStates, YesNo, LchStates, MayBe,
                          LpStates, Gone
<1>4. CASE IdeDisconnect
  BY <1>1, <1>2, <1>4 DEF EventInv, ExitTold, ProcessInv, LauncherInv, PhaseInv,
                          IdeDisconnect, Handles, Unlocked, Waiting, Over, Finalizes,
                          Finalize, wires, launcher, IdeStates, YesNo, FinStates
<1>5. ASSUME NEW want \in {"default", "yes", "no"}, EndRequest(want) PROVE EventInv'
  BY <1>1, <1>2, <1>5 DEF EventInv, ExitTold, ProcessInv, LauncherInv, PhaseInv,
                          EndRequest, Handles, Unlocked, Waiting, Over, Finalizes,
                          Finalize, wires, launcher, FinStates
<1>6. CASE ServerDisconnect
  BY <1>1, <1>2, <1>6 DEF EventInv, ExitTold, ProcessInv, LauncherInv, PhaseInv,
                          ServerDisconnect, Handles, Unlocked, Waiting, Over,
                          Finalizes, Finalize, wires, launcher, FinStates
<1>7. CASE LauncherEvent
  <2>1. toAdp # <<>> /\ toAdp' = Tail(toAdp) /\ lp' = lp /\ fin' = fin /\ fin.at # "done"
    BY <1>1, <1>7 DEF LauncherEvent, launcher, PhaseInv
  <2>2. \A i \in 1..Len(toAdp') : toAdp'[i] = "terminated" => i = Len(toAdp') /\ lp.wt = "done"
    BY <2>1, NextEvent
  <2>3. CASE Head(toAdp) = "terminated"
    <3>1. Len(toAdp') = 0 /\ lp.wt = "done" /\ ~ExitTold
      BY <2>1, <2>3, NextEvent
    <3>2. told = <<>>
      BY <1>1, <2>1, <3>1 DEF EventInv, ExitTold
    <3>3. told' \in {<<>>, <<"exited">>}
      BY <1>7, <2>3, <3>2 DEF LauncherEvent, Tell
    <3>4. \A i \in 1..Len(toAdp') : FALSE
      BY <3>1
    <3>5. QED
      BY <2>1, <3>1, <3>3, <3>4 DEF EventInv
  <2>4. CASE Head(toAdp) # "terminated"
    <3>1. told' = told /\ (ExitTold' <=> ExitTold)
      BY <1>7, <2>4 DEF LauncherEvent, ExitTold
    <3>2. ExitTold => \A i \in 1..Len(toAdp') : toAdp'[i] # "terminated"
      BY <2>1, NextEvent
    <3>3. ExitTold => lp.wt = "done"
      BY <1>1 DEF EventInv
    <3>4. told \in {<<>>, <<"exited">>}
      BY <1>1, <2>1 DEF EventInv
    <3>5. QED
      BY <2>1, <2>2, <3>1, <3>2, <3>3, <3>4 DEF EventInv
  <2>5. QED
    BY <2>3, <2>4
<1>8. CASE LauncherDisconnect
  BY <1>1, <1>2, <1>8 DEF EventInv, ExitTold, ProcessInv, LauncherInv, PhaseInv,
                          LauncherDisconnect, Handles, Unlocked, Waiting, Over,
                          Finalizes, ListenerGone, Gone, Finalize, wires, launcher,
                          LchStates, MayBe, FinStates
<1>9. CASE FinalizeServer
  BY <1>1, <1>2, <1>9 DEF EventInv, ExitTold, ProcessInv, LauncherInv, PhaseInv,
                          FinalizeServer, Awake, Asks, SendTerminate, ListenerGone,
                          Gone, At, launcher, FinStates
<1>10. CASE TerminateAnswered
  BY <1>1, <1>2, <1>10 DEF EventInv, ExitTold, ProcessInv, LauncherInv, PhaseInv,
                           TerminateAnswered, Response, ListenerGone, Gone, At,
                           launcher, FinStates
<1>11. CASE DisconnectAnswered
  BY <1>1, <1>2, <1>11 DEF EventInv, ExitTold, ProcessInv, LauncherInv, PhaseInv,
                           DisconnectAnswered, Awake, At, wires, FinStates
<1>12. CASE DetachServer
  BY <1>1, <1>2, <1>12 DEF EventInv, ExitTold, ProcessInv, LauncherInv, PhaseInv,
                           DetachServer, Awake, At, wires, launcher, FinStates
<1>13. CASE ExitAwaited
  BY <1>1, <1>2, <1>13 DEF EventInv, ExitTold, ProcessInv, LauncherInv, PhaseInv,
                           ExitAwaited, Awake, Unlocked, Waiting, Over, At, wires,
                           launcher, FinStates
<1>14. CASE KillDebuggee
  BY <1>1, <1>2, <1>14 DEF EventInv, ExitTold, ProcessInv, LauncherInv, PhaseInv,
                           KillDebuggee, Awake, Asks, SendTerminate, ListenerGone,
                           Gone, At, launcher, FinStates
<1>15. CASE Drained
  BY <1>1, <1>2, <1>15 DEF EventInv, ExitTold, ProcessInv, LauncherInv, PhaseInv,
                           Drained, Awake, Unlocked, Waiting, Over, LauncherLeft, At,
                           wires, launcher, LchStates, MayBe, FinStates
<1>16. CASE TellIde
  <2>1. /\ fin.at = "tell" /\ fin'.at = "done" /\ lp' = lp /\ toAdp' = toAdp
        /\ told' = told \/ told' = Append(told, "terminated")
    BY <1>1, <1>2, <1>16 DEF TellIde, Awake, At, Tell, FinStates, wires, launcher
  <2>2. told \in {<<>>, <<"exited">>}
    BY <1>1, <2>1 DEF EventInv
  <2>3. ExitTold' => ExitTold
    BY <2>1, <2>2 DEF ExitTold
  <2>4. QED
    BY <1>1, <2>1, <2>3 DEF EventInv
<1>17. CASE LaunchRequest
  BY <1>1, <1>2, <1>17 DEF EventInv, ExitTold, ProcessInv, LauncherInv, PhaseInv,
                           LaunchRequest, AfterSend, Lost, inAdapter, LpStates, Gone
<1>18. CASE Spawned
  BY <1>1, <1>2, <1>18 DEF TypeOK, EventInv, ExitTold, ProcessInv, LauncherInv,
                           PhaseInv, Spawned, Lost, inAdapter, LpStates, Gone
<1>19. CASE TerminateRequest
  BY <1>1, <1>2, <1>19 DEF EventInv, ExitTold, ProcessInv, LauncherInv, PhaseInv,
                           TerminateRequest, Lost, inAdapter, LpStates, Gone
<1>20. CASE TerminateKills
  BY <1>1, <1>2, <1>20 DEF EventInv, ExitTold, ProcessInv, LauncherInv, PhaseInv,
                           TerminateKills, Killed, inAdapter, wires, LpStates, Gone
<1>21. CASE LauncherLoopEnds
  BY <1>1, <1>2, <1>21 DEF EventInv, ExitTold, ProcessInv, LauncherInv, PhaseInv,
                           LauncherLoopEnds, EndOfStream, Killed, inAdapter, wires,
                           LpStates, Gone
<1>22. CASE LauncherExits
  BY <1>1, <1>2, <1>22 DEF EventInv, ExitTold, ProcessInv, LauncherInv, PhaseInv,
                           LauncherExits, Killed, inAdapter, wires, LpStates, Gone
<1>23. CASE ExitSeen
  BY <1>1, <1>2, <1>23 DEF EventInv, ExitTold, ProcessInv, LauncherInv, PhaseInv,
                           ExitSeen, Runs, Gone, inAdapter, wires, LpStates
<1>24. CASE SendExited
  BY <1>1, <1>2, <1>24 DEF TypeOK, EventInv, ExitTold, ProcessInv, LauncherInv,
                           PhaseInv, SendExited, Runs, Gone, Send, Lost, inAdapter,
                           LpStates
<1>25. CASE UserInput
  BY <1>1, <1>2, <1>25 DEF EventInv, ExitTold, ProcessInv, LauncherInv, PhaseInv,
                           UserInput, Runs, Gone, inAdapter, wires, LpStates
<1>26. CASE SendTerminated
  BY <1>1, <1>2, <1>26 DEF TypeOK, EventInv, ExitTold, ProcessInv, LauncherInv,
                           PhaseInv, SendTerminated, Runs, Gone, Send, Lost,
                           inAdapter, LpStates
<1>27. CASE Crash
  BY <1>1, <1>2, <1>27 DEF EventInv, ExitTold, ProcessInv, LauncherInv, PhaseInv,
                           Crash, inAdapter, wires, launcher, Gone, LpStates
<1>28. CASE UNCHANGED <<fin, lp, toAdp, told>>
  BY <1>1, <1>28 DEF EventInv, ExitTold
<1>29. QED
  BY <1>3, <1>4, <1>5, <1>6, <1>7, <1>8, <1>9, <1>10, <1>11, <1>12, <1>13, <1>14,
     <1>15, <1>16, <1>17, <1>18, <1>19, <1>20, <1>21, <1>22, <1>23, <1>24, <1>25,
     <1>26, <1>27, <1>28, Changes

-----------------------------------------------------------------------------
(* Types. *)

(* Every step keeps the types of the IDE, ... *)
LEMMA IdeType == IInv /\ [Next]_vars => ide' \in IdeStates
<1> SUFFICES ASSUME IInv, [Next]_vars PROVE ide' \in IdeStates
  OBVIOUS
<1>1. ide \in IdeStates
  BY DEF IInv, TypeOK
<1>2. CASE LauncherConnects
  BY <1>1, <1>2 DEF LauncherConnects, IdeStates, YesNo
<1>3. CASE SpawnFails
  BY <1>1, <1>3 DEF SpawnFails, IdeStates, YesNo
<1>4. CASE LaunchAnswered
  BY <1>1, <1>4 DEF LaunchAnswered, Response, IdeStates, YesNo
<1>5. CASE ProcessKnown
  BY <1>1, <1>5 DEF ProcessKnown, IdeStates, YesNo
<1>6. CASE ServerAttached
  BY <1>1, <1>6 DEF ServerAttached, IdeStates, YesNo
<1>7. CASE DelegateRequest \/ ServerAnswers
  BY <1>1, <1>7 DEF DelegateRequest, ServerAnswers, IdeStates, YesNo
<1>8. CASE IdeDisconnect
  BY <1>1, <1>8 DEF IdeDisconnect, Finalize, IdeStates, YesNo
<1>9. ASSUME NEW debug \in BOOLEAN, BeginLaunch(debug) PROVE ide' \in IdeStates
  <2>1. ide.asked \in 0..MaxLaunch /\ ide.asked < MaxLaunch
    BY <1>1, <1>9 DEF BeginLaunch, IdeStates
  <2>2. ide.asked + 1 \in 0..MaxLaunch
    BY <2>1, LifecycleConstants
  <2>3. ide' = [ide EXCEPT !.pc = "spawn", !.debug = debug, !.asked = ide.asked + 1]
    BY <1>9 DEF BeginLaunch
  <2>4. QED
    BY <1>1, <2>2, <2>3 DEF IdeStates
<1>10. CASE IdeLeaves
  BY <1>1, <1>10 DEF IdeLeaves, IdeStates, YesNo
<1>11. CASE ide' = ide
  BY <1>1, <1>11
<1>12. QED
  BY <1>2, <1>3, <1>4, <1>5, <1>6, <1>7, <1>8, <1>9, <1>10, <1>11, Changes

(* ... of the launcher, ... *)
LEMMA LchType == IInv /\ [Next]_vars => lch' \in LchStates
<1> SUFFICES ASSUME IInv, [Next]_vars PROVE lch' \in LchStates
  OBVIOUS
<1>1. lch \in LchStates
  BY DEF IInv, TypeOK
<1>2. CASE LauncherConnects
  BY <1>1, <1>2 DEF LauncherConnects, LchStates, MayBe
<1>3. CASE LauncherEvent
  BY <1>1, <1>3 DEF LauncherEvent, Closes, Tell, LchStates, MayBe
<1>4. CASE LauncherDisconnect
  BY <1>1, <1>4 DEF LauncherDisconnect, Finalize, LchStates, MayBe
<1>5. CASE Drained
  BY <1>1, <1>5 DEF Drained, LauncherLeft, At, LchStates, MayBe
<1>6. CASE lch' = lch
  BY <1>1, <1>6
<1>7. QED
  BY <1>2, <1>3, <1>4, <1>5, <1>6, Changes

(* ... of finalize(), ... *)
LEMMA FinType == IInv /\ [Next]_vars => fin' \in FinStates
<1> SUFFICES ASSUME IInv, [Next]_vars PROVE fin' \in FinStates
  OBVIOUS
<1>1. fin \in FinStates
  BY DEF IInv, TypeOK
<1>2. CASE IdeDisconnect
  BY <1>1, <1>2 DEF IdeDisconnect, Finalize, FinStates
<1>3. ASSUME NEW want \in {"default", "yes", "no"}, EndRequest(want) PROVE fin' \in FinStates
  BY <1>1, <1>3 DEF EndRequest, Finalize, FinStates
<1>4. CASE ServerDisconnect
  BY <1>1, <1>4 DEF ServerDisconnect, Finalize, FinStates
<1>5. CASE LauncherDisconnect
  BY <1>1, <1>5 DEF LauncherDisconnect, Finalize, FinStates
<1>6. CASE FinalizeServer
  BY <1>1, <1>6 DEF FinalizeServer, Asks, SendTerminate, At, FinStates
<1>7. CASE TerminateAnswered
  BY <1>1, <1>7 DEF TerminateAnswered, Response, At, FinStates
<1>8. CASE DisconnectAnswered
  BY <1>1, <1>8 DEF DisconnectAnswered, At, FinStates
<1>9. CASE DetachServer
  BY <1>1, <1>9 DEF DetachServer, At, FinStates
<1>10. CASE ExitAwaited
  BY <1>1, <1>10 DEF ExitAwaited, At, FinStates
<1>11. CASE KillDebuggee
  BY <1>1, <1>11 DEF KillDebuggee, Asks, SendTerminate, At, FinStates
<1>12. CASE Drained
  BY <1>1, <1>12 DEF Drained, LauncherLeft, At, FinStates
<1>13. CASE TellIde
  BY <1>1, <1>13 DEF TellIde, Tell, At, FinStates
<1>14. CASE fin' = fin
  BY <1>1, <1>14
<1>15. QED
  BY <1>2, <1>3, <1>4, <1>5, <1>6, <1>7, <1>8, <1>9, <1>10, <1>11, <1>12, <1>13,
     <1>14, Changes

(* ... of the loop of the launcher that waits for its process, ... *)
LEMMA LpType == IInv /\ [Next]_vars => lp' \in LpStates
<1> SUFFICES ASSUME IInv, [Next]_vars PROVE lp' \in LpStates
  OBVIOUS
<1>1. lp \in LpStates
  BY DEF IInv, TypeOK
<1>2. CASE LauncherConnects
  BY <1>1, <1>2 DEF LauncherConnects, LpStates, Gone
<1>3. CASE LaunchRequest
  BY <1>1, <1>3 DEF LaunchRequest, AfterSend, Lost, LpStates, Gone
<1>4. CASE Spawned
  BY <1>1, <1>4 DEF Spawned, Lost, LpStates, Gone
<1>5. CASE TerminateRequest
  BY <1>1, <1>5 DEF TerminateRequest, Lost, LpStates, Gone
<1>6. CASE TerminateKills
  BY <1>1, <1>6 DEF TerminateKills, Killed, LpStates, Gone
<1>7. CASE LauncherLoopEnds
  BY <1>1, <1>7 DEF LauncherLoopEnds, EndOfStream, Killed, LpStates, Gone
<1>8. CASE LauncherExits
  BY <1>1, <1>8 DEF LauncherExits, Killed, LpStates, Gone
<1>9. CASE ExitSeen
  BY <1>1, <1>9 DEF ExitSeen, Runs, Gone, LpStates
<1>10. CASE SendExited
  BY <1>1, <1>10 DEF SendExited, Runs, Gone, Send, Lost, LpStates
<1>11. CASE UserInput
  BY <1>1, <1>11 DEF UserInput, Runs, Gone, LpStates
<1>12. CASE SendTerminated
  BY <1>1, <1>12 DEF SendTerminated, Runs, Gone, Send, Lost, LpStates
<1>13. CASE Crash
  <2>1. lp' = lp \/ lp' = [lp EXCEPT !.pc = "crashed"]
    BY <1>13 DEF Crash, launcher
  <2>2. CASE lp' = [lp EXCEPT !.pc = "crashed"]
    BY <1>1, <2>2 DEF LpStates, Gone
  <2>3. QED
    BY <1>1, <2>1, <2>2
<1>14. CASE lp' = lp
  BY <1>1, <1>14
<1>15. QED
  BY <1>2, <1>3, <1>4, <1>5, <1>6, <1>7, <1>8, <1>9, <1>10, <1>11, <1>12, <1>13,
     <1>14, Changes

(* ... and of the messages between adapter and launcher. *)
LEMMA WiresType ==
    IInv /\ [Next]_vars =>
        /\ toLch' \in Seq({"launch", "terminate"}) /\ Len(toLch') <= 1
        /\ toAdp' \in Seq(Events) /\ reply' \in {"none", "ok", "failed"}
<1> SUFFICES ASSUME IInv, [Next]_vars
             PROVE  /\ toLch' \in Seq({"launch", "terminate"}) /\ Len(toLch') <= 1
                    /\ toAdp' \in Seq(Events) /\ reply' \in {"none", "ok", "failed"}
  OBVIOUS
<1>1. /\ toLch \in Seq({"launch", "terminate"}) /\ Len(toLch) <= 1
      /\ toAdp \in Seq(Events) /\ reply \in {"none", "ok", "failed"}
      /\ PhaseInv /\ RequestInv
  BY DEF IInv, TypeOK
<1>2. toLch' \in Seq({"launch", "terminate"}) /\ Len(toLch') <= 1
  <2>1. CASE LauncherConnects
    <3>1. toLch' = <<"launch">> /\ "launch" \in {"launch", "terminate"}
      BY <2>1 DEF LauncherConnects
    <3>2. QED
      BY <3>1
  <2>2. CASE FinalizeServer \/ KillDebuggee
    <3>1. fin.at \in {"server", "kill"} /\ (toLch' = toLch \/ SendTerminate)
      BY <2>2 DEF FinalizeServer, KillDebuggee, Awake
    <3>2. CASE toLch' = toLch
      BY <1>1, <3>2
    <3>3. CASE SendTerminate /\ ~ListenerGone /\ ~lch.closed
      <4>1. toLch = <<>>
        BY <1>1, <3>1, <3>3 DEF RequestInv, Pending, PhaseInv
      <4>2. toLch' = Append(<<>>, "terminate")
        BY <3>3, <4>1 DEF SendTerminate
      <4>3. QED
        BY <4>2
    <3>4. QED
      BY <3>1, <3>2, <3>3 DEF SendTerminate
  <2>3. CASE LaunchRequest \/ TerminateRequest
    <3>1. toLch # <<>> /\ toLch' = Tail(toLch)
      BY <2>3 DEF LaunchRequest, TerminateRequest
    <3>2. toLch' = <<>>
      BY <1>1, <3>1, Short
    <3>3. QED
      BY <3>2, EmptySeq
  <2>4. CASE toLch' = toLch
    BY <1>1, <2>4
  <2>5. QED
    BY <2>1, <2>2, <2>3, <2>4, Changes
<1>3. toAdp' \in Seq(Events)
  <2>1. CASE LauncherEvent
    <3>1. toAdp # <<>> /\ toAdp' = Tail(toAdp)
      BY <2>1 DEF LauncherEvent
    <3>2. QED
      BY <1>1, <3>1, HeadTailProperties
  <2>2. CASE Spawned \/ SendExited \/ SendTerminated
    <3>1. PICK e \in Events : toAdp' \in {toAdp, Append(toAdp, e)}
      BY <2>2 DEF Spawned, SendExited, SendTerminated, Send, Events
    <3>2. QED
      BY <1>1, <3>1, AppendProperties
  <2>3. QED
    BY <1>1, <2>1, <2>2, Changes
<1>4. reply' \in {"none", "ok", "failed"}
  BY <1>1, Changes DEF LaunchAnswered, TerminateAnswered, LaunchRequest, Spawned, TerminateRequest
<1>5. QED
  BY <1>2, <1>3, <1>4

(* What follows "exited". *)
LEMMA AppendSecond ==
    ASSUME NEW S, NEW a \in S, NEW b \in S
    PROVE  Append(<<a>>, b) = <<a, b>>
<1> DEFINE r == Append(<<a>>, b)
<1>1. <<a>> \in Seq(S) /\ Len(<<a>>) = 1 /\ <<a>>[1] = a
  OBVIOUS
<1>2. <<a, b>> \in Seq(S) /\ Len(<<a, b>>) = 2 /\ <<a, b>>[1] = a /\ <<a, b>>[2] = b
  OBVIOUS
<1>3. r \in Seq(S) /\ Len(r) = 2 /\ r[1] = a /\ r[2] = b
  BY <1>1, AppendProperties
<1>4. \A i \in 1..Len(r) : r[i] = <<a, b>>[i]
  BY <1>2, <1>3
<1>5. QED
  BY <1>2, <1>3, <1>4, SeqEqual

(* Every step keeps the order of the events that the IDE is told. *)
LEMMA StepEventsInOrder == IInv /\ [Next]_vars => EventsInOrder'
<1> SUFFICES ASSUME IInv, [Next]_vars PROVE EventsInOrder'
  OBVIOUS
<1>1. CASE LauncherEvent
  <2>1. toAdp # <<>> /\ fin.at # "done"
    BY <1>1 DEF LauncherEvent, IInv, PhaseInv
  <2>2. CASE Head(toAdp) = "terminated"
    <3>1. ~ExitTold
      BY <2>1, <2>2, NextEvent
    <3>2. told = <<>>
      BY <2>1, <3>1 DEF IInv, EventInv, ExitTold
    <3>3. QED
      BY <1>1, <2>2, <3>2 DEF LauncherEvent, Tell, EventsInOrder
  <2>3. CASE Head(toAdp) # "terminated"
    BY <1>1, <2>3 DEF LauncherEvent, IInv, EventsInOrder
  <2>4. QED
    BY <2>2, <2>3
<1>2. CASE TellIde
  <2>1. told \in {<<>>, <<"exited">>}
    BY <1>2 DEF TellIde, Awake, IInv, EventInv
  <2>2. told' = told \/ told' = Append(told, "terminated")
    BY <1>2 DEF TellIde, Tell
  <2>3. Append(<<"exited">>, "terminated") = <<"exited", "terminated">>
    <3>1. "exited" \in {"exited", "terminated"} /\ "terminated" \in {"exited", "terminated"}
      OBVIOUS
    <3>2. QED
      BY <3>1, AppendSecond
  <2>4. CASE told = <<>>
    BY <2>2, <2>3, <2>4 DEF EventsInOrder
  <2>5. CASE told = <<"exited">>
    BY <2>2, <2>3, <2>5 DEF EventsInOrder
  <2>6. QED
    BY <2>1, <2>4, <2>5
<1>3. CASE told' = told
  BY <1>3 DEF IInv, EventsInOrder
<1>4. QED
  BY <1>1, <1>2, <1>3, Changes

(* What is told to the IDE is a sequence of its type.                      *)
LEMMA ToldType ==
    \A q \in {<<>>, <<"exited">>, <<"terminated">>, <<"exited", "terminated">>} :
        q \in Seq({"exited", "terminated"}) /\ Len(q) <= 2
<1> DEFINE S == {"exited", "terminated"}
<1>1. "exited" \in S /\ "terminated" \in S
  OBVIOUS
<1>2. <<>> \in Seq(S) /\ Len(<<>>) = 0
  BY EmptySeq
<1>3. \A a \in S : <<a>> \in Seq(S) /\ Len(<<a>>) = 1
  OBVIOUS
<1>4. \A a, b \in S : <<a, b>> \in Seq(S) /\ Len(<<a, b>>) = 2
  OBVIOUS
<1> HIDE DEF S
<1>5. \A q \in {<<>>, <<"exited">>, <<"terminated">>, <<"exited", "terminated">>} :
          q \in Seq(S) /\ Len(q) <= 2
  <2>1. <<"exited">> \in Seq(S) /\ <<"terminated">> \in Seq(S) /\ <<"exited", "terminated">> \in Seq(S)
    BY <1>1, <1>3, <1>4
  <2>2. Len(<<>>) <= 2 /\ Len(<<"exited">>) <= 2 /\ Len(<<"terminated">>) <= 2
        /\ Len(<<"exited", "terminated">>) <= 2
    BY <1>1, <1>2, <1>3, <1>4
  <2>3. QED
    BY <1>2, <2>1, <2>2, Zenon
<1>6. QED
  BY <1>5 DEF S

(* Every step keeps the types. *)
LEMMA StepTypeOK == IInv /\ [Next]_vars => TypeOK'
<1> SUFFICES ASSUME IInv, [Next]_vars PROVE TypeOK'
  OBVIOUS
<1>1. /\ ide' \in IdeStates /\ lch' \in LchStates /\ fin' \in FinStates /\ lp' \in LpStates
      /\ toLch' \in Seq({"launch", "terminate"}) /\ Len(toLch') <= 1
      /\ toAdp' \in Seq(Events) /\ reply' \in {"none", "ok", "failed"}
  BY IdeType, LchType, FinType, LpType, WiresType
<1>2. told' \in Seq({"exited", "terminated"}) /\ Len(told') <= 2
  <2>1. told' \in {<<>>, <<"exited">>, <<"terminated">>, <<"exited", "terminated">>}
    BY StepEventsInOrder DEF EventsInOrder
  <2>2. QED
    BY <2>1, ToldType
<1>3. adapter \in BOOLEAN /\ pipe \in BOOLEAN /\ srv \in MayBe
      /\ deb \in {"none", "running", "exited"} /\ dbg \in {"none", "up", "down"}
  BY DEF IInv, TypeOK
<1>4. adapter' \in BOOLEAN /\ pipe' \in BOOLEAN /\ srv' \in MayBe
      /\ deb' \in {"none", "running", "exited"} /\ dbg' \in {"none", "up", "down"}
  BY ZenonT(60), <1>3 DEF Next, IdeThread, Requests, LauncherThread, FinalizeStep,
              LauncherHandler, ExitThread, Outside, vars, inAdapter, wires, launcher,
              MayBe, Killed, LauncherConnects, SpawnFails, LaunchAnswered,
              ProcessKnown, ServerAttached, DelegateRequest, ServerAnswers, IdeDisconnect, BeginLaunch,
              EndRequest, ServerDisconnect, LauncherEvent, LauncherDisconnect,
              FinalizeServer, TerminateAnswered, DisconnectAnswered, DetachServer,
              ExitAwaited, KillDebuggee, Drained, TellIde, LaunchRequest, Spawned,
              TerminateRequest, TerminateKills, LauncherLoopEnds, LauncherExits,
              ExitSeen, SendExited, UserInput, SendTerminated, DebuggeeExits,
              SubprocessStarts, SubprocessEnds, DebugServerUp, DebugServerDown,
              IdeLeaves, Crash
<1>5. QED
  BY <1>1, <1>2, <1>4 DEF TypeOK


-----------------------------------------------------------------------------
(* The invariant. *)

(* The initial state has the inductive invariant, ... *)
LEMMA InitIInv == Init => IInv
<1> SUFFICES ASSUME Init PROVE IInv
  OBVIOUS
<1>1. /\ ide \in IdeStates /\ lch \in LchStates /\ fin \in FinStates /\ lp \in LpStates
  BY LifecycleConstants DEF Init, IdeStates, LchStates, FinStates, LpStates, YesNo, MayBe
<1>2. EventsInOrder
  BY DEF Init, EventsInOrder
<1>3. TypeOK
  <2>1. /\ <<>> \in Seq({"exited", "terminated"}) /\ <<>> \in Seq({"launch", "terminate"})
        /\ <<>> \in Seq(Events) /\ Len(<<>>) = 0
    BY EmptySeq
  <2>2. told = <<>> /\ toLch = <<>> /\ toAdp = <<>>
    BY DEF Init
  <2>3. /\ told \in Seq({"exited", "terminated"}) /\ Len(told) <= 2
        /\ toLch \in Seq({"launch", "terminate"}) /\ Len(toLch) <= 1
        /\ toAdp \in Seq(Events)
    BY <2>1, <2>2
  <2>4. /\ adapter \in BOOLEAN /\ pipe \in BOOLEAN /\ srv \in MayBe
        /\ reply \in {"none", "ok", "failed"}
        /\ deb \in {"none", "running", "exited"} /\ dbg \in {"none", "up", "down"}
    BY DEF Init, MayBe
  <2>5. QED
    BY <1>1, <2>3, <2>4 DEF TypeOK
<1>4. ProcessInv /\ LauncherInv /\ PhaseInv /\ RequestInv /\ EventInv
  BY DEF Init, ProcessInv, Asked, LauncherInv, PhaseInv, RequestInv, Pending, EventInv, ExitTold
<1>5. QED
  BY <1>2, <1>3, <1>4 DEF IInv

(* ... every step keeps it, ... *)
LEMMA StepIInv == IInv /\ [Next]_vars => IInv'
BY StepTypeOK, StepEventsInOrder, StepProcessInv, StepLauncherInv, StepPhaseInv,
   StepRequestInv, StepEventInv DEF IInv

(* ... so every execution has it. *)
LEMMA Invariance == Spec => []IInv
BY InitIInv, StepIInv, PTL DEF Spec

(* Every variable stays in its type: in particular, one request at most is *)
(* on its way to the launcher, and the IDE is told at most two events.     *)
THEOREM Typing == Spec => []TypeOK
<1>1. IInv => TypeOK
  BY DEF IInv
<1>2. QED
  BY <1>1, Invariance, PTL

(* However the messages of the launcher and finalize() interleave, "exited"*)
(* is told at most once and never after "terminated" (Session._finalize,   *)
(* Launcher.terminated_event).                                             *)
THEOREM OrderOfEvents == Spec => []EventsInOrder
<1>1. IInv => EventsInOrder
  BY DEF IInv
<1>2. QED
  BY <1>1, Invariance, PTL

(* finalize() is done only with a launcher that has seen the debuggee exit,*)
(* or is gone; a launcher that leaves in good order has killed it.         *)
THEOREM NoSurvivor == Spec => []NoneSurvives
<1>1. IInv => NoneSurvives
  <2> SUFFICES ASSUME IInv PROVE NoneSurvives
    OBVIOUS
  <2>1. lp.pc = "exited" => deb # "running"
    BY DEF IInv, ProcessInv
  <2>2. ASSUME fin.at = "done", ~Orphaned PROVE deb # "running"
    <3>1. lch \in LchStates /\ lch.conn # "yes"
      BY <2>2 DEF IInv, PhaseInv, TypeOK
    <3>2. CASE lch.conn = "none"
      BY <3>2 DEF IInv, LauncherInv
    <3>3. CASE lch.conn = "no"
      <4>1. lp.wt = "done" \/ lp.pc = "exited"
        BY <2>2, <3>3 DEF IInv, LauncherInv, ListenerGone, Gone, Orphaned
      <4>2. QED
        BY <2>1, <4>1 DEF IInv, ProcessInv
    <3>4. QED
      BY <3>1, <3>2, <3>3 DEF LchStates, MayBe
  <2>3. QED
    BY <2>1, <2>2 DEF NoneSurvives
<1>2. QED
  BY <1>1, Invariance, PTL

(* No step of the launcher kills a running debuggee before the session is  *)
(* finalized, as long as the adapter is there: the channel is closed by    *)
(* the adapter only when the debuggee has exited (launcher/handlers.py).   *)
THEOREM OnPurpose == Spec => KilledOnPurpose
<1>1. ASSUME IInv, [Next]_vars, deb = "running", deb' = "exited", lp' # lp
      PROVE  fin.at # "none" \/ ~adapter
  <2>1. lp \in LpStates /\ lch \in LchStates
    BY <1>1 DEF IInv, TypeOK
  <2>2. CASE TerminateKills
    BY <1>1, <2>2 DEF TerminateKills, IInv, RequestInv
  <2>3. CASE LauncherLoopEnds
    <3>1. ~lch.closed
      BY <1>1, <2>3 DEF LauncherLoopEnds, IInv, LauncherInv, ProcessInv, ListenerGone, Gone
    <3>2. QED
      BY <2>3, <3>1 DEF LauncherLoopEnds, EndOfStream
  <2>4. ~LauncherExits
    BY <1>1 DEF LauncherExits, IInv, ProcessInv
  <2>5. ~DisconnectAnswered /\ ~DebuggeeExits /\ ~LaunchRequest
    BY <1>1 DEF DisconnectAnswered, DebuggeeExits, LaunchRequest
  <2>6. QED
    BY <1>1, <2>2, <2>3, <2>4, <2>5, Changes
<1>2. IInv /\ [Next]_vars => [deb = "running" /\ deb' = "exited" /\ lp' # lp
                               => fin.at # "none" \/ ~adapter]_vars
  BY <1>1
<1>3. QED
  BY <1>2, Invariance, PTL DEF Spec, KilledOnPurpose
=============================================================================
