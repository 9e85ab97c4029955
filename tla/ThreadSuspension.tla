--------------------------- MODULE ThreadSuspension ---------------------------
(***************************************************************************)
(* How pydevd, in the debuggee, suspends and resumes all threads together  *)
(* and tells the adapter so with single notifications, the mode that the   *)
(* adapter turns on (pydevd.py, _pydevd_bundle/pydevd_api.py and           *)
(* pydevd_comm.py, adapter/ide.py).  A thread that hits a breakpoint or    *)
(* ends a step marks every thread as suspended, one after the other and    *)
(* without a lock; so does a "pause", which the reader thread of pydevd    *)
(* handles.  A marked thread waits at its next line.  "continue" marks     *)
(* every thread as running; a step does so on the thread that steps; "set  *)
(* next statement" runs one thread, which jumps and stops again.           *)
(*                                                                         *)
(* The adapter sends one request after the other, and waits for the        *)
(* response.  Steps of the same kind differ here by nothing but their      *)
(* thread, and to stop after a jump is to stop after a step.               *)
(***************************************************************************)
EXTENDS Naturals, Sequences, FiniteSets, SequencesExt

CONSTANTS
    Threads,        \* threads of the debuggee
    MaxTime,        \* bound: calls of increment_suspend_time, and one
    MaxRequests     \* bound: requests of the IDE

ASSUME SuspensionConstants == MaxTime \in Nat \ {0} /\ MaxRequests \in Nat

VARIABLES
    state,      \* pydev_state of each thread: "run", "suspend"
    reason,     \* its stop_reason: "break", "step", or "pause" for CMD_THREAD_SUSPEND
    stepping,   \* its pydev_step_cmd: "none", "step", "goto"
    pc,         \* where each thread is
    why,        \* the stop reason that it goes by
    marking,    \* threads that it has still to mark
    queued,     \* the commands in its queue
    reader,     \* the command in the hands of the reader thread, and the
                \* threads that it has still to mark
    asked,      \* requests of the IDE so far
    awaited,    \* the request to be answered by a thread: a "continue", of which
                \* the response is in _awaited, a "goto", or "none"
    time,       \* _suspend_time_request
    suspendTime,    \* _last_suspend_notification_time
    resumeTime,     \* _last_resume_notification_time
    suspended,  \* _suspended_thread_ids
    pausing,    \* _pause_requested
    timers,     \* times of the pauses of which the timer runs
    told,       \* notifications, in order
    paused      \* history: the time of the last pause

threadVars == <<state, reason, stepping>>
localVars  == <<pc, why, marking>>
readerVars == <<queued, reader, asked>>
single     == <<awaited, time, suspendTime, resumeTime, suspended, pausing, timers, told, paused>>
vars       == <<threadVars, localVars, readerVars, single>>

Reasons == {"break", "step", "pause"}
Times   == 0..MaxTime
Inside  == {"waits", "leaves", "jumps", "jumped"}     \* between the two notifications
Notifications == [what : {"stopped", "continued"}, thread : Threads, reason : Reasons]

TypeOK ==
    /\ state \in [Threads -> {"run", "suspend"}]
    /\ reason \in [Threads -> Reasons] /\ stepping \in [Threads -> {"none", "step", "goto"}]
    /\ pc \in [Threads -> Inside \cup {"runs", "hits", "marks", "enters", "reads", "notifies",
                                      "again"}]
    /\ why \in [Threads -> Reasons] /\ marking \in [Threads -> SUBSET Threads]
    /\ queued \in [Threads -> SUBSET {"step", "goto"}]
    /\ reader \in [command : {"none", "pause", "suspend", "continue"}, marking : SUBSET Threads]
    /\ asked \in 0..MaxRequests
    /\ awaited \in {"none", "continue", "goto"}
    /\ time \in Times /\ suspendTime \in 0..time /\ resumeTime \in 0..suspendTime
    /\ suspended = {t \in Threads : pc[t] \in Inside}
    /\ pausing \in BOOLEAN /\ timers \subseteq Times /\ paused \in Times
    /\ told \in Seq(Notifications)

Init ==
    /\ state = [t \in Threads |-> "run"]
    /\ reason = [t \in Threads |-> "break"] /\ stepping = [t \in Threads |-> "none"]
    /\ pc = [t \in Threads |-> "runs"]
    /\ why = [t \in Threads |-> "break"] /\ marking = [t \in Threads |-> {}]
    /\ queued = [t \in Threads |-> {}]
    /\ reader = [command |-> "none", marking |-> {}] /\ asked = 0
    /\ awaited = "none"
    /\ time = 1 /\ suspendTime = 0 /\ resumeTime = 0
    /\ suspended = {} /\ pausing = FALSE /\ timers = {}
    /\ told = <<>> /\ paused = 0

-----------------------------------------------------------------------------
(* _mark_suspend, and internal_run_thread.                                 *)
Mark(t, r) ==
    /\ state' = [state EXCEPT ![t] = "suspend"]
    /\ reason' = [reason EXCEPT ![t] = r]
    /\ stepping' = [stepping EXCEPT ![t] = IF @ = "none" THEN "step" ELSE @]

Run(ts) ==
    /\ state' = [t \in Threads |-> IF t \in ts THEN "run" ELSE state[t]]
    /\ stepping' = [t \in Threads |-> IF t \in ts THEN "none" ELSE stepping[t]]
    /\ UNCHANGED reason

(* increment_suspend_time.                                                 *)
IncrementSuspendTime == time < MaxTime /\ time' = time + 1

Notification(what, t, r) == [what |-> what, thread |-> t, reason |-> r]
Tell(what, t, r) == told' = Append(told, Notification(what, t, r))

(* The reader thread handles a command with _main_lock held, which a       *)
(* thread needs to wait, and to see that it need not wait any longer.      *)
MainLockFree == reader.command = "none"

Goto(t, to) == pc' = [pc EXCEPT ![t] = to]

-----------------------------------------------------------------------------
(* trace_dispatch, at a line: a breakpoint, or the end of a step.  The     *)
(* condition of the breakpoint is evaluated before set_suspend is called.  *)
Hit(t, r) ==
    /\ pc[t] = "runs" /\ state[t] = "run"
    /\ r = "break" \/ (r = "step" /\ stepping[t] = "step")
    /\ Goto(t, "hits") /\ why' = [why EXCEPT ![t] = r]
    /\ UNCHANGED <<threadVars, marking, readerVars, single>>

SetSuspend(t) ==
    /\ pc[t] = "hits" /\ IncrementSuspendTime
    /\ Goto(t, "marks") /\ marking' = [marking EXCEPT ![t] = Threads]
    /\ UNCHANGED <<threadVars, why, readerVars, awaited, suspendTime, resumeTime,
                   suspended, pausing, timers, told, paused>>

(* Itself first, then the others, which did not stop for a reason of their *)
(* own.                                                                    *)
MarkOne(t, u) ==
    /\ pc[t] = "marks" /\ u \in marking[t]
    /\ t \in marking[t] => u = t
    /\ Mark(u, IF u = t THEN why[t] ELSE "pause")
    /\ marking' = [marking EXCEPT ![t] = @ \ {u}]
    /\ UNCHANGED <<pc, why, readerVars, single>>

(* A thread that was resumed in between does not wait after a breakpoint.  *)
Marked(t) ==
    /\ pc[t] = "marks" /\ marking[t] = {}
    /\ Goto(t, IF why[t] = "step" \/ state[t] = "suspend" THEN "enters" ELSE "runs")
    /\ UNCHANGED <<threadVars, why, marking, readerVars, single>>

(* trace_dispatch of a thread that was marked by another.                  *)
SeesMark(t) ==
    /\ pc[t] = "runs" /\ state[t] = "suspend" /\ Goto(t, "enters")
    /\ UNCHANGED <<threadVars, why, marking, readerVars, single>>

-----------------------------------------------------------------------------
(* do_wait_suspend: with the commands in its queue done, the thread reads  *)
(* its stop reason, and then notifies.                                     *)
EnterWait(t) ==
    /\ pc[t] = "enters" /\ queued[t] = {} /\ MainLockFree
    /\ Goto(t, "reads")
    /\ UNCHANGED <<threadVars, why, marking, readerVars, single>>

ReadReason(t) ==
    /\ pc[t] = "reads"
    /\ Goto(t, "notifies") /\ why' = [why EXCEPT ![t] = reason[t]]
    /\ UNCHANGED <<threadVars, marking, readerVars, single>>

(* notify_thread_suspended, before and after the wait.                     *)
NotifiableBreak(r) == r # "pause"                                     \* faulty
Notifiable(r) == r # "pause" \/ pausing
NewStopAgain == time >= suspendTime                                   \* faulty
NewStop == time > suspendTime

NotifySuspended(t) ==
    /\ pc[t] = "notifies" /\ Goto(t, "waits")
    /\ pausing' = FALSE
    /\ suspended' = suspended \cup {t}
    /\ IF Notifiable(why[t]) /\ NewStop
       THEN suspendTime' = time /\ Tell("stopped", t, why[t])
       ELSE UNCHANGED <<suspendTime, told>>
    /\ UNCHANGED <<threadVars, why, marking, readerVars, awaited, time, resumeTime,
                   timers, paused>>

SeesRun(t) ==
    /\ pc[t] = "waits" /\ state[t] = "run" /\ MainLockFree
    /\ Goto(t, "leaves")
    /\ UNCHANGED <<threadVars, why, marking, readerVars, single>>

NewResumeOnly == resumeTime < suspendTime /\ suspendTime = time       \* faulty
NewResume == resumeTime < suspendTime

NotifyResumed(t) ==
    /\ \/ pc[t] = "leaves" /\ stepping[t] # "goto" /\ Goto(t, "runs")
       \/ pc[t] = "jumped" /\ Goto(t, "again")
    /\ suspended' = suspended \ {t}
    /\ IF NewResume
       THEN /\ resumeTime' = suspendTime
            /\ Tell("continued", t, why[t])
            /\ awaited' = IF awaited = "continue" THEN "none" ELSE awaited
       ELSE UNCHANGED <<resumeTime, told, awaited>>
    /\ UNCHANGED <<threadVars, why, marking, readerVars, time, suspendTime,
                   pausing, timers, paused>>

(* _do_wait_suspend of a thread that shall jump: the response to "goto",   *)
(* and then the stop, if the jump worked, or the wait as before.           *)
AnswerGoto(t) ==
    /\ pc[t] = "leaves" /\ stepping[t] = "goto"
    /\ Goto(t, "jumps") /\ awaited' = "none"
    /\ UNCHANGED <<threadVars, why, marking, readerVars, time, suspendTime, resumeTime,
                   suspended, pausing, timers, told, paused>>

Jump(t) ==
    /\ pc[t] = "jumps" /\ state' = [state EXCEPT ![t] = "suspend"]
    /\ \/ Goto(t, "jumped") /\ reason' = [reason EXCEPT ![t] = "step"] /\ UNCHANGED stepping
       \/ /\ Goto(t, "waits") /\ reason' = [reason EXCEPT ![t] = "pause"]
          /\ stepping' = [stepping EXCEPT ![t] = "none"]
    /\ UNCHANGED <<why, marking, readerVars, single>>

(* do_wait_suspend, once more.                                             *)
StopAgain(t) ==
    /\ pc[t] = "again" /\ IncrementSuspendTime /\ Goto(t, "enters")
    /\ UNCHANGED <<threadVars, why, marking, readerVars, awaited, suspendTime, resumeTime,
                   suspended, pausing, timers, told, paused>>

(* process_internal_commands of a thread: the commands in its queue, a     *)
(* step before a "goto", after which nothing can be asked.                 *)
CommandsInThread(t) ==
    /\ pc[t] \in {"enters", "waits"} /\ queued[t] # {} /\ MainLockFree
    /\ queued' = [queued EXCEPT ![t] = {}]
    /\ LET runs == IF "step" \in queued[t] THEN Threads ELSE {t}
           cmd  == IF "goto" \in queued[t] THEN "goto" ELSE "step"
       IN  /\ state' = [u \in Threads |-> IF u \in runs THEN "run" ELSE state[u]]
           /\ stepping' = [u \in Threads |-> IF u = t THEN cmd
                                            ELSE IF u \in runs THEN "none" ELSE stepping[u]]
    /\ UNCHANGED <<reason, localVars, reader, asked, single>>

-----------------------------------------------------------------------------
(* Requests of the IDE, as the adapter forwards them.                      *)
Asks(command, ts) ==
    /\ MainLockFree /\ awaited = "none" /\ asked < MaxRequests
    /\ asked' = asked + 1
    /\ reader' = [command |-> command, marking |-> ts]

(* "pause": set_suspend of some thread, with increment_suspend_time first, *)
(* then on_pause, and then the marks.                                      *)
BeginPause ==
    /\ Asks("pause", Threads) /\ IncrementSuspendTime
    /\ UNCHANGED <<threadVars, localVars, queued, awaited, suspendTime, resumeTime,
                   suspended, pausing, timers, told, paused>>

OnPause ==
    /\ reader.command = "pause" /\ reader' = [reader EXCEPT !.command = "suspend"]
    /\ pausing' = TRUE
    /\ timers' = timers \cup {time} /\ paused' = time
    /\ UNCHANGED <<threadVars, localVars, queued, asked, awaited, time, suspendTime,
                   resumeTime, suspended, told>>

PauseMarks(t) ==
    /\ reader.command = "suspend" /\ t \in reader.marking
    /\ Mark(t, "pause")
    /\ reader' = [reader EXCEPT !.marking = @ \ {t}]
    /\ UNCHANGED <<localVars, queued, asked, single>>

(* "continue": the response is left to the next thread that resumes.       *)
BeginContinue ==
    /\ Asks("continue", Threads) /\ awaited' = "continue"
    /\ UNCHANGED <<threadVars, localVars, queued, time, suspendTime, resumeTime,
                   suspended, pausing, timers, told, paused>>

ContinueRuns(t) ==
    /\ reader.command = "continue" /\ t \in reader.marking
    /\ Run({t})
    /\ reader' = [reader EXCEPT !.marking = @ \ {t}]
    /\ UNCHANGED <<localVars, queued, asked, single>>

EndCommand ==
    /\ reader.command \in {"suspend", "continue"} /\ reader.marking = {}
    /\ reader' = [reader EXCEPT !.command = "none"]
    /\ UNCHANGED <<threadVars, localVars, queued, asked, single>>

(* A step of a thread that is suspended, or a jump.                        *)
RequestStep(t) ==
    /\ t \in suspended /\ Asks("none", {})
    /\ queued' = [queued EXCEPT ![t] = @ \cup {"step"}]
    /\ UNCHANGED <<threadVars, localVars, single>>

RequestGoto(t) ==
    /\ t \in suspended /\ Asks("none", {})
    /\ queued' = [queued EXCEPT ![t] = @ \cup {"goto"}] /\ awaited' = "goto"
    /\ UNCHANGED <<threadVars, localVars, time, suspendTime, resumeTime,
                   suspended, pausing, timers, told, paused>>

(* _notify_after_timeout, half a second after a pause.                     *)
OverdueLong(g) == suspended # {}                                      \* faulty
Overdue(g) == suspended # {} /\ g > suspendTime

NotifyAfterTimeout(g) ==
    /\ g \in timers /\ timers' = timers \ {g}
    /\ IF Overdue(g)
       THEN /\ suspendTime' = g
            /\ \E t \in suspended : Tell("stopped", t, "pause")
       ELSE UNCHANGED <<suspendTime, told>>
    /\ UNCHANGED <<threadVars, localVars, readerVars, awaited, time, resumeTime,
                   suspended, pausing, paused>>

-----------------------------------------------------------------------------
Stopping(t) ==
    SetSuspend(t) \/ Marked(t) \/ StopAgain(t) \/ (\E u \in Threads : MarkOne(t, u))

Waiting(t) ==
    \/ EnterWait(t) \/ ReadReason(t) \/ NotifySuspended(t)
    \/ SeesRun(t) \/ NotifyResumed(t)
    \/ AnswerGoto(t) \/ Jump(t) \/ CommandsInThread(t)

Reader ==
    OnPause \/ EndCommand \/ \E t \in Threads : PauseMarks(t) \/ ContinueRuns(t)

Timer == \E g \in timers : NotifyAfterTimeout(g)

Next ==
    \/ \E t \in Threads : \/ \E r \in Reasons : Hit(t, r)
                          \/ Stopping(t) \/ SeesMark(t) \/ Waiting(t)
                          \/ RequestStep(t) \/ RequestGoto(t)
    \/ BeginPause \/ BeginContinue \/ Reader \/ Timer

Spec == Init /\ [][Next]_vars

(* Threads go on inside the debugger, the reader handles what it has read, *)
(* and timers end.  What the program does, and the IDE, is up to them.     *)
Fairness ==
    /\ WF_vars(Reader) /\ WF_vars(Timer)
    /\ \A t \in Threads : WF_vars(Stopping(t)) /\ WF_vars(Waiting(t))

FairSpec == Spec /\ Fairness

-----------------------------------------------------------------------------
(* Properties.                                                             *)
Stopped == told # <<>> /\ Last(told).what = "stopped"

(* Every thread that stops passes by the notification, and the timers of   *)
(* pauses too, but the IDE is not told of more stops than there were calls *)
(* of set_suspend (pydevd.py:311-335, 1596).                               *)
Stops == {i \in DOMAIN told : told[i].what = "stopped"}
OneStopPerRequest == Cardinality(Stops) <= time - 1

(* When no thread waits any more the IDE has been told that they run, also *)
(* if the timer of a pause fired while they left; and between two          *)
(* "continued" it was told of a stop, whatever threads left their wait one *)
(* after the other.  The two times say what it was told last               *)
(* (pydevd.py:311-344).                                                    *)
NoneLeftStopped == suspended = {} => ~Stopped
ContinuedOnce ==
    \A i \in DOMAIN told :
        told[i].what = "continued" => i > 1 /\ told[i - 1].what = "stopped"
NotifiedInTurn ==
    /\ Stopped <=> resumeTime < suspendTime
    /\ NoneLeftStopped
    /\ ContinuedOnce

(* A pause is reported, by a thread that stops or by the timer, if any     *)
(* thread waits and does not leave first (pydevd.py:302-335).              *)
PauseReported ==
    \A g \in 1..MaxTime :
        g = paused /\ suspended # {} ~> suspendTime >= g \/ suspended = {}

(* "When a suspend notification is sent, reset the pause flag."            *)
(* (pydevd.py:325)                                                         *)
PauseFlagReset == [][Len(told') > Len(told) /\ told'[Len(told')].what = "stopped" => ~pausing']_vars

(* "If True, pydevd will send a single notification when all threads are   *)
(* suspended/resumed" (pydevd.py:354): when they are all suspended, that   *)
(* is what the IDE was told last.                                          *)
AllSuspendedIsTold ==
    /\ \A t \in Threads : pc[t] = "waits" /\ state[t] = "suspend"
    /\ timers = {} /\ MainLockFree
    => Stopped

(* The response to "continue", for which the adapter waits with the        *)
(* session locked, comes when a thread that waited has resumed             *)
(* (pydevd_process_net_command_json.py:423-434, ide.py:383-388).           *)
ContinueAnswered == awaited = "continue" /\ Stopped ~> awaited # "continue"
===============================================================================
