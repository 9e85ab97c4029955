----------------------- MODULE ThreadSuspension_proofs -----------------------
(***************************************************************************)
(* Proofs about ThreadSuspension, for every number of threads and every    *)
(* value of the bounds.                                                    *)
(***************************************************************************)
EXTENDS ThreadSuspension, FiniteSetTheorems, TLAPS

(* A step is one of these.                                                 *)
LEMMA StepCases ==
    ASSUME [Next]_vars
    PROVE  \/ \E t \in Threads :
                \/ \E r \in Reasons : Hit(t, r)
                \/ SetSuspend(t) \/ Marked(t) \/ \E u \in Threads : MarkOne(t, u)
                \/ SeesMark(t) \/ EnterWait(t) \/ ReadReason(t) \/ NotifySuspended(t) \/ SeesRun(t)
                \/ NotifyResumed(t) \/ AnswerGoto(t) \/ Jump(t) \/ StopAgain(t)
                \/ CommandsInThread(t) \/ RequestStep(t) \/ RequestGoto(t) \/ PauseMarks(t) \/ ContinueRuns(t)
           \/ BeginPause \/ BeginContinue \/ OnPause \/ EndCommand
           \/ \E g \in timers : NotifyAfterTimeout(g)
           \/ UNCHANGED vars
BY DEF Next, Stopping, Waiting, Reader, Timer

-----------------------------------------------------------------------------
(* Types.  TypeOK is not inductive: the time at which a timer notifies     *)
(* must have been reached.                                                 *)
TypeInv == TypeOK /\ timers \subseteq 0..time

(* What a notification consists of.  (Notification)                        *)
LEMMA NotificationType ==
    ASSUME NEW t \in Threads, NEW r \in Reasons, NEW w \in {"stopped", "continued"},
           told \in Seq(Notifications), Tell(w, t, r)
    PROVE  told' \in Seq(Notifications)
BY DEF Tell, Notification, Notifications

(* The initial state has its types. *)
LEMMA TypeInit == Init => TypeInv
<1> SUFFICES ASSUME Init PROVE TypeInv
  OBVIOUS
<1> USE DEF Init, Reasons, Times
<1>1. /\ time \in Times /\ suspendTime \in 0..time /\ resumeTime \in 0..suspendTime
      /\ paused \in Times /\ asked \in 0..MaxRequests
  BY SuspensionConstants
<1>2. suspended = {t \in Threads : pc[t] \in Inside}
  BY DEF Inside
<1>3. told \in Seq(Notifications)
  OBVIOUS
<1>4. QED
  BY <1>1, <1>2, <1>3 DEF TypeInv, TypeOK

(* The steps of a thread of the debuggee keep the types, ... *)
LEMMA TypeThread ==
    ASSUME TypeInv, NEW t \in Threads,
           \/ \E r \in Reasons : Hit(t, r)
           \/ SetSuspend(t) \/ Marked(t) \/ \E u \in Threads : MarkOne(t, u)
           \/ SeesMark(t) \/ EnterWait(t) \/ ReadReason(t) \/ SeesRun(t)
           \/ AnswerGoto(t) \/ Jump(t) \/ StopAgain(t)
    PROVE  TypeInv'
<1> USE DEF TypeInv, TypeOK, threadVars, localVars, readerVars, single, Goto, Times, Inside
<1>1. ASSUME NEW r \in Reasons, Hit(t, r) PROVE TypeInv'
  BY <1>1 DEF Hit, Reasons
<1>2. CASE SetSuspend(t)
  BY <1>2, SuspensionConstants DEF SetSuspend, IncrementSuspendTime
<1>3. CASE Marked(t)
  BY <1>3 DEF Marked
<1>4. ASSUME NEW u \in Threads, MarkOne(t, u) PROVE TypeInv'
  BY <1>4 DEF MarkOne, Mark, Reasons
<1>5. CASE SeesMark(t)
  BY <1>5 DEF SeesMark
<1>6. CASE EnterWait(t)
  BY <1>6 DEF EnterWait
<1>7. CASE ReadReason(t)
  BY <1>7 DEF ReadReason
<1>8. CASE SeesRun(t)
  BY <1>8 DEF SeesRun
<1>9. CASE AnswerGoto(t)
  BY <1>9 DEF AnswerGoto
<1>10. CASE Jump(t)
  BY ZenonT(60), <1>10 DEF Jump, Reasons
<1>11. CASE StopAgain(t)
  BY <1>11, SuspensionConstants DEF StopAgain, IncrementSuspendTime
<1>12. QED
  BY <1>1, <1>2, <1>3, <1>4, <1>5, <1>6, <1>7, <1>8, <1>9, <1>10, <1>11

(* ... those that notify do, ... *)
LEMMA TypeNotify ==
    ASSUME TypeInv, NEW t \in Threads, NotifySuspended(t) \/ NotifyResumed(t)
    PROVE  TypeInv'
<1> USE DEF TypeInv, TypeOK, threadVars, localVars, readerVars, single, Goto, Times, Inside
<1>1. told' \in Seq(Notifications)
  BY NotificationType DEF NotifySuspended, NotifyResumed
<1>2. pc' \in [Threads -> Inside \cup {"runs", "hits", "marks", "enters", "reads", "notifies",
                                     "again"}]
  <2>1. CASE NotifySuspended(t)
    BY <2>1 DEF NotifySuspended
  <2>2. CASE NotifyResumed(t)
    BY <2>2 DEF NotifyResumed
  <2>3. QED
    BY <2>1, <2>2
<1>3. suspended' = {u \in Threads : pc'[u] \in Inside}
  BY DEF NotifySuspended, NotifyResumed
<1>4. suspendTime' \in 0..time' /\ resumeTime' \in 0..suspendTime' /\ time' = time
  BY DEF NotifySuspended, NotifyResumed, NewStop, NewResume
<1>5. pausing' \in BOOLEAN /\ awaited' \in {"none", "continue", "goto"} /\ timers' = timers /\ paused' = paused
  BY DEF NotifySuspended, NotifyResumed
<1>6. UNCHANGED <<threadVars, why, marking, readerVars>>
  BY DEF NotifySuspended, NotifyResumed
<1>7. QED
  BY <1>1, <1>2, <1>3, <1>4, <1>5, <1>6

(* ... those of the reader thread, ... *)
LEMMA TypeReader ==
    ASSUME TypeInv,
           \/ \E t \in Threads : CommandsInThread(t) \/ RequestStep(t) \/ RequestGoto(t)
                              \/ PauseMarks(t) \/ ContinueRuns(t)
           \/ BeginPause \/ BeginContinue \/ OnPause \/ EndCommand
    PROVE  TypeInv'
<1> USE DEF TypeInv, TypeOK, threadVars, localVars, readerVars, single, Times
<1>1. ASSUME NEW t \in Threads, CommandsInThread(t) PROVE TypeInv'
  BY <1>1 DEF CommandsInThread
<1>2. ASSUME NEW t \in Threads, RequestStep(t) PROVE TypeInv'
  BY <1>2, SuspensionConstants DEF RequestStep, Asks
<1>3. ASSUME NEW t \in Threads, PauseMarks(t) PROVE TypeInv'
  BY <1>3 DEF PauseMarks, Mark, Reasons
<1>4. ASSUME NEW t \in Threads, ContinueRuns(t) PROVE TypeInv'
  BY <1>4 DEF ContinueRuns, Run
<1>5. CASE BeginPause
  BY <1>5, SuspensionConstants DEF BeginPause, Asks, IncrementSuspendTime
<1>6. CASE BeginContinue
  BY <1>6, SuspensionConstants DEF BeginContinue, Asks
<1>7. CASE OnPause
  BY <1>7 DEF OnPause
<1>8. CASE EndCommand
  BY <1>8 DEF EndCommand
<1>9. ASSUME NEW t \in Threads, RequestGoto(t) PROVE TypeInv'
  BY <1>9, SuspensionConstants DEF RequestGoto, Asks
<1>10. QED
  BY <1>1, <1>2, <1>3, <1>4, <1>5, <1>6, <1>7, <1>8, <1>9

(* ... and those of the timers. *)
LEMMA TypeTimer ==
    ASSUME TypeInv, NEW g \in timers, NotifyAfterTimeout(g)
    PROVE  TypeInv'
<1> USE DEF TypeInv, TypeOK, threadVars, localVars, readerVars, single, Times
<1>1. told' \in Seq(Notifications)
  BY NotificationType DEF NotifyAfterTimeout, Reasons
<1>2. QED
  BY <1>1 DEF NotifyAfterTimeout, Overdue

(* Every step keeps the types. *)
LEMMA TypeStep == TypeInv /\ [Next]_vars => TypeInv'
<1> SUFFICES ASSUME TypeInv, [Next]_vars PROVE TypeInv'
  OBVIOUS
<1>1. CASE UNCHANGED vars
  BY <1>1 DEF vars, threadVars, localVars, readerVars, single, TypeInv, TypeOK
<1>2. QED
  BY <1>1, StepCases, TypeThread, TypeNotify, TypeReader, TypeTimer

(* Every variable keeps its type: among others, no stop is notified before *)
(* its time, and _suspended_thread_ids is the set of the threads between   *)
(* the two notifications.  (pydevd.py:275-344)                             *)
THEOREM TypeCorrect == Spec => []TypeOK
<1>1. TypeInv => TypeOK
  BY DEF TypeInv
<1>2. QED
  BY <1>1, TypeInit, TypeStep, PTL DEF Spec

-----------------------------------------------------------------------------
(* Notifications.  NotifiedInTurn is inductive: a thread that leaves its   *)
(* wait decides by the two times, which say what the IDE was told last.    *)

(* The notification that is appended is the last one, after those before.  *)
LEMMA Told ==
    ASSUME told \in Seq(Notifications), NEW t, NEW r, NEW w, Tell(w, t, r)
    PROVE  /\ Stopped' <=> w = "stopped"
           /\ ContinuedOnce /\ (w = "continued" => Stopped) => ContinuedOnce'
<1>1. /\ Len(told') = Len(told) + 1
      /\ told'[Len(told')].what = w
      /\ \A i \in 1..Len(told) : told'[i] = told[i]
      /\ DOMAIN told' = 1..Len(told')
      /\ told' # <<>>
      /\ Len(told) \in Nat
      /\ DOMAIN told = 1..Len(told)
  BY DEF Tell, Notification
<1>2. Stopped' <=> w = "stopped"
  BY <1>1 DEF Stopped, Last
<1>3. ASSUME ContinuedOnce, w = "continued" => Stopped,
             NEW i \in DOMAIN told', told'[i].what = "continued"
      PROVE  i > 1 /\ told'[i - 1].what = "stopped"
  <2>1. CASE i = Len(told')
    <3>1. Stopped
      BY <1>1, <1>3, <2>1
    <3>2. Len(told) > 0 /\ told[Len(told)].what = "stopped"
      BY <1>1, <3>1 DEF Stopped, Last
    <3>3. QED
      BY <1>1, <2>1, <3>2
  <2>2. CASE i # Len(told')
    <3>1. i \in 1..Len(told)
      BY <1>1, <2>2
    <3>2. i > 1 /\ told[i - 1].what = "stopped"
      BY <1>1, <1>3, <3>1 DEF ContinuedOnce
    <3>3. QED
      BY <1>1, <3>1, <3>2
  <2>3. QED
    BY <2>1, <2>2
<1>4. QED
  BY <1>2, <1>3 DEF ContinuedOnce

(* In the initial state nothing is reported and nothing suspended. *)
LEMMA ReportInit == Init => NotifiedInTurn
BY DEF Init, NotifiedInTurn, Stopped, NoneLeftStopped, ContinuedOnce

(* All that is left as it is by the steps that notify nothing.             *)
LEMMA ReportUntouched ==
    ASSUME NotifiedInTurn, UNCHANGED <<told, resumeTime, suspendTime, suspended>>
    PROVE  NotifiedInTurn'
BY DEF NotifiedInTurn, Stopped, NoneLeftStopped, ContinuedOnce

(* A thread that is suspended keeps the report right, ... *)
LEMMA ReportSuspended ==
    ASSUME TypeInv, NotifiedInTurn, NEW t \in Threads, NotifySuspended(t)
    PROVE  NotifiedInTurn'
<1>1. suspended' # {}
  BY DEF NotifySuspended
<1>2. CASE Notifiable(why[t]) /\ NewStop
  <2>1. Tell("stopped", t, why[t]) /\ resumeTime' < suspendTime'
    BY <1>2 DEF NotifySuspended, NewStop, TypeInv, TypeOK, Times
  <2>2. QED
    BY <1>1, <2>1, Told DEF NotifiedInTurn, NoneLeftStopped, TypeInv, TypeOK
<1>3. CASE ~(Notifiable(why[t]) /\ NewStop)
  BY <1>1, <1>3 DEF NotifySuspended, NotifiedInTurn, Stopped, NoneLeftStopped, ContinuedOnce
<1>4. QED
  BY <1>2, <1>3

(* ... so does one that is resumed, ... *)
LEMMA ReportResumed ==
    ASSUME TypeInv, NotifiedInTurn, NEW t \in Threads, NotifyResumed(t)
    PROVE  NotifiedInTurn'
<1>1. CASE NewResume
  <2>1. Tell("continued", t, why[t]) /\ ~(resumeTime' < suspendTime')
    BY <1>1 DEF NotifyResumed, TypeInv, TypeOK, Times
  <2>2. Stopped
    BY <1>1 DEF NotifiedInTurn, NewResume
  <2>3. QED
    BY <2>1, <2>2, Told DEF NotifiedInTurn, NoneLeftStopped, TypeInv, TypeOK
<1>2. CASE ~NewResume
  <2>1. UNCHANGED <<told, resumeTime, suspendTime>>
    BY <1>2 DEF NotifyResumed
  <2>2. ~Stopped
    BY <1>2 DEF NotifiedInTurn, NewResume
  <2>3. QED
    BY <2>1, <2>2 DEF NotifiedInTurn, Stopped, NoneLeftStopped, ContinuedOnce
<1>3. QED
  BY <1>1, <1>2

(* ... and a timer, ... *)
LEMMA ReportTimer ==
    ASSUME TypeInv, NotifiedInTurn, NEW g \in timers, NotifyAfterTimeout(g)
    PROVE  NotifiedInTurn'
<1>1. CASE Overdue(g)
  <2>1. PICK t \in suspended : Tell("stopped", t, "pause")
    BY <1>1 DEF NotifyAfterTimeout
  <2>2. resumeTime' < suspendTime' /\ suspended' # {}
    BY <1>1 DEF NotifyAfterTimeout, Overdue, TypeInv, TypeOK, Times
  <2>3. QED
    BY <2>1, <2>2, Told DEF NotifiedInTurn, NoneLeftStopped, TypeInv, TypeOK
<1>2. CASE ~Overdue(g)
  BY <1>2, ReportUntouched DEF NotifyAfterTimeout
<1>3. QED
  BY <1>1, <1>2

(* ... and every other step. *)
LEMMA ReportStep == TypeInv /\ NotifiedInTurn /\ [Next]_vars => NotifiedInTurn'
<1> SUFFICES ASSUME TypeInv, NotifiedInTurn, [Next]_vars PROVE NotifiedInTurn'
  OBVIOUS
<1>1. ASSUME \/ \E t \in Threads :
                   \/ \E r \in Reasons : Hit(t, r)
                   \/ SetSuspend(t) \/ Marked(t) \/ \E u \in Threads : MarkOne(t, u)
                   \/ SeesMark(t) \/ EnterWait(t) \/ ReadReason(t) \/ SeesRun(t) \/ AnswerGoto(t)
                   \/ Jump(t) \/ StopAgain(t) \/ CommandsInThread(t)
                   \/ RequestStep(t) \/ RequestGoto(t) \/ PauseMarks(t) \/ ContinueRuns(t)
             \/ BeginPause \/ BeginContinue \/ OnPause \/ EndCommand \/ UNCHANGED vars
      PROVE  NotifiedInTurn'
  <2>1. UNCHANGED <<told, resumeTime, suspendTime, suspended>>
    BY <1>1 DEF Hit, SetSuspend, Marked, MarkOne, SeesMark, EnterWait, ReadReason, SeesRun,
                AnswerGoto, Jump, StopAgain, CommandsInThread, RequestStep,
                RequestGoto, PauseMarks, ContinueRuns, BeginPause,
                BeginContinue, OnPause, EndCommand, single, vars
  <2>2. QED
    BY <2>1, ReportUntouched
<1>2. QED
  BY <1>1, StepCases, ReportSuspended, ReportResumed, ReportTimer

(* Both kinds of threads that notify of stops, those that stop and the     *)
(* timers of pauses, and those that resume in any order leave the IDE with *)
(* the right picture.  (pydevd.py:311-344)                                 *)
THEOREM ReportCorrect == Spec => []NotifiedInTurn
<1>1. TypeInv /\ NotifiedInTurn /\ [Next]_vars => TypeInv' /\ NotifiedInTurn'
  BY TypeStep, ReportStep
<1>2. QED
  BY <1>1, TypeInit, ReportInit, PTL DEF Spec

(* When no thread waits any more the IDE has been told so.                 *)
(* (pydevd.py:336-344)                                                     *)
THEOREM NoStopIsLeft == Spec => []NoneLeftStopped
<1>1. NotifiedInTurn => NoneLeftStopped
  BY DEF NotifiedInTurn
<1>2. QED
  BY <1>1, ReportCorrect, PTL

(* The IDE is told once that all threads go on.  (pydevd.py:341-344)       *)
THEOREM ContinuesOnce == Spec => []ContinuedOnce
<1>1. NotifiedInTurn => ContinuedOnce
  BY DEF NotifiedInTurn
<1>2. QED
  BY <1>1, ReportCorrect, PTL

-----------------------------------------------------------------------------
(* The number of stops.  Each one is notified at a later time than the one *)
(* before, and the first only after some thread or the reader has called   *)
(* set_suspend: until then no thread is marked, and none can wait.         *)
Unmarked ==
    /\ \A t \in Threads : state[t] = "run" /\ pc[t] \in {"runs", "hits"}
    /\ reader.command \notin {"pause", "suspend"}

TimesInv ==
    /\ time >= 1 /\ (time = 1 => Unmarked)
    /\ \A g \in timers : g > 1
    /\ suspendTime # 1

StopsCounted ==
    /\ Cardinality(Stops) <= suspendTime
    /\ suspendTime > 0 => Cardinality(Stops) < suspendTime

CountInv == TimesInv /\ StopsCounted

(* In the initial state no stop has been told. *)
LEMMA CountInit == Init => CountInv
<1> SUFFICES ASSUME Init PROVE CountInv
  OBVIOUS
<1>1. TimesInv
  BY DEF Init, TimesInv, Unmarked
<1>2. Stops = {}
  BY DEF Init, Stops
<1>3. QED
  BY <1>1, <1>2, FS_EmptySet DEF Init, CountInv, StopsCounted

(* The places of stops are finitely many, and a notification adds at most  *)
(* its own.                                                                *)
LEMMA StopsFinite ==
    ASSUME told \in Seq(Notifications)
    PROVE  IsFiniteSet(Stops) /\ Cardinality(Stops) \in Nat
<1>1. DOMAIN told = 1..Len(told) /\ Len(told) \in Nat
  OBVIOUS
<1>2. IsFiniteSet(1..Len(told))
  BY <1>1, FS_Interval
<1>3. IsFiniteSet(Stops)
  BY <1>1, <1>2, FS_Subset DEF Stops
<1>4. QED
  BY <1>3, FS_CardinalityType

(* A notification adds at most one stop. *)
LEMMA StopsTold ==
    ASSUME told \in Seq(Notifications), NEW t, NEW r, NEW w, Tell(w, t, r)
    PROVE  /\ Cardinality(Stops') <= Cardinality(Stops) + 1
           /\ w # "stopped" => Stops' = Stops
           /\ Cardinality(Stops') \in Nat
<1>1. /\ Len(told') = Len(told) + 1
      /\ told'[Len(told')].what = w
      /\ \A i \in 1..Len(told) : told'[i] = told[i]
      /\ DOMAIN told' = 1..Len(told')
      /\ Len(told) \in Nat
      /\ DOMAIN told = 1..Len(told)
  BY DEF Tell, Notification
<1>2. Stops' = IF w = "stopped" THEN Stops \cup {Len(told) + 1} ELSE Stops
  BY <1>1 DEF Stops
<1>3. IsFiniteSet(Stops) /\ Cardinality(Stops) \in Nat
  BY StopsFinite
<1>4. CASE w = "stopped"
  <2>1. Stops' = Stops \cup {Len(told) + 1}
    BY <1>2, <1>4
  <2>2. Cardinality(Stops') \in {Cardinality(Stops), Cardinality(Stops) + 1}
    BY <1>3, <2>1, FS_AddElement
  <2>3. QED
    BY <1>3, <1>4, <2>2
<1>5. CASE w # "stopped"
  BY <1>2, <1>3, <1>5
<1>6. QED
  BY <1>2, <1>4, <1>5

(* TimesInv, by the steps that call increment_suspend_time and by others.  *)
LEMMA TimePasses ==
    ASSUME TypeInv, TimesInv, timers' = timers, suspendTime' = suspendTime, IncrementSuspendTime
    PROVE  TimesInv'
BY DEF TypeInv, TypeOK, Times, TimesInv, IncrementSuspendTime

(* The times of stops that threads of the debuggee remember are past, ... *)
LEMMA TimesThread ==
    ASSUME TypeInv, TimesInv, NEW t \in Threads,
           \/ \E r \in Reasons : Hit(t, r)
           \/ SetSuspend(t) \/ Marked(t) \/ \E u \in Threads : MarkOne(t, u)
           \/ SeesMark(t) \/ EnterWait(t) \/ ReadReason(t) \/ NotifySuspended(t) \/ SeesRun(t)
           \/ NotifyResumed(t) \/ AnswerGoto(t) \/ Jump(t) \/ StopAgain(t)
    PROVE  TimesInv'
<1> USE DEF TypeInv, TypeOK, threadVars, localVars, readerVars, single, Goto, Times
<1>1. ASSUME NEW r \in Reasons, Hit(t, r) PROVE TimesInv'
  BY <1>1 DEF Hit, TimesInv, Unmarked
<1>2. CASE SetSuspend(t) \/ StopAgain(t)
  BY <1>2, TimePasses DEF SetSuspend, StopAgain
<1>3. CASE /\ time > 1 /\ UNCHANGED <<time, timers>>
           /\ suspendTime' \in {suspendTime, time}
  BY <1>3 DEF TimesInv
<1>4. CASE \/ Marked(t) \/ \E u \in Threads : MarkOne(t, u)
           \/ SeesMark(t) \/ EnterWait(t) \/ ReadReason(t) \/ NotifySuspended(t) \/ SeesRun(t)
           \/ NotifyResumed(t) \/ AnswerGoto(t) \/ Jump(t)
  <2>1. time > 1
    BY <1>4 DEF Marked, MarkOne, SeesMark, EnterWait, ReadReason, NotifySuspended, SeesRun,
                NotifyResumed, AnswerGoto, Jump, TimesInv, Unmarked
  <2>2. UNCHANGED <<time, timers>> /\ suspendTime' \in {suspendTime, time}
    BY <1>4 DEF Marked, MarkOne, SeesMark, EnterWait, ReadReason, NotifySuspended, SeesRun,
                NotifyResumed, AnswerGoto, Jump
  <2>3. QED
    BY <1>3, <2>1, <2>2
<1>5. QED
  BY <1>1, <1>2, <1>4

(* ... and the reader thread does not change that. *)
LEMMA TimesReader ==
    ASSUME TypeInv, TimesInv,
           \/ \E t \in Threads : CommandsInThread(t) \/ RequestStep(t) \/ RequestGoto(t)
                              \/ PauseMarks(t) \/ ContinueRuns(t)
           \/ BeginPause \/ BeginContinue \/ OnPause \/ EndCommand
    PROVE  TimesInv'
<1> USE DEF TypeInv, TypeOK, threadVars, localVars, readerVars, single, Times, Inside
<1>1. CASE \E t \in Threads : CommandsInThread(t) \/ RequestStep(t) \/ RequestGoto(t)
                             \/ PauseMarks(t)
  <2>1. time > 1
    BY <1>1 DEF CommandsInThread, RequestStep, RequestGoto, PauseMarks, TimesInv, Unmarked
  <2>2. UNCHANGED <<time, timers, suspendTime>>
    BY <1>1 DEF CommandsInThread, RequestStep, RequestGoto, PauseMarks
  <2>3. QED
    BY <2>1, <2>2 DEF TimesInv
<1>2. ASSUME NEW t \in Threads, ContinueRuns(t) PROVE TimesInv'
  BY <1>2 DEF ContinueRuns, Run, TimesInv, Unmarked
<1>3. CASE BeginPause
  BY <1>3, TimePasses DEF BeginPause
<1>4. CASE BeginContinue
  BY <1>4 DEF BeginContinue, Asks, TimesInv, Unmarked
<1>5. CASE OnPause
  BY <1>5 DEF OnPause, TimesInv, Unmarked
<1>6. CASE EndCommand
  BY <1>6 DEF EndCommand, TimesInv, Unmarked
<1>7. QED
  BY <1>1, <1>2, <1>3, <1>4, <1>5, <1>6

(* A step that notifies nothing, and one that may notify of a stop at a    *)
(* later time than before, or of a resumption.                             *)
LEMMA CountSame ==
    ASSUME StopsCounted, UNCHANGED <<told, suspendTime>>
    PROVE  StopsCounted'
BY DEF StopsCounted, Stops

(* A stop that is told at a later time than the last is counted. *)
LEMMA CountStop ==
    ASSUME TypeInv, TimesInv, StopsCounted, NEW t, NEW r, Tell("stopped", t, r),
           suspendTime' \in Nat, suspendTime' > suspendTime, suspendTime' > 1
    PROVE  StopsCounted'
<1>1. Cardinality(Stops') <= Cardinality(Stops) + 1 /\ Cardinality(Stops') \in Nat
  BY StopsTold DEF TypeInv, TypeOK
<1>2. Cardinality(Stops) \in Nat
  BY StopsFinite DEF TypeInv, TypeOK
<1>3. suspendTime \in Nat
  BY DEF TypeInv, TypeOK, Times
<1>4. QED
  BY <1>1, <1>2, <1>3 DEF StopsCounted

(* The notifications of the threads keep the count, ... *)
LEMMA CountNotify ==
    ASSUME TypeInv, CountInv, NEW t \in Threads, NotifySuspended(t) \/ NotifyResumed(t)
    PROVE  StopsCounted'
<1>1. CASE NotifySuspended(t)
  <2>1. time > 1
    BY <1>1 DEF NotifySuspended, CountInv, TimesInv, Unmarked, TypeInv, TypeOK, Times
  <2>2. CASE Notifiable(why[t]) /\ NewStop
    BY <1>1, <2>1, <2>2, CountStop DEF NotifySuspended, NewStop, CountInv, TypeInv, TypeOK, Times
  <2>3. CASE ~(Notifiable(why[t]) /\ NewStop)
    BY <1>1, <2>3, CountSame DEF NotifySuspended, CountInv
  <2>4. QED
    BY <2>2, <2>3
<1>2. CASE NotifyResumed(t)
  <2>1. suspendTime' = suspendTime
    BY <1>2 DEF NotifyResumed
  <2>2. Stops' = Stops
    <3>1. CASE NewResume
      BY <1>2, <3>1, StopsTold DEF NotifyResumed, TypeInv, TypeOK
    <3>2. CASE ~NewResume
      BY <1>2, <3>2 DEF NotifyResumed, Stops
    <3>3. QED
      BY <3>1, <3>2
  <2>3. QED
    BY <2>1, <2>2 DEF CountInv, StopsCounted
<1>3. QED
  BY <1>1, <1>2

(* ... those of the timers do, ... *)
LEMMA CountTimer ==
    ASSUME TypeInv, CountInv, NEW g \in timers, NotifyAfterTimeout(g)
    PROVE  CountInv'
<1>1. g > 1 /\ g \in Nat /\ suspendTime \in Nat /\ g <= time /\ time \in Nat
  BY DEF CountInv, TimesInv, TypeInv, TypeOK, Times
<1>2. TimesInv'
  BY <1>1 DEF NotifyAfterTimeout, CountInv, TimesInv
<1>3. StopsCounted'
  <2>1. CASE Overdue(g)
    BY <1>1, <2>1, CountStop DEF NotifyAfterTimeout, Overdue, CountInv
  <2>2. CASE ~Overdue(g)
    BY <2>2, CountSame DEF NotifyAfterTimeout, CountInv
  <2>3. QED
    BY <2>1, <2>2
<1>4. QED
  BY <1>2, <1>3 DEF CountInv

(* ... and every other step. *)
LEMMA CountStep == TypeInv /\ CountInv /\ [Next]_vars => CountInv'
<1> SUFFICES ASSUME TypeInv, CountInv, [Next]_vars PROVE CountInv'
  OBVIOUS
<1>1. CASE UNCHANGED vars
  BY <1>1, CountSame DEF CountInv, TimesInv, Unmarked, vars, threadVars, localVars, readerVars, single
<1>2. CASE \/ \E t \in Threads :
                 \/ \E r \in Reasons : Hit(t, r)
                 \/ SetSuspend(t) \/ Marked(t) \/ \E u \in Threads : MarkOne(t, u)
                 \/ SeesMark(t) \/ EnterWait(t) \/ ReadReason(t) \/ SeesRun(t) \/ AnswerGoto(t)
                 \/ Jump(t) \/ StopAgain(t) \/ CommandsInThread(t)
                 \/ RequestStep(t) \/ RequestGoto(t) \/ PauseMarks(t) \/ ContinueRuns(t)
           \/ BeginPause \/ BeginContinue \/ OnPause \/ EndCommand
  <2>1. UNCHANGED <<told, suspendTime>>
    BY <1>2 DEF Hit, SetSuspend, Marked, MarkOne, SeesMark, EnterWait, ReadReason, SeesRun,
                AnswerGoto, Jump, StopAgain, CommandsInThread, RequestStep,
                RequestGoto, PauseMarks, ContinueRuns, BeginPause,
                BeginContinue, OnPause, EndCommand, single
  <2>2. TimesInv'
    BY <1>2, TimesThread, TimesReader DEF CountInv
  <2>3. QED
    BY <2>1, <2>2, CountSame DEF CountInv
<1>3. ASSUME NEW t \in Threads, NotifySuspended(t) \/ NotifyResumed(t) PROVE CountInv'
  BY <1>3, TimesThread, CountNotify DEF CountInv
<1>4. QED
  BY <1>1, <1>2, <1>3, StepCases, CountTimer

(* The IDE is told of at most as many stops as there were calls of         *)
(* set_suspend, however many threads pass by the notification and whenever *)
(* the timers of pauses fire.  (pydevd.py:311-335, 1596)                   *)
THEOREM StopsAreRequested == Spec => []OneStopPerRequest
<1>1. TypeInv /\ CountInv => OneStopPerRequest
  BY StopsFinite DEF TypeInv, TypeOK, Times, CountInv, TimesInv, StopsCounted, OneStopPerRequest
<1>2. TypeInv /\ CountInv /\ [Next]_vars => TypeInv' /\ CountInv'
  BY TypeStep, CountStep
<1>3. QED
  BY <1>1, <1>2, TypeInit, CountInit, PTL DEF Spec
==============================================================================
