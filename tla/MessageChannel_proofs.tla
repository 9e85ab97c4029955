----------------------- MODULE MessageChannel_proofs -----------------------
(***************************************************************************)
(* Proofs about MessageChannel, for every number of threads, messages and  *)
(* handlers.  First its types and its requests, in the order in which the  *)
(* threads send them; then the handlers that it queues, from the message   *)
(* or the response that queues one to its end: in which order they run,    *)
(* that none is lost or run twice, what wait() waits for, and that the     *)
(* channel implements RequestLifecycle.                                    *)
(***************************************************************************)
EXTENDS MessageChannel, SequenceLemmas, SequenceTheorems, FiniteSetTheorems, TLAPS

-----------------------------------------------------------------------------
(* Types.  TypeOK is not inductive by itself: what a thread takes from a   *)
(* queue or from its own registers must be there when it comes to take it. *)

(* The message the parser has read stays in its hand, and a response in    *)
(* its hand was found among the requests; a handler that runs is the first *)
(* of its batch; a thread inside _send_message has a sequence number.      *)
InHandInv ==
    /\ ppc \in {"parse", "answer", "unknown"} => inbox # <<>>
    /\ ppc = "answer" => InHand.id \in Seqs
    /\ hpc = "inside" => batch # <<>>
    /\ \A t \in Threads : pc[t] \in {"request", "event"} => at[t] \in Seqs

TypeInv == TypeOK /\ InHandInv

(* The units of a response are units.  (ResponseUnits) *)
LEMMA ResponseUnitsType ==
    ASSUME NEW s \in Nat, NEW hs \in Seq(Hooks)
    PROVE  ResponseUnits(s, hs) \in Seq(Units)
<1> DEFINE tail == [i \in 1..Len(hs) |-> Unit("hook", hs[i])]
<1>1. /\ Len(hs) \in Nat
      /\ \A i \in 1..Len(hs) : hs[i] \in Nat
  BY ElementOfSeq, LenProperties, ChannelConstants DEF Hooks
<1>2. \A i \in 1..Len(hs) : Unit("hook", hs[i]) \in Units
  BY <1>1 DEF Unit, Units
<1>3. tail \in [1..Len(hs) -> Units]
  BY <1>2
<1>4. tail \in Seq(Units)
  BY <1>1, <1>3, SeqDef
<1>5. <<Unit("response", s)>> \in Seq(Units)
  BY DEF Unit, Units
<1>6. QED
  BY <1>4, <1>5, ConcatProperties DEF ResponseUnits

(* What _enqueue_handlers does to the queue, the waiters and the handler   *)
(* thread; it neither starts nor ends a handler.  (Enqueue)                *)
LEMMA EnqueueType ==
    ASSUME TypeOK, NEW units \in Seq(Units), Enqueue(units)
    PROVE  /\ queue' \in Seq(Units)
           /\ waitset' = {}
           /\ hpc' \in {"absent", "check", "join", "take", "drain", "asleep",
                        "woken", "run", "inside", "killed"}
           /\ hpc' = "inside" <=> hpc = "inside"
           /\ hpc' # "asleep"
           /\ queue' # <<>> => hpc' # "absent"
<1>1. queue' \in Seq(Units)
  BY ConcatProperties DEF TypeOK, Enqueue
<1>2. QED
  BY <1>1 DEF TypeOK, Enqueue, NeedsThread

(* The same of _enqueue_response_handlers.  (EnqueueResponse) *)
LEMMA EnqueueResponseType ==
    ASSUME TypeOK, NEW s \in Nat, NEW hs \in Seq(Hooks), EnqueueResponse(s, hs)
    PROVE  /\ queue' \in Seq(Units)
           /\ waitset' = {}
           /\ hpc' \in {"absent", "check", "join", "take", "drain", "asleep",
                        "woken", "run", "inside", "killed"}
           /\ hpc' = "inside" <=> hpc = "inside"
           /\ hpc' # "asleep"
           /\ queue' # <<>> => hpc' # "absent"
           /\ hooks' \in [Seqs -> Seq(Hooks)]
<1>1. ResponseUnits(s, hs) \in Seq(Units)
  BY ResponseUnitsType
<1>2. Enqueue(ResponseUnits(s, hs))
  BY DEF EnqueueResponse
<1>3. <<>> \in Seq(Hooks)
  BY EmptySeq
<1>4. hooks' \in [Seqs -> Seq(Hooks)]
  BY <1>3 DEF EnqueueResponse, TypeOK
<1>5. QED
  BY <1>1, <1>2, <1>4, EnqueueType

(* The channel starts with every variable of its type.  (__init__, start) *)
LEMMA InitType == Init => TypeInv
<1> SUFFICES ASSUME Init PROVE TypeInv
  OBVIOUS
<1>1. <<>> \in Seq(Hooks) /\ <<>> \in Seq(Units) /\ <<>> \in Seq(Incoming)
  BY EmptySeq
<1>2. /\ hooks \in [Seqs -> Seq(Hooks)]
      /\ response \in [Seqs -> {"none", "answered", "gone"}]
  BY <1>1 DEF Init
<1>3. /\ at \in [Threads -> 0..MaxSeq] /\ hookOf \in [Hooks -> 0..MaxSeq]
      /\ nextSeq \in 1..(MaxSeq + 1) /\ arrived \in 0..MaxIn /\ nhooks \in 0..MaxHooks
  BY ChannelConstants DEF Init
<1>4. TypeOK
  BY <1>1, <1>2, <1>3 DEF Init, TypeOK
<1>5. InHandInv
  BY DEF Init, InHandInv
<1>6. QED
  BY <1>4, <1>5 DEF TypeInv

(* Every step of the client threads keeps the types. *)
LEMMA ClientType ==
    ASSUME TypeInv, NEW t \in Threads, ClientStep(t)
    PROVE  TypeInv'
<1> USE ChannelConstants
    DEF TypeInv, TypeOK, InHandInv, chan, runner, client, peer, hist, Seqs, Hooks,
        InHand
<1>1. ASSUME NEW k \in {"request", "event"}, BeginSend(t, k) PROVE TypeInv'
  BY SMTT(30), <1>1 DEF BeginSend
<1>2. CASE EndSend(t)
  <2>1. sent' \subseteq Seqs /\ issued' \subseteq Seqs
    BY <1>2 DEF EndSend, Register
  <2>2. /\ pc' \in [Threads -> {"idle", "request", "event", "wait", "joinP", "joinH",
                               "killed"}]
        /\ at' \in [Threads -> 0..MaxSeq]
        /\ \A u \in Threads : pc'[u] \in {"request", "event"} => at'[u] \in Seqs
    BY <1>2 DEF EndSend
  <2>3. QED
    BY ZenonT(60), <1>2, <2>1, <2>2 DEF EndSend
<1>3. ASSUME NEW s \in Seqs, BeginWait(t, s) PROVE TypeInv'
  <2>1. /\ pc' \in [Threads -> {"idle", "request", "event", "wait", "joinP", "joinH",
                               "killed"}]
        /\ at' \in [Threads -> 0..MaxSeq]
        /\ \A u \in Threads : pc'[u] \in {"request", "event"} => at'[u] \in Seqs
    BY <1>3 DEF BeginWait
  <2>2. QED
    BY SMTT(60), <1>3, <2>1 DEF BeginWait
<1>4. ASSUME NEW s \in Seqs, OnResponse(t, s) PROVE TypeInv'
  <2>1. nhooks + 1 \in Hooks /\ hooks[s] \in Seq(Hooks)
    BY <1>4 DEF OnResponse
  <2>2. Append(hooks[s], nhooks + 1) \in Seq(Hooks)
    BY <2>1, AppendProperties
  <2>3. nhooks' \in 0..MaxHooks /\ hookOf' \in [Hooks -> 0..MaxSeq]
    BY <1>4, <2>1 DEF OnResponse
  <2>4. CASE ~Answered(s)
    <3>1. hooks' \in [Seqs -> Seq(Hooks)]
      BY ZenonT(60), <1>4, <2>2, <2>4 DEF OnResponse
    <3>2. QED
      BY ZenonT(60), <1>4, <2>3, <2>4, <3>1 DEF OnResponse
  <2>5. CASE Answered(s)
    <3>1. EnqueueResponse(s, Append(hooks[s], nhooks + 1))
      BY <1>4, <2>5 DEF OnResponse
    <3>2. /\ queue' \in Seq(Units) /\ waitset' = {}
          /\ hpc' \in {"absent", "check", "join", "take", "drain", "asleep",
                       "woken", "run", "inside", "killed"}
          /\ hpc' = "inside" <=> hpc = "inside"
          /\ hooks' \in [Seqs -> Seq(Hooks)]
      <4>1. s \in Nat /\ TypeOK
        OBVIOUS
      <4>2. QED
        BY <2>2, <3>1, <4>1, EnqueueResponseType, ZenonT(30)
    <3>3. QED
      BY <1>4, <2>3, <3>2 DEF OnResponse
  <2>6. QED
    BY <2>4, <2>5
<1>5. CASE Recheck(t)
  <2>1. /\ pc' \in [Threads -> {"idle", "request", "event", "wait", "joinP", "joinH",
                               "killed"}]
        /\ at' \in [Threads -> 0..MaxSeq]
        /\ waitset' \subseteq Threads
        /\ \A u \in Threads : pc'[u] \in {"request", "event"} => at'[u] \in Seqs
    <3>1. CASE response[at[t]] = "none"
      BY <1>5, <3>1 DEF Recheck
    <3>2. CASE response[at[t]] # "none"
      <4>1. pc' = [pc EXCEPT ![t] = "idle"] /\ at' = [at EXCEPT ![t] = 0]
        BY <1>5, <3>2 DEF Recheck
      <4>2. at' \in [Threads -> 0..MaxSeq]
        BY <4>1
      <4>3. QED
        BY <1>5, <3>2, <4>1, <4>2 DEF Recheck
    <3>3. QED
      BY <3>1, <3>2
  <2>2. QED
    BY <1>5, <2>1 DEF Recheck
<1>6. CASE Close(t)
  BY <1>6 DEF Close
<1>7. CASE BeginJoin(t)
  BY <1>7 DEF BeginJoin
<1>8. CASE JoinParser(t)
  BY <1>8 DEF JoinParser
<1>9. QED
  BY <1>1, <1>2, <1>3, <1>4, <1>5, <1>6, <1>7, <1>8 DEF ClientStep

(* Every step of the parser thread keeps the types. *)
LEMMA ParserType ==
    ASSUME TypeInv, ParserStep
    PROVE  TypeInv'
<1> USE ChannelConstants
    DEF TypeInv, TypeOK, InHandInv, chan, runner, client, peer, hist, Seqs, InHand,
        Incoming
<1>1. ASSUME inbox # <<>>
      PROVE  /\ Head(inbox) \in Incoming /\ Tail(inbox) \in Seq(Incoming)
             /\ InHand.id \in Nat
  <2>1. Head(inbox) \in Incoming /\ Tail(inbox) \in Seq(Incoming)
    BY <1>1, HeadTailProperties
  <2>2. QED
    BY <2>1
<1>2. CASE Read
  BY <1>2 DEF Read, Stopped
<1>3. CASE ParseMessage
  <2>1. <<Unit("message", InHand.id)>> \in Seq(Units)
    BY <1>1, <1>3 DEF ParseMessage, Unit, Units
  <2>2. QED
    BY <1>1, <1>3, <2>1, EnqueueType DEF ParseMessage, Parsed
<1>4. CASE ParseInvalid
  BY <1>1, <1>4 DEF ParseInvalid, Parsed
<1>5. CASE ParseResponse
  BY <1>5 DEF ParseResponse, Pop
<1>6. CASE Answer
  <2>1. InHand.id \in Seqs /\ hooks[InHand.id] \in Seq(Hooks)
    BY <1>6 DEF Answer
  <2>2. EnqueueResponse(InHand.id, hooks[InHand.id])
    BY <1>6 DEF Answer
  <2>3. QED
    BY <1>1, <1>6, <2>1, <2>2, EnqueueResponseType DEF Answer, Parsed
<1>7. CASE AnswerUnknown
  <2>1. <<>> \in Seq(Hooks)
    BY EmptySeq
  <2>2. ResponseUnits(InHand.id, <<>>) \in Seq(Units)
    BY <1>1, <1>7, <2>1, ResponseUnitsType DEF AnswerUnknown
  <2>3. QED
    BY <1>1, <1>7, <2>2, EnqueueType DEF AnswerUnknown, Parsed
<1>8. CASE EndOfStream
  BY <1>8 DEF EndOfStream
<1>9. ASSUME NEW s \in Seqs, GiveUp(s) PROVE TypeInv'
  <2>1. hooks[s] \in Seq(Hooks) /\ EnqueueResponse(s, hooks[s])
    BY <1>9 DEF GiveUp
  <2>2. /\ queue' \in Seq(Units) /\ waitset' = {}
        /\ hpc' \in {"absent", "check", "join", "take", "drain", "asleep",
                     "woken", "run", "inside", "killed"}
        /\ hpc' = "inside" <=> hpc = "inside"
        /\ hooks' \in [Seqs -> Seq(Hooks)]
    BY <2>1, EnqueueResponseType
  <2>3. QED
    BY <1>9, <2>2 DEF GiveUp, Pop
<1>10. CASE EndParser
  <2>1. <<Disconnect>> \in Seq(Units)
    BY DEF Disconnect, Unit, Units
  <2>2. QED
    BY <1>10, <2>1, EnqueueType DEF EndParser, Stopped
<1>11. QED
  BY <1>2, <1>3, <1>4, <1>5, <1>6, <1>7, <1>8, <1>9, <1>10 DEF ParserStep

(* Every step of the handler thread keeps the types, and so does its end   *)
(* together with the process.                                              *)
LEMMA HandlerType ==
    ASSUME TypeInv, HandlerStep \/ HandlerFails
    PROVE  TypeInv'
<1> USE ChannelConstants
    DEF TypeInv, TypeOK, InHandInv, chan, runner, client, peer, hist, Seqs, Hooks,
        InHand
<1>1. CASE ReadClosed
  BY <1>1 DEF ReadClosed
<1>2. CASE JoinedParser
  BY <1>2 DEF JoinedParser
<1>3. CASE TakeBatch
  <2>1. batch' \in Seq(Units) /\ queue' \in Seq(Units)
    BY <1>3, EmptySeq DEF TakeBatch
  <2>2. hpc' \in {"asleep", "absent", "run"}
    BY <1>3 DEF TakeBatch
  <2>3. /\ pc' \in [Threads -> {"idle", "request", "event", "wait", "joinP", "joinH",
                               "killed"}]
        /\ \A u \in Threads : pc'[u] \in {"request", "event"} => pc[u] = pc'[u]
    BY <1>3 DEF TakeBatch, JoinersReturn
  <2>4. QED
    BY <1>3, <2>1, <2>2, <2>3 DEF TakeBatch
<1>4. CASE EndBatch
  BY <1>4 DEF EndBatch
<1>5. CASE BeginHandler
  BY <1>5 DEF BeginHandler
<1>6. CASE EndHandler
  <2>1. batch # <<>>
    BY <1>6 DEF EndHandler
  <2>2. Head(batch) \in Units /\ Tail(batch) \in Seq(Units)
    BY <2>1, HeadTailProperties
  <2>3. Append(handled, Head(batch)) \in Seq(Units)
    BY <2>2, AppendProperties
  <2>4. QED
    BY <1>6, <2>2, <2>3 DEF EndHandler
<1>7. CASE HandlerFails
  BY <1>7 DEF HandlerFails
<1>8. QED
  BY <1>1, <1>2, <1>3, <1>4, <1>5, <1>6, <1>7 DEF HandlerStep

(* Every step of the other party keeps the types, and what the parser has  *)
(* in its hand.                                                            *)
LEMMA PeerType ==
    ASSUME TypeInv, PeerCloses \/ \E k \in PeerKinds : PeerMessage(k)
    PROVE  TypeInv'
<1> USE ChannelConstants
    DEF TypeInv, TypeOK, InHandInv, chan, runner, client, peer, hist, Seqs, InHand
<1>1. CASE PeerCloses
  BY <1>1 DEF PeerCloses
<1>2. ASSUME NEW m \in Incoming, PeerSends(m) PROVE TypeInv'
  <2>1. /\ inbox' \in Seq(Incoming) /\ inbox' # <<>>
        /\ inbox # <<>> => Head(inbox') = Head(inbox)
    <3>1. inbox' = Append(inbox, m) /\ inbox \in Seq(Incoming)
      BY <1>2 DEF PeerSends
    <3>2. Append(inbox, m) \in Seq(Incoming) /\ Append(inbox, m) # <<>>
      BY <3>1, AppendProperties
    <3>3. inbox # <<>> => Head(Append(inbox, m)) = Head(inbox)
      BY <3>1, HeadTailAppend
    <3>4. QED
      BY <3>1, <3>2, <3>3
  <2>2. arrived' \in 0..MaxIn
    BY <1>2 DEF PeerSends
  <2>3. QED
    BY <1>2, <2>1, <2>2 DEF PeerSends
<1>3. ASSUME NEW k \in PeerKinds, PeerMessage(k) PROVE TypeInv'
  <2>1. ASSUME NEW n \in Nat, PeerSends([kind |-> k, id |-> n]) PROVE TypeInv'
    <3>1. [kind |-> k, id |-> n] \in Incoming
      BY DEF Incoming
    <3>2. QED
      BY <1>2, <2>1, <3>1
  <2>2. arrived + 1 \in Nat /\ 0 \in Nat /\ \A s \in Seqs : s \in Nat
    OBVIOUS
  <2>3. QED
    BY <1>3, <2>1, <2>2 DEF PeerMessage
<1>4. QED
  BY <1>1, <1>3

(* Every step of every thread keeps the types: the four lemmas above. *)
LEMMA NextType == TypeInv /\ [Next]_vars => TypeInv'
<1> SUFFICES ASSUME TypeInv, [Next]_vars PROVE TypeInv'
  OBVIOUS
<1>1. CASE Start
  BY <1>1 DEF Start, TypeInv, TypeOK, InHandInv, InHand, chan, runner, client, peer, hist
<1>2. CASE UNCHANGED vars
  BY <1>2 DEF vars, TypeInv, TypeOK, InHandInv, InHand, chan, runner, client, peer, hist
<1>3. QED
  BY <1>1, <1>2, ClientType, ParserType, HandlerType, PeerType DEF Next

(* Every variable keeps its type, whatever the threads do. *)
THEOREM TypeCorrect == Spec => []TypeOK
<1>1. TypeInv => TypeOK
  BY DEF TypeInv
<1>2. QED
  BY <1>1, InitType, NextType, PTL DEF Spec

(* The types hold always, together with what the later invariants need of *)
(* the parser's hand and the handler thread (TypeInv).                     *)
THEOREM TypeInvariant == Spec => []TypeInv
BY InitType, NextType, PTL DEF Spec

-----------------------------------------------------------------------------
(* No request is forgotten.  A request that a caller got is answered, or   *)
(* among those that the end of the message loop will answer, or in the     *)
(* hand of the parser, which is about to answer it; unless the process is  *)
(* on its way out.  Without the last two the property is not inductive:    *)
(* Response._parse takes the request out of _sent_requests in one section  *)
(* and answers it in another.                                              *)
Accounted(s) ==
    \/ response[s] # "none"
    \/ s \in sent
    \/ ppc = "answer" /\ InHand.id = s
    \/ ppc = "killed"

ForgetInv ==
    /\ \A s \in issued : Accounted(s)
    /\ NoRequestForgotten

(* No request has been sent yet, so none is forgotten.  (__init__) *)
LEMMA InitForget == Init => ForgetInv
BY DEF Init, ForgetInv, NoRequestForgotten

(* A step of the other party leaves what is in the parser's hand. *)
LEMMA HandStays ==
    ASSUME TypeInv, NEW k \in PeerKinds, PeerMessage(k), ppc = "answer"
    PROVE  InHand' = InHand
<1>1. inbox # <<>> /\ inbox \in Seq(Incoming)
  BY DEF TypeInv, TypeOK, InHandInv
<1>2. \E m : inbox' = Append(inbox, m)
  BY DEF PeerMessage, PeerSends
<1>3. PICK m : inbox' = Append(inbox, m)
  BY <1>2
<1>4. Head(Append(inbox, m)) = Head(inbox)
  BY <1>1, HeadTailAppend
<1>5. QED
  BY <1>3, <1>4 DEF InHand

(* No step forgets a request: it leaves _sent_requests only for the hand   *)
(* of the parser, and that hand only with an answer.  (_send_message,      *)
(* _handle_disconnect, OutgoingRequest)                                    *)
LEMMA NextForget == TypeInv /\ ForgetInv /\ [Next]_vars => ForgetInv'
<1> SUFFICES ASSUME TypeInv, ForgetInv, [Next]_vars PROVE ForgetInv'
  OBVIOUS
<1> USE DEF ForgetInv, NoRequestForgotten, Accounted, InHand,
            chan, runner, client, peer, hist
<1>1. CASE Start
  BY <1>1 DEF Start
<1>2. ASSUME NEW t \in Threads, ClientStep(t) PROVE ForgetInv'
  <2>1. ASSUME NEW k \in {"request", "event"}, BeginSend(t, k) PROVE ForgetInv'
    BY <2>1 DEF BeginSend
  <2>2. CASE EndSend(t)
    <3>1. \A s \in issued' : s \in issued \/ (s \in sent' /\ ~closed)
      BY <2>2 DEF EndSend, Register
    <3>2. sent \subseteq sent'
      BY <2>2 DEF EndSend, Register
    <3>3. QED
      BY <2>2, <3>1, <3>2 DEF EndSend
  <2>3. ASSUME NEW s \in Seqs, BeginWait(t, s) PROVE ForgetInv'
    BY <2>3 DEF BeginWait
  <2>4. ASSUME NEW s \in Seqs, OnResponse(t, s) PROVE ForgetInv'
    BY <2>4 DEF OnResponse
  <2>5. CASE Recheck(t)
    BY <2>5 DEF Recheck
  <2>6. CASE Close(t)
    BY <2>6 DEF Close
  <2>7. CASE BeginJoin(t) \/ JoinParser(t)
    BY <2>7 DEF BeginJoin, JoinParser
  <2>8. QED
    BY <1>2, <2>1, <2>2, <2>3, <2>4, <2>5, <2>6, <2>7 DEF ClientStep
<1>3. CASE ParserStep
  <2>1. CASE Read
    BY <2>1 DEF Read
  <2>2. CASE ParseMessage \/ ParseInvalid \/ AnswerUnknown
    BY <2>2 DEF ParseMessage, ParseInvalid, AnswerUnknown, Parsed
  <2>3. CASE ParseResponse
    <3>1. \A s \in sent : s \in sent' \/ (ppc' = "answer" /\ InHand' = InHand /\ InHand.id = s)
      BY <2>3 DEF ParseResponse, Pop
    <3>2. QED
      BY <2>3, <3>1 DEF ParseResponse
  <2>4. CASE Answer
    <3>1. \A s \in Seqs : response'[s] = IF s = InHand.id THEN "answered" ELSE response[s]
      BY <2>4 DEF Answer, TypeInv, TypeOK
    <3>2. issued \subseteq Seqs /\ issued' = issued /\ sent' = sent /\ ppc' = "read"
      BY <2>4 DEF Answer, Parsed, TypeInv, TypeOK
    <3>3. QED
      BY <2>4, <3>1, <3>2 DEF Answer
  <2>5. CASE EndOfStream
    BY <2>5 DEF EndOfStream
  <2>6. ASSUME NEW s \in Seqs, GiveUp(s) PROVE ForgetInv'
    <3>1. \A r \in Seqs : response'[r] = IF r = s THEN "gone" ELSE response[r]
      BY <2>6 DEF GiveUp, TypeInv, TypeOK
    <3>2. sent' = sent \ {s} /\ issued' = issued /\ issued \subseteq Seqs
      BY <2>6 DEF GiveUp, Pop, TypeInv, TypeOK
    <3>3. QED
      BY <2>6, <3>1, <3>2 DEF GiveUp
  <2>7. CASE EndParser
    BY <2>7 DEF EndParser, AllAnswered
  <2>8. QED
    BY <1>3, <2>1, <2>2, <2>3, <2>4, <2>5, <2>6, <2>7 DEF ParserStep
<1>4. CASE HandlerStep
  BY <1>4 DEF HandlerStep, ReadClosed, JoinedParser, TakeBatch, EndBatch, BeginHandler,
              EndHandler
<1>5. CASE HandlerFails
  BY <1>5 DEF HandlerFails, Stopped
<1>6. ASSUME NEW k \in PeerKinds, PeerMessage(k) PROVE ForgetInv'
  <2>1. UNCHANGED <<issued, response, sent, ppc, closed>>
    BY <1>6 DEF PeerMessage, PeerSends
  <2>2. ppc = "answer" => InHand' = InHand
    BY <1>6, HandStays
  <2>3. QED
    BY <2>1, <2>2
<1>7. CASE PeerCloses
  BY <1>7 DEF PeerCloses
<1>8. CASE UNCHANGED vars
  BY <1>8 DEF vars
<1>9. QED
  BY <1>1, <1>2, <1>3, <1>4, <1>5, <1>6, <1>7, <1>8 DEF Next

(* When the message loop has ended, every request that send_request()      *)
(* returned has a response, however the send and the end of the loop       *)
(* interleaved.                                                            *)
THEOREM NothingForgotten == Spec => []NoRequestForgotten
<1>1. ForgetInv => NoRequestForgotten
  BY DEF ForgetInv
<1>2. QED
  BY <1>1, InitType, NextType, InitForget, NextForget, PTL DEF Spec

-----------------------------------------------------------------------------
(* No wake-up is lost.  NoLostWakeup is inductive over the types: whoever  *)
(* adds to the queue notifies, and whoever sleeps has just seen, under the *)
(* same lock, that there is nothing for it.                                *)

(* Nobody waits on _handlers_enqueued at the start.  (__init__) *)
LEMMA InitWakeup == Init => NoLostWakeup
BY DEF Init, NoLostWakeup

(* Anything that queues units establishes NoLostWakeup.  (Enqueue) *)
LEMMA EnqueueWakes ==
    ASSUME TypeOK,
           \/ \E units \in Seq(Units) : Enqueue(units)
           \/ \E s \in Nat, hs \in Seq(Hooks) : EnqueueResponse(s, hs)
    PROVE  NoLostWakeup'
BY EnqueueType, EnqueueResponseType DEF NoLostWakeup

(* No step leaves a sleeper with something to do: a step that queues work  *)
(* or answers a request notifies, and one that goes to sleep has looked.   *)
LEMMA NextWakeup == TypeInv /\ NoLostWakeup /\ [Next]_vars => NoLostWakeup'
<1> SUFFICES ASSUME TypeInv, NoLostWakeup, [Next]_vars PROVE NoLostWakeup'
  OBVIOUS
<1> USE DEF NoLostWakeup, chan, runner, client, peer, hist
<1>0. TypeOK /\ waitset \subseteq Threads
      /\ pc \in [Threads -> {"idle", "request", "event", "wait", "joinP", "joinH",
                            "killed"}]
      /\ at \in [Threads -> 0..MaxSeq]
  BY DEF TypeInv, TypeOK
<1>1. CASE Start
  BY <1>1 DEF Start
<1>2. ASSUME NEW t \in Threads, ClientStep(t) PROVE NoLostWakeup'
  <2>1. ASSUME NEW k \in {"request", "event"}, BeginSend(t, k) PROVE NoLostWakeup'
    BY <1>0, <2>1 DEF BeginSend, Ready
  <2>2. CASE EndSend(t)
    BY <1>0, <2>2 DEF EndSend
  <2>3. ASSUME NEW s \in Seqs, BeginWait(t, s) PROVE NoLostWakeup'
    BY <1>0, <2>3 DEF BeginWait, Ready, Seqs
  <2>4. ASSUME NEW s \in Seqs, OnResponse(t, s) PROVE NoLostWakeup'
    <3>1. CASE ~Answered(s)
      BY <2>4, <3>1 DEF OnResponse
    <3>2. CASE Answered(s)
      <4>1. hooks[s] \in Seq(Hooks) /\ nhooks + 1 \in Hooks /\ s \in Nat
        BY <1>0, <2>4, ChannelConstants DEF OnResponse, TypeOK, Hooks, Seqs
      <4>2. Append(hooks[s], nhooks + 1) \in Seq(Hooks)
        BY <4>1, AppendProperties
      <4>3. EnqueueResponse(s, Append(hooks[s], nhooks + 1))
        BY <2>4, <3>2 DEF OnResponse
      <4> HIDE DEF NoLostWakeup
      <4>4. QED
        BY <1>0, <4>1, <4>2, <4>3, EnqueueWakes
    <3>3. QED
      BY <3>1, <3>2
  <2>5. CASE Recheck(t)
    <3>1. CASE response[at[t]] = "none"
      BY <1>0, <2>5, <3>1 DEF Recheck
    <3>2. CASE response[at[t]] # "none"
      BY <1>0, <2>5, <3>2 DEF Recheck
    <3>3. QED
      BY <3>1, <3>2
  <2>6. CASE Close(t)
    BY <2>6 DEF Close
  <2>7. CASE BeginJoin(t) \/ JoinParser(t)
    BY <1>0, <2>7 DEF BeginJoin, JoinParser, Ready
  <2>8. QED
    BY <1>2, <2>1, <2>2, <2>3, <2>4, <2>5, <2>6, <2>7 DEF ClientStep
<1>3. CASE ParserStep
  <2>1. CASE Read \/ ParseInvalid \/ ParseResponse \/ EndOfStream
    BY <2>1 DEF Read, ParseInvalid, ParseResponse, EndOfStream
  <2>2. ASSUME inbox # <<>> PROVE InHand.id \in Nat
    <3>1. Head(inbox) \in Incoming
      BY <1>0, <2>2, HeadTailProperties DEF TypeOK
    <3>2. QED
      BY <3>1 DEF Incoming, InHand
  <2>3. CASE ParseMessage
    <3>1. <<Unit("message", InHand.id)>> \in Seq(Units)
      BY <2>2, <2>3 DEF ParseMessage, TypeInv, InHandInv, Unit, Units
    <3> HIDE DEF NoLostWakeup
    <3>2. QED
      BY <1>0, <2>3, <3>1, EnqueueWakes DEF ParseMessage
  <2>4. CASE AnswerUnknown
    <3>1. ResponseUnits(InHand.id, <<>>) \in Seq(Units)
      BY <2>2, <2>4, ResponseUnitsType, EmptySeq DEF AnswerUnknown, TypeInv, InHandInv
    <3> HIDE DEF NoLostWakeup
    <3>2. QED
      BY <1>0, <2>4, <3>1, EnqueueWakes DEF AnswerUnknown
  <2>5. CASE Answer
    <3>1. InHand.id \in Seqs
      BY <2>5 DEF Answer, TypeInv, InHandInv
    <3>2. InHand.id \in Nat /\ hooks[InHand.id] \in Seq(Hooks)
      BY <1>0, <3>1, ChannelConstants DEF Seqs, TypeOK
    <3> HIDE DEF NoLostWakeup
    <3>3. QED
      BY <1>0, <2>5, <3>2, EnqueueWakes DEF Answer
  <2>6. ASSUME NEW s \in Seqs, GiveUp(s) PROVE NoLostWakeup'
    <3>1. s \in Nat /\ hooks[s] \in Seq(Hooks)
      BY <1>0, ChannelConstants DEF Seqs, TypeOK
    <3> HIDE DEF NoLostWakeup
    <3>2. QED
      BY <1>0, <2>6, <3>1, EnqueueWakes DEF GiveUp
  <2>7. CASE EndParser
    <3>1. <<Disconnect>> \in Seq(Units)
      BY DEF Disconnect, Unit, Units
    <3> HIDE DEF NoLostWakeup
    <3>2. QED
      BY <1>0, <2>7, <3>1, EnqueueWakes DEF EndParser
  <2>8. QED
    BY <1>3, <2>1, <2>3, <2>4, <2>5, <2>6, <2>7 DEF ParserStep
<1>4. CASE HandlerStep
  <2>1. CASE ReadClosed \/ JoinedParser \/ EndBatch \/ BeginHandler \/ EndHandler
    BY <2>1 DEF ReadClosed, JoinedParser, EndBatch, BeginHandler, EndHandler
  <2>2. CASE TakeBatch
    BY <1>0, <2>2 DEF TakeBatch, JoinersReturn
  <2>3. QED
    BY <1>4, <2>1, <2>2 DEF HandlerStep
<1>5. CASE HandlerFails
  BY <1>5 DEF HandlerFails
<1>6. CASE PeerCloses \/ \E k \in PeerKinds : PeerMessage(k)
  BY <1>6 DEF PeerCloses, PeerMessage, PeerSends
<1>7. CASE UNCHANGED vars
  BY <1>7 DEF vars
<1>8. QED
  BY <1>1, <1>2, <1>3, <1>4, <1>5, <1>6, <1>7 DEF Next

(* Nobody sleeps on _handlers_enqueued while there is something for it,    *)
(* and queued work always has a thread, for any number of client threads.  *)
THEOREM NoWakeupIsLost == Spec => []NoLostWakeup
BY InitType, NextType, InitWakeup, NextWakeup, PTL DEF Spec

-----------------------------------------------------------------------------
(* A response is final.  A request is answered only out of _sent_requests, *)
(* so what is to be shown is that a sequence number enters that set once   *)
(* and, once it has left it, never comes back: numbers still to be drawn,  *)
(* and numbers that a thread has drawn and not registered yet, are fresh.  *)
InAnswer(s) == ppc = "answer" /\ InHand.id = s
Fresh(s)    == response[s] = "none" /\ s \notin sent /\ ~InAnswer(s)
Sending(t)  == pc[t] \in {"request", "event"}

FreshInv ==
    /\ \A s \in Seqs : s >= nextSeq => Fresh(s)
    /\ \A t \in Threads : Sending(t) => Fresh(at[t]) /\ at[t] < nextSeq
    /\ \A t, u \in Threads : Sending(t) /\ Sending(u) /\ t # u => at[t] # at[u]
    /\ \A s \in sent : response[s] = "none" /\ ~InAnswer(s)
    /\ \A s \in Seqs : InAnswer(s) => response[s] = "none"

(* Nothing has been sent and nothing answered at the start.  (__init__) *)
LEMMA InitFresh == Init => FreshInv
BY DEF Init, FreshInv, Fresh, Sending, InAnswer

(* The steps that neither answer nor send anything leave FreshInv alone. *)
LEMMA FreshStays ==
    ASSUME FreshInv, sent' = sent, response' = response, nextSeq' = nextSeq,
           \A t \in Threads : Sending(t)' => Sending(t) /\ at'[t] = at[t],
           \A s \in Seqs : InAnswer(s)' => InAnswer(s),
           TypeInv
    PROVE  FreshInv'
<1>1. /\ sent \subseteq Seqs
      /\ \A t \in Threads : Sending(t) => at[t] \in Seqs
  BY DEF TypeInv, TypeOK, InHandInv, Sending
<1>2. QED
  BY <1>1 DEF FreshInv, Fresh

(* A step that answers request s, and no other, keeps FreshInv if s was    *)
(* among the requests sent or in the hand of the parser.                   *)
LEMMA FreshAnswer ==
    ASSUME FreshInv, TypeInv, NEW s \in Seqs, s \in sent \/ InAnswer(s),
           sent' = sent \ {s},
           \A r \in Seqs : r # s => response'[r] = response[r],
           UNCHANGED <<nextSeq, pc, at>>, ppc' # "answer"
    PROVE  FreshInv'
<1>1. /\ sent \subseteq Seqs
      /\ \A t \in Threads : Sending(t) => at[t] \in Seqs
  BY DEF TypeInv, TypeOK, InHandInv, Sending
<1>2. ~Fresh(s)
  BY DEF Fresh
<1>3. \A r \in Seqs : Fresh(r) => Fresh(r)'
  BY <1>2 DEF Fresh, InAnswer
<1>4. QED
  BY <1>1, <1>3 DEF FreshInv, InAnswer, Sending

(* No step makes a request unanswered and unsent, or answered and still    *)
(* in _sent_requests or in the hand of the parser.                         *)
LEMMA NextFresh == TypeInv /\ FreshInv /\ [Next]_vars => FreshInv'
<1> SUFFICES ASSUME TypeInv, FreshInv, [Next]_vars PROVE FreshInv'
  OBVIOUS
<1> USE DEF chan, runner, client, peer, hist
<1>0. /\ sent \subseteq Seqs
      /\ nextSeq \in 1..(MaxSeq + 1)
      /\ pc \in [Threads -> {"idle", "request", "event", "wait", "joinP", "joinH",
                            "killed"}]
      /\ at \in [Threads -> 0..MaxSeq]
      /\ response \in [Seqs -> {"none", "answered", "gone"}]
      /\ \A t \in Threads : Sending(t) => at[t] \in Seqs
  BY DEF TypeInv, TypeOK, InHandInv, Sending
<1>1. CASE Start
  BY <1>1, FreshStays DEF Start, InAnswer, Sending
<1>2. ASSUME NEW t \in Threads, ClientStep(t) PROVE FreshInv'
  <2>1. ASSUME NEW k \in {"request", "event"}, BeginSend(t, k) PROVE FreshInv'
    <3>1. /\ nextSeq \in Seqs /\ nextSeq' = nextSeq + 1 /\ ~Sending(t)
          /\ UNCHANGED <<sent, response, ppc, inbox>>
          /\ pc' = [pc EXCEPT ![t] = k] /\ at' = [at EXCEPT ![t] = nextSeq]
      BY <1>0, <2>1 DEF BeginSend, Ready, Seqs, Sending
    <3>2. Fresh(nextSeq) /\ \A s : Fresh(s)' <=> Fresh(s)
      BY <1>0, <3>1 DEF FreshInv, Fresh, InAnswer, InHand
    <3>3. /\ at'[t] = nextSeq
          /\ \A u \in Threads : u # t => at'[u] = at[u] /\ (Sending(u)' <=> Sending(u))
      BY <1>0, <3>1 DEF Sending
    <3>4. /\ \A s \in Seqs : s >= nextSeq' => Fresh(s)'
          /\ \A u \in Threads : Sending(u)' => Fresh(at[u])' /\ at'[u] < nextSeq'
      BY <1>0, <3>1, <3>2, <3>3, ChannelConstants DEF FreshInv, Seqs
    <3>5. \A u, v \in Threads : Sending(u)' /\ Sending(v)' /\ u # v => at'[u] # at'[v]
      BY <1>0, <3>1, <3>3 DEF FreshInv, Seqs
    <3>6. \A s : InAnswer(s)' <=> InAnswer(s)
      BY <3>1 DEF InAnswer, InHand
    <3>7. QED
      BY <3>1, <3>4, <3>5, <3>6 DEF FreshInv, Fresh
  <2>2. CASE EndSend(t)
    <3>1. /\ Sending(t) /\ sent' \subseteq sent \cup {at[t]}
          /\ UNCHANGED <<nextSeq, response, ppc, inbox>>
          /\ pc' = [pc EXCEPT ![t] = "idle"] /\ at' = [at EXCEPT ![t] = 0]
      BY <2>2 DEF EndSend, Register, Sending
    <3>2. Fresh(at[t]) /\ at[t] < nextSeq /\ at[t] \in Seqs
      BY <1>0, <3>1 DEF FreshInv
    <3>3. /\ ~Sending(t)'
          /\ \A u \in Threads : u # t => at'[u] = at[u] /\ (Sending(u)' <=> Sending(u))
      BY <1>0, <3>1 DEF Sending
    <3>4. \A s : s # at[t] /\ Fresh(s) => Fresh(s)'
      BY <3>1 DEF Fresh, InAnswer, InHand
    <3>5. \A s : InAnswer(s)' <=> InAnswer(s)
      BY <3>1 DEF InAnswer, InHand
    <3>6. \A s \in Seqs : s >= nextSeq' => Fresh(s)'
      BY <1>0, <3>1, <3>2, <3>4, ChannelConstants DEF FreshInv, Seqs
    <3>7. \A u \in Threads : Sending(u)' => Fresh(at[u])' /\ at'[u] < nextSeq'
      BY <1>0, <3>1, <3>3, <3>4 DEF FreshInv
    <3>8. \A u, v \in Threads : Sending(u)' /\ Sending(v)' /\ u # v => at'[u] # at'[v]
      BY <3>3 DEF FreshInv
    <3>9. \A s \in sent' : response'[s] = "none" /\ ~InAnswer(s)'
      BY <3>1, <3>2, <3>5 DEF FreshInv, Fresh
    <3>10. \A s \in Seqs : InAnswer(s)' => response'[s] = "none"
      BY <3>1, <3>5 DEF FreshInv
    <3>11. QED
      BY <3>6, <3>7, <3>8, <3>9, <3>10 DEF FreshInv
  <2>3. CASE \E s \in Seqs : BeginWait(t, s) \/ OnResponse(t, s)
    <3>1. /\ UNCHANGED <<sent, response, nextSeq, ppc, inbox>>
          /\ \A u \in Threads : Sending(u)' => Sending(u) /\ at'[u] = at[u]
      BY <1>0, <2>3 DEF BeginWait, OnResponse, Sending
    <3>2. \A s : InAnswer(s)' => InAnswer(s)
      BY <3>1 DEF InAnswer, InHand
    <3>3. QED
      BY <3>1, <3>2, FreshStays
  <2>4. CASE Recheck(t)
    <3>1. UNCHANGED <<sent, response, nextSeq, ppc, inbox>>
      BY <2>4 DEF Recheck
    <3>2. \A u \in Threads : Sending(u)' => Sending(u) /\ at'[u] = at[u]
      BY <1>0, <2>4 DEF Recheck, Sending
    <3>3. \A s : InAnswer(s)' => InAnswer(s)
      BY <3>1 DEF InAnswer, InHand
    <3>4. QED
      BY <3>1, <3>2, <3>3, FreshStays
  <2>5. CASE Close(t) \/ BeginJoin(t) \/ JoinParser(t)
    <3>1. UNCHANGED <<sent, response, nextSeq, ppc, inbox, at>>
      BY <2>5 DEF Close, BeginJoin, JoinParser
    <3>2. \A u \in Threads : Sending(u)' => Sending(u)
      BY <1>0, <2>5 DEF Close, BeginJoin, JoinParser, Sending
    <3>3. \A s : InAnswer(s)' => InAnswer(s)
      BY <3>1 DEF InAnswer, InHand
    <3>4. QED
      BY <3>1, <3>2, <3>3, FreshStays
  <2>6. QED
    BY <1>2, <2>1, <2>2, <2>3, <2>4, <2>5 DEF ClientStep
<1>3. CASE ParserStep
  <2>1. CASE Read \/ ParseMessage \/ ParseInvalid \/ AnswerUnknown \/ EndOfStream
    <3>1. UNCHANGED <<sent, response, nextSeq, pc, at>> /\ ppc' # "answer"
      BY <2>1 DEF Read, ParseMessage, ParseInvalid, AnswerUnknown, EndOfStream, Parsed
    <3>2. QED
      BY <3>1, FreshStays DEF InAnswer, Sending
  <2>2. CASE EndParser
    <3>1. UNCHANGED <<sent, response, nextSeq, pc, at>> /\ ppc' # "answer"
      BY <2>2 DEF EndParser
    <3>2. QED
      BY <3>1, FreshStays DEF InAnswer, Sending
  <2>3. CASE ParseResponse
    <3>1. /\ UNCHANGED <<response, nextSeq, pc, at, inbox>> /\ ppc # "answer"
          /\ sent' = sent \ {InHand.id}
          /\ ppc' = "answer" => InHand.id \in sent
      BY <2>3 DEF ParseResponse, Pop
    <3>2. \A s : ~InAnswer(s) /\ (InAnswer(s)' => s = InHand.id /\ s \in sent)
      BY <3>1 DEF InAnswer, InHand
    <3>3. \A s : Fresh(s) => Fresh(s)'
      BY <3>1, <3>2 DEF Fresh
    <3>4. QED
      BY <1>0, <3>1, <3>2, <3>3 DEF FreshInv, Sending
  <2>4. CASE Answer
    <3>1. /\ InHand.id \in Seqs /\ InAnswer(InHand.id)
          /\ UNCHANGED <<sent, nextSeq, pc, at>> /\ ppc' = "read"
      BY <2>4 DEF Answer, Parsed, InAnswer, TypeInv, InHandInv
    <3>2. \A r \in Seqs : r # InHand.id => response'[r] = response[r]
      BY <1>0, <2>4 DEF Answer
    <3>3. sent' = sent \ {InHand.id}
      BY <3>1 DEF FreshInv
    <3>4. QED
      BY <3>1, <3>2, <3>3, FreshAnswer
  <2>5. ASSUME NEW s \in Seqs, GiveUp(s) PROVE FreshInv'
    <3>1. /\ s \in sent /\ sent' = sent \ {s} /\ UNCHANGED <<nextSeq, pc, at>>
          /\ ppc' # "answer"
      BY <2>5 DEF GiveUp, Pop
    <3>2. \A r \in Seqs : r # s => response'[r] = response[r]
      BY <1>0, <2>5 DEF GiveUp
    <3>3. QED
      BY <3>1, <3>2, FreshAnswer
  <2>6. QED
    BY <1>3, <2>1, <2>2, <2>3, <2>4, <2>5 DEF ParserStep
<1>4. CASE HandlerStep
  <2>1. UNCHANGED <<sent, response, nextSeq, ppc, inbox, at>>
    BY <1>4 DEF HandlerStep, ReadClosed, JoinedParser, TakeBatch, EndBatch,
                BeginHandler, EndHandler
  <2>2. \A t \in Threads : Sending(t)' => Sending(t)
    BY <1>0, <1>4 DEF HandlerStep, ReadClosed, JoinedParser, TakeBatch, JoinersReturn,
                      EndBatch, BeginHandler, EndHandler, Sending
  <2>3. QED
    BY <2>1, <2>2, FreshStays DEF InAnswer, InHand
<1>5. CASE HandlerFails
  <2>1. UNCHANGED <<sent, response, nextSeq>> /\ ppc' # "answer"
    BY <1>5 DEF HandlerFails, Stopped
  <2>2. \A t \in Threads : ~Sending(t)'
    BY <1>5 DEF HandlerFails, Sending
  <2>3. QED
    BY <2>1, <2>2, FreshStays DEF InAnswer
<1>6. ASSUME NEW k \in PeerKinds, PeerMessage(k) PROVE FreshInv'
  <2>1. UNCHANGED <<sent, response, nextSeq, ppc, pc, at>>
    BY <1>6 DEF PeerMessage, PeerSends
  <2>2. \A s : InAnswer(s)' => InAnswer(s)
    BY <1>6, <2>1, HandStays DEF InAnswer
  <2>3. QED
    BY <2>1, <2>2, FreshStays DEF Sending
<1>7. CASE PeerCloses \/ UNCHANGED vars
  <2>1. UNCHANGED <<sent, response, nextSeq, ppc, pc, at, inbox>>
    BY <1>7 DEF PeerCloses, vars
  <2>2. QED
    BY <2>1, FreshStays DEF Sending, InAnswer, InHand
<1>8. QED
  BY <1>1, <1>2, <1>3, <1>4, <1>5, <1>6, <1>7 DEF Next

(* A response is set once and never replaced, by a second response of the  *)
(* other party or by the end of the message loop.                          *)
THEOREM ResponsesAreFinal == Spec => ResponseIsFinal
<1>1. TypeInv /\ FreshInv /\ [Next]_vars
      => [\A s \in Seqs : response[s] # "none" => response'[s] = response[s]]_vars
  <2> SUFFICES ASSUME TypeInv, FreshInv, Next, NEW s \in Seqs, response[s] # "none"
               PROVE  response'[s] = response[s]
    OBVIOUS
  <2> USE DEF chan, runner, client, peer, hist
  <2>1. CASE Answer
    <3>1. InAnswer(InHand.id) /\ InHand.id \in Seqs
      BY <2>1 DEF Answer, InAnswer, TypeInv, InHandInv
    <3>2. s # InHand.id
      BY <3>1 DEF FreshInv
    <3>3. QED
      BY <2>1, <3>2 DEF Answer, TypeInv, TypeOK
  <2>2. ASSUME NEW r \in Seqs, GiveUp(r) PROVE response'[s] = response[s]
    <3>1. s # r
      BY <2>2 DEF GiveUp, FreshInv
    <3>2. QED
      BY <2>2, <3>1 DEF GiveUp, TypeInv, TypeOK
  <2>3. CASE ParserStep
    BY <2>1, <2>2, <2>3 DEF ParserStep, Read, ParseMessage, ParseInvalid, ParseResponse,
                            AnswerUnknown, EndOfStream, EndParser
  <2>4. CASE Start \/ HandlerStep \/ HandlerFails
    BY <2>4 DEF Start, HandlerStep, ReadClosed, JoinedParser, TakeBatch, EndBatch,
                BeginHandler, EndHandler, HandlerFails
  <2>5. ASSUME NEW t \in Threads, ClientStep(t) PROVE response' = response
    BY <2>5 DEF ClientStep, BeginSend, EndSend, BeginWait, OnResponse, Recheck, Close,
                BeginJoin, JoinParser
  <2>6. CASE PeerCloses \/ \E k \in PeerKinds : PeerMessage(k)
    BY <2>6 DEF PeerCloses, PeerMessage, PeerSends
  <2>7. QED
    BY <2>3, <2>4, <2>5, <2>6 DEF Next
<1>2. QED
  BY <1>1, InitType, NextType, InitFresh, NextFresh, PTL DEF Spec, ResponseIsFinal


-----------------------------------------------------------------------------
(* The timeline of the units.                                              *)

(* Only a handler thread that runs handlers has a batch. *)
BatchInv == hpc \notin {"run", "inside", "killed"} => batch = <<>>

(* The parts of the timeline are sequences of units. *)
LEMMA TimelineType ==
    ASSUME TypeOK
    PROVE  /\ handled \in Seq(Units) /\ batch \in Seq(Units) /\ queue \in Seq(Units)
           /\ Timeline \in Seq(Units) /\ Len(Timeline) \in Nat
<1>1. handled \in Seq(Units) /\ batch \in Seq(Units) /\ queue \in Seq(Units)
  BY DEF TypeOK
<1>2. Backlog \in Seq(Units)
  BY <1>1, ConcatProperties DEF Backlog
<1>3. Timeline \in Seq(Units)
  BY <1>1, <1>2, ConcatProperties DEF Timeline
<1>4. QED
  BY <1>1, <1>3, LenProperties

(* What is queued comes last.  (_enqueue_handlers) *)
LEMMA EnqueueTimeline ==
    ASSUME TypeOK, NEW q \in Seq(Units), queue' = queue \o q,
           UNCHANGED <<handled, batch>>
    PROVE  Timeline' = Timeline \o q
<1>1. handled \in Seq(Units) /\ batch \in Seq(Units) /\ queue \in Seq(Units)
  BY TimelineType
<1>2. batch \o queue \in Seq(Units)
  BY <1>1, ConcatProperties
<1>3. batch \o (queue \o q) = (batch \o queue) \o q
  BY SMTT(30), <1>1, ConcatAssociative
<1>4. handled \o ((batch \o queue) \o q) = (handled \o (batch \o queue)) \o q
  BY SMTT(60), <1>1, <1>2, ConcatAssociative
<1>5. Timeline' = handled \o (batch \o (queue \o q))
  BY DEF Timeline, Backlog
<1>6. QED
  BY <1>3, <1>4, <1>5 DEF Timeline, Backlog

(* The handler thread takes and runs the units in the order of the queue.  *)
LEMMA TakeTimeline ==
    ASSUME TypeOK, BatchInv, TakeBatch
    PROVE  Timeline' = Timeline
<1>1. queue \in Seq(Units) /\ batch = <<>>
  BY TimelineType DEF TakeBatch, BatchInv
<1>2. queue \o <<>> = queue /\ <<>> \o queue = queue
  BY <1>1, ConcatEmptySeq
<1>3. batch' = queue /\ queue' = <<>> /\ handled' = handled
  BY DEF TakeBatch, hist
<1>4. QED
  BY <1>1, <1>2, <1>3 DEF Timeline, Backlog

(* A handler that ends goes from the batch to the history, and keeps its   *)
(* place in the timeline.                                                  *)
LEMMA EndTimeline ==
    ASSUME TypeInv, EndHandler
    PROVE  Timeline' = Timeline
<1>1. /\ handled \in Seq(Units) /\ batch \in Seq(Units) /\ queue \in Seq(Units)
      /\ batch # <<>>
  BY TimelineType DEF TypeInv, InHandInv, EndHandler
<1>2. PICK u : u = Head(batch)
  OBVIOUS
<1>3. PICK b : b = Tail(batch)
  OBVIOUS
<1>4. u \in Units /\ b \in Seq(Units)
  BY <1>1, <1>2, <1>3, HeadTailProperties
<1>5. <<u>> \in Seq(Units) /\ Append(handled, u) = handled \o <<u>>
  BY <1>1, <1>4, AppendIsConcat
<1>6. batch = <<u>> \o b
  <2>1. Len(<<u>>) = 1 /\ <<u>>[1] = u /\ Len(b) = Len(batch) - 1 /\ Len(batch) \in Nat
    BY <1>1, <1>2, <1>3, HeadTailProperties, LenProperties
  <2>2. \A i \in 1..Len(b) : b[i] = batch[i + 1]
    BY <1>1, <1>3, HeadTailProperties
  <2>3. /\ <<u>> \o b \in Seq(Units) /\ Len(<<u>> \o b) = Len(batch)
        /\ \A i \in 1..Len(batch) :
              (<<u>> \o b)[i] = IF i <= 1 THEN <<u>>[i] ELSE b[i - 1]
    <3>1. /\ <<u>> \o b \in Seq(Units) /\ Len(<<u>> \o b) = Len(<<u>>) + Len(b)
          /\ \A i \in 1..(Len(<<u>>) + Len(b)) :
                (<<u>> \o b)[i] = IF i <= Len(<<u>>) THEN <<u>>[i] ELSE b[i - Len(<<u>>)]
      BY <1>4, <1>5, ConcatProperties
    <3>2. Len(<<u>>) + Len(b) = Len(batch)
      BY <2>1
    <3>3. QED
      BY <2>1, <3>1, <3>2
  <2>4. batch[1] = u
    BY <1>2
  <2>5. \A i \in 1..Len(batch) : (<<u>> \o b)[i] = batch[i]
    <3> TAKE i \in 1..Len(batch)
    <3>1. CASE i = 1
      BY <2>1, <2>3, <2>4, <3>1
    <3>2. CASE i # 1
      <4>1. ~(i <= 1) /\ i - 1 \in 1..Len(b) /\ (i - 1) + 1 = i
        BY <2>1, <3>2
      <4>2. QED
        BY <2>2, <2>3, <4>1
    <3>3. QED
      BY <3>1, <3>2
  <2>6. QED
    BY <1>1, <2>3, <2>5, SeqEqual
<1>7. (handled \o <<u>>) \o (b \o queue) = handled \o (<<u>> \o (b \o queue))
  BY SMTT(30), <1>1, <1>4, <1>5, ConcatProperties, ConcatAssociative
<1>8. <<u>> \o (b \o queue) = (<<u>> \o b) \o queue
  BY SMTT(30), <1>1, <1>4, <1>5, ConcatAssociative
<1>9. Timeline' = (handled \o <<u>>) \o (b \o queue)
  BY <1>2, <1>3, <1>5 DEF EndHandler, chan, Timeline, Backlog
<1>10. QED
  BY <1>6, <1>7, <1>8, <1>9 DEF Timeline, Backlog


(* The handler thread takes a batch only when it has run the one before.   *)
LEMMA InitBatch == Init => BatchInv
BY DEF Init, BatchInv

(* Every step keeps a batch to the thread that runs it. *)
LEMMA StepBatch == TypeInv /\ BatchInv /\ [Next]_vars => BatchInv'
<1> SUFFICES ASSUME TypeInv, BatchInv, [Next]_vars PROVE BatchInv'
  OBVIOUS
<1> USE DEF chan, runner, client, peer, hist, BatchInv
<1>1. CASE HandlerStep \/ HandlerFails
  BY <1>1 DEF HandlerStep, HandlerFails, ReadClosed, JoinedParser, TakeBatch, EndBatch,
              BeginHandler, EndHandler, Sleeps, Quits
<1>2. ASSUME UNCHANGED <<batch, hpc>> PROVE BatchInv'
  BY <1>2
<1>3. ASSUME NEW q, Enqueue(q), batch' = batch PROVE BatchInv'
  BY <1>3 DEF Enqueue, NeedsThread
<1>4. CASE ParserStep
  BY <1>2, <1>3, <1>4 DEF ParserStep, Read, ParseMessage, ParseInvalid, ParseResponse,
        Answer, AnswerUnknown, EndOfStream, GiveUp, EndParser, EnqueueResponse
<1>5. ASSUME NEW t \in Threads, ClientStep(t) PROVE BatchInv'
  BY <1>2, <1>3, <1>5 DEF ClientStep, BeginSend, EndSend, BeginWait, OnResponse, Recheck,
        Close, BeginJoin, JoinParser, EnqueueResponse
<1>6. QED
  BY <1>1, <1>2, <1>4, <1>5 DEF Next, Start, PeerMessage, PeerSends, PeerCloses, vars

(* The steps that queue something, register a handler or put a message on  *)
(* the wire; the others leave the timeline alone.                          *)
Works ==
    \/ ParseMessage \/ Answer \/ AnswerUnknown \/ EndParser
    \/ \E s \in Seqs : GiveUp(s)
    \/ \E t \in Threads : \E s \in Seqs : OnResponse(t, s)
    \/ \E k \in PeerKinds : PeerMessage(k)

(* The steps of threads that neither queue, run nor end a handler change   *)
(* nothing that the theorems are about.                                    *)
LEMMA Idles ==
    ASSUME TypeInv, BatchInv, [Next]_vars, ~Works
    PROVE  /\ Timeline' = Timeline
           /\ UNCHANGED <<response, hooks, hookOf, nhooks, arrived>>
           /\ issued \subseteq issued'
           /\ ppc' = "stopped" <=> ppc = "stopped"
           /\ inbox' = inbox \/ (inbox # <<>> /\ inbox' = Tail(inbox))
<1> USE DEF chan, runner, client, peer, hist
<1>1. /\ UNCHANGED <<response, hooks, hookOf, nhooks, arrived>>
      /\ issued \subseteq issued'
  BY DEF Works, Next, Start, ClientStep, BeginSend, EndSend, BeginWait, Recheck, Close,
         BeginJoin, JoinParser, ParserStep, Read, ParseInvalid, ParseResponse,
         EndOfStream, HandlerStep, ReadClosed, JoinedParser, TakeBatch, EndBatch,
         BeginHandler, EndHandler, HandlerFails, PeerCloses, vars
<1>2. ppc' = "stopped" <=> ppc = "stopped"
  BY DEF Works, Next, Start, ClientStep, BeginSend, EndSend, BeginWait, Recheck, Close,
         BeginJoin, JoinParser, ParserStep, Read, ParseInvalid, ParseResponse, Parsed,
         EndOfStream, HandlerStep, ReadClosed, JoinedParser, TakeBatch, EndBatch,
         BeginHandler, EndHandler, HandlerFails, PeerCloses, Stopped, vars
<1>3. inbox' = inbox \/ (inbox # <<>> /\ inbox' = Tail(inbox))
  <2>1. CASE ParseInvalid
    BY <2>1 DEF ParseInvalid, Parsed, TypeInv, InHandInv
  <2>2. ~ParseInvalid => inbox' = inbox
    BY DEF Works, Next, Start, ClientStep, BeginSend, EndSend, BeginWait, Recheck,
         Close, BeginJoin, JoinParser, ParserStep, Read, ParseResponse, EndOfStream,
         HandlerStep, ReadClosed, JoinedParser, TakeBatch, EndBatch, BeginHandler,
         EndHandler, HandlerFails, PeerCloses, vars
  <2>3. QED
    BY <2>1, <2>2
<1>4. Timeline' = Timeline
  <2>1. UNCHANGED <<queue, batch, handled>> \/ TakeBatch \/ EndHandler
    BY DEF Works, Next, Start, ClientStep, BeginSend, EndSend, BeginWait, Recheck, Close,
           BeginJoin, JoinParser, ParserStep, Read, ParseInvalid, ParseResponse, Parsed,
           EndOfStream, HandlerStep, ReadClosed, JoinedParser, EndBatch,
           BeginHandler, HandlerFails, PeerCloses, vars
  <2>2. CASE UNCHANGED <<queue, batch, handled>>
    BY <2>2 DEF Timeline, Backlog
  <2>3. QED
    BY <2>1, <2>2, TakeTimeline, EndTimeline DEF TypeInv
<1>5. QED
  BY <1>1, <1>2, <1>3, <1>4

(* What each of them queues.  (ResponseUnits) *)
LEMMA ResponseTimeline ==
    ASSUME TypeOK, NEW s \in Nat, NEW hs \in Seq(Hooks), Enqueue(ResponseUnits(s, hs)),
           UNCHANGED <<handled, batch>>
    PROVE  /\ Timeline' = Timeline \o ResponseUnits(s, hs)
           /\ ResponseUnits(s, hs) \in Seq(Units)
<1>1. ResponseUnits(s, hs) \in Seq(Units)
  BY ResponseUnitsType
<1>2. QED
  BY <1>1, EnqueueTimeline DEF Enqueue

(* A response is queued before the handlers that were attached to its      *)
(* request, which keep their order.                                        *)
LEMMA ResponsePlaces ==
    ASSUME NEW s \in Nat, NEW hs \in Seq(Hooks)
    PROVE  /\ Len(ResponseUnits(s, hs)) = Len(hs) + 1 /\ Len(hs) \in Nat
           /\ ResponseUnits(s, hs)[1] = Unit("response", s)
           /\ \A i \in 1..Len(hs) : ResponseUnits(s, hs)[i + 1] = Unit("hook", hs[i])
<1>1. PICK tail : tail = [i \in 1..Len(hs) |-> Unit("hook", hs[i])]
  OBVIOUS
<1>2. /\ Len(hs) \in Nat
      /\ \A i \in 1..Len(hs) : hs[i] \in Nat
  BY ElementOfSeq, LenProperties, ChannelConstants DEF Hooks
<1>3. tail \in Seq(Units) /\ Len(tail) = Len(hs)
  <2>1. tail \in [1..Len(hs) -> Units]
    BY <1>1, <1>2 DEF Unit, Units
  <2>2. tail \in Seq(Units)
    BY <1>2, <2>1, SeqDef
  <2>3. DOMAIN tail = 1..Len(hs)
    BY <2>1
  <2>4. QED
    BY <1>2, <2>2, <2>3, LenProperties
<1>4. /\ <<Unit("response", s)>> \in Seq(Units) /\ Len(<<Unit("response", s)>>) = 1
      /\ <<Unit("response", s)>>[1] = Unit("response", s)
  BY DEF Unit, Units
<1>5. ResponseUnits(s, hs) = <<Unit("response", s)>> \o tail
  BY <1>1 DEF ResponseUnits
<1>6. /\ Len(ResponseUnits(s, hs)) = 1 + Len(hs)
      /\ \A i \in 1..(1 + Len(hs)) : ResponseUnits(s, hs)[i] =
            IF i <= 1 THEN <<Unit("response", s)>>[i] ELSE tail[i - 1]
  <2>1. /\ Len(<<Unit("response", s)>> \o tail) = Len(<<Unit("response", s)>>) + Len(tail)
        /\ \A i \in 1..(Len(<<Unit("response", s)>>) + Len(tail)) :
              (<<Unit("response", s)>> \o tail)[i] =
                 IF i <= Len(<<Unit("response", s)>>) THEN <<Unit("response", s)>>[i]
                 ELSE tail[i - Len(<<Unit("response", s)>>)]
    BY <1>3, <1>4, ConcatProperties
  <2>2. PICK one : one = Len(<<Unit("response", s)>>)
    OBVIOUS
  <2>3. one = 1
    BY <1>4, <2>2
  <2>4. QED
    BY <1>3, <1>5, <2>1, <2>2, <2>3
<1>7. ResponseUnits(s, hs)[1] = Unit("response", s)
  BY <1>2, <1>4, <1>6
<1>8. \A i \in 1..Len(hs) : ResponseUnits(s, hs)[i + 1] = Unit("hook", hs[i])
  <2> TAKE i \in 1..Len(hs)
  <2>1. i + 1 \in 1..(1 + Len(hs)) /\ ~(i + 1 <= 1) /\ (i + 1) - 1 = i
    BY <1>2
  <2>2. ResponseUnits(s, hs)[i + 1] = tail[i]
    BY <1>6, <2>1
  <2>3. QED
    BY <1>1, <2>2
<1>9. QED
  BY SMTT(30), <1>2, <1>6, <1>7, <1>8


-----------------------------------------------------------------------------
(* The order of what arrives.  ReceivedInOrder is about the timeline only; *)
(* that it stays true needs the stream as well: what is still on the wire  *)
(* was sent after all that has been queued.                                *)

IsMessage(u) == u.kind = "message"

Ordered(line, wire, n) ==
    /\ \A i, j \in 1..Len(line) :
          i < j /\ IsMessage(line[i]) /\ IsMessage(line[j]) => line[i].id < line[j].id
    /\ \A i, j \in 1..Len(wire) :
          i < j /\ IsMessage(wire[i]) /\ IsMessage(wire[j]) => wire[i].id < wire[j].id
    /\ \A i \in 1..Len(line), j \in 1..Len(wire) :
          IsMessage(line[i]) /\ IsMessage(wire[j]) => line[i].id < wire[j].id
    /\ \A i \in 1..Len(line) : IsMessage(line[i]) => line[i].id <= n
    /\ \A i \in 1..Len(wire) : IsMessage(wire[i]) => wire[i].id <= n

(* No message, and no second Disconnect, comes after Disconnect.           *)
DisconnectedLast(line) ==
    \A i, j \in 1..Len(line) :
        i < j /\ line[i].kind = "disconnect" => line[j].kind \notin {"message", "disconnect"}

(* Disconnect is queued at the end of the message loop, and only there.    *)
EndInv ==
    /\ ppc = "stopped" => \E i \in 1..Len(Timeline) : Timeline[i] = Disconnect
    /\ \A i \in 1..Len(Timeline) : Timeline[i].kind = "disconnect" => ppc = "stopped"

OrderInv == Ordered(Timeline, inbox, arrived) /\ DisconnectedLast(Timeline) /\ EndInv

(* Responses and their handlers, queued last, change no order.             *)
LEMMA OrderedQuiet ==
    ASSUME NEW line \in Seq(Units), NEW q \in Seq(Units), NEW wire, NEW n,
           \A i \in 1..Len(q) : q[i].kind \notin {"message", "disconnect"}
    PROVE  /\ Ordered(line, wire, n) => Ordered(line \o q, wire, n)
           /\ DisconnectedLast(line) => DisconnectedLast(line \o q)
<1> DEFINE r == line \o q
<1>1. /\ Len(line) \in Nat /\ Len(q) \in Nat /\ Len(r) = Len(line) + Len(q)
      /\ \A i \in 1..Len(line) : i \in 1..Len(r) /\ r[i] = line[i]
      /\ \A i \in 1..Len(r) : i \in 1..Len(line) \/ (i > Len(line) /\ i - Len(line) \in 1..Len(q)
                                                  /\ r[i] = q[i - Len(line)])
  BY ConcatPlaces
<1>2. \A i \in 1..Len(r) : r[i].kind \in {"message", "disconnect"} =>
         i \in 1..Len(line) /\ r[i] = line[i]
  BY <1>1
<1>3. \A i \in 1..Len(r) : IsMessage(r[i]) => i \in 1..Len(line) /\ r[i] = line[i]
  BY <1>2 DEF IsMessage
<1> HIDE DEF r
<1>4. Ordered(line, wire, n) => Ordered(r, wire, n)
  BY <1>3 DEF Ordered
<1>5. DisconnectedLast(line) => DisconnectedLast(r)
  <2> SUFFICES ASSUME DisconnectedLast(line), NEW i \in 1..Len(r), NEW j \in 1..Len(r),
                      i < j, r[i].kind = "disconnect",
                      r[j].kind \in {"message", "disconnect"}
               PROVE  FALSE
    BY DEF DisconnectedLast
  <2>1. i \in 1..Len(line) /\ r[i] = line[i] /\ j \in 1..Len(line) /\ r[j] = line[j]
    BY <1>2
  <2>2. QED
    BY <2>1 DEF DisconnectedLast
<1>6. QED
  BY <1>4, <1>5 DEF r

(* Taking the first message off the wire changes no order.                 *)
LEMMA OrderedTail ==
    ASSUME NEW line, NEW wire \in Seq(Incoming), NEW n, wire # <<>>,
           Ordered(line, wire, n)
    PROVE  Ordered(line, Tail(wire), n)
<1> DEFINE w == Tail(wire)
<1>1. /\ Len(wire) \in Nat /\ Len(w) = Len(wire) - 1
      /\ \A i \in 1..Len(w) : w[i] = wire[i + 1]
  BY HeadTailProperties, LenProperties
<1>2. \A i \in 1..Len(w) : i + 1 \in 1..Len(wire) /\ w[i] = wire[i + 1]
  BY <1>1
<1>3. \A i, j \in 1..Len(w) : i < j => i + 1 < j + 1
  BY <1>1
<1> HIDE DEF w
<1>4. Ordered(line, w, n)
  BY <1>2, <1>3 DEF Ordered
<1>5. QED
  BY <1>4 DEF w

(* A message that arrives is the last on the wire, and has the next number.*)
LEMMA OrderedArrival ==
    ASSUME NEW line \in Seq(Units), NEW wire \in Seq(Incoming), NEW n \in Nat,
           NEW m \in Incoming, IsMessage(m) => m.id = n + 1,
           Ordered(line, wire, n)
    PROVE  Ordered(line, Append(wire, m), n + 1)
<1> DEFINE w == Append(wire, m)
<1>1. /\ Len(wire) \in Nat /\ Len(w) = Len(wire) + 1
      /\ \A i \in 1..Len(wire) : w[i] = wire[i]
      /\ w[Len(wire) + 1] = m
  BY AppendProperties, LenProperties
<1>2. \A i \in 1..Len(w) : \/ i \in 1..Len(wire) /\ w[i] = wire[i]
                           \/ i = Len(wire) + 1 /\ w[i] = m
  BY <1>1
<1>3. \A i, j \in 1..Len(w) : i < j => i \in 1..Len(wire) /\ w[i] = wire[i]
  BY <1>1
<1>4. /\ \A i \in 1..Len(line) : line[i].id \in Nat
      /\ \A i \in 1..Len(wire) : wire[i].id \in Nat
      /\ m.id \in Nat
  <2>1. /\ \A i \in 1..Len(line) : line[i] \in Units
        /\ \A i \in 1..Len(wire) : wire[i] \in Incoming
    BY ElementOfSeq
  <2>2. QED
    BY <2>1 DEF Units, Incoming
<1> HIDE DEF w
<1>5. \A i, j \in 1..Len(w) :
         i < j /\ IsMessage(w[i]) /\ IsMessage(w[j]) => w[i].id < w[j].id
  <2> SUFFICES ASSUME NEW i \in 1..Len(w), NEW j \in 1..Len(w),
                      i < j, IsMessage(w[i]), IsMessage(w[j])
               PROVE  w[i].id < w[j].id
    OBVIOUS
  <2>1. i \in 1..Len(wire) /\ w[i] = wire[i] /\ wire[i].id <= n /\ wire[i].id \in Nat
    BY <1>3, <1>4 DEF Ordered
  <2>2. CASE j \in 1..Len(wire) /\ w[j] = wire[j]
    BY <2>1, <2>2 DEF Ordered
  <2>3. CASE w[j] = m
    <3>1. w[j].id = n + 1
      BY <2>3
    <3>2. QED
      BY <2>1, <3>1
  <2>4. QED
    BY <1>2, <2>2, <2>3
<1>6. \A i \in 1..Len(line), j \in 1..Len(w) :
         IsMessage(line[i]) /\ IsMessage(w[j]) => line[i].id < w[j].id
  <2> SUFFICES ASSUME NEW i \in 1..Len(line), NEW j \in 1..Len(w),
                      IsMessage(line[i]), IsMessage(w[j])
               PROVE  line[i].id < w[j].id
    OBVIOUS
  <2>1. CASE j \in 1..Len(wire) /\ w[j] = wire[j]
    BY <2>1 DEF Ordered
  <2>2. CASE w[j] = m
    <3>1. line[i].id <= n /\ line[i].id \in Nat /\ w[j].id = n + 1
      BY <1>4, <2>2 DEF Ordered
    <3>2. QED
      BY <3>1
  <2>3. QED
    BY <1>2, <2>1, <2>2
<1>7. \A i \in 1..Len(line) : IsMessage(line[i]) => line[i].id <= n + 1
  <2> SUFFICES ASSUME NEW i \in 1..Len(line), IsMessage(line[i])
               PROVE  line[i].id <= n + 1
    OBVIOUS
  <2>1. line[i].id <= n /\ line[i].id \in Nat
    BY <1>4 DEF Ordered
  <2>2. QED
    BY <2>1
<1>8. \A i \in 1..Len(w) : IsMessage(w[i]) => w[i].id <= n + 1
  <2> SUFFICES ASSUME NEW i \in 1..Len(w), IsMessage(w[i])
               PROVE  w[i].id <= n + 1
    OBVIOUS
  <2>1. CASE i \in 1..Len(wire) /\ w[i] = wire[i]
    <3>1. w[i].id <= n /\ w[i].id \in Nat
      BY <1>4, <2>1 DEF Ordered
    <3>2. QED
      BY <3>1
  <2>2. CASE w[i] = m
    BY <2>2
  <2>3. QED
    BY <1>2, <2>1, <2>2
<1>9. QED
  BY <1>5, <1>6, <1>7, <1>8 DEF Ordered, w


(* The first message on the wire becomes the last of the timeline.         *)
LEMMA OrderedMove ==
    ASSUME NEW line \in Seq(Units), NEW wire \in Seq(Incoming), NEW n, NEW u \in Units,
           wire # <<>>, Head(wire).kind = "message", u = Unit("message", Head(wire).id),
           \A i \in 1..Len(line) : line[i].kind # "disconnect",
           Ordered(line, wire, n)
    PROVE  Ordered(line \o <<u>>, Tail(wire), n) /\ DisconnectedLast(line \o <<u>>)
<1> DEFINE r == line \o <<u>>
           w == Tail(wire)
<1>1. /\ Len(wire) \in Nat /\ Len(w) = Len(wire) - 1
      /\ \A i \in 1..Len(w) : w[i] = wire[i + 1]
  BY HeadTailProperties, LenProperties
<1>2. /\ \A i \in 1..Len(w) : i + 1 \in 1..Len(wire) /\ w[i] = wire[i + 1] /\ 1 < i + 1
      /\ \A i, j \in 1..Len(w) : i < j => i + 1 < j + 1
      /\ 1 \in 1..Len(wire) /\ Head(wire) = wire[1]
  BY <1>1
<1>3. /\ Len(line) \in Nat /\ Len(r) = Len(line) + 1
      /\ \A i \in 1..Len(r) : \/ i \in 1..Len(line) /\ r[i] = line[i]
                              \/ i = Len(line) + 1 /\ r[i] = u
  <2>1. r = Append(line, u)
    BY AppendIsConcat
  <2>2. /\ Len(line) \in Nat /\ Len(r) = Len(line) + 1
        /\ \A i \in 1..Len(line) : r[i] = line[i]
        /\ r[Len(line) + 1] = u
    BY <2>1, AppendProperties, LenProperties
  <2>3. QED
    BY <2>2
<1>4. \A i, j \in 1..Len(r) : i < j => i \in 1..Len(line) /\ r[i] = line[i]
  BY <1>3
<1>5. u.kind = "message" /\ u.id = wire[1].id /\ IsMessage(u) /\ IsMessage(wire[1])
  BY <1>2 DEF Unit, IsMessage
<1> HIDE DEF r, w
<1>6. \A i, j \in 1..Len(r) :
         i < j /\ IsMessage(r[i]) /\ IsMessage(r[j]) => r[i].id < r[j].id
  <2> SUFFICES ASSUME NEW i \in 1..Len(r), NEW j \in 1..Len(r),
                      i < j, IsMessage(r[i]), IsMessage(r[j])
               PROVE  r[i].id < r[j].id
    OBVIOUS
  <2>1. i \in 1..Len(line) /\ r[i] = line[i]
    BY <1>4
  <2>2. CASE j \in 1..Len(line) /\ r[j] = line[j]
    BY <2>1, <2>2 DEF Ordered
  <2>3. CASE r[j] = u
    BY <1>2, <1>5, <2>1, <2>3 DEF Ordered
  <2>4. QED
    BY <1>3, <2>2, <2>3
<1>7. \A i, j \in 1..Len(w) :
         i < j /\ IsMessage(w[i]) /\ IsMessage(w[j]) => w[i].id < w[j].id
  BY <1>2 DEF Ordered
<1>8. \A i \in 1..Len(r), j \in 1..Len(w) :
         IsMessage(r[i]) /\ IsMessage(w[j]) => r[i].id < w[j].id
  <2> SUFFICES ASSUME NEW i \in 1..Len(r), NEW j \in 1..Len(w),
                      IsMessage(r[i]), IsMessage(w[j])
               PROVE  r[i].id < w[j].id
    OBVIOUS
  <2>1. CASE i \in 1..Len(line) /\ r[i] = line[i]
    BY <1>2, <2>1 DEF Ordered
  <2>2. CASE r[i] = u
    BY <1>2, <1>5, <2>2 DEF Ordered
  <2>3. QED
    BY <1>3, <2>1, <2>2
<1>9. \A i \in 1..Len(r) : IsMessage(r[i]) => r[i].id <= n
  BY <1>2, <1>3, <1>5 DEF Ordered
<1>10. \A i \in 1..Len(w) : IsMessage(w[i]) => w[i].id <= n
  BY <1>2 DEF Ordered
<1>11. Ordered(r, w, n)
  BY <1>6, <1>7, <1>8, <1>9, <1>10 DEF Ordered
<1>12. DisconnectedLast(r)
  <2>1. \A i \in 1..Len(r) : r[i].kind # "disconnect"
    BY <1>3, <1>5
  <2>2. QED
    BY <2>1 DEF DisconnectedLast
<1>13. QED
  BY <1>11, <1>12 DEF r, w

(* Disconnect becomes the last of the timeline.                            *)
LEMMA OrderedEnd ==
    ASSUME NEW line \in Seq(Units), NEW wire, NEW n,
           \A i \in 1..Len(line) : line[i].kind # "disconnect",
           Ordered(line, wire, n)
    PROVE  /\ Ordered(line \o <<Disconnect>>, wire, n)
           /\ DisconnectedLast(line \o <<Disconnect>>)
           /\ \E i \in 1..Len(line \o <<Disconnect>>) :
                 (line \o <<Disconnect>>)[i] = Disconnect
<1> DEFINE r == line \o <<Disconnect>>
<1>1. Disconnect \in Units /\ Disconnect.kind = "disconnect" /\ ~IsMessage(Disconnect)
  BY DEF Disconnect, Unit, Units, IsMessage
<1>2. /\ Len(line) \in Nat /\ Len(r) = Len(line) + 1
      /\ \A i \in 1..Len(line) : r[i] = line[i]
      /\ r[Len(line) + 1] = Disconnect
  <2>1. r = Append(line, Disconnect)
    BY <1>1, AppendIsConcat
  <2>2. QED
    BY <1>1, <2>1, AppendProperties, LenProperties
<1>3. \A i \in 1..Len(r) : \/ i \in 1..Len(line) /\ r[i] = line[i]
                           \/ i = Len(line) + 1 /\ r[i] = Disconnect
  BY <1>2
<1>4. Len(line) + 1 \in 1..Len(r)
  BY <1>2
<1> HIDE DEF r
<1>5. \A i \in 1..Len(r) : IsMessage(r[i]) => i \in 1..Len(line) /\ r[i] = line[i]
  BY <1>1, <1>3
<1>6. Ordered(r, wire, n)
  BY <1>5 DEF Ordered
<1>7. DisconnectedLast(r)
  <2> SUFFICES ASSUME NEW i \in 1..Len(r), NEW j \in 1..Len(r), i < j,
                      r[i].kind = "disconnect"
               PROVE  FALSE
    BY DEF DisconnectedLast
  <2>1. i \notin 1..Len(line) \/ r[i] # line[i]
    OBVIOUS
  <2>2. i = Len(line) + 1
    BY <1>3, <2>1
  <2>3. QED
    BY <1>2, <2>2
<1>8. QED
  BY <1>2, <1>4, <1>6, <1>7 DEF r

(* The initial state has its timeline in order. *)
LEMMA InitOrder == Init => OrderInv
<1> SUFFICES ASSUME Init PROVE OrderInv
  OBVIOUS
<1>1. inbox = <<>> /\ ppc # "stopped" /\ handled = <<>> /\ batch = <<>> /\ queue = <<>>
  BY DEF Init
<1>2. Timeline = <<>>
  BY <1>1, EmptySeq, ConcatEmptySeq DEF Timeline, Backlog
<1>3. 1..Len(inbox) = {} /\ 1..Len(Timeline) = {}
  BY <1>1, <1>2, EmptySeq
<1>4. QED
  BY <1>1, <1>3 DEF OrderInv, Ordered, DisconnectedLast, EndInv

(* A step that queues the units of a response, and no other.               *)
LEMMA StepOrderQuiet ==
    ASSUME TypeInv, OrderInv, NEW s \in Nat, NEW hs \in Seq(Hooks),
           Enqueue(ResponseUnits(s, hs)), UNCHANGED <<handled, batch, arrived>>,
           inbox' = inbox \/ (inbox # <<>> /\ inbox' = Tail(inbox)),
           ppc' = "stopped" <=> ppc = "stopped"
    PROVE  OrderInv'
<1>1. TypeOK /\ Timeline \in Seq(Units) /\ inbox \in Seq(Incoming)
  BY TimelineType DEF TypeInv, TypeOK
<1>2. PICK q : q = ResponseUnits(s, hs)
  OBVIOUS
<1>3. q \in Seq(Units) /\ Timeline' = Timeline \o q
  BY <1>1, <1>2, ResponseTimeline
<1>4. \A i \in 1..Len(q) : q[i].kind \notin {"message", "disconnect"}
  <2>1. /\ Len(q) = Len(hs) + 1 /\ Len(hs) \in Nat /\ q[1] = Unit("response", s)
        /\ \A i \in 1..Len(hs) : q[i + 1] = Unit("hook", hs[i])
    BY <1>2, ResponsePlaces
  <2>2. \A i \in 1..Len(q) : i = 1 \/ (i - 1 \in 1..Len(hs) /\ (i - 1) + 1 = i)
    BY <2>1
  <2>3. ASSUME NEW i \in 1..Len(q) PROVE q[i].kind \in {"response", "hook"}
    <3>1. CASE i = 1
      BY <2>1, <3>1 DEF Unit
    <3>2. CASE i - 1 \in 1..Len(hs) /\ (i - 1) + 1 = i
      <4>1. q[i] = Unit("hook", hs[i - 1])
        BY <2>1, <3>2
      <4>2. QED
        BY <4>1 DEF Unit
    <3>3. QED
      BY <2>2, <3>1, <3>2
  <2>4. QED
    BY <2>3
<1>5. Ordered(Timeline, inbox', arrived)
  BY <1>1, OrderedTail DEF OrderInv
<1>6. Ordered(Timeline \o q, inbox', arrived) /\ DisconnectedLast(Timeline \o q)
  BY <1>1, <1>3, <1>4, <1>5, OrderedQuiet DEF OrderInv
<1>7. EndInv'
  <2>1. /\ \A i \in 1..Len(Timeline) : i \in 1..Len(Timeline \o q)
                                       /\ (Timeline \o q)[i] = Timeline[i]
        /\ \A i \in 1..Len(Timeline \o q) :
              \/ i \in 1..Len(Timeline)
              \/ i > Len(Timeline) /\ i - Len(Timeline) \in 1..Len(q)
                 /\ (Timeline \o q)[i] = q[i - Len(Timeline)]
    BY <1>1, <1>3, ConcatPlaces
  <2>2. QED
    BY <1>3, <1>4, <2>1 DEF EndInv, OrderInv
<1>8. QED
  BY <1>3, <1>6, <1>7 DEF OrderInv

(* Every step keeps the timeline in the order of the wire. *)
LEMMA StepOrder == TypeInv /\ BatchInv /\ OrderInv /\ [Next]_vars => OrderInv'
<1> SUFFICES ASSUME TypeInv, BatchInv, OrderInv, [Next]_vars PROVE OrderInv'
  OBVIOUS
<1> USE DEF chan, runner, client, peer, hist
<1>1. /\ TypeOK /\ Timeline \in Seq(Units) /\ inbox \in Seq(Incoming) /\ arrived \in Nat
      /\ hooks \in [Seqs -> Seq(Hooks)] /\ \A s \in Seqs : s \in Nat
  <2>1. TypeOK /\ inbox \in Seq(Incoming) /\ hooks \in [Seqs -> Seq(Hooks)]
    BY DEF TypeInv, TypeOK
  <2>2. arrived \in Nat /\ \A s \in Seqs : s \in Nat
    BY ChannelConstants DEF TypeInv, TypeOK, Seqs
  <2>3. QED
    BY <2>1, <2>2, TimelineType
<1>2. /\ ppc \in {"parse", "answer", "unknown"} => inbox # <<>>
      /\ ppc = "answer" => InHand.id \in Seqs
      /\ inbox # <<>> => InHand \in Incoming
  BY <1>1, HeadTailProperties DEF TypeInv, InHandInv, InHand
<1>3. CASE ParseMessage
  <2>1. /\ ppc = "parse" /\ ppc' = "read" /\ arrived' = arrived /\ inbox' = Tail(inbox)
        /\ Head(inbox).kind = "message" /\ UNCHANGED <<handled, batch>>
        /\ queue' = queue \o <<Unit("message", Head(inbox).id)>>
    BY <1>3 DEF ParseMessage, Parsed, Enqueue, InHand
  <2>2. PICK u : u = Unit("message", Head(inbox).id)
    OBVIOUS
  <2>3. u \in Units /\ <<u>> \in Seq(Units)
    BY <1>2, <2>1, <2>2 DEF InHand, Incoming, Unit, Units
  <2>4. Timeline' = Timeline \o <<u>>
    BY <1>1, <2>1, <2>2, <2>3, EnqueueTimeline
  <2>5. \A i \in 1..Len(Timeline) : Timeline[i].kind # "disconnect"
    BY <2>1 DEF OrderInv, EndInv
  <2>6. Ordered(Timeline \o <<u>>, Tail(inbox), arrived) /\ DisconnectedLast(Timeline \o <<u>>)
    BY <1>1, <1>2, <2>1, <2>2, <2>3, <2>5, OrderedMove DEF OrderInv
  <2>7. EndInv'
    <3>1. u.kind = "message" /\ Len(<<u>>) = 1 /\ <<u>>[1] = u
      BY <2>2 DEF Unit
    <3>2. \A i \in 1..Len(Timeline \o <<u>>) :
              \/ (Timeline \o <<u>>)[i] = u
              \/ i \in 1..Len(Timeline) /\ (Timeline \o <<u>>)[i] = Timeline[i]
      <4>1. /\ \A i \in 1..Len(Timeline) : (Timeline \o <<u>>)[i] = Timeline[i]
            /\ \A i \in 1..Len(Timeline \o <<u>>) :
                  \/ i \in 1..Len(Timeline)
                  \/ i > Len(Timeline) /\ i - Len(Timeline) \in 1..Len(<<u>>)
                     /\ (Timeline \o <<u>>)[i] = <<u>>[i - Len(Timeline)]
        BY <1>1, <2>3, ConcatPlaces
      <4>2. \A i \in 1..Len(<<u>>) : i = 1
        BY <3>1
      <4>3. QED
        BY <3>1, <4>1, <4>2
    <3>3. QED
      BY <2>1, <2>4, <2>5, <3>1, <3>2 DEF EndInv
  <2>8. QED
    BY <2>1, <2>4, <2>6, <2>7 DEF OrderInv
<1>4. CASE EndParser
  <2>1. /\ ppc = "closing" /\ ppc' = "stopped" /\ UNCHANGED <<arrived, inbox, handled, batch>>
        /\ queue' = queue \o <<Disconnect>>
    BY <1>4 DEF EndParser, Enqueue
  <2>2. <<Disconnect>> \in Seq(Units)
    BY DEF Disconnect, Unit, Units
  <2>3. Timeline' = Timeline \o <<Disconnect>>
    BY <1>1, <2>1, <2>2, EnqueueTimeline
  <2>4. \A i \in 1..Len(Timeline) : Timeline[i].kind # "disconnect"
    BY <2>1 DEF OrderInv, EndInv
  <2>5. /\ Ordered(Timeline \o <<Disconnect>>, inbox, arrived)
        /\ DisconnectedLast(Timeline \o <<Disconnect>>)
        /\ \E i \in 1..Len(Timeline \o <<Disconnect>>) :
              (Timeline \o <<Disconnect>>)[i] = Disconnect
    BY <1>1, <2>4, OrderedEnd DEF OrderInv
  <2>6. QED
    BY <2>1, <2>3, <2>5 DEF OrderInv, EndInv
<1>5. CASE Answer
  <2>1. /\ InHand.id \in Nat /\ hooks[InHand.id] \in Seq(Hooks) /\ inbox # <<>>
        /\ Enqueue(ResponseUnits(InHand.id, hooks[InHand.id]))
        /\ UNCHANGED <<handled, batch, arrived>> /\ inbox' = Tail(inbox)
        /\ ppc = "answer" /\ ppc' = "read"
    BY <1>1, <1>2, <1>5 DEF Answer, EnqueueResponse, Parsed
  <2>2. QED
    BY <2>1, StepOrderQuiet
<1>6. CASE AnswerUnknown
  <2>1. /\ InHand.id \in Nat /\ inbox # <<>>
        /\ Enqueue(ResponseUnits(InHand.id, <<>>))
        /\ UNCHANGED <<handled, batch, arrived>> /\ inbox' = Tail(inbox)
        /\ ppc = "unknown" /\ ppc' = "read"
    BY <1>1, <1>2, <1>6 DEF AnswerUnknown, Parsed, Incoming
  <2>2. <<>> \in Seq(Hooks)
    BY EmptySeq
  <2>3. QED
    BY <2>1, <2>2, StepOrderQuiet
<1>7. ASSUME NEW s \in Seqs, GiveUp(s) PROVE OrderInv'
  <2>1. /\ s \in Nat /\ hooks[s] \in Seq(Hooks)
        /\ Enqueue(ResponseUnits(s, hooks[s]))
        /\ UNCHANGED <<handled, batch, arrived, inbox, ppc>>
    BY <1>1, <1>7 DEF GiveUp, EnqueueResponse
  <2>2. QED
    BY <2>1, StepOrderQuiet
<1>8. ASSUME NEW t \in Threads, NEW s \in Seqs, OnResponse(t, s) PROVE OrderInv'
  <2>1. /\ UNCHANGED <<handled, batch, arrived, inbox, ppc>>
        /\ nhooks + 1 \in Hooks /\ s \in Nat /\ hooks[s] \in Seq(Hooks)
    BY <1>1, <1>8, ChannelConstants DEF OnResponse, TypeOK, Hooks
  <2>2. CASE ~Answered(s)
    <3>1. Timeline' = Timeline
      BY <1>8, <2>1, <2>2 DEF OnResponse, Timeline, Backlog
    <3>2. QED
      BY <2>1, <3>1 DEF OrderInv, EndInv
  <2>3. CASE Answered(s)
    <3>1. Enqueue(ResponseUnits(s, Append(hooks[s], nhooks + 1)))
      BY <1>8, <2>3 DEF OnResponse, EnqueueResponse
    <3>2. Append(hooks[s], nhooks + 1) \in Seq(Hooks)
      BY <2>1, AppendProperties
    <3>3. QED
      BY <2>1, <3>1, <3>2, StepOrderQuiet
  <2>4. QED
    BY <2>2, <2>3
<1>9. ASSUME NEW k \in PeerKinds, PeerMessage(k) PROVE OrderInv'
  <2>1. PICK m \in Incoming : PeerSends(m) /\ (IsMessage(m) => m.id = arrived + 1)
    <3>1. CASE k = "message" /\ PeerSends([kind |-> k, id |-> arrived + 1])
      <4>1. [kind |-> k, id |-> arrived + 1] \in Incoming
        BY <1>1 DEF Incoming
      <4>2. QED
        BY <3>1, <4>1
    <3>2. ASSUME k # "message", NEW n \in Nat, PeerSends([kind |-> k, id |-> n])
          PROVE  \E m \in Incoming : PeerSends(m) /\ (IsMessage(m) => m.id = arrived + 1)
      <4>1. [kind |-> k, id |-> n] \in Incoming /\ ~IsMessage([kind |-> k, id |-> n])
        BY <3>2 DEF Incoming, IsMessage
      <4>2. QED
        BY <3>2, <4>1
    <3>3. QED
      BY <1>1, <1>9, <3>1, <3>2 DEF PeerMessage
  <2>2. /\ UNCHANGED <<handled, batch, queue, ppc>>
        /\ inbox' = Append(inbox, m) /\ arrived' = arrived + 1
    BY <2>1 DEF PeerSends
  <2>3. Ordered(Timeline, Append(inbox, m), arrived + 1)
    BY <1>1, <2>1, OrderedArrival DEF OrderInv
  <2>4. Timeline' = Timeline
    BY <2>2 DEF Timeline, Backlog
  <2>5. QED
    BY <2>2, <2>3, <2>4 DEF OrderInv, EndInv
<1>10. CASE ~Works
  <2>1. /\ Timeline' = Timeline /\ arrived' = arrived
        /\ ppc' = "stopped" <=> ppc = "stopped"
        /\ inbox' = inbox \/ (inbox # <<>> /\ inbox' = Tail(inbox))
    BY <1>10, Idles
  <2>2. Ordered(Timeline, inbox', arrived)
    BY <1>1, <2>1, OrderedTail DEF OrderInv
  <2>3. QED
    BY <2>1, <2>2 DEF OrderInv, EndInv
<1>11. QED
  BY <1>3, <1>4, <1>5, <1>6, <1>7, <1>8, <1>9, <1>10 DEF Works

(* Events and requests are handled in the order of their arrival, and      *)
(* Disconnect after all of them, with any number of client threads.        *)
THEOREM HandledInOrder == Spec => []ReceivedInOrder
<1>1. TypeInv /\ OrderInv => ReceivedInOrder
  BY DEF OrderInv, Ordered, DisconnectedLast, ReceivedInOrder, IsMessage
<1>2. QED
  BY <1>1, InitType, NextType, InitBatch, StepBatch, InitOrder, StepOrder, PTL DEF Spec


-----------------------------------------------------------------------------
(* The places of the response handlers.  HooksAccounted says that each has *)
(* one place.  To show that it keeps it, one must know that the places     *)
(* hold nothing else: a request has only its own handlers, and what has    *)
(* been queued was registered, for a request that has its response.        *)

AttachedTo(hs, h) == \E i \in 1..Len(hs) : hs[i] = h
QueuedIn(line, h) == \E i \in 1..Len(line) : line[i] = Unit("hook", h)

HookPlaces(hs, line, n, of, res) ==
    /\ \A h \in 1..n : of[h] \in Seqs
    /\ \A s \in Seqs : \A i \in 1..Len(hs[s]) : hs[s][i] \in 1..n /\ of[hs[s][i]] = s
    /\ \A s \in Seqs : \A i, j \in 1..Len(hs[s]) : hs[s][i] = hs[s][j] => i = j
    /\ \A i \in 1..Len(line) :
          line[i].kind = "hook" => line[i].id \in 1..n /\ res[of[line[i].id]] # "none"
    /\ \A i, j \in 1..Len(line) : line[i].kind = "hook" /\ line[i] = line[j] => i = j
    /\ \A h \in 1..n : AttachedTo(hs[of[h]], h) <=> ~QueuedIn(line, h)

HookInv ==
    /\ HookPlaces(hooks, Timeline, nhooks, hookOf, response)
    /\ \A h \in 1..nhooks : hookOf[h] \in issued

(* A new handler is attached to its request.  (on_response) *)
LEMMA HookAttached ==
    ASSUME NEW hs \in [Seqs -> Seq(Hooks)], NEW line, NEW n \in Nat, n + 1 \in Hooks,
           NEW of \in [Hooks -> 0..MaxSeq], NEW res, NEW s \in Seqs,
           HookPlaces(hs, line, n, of, res)
    PROVE  HookPlaces([hs EXCEPT ![s] = Append(@, n + 1)], line, n + 1,
                      [of EXCEPT ![n + 1] = s], res)
<1>1. PICK g : g = [hs EXCEPT ![s] = Append(@, n + 1)]
  OBVIOUS
<1>2. PICK o : o = [of EXCEPT ![n + 1] = s]
  OBVIOUS
<1>3. PICK a : a = hs[s]
  OBVIOUS
<1>4. PICK b : b = g[s]
  OBVIOUS
<1>5. /\ a \in Seq(Hooks) /\ Len(a) \in Nat /\ Len(b) = Len(a) + 1
      /\ \A i \in 1..Len(a) : b[i] = a[i]
      /\ b[Len(a) + 1] = n + 1
  <2>1. a \in Seq(Hooks) /\ b = Append(a, n + 1)
    BY <1>1, <1>3, <1>4
  <2>2. QED
    BY <2>1, AppendProperties, LenProperties
<1>6. \A i \in 1..Len(b) : \/ i \in 1..Len(a) /\ b[i] = a[i]
                           \/ i = Len(a) + 1 /\ b[i] = n + 1
  BY <1>5
<1>7. 1..Len(a) \subseteq 1..Len(b) /\ Len(a) + 1 \in 1..Len(b)
  BY <1>5
<1>8. \A r \in Seqs : r # s => g[r] = hs[r]
  BY <1>1
<1>9. /\ o[n + 1] = s /\ \A h \in 1..n : h \in Hooks /\ h # n + 1 /\ o[h] = of[h]
      /\ \A h \in 1..(n + 1) : h \in 1..n \/ h = n + 1
      /\ 1..n \subseteq 1..(n + 1) /\ n + 1 \in 1..(n + 1) /\ n + 1 \notin 1..n
  BY <1>2, ChannelConstants DEF Hooks
<1>10. \A i \in 1..Len(a) : a[i] \in 1..n /\ of[a[i]] = s
  BY <1>3 DEF HookPlaces
<1>11. \A h \in 1..(n + 1) : o[h] \in Seqs
  BY <1>9 DEF HookPlaces
<1>12. \A r \in Seqs : \A i \in 1..Len(g[r]) : g[r][i] \in 1..(n + 1) /\ o[g[r][i]] = r
  <2>1. ASSUME NEW i \in 1..Len(b) PROVE b[i] \in 1..(n + 1) /\ o[b[i]] = s
    BY <1>6, <1>9, <1>10
  <2>2. ASSUME NEW r \in Seqs, r # s, NEW i \in 1..Len(g[r])
        PROVE  g[r][i] \in 1..(n + 1) /\ o[g[r][i]] = r
    <3>1. hs[r][i] \in 1..n /\ of[hs[r][i]] = r
      BY <1>8, <2>2 DEF HookPlaces
    <3>2. QED
      BY <1>8, <1>9, <2>2, <3>1
  <2>3. QED
    BY <1>4, <2>1, <2>2
<1>13. \A r \in Seqs : \A i, j \in 1..Len(g[r]) : g[r][i] = g[r][j] => i = j
  <2>1. ASSUME NEW i \in 1..Len(b), NEW j \in 1..Len(b), b[i] = b[j] PROVE i = j
    <3>1. \A k, l \in 1..Len(a) : a[k] = a[l] => k = l
      BY <1>3 DEF HookPlaces
    <3>2. CASE i \in 1..Len(a) /\ b[i] = a[i]
      <4>1. b[j] # n + 1
        BY <1>9, <1>10, <2>1, <3>2
      <4>2. QED
        BY <1>6, <2>1, <3>1, <3>2, <4>1
    <3>3. CASE i = Len(a) + 1 /\ b[i] = n + 1
      <4>1. ~(j \in 1..Len(a) /\ b[j] = a[j])
        BY <1>9, <1>10, <2>1, <3>3
      <4>2. QED
        BY <1>6, <3>3, <4>1
    <3>4. QED
      BY <1>6, <3>2, <3>3
  <2>2. ASSUME NEW r \in Seqs, r # s, NEW i \in 1..Len(g[r]), NEW j \in 1..Len(g[r]),
               g[r][i] = g[r][j]
        PROVE  i = j
    BY <1>8, <2>2 DEF HookPlaces
  <2>3. QED
    BY <1>4, <2>1, <2>2
<1>14. \A i \in 1..Len(line) :
         line[i].kind = "hook" => line[i].id \in 1..(n + 1) /\ res[o[line[i].id]] # "none"
  BY <1>9 DEF HookPlaces
<1>15. \A i, j \in 1..Len(line) : line[i].kind = "hook" /\ line[i] = line[j] => i = j
  BY DEF HookPlaces
<1>16. \A h \in 1..(n + 1) : AttachedTo(g[o[h]], h) <=> ~QueuedIn(line, h)
  <2>1. AttachedTo(b, n + 1)
    BY <1>5, <1>7 DEF AttachedTo
  <2>2. ~QueuedIn(line, n + 1)
    <3>1. Unit("hook", n + 1).kind = "hook" /\ Unit("hook", n + 1).id = n + 1
      BY DEF Unit
    <3>2. QED
      BY <1>9, <3>1 DEF QueuedIn, HookPlaces
  <2>3. ASSUME NEW h \in 1..n PROVE AttachedTo(g[o[h]], h) <=> AttachedTo(hs[of[h]], h)
    <3>1. o[h] = of[h] /\ of[h] \in Seqs /\ h # n + 1
      BY <1>9 DEF HookPlaces
    <3>2. CASE of[h] = s
      <4>1. g[o[h]] = b /\ hs[of[h]] = a
        BY <1>3, <1>4, <3>1, <3>2
      <4>2. AttachedTo(b, h) <=> AttachedTo(a, h)
        BY <1>5, <1>6, <1>7, <3>1 DEF AttachedTo
      <4>3. QED
        BY <4>1, <4>2
    <3>3. CASE of[h] # s
      BY <1>8, <3>1, <3>3
    <3>4. QED
      BY <3>2, <3>3
  <2>4. ASSUME NEW h \in 1..n PROVE AttachedTo(hs[of[h]], h) <=> ~QueuedIn(line, h)
    BY DEF HookPlaces
  <2>5. QED
    BY <1>4, <1>9, <2>1, <2>2, <2>3, <2>4
<1>17. HookPlaces(g, line, n + 1, o, res)
  BY <1>11, <1>12, <1>13, <1>14, <1>15, <1>16 DEF HookPlaces
<1>18. QED
  BY <1>1, <1>2, <1>17

(* The handlers of a request that has been answered are queued together.   *)
(* (_enqueue_response_handlers)                                            *)
LEMMA HooksQueued ==
    ASSUME NEW hs \in [Seqs -> Seq(Hooks)], NEW line \in Seq(Units), NEW n \in Nat,
           n <= MaxHooks, NEW of, NEW res, NEW res2, NEW s \in Seqs,
           HookPlaces(hs, line, n, of, res), res2[s] # "none",
           \A r \in Seqs : res[r] # "none" => res2[r] # "none"
    PROVE  HookPlaces([hs EXCEPT ![s] = <<>>], line \o ResponseUnits(s, hs[s]), n, of, res2)
<1>1. PICK g : g = [hs EXCEPT ![s] = <<>>]
  OBVIOUS
<1>2. PICK a : a = hs[s]
  OBVIOUS
<1>3. PICK q : q = ResponseUnits(s, a)
  OBVIOUS
<1>4. PICK l : l = line \o q
  OBVIOUS
<1>5. a \in Seq(Hooks) /\ s \in Nat
  BY <1>2, ChannelConstants DEF Seqs
<1>6. /\ q \in Seq(Units) /\ Len(q) = Len(a) + 1 /\ Len(a) \in Nat
      /\ q[1] = Unit("response", s)
      /\ \A i \in 1..Len(a) : q[i + 1] = Unit("hook", a[i])
  BY <1>3, <1>5, ResponsePlaces, ResponseUnitsType
<1>7. /\ Len(line) \in Nat
      /\ \A i \in 1..Len(line) : i \in 1..Len(l) /\ l[i] = line[i]
      /\ \A i \in 1..Len(q) : i + Len(line) \in 1..Len(l) /\ l[i + Len(line)] = q[i]
      /\ \A i \in 1..Len(l) :
            i \in 1..Len(line) \/ (i > Len(line) /\ i - Len(line) \in 1..Len(q)
                                   /\ l[i] = q[i - Len(line)])
  BY <1>4, <1>6, ConcatPlaces
<1>8. g[s] = <<>> /\ 1..Len(g[s]) = {} /\ \A r \in Seqs : r # s => g[r] = hs[r]
  <2>1. g[s] = <<>> /\ \A r \in Seqs : r # s => g[r] = hs[r]
    BY <1>1
  <2>2. 1..Len(<<>>) = {}
    BY EmptySeq
  <2>3. QED
    BY <2>1, <2>2
<1>9. \A h : Unit("hook", h).kind = "hook" /\ Unit("hook", h).id = h
  BY DEF Unit
<1>10. ASSUME NEW i \in 1..Len(l), l[i].kind = "hook"
       PROVE  \/ i \in 1..Len(line) /\ l[i] = line[i]
              \/ \E k \in 1..Len(a) : i = k + 1 + Len(line) /\ l[i] = Unit("hook", a[k])
  <2>1. CASE i \in 1..Len(line)
    BY <1>7, <2>1
  <2>2. CASE i > Len(line) /\ i - Len(line) \in 1..Len(q) /\ l[i] = q[i - Len(line)]
    <3>1. i - Len(line) # 1
      BY <1>6, <1>10, <2>2 DEF Unit
    <3>2. PICK k : k = i - Len(line) - 1
      OBVIOUS
    <3>3. k \in 1..Len(a) /\ i = k + 1 + Len(line) /\ k + 1 = i - Len(line)
      BY <1>6, <1>7, <2>2, <3>1, <3>2
    <3>4. QED
      BY <1>6, <2>2, <3>3
  <2>3. QED
    BY <1>7, <2>1, <2>2
<1>11. \A i \in 1..Len(a) : a[i] \in 1..n /\ of[a[i]] = s
  BY <1>2 DEF HookPlaces
<1>12. \A h \in 1..n : of[h] \in Seqs
  BY DEF HookPlaces
<1>13. \A r \in Seqs : \A i \in 1..Len(g[r]) : g[r][i] \in 1..n /\ of[g[r][i]] = r
  BY <1>8 DEF HookPlaces
<1>14. \A r \in Seqs : \A i, j \in 1..Len(g[r]) : g[r][i] = g[r][j] => i = j
  BY <1>8 DEF HookPlaces
<1>15. \A i \in 1..Len(l) :
          l[i].kind = "hook" => l[i].id \in 1..n /\ res2[of[l[i].id]] # "none"
  <2> SUFFICES ASSUME NEW i \in 1..Len(l), l[i].kind = "hook"
               PROVE  l[i].id \in 1..n /\ res2[of[l[i].id]] # "none"
    OBVIOUS
  <2>1. CASE i \in 1..Len(line) /\ l[i] = line[i]
    BY <1>12, <2>1 DEF HookPlaces
  <2>2. CASE \E k \in 1..Len(a) : i = k + 1 + Len(line) /\ l[i] = Unit("hook", a[k])
    BY <1>9, <1>11, <2>2
  <2>3. QED
    BY <1>10, <2>1, <2>2
<1>16. \A i \in 1..Len(line) : \A k \in 1..Len(a) : line[i] # Unit("hook", a[k])
  <2> SUFFICES ASSUME NEW i \in 1..Len(line), NEW k \in 1..Len(a),
                      line[i] = Unit("hook", a[k])
               PROVE  FALSE
    OBVIOUS
  <2>1. QueuedIn(line, a[k]) /\ AttachedTo(a, a[k]) /\ a[k] \in 1..n /\ of[a[k]] = s
    BY <1>11 DEF QueuedIn, AttachedTo
  <2>2. AttachedTo(hs[of[a[k]]], a[k])
    BY <1>2, <2>1
  <2>3. QED
    BY <2>1, <2>2 DEF HookPlaces
<1>17. \A i, j \in 1..Len(l) : l[i].kind = "hook" /\ l[i] = l[j] => i = j
  <2> SUFFICES ASSUME NEW i \in 1..Len(l), NEW j \in 1..Len(l),
                      l[i].kind = "hook", l[i] = l[j]
               PROVE  i = j
    OBVIOUS
  <2>1. l[j].kind = "hook"
    OBVIOUS
  <2>2. CASE i \in 1..Len(line) /\ l[i] = line[i]
    <3>1. CASE j \in 1..Len(line) /\ l[j] = line[j]
      <4>1. line[i].kind = "hook" /\ line[i] = line[j]
        BY <2>2, <3>1
      <4>2. \A x, y \in 1..Len(line) : line[x].kind = "hook" /\ line[x] = line[y] => x = y
        BY DEF HookPlaces
      <4>3. QED
        BY <2>2, <3>1, <4>1, <4>2
    <3>2. CASE \E k \in 1..Len(a) : j = k + 1 + Len(line) /\ l[j] = Unit("hook", a[k])
      BY <1>16, <2>2, <3>2
    <3>3. QED
      BY <1>10, <2>1, <3>1, <3>2
  <2>3. CASE \E k \in 1..Len(a) : i = k + 1 + Len(line) /\ l[i] = Unit("hook", a[k])
    <3>1. CASE j \in 1..Len(line) /\ l[j] = line[j]
      BY <1>16, <2>3, <3>1
    <3>2. CASE \E k \in 1..Len(a) : j = k + 1 + Len(line) /\ l[j] = Unit("hook", a[k])
      <4>1. PICK k \in 1..Len(a) : i = k + 1 + Len(line) /\ l[i] = Unit("hook", a[k])
        BY <2>3
      <4>2. PICK m \in 1..Len(a) : j = m + 1 + Len(line) /\ l[j] = Unit("hook", a[m])
        BY <3>2
      <4>3. a[k] = a[m]
        BY <1>9, <4>1, <4>2
      <4>4. k = m
        BY <1>2, <4>3 DEF HookPlaces
      <4>5. QED
        BY <4>1, <4>2, <4>4
    <3>3. QED
      BY <1>10, <2>1, <3>1, <3>2
  <2>4. QED
    BY <1>10, <2>2, <2>3
<1>18. \A h \in 1..n : AttachedTo(g[of[h]], h) <=> ~QueuedIn(l, h)
  <2> SUFFICES ASSUME NEW h \in 1..n
               PROVE  AttachedTo(g[of[h]], h) <=> ~QueuedIn(l, h)
    OBVIOUS
  <2>1. of[h] \in Seqs /\ (AttachedTo(hs[of[h]], h) <=> ~QueuedIn(line, h))
    BY DEF HookPlaces
  <2>2. QueuedIn(l, h) <=> QueuedIn(line, h) \/ AttachedTo(a, h)
    <3>1. QueuedIn(line, h) => QueuedIn(l, h)
      BY <1>7 DEF QueuedIn
    <3>2. ASSUME NEW k \in 1..Len(a), a[k] = h PROVE QueuedIn(l, h)
      <4>1. k + 1 \in 1..Len(q) /\ q[k + 1] = Unit("hook", h)
        BY <1>6, <3>2
      <4>2. QED
        BY <1>7, <4>1 DEF QueuedIn
    <3>3. ASSUME NEW i \in 1..Len(l), l[i] = Unit("hook", h)
          PROVE  QueuedIn(line, h) \/ AttachedTo(a, h)
      <4>1. l[i].kind = "hook"
        BY <1>9, <3>3
      <4>2. CASE i \in 1..Len(line) /\ l[i] = line[i]
        BY <3>3, <4>2 DEF QueuedIn
      <4>3. CASE \E k \in 1..Len(a) : i = k + 1 + Len(line) /\ l[i] = Unit("hook", a[k])
        BY <1>9, <3>3, <4>3 DEF AttachedTo
      <4>4. QED
        BY <1>10, <4>1, <4>2, <4>3
    <3>4. QED
      BY <3>1, <3>2, <3>3 DEF QueuedIn, AttachedTo
  <2>3. CASE of[h] = s
    <3>1. ~AttachedTo(g[of[h]], h)
      BY <1>8, <2>3 DEF AttachedTo
    <3>2. QED
      BY <1>2, <2>1, <2>2, <2>3, <3>1
  <2>4. CASE of[h] # s
    <3>1. ~AttachedTo(a, h)
      BY <1>11, <2>4 DEF AttachedTo
    <3>2. QED
      BY <1>8, <2>1, <2>2, <2>4, <3>1
  <2>5. QED
    BY <2>3, <2>4
<1>19. HookPlaces(g, l, n, of, res2)
  BY <1>12, <1>13, <1>14, <1>15, <1>17, <1>18 DEF HookPlaces
<1>20. QED
  BY <1>1, <1>2, <1>3, <1>4, <1>19


(* What is no response handler takes no handler's place.                   *)
LEMMA HooksElsewhere ==
    ASSUME NEW hs, NEW line \in Seq(Units), NEW n, NEW of, NEW res, NEW u \in Units,
           u.kind # "hook", HookPlaces(hs, line, n, of, res)
    PROVE  HookPlaces(hs, line \o <<u>>, n, of, res)
<1>1. PICK l : l = line \o <<u>>
  OBVIOUS
<1>2. /\ Len(line) \in Nat
      /\ \A i \in 1..Len(line) : i \in 1..Len(l) /\ l[i] = line[i]
      /\ \A i \in 1..Len(l) : l[i] = u \/ (i \in 1..Len(line) /\ l[i] = line[i])
  <2>1. l = Append(line, u)
    BY <1>1, AppendIsConcat
  <2>2. /\ Len(line) \in Nat /\ Len(l) = Len(line) + 1 /\ l[Len(line) + 1] = u
        /\ \A i \in 1..Len(line) : l[i] = line[i]
    BY <2>1, AppendProperties, LenProperties
  <2>3. \A i \in 1..Len(l) : i \in 1..Len(line) \/ i = Len(line) + 1
    BY <2>2
  <2>4. \A i \in 1..Len(line) : i \in 1..Len(l)
    BY <2>2
  <2>5. QED
    BY <2>2, <2>3, <2>4
<1>3. \A i \in 1..Len(l) : l[i].kind = "hook" => i \in 1..Len(line) /\ l[i] = line[i]
  BY <1>2
<1>4. \A h : QueuedIn(l, h) <=> QueuedIn(line, h)
  <2>1. \A h : Unit("hook", h).kind = "hook"
    BY DEF Unit
  <2>2. QED
    BY <1>2, <1>3, <2>1 DEF QueuedIn
<1>5. \A i \in 1..Len(l) :
         l[i].kind = "hook" => l[i].id \in 1..n /\ res[of[l[i].id]] # "none"
  BY <1>3 DEF HookPlaces
<1>6. \A i, j \in 1..Len(l) : l[i].kind = "hook" /\ l[i] = l[j] => i = j
  <2> SUFFICES ASSUME NEW i \in 1..Len(l), NEW j \in 1..Len(l),
                      l[i].kind = "hook", l[i] = l[j]
               PROVE  i = j
    OBVIOUS
  <2>1. /\ i \in 1..Len(line) /\ l[i] = line[i]
        /\ j \in 1..Len(line) /\ l[j] = line[j]
    BY <1>3
  <2>2. \A x, y \in 1..Len(line) : line[x].kind = "hook" /\ line[x] = line[y] => x = y
    BY DEF HookPlaces
  <2>3. QED
    BY <2>1, <2>2
<1>7. HookPlaces(hs, l, n, of, res)
  BY <1>4, <1>5, <1>6 DEF HookPlaces
<1>8. QED
  BY <1>1, <1>7

(* In the initial state no handler is attached. *)
LEMMA InitHook == Init => HookInv
<1> SUFFICES ASSUME Init PROVE HookInv
  OBVIOUS
<1>1. handled = <<>> /\ batch = <<>> /\ queue = <<>> /\ nhooks = 0
  BY DEF Init
<1>2. Timeline = <<>>
  BY <1>1, EmptySeq, ConcatEmptySeq DEF Timeline, Backlog
<1>3. 1..nhooks = {} /\ 1..Len(Timeline) = {}
  BY <1>1, <1>2, EmptySeq
<1>4. \A s \in Seqs : 1..Len(hooks[s]) = {}
  <2>1. \A s \in Seqs : hooks[s] = <<>>
    BY DEF Init
  <2>2. QED
    BY <2>1, EmptySeq
<1>5. QED
  BY <1>3, <1>4 DEF HookInv, HookPlaces

(* Every step keeps each handler that was attached in one place: with its  *)
(* request, in the timeline, or done.                                      *)
LEMMA StepHook == TypeInv /\ BatchInv /\ HookInv /\ [Next]_vars => HookInv'
<1> SUFFICES ASSUME TypeInv, BatchInv, HookInv, [Next]_vars PROVE HookInv'
  OBVIOUS
<1> USE DEF chan, runner, client, peer, hist
<1>1. /\ TypeOK /\ Timeline \in Seq(Units) /\ hooks \in [Seqs -> Seq(Hooks)]
      /\ nhooks \in Nat /\ nhooks <= MaxHooks /\ hookOf \in [Hooks -> 0..MaxSeq]
      /\ response \in [Seqs -> {"none", "answered", "gone"}]
      /\ \A s \in Seqs : s \in Nat
  <2>1. TypeOK /\ hooks \in [Seqs -> Seq(Hooks)] /\ hookOf \in [Hooks -> 0..MaxSeq]
        /\ response \in [Seqs -> {"none", "answered", "gone"}]
    BY DEF TypeInv, TypeOK
  <2>2. nhooks \in Nat /\ nhooks <= MaxHooks /\ \A s \in Seqs : s \in Nat
    BY ChannelConstants DEF TypeInv, TypeOK, Seqs
  <2>3. QED
    BY <2>1, <2>2, TimelineType
<1>2. /\ ppc \in {"parse", "answer", "unknown"} => inbox # <<>>
      /\ ppc = "answer" => InHand.id \in Seqs
      /\ inbox # <<>> => InHand.id \in Nat
  <2>1. inbox # <<>> => InHand \in Incoming
    BY HeadTailProperties DEF TypeInv, TypeOK, InHand
  <2>2. QED
    BY <2>1 DEF TypeInv, InHandInv, Incoming
<1>3. ASSUME NEW u \in Units, u.kind # "hook", queue' = queue \o <<u>>,
             UNCHANGED <<handled, batch, hooks, nhooks, hookOf, response, issued>>
      PROVE  HookInv'
  <2>1. Timeline' = Timeline \o <<u>>
    <3>1. <<u>> \in Seq(Units)
      BY <1>3
    <3>2. QED
      BY <1>1, <1>3, <3>1, EnqueueTimeline
  <2>2. HookPlaces(hooks, Timeline \o <<u>>, nhooks, hookOf, response)
    BY <1>1, <1>3, HooksElsewhere DEF HookInv
  <2>3. QED
    BY <1>3, <2>1, <2>2 DEF HookInv
<1>4. ASSUME NEW s \in Seqs, EnqueueResponse(s, hooks[s]), response'[s] # "none",
             \A r \in Seqs : response[r] # "none" => response'[r] # "none",
             UNCHANGED <<handled, batch, nhooks, hookOf, issued>>
      PROVE  HookInv'
  <2>1. hooks[s] \in Seq(Hooks) /\ s \in Nat
    BY <1>1
  <2>2. Timeline' = Timeline \o ResponseUnits(s, hooks[s])
    BY <1>1, <1>4, <2>1, ResponseTimeline DEF EnqueueResponse
  <2>3. HookPlaces([hooks EXCEPT ![s] = <<>>], Timeline \o ResponseUnits(s, hooks[s]),
                   nhooks, hookOf, response')
    BY <1>1, <1>4, HooksQueued DEF HookInv
  <2>4. QED
    BY <1>4, <2>2, <2>3 DEF HookInv, EnqueueResponse
<1>5. CASE ParseMessage
  <2>1. PICK u : u = Unit("message", InHand.id)
    OBVIOUS
  <2>2. u \in Units /\ u.kind # "hook" /\ queue' = queue \o <<u>>
    BY <1>2, <1>5, <2>1 DEF ParseMessage, Enqueue, Unit, Units
  <2>3. QED
    BY <1>3, <1>5, <2>2 DEF ParseMessage
<1>6. CASE EndParser
  <2>1. Disconnect \in Units /\ Disconnect.kind # "hook"
    BY DEF Disconnect, Unit, Units
  <2>2. QED
    BY <1>3, <1>6, <2>1 DEF EndParser, Enqueue
<1>7. CASE AnswerUnknown
  <2>1. PICK u : u = Unit("response", InHand.id)
    OBVIOUS
  <2>2. u \in Units /\ u.kind # "hook"
    BY <1>2, <1>7, <2>1 DEF AnswerUnknown, Unit, Units
  <2>3. ResponseUnits(InHand.id, <<>>) = <<u>>
    <3>1. InHand.id \in Nat /\ <<>> \in Seq(Hooks) /\ Len(<<>>) = 0
      BY <1>2, <1>7, EmptySeq DEF AnswerUnknown
    <3>2. PICK q : q = ResponseUnits(InHand.id, <<>>)
      OBVIOUS
    <3>3. q \in Seq(Units) /\ Len(q) = 1 /\ q[1] = u
      <4>1. /\ q \in Seq(Units) /\ Len(q) = Len(<<>>) + 1
            /\ q[1] = Unit("response", InHand.id)
        BY <3>1, <3>2, ResponsePlaces, ResponseUnitsType
      <4>2. QED
        BY <2>1, <3>1, <4>1
    <3>4. <<u>> \in Seq(Units) /\ Len(<<u>>) = 1 /\ <<u>>[1] = u
      BY <2>2
    <3>5. \A i \in 1..1 : i = 1
      OBVIOUS
    <3>6. q = <<u>>
      BY <3>3, <3>4, <3>5, SeqEqual
    <3>7. QED
      BY <3>2, <3>6
  <2>4. QED
    BY <1>3, <1>7, <2>2, <2>3 DEF AnswerUnknown, Enqueue
<1>8. CASE Answer
  <2>1. InHand.id \in Seqs /\ EnqueueResponse(InHand.id, hooks[InHand.id])
        /\ UNCHANGED <<handled, batch, nhooks, hookOf, issued>>
    BY <1>2, <1>8 DEF Answer
  <2>2. /\ response'[InHand.id] # "none"
        /\ \A r \in Seqs : response[r] # "none" => response'[r] # "none"
    BY <1>1, <1>8, <2>1 DEF Answer
  <2>3. QED
    BY <1>4, <2>1, <2>2
<1>9. ASSUME NEW s \in Seqs, GiveUp(s) PROVE HookInv'
  <2>1. /\ response'[s] # "none"
        /\ \A r \in Seqs : response[r] # "none" => response'[r] # "none"
    BY <1>1, <1>9 DEF GiveUp
  <2>2. QED
    BY <1>4, <1>9, <2>1 DEF GiveUp
<1>10. ASSUME NEW t \in Threads, NEW s \in Seqs, OnResponse(t, s) PROVE HookInv'
  <2>1. PICK g : g = [hooks EXCEPT ![s] = Append(@, nhooks + 1)]
    OBVIOUS
  <2>2. /\ nhooks + 1 \in Hooks /\ s \in issued /\ nhooks' = nhooks + 1
        /\ hookOf' = [hookOf EXCEPT ![nhooks + 1] = s]
        /\ UNCHANGED <<handled, batch, response, issued>>
    BY <1>1, <1>10, ChannelConstants DEF OnResponse, Hooks
  <2>3. HookPlaces(g, Timeline, nhooks', hookOf', response)
    BY <1>1, <2>1, <2>2, HookAttached DEF HookInv
  <2>4. g \in [Seqs -> Seq(Hooks)] /\ g[s] = Append(hooks[s], nhooks + 1)
        /\ g[s] \in Seq(Hooks)
    <3>1. Append(hooks[s], nhooks + 1) \in Seq(Hooks)
      BY <1>1, <2>2, AppendProperties
    <3>2. QED
      BY <1>1, <2>1, <3>1
  <2>5. \A h \in 1..nhooks' : hookOf'[h] \in issued'
    <3>1. \A h \in 1..(nhooks + 1) : h \in 1..nhooks \/ h = nhooks + 1
      BY <1>1
    <3>2. \A h \in 1..nhooks : hookOf'[h] \in issued
      BY <1>1, <2>2 DEF HookInv
    <3>3. hookOf'[nhooks + 1] \in issued
      BY <1>1, <2>2
    <3>4. QED
      BY <2>2, <3>1, <3>2, <3>3
  <2>6. CASE ~Answered(s)
    <3>1. hooks' = g /\ queue' = queue
      BY <1>10, <2>1, <2>6 DEF OnResponse
    <3>2. Timeline' = Timeline
      BY <2>2, <3>1 DEF Timeline, Backlog
    <3>3. QED
      BY <2>2, <2>3, <2>5, <3>1, <3>2 DEF HookInv
  <2>7. CASE Answered(s)
    <3>1. EnqueueResponse(s, g[s])
      BY <1>10, <2>4, <2>7 DEF OnResponse
    <3>2. hooks' = [g EXCEPT ![s] = <<>>]
      BY <1>1, <2>1, <3>1 DEF EnqueueResponse
    <3>3. Timeline' = Timeline \o ResponseUnits(s, g[s])
      BY <1>1, <2>2, <2>4, <3>1, ResponseTimeline DEF EnqueueResponse
    <3>4. nhooks' \in Nat /\ nhooks' <= MaxHooks
      BY <1>1, <2>2, ChannelConstants DEF Hooks
    <3>5. HookPlaces(hooks', Timeline', nhooks', hookOf', response)
      BY <1>1, <2>3, <2>4, <2>7, <3>2, <3>3, <3>4, HooksQueued DEF Answered
    <3>6. QED
      BY <2>2, <2>5, <3>5 DEF HookInv
  <2>8. QED
    BY <2>6, <2>7
<1>11. ASSUME NEW k \in PeerKinds, PeerMessage(k) PROVE HookInv'
  <2>1. UNCHANGED <<handled, batch, queue, hooks, nhooks, hookOf, response, issued>>
    BY <1>11 DEF PeerMessage, PeerSends
  <2>2. QED
    BY <2>1 DEF HookInv, Timeline, Backlog
<1>12. CASE ~Works
  BY <1>12, Idles DEF HookInv
<1>13. QED
  BY <1>5, <1>6, <1>7, <1>8, <1>9, <1>10, <1>11, <1>12 DEF Works

(* A set of which any two elements are equal.                              *)
LEMMA AtMostOne ==
    ASSUME NEW T, \A x, y \in T : x = y
    PROVE  Cardinality(T) = IF T = {} THEN 0 ELSE 1
<1>1. CASE T = {}
  BY <1>1, FS_EmptySet
<1>2. CASE T # {}
  <2>1. PICK x \in T : T = {x}
    BY <1>2
  <2>2. QED
    BY <1>2, <2>1, FS_Singleton
<1>3. QED
  BY <1>1, <1>2

(* A handler given to on_response() is attached to its request or queued,  *)
(* once, whichever of on_response() and the response comes first.          *)
THEOREM HooksKeepPlaces == Spec => []HooksAccounted
<1>1. TypeInv /\ HookInv => HooksAccounted
  <2> SUFFICES ASSUME TypeInv, HookInv, NEW h \in 1..nhooks
               PROVE  /\ Cardinality({i \in 1..Len(hooks[hookOf[h]]) : hooks[hookOf[h]][i] = h})
                         + Cardinality({i \in 1..Len(Timeline) : Timeline[i] = Unit("hook", h)})
                         = 1
                      /\ {i \in 1..Len(Timeline) : Timeline[i] = Unit("hook", h)} # {}
                         => response[hookOf[h]] # "none"
    BY DEF HooksAccounted
  <2>1. PICK A : A = {i \in 1..Len(hooks[hookOf[h]]) : hooks[hookOf[h]][i] = h}
    OBVIOUS
  <2>2. PICK Q : Q = {i \in 1..Len(Timeline) : Timeline[i] = Unit("hook", h)}
    OBVIOUS
  <2>3. Unit("hook", h).kind = "hook" /\ Unit("hook", h).id = h
    BY DEF Unit
  <2>4. \A i, j \in A : i = j
    BY <2>1 DEF HookInv, HookPlaces
  <2>5. \A i, j \in Q : i = j
    <3>1. \A x, y \in 1..Len(Timeline) :
             Timeline[x].kind = "hook" /\ Timeline[x] = Timeline[y] => x = y
      BY DEF HookInv, HookPlaces
    <3>2. QED
      BY <2>2, <2>3, <3>1
  <2>6. A = {} <=> Q # {}
    <3>1. AttachedTo(hooks[hookOf[h]], h) <=> ~QueuedIn(Timeline, h)
      BY DEF HookInv, HookPlaces
    <3>2. A # {} <=> AttachedTo(hooks[hookOf[h]], h)
      BY <2>1 DEF AttachedTo
    <3>3. Q # {} <=> QueuedIn(Timeline, h)
      BY <2>2 DEF QueuedIn
    <3>4. QED
      BY <3>1, <3>2, <3>3
  <2>7. Cardinality(A) + Cardinality(Q) = 1
    <3>1. Cardinality(A) = IF A = {} THEN 0 ELSE 1
      BY <2>4, AtMostOne
    <3>2. Cardinality(Q) = IF Q = {} THEN 0 ELSE 1
      BY <2>5, AtMostOne
    <3>3. QED
      BY <2>6, <3>1, <3>2
  <2>8. Q # {} => response[hookOf[h]] # "none"
    BY <2>2, <2>3 DEF HookInv, HookPlaces
  <2>9. QED
    BY <2>1, <2>2, <2>7, <2>8
<1>2. QED
  BY <1>1, InitType, NextType, InitBatch, StepBatch, InitHook, StepHook, PTL DEF Spec


-----------------------------------------------------------------------------
(* What wait() has waited for.                                             *)

(* wait() returns when the parser has stopped and the handler thread has   *)
(* quit, or quits in this very step.                                       *)
LEMMA WhenWaitReturns ==
    ASSUME TypeInv, Next, NEW t \in App, Joining(t), pc'[t] = "idle"
    PROVE  hpc = "absent" \/ Quits
<1> USE DEF chan, runner, client, peer, hist
<1>1. /\ t \in Threads /\ pc[t] \in {"joinP", "joinH"}
      /\ pc \in [Threads -> {"idle", "request", "event", "wait", "joinP", "joinH", "killed"}]
  BY DEF Threads, Joining, TypeInv, TypeOK
<1>2. ASSUME NEW u \in Threads, ClientStep(u) PROVE hpc = "absent"
  <2>1. CASE JoinParser(u)
    BY <1>1, <2>1 DEF JoinParser
  <2>2. CASE ~JoinParser(u)
    <3>1. pc[u] \in {"idle", "request", "event", "wait"}
          /\ \A v \in Threads : v # u => pc'[v] = pc[v]
      BY <1>1, <1>2, <2>2 DEF ClientStep, BeginSend, EndSend, BeginWait, OnResponse, Recheck,
                              Close, BeginJoin, Ready
    <3>2. QED
      BY <1>1, <3>1
  <2>3. QED
    BY <2>1, <2>2
<1>3. CASE TakeBatch
  BY <1>1, <1>3 DEF TakeBatch
<1>4. CASE HandlerFails
  BY <1>1, <1>4 DEF HandlerFails
<1>5. ASSUME UNCHANGED pc PROVE FALSE
  BY <1>1, <1>5
<1>6. QED
  BY <1>2, <1>3, <1>4, <1>5 DEF Next, Start, ParserStep, Read, ParseMessage, ParseInvalid,
     ParseResponse, Answer, AnswerUnknown, EndOfStream, GiveUp, EndParser, HandlerStep,
     ReadClosed, JoinedParser, EndBatch, BeginHandler, EndHandler, PeerMessage, PeerSends,
     PeerCloses

(* When wait() returns after the message loop has terminated, every handler*)
(* that the loop has queued has been executed, and Disconnect too.         *)
THEOREM WaitsForHandlers == Spec => WaitDrains
<1>1. /\ TypeInv /\ BatchInv /\ OrderInv /\ NoLostWakeup /\ [Next]_vars
      => [\A t \in App : Joining(t) /\ pc'[t] = "idle" /\ ppc = "stopped"
             => /\ Done(Disconnect)
                /\ \A u \in Elems(Backlog) : u.kind # "message"]_vars
  <2> SUFFICES ASSUME TypeInv, BatchInv, OrderInv, NoLostWakeup, Next, NEW t \in App,
                      Joining(t), pc'[t] = "idle", ppc = "stopped"
               PROVE  /\ Done(Disconnect)
                      /\ \A u \in Elems(Backlog) : u.kind # "message"
    OBVIOUS
  <2>1. queue = <<>> /\ batch = <<>>
    BY WhenWaitReturns DEF NoLostWakeup, BatchInv, Quits
  <2>2. Backlog = <<>>
    BY <2>1, EmptySeq, ConcatEmptySeq DEF Backlog
  <2>3. Timeline = handled
    BY <2>2, TimelineType, ConcatEmptySeq DEF Timeline, TypeInv
  <2>4. Done(Disconnect)
    BY <2>3 DEF OrderInv, EndInv, Done, Elems
  <2>5. Elems(Backlog) = {}
    BY <2>2, EmptySeq DEF Elems
  <2>6. QED
    BY <2>4, <2>5
<1>2. QED
  BY <1>1, InitType, NextType, InitBatch, StepBatch, InitOrder, StepOrder,
     InitWakeup, NextWakeup, PTL DEF Spec, WaitDrains


-----------------------------------------------------------------------------
(* The refinement.  Each step of the channel is a step of RequestLifecycle,*)
(* or changes nothing of what it speaks about: the invariants above say    *)
(* that a request gets its response in the right phase of the connection,  *)
(* and that a handler runs for a request that has its response.            *)

(* The values of the abstract variables.                                   *)
LEMMA LinkValue ==
    /\ ppc = "closing" => Link = "lost"
    /\ ppc = "stopped" => Link = "over"
    /\ ppc \notin {"closing", "stopped"} => Link = "open"
BY DEF Link

(* The phase of a request, from what the channel knows of it. *)
LEMMA PhaseValue ==
    /\ DOMAIN Phase = Seqs /\ Phase = [s \in Seqs |-> Phase[s]]
    /\ \A s \in Seqs :
          /\ s \notin issued => Phase[s] = "unissued"
          /\ s \in issued /\ response[s] = "none" => Phase[s] = "pending"
          /\ s \in issued /\ response[s] # "none" => Phase[s] = response[s]
BY DEF Phase

(* The state of a handler, from what the channel has done with it. *)
LEMMA HookValue ==
    /\ HookState = [h \in Hooks |-> HookState[h]]
    /\ \A h \in Hooks :
          /\ h > nhooks => HookState[h] = "unused"
          /\ ~(h > nhooks) /\ Done(Unit("hook", h)) => HookState[h] = "done"
          /\ ~(h > nhooks) /\ ~Done(Unit("hook", h)) => HookState[h] = "attached"
BY DEF HookState

(* The initial state is one of RequestLifecycle. *)
LEMMA InitPromise == Init => Promise!Init
<1> SUFFICES ASSUME Init PROVE Promise!Init
  OBVIOUS
<1>1. Link = "open"
  BY LinkValue DEF Init
<1>2. Phase = [s \in Seqs |-> "unissued"]
  BY PhaseValue DEF Init
<1>3. HookState = [h \in Hooks |-> "unused"]
  <2>1. \A h \in Hooks : h > nhooks
    BY ChannelConstants DEF Init, Hooks
  <2>2. QED
    BY <2>1, HookValue
<1>4. hookOf = [h \in Hooks |-> 0]
  BY DEF Init
<1>5. QED
  BY <1>1, <1>2, <1>3, <1>4 DEF Promise!Init


(* The steps that RequestLifecycle knows of: all the others leave its      *)
(* variables alone.                                                        *)
Promised ==
    \/ \E t \in Threads : EndSend(t) \/ \E s \in Seqs : OnResponse(t, s)
    \/ Answer \/ (\E s \in Seqs : GiveUp(s))
    \/ EndOfStream \/ EndParser \/ EndHandler

Same == UNCHANGED <<Link, Phase, HookState, hookOf>>

(* The link changes only with the parser thread, ... *)
LEMMA LinkStays ==
    ASSUME ppc' = "closing" <=> ppc = "closing", ppc' = "stopped" <=> ppc = "stopped"
    PROVE  Link' = Link
BY DEF Link

(* ... the phases of the requests only with what is sent and answered, ... *)
LEMMA PhaseStays ==
    ASSUME UNCHANGED <<response, issued>> PROVE Phase' = Phase
BY DEF Phase

(* ... and the handlers only when one is attached or handled. *)
LEMMA HookStays ==
    ASSUME UNCHANGED <<nhooks, handled>> PROVE HookState' = HookState
BY DEF HookState, Done, Elems

(* The steps that RequestLifecycle does not see leave its state alone. *)
LEMMA Unpromised == TypeInv /\ [Next]_vars /\ ~Promised => Same
<1> SUFFICES ASSUME TypeInv, [Next]_vars, ~Promised PROVE Same
  OBVIOUS
<1> USE DEF chan, runner, client, peer, hist
<1>1. UNCHANGED <<response, issued, nhooks, hookOf, handled>>
  BY DEF Promised, Next, Start, ClientStep, BeginSend, BeginWait, Recheck, Close,
         BeginJoin, JoinParser, ParserStep, Read, ParseMessage, ParseInvalid,
         ParseResponse, AnswerUnknown, HandlerStep, ReadClosed, JoinedParser, TakeBatch,
         EndBatch, BeginHandler, HandlerFails, PeerMessage, PeerSends, PeerCloses, vars
<1>2. /\ ppc' = "closing" <=> ppc = "closing"
      /\ ppc' = "stopped" <=> ppc = "stopped"
  <2>1. CASE UNCHANGED ppc
    BY <2>1
  <2>2. CASE Start \/ Read \/ ParseMessage \/ ParseInvalid \/ ParseResponse \/ AnswerUnknown
    BY <2>2 DEF Start, Read, ParseMessage, ParseInvalid, ParseResponse, AnswerUnknown, Parsed
  <2>3. CASE HandlerFails
    BY <2>3 DEF HandlerFails, LockFree, Stopped
  <2>4. QED
    BY <2>1, <2>2, <2>3 DEF Promised, Next, ClientStep, BeginSend, BeginWait, Recheck, Close,
         BeginJoin, JoinParser, ParserStep, HandlerStep, ReadClosed, JoinedParser,
         TakeBatch, EndBatch, BeginHandler, PeerMessage, PeerSends, PeerCloses, vars
<1>3. QED
  BY <1>1, <1>2, LinkStays, PhaseStays, HookStays DEF Same

(* A handler that has run was registered.                                  *)
LEMMA RunWasRegistered ==
    ASSUME TypeInv, HookInv, NEW h, Done(Unit("hook", h))
    PROVE  h \in 1..nhooks
<1>1. /\ handled \in Seq(Units) /\ Backlog \in Seq(Units)
      /\ Unit("hook", h).kind = "hook" /\ Unit("hook", h).id = h
  <2>1. handled \in Seq(Units) /\ batch \in Seq(Units) /\ queue \in Seq(Units)
    BY DEF TypeInv, TypeOK
  <2>2. QED
    BY <2>1, ConcatProperties DEF Backlog, Unit
<1>2. PICK i \in 1..Len(handled) : handled[i] = Unit("hook", h)
  BY DEF Done, Elems
<1>3. i \in 1..Len(Timeline) /\ Timeline[i] = Unit("hook", h)
  BY <1>1, <1>2, ConcatPlaces DEF Timeline
<1>4. QED
  BY <1>1, <1>3 DEF HookInv, HookPlaces

(* A request gets its response, or is not the business of any caller.      *)
LEMMA ResponseComes ==
    ASSUME TypeInv, NEW s \in Seqs, NEW r \in {"answered", "gone"}, response[s] = "none",
           response' = [response EXCEPT ![s] = r], issued' = issued,
           Link \in {"open", "lost"}, r = IF Link = "open" THEN "answered" ELSE "gone",
           UNCHANGED <<Link, HookState, hookOf>>
    PROVE  Promise!Resolve(s) \/ Same
<1>1. response \in [Seqs -> {"none", "answered", "gone"}]
  BY DEF TypeInv, TypeOK
<1>2. \A q \in Seqs : q # s => Phase'[q] = Phase[q]
  BY <1>1 DEF Phase
<1>3. Phase' = [q \in Seqs |-> Phase'[q]]
  BY DEF Phase
<1>4. Phase = [q \in Seqs |-> Phase[q]]
  BY DEF Phase
<1>5. CASE s \in issued
  <2>1. Phase[s] = "pending"
    BY <1>5, PhaseValue
  <2>2. Phase'[s] = r
    BY <1>1, <1>5 DEF Phase
  <2>3. Phase' = [Phase EXCEPT ![s] = r]
    BY <1>2, <1>3, <1>4, <2>2
  <2>4. QED
    BY <2>1, <2>3 DEF Promise!Resolve
<1>6. CASE s \notin issued
  <2>1. Phase'[s] = Phase[s]
    BY <1>6 DEF Phase
  <2>2. Phase' = Phase
    BY <1>2, <1>3, <1>4, <2>1
  <2>3. QED
    BY <2>2 DEF Same
<1>7. QED
  BY <1>5, <1>6

PromiseInv == TypeInv /\ BatchInv /\ ForgetInv /\ FreshInv /\ HookInv

(* Every step of the channel is a step of RequestLifecycle, or leaves its  *)
(* state alone.                                                            *)
LEMMA StepPromise == PromiseInv /\ [Next]_vars => Promise!Next \/ Same
<1> SUFFICES ASSUME PromiseInv, [Next]_vars PROVE Promise!Next \/ Same
  OBVIOUS
<1> USE DEF chan, runner, client, peer, hist
<1>1. /\ TypeInv /\ BatchInv /\ ForgetInv /\ FreshInv /\ HookInv
      /\ response \in [Seqs -> {"none", "answered", "gone"}]
      /\ at \in [Threads -> 0..MaxSeq]
      /\ nhooks \in Nat /\ nhooks <= MaxHooks /\ hookOf \in [Hooks -> 0..MaxSeq]
      /\ sent \subseteq Seqs /\ issued \subseteq Seqs
  <2>1. /\ TypeInv /\ BatchInv /\ ForgetInv /\ FreshInv /\ HookInv /\ TypeOK
    BY DEF PromiseInv, TypeInv
  <2>2. nhooks \in Nat /\ nhooks <= MaxHooks
    BY <2>1, ChannelConstants DEF TypeOK
  <2>3. QED
    BY <2>1, <2>2 DEF TypeOK
<1>2. ASSUME NEW t \in Threads, EndSend(t) PROVE Promise!Next \/ Same
  <2>1. UNCHANGED <<response, nhooks, hookOf, handled, ppc>>
    BY <1>2 DEF EndSend
  <2>2. UNCHANGED <<Link, HookState, hookOf>>
    BY <2>1, LinkStays, HookStays
  <2>3. CASE issued' = issued
    BY <2>1, <2>2, <2>3, PhaseStays DEF Same
  <2>4. PICK s : s = at[t]
    OBVIOUS
  <2>5. CASE ~closed /\ pc[t] = "request" /\ issued' = issued \cup {s} /\ s \notin issued
    <3>1. s \in Seqs /\ response[s] = "none" /\ Link = "open"
      <4>1. s \in Seqs /\ response[s] = "none"
        BY <1>1, <2>4, <2>5 DEF TypeInv, InHandInv, FreshInv, Sending, Fresh
      <4>2. ppc # "closing" /\ ppc # "stopped"
        BY <1>1, <1>2, <2>5 DEF EndSend, LockFree, ForgetInv, NoRequestForgotten
      <4>3. QED
        BY <4>1, <4>2, LinkValue
    <3>2. Phase[s] = "unissued"
      BY <2>5, <3>1, PhaseValue
    <3>3. Phase' = [Phase EXCEPT ![s] = "pending"]
      BY <2>1, <2>5, <3>1 DEF Phase
    <3>4. Promise!Issue(s)
      BY <2>2, <3>1, <3>2, <3>3 DEF Promise!Issue
    <3>5. QED
      BY <3>1, <3>4 DEF Promise!Next
  <2>6. QED
    BY <1>2, <2>3, <2>4, <2>5 DEF EndSend
<1>3. ASSUME NEW t \in Threads, NEW s \in Seqs, OnResponse(t, s) PROVE Promise!Next \/ Same
  <2>1. PICK n : n = nhooks + 1
    OBVIOUS
  <2>2. /\ n \in Hooks /\ n > nhooks /\ s \in issued /\ nhooks' = n
        /\ hookOf' = [hookOf EXCEPT ![n] = s]
        /\ UNCHANGED <<ppc, response, issued, handled>>
    BY <1>1, <1>3, <2>1, ChannelConstants DEF OnResponse, Hooks
  <2>3. UNCHANGED <<Link, Phase>>
    BY <2>2, LinkStays, PhaseStays
  <2>4. HookState[n] = "unused" /\ Phase[s] # "unissued"
    <3>1. HookState[n] = "unused"
      BY <2>2, HookValue
    <3>2. Phase[s] # "unissued"
      BY <1>1, <2>2, PhaseValue
    <3>3. QED
      BY <3>1, <3>2
  <2>5. HookState' = [HookState EXCEPT ![n] = "attached"]
    <3>1. \A h : Done(Unit("hook", h))' <=> Done(Unit("hook", h))
      BY <2>2 DEF Done, Elems, Unit
    <3>2. ~Done(Unit("hook", n))
      <4>1. n \notin 1..nhooks
        BY <1>1, <2>1
      <4>2. QED
        BY <1>1, <4>1, RunWasRegistered
    <3>3. \A h \in Hooks : h # n => (h > n <=> h > nhooks)
      BY <1>1, <2>1 DEF Hooks
    <3>4. ~(n > n)
      BY <1>1, <2>1
    <3>5. HookState' = [h \in Hooks |-> IF h > n THEN "unused"
                                ELSE IF Done(Unit("hook", h)) THEN "done" ELSE "attached"]
      BY <2>2, <3>1 DEF HookState
    <3>6. ASSUME NEW h \in Hooks
          PROVE  HookState'[h] = IF h = n THEN "attached" ELSE HookState[h]
      BY <3>2, <3>3, <3>4, <3>5 DEF HookState
    <3>7. DOMAIN HookState = Hooks /\ DOMAIN HookState' = Hooks
      BY DEF HookState
    <3>8. HookState' = [h \in Hooks |-> HookState'[h]]
      BY <3>5
    <3>9. HookState = [h \in Hooks |-> HookState[h]]
      BY DEF HookState
    <3>10. QED
      BY <2>2, <3>6, <3>8, <3>9
  <2>6. Promise!Attach(n, s)
    BY <2>2, <2>3, <2>4, <2>5 DEF Promise!Attach
  <2>7. QED
    BY <2>2, <2>6 DEF Promise!Next
<1>4. CASE Answer
  <2>1. PICK s : s = InHand.id
    OBVIOUS
  <2>2. /\ s \in Seqs /\ response[s] = "none" /\ response' = [response EXCEPT ![s] = "answered"]
        /\ UNCHANGED <<nhooks, hookOf, handled, issued>> /\ ppc = "answer" /\ ppc' = "read"
    <3>1. ppc = "answer" /\ s \in Seqs /\ response[s] = "none"
      BY <1>1, <1>4, <2>1 DEF Answer, TypeInv, InHandInv, FreshInv, InAnswer
    <3>2. QED
      BY <1>4, <2>1, <3>1 DEF Answer, Parsed
  <2>3. UNCHANGED <<Link, HookState, hookOf>> /\ Link = "open"
    BY <2>2, LinkStays, LinkValue, HookStays
  <2>4. Promise!Resolve(s) \/ Same
    BY <1>1, <2>2, <2>3, ResponseComes
  <2>5. QED
    BY <2>2, <2>4 DEF Promise!Next
<1>5. ASSUME NEW s \in Seqs, GiveUp(s) PROVE Promise!Next \/ Same
  <2>1. /\ s \in Seqs /\ response[s] = "none" /\ response' = [response EXCEPT ![s] = "gone"]
        /\ UNCHANGED <<nhooks, hookOf, handled, issued, ppc>> /\ ppc = "closing"
    BY <1>1, <1>5 DEF GiveUp, FreshInv
  <2>2. UNCHANGED <<Link, HookState, hookOf>> /\ Link = "lost"
    BY <2>1, LinkStays, LinkValue, HookStays
  <2>3. Promise!Resolve(s) \/ Same
    BY <1>1, <2>1, <2>2, ResponseComes
  <2>4. QED
    BY <2>3 DEF Promise!Next
<1>6. CASE EndOfStream
  <2>1. UNCHANGED <<response, issued, nhooks, hookOf, handled>>
        /\ ppc = "read" /\ ppc' = "closing"
    BY <1>6 DEF EndOfStream
  <2>2. UNCHANGED <<Phase, HookState, hookOf>>
    BY <2>1, PhaseStays, HookStays
  <2>3. Link = "open" /\ Link' = "lost"
    BY <2>1 DEF Link
  <2>4. QED
    BY <2>2, <2>3 DEF Promise!Next, Promise!Lose
<1>7. CASE EndParser
  <2>1. UNCHANGED <<response, issued, nhooks, hookOf, handled>>
        /\ ppc = "closing" /\ ppc' = "stopped" /\ sent = {}
    BY <1>7 DEF EndParser, AllAnswered
  <2>2. UNCHANGED <<Phase, HookState, hookOf>>
    BY <2>1, PhaseStays, HookStays
  <2>3. Link = "lost" /\ Link' = "over"
    BY <2>1 DEF Link
  <2>4. \A s \in Seqs : Phase[s] # "pending"
    <3>1. \A s \in issued : response[s] # "none"
      BY <1>1, <2>1 DEF ForgetInv, Accounted
    <3>2. \A s \in Seqs : s \in issued => Phase[s] = response[s]
      BY <3>1, PhaseValue
    <3>3. QED
      BY <1>1, <3>2, PhaseValue
  <2>5. QED
    BY <2>2, <2>3, <2>4 DEF Promise!Next, Promise!Finish
<1>8. CASE EndHandler
  <2>1. /\ UNCHANGED <<response, issued, nhooks, hookOf, ppc>>
        /\ handled' = Append(handled, Head(batch))
    BY <1>8 DEF EndHandler
  <2>2. UNCHANGED <<Link, Phase, hookOf>>
    BY <2>1, LinkStays, PhaseStays
  <2>3. PICK u : u = Head(batch)
    OBVIOUS
  <2>4. /\ u \in Units /\ handled \in Seq(Units) /\ handled' = Append(handled, u)
        /\ handled' \in Seq(Units)
    <3>1. handled \in Seq(Units) /\ batch \in Seq(Units) /\ batch # <<>>
      BY <1>1, <1>8 DEF TypeInv, TypeOK, InHandInv, EndHandler
    <3>2. u \in Units
      BY <2>3, <3>1, HeadTailProperties
    <3>3. QED
      BY <2>1, <2>3, <3>1, <3>2, AppendProperties
  <2>5. \A v : Done(v)' <=> Done(v) \/ v = u
    <3>1. /\ Len(handled) \in Nat /\ Len(handled') = Len(handled) + 1
          /\ \A i \in 1..Len(handled) : handled'[i] = handled[i]
          /\ handled'[Len(handled) + 1] = u
      BY <2>4, AppendProperties, LenProperties
    <3>2. /\ 1..Len(handled) \subseteq 1..Len(handled')
          /\ Len(handled) + 1 \in 1..Len(handled')
          /\ \A i \in 1..Len(handled') : i \in 1..Len(handled) \/ i = Len(handled) + 1
      BY <3>1
    <3>3. QED
      BY <3>1, <3>2 DEF Done, Elems
  <2>6. ASSUME \A h \in Hooks : Done(Unit("hook", h))' <=> Done(Unit("hook", h))
        PROVE  HookState' = HookState
    BY <2>1, <2>6 DEF HookState
  <2>7. CASE u.kind # "hook"
    <3>1. \A h : Unit("hook", h) # u
      BY <2>7 DEF Unit
    <3>2. QED
      BY <2>2, <2>5, <2>6, <3>1 DEF Same
  <2>8. CASE u.kind = "hook"
    <3>1. PICK n : n = u.id
      OBVIOUS
    <3>2. u = Unit("hook", n)
      BY <2>4, <2>8, <3>1 DEF Unit, Units
    <3>3. PICK i \in 1..Len(Timeline) : Timeline[i] = u
      <4>1. Timeline' = Timeline
        BY <1>1, <1>8, EndTimeline
      <4>2. Backlog' \in Seq(Units)
        <5>1. TypeInv'
          BY <1>1, NextType
        <5>2. batch' \in Seq(Units) /\ queue' \in Seq(Units)
          BY <5>1 DEF TypeInv, TypeOK
        <5>3. QED
          BY <5>2, ConcatProperties DEF Backlog
      <4>3. PICK i \in 1..Len(handled') : handled'[i] = u
        BY <2>5 DEF Done, Elems
      <4>4. i \in 1..Len(Timeline') /\ Timeline'[i] = u
        BY <2>4, <4>2, <4>3, ConcatPlaces DEF Timeline
      <4>5. QED
        BY <4>1, <4>4
    <3>4. n \in 1..nhooks /\ response[hookOf[n]] # "none"
      BY <1>1, <2>8, <3>1, <3>3 DEF HookInv, HookPlaces
    <3>5. n \in Hooks /\ ~(n > nhooks)
      BY <1>1, <3>4, ChannelConstants DEF Hooks
    <3>6. CASE Done(u)
      BY <2>2, <2>5, <2>6, <3>6 DEF Same
    <3>7. CASE ~Done(u)
      <4>1. HookState[n] = "attached"
        BY <3>2, <3>5, <3>7, HookValue
      <4>2. Phase[hookOf[n]] \in {"answered", "gone"}
        <5>1. hookOf[n] \in Seqs /\ hookOf[n] \in issued
          BY <1>1, <3>4 DEF HookInv, HookPlaces
        <5>2. Phase[hookOf[n]] = response[hookOf[n]]
          BY <3>4, <5>1, PhaseValue
        <5>3. QED
          BY <1>1, <3>4, <5>1, <5>2
      <4>3. HookState' = [HookState EXCEPT ![n] = "done"]
        <5>1. \A h : Unit("hook", h) = u <=> h = n
          BY <3>2 DEF Unit
        <5>2. \A h : Done(Unit("hook", h))' <=> Done(Unit("hook", h)) \/ h = n
          BY <2>5, <5>1
        <5>3. HookState' = [h \in Hooks |-> IF h > nhooks THEN "unused"
                  ELSE IF Done(Unit("hook", h)) \/ h = n THEN "done" ELSE "attached"]
          BY <2>1, <5>2 DEF HookState
        <5>4. ASSUME NEW h \in Hooks
              PROVE  HookState'[h] = IF h = n THEN "done" ELSE HookState[h]
          BY <3>5, <5>3 DEF HookState
        <5>5. HookState' = [h \in Hooks |-> HookState'[h]]
          BY <5>3
        <5>6. HookState = [h \in Hooks |-> HookState[h]]
          BY DEF HookState
        <5>7. QED
          BY <3>5, <5>4, <5>5, <5>6
      <4>4. Promise!RunHook(n)
        BY <2>2, <4>1, <4>2, <4>3 DEF Promise!RunHook
      <4>5. QED
        BY <3>5, <4>4 DEF Promise!Next
    <3>8. QED
      BY <3>6, <3>7
  <2>9. QED
    BY <2>7, <2>8
<1>9. CASE ~Promised
  BY <1>1, <1>9, Unpromised
<1>10. QED
  BY <1>2, <1>3, <1>4, <1>5, <1>6, <1>7, <1>8, <1>9 DEF Promised

(* The channel keeps the promise of RequestLifecycle to its callers,       *)
(* whatever its threads and the other party do.                            *)
THEOREM PromiseKept == Spec => KeepsPromise
<1>1. PromiseInv /\ [Next]_vars => [Promise!Next]_(Promise!rlVars)
  <2> SUFFICES ASSUME PromiseInv, [Next]_vars, ~Promise!Next
               PROVE  UNCHANGED Promise!rlVars
    OBVIOUS
  <2>1. Same
    BY StepPromise
  <2>2. QED
    BY <2>1 DEF Same, Promise!rlVars
<1>2. Spec => []PromiseInv
  BY InitType, NextType, InitBatch, StepBatch, InitForget, NextForget, InitFresh,
     NextFresh, InitHook, StepHook, PTL DEF Spec, PromiseInv
<1>3. QED
  BY <1>1, <1>2, InitPromise, PTL DEF Spec, KeepsPromise, Promise!Spec
=============================================================================
