----------------------- MODULE RequestHandling_proofs -----------------------
(***************************************************************************)
(* Proofs about RequestHandling, for every number of requests and errors,  *)
(* every set of statements, with and without the decorator, on a channel   *)
(* that works and on one that is lost.                                     *)
(***************************************************************************)
EXTENDS RequestHandling, SequenceTheorems, TLAPS

(* While a handler runs, and until its result is dealt with, there is a    *)
(* request to answer; what is returned or raised is never the value that   *)
(* stands for "not answered".                                              *)
InHandInv ==
    /\ at \in {"body", "wrapper", "handle", "returned"} => cur \in Requests
    /\ value # Unset

TypeInv == TypeOK /\ InHandInv

(* The requests recorded as answered are the requests written to the       *)
(* channel (Request.respond).                                              *)
RecordInv ==
    /\ \A i \in 1..Len(out) : response[out[i]] # Unset
    /\ \A r \in Requests : response[r] # Unset => \E i \in 1..Len(out) : out[i] = r

(* The requests whose handler is done: all that were received, but for the *)
(* one in hand.                                                            *)
Done == 1..(IF at = "idle" THEN cur ELSE cur - 1)

SettledInv ==
    at # "dead" /\ open =>
        \A r \in Done : r \in deferred \/ \E i \in 1..Len(out) : out[i] = r

IInv == TypeInv /\ RecordInv /\ AnsweredOnce /\ SettledInv /\ FailureReported

-----------------------------------------------------------------------------
(* What a value is made of. *)

(* The bounds are numbers. *)
LEMMA Bounds == MaxRequests \in Nat /\ MaxErrors \in Nat
  BY HandlingConstants, Zenon

(* Every outcome of a handler is a value, and none but "unset" is the      *)
(* absence of one.                                                         *)
LEMMA ValueTypes ==
    /\ \A k \in {"None", "body", "unset", "NO_RESPONSE", "unavailable", "io",
                 "NoMoreMessages", "other"} :
           /\ Value(k) \in Values /\ Value(k).kind = k
           /\ k # "unset" => Value(k) # Unset
    /\ \A n \in 1..MaxErrors, c \in 0..Foreign :
           /\ Err(n, c) \in Values /\ Err(n, c).kind = "error"
           /\ Err(n, c) # Unset
<1>1. ASSUME NEW k \in {"None", "body", "unset", "NO_RESPONSE", "unavailable", "io",
                       "NoMoreMessages", "other"}
      PROVE  /\ Value(k) \in Values /\ Value(k).kind = k
             /\ k # "unset" => Value(k) # Unset
  <2>1. Value(k) \in Values
    BY DEF Values
  <2>2. Value(k).kind = k /\ Unset.kind = "unset"
    BY DEF Value, Unset
  <2>3. QED
    BY <2>1, <2>2
<1>2. ASSUME NEW n \in 1..MaxErrors, NEW c \in 0..Foreign
      PROVE  /\ Err(n, c) \in Values /\ Err(n, c).kind = "error"
             /\ Err(n, c) # Unset
  <2>1. Err(n, c) \in Values
    BY DEF Values
  <2>2. Err(n, c).kind = "error" /\ Unset.kind = "unset"
    BY DEF Err, Value, Unset
  <2>3. QED
    BY <2>1, <2>2
<1>3. QED
  BY <1>1, <1>2

(* The error that Message.error instantiates, and the one that a handler   *)
(* or the decorator does, is an error about something there is.            *)
LEMMA NewErrorType ==
    ASSUME TypeOK, CanErr, NEW c \in 0..Foreign
    PROVE  /\ errors + 1 \in 0..MaxErrors
           /\ Err(errors + 1, c) \in Values
           /\ Err(errors + 1, c) # Unset
           /\ Err(errors + 1, c).kind = "error"
<1>1. errors + 1 \in 1..MaxErrors
  BY Bounds DEF TypeOK, CanErr
<1>2. QED
  BY <1>1, ValueTypes

(* The causes of an error: a request, another one, or none. *)
LEMMA CauseRange ==
    /\ Nobody \in 0..Foreign /\ Foreign \in 0..Foreign
    /\ \A r \in Requests : r \in 0..Foreign
  BY Bounds DEF Nobody, Foreign, Requests

-----------------------------------------------------------------------------
(* What a response that goes out does, and what one that fails does.       *)

(* A response that goes out answers its request, and changes no other. *)
LEMMA RespondsFacts ==
    ASSUME TypeOK, RecordInv, AnsweredOnce,
           NEW r \in Requests, NEW v \in Values, v # Unset, Responds(r, v)
    PROVE  /\ response' \in [Requests -> Values]
           /\ out' \in Seq(Requests)
           /\ RecordInv'
           /\ AnsweredOnce'
           /\ response'[r] = v
           /\ \A q \in Requests \ {r} : response'[q] = response[q]
           /\ \A q : (\E i \in 1..Len(out) : out[i] = q) => (\E i \in 1..Len(out') : out'[i] = q)
           /\ \E i \in 1..Len(out') : out'[i] = r
           /\ open
<1> USE DEF TypeOK, Responds, CanRespond, Unanswered
<1>1. /\ response' \in [Requests -> Values]
      /\ response'[r] = v
      /\ \A q \in Requests \ {r} : response'[q] = response[q]
      /\ open /\ response[r] = Unset
  OBVIOUS
<1>2. /\ out' \in Seq(Requests)
      /\ Len(out) \in Nat
      /\ Len(out') = Len(out) + 1
      /\ \A i \in 1..Len(out) : out'[i] = out[i] /\ out[i] \in Requests
      /\ out'[Len(out) + 1] = r
  BY AppendProperties, LenProperties, ElementOfSeq
<1>3. \A i \in 1..Len(out') : i \in 1..Len(out) \/ i = Len(out) + 1
  BY <1>2
<1>4. \A i \in 1..Len(out) : i \in 1..Len(out') /\ out[i] # r
  BY <1>1, <1>2 DEF RecordInv
<1>5. Len(out) + 1 \in 1..Len(out')
  BY <1>2
<1>6. \A q : (\E i \in 1..Len(out) : out[i] = q) => (\E i \in 1..Len(out') : out'[i] = q)
  BY <1>2, <1>4
<1>7. \E i \in 1..Len(out') : out'[i] = r
  BY <1>2, <1>5
<1>8. RecordInv'
  <2>1. \A i \in 1..Len(out') : response'[out'[i]] # Unset
    BY <1>1, <1>2, <1>3, <1>4 DEF RecordInv
  <2>2. \A q \in Requests : response'[q] # Unset => \E i \in 1..Len(out') : out'[i] = q
    BY <1>1, <1>6, <1>7 DEF RecordInv
  <2>3. QED
    BY <2>1, <2>2 DEF RecordInv
<1>9. AnsweredOnce'
  BY <1>2, <1>3, <1>4 DEF AnsweredOnce
<1>10. QED
  BY <1>1, <1>2, <1>6, <1>7, <1>8, <1>9

(* One that does not go out changes nothing; on an open channel it fails   *)
(* because the request has its response.                                   *)
LEMMA RespondFailsFacts ==
    ASSUME NEW r, NEW e, RespondFails(r, e)
    PROVE  /\ e \in Values /\ e # Unset
           /\ response' = response /\ out' = out
           /\ open => response[r] # Unset
<1>1. Value("other") \in Values /\ Value("NoMoreMessages") \in Values /\ Value("io") \in Values
  BY ValueTypes
<1>2. QED
  BY <1>1, ValueTypes DEF RespondFails, Unanswered

-----------------------------------------------------------------------------
(* The steps. *)

Written(r) == \E i \in 1..Len(out) : out[i] = r

(* A step that neither writes nor records a response. *)
LEMMA Silent ==
    ASSUME IInv, UNCHANGED <<response, out>>
    PROVE  RecordInv' /\ AnsweredOnce' /\ (\A r : Written(r) <=> Written(r)')
  BY DEF IInv, RecordInv, AnsweredOnce, Written

(* A step inside the handling of a request leaves the others as they were. *)
LEMMA StillSettled ==
    ASSUME IInv, at \notin {"idle", "dead"}, at' # "idle", cur' = cur, open' = open,
           \A r \in Requests : (r \in deferred \/ Written(r)) => (r \in deferred \/ Written(r))'
                               \/ r = cur
    PROVE  SettledInv' /\ FailureReported'
<1>1. cur \in Requests /\ cur \in Nat
  BY Bounds DEF IInv, TypeInv, TypeOK, InHandInv, Requests
<1>2. Done = 1..(cur - 1) /\ Done' = 1..(cur - 1)
  BY DEF Done
<1>3. \A r \in 1..(cur - 1) : r \in Requests /\ r # cur
  BY <1>1, Bounds DEF Requests
<1>4. SettledInv'
  BY <1>2, <1>3 DEF IInv, SettledInv, Written
<1>5. QED
  BY <1>4 DEF FailureReported

(* Message.error: the failure response is sent, or the write fails.        *)
LEMMA ErrorOnFacts ==
    ASSUME IInv, NEW next \in {"wrapper", "handle"}, cur \in Requests, ErrorOn(cur, next)
    PROVE  /\ response' \in [Requests -> Values] /\ out' \in Seq(Requests)
           /\ errors' \in 0..MaxErrors
           /\ value' \in Values /\ value' # Unset
           /\ at' \in {"wrapper", "handle"}
           /\ RecordInv' /\ AnsweredOnce'
           /\ \A r : Written(r) => Written(r)'
<1> USE DEF IInv, TypeInv
<1>1. /\ errors' \in 0..MaxErrors
      /\ NewError(cur) \in Values /\ NewError(cur) # Unset
  BY NewErrorType, CauseRange DEF ErrorOn, NewError
<1>2. CASE Responds(cur, NewError(cur)) /\ value' = NewError(cur) /\ at' = next
  BY <1>1, <1>2, RespondsFacts DEF Written
<1>3. CASE \E e \in Values : RespondFails(cur, e) /\ value' = e /\ at' = "handle"
  <2>1. PICK e \in Values : RespondFails(cur, e) /\ value' = e /\ at' = "handle"
    BY <1>3
  <2>2. e # Unset /\ response' = response /\ out' = out
    BY <2>1, RespondFailsFacts
  <2>3. QED
    BY <1>1, <2>1, <2>2, Silent DEF TypeOK
<1>4. QED
  BY <1>2, <1>3 DEF ErrorOn

(* The initial state has the inductive invariant. *)
LEMMA InitIInv == Init => IInv
<1> SUFFICES ASSUME Init PROVE IInv
  OBVIOUS
<1> USE DEF Init
<1>1. NoResult \in Values /\ NoResult # Unset /\ NoResult.kind = "None" /\ Unset \in Values
  BY ValueTypes DEF NoResult, Unset
<1>2. TypeInv
  <2>1. cur \in 0..MaxRequests /\ errors \in 0..MaxErrors
    BY Bounds
  <2>2. out \in Seq(Requests)
    BY EmptySeq
  <2>3. QED
    BY <1>1, <2>1, <2>2 DEF TypeInv, TypeOK, InHandInv
<1>3. Len(out) = 0 /\ 1..Len(out) = {}
  BY EmptySeq
<1>4. RecordInv /\ AnsweredOnce
  BY <1>3 DEF RecordInv, AnsweredOnce, Requests
<1>5. SettledInv /\ FailureReported
  BY <1>1 DEF SettledInv, FailureReported, Done
<1>6. QED
  BY <1>2, <1>4, <1>5 DEF IInv

(* A request that arrives keeps it, ... *)
LEMMA ReceiveStep == IInv /\ Receive => IInv'
<1> SUFFICES ASSUME IInv, Receive PROVE IInv'
  OBVIOUS
<1>1. TypeInv'
  <2>1. NoResult \in Values /\ NoResult # Unset
    BY ValueTypes DEF NoResult
  <2>2. cur' \in Requests /\ cur' \in 0..MaxRequests
    BY Bounds DEF IInv, TypeInv, TypeOK, Receive, Requests
  <2>3. QED
    BY <2>1, <2>2 DEF IInv, TypeInv, TypeOK, InHandInv, Receive
<1>2. SettledInv'
  <2>1. Done' = Done
    BY Bounds DEF IInv, TypeInv, TypeOK, Receive, Done
  <2>2. QED
    BY <2>1 DEF IInv, SettledInv, Receive
<1>3. FailureReported'
  BY DEF Receive, FailureReported
<1>4. QED
  BY <1>1, <1>2, <1>3, Silent DEF IInv, Receive

(* ... so does the loss of the connection, ... *)
LEMMA LoseConnectionStep == IInv /\ LoseConnection => IInv'
  BY Silent DEF LoseConnection, IInv, TypeInv, TypeOK, InHandInv, SettledInv, FailureReported

(* A statement that answers nothing: it leaves the body with a result or   *)
(* with an exception.                                                      *)
LEMMA LeaveBody ==
    ASSUME IInv, at = "body", at' \in {"wrapper", "handle", "returned"},
           value' \in Values, value' # Unset, errors' \in 0..MaxErrors,
           UNCHANGED <<cur, response, deferred, open, out>>
    PROVE  IInv'
<1>1. TypeInv'
  BY DEF IInv, TypeInv, TypeOK, InHandInv
<1>2. SettledInv' /\ FailureReported'
  BY StillSettled, Silent
<1>3. QED
  BY <1>1, <1>2, Silent DEF IInv

(* ... a handler that returns, ... *)
LEMMA ReturnStep ==
    IInv /\ (ReturnBody \/ ReturnNone \/ ReturnNoResponse \/ ReturnError) => IInv'
<1> SUFFICES ASSUME IInv, ReturnBody \/ ReturnNone \/ ReturnNoResponse \/ ReturnError
             PROVE IInv'
  OBVIOUS
<1>1. /\ Body \in Values /\ Body # Unset /\ NoResult \in Values /\ NoResult # Unset
      /\ Value("NO_RESPONSE") \in Values /\ Value("NO_RESPONSE") # Unset
  BY ValueTypes DEF Body, NoResult
<1>2. errors \in 0..MaxErrors
  BY DEF IInv, TypeInv, TypeOK
<1>3. CASE ReturnBody
  BY <1>1, <1>2, <1>3, LeaveBody DEF ReturnBody, InBody, Returns
<1>4. CASE ReturnNone
  BY <1>1, <1>2, <1>4, LeaveBody DEF ReturnNone, InBody, Returns
<1>5. CASE ReturnNoResponse
  BY <1>1, <1>2, <1>5, LeaveBody DEF ReturnNoResponse, InBody, Returns
<1>6. CASE ReturnError
  <2>1. /\ Err(errors + 1, Nobody) \in Values /\ Err(errors + 1, Nobody) # Unset
        /\ errors + 1 \in 0..MaxErrors
    BY <1>6, NewErrorType, CauseRange DEF ReturnError, IInv, TypeInv
  <2>2. QED
    BY <1>6, <2>1, LeaveBody DEF ReturnError, InBody
<1>7. QED
  BY <1>3, <1>4, <1>5, <1>6

(* ... one that raises, ... *)
LEMMA RaiseStep ==
    ASSUME IInv, NEW c \in 0..Foreign, RaiseError(c) \/ RaiseOther
    PROVE  IInv'
<1>1. Escapes \in {"wrapper", "handle"}
  BY DEF Escapes
<1>2. CASE RaiseError(c)
  <2>1. /\ Err(errors + 1, c) \in Values /\ Err(errors + 1, c) # Unset
        /\ errors + 1 \in 0..MaxErrors
    BY <1>2, NewErrorType DEF RaiseError, IInv, TypeInv
  <2>2. at = "body"
    BY <1>2, Zenon DEF RaiseError, InBody
  <2>3. QED
    BY <1>1, <1>2, <2>1, <2>2, LeaveBody DEF RaiseError, Raises
<1>3. CASE RaiseOther
  <2>1. at = "body"
    BY <1>3, Zenon DEF RaiseOther, InBody
  <2>2. PICK k \in {"unavailable", "io", "other"} : Raises(Value(k))
    BY <1>3 DEF RaiseOther
  <2>3. Value(k) \in Values /\ Value(k) # Unset
    BY ValueTypes
  <2>4. errors' \in 0..MaxErrors
    BY <1>3 DEF RaiseOther, IInv, TypeInv, TypeOK
  <2>5. QED
    BY <1>1, <2>1, <2>2, <2>3, <2>4, LeaveBody DEF Raises
<1>4. QED
  BY <1>2, <1>3

(* request.respond() on the request in hand or on a deferred one.  When    *)
(* the assertion fails the request has been answered, when the write does  *)
(* the channel is lost: a request that is no longer deferred is settled.   *)
LEMMA RespondToStep ==
    ASSUME IInv, at = "body", NEW r \in Requests, RespondTo(r)
    PROVE  IInv'
<1> USE DEF IInv, TypeInv
<1>1. Body \in Values /\ Body # Unset /\ NoResult \in Values /\ NoResult # Unset
  BY ValueTypes DEF Body, NoResult
<1>2. cur \in Requests
  BY DEF InHandInv
<1>3. CASE Responds(r, Body) /\ at' = "body" /\ value' = NoResult
  <2>1. /\ response' \in [Requests -> Values] /\ out' \in Seq(Requests)
        /\ RecordInv' /\ AnsweredOnce'
        /\ \A q : Written(q) => Written(q)'
        /\ Written(r)'
    BY <1>1, <1>3, RespondsFacts DEF Written
  <2>2. TypeInv'
    BY <1>1, <1>2, <1>3, <2>1 DEF RespondTo, TypeOK, InHandInv
  <2>3. SettledInv' /\ FailureReported'
    BY <1>3, <2>1, StillSettled DEF RespondTo
  <2>4. QED
    BY <2>1, <2>2, <2>3
<1>4. ASSUME NEW e \in Values, RespondFails(r, e), at' = Escapes, value' = e
      PROVE  IInv'
  <2>1. /\ e # Unset /\ response' = response /\ out' = out
        /\ open => response[r] # Unset
    BY <1>4, RespondFailsFacts
  <2>2. at' \in {"wrapper", "handle"}
    BY <1>4 DEF Escapes
  <2>3. TypeInv'
    BY <1>2, <1>4, <2>1, <2>2 DEF RespondTo, TypeOK, InHandInv
  <2>4. SettledInv' /\ FailureReported'
    <3>1. CASE open
      <4>1. Written(r)'
        BY <2>1, <3>1, Silent DEF RecordInv, Written
      <4>2. QED
        BY <2>1, <2>2, <4>1, Silent, StillSettled DEF RespondTo
    <3>2. CASE ~open
      BY <2>2, <3>2 DEF RespondTo, SettledInv, FailureReported
    <3>3. QED
      BY <3>1, <3>2
  <2>5. QED
    BY <2>1, <2>3, <2>4, Silent
<1>5. QED
  BY <1>3, <1>4 DEF RespondTo

(* ... and one that responds by itself, now or later. *)
LEMMA AnswerStep ==
    IInv /\ (RespondNow \/ (\E r \in Requests : Complete(r))) => IInv'
<1> SUFFICES ASSUME IInv, RespondNow \/ (\E r \in Requests : Complete(r)) PROVE IInv'
  OBVIOUS
<1>1. CASE RespondNow
  <2>1. at = "body" /\ RespondTo(cur)
    BY <1>1, Zenon DEF RespondNow, InBody
  <2>2. cur \in Requests
    BY <2>1 DEF IInv, TypeInv, InHandInv
  <2>3. QED
    BY <2>1, <2>2, RespondToStep
<1>2. ASSUME NEW r \in Requests, Complete(r) PROVE IInv'
  <2>1. at = "body" /\ RespondTo(r)
    BY <1>2, Zenon DEF Complete, InBody
  <2>2. QED
    BY <2>1, RespondToStep
<1>3. QED
  BY <1>1, <1>2

(* raise request.cant_handle(), and the decorator's own use of it. *)
LEMMA OwnErrorStep == IInv /\ (RaiseOwnError \/ WrapUnavailable) => IInv'
<1> SUFFICES ASSUME IInv, RaiseOwnError \/ WrapUnavailable PROVE IInv'
  OBVIOUS
<1>1. PICK next \in {"wrapper", "handle"} : ErrorOn(cur, next)
  BY DEF RaiseOwnError, WrapUnavailable, Escapes
<1>2. at \in {"body", "wrapper"}
  BY Zenon DEF RaiseOwnError, WrapUnavailable, InBody, Wrapped
<1>3. UNCHANGED <<cur, deferred, open>>
  BY DEF RaiseOwnError, WrapUnavailable
<1>4. cur \in Requests
  BY <1>2 DEF IInv, TypeInv, InHandInv
<1>5. /\ response' \in [Requests -> Values] /\ out' \in Seq(Requests)
      /\ errors' \in 0..MaxErrors
      /\ value' \in Values /\ value' # Unset
      /\ at' \in {"wrapper", "handle"}
      /\ RecordInv' /\ AnsweredOnce'
      /\ \A r : Written(r) => Written(r)'
  BY <1>1, <1>4, ErrorOnFacts
<1>6. TypeInv'
  BY <1>3, <1>4, <1>5 DEF IInv, TypeInv, TypeOK, InHandInv
<1>7. SettledInv' /\ FailureReported'
  BY <1>2, <1>3, <1>5, StillSettled
<1>8. QED
  BY <1>5, <1>6, <1>7 DEF IInv

(* exc.propagate(message), an exception the decorator lets through, and    *)
(* the except clause of _handle.                                           *)
LEMMA WrapStep == IInv /\ (WrapError \/ WrapNothing \/ Catch) => IInv'
<1> SUFFICES ASSUME IInv, WrapError \/ WrapNothing \/ Catch PROVE IInv'
  OBVIOUS
<1>1. /\ at \in {"wrapper", "handle"} /\ at' \in {"handle", "returned", "dead"}
      /\ UNCHANGED <<cur, response, deferred, open, out>>
  BY DEF WrapError, WrapNothing, Catch, Wrapped, Die
<1>2. cur \in Requests
  BY <1>1 DEF IInv, TypeInv, InHandInv
<1>3. value' \in Values /\ value' # Unset /\ errors' \in 0..MaxErrors
  <2>1. CASE WrapError
    BY <1>2, <2>1, NewErrorType, CauseRange DEF WrapError, IInv, TypeInv
  <2>2. CASE WrapNothing \/ Catch
    BY <2>2 DEF WrapNothing, Catch, Die, IInv, TypeInv, TypeOK, InHandInv
  <2>3. QED
    BY <2>1, <2>2
<1>4. TypeInv'
  BY <1>1, <1>2, <1>3 DEF IInv, TypeInv, TypeOK, InHandInv
<1>5. SettledInv' /\ FailureReported'
  BY <1>1, Silent, StillSettled
<1>6. QED
  BY <1>1, <1>4, <1>5, Silent DEF IInv

(* _handle deals with the result.  When it goes back to the loop the       *)
(* request it leaves is deferred, answered, or has lost its channel, and   *)
(* an error is what its response says.                                     *)
LEMMA FinishStep ==
    IInv /\ (FinishDeferred \/ FinishResponded \/ FinishReturned) => IInv'
<1> SUFFICES ASSUME IInv, FinishDeferred \/ FinishResponded \/ FinishReturned PROVE IInv'
  OBVIOUS
<1> USE DEF IInv, TypeInv
<1>1. at = "returned"
  BY DEF FinishDeferred, FinishResponded, FinishReturned
<1>2. cur \in Requests /\ cur \in Nat
  BY <1>1, Bounds DEF InHandInv, Requests
<1>3. \A r \in 1..cur : r \in 1..(cur - 1) \/ r = cur
  BY <1>2
<1>4. CASE at' = "dead"
  <2>1. UNCHANGED <<cur, value, response, deferred, errors, open, out>>
    BY <1>4 DEF FinishDeferred, FinishResponded, FinishReturned, FinishIdle, Die, RespondFails
  <2>2. QED
    BY <1>4, <2>1, Silent DEF TypeOK, InHandInv, SettledInv, FailureReported
<1>5. ASSUME at' = "idle", UNCHANGED <<cur, value, errors, open>>,
             deferred' \in SUBSET Requests, deferred \subseteq deferred',
             response' \in [Requests -> Values], out' \in Seq(Requests),
             RecordInv', AnsweredOnce', \A r : Written(r) => Written(r)',
             open => cur \in deferred' \/ Written(cur)',
             open /\ value.kind = "error" => response'[cur].kind = "error"
      PROVE  IInv'
  <2>1. TypeInv'
    BY <1>5 DEF TypeOK, InHandInv
  <2>2. Done = 1..(cur - 1) /\ Done' = 1..cur
    BY <1>1, <1>5 DEF Done
  <2>3. SettledInv'
    BY <1>1, <1>3, <1>5, <2>2 DEF SettledInv, Written
  <2>4. FailureReported'
    BY <1>5 DEF FailureReported
  <2>5. QED
    BY <1>5, <2>1, <2>3, <2>4
<1>6. CASE FinishDeferred /\ at' # "dead"
  <2>1. /\ at' = "idle" /\ UNCHANGED <<cur, value, errors, open, response, out>>
        /\ deferred' = deferred \cup {cur} /\ value.kind # "error"
    BY <1>6 DEF FinishDeferred, FinishIdle, Die
  <2>2. QED
    BY <1>2, <1>5, <2>1, Silent DEF TypeOK
<1>7. CASE FinishResponded /\ at' # "dead"
  <2>1. /\ at' = "idle" /\ UNCHANGED <<cur, value, errors, open, response, deferred, out>>
        /\ response[cur] # Unset /\ SameResult
    BY <1>7 DEF FinishResponded, FinishIdle, Die, Unanswered
  <2>2. Written(cur)
    BY <1>2, <2>1 DEF RecordInv, Written
  <2>3. value.kind = "error" => value = response[cur]
    BY <2>1, ValueTypes DEF SameResult, NoResult
  <2>4. QED
    BY <1>2, <1>5, <2>1, <2>2, <2>3, Silent DEF TypeOK
<1>8. CASE FinishReturned /\ at' # "dead"
  <2>1. at' = "idle" /\ UNCHANGED <<cur, value, errors, open, deferred>>
    BY <1>8 DEF FinishReturned, FinishIdle, Die
  <2>2. \/ Responds(cur, value)
        \/ RespondFails(cur, Value("NoMoreMessages")) /\ response[cur] = Unset
    BY <1>8 DEF FinishReturned, FinishIdle, Die, Unanswered
  <2>3. CASE Responds(cur, value)
    <3>1. value \in Values /\ value # Unset
      BY DEF TypeOK, InHandInv
    <3>2. /\ response' \in [Requests -> Values] /\ out' \in Seq(Requests)
          /\ RecordInv' /\ AnsweredOnce' /\ response'[cur] = value
          /\ \A r : Written(r) => Written(r)'
          /\ Written(cur)'
      BY <1>2, <2>1, <2>3, <3>1, RespondsFacts DEF Written
    <3>3. QED
      BY <1>5, <2>1, <3>2 DEF TypeOK
  <2>4. CASE RespondFails(cur, Value("NoMoreMessages")) /\ response[cur] = Unset
    <3>1. response' = response /\ out' = out /\ ~open
      BY <2>4, RespondFailsFacts
    <3>2. QED
      BY <1>5, <2>1, <3>1, Silent DEF TypeOK
  <2>5. QED
    BY <2>2, <2>3, <2>4
<1>9. QED
  BY <1>4, <1>6, <1>7, <1>8

-----------------------------------------------------------------------------
(* The theorems. *)

(* The steps, in the groups in which the lemmas take them. *)
LEMMA StepCases ==
    [Next]_vars =>
        \/ Receive \/ LoseConnection
        \/ (ReturnBody \/ ReturnNone \/ ReturnNoResponse \/ ReturnError)
        \/ (RespondNow \/ (\E r \in Requests : Complete(r)))
        \/ (RaiseOwnError \/ WrapUnavailable)
        \/ (\E c \in 0..Foreign : RaiseError(c) \/ RaiseOther)
        \/ (WrapError \/ WrapNothing \/ Catch)
        \/ (FinishDeferred \/ FinishResponded \/ FinishReturned)
        \/ UNCHANGED vars
<1>1. \E c : c \in 0..Foreign
  BY CauseRange
<1>2. QED
  BY <1>1, Zenon DEF Next, Statement

(* Every step keeps the inductive invariant, ... *)
LEMMA StepIInv == IInv /\ [Next]_vars => IInv'
<1> SUFFICES ASSUME IInv, [Next]_vars PROVE IInv'
  OBVIOUS
<1>1. CASE Receive
  BY <1>1, ReceiveStep
<1>2. CASE LoseConnection
  BY <1>2, LoseConnectionStep
<1>3. CASE ReturnBody \/ ReturnNone \/ ReturnNoResponse \/ ReturnError
  BY <1>3, ReturnStep
<1>4. CASE RespondNow \/ (\E r \in Requests : Complete(r))
  BY <1>4, AnswerStep
<1>5. CASE RaiseOwnError \/ WrapUnavailable
  BY <1>5, OwnErrorStep
<1>6. CASE \E c \in 0..Foreign : RaiseError(c) \/ RaiseOther
  BY <1>6, RaiseStep
<1>7. CASE WrapError \/ WrapNothing \/ Catch
  BY <1>7, WrapStep
<1>8. CASE FinishDeferred \/ FinishResponded \/ FinishReturned
  BY <1>8, FinishStep
<1>9. CASE UNCHANGED vars
  BY <1>9 DEF vars, IInv, TypeInv, TypeOK, InHandInv, RecordInv, AnsweredOnce,
              SettledInv, Done, FailureReported
<1>10. QED
  BY <1>1, <1>2, <1>3, <1>4, <1>5, <1>6, <1>7, <1>8, <1>9, StepCases

(* ... so every execution has it. *)
LEMMA InvariantHolds == Spec => []IInv
  BY InitIInv, StepIInv, PTL DEF Spec

(* Every variable keeps its type, whatever handlers do.  (Request) *)
THEOREM Typing == Spec => []TypeOK
<1>1. IInv => TypeOK
  BY DEF IInv, TypeInv
<1>2. QED
  BY <1>1, InvariantHolds, PTL

(* A request is answered at most once, whatever its handler, the handlers  *)
(* after it and the decorator do between them.  (Request.respond)          *)
THEOREM AnswersOnce == Spec => []AnsweredOnce
<1>1. IInv => AnsweredOnce
  BY DEF IInv
<1>2. QED
  BY <1>1, InvariantHolds, PTL

(* When the next request is taken, every earlier one is answered, is       *)
(* deferred, or has lost its channel.  (Request._handle)                   *)
THEOREM DropsNone == Spec => []NoneDropped
<1>1. IInv => NoneDropped
  <2>1. at \in {"idle", "body"} => at # "dead"
    OBVIOUS
  <2>2. QED
    BY <2>1 DEF IInv, SettledInv, Done, NoneDropped
<1>2. QED
  BY <1>1, InvariantHolds, PTL

(* A handler that ended with an error has had a failure response sent for  *)
(* its request, or its connection is lost.  (Request._handle)              *)
THEOREM ReportsFailures == Spec => []FailureReported
<1>1. IInv => FailureReported
  BY DEF IInv
<1>2. QED
  BY <1>1, InvariantHolds, PTL
=============================================================================
