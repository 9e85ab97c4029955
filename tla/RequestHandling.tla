-------------------------- MODULE RequestHandling --------------------------
(***************************************************************************)
(* How one incoming request after another is handled and answered:         *)
(* Request._handle, Request.respond, Message.error and                     *)
(* MessageHandlingError (src/ptvsd/common/messaging.py), and the decorator *)
(* that every handler of the adapter wears, Component.message_handler      *)
(* (src/ptvsd/adapter/components.py).                                      *)
(*                                                                         *)
(* A handler is any sequence of the statements in Statements, so that the  *)
(* module says what the rules do with every handler, and the runs say      *)
(* which handlers are safe under them.                                     *)
(***************************************************************************)
EXTENDS Naturals, Sequences, FiniteSets

CONSTANTS
    MaxRequests,    \* bound: requests handled
    MaxErrors,      \* bound: errors instantiated
    Statements,     \* what the handlers are allowed to do
    Decorated,      \* are they under Component.message_handler?
    Unreliable      \* may the connection be lost?

ASSUME HandlingConstants ==
    /\ MaxRequests \in Nat /\ MaxErrors \in Nat
    /\ Statements \subseteq {"return", "respond", "defer", "complete", "own error",
                             "error object", "delegate", "foreign error",
                             "unavailable", "other", "late error"}
    /\ Decorated \in BOOLEAN /\ Unreliable \in BOOLEAN

Requests == 1..MaxRequests
Nobody   == 0                   \* the cause of an error with no cause
Foreign  == MaxRequests + 1     \* the cause of an error about another message

(* What a handler returns, raises or responds with.  Errors have an        *)
(* identity, because the code compares them with `is`.                     *)
Value(k) == [kind |-> k, id |-> 0, cause |-> Nobody]
Err(n, c) == [kind |-> "error", id |-> n, cause |-> c]
NoResult == Value("None")
Body     == Value("body")
Unset    == Value("unset")

Values ==
    {Value(k) : k \in {"None", "body", "unset", "NO_RESPONSE", "unavailable", "io",
                       "NoMoreMessages", "other"}}
    \cup {Err(n, c) : n \in 1..MaxErrors, c \in 0..Foreign}

VARIABLES
    cur,        \* the request being handled
    at,         \* "idle", "body", "wrapper", "handle", "returned" or "dead"
    value,      \* the result, or the exception in flight
    response,   \* Request.response.body of each request
    deferred,   \* requests whose handler returned NO_RESPONSE
    errors,     \* errors instantiated so far
    open,       \* does the connection still work?  When it does not, a write
                \* raises NoMoreMessages if the channel is closed here already,
                \* and plain JsonIOError if it is not
    out         \* responses written to the channel, in order

vars == <<cur, at, value, response, deferred, errors, open, out>>

TypeOK ==
    /\ cur \in 0..MaxRequests
    /\ at \in {"idle", "body", "wrapper", "handle", "returned", "dead"}
    /\ value \in Values
    /\ response \in [Requests -> Values]
    /\ deferred \subseteq Requests
    /\ errors \in 0..MaxErrors
    /\ open \in BOOLEAN
    /\ out \in Seq(Requests)

Init ==
    /\ cur = 0 /\ at = "idle" /\ value = NoResult
    /\ response = [r \in Requests |-> Unset]
    /\ deferred = {} /\ errors = 0 /\ open = TRUE /\ out = <<>>

Receive ==
    /\ at = "idle" /\ cur < MaxRequests
    /\ cur' = cur + 1
    /\ at' = "body" /\ value' = NoResult
    /\ UNCHANGED <<response, deferred, errors, open, out>>

LoseConnection ==
    /\ Unreliable /\ open /\ at # "dead"
    /\ open' = FALSE
    /\ UNCHANGED <<cur, at, value, response, deferred, errors, out>>

-----------------------------------------------------------------------------
(* Request.respond: the assertion, the write, and only then the response   *)
(* is recorded.  Responds(r, v) is a response that goes out; RespondFails  *)
(* is the exception raised otherwise.                                      *)
Unanswered(r) == response[r] = Unset
CanWrite(r)   == open                       \* faulty: without the assertion
CanRespond(r) == Unanswered(r) /\ open

RecordsOnly(r, v) ==            \* faulty: nothing is written
    CanRespond(r) /\ response' = [response EXCEPT ![r] = v] /\ UNCHANGED out

WritesForeign(r, v) ==          \* faulty: the request_seq of another message
    CanRespond(r) /\ response' = [response EXCEPT ![r] = v] /\ out' = Append(out, Foreign)

Responds(r, v) ==
    /\ CanRespond(r)
    /\ response' = [response EXCEPT ![r] = v]
    /\ out' = Append(out, r)

RespondFails(r, e) ==
    /\ \/ ~Unanswered(r) /\ e = Value("other")              \* AssertionError
       \/ Unanswered(r) /\ ~open /\ e \in {Value("NoMoreMessages"), Value("io")}
    /\ UNCHANGED <<response, out>>

(* Where an exception goes when it leaves the handler's body. *)
Escapes == IF Decorated THEN "wrapper" ELSE "handle"

(* Message.error() on a request: a new error about it, which is sent as    *)
(* the response before it is returned to the caller.                       *)
NewError(r) == Err(errors + 1, r)
CanErr == errors < MaxErrors

ErrorOn(r, next) ==
    /\ CanErr /\ errors' = errors + 1
    /\ \/ Responds(r, NewError(r)) /\ value' = NewError(r) /\ at' = next
       \/ \E e \in Values : RespondFails(r, e) /\ value' = e /\ at' = "handle"

-----------------------------------------------------------------------------
(* The statements of a handler.                                            *)
InBody(s) == at = "body" /\ s \in Statements

Returns(v) ==
    /\ value' = v /\ at' = "returned"
    /\ UNCHANGED <<cur, response, deferred, errors, open, out>>

Raises(v) ==
    /\ value' = v /\ at' = Escapes
    /\ UNCHANGED <<cur, response, deferred, open, out>>

(* return, with a body or with None; the contract asks for None exactly    *)
(* when the handler has responded itself.                                  *)
ReturnBody == InBody("return") /\ Unanswered(cur) /\ Returns(Body)
ReturnNone == InBody("respond") /\ ~Unanswered(cur) /\ Returns(NoResult)
ReturnNoResponse == InBody("defer") /\ Unanswered(cur) /\ Returns(Value("NO_RESPONSE"))

(* return an error object. *)
ReturnError ==
    /\ InBody("error object") /\ Unanswered(cur) /\ CanErr
    /\ errors' = errors + 1
    /\ value' = Err(errors + 1, Nobody) /\ at' = "returned"
    /\ UNCHANGED <<cur, response, deferred, open, out>>

(* request.respond(), on this request or on one deferred earlier. *)
RespondTo(r) ==
    /\ \/ Responds(r, Body) /\ at' = "body" /\ value' = NoResult
       \/ \E e \in Values : RespondFails(r, e) /\ at' = Escapes /\ value' = e
    /\ deferred' = deferred \ {r}
    /\ UNCHANGED <<cur, errors, open>>

RespondNow == InBody("respond") /\ Unanswered(cur) /\ RespondTo(cur)
Complete(r) == InBody("complete") /\ r \in deferred /\ RespondTo(r)

(* raise request.cant_handle(...), request.isnt_valid(...) *)
RaiseOwnError ==
    /\ InBody("own error") /\ Unanswered(cur)
    /\ ErrorOn(cur, Escapes)
    /\ UNCHANGED <<cur, deferred, open>>

(* raise MessageHandlingError(reason); what channel.delegate() raises, an  *)
(* error about this request that has not been sent; the failure of another *)
(* request that the handler made.                                          *)
RaiseError(c) ==
    /\ \/ InBody("error object") /\ c = Nobody
       \/ InBody("delegate") /\ c = cur
       \/ InBody("foreign error") /\ c = Foreign
    /\ Unanswered(cur) \/ "late error" \in Statements
    /\ CanErr /\ errors' = errors + 1
    /\ Raises(Err(errors + 1, c))

(* ComponentNotAvailable; JsonIOError from another channel; anything else. *)
RaiseOther ==
    /\ \/ InBody("unavailable") /\ \E k \in {"unavailable", "io"} : Raises(Value(k))
       \/ InBody("other") /\ Raises(Value("other"))
    /\ UNCHANGED errors

Statement ==
    \/ ReturnBody \/ ReturnNone \/ ReturnNoResponse \/ ReturnError
    \/ RespondNow \/ (\E r \in Requests : Complete(r))
    \/ RaiseOwnError \/ (\E c \in 0..Foreign : RaiseError(c)) \/ RaiseOther

-----------------------------------------------------------------------------
(* Component.message_handler. *)
Wrapped(kinds) == at = "wrapper" /\ value.kind \in kinds

(* raise message.cant_handle(...) for a missing or lost component; the     *)
(* clause for JsonIOError catches NoMoreMessages too.                      *)
WrapUnavailable ==
    /\ Wrapped({"unavailable", "io", "NoMoreMessages"})
    /\ ErrorOn(cur, "handle")
    /\ UNCHANGED <<cur, deferred, open>>

(* exc.propagate(message): a new error about the message, for every error, *)
(* the message's own included; it is not sent.                             *)
WrapError ==
    /\ Wrapped({"error"})
    /\ CanErr /\ errors' = errors + 1
    /\ value' = Err(errors + 1, cur) /\ at' = "handle"
    /\ UNCHANGED <<cur, response, deferred, open, out>>

WrapNothing ==
    /\ Wrapped({"other"})
    /\ at' = "handle"
    /\ UNCHANGED <<cur, value, response, deferred, errors, open, out>>

-----------------------------------------------------------------------------
(* Request._handle. *)
AppliesTo(e, r) == e.kind = "error" /\ e.cause \in {Nobody, r}

Die ==
    /\ at' = "dead"
    /\ UNCHANGED <<cur, value, response, deferred, errors, open, out>>

Catch ==
    /\ at = "handle"
    /\ IF AppliesTo(value, cur)
         THEN at' = "returned" /\ UNCHANGED <<cur, value, response, deferred, errors, open, out>>
         ELSE Die

FinishIdle == at' = "idle" /\ UNCHANGED <<cur, value, errors, open>>

FinishDeferred ==
    /\ at = "returned" /\ value.kind = "NO_RESPONSE"
    /\ IF Unanswered(cur)
         THEN /\ FinishIdle /\ deferred' = deferred \cup {cur}
              /\ UNCHANGED <<response, out>>
         ELSE Die

(* The handler has responded: it must return None, or the very object it   *)
(* responded with.                                                         *)
AnyResult  == TRUE                              \* faulty: whatever is returned
SameResult == value = NoResult \/ value = response[cur]

FinishResponded ==
    /\ at = "returned" /\ value.kind # "NO_RESPONSE" /\ ~Unanswered(cur)
    /\ IF SameResult THEN FinishIdle /\ UNCHANGED <<response, deferred, out>> ELSE Die

(* The handler has not: its result is the response. *)
FinishReturned ==
    /\ at = "returned" /\ value.kind # "NO_RESPONSE" /\ Unanswered(cur)
    /\ \/ value = NoResult /\ Die
       \/ value # NoResult /\ Responds(cur, value) /\ FinishIdle /\ UNCHANGED deferred
       \/ value # NoResult /\ RespondFails(cur, Value("NoMoreMessages"))
             /\ FinishIdle /\ UNCHANGED deferred
       \/ value # NoResult /\ RespondFails(cur, Value("io")) /\ at' = "dead"
             /\ UNCHANGED <<cur, value, deferred, errors, open>>

Next ==
    \/ Receive \/ LoseConnection
    \/ Statement
    \/ WrapUnavailable \/ WrapError \/ WrapNothing
    \/ Catch \/ FinishDeferred \/ FinishResponded \/ FinishReturned

Spec == Init /\ [][Next]_vars

-----------------------------------------------------------------------------
(* The properties. *)

(* A request is answered at most once, whatever its handler, the handlers  *)
(* after it and the decorator do between them (Request.respond).           *)
AnsweredOnce ==
    \A i, j \in 1..Len(out) : out[i] = out[j] => i = j

(* No request is dropped: when the next one is taken, every earlier one    *)
(* has been answered, awaits the response its handler deferred, or has     *)
(* lost its channel (Request._handle).                                     *)
NoneDropped ==
    at \in {"idle", "body"} /\ open =>
        \A r \in 1..(IF at = "idle" THEN cur ELSE cur - 1) :
            r \in deferred \/ \E i \in 1..Len(out) : out[i] = r

(* A failure is never reported as a success: a handler that ended with an  *)
(* error has had a failure response sent for its request, or its           *)
(* connection is lost (Request._handle, which keeps a response that was    *)
(* sent before the error only if it is that error).                        *)
FailureReported ==
    at = "idle" /\ value.kind = "error" /\ open => response[cur].kind = "error"

(* "If any request handler raises this exception, and applies_to(request)  *)
(* is True, the exception is silently swallowed by the message loop, and a *)
(* failure response is sent" (MessageHandlingError): a handler that keeps  *)
(* to the documented ways to answer or fail does not end the process.      *)
Survives == at # "dead"
=============================================================================
