-------------------------- MODULE RequestLifecycle --------------------------
(***************************************************************************)
(* What a JsonMessageChannel promises to the code that sends requests on   *)
(* it, whatever its threads do (the docstrings of OutgoingRequest, of      *)
(* Response and of Disconnect in messaging.py):                            *)
(*                                                                         *)
(*   - a request gets one response, and keeps it;                          *)
(*   - the response comes from the other party while the connection lasts, *)
(*     and is NoMoreMessages only once it is lost;                         *)
(*   - when the connection is over, no request is left without a response; *)
(*   - a response handler runs once, after the response has come.          *)
(***************************************************************************)
CONSTANTS Seqs, Hooks

VARIABLES
    link,       \* "open", "lost" or "over"
    phase,      \* "unissued", "pending", "answered" or "gone", for each request
    hook,       \* "unused", "attached" or "done", for each response handler
    owner       \* the request each handler was registered for, or 0

rlVars == <<link, phase, hook, owner>>

Init ==
    /\ link = "open"
    /\ phase = [s \in Seqs |-> "unissued"]
    /\ hook = [h \in Hooks |-> "unused"]
    /\ owner = [h \in Hooks |-> 0]

Issue(s) ==
    /\ link = "open" /\ phase[s] = "unissued"
    /\ phase' = [phase EXCEPT ![s] = "pending"]
    /\ UNCHANGED <<link, hook, owner>>

Resolve(s) ==
    /\ phase[s] = "pending" /\ link \in {"open", "lost"}
    /\ phase' = [phase EXCEPT ![s] = IF link = "open" THEN "answered" ELSE "gone"]
    /\ UNCHANGED <<link, hook, owner>>

Attach(h, s) ==
    /\ hook[h] = "unused" /\ phase[s] # "unissued"
    /\ hook' = [hook EXCEPT ![h] = "attached"]
    /\ owner' = [owner EXCEPT ![h] = s]
    /\ UNCHANGED <<link, phase>>

RunHook(h) ==
    /\ hook[h] = "attached" /\ phase[owner[h]] \in {"answered", "gone"}
    /\ hook' = [hook EXCEPT ![h] = "done"]
    /\ UNCHANGED <<link, phase, owner>>

Lose ==
    /\ link = "open"
    /\ link' = "lost"
    /\ UNCHANGED <<phase, hook, owner>>

Finish ==
    /\ link = "lost" /\ \A s \in Seqs : phase[s] # "pending"
    /\ link' = "over"
    /\ UNCHANGED <<phase, hook, owner>>

Next ==
    \/ \E s \in Seqs : Issue(s) \/ Resolve(s) \/ (\E h \in Hooks : Attach(h, s))
    \/ \E h \in Hooks : RunHook(h)
    \/ Lose \/ Finish

Spec == Init /\ [][Next]_rlVars
=============================================================================
