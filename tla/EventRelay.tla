------------------------------ MODULE EventRelay ------------------------------
(***************************************************************************)
(* What IDE.propagate_after_start promises (adapter/ide.py:89-106): events *)
(* of the debuggee are withheld until the gate opens, which happens once,  *)
(* when the IDE is given its "launch" or "attach" response; from then on   *)
(* the IDE has every event the adapter has handled, in the same order.     *)
(***************************************************************************)
EXTENDS Sequences

CONSTANT Events     \* the events of the debuggee

VARIABLES
    handled,    \* the events that the adapter has handled, in order
    delivered,  \* the events that the IDE was sent, in order
    gate        \* "closed", "open"

vars == <<handled, delivered, gate>>

Init ==
    /\ handled = <<>> /\ delivered = <<>>
    /\ gate = "closed"

Handle(e) ==
    /\ handled' = Append(handled, e)
    /\ delivered' = IF gate = "open" THEN handled' ELSE delivered
    /\ UNCHANGED gate

Open ==
    /\ gate = "closed" /\ gate' = "open"
    /\ delivered' = handled
    /\ UNCHANGED handled

Next == Open \/ \E e \in Events : Handle(e)

Spec == Init /\ [][Next]_vars
===============================================================================
