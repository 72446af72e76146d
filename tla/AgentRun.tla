----------------------------- MODULE AgentRun -----------------------------
(***************************************************************************)
(* What the message bus relies on in an agent: a run starts with a full    *)
(* step budget and no stop request, takes at most MaxSteps steps and none  *)
(* after a stop request, and leaves the agent as it found it.              *)
(***************************************************************************)
EXTENDS Naturals

CONSTANT MaxSteps

VARIABLES running, step, stop

vars == <<running, step, stop>>

Fresh == step = 0 /\ stop = FALSE

Init == ~running /\ Fresh

Begin == ~running /\ running' /\ UNCHANGED <<step, stop>>

Step ==
    /\ running /\ ~stop /\ step < MaxSteps
    /\ step' = step + 1
    /\ UNCHANGED <<running, stop>>

ForceStop == running /\ stop' = TRUE /\ UNCHANGED <<running, step>>

End == running /\ ~running' /\ Fresh'

Next == Begin \/ Step \/ ForceStop \/ End

Spec == Init /\ [][Next]_vars
============================================================================
