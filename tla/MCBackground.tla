---------------------------- MODULE MCBackground ----------------------------
(***************************************************************************)
(* Small instances of the services that run beside the agents and never    *)
(* meet each other.  A behaviour exercises one of them, part; the others   *)
(* stay in their initial states, so that the state spaces add up.          *)
(***************************************************************************)
EXTENDS Cron, WebSocketChannel, McpPool, TLC

CONSTANTS at, every, agent, k1, k2, c1, a1, a2, s1, s2, s3

VARIABLE part

JobSchedule == at :> [kind |-> "at", n |-> 2] @@ every :> [kind |-> "every", n |-> 1]
OneSession == k1 :> c1 @@ k2 :> c1

vars == <<part, cronVars, wsVars, mcpVars>>

Init == part \in {"cron", "websocket", "mcp"} /\ CronInit /\ WsInit /\ McpInit
Next ==
    /\ UNCHANGED part
    /\ \/ part = "cron" /\ CronNext /\ UNCHANGED <<wsVars, mcpVars>>
       \/ part = "websocket" /\ WsNext /\ UNCHANGED <<cronVars, mcpVars>>
       \/ part = "mcp" /\ McpNext /\ UNCHANGED <<cronVars, wsVars>>

\* CronFairness, WsFairness and McpFairness, each where its part is exercised.
Fairness ==
    /\ WF_cronVars(part = "cron" /\ LoopStep) /\ WF_cronVars(part = "cron" /\ TimePasses)
    /\ \A c \in Callers : WF_cronVars(part = "cron" /\ StoreStep(c))
    /\ \A s \in Sockets : WF_wsVars(part = "websocket" /\ Handler(s))
                        /\ WF_wsVars(part = "websocket" /\ Ends(s))
    /\ \A a \in McpAgents : WF_mcpVars(part = "mcp" /\ FetchStep(a))

Spec == Init /\ [][Next]_vars /\ Fairness

\* No client and no agent is left waiting: the handler of a client that is
\* gone ends, and an agent that asks for its tools goes on.
ServicesGoOn == WsHandlerEnds /\ McpAnswered

\* Every property of Cron is about behaviours that are orderly, and what is
\* not orderly never is again: nothing behind this line can break one.
CronOrderly == orderly
=============================================================================
