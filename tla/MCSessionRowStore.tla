------------------------- MODULE MCSessionRowStore -------------------------
(***************************************************************************)
(* Who calls what; see MCSessionFileStore.                                 *)
(***************************************************************************)
EXTENDS SessionRowStore, TLC

CONSTANTS agent, memory1, route

\* The agent with everything it calls, one operation after the other.
AgentCalls == agent :> Operations
\* Everybody at once.
AllCalls == agent :> {"add", "compact", "resave"} @@ memory1 :> {"consolidate"}
         @@ route :> {"add", "clear", "delete"}
============================================================================
