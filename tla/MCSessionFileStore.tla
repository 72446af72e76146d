------------------------ MODULE MCSessionFileStore ------------------------
(***************************************************************************)
(* Who calls what.  The bus runs one agent of a session at a time, and     *)
(* every run leaves a background consolidation behind that may outlive it; *)
(* reminders and routes come at any time.                                  *)
(***************************************************************************)
EXTENDS SessionFileStore, TLC

CONSTANTS agent, memory1, reminder, route

\* An agent's runs, a consolidation that overlaps them, and reminders.
RunCalls == agent :> {"add", "compact", "resave"}
         @@ memory1 :> {"consolidate"} @@ reminder :> {"add"}
\* A route may do anything.
RouteCalls == agent :> {"add", "compact"} @@ route :> {"clear", "list", "delete"}

\* The identity of a Session object does not matter.
ObjectSymmetry == Permutations(Objects)
============================================================================
