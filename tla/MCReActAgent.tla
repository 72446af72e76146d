--------------------------- MODULE MCReActAgent ---------------------------
(***************************************************************************)
(* Small instances of ReActAgent.  The batches hold two plain calls, a     *)
(* question with a call behind it, and an end by terminate.                *)
(***************************************************************************)
EXTENDS ReActAgent

MCBatches == {<<"tool", "tool">>, <<"ask_question", "tool">>, <<"terminate">>}
============================================================================
