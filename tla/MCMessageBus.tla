---------------------------- MODULE MCMessageBus ----------------------------
(* Small instances of MessageBus for TLC. *)
EXTENDS MessageBus, TLC

CONSTANTS s1, s2, chat1, chat2, t1, t2, t3, a1, a2, a3

Chats == [kind : {"chat"}, session : Sessions, type : AgentTypes]
Others == {[kind |-> "status", session |-> s1, type |-> chat1],
           [kind |-> "chat", session |-> None, type |-> chat1]}

\* The first session asks two types of agents.
MixedRequests ==
    {[kind |-> "chat", session |-> s1, type |-> chat1],
     [kind |-> "chat", session |-> s1, type |-> chat2],
     [kind |-> "chat", session |-> s2, type |-> chat1],
     [kind |-> "stop", session |-> s1, type |-> chat1]} \cup Others

\* Tasks and agents are interchangeable.
TaskSymmetry == Permutations(Tasks) \cup Permutations(Agents)
=============================================================================
