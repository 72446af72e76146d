--------------------------- MODULE SessionSerial ---------------------------
(***************************************************************************)
(* What agents/bus/queues.py promises of one chat session (comment on      *)
(* lines 35-39): messages of a session are handled one at a time, in the   *)
(* order in which they arrived, each at most once, and none disappears     *)
(* except the oldest one of a full mailbox.  Sessions are independent.     *)
(* MessageBus.tla is shown to implement this module.                       *)
(***************************************************************************)
EXTENDS Naturals, Sequences

CONSTANTS Sessions,      \* the chat sessions
          Messages,      \* records with a field "id"
          None,          \* no message is being handled
          MailboxSize    \* SESSION_MAILBOX_MAXSIZE

VARIABLES queue,         \* queue[s]: accepted messages of s not handled yet
          current,       \* current[s]: the message of s being handled
          taken          \* id of the last message taken from the inbound queue

vars == <<queue, current, taken>>

Init == /\ queue = [s \in Sessions |-> <<>>]
        /\ current = [s \in Sessions |-> None]
        /\ taken = 0

\* A message reaches its session; a full queue gives up its oldest message.
Accept(s, m) ==
    /\ m.id > taken
    /\ taken' = m.id
    /\ queue' = [queue EXCEPT ![s] =
                    Append(IF Len(@) >= MailboxSize THEN Tail(@) ELSE @, m)]
    /\ UNCHANGED current

\* An inbound message is answered at once and joins no session's queue.
Answer ==
    /\ taken' = taken + 1
    /\ UNCHANGED <<queue, current>>

\* Handling starts with the oldest message and only when nothing is in hand.
Start(s) ==
    /\ current[s] = None
    /\ queue[s] # <<>>
    /\ current' = [current EXCEPT ![s] = Head(queue[s])]
    /\ queue' = [queue EXCEPT ![s] = Tail(@)]
    /\ UNCHANGED taken

Finish(s) ==
    /\ current[s] # None
    /\ current' = [current EXCEPT ![s] = None]
    /\ UNCHANGED <<queue, taken>>

Next == \/ \E s \in Sessions : \/ \E m \in Messages : Accept(s, m)
                               \/ Start(s)
                               \/ Finish(s)
        \/ Answer

Spec == Init /\ [][Next]_vars
=============================================================================
