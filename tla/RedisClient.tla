---------------------------- MODULE RedisClient ----------------------------
(***************************************************************************)
(* The redis client (factory.py): RedisDistributedLock, a key with an      *)
(* expiry that is set if absent and deleted if it still has the owner's    *)
(* value, and the message queue of RedisClient, a stream with a consumer   *)
(* group.  Commands may fail before or after the server has carried them   *)
(* out, those of the queue are made up to three times; keys expire at any  *)
(* time; owners and consumers die, these with messages in their hands; a   *)
(* message that cannot be parsed raises behind the read.                   *)
(***************************************************************************)
EXTENDS Naturals, Sequences

-----------------------------------------------------------------------------
(***************************************************************************)
(* The lock.                                                               *)
(***************************************************************************)

CONSTANTS
    LockOwners,     \* lock objects, each with a value of its own
    NoOwner,        \* the key is absent
    MaxLockEvents   \* bound on failures, expiries and acquisitions

ASSUME NoOwnerIsNone == NoOwner \notin LockOwners

VARIABLES
    lockKey,      \* the value of the key
    lockTask,     \* per owner: where it is, and what it was told
    lockAcquired, \* _acquired
    lockLive,     \* history: the key is as the owner set it: it has not expired
                  \* and the owner has not dropped it to acquire it once more
    lockUsed      \* events so far

lockVars == <<lockKey, lockTask, lockAcquired, lockLive, lockUsed>>

LockTo(o, at) == lockTask' = [lockTask EXCEPT ![o] = at]
LockEvent == lockUsed < MaxLockEvents /\ lockUsed' = lockUsed + 1
\* A mutant: whatever value it has.
DeleteIfEqual_Any(o) == lockKey' = NoOwner
\* The Lua script: delete the key if it has the owner's value.
DeleteIfEqual(o) == lockKey' = IF lockKey = o THEN NoOwner ELSE lockKey
SetIfAbsent(o) ==
    /\ lockKey = NoOwner
    /\ lockKey' = o /\ lockLive' = [lockLive EXCEPT ![o] = TRUE]

LockInit ==
    /\ lockKey = NoOwner /\ lockUsed = 0
    /\ lockTask = [o \in LockOwners |-> "idle"]
    /\ lockAcquired = [o \in LockOwners |-> FALSE]
    /\ lockLive = [o \in LockOwners |-> FALSE]
-----------------------------------------------------------------------------
\* acquire and spin_acquire begin by removing a key they left behind, also if
\* that is the lock they hold; a failure of that goes unnoticed.
BeginAcquire(o) ==
    /\ lockTask[o] = "idle" /\ LockEvent
    /\ DeleteIfEqual(o) \/ UNCHANGED lockKey
    /\ \E how \in {"acquire", "spin"} : LockTo(o, how)
    /\ lockLive' = [lockLive EXCEPT ![o] = @ /\ lockKey' = o]
    /\ UNCHANGED lockAcquired

\* SET NX EX.  acquire stores the outcome; spin_acquire tries again until it
\* has the lock or its time is over.  An exception leaves _acquired as it was.
SetKey(o) ==
    /\ lockTask[o] \in {"acquire", "spin"}
    /\ \/ /\ SetIfAbsent(o)
          /\ lockAcquired' = [lockAcquired EXCEPT ![o] = TRUE]
          /\ LockTo(o, "idle") /\ UNCHANGED lockUsed
       \/ /\ lockKey # NoOwner
          /\ lockAcquired' = [lockAcquired EXCEPT ![o] = @ /\ lockTask[o] = "spin"]
          /\ LockTo(o, "idle") /\ UNCHANGED <<lockKey, lockLive, lockUsed>>
       \/ /\ LockEvent
          /\ SetIfAbsent(o) \/ UNCHANGED <<lockKey, lockLive>>
          /\ LockTo(o, "idle") /\ UNCHANGED lockAcquired

Release(o) ==
    /\ lockTask[o] = "idle" /\ lockAcquired[o]
    /\ \/ DeleteIfEqual(o) /\ UNCHANGED lockUsed
       \/ LockEvent /\ UNCHANGED lockKey
    /\ lockAcquired' = [lockAcquired EXCEPT ![o] = FALSE]
    /\ lockLive' = [lockLive EXCEPT ![o] = FALSE]
    /\ UNCHANGED lockTask

KeyExpires ==
    /\ lockKey # NoOwner /\ LockEvent
    /\ lockKey' = NoOwner /\ lockLive' = [lockLive EXCEPT ![lockKey] = FALSE]
    /\ UNCHANGED <<lockTask, lockAcquired>>

LockNext == (\E o \in LockOwners : BeginAcquire(o) \/ SetKey(o) \/ Release(o)) \/ KeyExpires
LockSpec == LockInit /\ [][LockNext]_lockVars
-----------------------------------------------------------------------------
\* An owner that was told it has the lock, and whose key has not expired nor
\* been dropped by the owner itself, has it: nobody else acquires it, and no
\* release or leftover of another frees it (factory.py:656-727).  Hence two
\* such owners never exist.
LockExclusive ==
    \A o \in LockOwners : lockAcquired[o] /\ lockLive[o] => lockKey = o

-----------------------------------------------------------------------------
(***************************************************************************)
(* The queue.                                                              *)
(***************************************************************************)

CONSTANTS
    QueueMsgs,      \* messages to be produced
    BadMsgs,        \* those of them that cannot be parsed
    Consumers,      \* consumer names
    NoMsg,
    Tries,          \* 3
    MaxQueueFaults, \* bound on failing commands and deaths
    MaxStream       \* bound on the length of the stream

ASSUME QueueAssumption == NoMsg \notin Consumers /\ Tries \in Nat /\ MaxStream \in Nat

VARIABLES
    stream,    \* the entries, in the order of their ids
    group,     \* last id delivered to the group, or NoGroup
    pending,   \* delivered and not acknowledged: id -> consumer
    producer,  \* per message the attempts of its queue_product, and its outcome
    consumer,  \* per consumer: at, attempts, the id it reads behind, the id it has
    done,      \* history: messages whose caller acknowledged them
    queueUsed  \* faults so far

queueVars == <<stream, group, pending, producer, consumer, done, queueUsed>>

Ids == 1 .. MaxStream
NewId == MaxStream + 1 \* the id ">"
NoGroup == MaxStream + 1
QueueFault == queueUsed < MaxQueueFaults /\ queueUsed' = queueUsed + 1
ReadsNothing == [at |-> "idle", tries |-> 0, after |-> NewId, holds |-> 0, scan |-> FALSE]
Added(m) == Len(stream) < MaxStream /\ stream' = Append(stream, m)
AddedOrNot(m) == Added(m) \/ UNCHANGED stream

QueueInit ==
    /\ stream = <<>> /\ group = NoGroup /\ pending = [i \in Ids |-> NoMsg]
    /\ producer = [m \in QueueMsgs |-> [tries |-> 0, told |-> "none"]]
    /\ consumer = [c \in Consumers |-> ReadsNothing]
    /\ done = {} /\ queueUsed = 0
-----------------------------------------------------------------------------
\* queue_product: xadd, again after an exception, also if it was carried out.
Produce(m) ==
    /\ producer[m].told = "none"
    /\ \/ Added(m) /\ producer' = [producer EXCEPT ![m].told = "yes"] /\ UNCHANGED queueUsed
       \/ /\ QueueFault /\ AddedOrNot(m)
          /\ producer' = [producer EXCEPT ![m] =
                 [tries |-> @.tries + 1, told |-> IF @.tries + 1 = Tries THEN "no" ELSE "none"]]
    /\ UNCHANGED <<group, pending, consumer, done>>

\* What raises is tried again, behind the id that msg_id has by then.
Again(c, at, after) ==
    consumer' = [consumer EXCEPT ![c] =
        IF @.tries + 1 = Tries THEN ReadsNothing
        ELSE [at |-> at, tries |-> @.tries + 1, after |-> after, holds |-> @.holds, scan |-> @.scan]]

\* queue_consumer, or get_unacked_iterator, which reads what is pending with
\* the consumer, one after the other, from the first.
BeginConsume(c, scan) ==
    /\ consumer[c].at = "idle"
    /\ scan => group # NoGroup
    /\ consumer' = [consumer EXCEPT ![c] = [ReadsNothing EXCEPT !.at = "group", !.scan = scan,
                                                          !.after = IF scan THEN 0 ELSE NewId]]
    /\ UNCHANGED <<stream, group, pending, producer, done, queueUsed>>

\* A mutant: at its end.
EnsureGroup_AtEnd(c) ==
    /\ consumer[c].at = "group"
    /\ group' = IF group = NoGroup THEN Len(stream) ELSE group
    /\ consumer' = [consumer EXCEPT ![c].at = "read"]
    /\ UNCHANGED <<stream, pending, producer, done, queueUsed>>
\* The group is made at the beginning of the stream if there is none.
EnsureGroup(c) ==
    /\ consumer[c].at = "group"
    /\ group' = IF group = NoGroup THEN 0 ELSE group
    /\ consumer' = [consumer EXCEPT ![c].at = "read"]
    /\ UNCHANGED <<stream, pending, producer, done, queueUsed>>

\* xreadgroup: a new entry, which becomes pending, or the next one that is
\* pending with the consumer.
Readable(c) ==
    IF consumer[c].after = NewId THEN {i \in {group + 1} : i <= Len(stream)}
    ELSE LET own == {i \in Ids : i > consumer[c].after /\ pending[i] = c}
         IN  {i \in own : \A j \in own : i <= j}
Delivered(c, i) ==
    /\ pending' = [pending EXCEPT ![i] = c]
    /\ group' = IF consumer[c].after = NewId THEN i ELSE group
\* An entry that cannot be parsed raises when its id is in msg_id already: the
\* next attempt reads what is pending behind it.
ReadEntry(c) ==
    /\ consumer[c].at = "read"
    /\ \/ \E i \in Readable(c) : stream[i] \notin BadMsgs /\ Delivered(c, i)
              /\ consumer' = [consumer EXCEPT ![c].at = "have", ![c].holds = i]
              /\ UNCHANGED queueUsed
       \/ \E i \in Readable(c) : stream[i] \in BadMsgs /\ Delivered(c, i)
              /\ Again(c, "group", i) /\ UNCHANGED queueUsed
       \/ /\ Readable(c) = {} /\ consumer' = [consumer EXCEPT ![c] = ReadsNothing]
          /\ UNCHANGED <<group, pending, queueUsed>>
    /\ UNCHANGED <<stream, producer, done>>
\* The connection fails, after the entry was delivered or before.
ReadFails(c) ==
    /\ consumer[c].at \in {"group", "read"} /\ QueueFault
    /\ Again(c, "group", consumer[c].after)
    /\ \/ consumer[c].at = "read" /\ \E i \in Readable(c) : Delivered(c, i)
       \/ UNCHANGED <<group, pending>>
    /\ UNCHANGED <<stream, producer, done>>

\* The caller acknowledges what it was given and has handled; the iterator then
\* goes on behind it.
Onward(c) ==
    consumer' = [consumer EXCEPT ![c] =
        IF @.scan THEN [at |-> "group", tries |-> 0, after |-> @.holds, holds |-> 0, scan |-> TRUE]
        ELSE ReadsNothing]
Ack(c) ==
    /\ consumer[c].at = "have"
    /\ \/ pending' = [pending EXCEPT ![consumer[c].holds] = NoMsg] /\ UNCHANGED queueUsed
       \/ QueueFault /\ UNCHANGED pending
    /\ done' = done \cup {stream[consumer[c].holds]}
    /\ Onward(c) /\ UNCHANGED <<stream, group, producer>>

\* A mutant: acknowledged before the copy is there.
BeginRequeue_AckFirst(c, i) ==
    /\ consumer[c].at = "idle" /\ pending[i] # NoMsg
    /\ consumer' = [consumer EXCEPT ![c].at = "add", ![c].holds = i]
    /\ pending' = [pending EXCEPT ![i] = NoMsg]
    /\ UNCHANGED <<stream, group, producer, done, queueUsed>>
\* requeue_msg, of any message that get_pending_msg lists: a copy is added, then
\* the old entry acknowledged; an exception between the two makes another copy.
BeginRequeue(c, i) ==
    /\ consumer[c].at = "idle" /\ pending[i] # NoMsg
    /\ consumer' = [consumer EXCEPT ![c].at = "add", ![c].holds = i]
    /\ UNCHANGED <<stream, group, pending, producer, done, queueUsed>>
RequeueAdds(c) ==
    /\ consumer[c].at = "add"
    /\ \/ /\ Added(stream[consumer[c].holds]) /\ UNCHANGED queueUsed
          /\ consumer' = [consumer EXCEPT ![c].at = "ack"]
       \/ QueueFault /\ AddedOrNot(stream[consumer[c].holds]) /\ Again(c, "add", NewId)
    /\ UNCHANGED <<group, pending, producer, done>>
RequeueAcks(c) ==
    /\ consumer[c].at = "ack"
    /\ \/ /\ pending' = [pending EXCEPT ![consumer[c].holds] = NoMsg]
          /\ consumer' = [consumer EXCEPT ![c] = ReadsNothing] /\ UNCHANGED queueUsed
       \/ QueueFault /\ Again(c, "add", NewId) /\ UNCHANGED pending
    /\ UNCHANGED <<stream, group, producer, done>>
ConsumerDies(c) ==
    /\ consumer[c].at # "idle" /\ QueueFault
    /\ consumer' = [consumer EXCEPT ![c] = ReadsNothing]
    /\ UNCHANGED <<stream, group, pending, producer, done>>

QueueNext ==
    \/ \E m \in QueueMsgs : Produce(m)
    \/ \E c \in Consumers :
        \/ \E scan \in BOOLEAN : BeginConsume(c, scan)
        \/ \E i \in Ids : BeginRequeue(c, i)
        \/ EnsureGroup(c) \/ ReadEntry(c) \/ ReadFails(c) \/ Ack(c)
        \/ RequeueAdds(c) \/ RequeueAcks(c) \/ ConsumerDies(c)
QueueSpec == QueueInit /\ [][QueueNext]_queueVars
-----------------------------------------------------------------------------
\* A message whose producer was told yes is never lost, whoever dies and whatever
\* is put back: its caller acknowledged it, or an entry with it is still to be
\* delivered or pending.
QueueKeeps ==
    \A m \in QueueMsgs :
        producer[m].told = "yes" /\ m \notin done =>
            \E i \in 1 .. Len(stream) :
                stream[i] = m /\ (group = NoGroup \/ i > group \/ pending[i] # NoMsg)
=============================================================================
