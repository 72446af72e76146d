----------------------------- MODULE MessageBus -----------------------------
(***************************************************************************)
(* agents/bus/queues.py: the bus between the channels and the agents.      *)
(* One asyncio event loop runs the inbound loop, the outbound loop, the    *)
(* pool cleanup loop and one worker task per active session.  A stretch of *)
(* code between two awaits that really suspend is one action.  The two     *)
(* asyncio.Locks are only held over code that never suspends, so they are  *)
(* never contended and the sections they guard are atomic.                 *)
(*                                                                         *)
(* The run of an agent (agents/core/react.py) appears here with its step   *)
(* counter, its stop flag and its reset; ReActAgent.tla models the rest.   *)
(***************************************************************************)
EXTENDS Integers, Sequences, FiniteSets

CONSTANTS Sessions,      \* session ids
          AgentTypes,    \* the other components of a pool key, folded in one
          Tasks,         \* identities of session worker tasks
          Agents,        \* identities of ReActAgent objects
          None,          \* Python's None, and the empty session id
          Requests,      \* what channels may push: [kind, session, type]
          MailboxSize,   \* SESSION_MAILBOX_MAXSIZE
          Concurrency,   \* GLOBAL_RUN_CONCURRENCY
          IdleTTL,       \* SESSION_IDLE_TTL_SEC, in ticks
          MaxSteps,      \* max_steps of an agent
          MaxMessages    \* bound: how many messages the channels push

Kinds == {"chat", "stop", "status"}

ASSUME BusAssumption ==
    /\ None \notin Sessions \cup Tasks \cup Agents
    /\ Requests \subseteq
          [kind : Kinds, session : Sessions \cup {None}, type : AgentTypes]
    /\ MailboxSize \in Nat \ {0}
    /\ Concurrency \in Nat \ {0}
    /\ IdleTTL \in Nat \ {0}
    /\ MaxSteps \in Nat
    /\ MaxMessages \in Nat
    /\ None \notin [id : 1 .. MaxMessages, kind : Kinds,
                    session : Sessions \cup {None}, type : AgentTypes]

Message == [id : 1 .. MaxMessages, kind : Kinds,
            session : Sessions \cup {None}, type : AgentTypes]
PoolKeys == Sessions \X AgentTypes
Replies == [id : 1 .. MaxMessages, what : {"stopSent", "noAgent", "status", "error"}]

VARIABLES
    inbound,   \* MessageBus.inbound
    sent,      \* how many messages the channels have pushed
    outbound,  \* MessageBus.outbound, the replies of the bus itself
    open,      \* the keys of session_mailboxes
    mailbox,   \* session_mailboxes; <<>> for a session that has none
    worker,    \* _session_workers
    age,       \* ticks since _session_last_active_at, saturating at IdleTTL
    pc,        \* where each worker task is
    serves,    \* the session_id argument of each worker task
    held,      \* the message each worker task handles
    waited,    \* ticks a worker has waited in mailbox.get, saturating
    sem,       \* FIFO of the waiters of _global_run_semaphore
    free,      \* free_agent_pool
    running,   \* running_agent_pool
    uses,      \* the agent whose run() each worker task awaits
    key,       \* the pool key each agent was created with
    step,      \* agent._current_step
    stop       \* agent._stop_requested

queueVars == <<inbound, sent, outbound>>
sessionVars == <<open, mailbox, worker, age>>
taskVars == <<pc, serves, held, waited>>
poolVars == <<free, running, uses, key, step, stop>>
vars == <<queueVars, sessionVars, taskVars, sem, poolVars>>

PCs == {"done", "waiting", "queued", "lookup", "running"}
Busy == {"queued", "lookup", "running"}
Holders == {t \in Tasks : pc[t] \in {"lookup", "running"}}
\* Mutant of PermitFree: off by one, the last permit is never given.
PermitFree_OffByOne == Cardinality(Holders) + 1 < Concurrency

PermitFree == Cardinality(Holders) < Concurrency
Elements(q) == {q[i] : i \in DOMAIN q}
Pooled == UNION {Elements(free[k]) : k \in PoolKeys}
Unused == {a \in Agents : a \notin Pooled /\ \A t \in Tasks : uses[t] # a}

Init ==
    /\ inbound = <<>> /\ sent = 0 /\ outbound = <<>>
    /\ open = {}
    /\ mailbox = [s \in Sessions |-> <<>>]
    /\ worker = [s \in Sessions |-> None]
    /\ age = [s \in Sessions |-> 0]
    /\ pc = [t \in Tasks |-> "done"]
    /\ serves = [t \in Tasks |-> None]
    /\ held = [t \in Tasks |-> None]
    /\ waited = [t \in Tasks |-> 0]
    /\ sem = <<>>
    /\ free = [k \in PoolKeys |-> <<>>]
    /\ running = [s \in Sessions |-> None]
    /\ uses = [t \in Tasks |-> None]
    /\ key = [a \in Agents |-> None]
    /\ step = [a \in Agents |-> 0]
    /\ stop = [a \in Agents |-> FALSE]

-----------------------------------------------------------------------------
\* push_inbound: a channel, the cron executor or a subagent puts a message.
PushInbound ==
    /\ sent < MaxMessages
    /\ \E r \in Requests :
          inbound' = Append(inbound, [id |-> sent + 1, kind |-> r.kind,
                                      session |-> r.session, type |-> r.type])
    /\ sent' = sent + 1
    /\ UNCHANGED <<outbound, sessionVars, taskVars, sem, poolVars>>

PushReply(m, what) == outbound' = Append(outbound, [id |-> m.id, what |-> what])

\* /status: answered by the inbound loop itself.
HandleStatus ==
    /\ inbound # <<>> /\ Head(inbound).kind = "status"
    /\ inbound' = Tail(inbound)
    /\ PushReply(Head(inbound), "status")
    /\ UNCHANGED <<sent, sessionVars, taskVars, sem, poolVars>>

\* /stop: flags the agent that runs for the session at this very moment.
HandleStop ==
    /\ inbound # <<>> /\ Head(inbound).kind = "stop"
    /\ inbound' = Tail(inbound)
    /\ LET s == Head(inbound).session
           a == IF s = None THEN None ELSE running[s]
       IN  IF a # None
           THEN /\ stop' = [stop EXCEPT ![a] = TRUE]
                /\ PushReply(Head(inbound), "stopSent")
           ELSE /\ PushReply(Head(inbound), "noAgent")
                /\ UNCHANGED stop
    /\ UNCHANGED <<sent, sessionVars, taskVars, sem,
                   free, running, uses, key, step>>

\* _dispatch_inbound raises without a session id; the loop answers "Error".
RejectInbound ==
    /\ inbound # <<>> /\ Head(inbound).kind = "chat"
    /\ Head(inbound).session = None
    /\ inbound' = Tail(inbound)
    /\ PushReply(Head(inbound), "error")
    /\ UNCHANGED <<sent, sessionVars, taskVars, sem, poolVars>>

\* The worker task recorded for s exists and is not done().
WorkerAlive(s) == worker[s] # None /\ pc[worker[s]] # "done"

\* put_nowait on a mailbox that first gives up its oldest message when full.
PutDroppingOldest(q, m) ==
    Append(IF Len(q) >= MailboxSize THEN Tail(q) ELSE q, m)

\* asyncio.create_task(self._run_session_worker(s)); nothing pops the mailbox
\* before the new task reads it, so it starts where it awaits mailbox.get().
StartWorker(s) ==
    \E t \in Tasks :
       /\ pc[t] = "done"
       /\ worker' = [worker EXCEPT ![s] = t]
       /\ pc' = [pc EXCEPT ![t] = "waiting"]
       /\ serves' = [serves EXCEPT ![t] = s]
       /\ waited' = [waited EXCEPT ![t] = 0]

\* _dispatch_inbound
Dispatch ==
    /\ inbound # <<>> /\ Head(inbound).kind = "chat"
    /\ Head(inbound).session # None
    /\ inbound' = Tail(inbound)
    /\ LET m == Head(inbound)
           s == m.session
       IN  /\ open' = open \cup {s}
           /\ age' = [age EXCEPT ![s] = 0]
           /\ mailbox' = [mailbox EXCEPT ![s] = PutDroppingOldest(@, m)]
           /\ \/ WorkerAlive(s) /\ UNCHANGED <<worker, pc, serves, waited>>
              \/ ~WorkerAlive(s) /\ StartWorker(s)
    /\ UNCHANGED <<sent, outbound, held, sem, poolVars>>

\* _run_outbound_loop: the channel's callback is called, or a warning logged.
DeliverOutbound ==
    /\ outbound # <<>>
    /\ outbound' = Tail(outbound)
    /\ UNCHANGED <<inbound, sent, sessionVars, taskVars, sem, poolVars>>

-----------------------------------------------------------------------------
\* Mutant of TakeMessage: the run is not put under the semaphore.
TakeMessage_NoSemaphore(t) ==
    /\ pc[t] = "waiting" /\ mailbox[serves[t]] # <<>>
    /\ held' = [held EXCEPT ![t] = Head(mailbox[serves[t]])]
    /\ mailbox' = [mailbox EXCEPT ![serves[t]] = Tail(@)]
    /\ waited' = [waited EXCEPT ![t] = 0]
    /\ pc' = [pc EXCEPT ![t] = "lookup"]
    /\ UNCHANGED <<queueVars, open, worker, age, serves, sem, poolVars>>

\* mailbox.get() returns; the worker enters the semaphore or queues for it.
TakeMessage(t) ==
    /\ pc[t] = "waiting" /\ mailbox[serves[t]] # <<>>
    /\ held' = [held EXCEPT ![t] = Head(mailbox[serves[t]])]
    /\ mailbox' = [mailbox EXCEPT ![serves[t]] = Tail(@)]
    /\ waited' = [waited EXCEPT ![t] = 0]
    /\ \/ /\ PermitFree /\ sem = <<>>
          /\ pc' = [pc EXCEPT ![t] = "lookup"]
          /\ UNCHANGED sem
       \/ /\ ~(PermitFree /\ sem = <<>>)
          /\ pc' = [pc EXCEPT ![t] = "queued"]
          /\ sem' = Append(sem, t)
    /\ UNCHANGED <<queueVars, open, worker, age, serves, poolVars>>

\* _global_run_semaphore lets its first waiter in.
GrantPermit ==
    /\ sem # <<>> /\ PermitFree
    /\ pc' = [pc EXCEPT ![Head(sem)] = "lookup"]
    /\ sem' = Tail(sem)
    /\ UNCHANGED <<queueVars, sessionVars, serves, held, waited, poolVars>>

\* What a retiring worker resets besides the mailbox.
Retire(t) ==
    /\ pc[t] = "waiting" /\ waited[t] = IdleTTL
    /\ worker' = [worker EXCEPT ![serves[t]] = None]
    /\ age' = [age EXCEPT ![serves[t]] = 0]
    /\ pc' = [pc EXCEPT ![t] = "done"]
    /\ serves' = [serves EXCEPT ![t] = None]
    /\ waited' = [waited EXCEPT ![t] = 0]
    /\ UNCHANGED <<queueVars, held, sem, poolVars>>

\* Mutant of RetireWorker: session_mailboxes.pop is forgotten.
RetireWorker_KeepsMailbox(t) ==
    /\ Retire(t)
    /\ age[serves[t]] >= IdleTTL
    /\ UNCHANGED <<open, mailbox>>

\* Mutant of RetireWorker: the activity time is not checked again.
RetireWorker_NoRecheck(t) ==
    /\ Retire(t)
    /\ open' = open \ {serves[t]}
    /\ mailbox' = [mailbox EXCEPT ![serves[t]] = <<>>]

\* Mutant of RetireWorker: > for >= in the comparison with the TTL.
RetireWorker_StrictTTL(t) ==
    /\ Retire(t)
    /\ age[serves[t]] > IdleTTL
    /\ open' = open \ {serves[t]}
    /\ mailbox' = [mailbox EXCEPT ![serves[t]] = <<>>]

\* wait_for timed out: mailbox, activity time and worker entry are dropped if
\* the session saw no message for the whole TTL ...
RetireWorker(t) ==
    /\ Retire(t)
    /\ age[serves[t]] >= IdleTTL
    /\ open' = open \ {serves[t]}
    /\ mailbox' = [mailbox EXCEPT ![serves[t]] = <<>>]

\* ... and the worker waits again otherwise.
RearmWorker(t) ==
    /\ pc[t] = "waiting" /\ waited[t] = IdleTTL
    /\ age[serves[t]] < IdleTTL
    /\ waited' = [waited EXCEPT ![t] = 0]
    /\ UNCHANGED <<queueVars, sessionVars, pc, serves, held, sem, poolVars>>

\* The worker leaves the semaphore and goes back to its mailbox.
BackToMailbox(t) ==
    /\ pc' = [pc EXCEPT ![t] = "waiting"]
    /\ held' = [held EXCEPT ![t] = None]

\* Mutant of LookupFails: the message is put back for another attempt.
LookupFails_Requeues(t) ==
    /\ pc[t] = "lookup"
    /\ BackToMailbox(t)
    /\ PushReply(held[t], "error")
    /\ mailbox' = [mailbox EXCEPT ![serves[t]] = Append(@, held[t])]
    /\ UNCHANGED <<inbound, sent, open, worker, age, serves, waited, sem,
                   poolVars>>

\* _handle_inbound raises before it has an agent: the session is unknown,
\* the session store fails or ReActAgent cannot be built.
LookupFails(t) ==
    /\ pc[t] = "lookup"
    /\ BackToMailbox(t)
    /\ PushReply(held[t], "error")
    /\ UNCHANGED <<inbound, sent, sessionVars, serves, waited, sem, poolVars>>

\* Mutant of BeginRun: the pooled agent is read without being popped.
BeginRun_KeepsEntry(t) ==
    /\ pc[t] = "lookup"
    /\ LET k == <<serves[t], held[t].type>>
       IN  \E a \in Agents :
             /\ \/ /\ free[k] # <<>> /\ a = Head(free[k])
                   /\ UNCHANGED <<free, key>>
                \/ /\ free[k] = <<>> /\ a \in Unused
                   /\ key' = [key EXCEPT ![a] = k]
                   /\ UNCHANGED free
             /\ step' = [step EXCEPT ![a] = 0]
             /\ stop' = [stop EXCEPT ![a] = FALSE]
             /\ running' = [running EXCEPT ![serves[t]] = a]
             /\ uses' = [uses EXCEPT ![t] = a]
    /\ pc' = [pc EXCEPT ![t] = "running"]
    /\ UNCHANGED <<queueVars, sessionVars, serves, held, waited, sem>>

\* _acquire_agent_from_pool pops and resets the longest pooled agent of the
\* key, else a new one is built; it is registered as running and run() starts.
BeginRun(t) ==
    /\ pc[t] = "lookup"
    /\ LET k == <<serves[t], held[t].type>>
       IN  \E a \in Agents :
             /\ \/ /\ free[k] # <<>> /\ a = Head(free[k])
                   /\ free' = [free EXCEPT ![k] = Tail(@)]
                   /\ UNCHANGED key
                \/ /\ free[k] = <<>> /\ a \in Unused
                   /\ key' = [key EXCEPT ![a] = k]
                   /\ UNCHANGED free
             /\ step' = [step EXCEPT ![a] = 0]
             /\ stop' = [stop EXCEPT ![a] = FALSE]
             /\ running' = [running EXCEPT ![serves[t]] = a]
             /\ uses' = [uses EXCEPT ![t] = a]
    /\ pc' = [pc EXCEPT ![t] = "running"]
    /\ UNCHANGED <<queueVars, sessionVars, serves, held, waited, sem>>

\* Mutant of AgentStep: the loop does not look at max_steps.
AgentStep_NoLimit(t) ==
    /\ pc[t] = "running" /\ ~stop[uses[t]]
    /\ step' = [step EXCEPT ![uses[t]] = @ + 1]
    /\ UNCHANGED <<queueVars, sessionVars, taskVars, sem,
                   free, running, uses, key, stop>>

\* One turn of the while loop of ReActAgent.run.
AgentStep(t) ==
    /\ pc[t] = "running"
    /\ step[uses[t]] < MaxSteps /\ ~stop[uses[t]]
    /\ step' = [step EXCEPT ![uses[t]] = @ + 1]
    /\ UNCHANGED <<queueVars, sessionVars, taskVars, sem,
                   free, running, uses, key, stop>>

\* The ways run() gives the agent back, parameterised by what is left behind.
ReleaseAgent(t, run, flag) ==
    /\ pc[t] = "running"
    /\ LET a == uses[t]
       IN  /\ free' = [free EXCEPT ![key[a]] = Append(@, a)]
           /\ step' = [step EXCEPT ![a] = 0]
           /\ stop' = [stop EXCEPT ![a] = flag]
    /\ running' = [running EXCEPT ![serves[t]] = run]
    /\ uses' = [uses EXCEPT ![t] = None]
    /\ BackToMailbox(t)
    /\ UNCHANGED outbound \/ PushReply(held[t], "error")
    /\ UNCHANGED <<inbound, sent, sessionVars, serves, waited, sem, key>>

\* Mutant of EndRun: running_agent_pool.pop is forgotten.
EndRun_StaysRegistered(t) == ReleaseAgent(t, uses[t], FALSE)

\* Mutant of EndRun: the reset leaves the stop flag as it is.
EndRun_KeepsStop(t) == ReleaseAgent(t, None, stop[uses[t]])

\* run() returns or raises; both finally clauses reset the agent, unregister
\* it and put it in the free pool under its own key.
EndRun(t) == ReleaseAgent(t, None, FALSE)

-----------------------------------------------------------------------------
\* _run_agent_pool_cleanup_loop: entries stand in the order of last_used_at,
\* so those idle for too long are a prefix of each list.
CleanPool ==
    /\ \E n \in [{k \in PoolKeys : free[k] # <<>>} -> 0 .. Cardinality(Agents)] :
          free' = [k \in PoolKeys |-> IF free[k] = <<>> THEN <<>>
                                      ELSE SubSeq(free[k], n[k] + 1, Len(free[k]))]
    /\ UNCHANGED <<queueVars, sessionVars, taskVars, sem,
                   running, uses, key, step, stop>>

\* Time passes.  A tick is a good part of an hour: a worker whose mailbox
\* holds a message is resumed long before.
Tick ==
    /\ \A t \in Tasks : pc[t] = "waiting" => mailbox[serves[t]] = <<>>
    /\ age' = [s \in Sessions |->
                 IF s \in open /\ age[s] < IdleTTL THEN age[s] + 1 ELSE age[s]]
    /\ waited' = [t \in Tasks |->
                    IF pc[t] = "waiting" /\ waited[t] < IdleTTL
                    THEN waited[t] + 1 ELSE waited[t]]
    /\ UNCHANGED <<queueVars, open, mailbox, worker, pc, serves, held,
                   sem, poolVars>>

InboundLoop == HandleStatus \/ HandleStop \/ RejectInbound \/ Dispatch

SessionWorker(t) ==
    \/ TakeMessage(t) \/ RetireWorker(t) \/ RearmWorker(t)
    \/ LookupFails(t) \/ BeginRun(t) \/ AgentStep(t) \/ EndRun(t)

Next == \/ PushInbound \/ InboundLoop \/ DeliverOutbound
        \/ GrantPermit \/ CleanPool \/ Tick
        \/ \E t \in Tasks : SessionWorker(t)

Spec == Init /\ [][Next]_vars

\* The event loop resumes every task that can run, the semaphore serves its
\* waiters in turn, time passes, and the calls an agent step awaits return.
Fairness ==
    /\ WF_vars(InboundLoop) /\ WF_vars(DeliverOutbound)
    /\ WF_vars(GrantPermit) /\ WF_vars(Tick)
    /\ \A t \in Tasks : WF_vars(SessionWorker(t))

FairSpec == Spec /\ Fairness
-----------------------------------------------------------------------------
\* Every variable has its type.
TypeOK ==
    /\ inbound \in Seq(Message) /\ sent \in 0 .. MaxMessages
    /\ outbound \in Seq(Replies)
    /\ open \subseteq Sessions
    /\ mailbox \in [Sessions -> Seq(Message)]
    /\ worker \in [Sessions -> Tasks \cup {None}]
    /\ age \in [Sessions -> 0 .. IdleTTL]
    /\ pc \in [Tasks -> PCs]
    /\ serves \in [Tasks -> Sessions \cup {None}]
    /\ held \in [Tasks -> Message \cup {None}]
    /\ waited \in [Tasks -> 0 .. IdleTTL]
    /\ sem \in Seq(Tasks)
    /\ free \in [PoolKeys -> Seq(Agents)]
    /\ running \in [Sessions -> Agents \cup {None}]
    /\ uses \in [Tasks -> Agents \cup {None}]
    /\ key \in [Agents -> PoolKeys \cup {None}]
    /\ step \in [Agents -> 0 .. MaxSteps]
    /\ stop \in [Agents -> BOOLEAN]

\* Worker tasks and mailboxes come in pairs (queues.py:35-39): a live task is
\* the one recorded for its session and the session has a mailbox, so a
\* session never has two workers; a mailbox always has a live worker, so no
\* message waits where nobody looks.
OneWorkerPerMailbox ==
    /\ \A t \in Tasks : pc[t] # "done" =>
          /\ serves[t] \in open
          /\ worker[serves[t]] = t
    /\ \A s \in open : WorkerAlive(s) /\ serves[worker[s]] = s

\* running_agent_pool tells the truth when /stop reads it: it holds an agent
\* for a session exactly while the session's worker awaits run() of that
\* agent, which was built for that session.
RunningPoolExact ==
    /\ \A t \in Tasks : pc[t] = "running" => running[serves[t]] = uses[t]
    /\ \A s \in Sessions : running[s] # None =>
          /\ s \in open
          /\ pc[worker[s]] = "running"
          /\ uses[worker[s]] = running[s]
          /\ key[running[s]][1] = s

\* An agent is in one place: a pool key owns at most one agent, which is
\* either pooled under that key or running, so two runs never share one.
OneAgentPerKey ==
    \A k \in PoolKeys :
       LET runs == {t \in Tasks : uses[t] # None /\ key[uses[t]] = k}
       IN  /\ Len(free[k]) + Cardinality(runs) <= 1
           /\ \A a \in Elements(free[k]) : key[a] = k

\* A stop request never outlives the run it was sent to: the flag is only
\* ever set on an agent that is running, so the next message of the session
\* is not cut short by an old /stop (base.py:171-181, react.py:233-234).
StopDiesWithRun ==
    \A a \in Agents : stop[a] => \E s \in Sessions : running[s] = a

\* An error reply is the last word on a message: a message that was answered
\* with an error is neither in a mailbox nor being handled (queues.py:222).
ErrorIsFinal ==
    \A r \in Elements(outbound) : r.what = "error" =>
       /\ \A s \in Sessions : \A m \in Elements(mailbox[s]) : m.id # r.id
       /\ \A t \in Tasks : held[t] # None => held[t].id # r.id

\* At most GLOBAL_RUN_CONCURRENCY messages are handled at a time, and no
\* waiter of the semaphore is forgotten: the queue holds exactly the workers
\* that wait for a permit, each once.
SemaphoreSound ==
    /\ Cardinality(Holders) <= Concurrency
    /\ Elements(sem) = {t \in Tasks : pc[t] = "queued"}
    /\ Len(sem) = Cardinality(Elements(sem))

\* A message is handled under a permit that nobody else holds, and an error
\* answers it for good (queues.py:220-233).
HandlingSound == SemaphoreSound /\ ErrorIsFinal

\* The pools tell who runs, for whom and whether he was asked to stop, so
\* that /stop and the next message of a session meet the agent they are
\* meant for (queues.py:143-157, :258-286).
AgentsAccounted == RunningPoolExact /\ OneAgentPerKey /\ StopDiesWithRun

\* The bus implements SessionSerial: per session one message at a time, in
\* order of arrival, none lost but the oldest of a full mailbox.  Retiring an
\* idle worker, which drops the mailbox, is then invisible.
Current == [s \in Sessions |-> IF worker[s] = None THEN None ELSE held[worker[s]]]
Taken == sent - Len(inbound)
Serial == INSTANCE SessionSerial WITH
    Messages <- Message, queue <- mailbox, current <- Current, taken <- Taken
ImplementsSerial == Serial!Spec

\* A message the bus has accepted does not stay for ever: it leaves mailbox
\* and worker, whatever the other sessions do with the semaphore.
InHand(i) ==
    \/ \E s \in Sessions : \E m \in Elements(mailbox[s]) : m.id = i
    \/ \E t \in Tasks : held[t] # None /\ held[t].id = i
EveryMessageLeaves == \A i \in 1 .. MaxMessages : InHand(i) ~> ~InHand(i)

\* Sessions that fall silent give back their mailbox and their worker task.
IdleSessionsReclaimed == <>[](open = {} /\ \A t \in Tasks : pc[t] = "done")
=============================================================================
