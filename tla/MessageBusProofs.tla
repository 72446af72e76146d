-------------------------- MODULE MessageBusProofs --------------------------
(***************************************************************************)
(* TLAPS proofs about MessageBus for every value of its constants: type    *)
(* correctness, the pairing of workers and mailboxes, the refinement of    *)
(* SessionSerial, the accounts of agents, permits and answered messages.   *)
(***************************************************************************)
EXTENDS MessageBus, SequenceTheorems, FiniteSetTheorems, TLAPS

\* The ids of the inbound queue are those pushed last, in order.
InboundIds ==
    /\ Len(inbound) <= sent
    /\ \A i \in 1 .. Len(inbound) : inbound[i].id = sent - Len(inbound) + i

\* OneWorkerPerMailbox, and nothing is left of a session without a mailbox.
Workers ==
    /\ OneWorkerPerMailbox
    /\ \A s \in Sessions \ open : worker[s] = None /\ mailbox[s] = <<>>

\* A worker holds a message exactly while it handles one.
HeldWhileBusy == \A t \in Tasks : held[t] # None <=> pc[t] \in Busy

\* A worker whose wait times out with a message in its mailbox has seen the
\* session's activity time renewed: this is why retiring loses nothing.
FreshMail ==
    \A t \in Tasks :
       /\ pc[t] # "waiting" => waited[t] = 0
       /\ pc[t] = "waiting" /\ mailbox[serves[t]] # <<>> =>
             age[serves[t]] < IdleTTL \/ waited[t] < IdleTTL

\* The semaphore's waiters are distinct and wait.
Waiters ==
    /\ \A i \in 1 .. Len(sem) : pc[sem[i]] = "queued"
    /\ \A i, j \in 1 .. Len(sem) : sem[i] = sem[j] => i = j

\* A worker uses an agent exactly while it awaits its run.
Uses == \A t \in Tasks : uses[t] # None <=> pc[t] = "running"

IInv == /\ TypeOK /\ InboundIds /\ Workers /\ HeldWhileBusy
        /\ FreshMail /\ Waiters /\ Uses

-----------------------------------------------------------------------------
LEMMA InitIInv == Init => IInv
  <1> SUFFICES ASSUME Init PROVE IInv
    OBVIOUS
  <1> USE BusAssumption DEF Init
  <1>1. TypeOK
    BY DEF TypeOK, PCs
  <1>2. InboundIds /\ Waiters
    BY DEF InboundIds, Waiters
  <1>3. Workers
    BY DEF Workers, OneWorkerPerMailbox
  <1>4. HeldWhileBusy /\ FreshMail /\ Uses
    BY DEF HeldWhileBusy, FreshMail, Uses, Busy
  <1>5. QED
    BY <1>1, <1>2, <1>3, <1>4 DEF IInv

\* Every action keeps the types.
LEMMA TypeStep == IInv /\ [Next]_vars => TypeOK'
  <1> SUFFICES ASSUME IInv, [Next]_vars PROVE TypeOK'
    OBVIOUS
  <1> USE BusAssumption DEF IInv, queueVars, sessionVars, taskVars, poolVars
  <1>1. CASE PushInbound
    <2>1. \A r \in Requests : [id |-> sent + 1, kind |-> r.kind,
             session |-> r.session, type |-> r.type] \in Message
      BY <1>1 DEF PushInbound, TypeOK, Message
    <2>2. inbound' \in Seq(Message) /\ sent' \in 0 .. MaxMessages
      BY <1>1, <2>1 DEF PushInbound, TypeOK
    <2>3. QED
      BY <1>1, <2>2 DEF PushInbound, TypeOK
  <1>2. ASSUME InboundLoop PROVE TypeOK'
    <2>1. Head(inbound) \in Message /\ inbound' \in Seq(Message)
      <3>1. inbound # <<>> /\ inbound' = Tail(inbound)
        BY <1>2 DEF InboundLoop, HandleStatus, HandleStop, RejectInbound,
                    Dispatch
      <3>2. inbound \in Seq(Message)
        BY DEF TypeOK
      <3>3. QED
        BY ONLY <3>1, <3>2
    <2>2. ASSUME NEW w \in {"stopSent", "noAgent", "status", "error"},
                 PushReply(Head(inbound), w)
          PROVE outbound' \in Seq(Replies)
      BY <2>1, <2>2 DEF PushReply, Replies, Message, TypeOK
    <2>3. CASE HandleStatus
      BY <2>1, <2>2, <2>3 DEF HandleStatus, TypeOK
    <2>4. CASE HandleStop
      BY <2>1, <2>2, <2>4 DEF HandleStop, TypeOK
    <2>5. CASE RejectInbound
      BY <2>1, <2>2, <2>5 DEF RejectInbound, TypeOK
    <2>6. CASE Dispatch
      <3> DEFINE m == Head(inbound)
                 s == m.session
      <3>1. s \in Sessions
        BY <2>1, <2>6 DEF Dispatch, Message
      <3>2. PutDroppingOldest(mailbox[s], m) \in Seq(Message)
        <4>1. mailbox[s] \in Seq(Message)
          BY <3>1 DEF TypeOK
        <4>2. Len(mailbox[s]) >= MailboxSize => mailbox[s] # <<>>
          BY <4>1
        <4>3. QED
          BY <4>1, <4>2, <2>1 DEF PutDroppingOldest
      <3>3. open' \subseteq Sessions /\ mailbox' \in [Sessions -> Seq(Message)]
        BY <2>6, <3>1, <3>2 DEF Dispatch, TypeOK
      <3>4. age' \in [Sessions -> 0 .. IdleTTL]
        BY <2>6, <3>1 DEF Dispatch, TypeOK
      <3>5. /\ worker' \in [Sessions -> Tasks \cup {None}]
            /\ pc' \in [Tasks -> PCs]
            /\ serves' \in [Tasks -> Sessions \cup {None}]
            /\ waited' \in [Tasks -> 0 .. IdleTTL]
        <4>1. CASE UNCHANGED <<worker, pc, serves, waited>>
          BY <4>1 DEF TypeOK
        <4>2. CASE StartWorker(s)
          BY <3>1, <4>2 DEF StartWorker, TypeOK, PCs
        <4>3. QED
          BY <2>6, <4>1, <4>2 DEF Dispatch
      <3>6. QED
        BY <2>1, <2>6, <3>3, <3>4, <3>5 DEF Dispatch, TypeOK
    <2>7. QED
      BY <1>2, <2>3, <2>4, <2>5, <2>6 DEF InboundLoop
  <1>3. CASE DeliverOutbound
    BY <1>3 DEF DeliverOutbound, TypeOK
  <1>4. CASE GrantPermit
    BY <1>4 DEF GrantPermit, TypeOK, PCs
  <1>5. CASE CleanPool
    <2> DEFINE pooled == {k \in PoolKeys : free[k] # <<>>}
    <2>1. PICK n \in [pooled -> 0 .. Cardinality(Agents)] :
            free' = [k \in PoolKeys |-> IF free[k] = <<>> THEN <<>>
                                        ELSE SubSeq(free[k], n[k] + 1, Len(free[k]))]
      BY <1>5 DEF CleanPool
    <2>2. ASSUME NEW k \in PoolKeys
          PROVE free'[k] \in Seq(Agents)
      <3>1. free[k] \in Seq(Agents)
        BY DEF TypeOK
      <3>2. CASE free[k] = <<>>
        BY <2>1, <3>2, EmptySeq
      <3>3. CASE free[k] # <<>>
        <4>1. free'[k] = SubSeq(free[k], n[k] + 1, Len(free[k])) /\ n[k] \in 0 .. Cardinality(Agents)
          BY <2>1, <3>3
        <4>2. n[k] + 1 \in Int /\ n[k] + 1 >= 1 /\ Len(free[k]) \in Nat
          BY <4>1, <3>1, LenProperties
        <4>3. \A i \in n[k] + 1 .. Len(free[k]) : free[k][i] \in Agents
          BY <3>1, <4>2, ElementOfSeq
        <4>4. QED
          BY <4>1, <4>2, <4>3, SubSeqProperties
      <3>4. QED
        BY <3>2, <3>3
    <2>3. free' \in [PoolKeys -> Seq(Agents)]
      BY <2>1, <2>2
    <2>4. QED
      BY <1>5, <2>3 DEF CleanPool, TypeOK
  <1>6. CASE Tick
    BY <1>6 DEF Tick, TypeOK
  <1>7. ASSUME NEW t \in Tasks, SessionWorker(t) PROVE TypeOK'
    <2>1. pc[t] # "done" => serves[t] \in Sessions
      BY DEF Workers, OneWorkerPerMailbox, TypeOK
    <2>2. ASSUME pc[t] \in Busy, PushReply(held[t], "error")
          PROVE outbound' \in Seq(Replies)
      BY <2>2 DEF PushReply, Replies, Message, TypeOK, HeldWhileBusy
    <2>3. CASE TakeMessage(t)
      <3>1. serves[t] \in Sessions /\ mailbox[serves[t]] # <<>>
        BY <2>1, <2>3 DEF TakeMessage
      <3>2. mailbox[serves[t]] \in Seq(Message)
        BY <3>1 DEF TypeOK
      <3>3. /\ Head(mailbox[serves[t]]) \in Message
            /\ Tail(mailbox[serves[t]]) \in Seq(Message)
        BY ONLY <3>1, <3>2
      <3>4. /\ mailbox' \in [Sessions -> Seq(Message)]
            /\ held' \in [Tasks -> Message \cup {None}]
        BY <2>3, <3>1, <3>3 DEF TakeMessage, TypeOK
      <3>5. waited' \in [Tasks -> 0 .. IdleTTL]
        BY <2>3 DEF TakeMessage, TypeOK
      <3>8. pc' \in [Tasks -> PCs]
        <4>1. \/ pc' = [pc EXCEPT ![t] = "lookup"]
              \/ pc' = [pc EXCEPT ![t] = "queued"]
          BY <2>3 DEF TakeMessage
        <4>2. QED
          BY <4>1 DEF TypeOK, PCs
      <3>6. sem' \in Seq(Tasks)
        <4>1. sem' = sem \/ sem' = Append(sem, t)
          BY <2>3 DEF TakeMessage
        <4>2. sem \in Seq(Tasks)
          BY DEF TypeOK
        <4>3. QED
          BY ONLY <4>1, <4>2
      <3>7. QED
        BY <2>3, <3>4, <3>5, <3>6, <3>8 DEF TakeMessage, TypeOK
    <2>4. CASE RetireWorker(t)
      BY <2>1, <2>4 DEF RetireWorker, Retire, TypeOK, PCs
    <2>5. CASE RearmWorker(t)
      BY <2>5 DEF RearmWorker, TypeOK
    <2>6. CASE LookupFails(t)
      BY <2>2, <2>6 DEF LookupFails, BackToMailbox, TypeOK, PCs, Busy
    <2>7. CASE BeginRun(t)
      <3> DEFINE k == <<serves[t], held[t].type>>
      <3>1. k \in PoolKeys
        BY <2>1, <2>7 DEF BeginRun, HeldWhileBusy, Busy, TypeOK, Message, PoolKeys
      <3>2. PICK a \in Agents :
              /\ \/ /\ free[k] # <<>> /\ a = Head(free[k])
                    /\ free' = [free EXCEPT ![k] = Tail(@)]
                    /\ UNCHANGED key
                 \/ /\ free[k] = <<>> /\ a \in Unused
                    /\ key' = [key EXCEPT ![a] = k]
                    /\ UNCHANGED free
              /\ step' = [step EXCEPT ![a] = 0]
              /\ stop' = [stop EXCEPT ![a] = FALSE]
              /\ running' = [running EXCEPT ![serves[t]] = a]
              /\ uses' = [uses EXCEPT ![t] = a]
        BY <2>7 DEF BeginRun
      <3>3. free' \in [PoolKeys -> Seq(Agents)]
        <4>1. free \in [PoolKeys -> Seq(Agents)]
          BY DEF TypeOK
        <4>2. free[k] # <<>> => Tail(free[k]) \in Seq(Agents)
          BY ONLY <3>1, <4>1
        <4>3. QED
          BY ONLY <3>1, <3>2, <4>1, <4>2
      <3>4. key' \in [Agents -> PoolKeys \cup {None}]
        BY <3>1, <3>2 DEF TypeOK
      <3>5. step' \in [Agents -> 0 .. MaxSteps]
        BY <3>2 DEF TypeOK
      <3>9. /\ running' \in [Sessions -> Agents \cup {None}]
            /\ uses' \in [Tasks -> Agents \cup {None}]
        BY <3>2 DEF TypeOK
      <3>8. stop' \in [Agents -> BOOLEAN]
        BY <3>2 DEF TypeOK
      <3>6. pc' \in [Tasks -> PCs]
        BY <2>7 DEF BeginRun, TypeOK, PCs
      <3>7. QED
        BY <2>7, <3>3, <3>4, <3>5, <3>6, <3>8, <3>9 DEF BeginRun, TypeOK
    <2>8. CASE AgentStep(t)
      <3>1. /\ step' = [step EXCEPT ![uses[t]] = @ + 1]
            /\ step[uses[t]] < MaxSteps
        BY <2>8 DEF AgentStep
      <3>2. step \in [Agents -> 0 .. MaxSteps] /\ uses[t] \in Agents
        BY <2>8 DEF AgentStep, Uses, TypeOK
      <3>3. step' \in [Agents -> 0 .. MaxSteps]
        BY <3>1, <3>2
      <3>4. UNCHANGED <<queueVars, sessionVars, taskVars, sem,
                        free, running, uses, key, stop>>
        BY <2>8 DEF AgentStep
      <3>5. QED
        BY <3>3, <3>4 DEF TypeOK
    <2>9. CASE EndRun(t)
      <3>1. outbound' \in Seq(Replies)
        BY <2>2, <2>9 DEF EndRun, ReleaseAgent, Busy, TypeOK
      <3>2. free' \in [PoolKeys -> Seq(Agents)]
        <4>1. uses[t] \in Agents
          BY <2>9 DEF EndRun, ReleaseAgent, Uses, TypeOK
        <4>2. free \in [PoolKeys -> Seq(Agents)]
          BY DEF TypeOK
        <4>3. free' = [free EXCEPT ![key[uses[t]]] = Append(@, uses[t])]
          BY <2>9 DEF EndRun, ReleaseAgent
        <4>4. \A k \in PoolKeys : Append(free[k], uses[t]) \in Seq(Agents)
          BY ONLY <4>1, <4>2
        <4>5. QED
          BY ONLY <4>2, <4>3, <4>4
      <3>3. stop' \in [Agents -> BOOLEAN]
        BY <2>9 DEF EndRun, ReleaseAgent, TypeOK
      <3>4. step' \in [Agents -> 0 .. MaxSteps]
        <4>1. step' = [step EXCEPT ![uses[t]] = 0]
          BY <2>9 DEF EndRun, ReleaseAgent
        <4>2. step \in [Agents -> 0 .. MaxSteps] /\ 0 \in 0 .. MaxSteps
          BY DEF TypeOK
        <4>3. QED
          BY ONLY <4>1, <4>2
      <3>5. /\ running' \in [Sessions -> Agents \cup {None}]
            /\ uses' \in [Tasks -> Agents \cup {None}]
        BY <2>9 DEF EndRun, ReleaseAgent, TypeOK
      <3>6. /\ pc' \in [Tasks -> PCs]
            /\ held' \in [Tasks -> Message \cup {None}]
        BY <2>9 DEF EndRun, ReleaseAgent, BackToMailbox, TypeOK, PCs
      <3>7. QED
        <4>1. UNCHANGED <<inbound, sent, sessionVars, serves, waited, sem, key>>
          BY <2>9 DEF EndRun, ReleaseAgent
        <4>2. QED
          BY <4>1, <3>1, <3>2, <3>3, <3>4, <3>5, <3>6 DEF TypeOK
    <2>10. QED
      BY <1>7, <2>3, <2>4, <2>5, <2>6, <2>7, <2>8, <2>9 DEF SessionWorker
  <1>8. CASE UNCHANGED vars
    BY <1>8 DEF vars, TypeOK
  <1>9. QED
    BY <1>1, <1>2, <1>3, <1>4, <1>5, <1>6, <1>7, <1>8 DEF Next

\* Messages keep the ids they were pushed with, in the order of the queue.
LEMMA InboundIdsStep == IInv /\ [Next]_vars => InboundIds'
  <1> SUFFICES ASSUME IInv, [Next]_vars PROVE InboundIds'
    OBVIOUS
  <1> USE BusAssumption DEF queueVars, sessionVars, taskVars, poolVars
  <1>0. /\ inbound \in Seq(Message) /\ sent \in Nat
        /\ Len(inbound) <= sent
        /\ \A i \in 1 .. Len(inbound) : inbound[i].id = sent - Len(inbound) + i
    BY DEF IInv, TypeOK, InboundIds
  <1>1. CASE PushInbound
    <2>1. PICK r \in Requests :
            inbound' = Append(inbound, [id |-> sent + 1, kind |-> r.kind,
                                        session |-> r.session, type |-> r.type])
      BY <1>1 DEF PushInbound
    <2> DEFINE m == [id |-> sent + 1, kind |-> r.kind,
                     session |-> r.session, type |-> r.type]
    <2>2. m \in Message /\ m.id = sent + 1
      BY <1>0, <1>1 DEF PushInbound, Message
    <2> HIDE DEF m
    <2>3. /\ Len(inbound') = Len(inbound) + 1
          /\ \A i \in 1 .. Len(inbound) : inbound'[i] = inbound[i]
          /\ inbound'[Len(inbound) + 1] = m
      BY <1>0, <2>1, <2>2, AppendProperties DEF m
    <2>4. sent' = sent + 1
      BY <1>1 DEF PushInbound
    <2>5. Len(inbound) \in Nat
      BY <1>0
    <2>6. Len(inbound') <= sent'
      BY <1>0, <2>3, <2>4, <2>5
    <2>7. ASSUME NEW i \in 1 .. Len(inbound')
          PROVE inbound'[i].id = sent' - Len(inbound') + i
      <3>1. CASE i \in 1 .. Len(inbound)
        <4>1. inbound'[i].id = inbound[i].id
          BY <2>3, <3>1
        <4>2. inbound[i].id = sent - Len(inbound) + i
          BY <1>0, <3>1
        <4>3. sent' - Len(inbound') = sent - Len(inbound) /\ i \in Nat
          BY <1>0, <2>3, <2>4, <2>5
        <4>4. QED
          BY <4>1, <4>2, <4>3
      <3>2. CASE i = Len(inbound) + 1
        BY <1>0, <2>2, <2>3, <2>4, <2>5, <3>2
      <3>3. QED
        BY <2>3, <2>5, <3>1, <3>2
    <2>8. QED
      BY <2>6, <2>7 DEF InboundIds
  <1>2. CASE InboundLoop
    <2>1. inbound # <<>> /\ inbound' = Tail(inbound) /\ sent' = sent
      BY <1>2 DEF InboundLoop, HandleStatus, HandleStop, RejectInbound, Dispatch
    <2>2. /\ Len(inbound') = Len(inbound) - 1
          /\ \A i \in 1 .. Len(inbound') : inbound'[i] = inbound[i + 1]
      BY <1>0, <2>1, HeadTailProperties
    <2>3. Len(inbound) \in Nat \ {0}
      BY <1>0, <2>1
    <2>4. ASSUME NEW i \in 1 .. Len(inbound')
          PROVE inbound'[i].id = sent' - Len(inbound') + i
      <3>1. i + 1 \in 1 .. Len(inbound)
        BY <2>2, <2>3
      <3>2. QED
        BY <1>0, <2>1, <2>2, <2>3, <3>1
    <2>5. QED
      BY <1>0, <2>1, <2>2, <2>3, <2>4 DEF InboundIds
  <1>3. CASE UNCHANGED <<inbound, sent>>
    BY <1>0, <1>3 DEF InboundIds
  <1>4. QED
    BY <1>1, <1>2, <1>3
       DEF Next, vars, DeliverOutbound, GrantPermit, CleanPool, Tick,
           SessionWorker, TakeMessage, RetireWorker, Retire, RearmWorker,
           LookupFails, BeginRun, AgentStep, EndRun, ReleaseAgent

\* The actions that touch neither workers nor mailboxes, as one step.
Elsewhere == UNCHANGED <<sessionVars, taskVars, sem, uses>>

\* How the steps of the bus look to workers, mailboxes and the semaphore.
LEMMA StepKinds ==
  ASSUME [Next]_vars
  PROVE  \/ Elsewhere
         \/ Dispatch \/ GrantPermit \/ Tick
         \/ \E t \in Tasks : \/ TakeMessage(t) \/ RetireWorker(t)
                             \/ RearmWorker(t) \/ LookupFails(t)
                             \/ BeginRun(t) \/ EndRun(t)
  <1> USE DEF queueVars, sessionVars, taskVars, poolVars, Elsewhere
  <1>1. CASE UNCHANGED vars
    BY <1>1 DEF vars
  <1>2. CASE PushInbound \/ DeliverOutbound \/ CleanPool
    BY <1>2 DEF PushInbound, DeliverOutbound, CleanPool
  <1>3. CASE InboundLoop
    BY <1>3 DEF InboundLoop, HandleStatus, HandleStop, RejectInbound
  <1>4. ASSUME NEW t \in Tasks, AgentStep(t) PROVE Elsewhere
    BY <1>4 DEF AgentStep
  <1>5. QED
    BY <1>1, <1>2, <1>3, <1>4 DEF Next, SessionWorker

\* Every action keeps workers, held messages and agents in use paired.
LEMMA WorkersStep ==
  IInv /\ [Next]_vars => Workers' /\ HeldWhileBusy' /\ Uses'
  <1> DEFINE Goal == Workers' /\ HeldWhileBusy' /\ Uses'
  <1> SUFFICES ASSUME IInv, [Next]_vars PROVE Goal
    OBVIOUS
  <1> USE BusAssumption DEF queueVars, sessionVars, taskVars, poolVars
  <1>0. /\ open \subseteq Sessions
        /\ mailbox \in [Sessions -> Seq(Message)]
        /\ worker \in [Sessions -> Tasks \cup {None}]
        /\ pc \in [Tasks -> PCs]
        /\ serves \in [Tasks -> Sessions \cup {None}]
        /\ held \in [Tasks -> Message \cup {None}]
        /\ uses \in [Tasks -> Agents \cup {None}]
        /\ sem \in Seq(Tasks)
        /\ inbound \in Seq(Message)
    BY DEF IInv, TypeOK
  <1>00. Workers /\ HeldWhileBusy /\ Uses /\ Waiters
    BY DEF IInv
  <1> USE DEF Workers, OneWorkerPerMailbox, WorkerAlive, HeldWhileBusy, Busy,
              Uses, PCs
  <1>1. CASE Elsewhere
    BY <1>1, <1>00 DEF Elsewhere
  <1>2. CASE Dispatch
    <2> DEFINE m == Head(inbound)
               s == m.session
    <2>1. s \in Sessions
      <3>1. inbound # <<>> /\ s # None
        BY <1>2 DEF Dispatch
      <3>2. m \in Message
        BY <1>0, <3>1
      <3>3. QED
        BY <3>1, <3>2 DEF Message
    <2>2. open' = open \cup {s} /\ UNCHANGED <<held, uses>>
      BY <1>2 DEF Dispatch
    <2>3. \A x \in Sessions : x # s => mailbox'[x] = mailbox[x]
      BY <1>0, <1>2, <2>1 DEF Dispatch
    <2>4. CASE WorkerAlive(s) /\ UNCHANGED <<worker, pc, serves, waited>>
      BY <1>00, <2>1, <2>2, <2>3, <2>4
    <2>5. CASE ~WorkerAlive(s) /\ StartWorker(s)
      <3>1. PICK t \in Tasks :
              /\ pc[t] = "done"
              /\ worker' = [worker EXCEPT ![s] = t]
              /\ pc' = [pc EXCEPT ![t] = "waiting"]
              /\ serves' = [serves EXCEPT ![t] = s]
        BY <2>5 DEF StartWorker
      <3>2. s \notin open
        BY <1>00, <2>5
      <3>3. \A u \in Tasks : pc[u] # "done" => serves[u] # s
        BY <1>00, <3>2
      <3>4. OneWorkerPerMailbox'
        BY <1>0, <1>00, <2>1, <2>2, <3>1, <3>2, <3>3
      <3>5. \A x \in Sessions \ open' : worker'[x] = None /\ mailbox'[x] = <<>>
        BY <1>0, <1>00, <2>1, <2>2, <2>3, <3>1
      <3>6. HeldWhileBusy' /\ Uses'
        BY <1>0, <1>00, <2>2, <3>1
      <3>7. QED
        BY <3>4, <3>5, <3>6
    <2>6. QED
      BY <1>2, <2>4, <2>5 DEF Dispatch
  <1>3. CASE GrantPermit
    <2>1. sem # <<>> /\ pc' = [pc EXCEPT ![Head(sem)] = "lookup"]
      BY <1>3 DEF GrantPermit
    <2>2. Head(sem) \in Tasks /\ pc[Head(sem)] = "queued"
      BY <1>0, <1>00, <2>1 DEF Waiters
    <2>3. UNCHANGED <<open, mailbox, worker, serves, held, uses>>
      BY <1>3 DEF GrantPermit
    <2>4. QED
      BY <1>0, <1>00, <2>1, <2>2, <2>3
  <1>4. CASE Tick
    BY <1>4, <1>00 DEF Tick
  <1>5. ASSUME NEW t \in Tasks, TakeMessage(t) PROVE Goal
    <2>1. pc[t] = "waiting" /\ serves[t] \in open
      BY <1>5, <1>00 DEF TakeMessage
    <2>2. PICK p \in {"lookup", "queued"} : pc' = [pc EXCEPT ![t] = p]
      BY <1>5 DEF TakeMessage
    <2>3. /\ held' = [held EXCEPT ![t] = Head(mailbox[serves[t]])]
          /\ mailbox' = [mailbox EXCEPT ![serves[t]] = Tail(@)]
          /\ mailbox[serves[t]] # <<>>
          /\ UNCHANGED <<open, worker, serves, uses>>
      BY <1>5 DEF TakeMessage
    <2>4. mailbox[serves[t]] \in Seq(Message)
      BY <1>0, <2>1
    <2>5. Head(mailbox[serves[t]]) \in Message
      BY ONLY <2>3, <2>4
    <2>6. Head(mailbox[serves[t]]) # None
      BY <2>5 DEF Message
    <2>7. Workers'
      BY <1>0, <1>00, <2>1, <2>2, <2>3
    <2>8. HeldWhileBusy' /\ Uses'
      BY <1>0, <1>00, <2>1, <2>2, <2>3, <2>6
    <2>9. QED
      BY <2>7, <2>8
  <1>6. ASSUME NEW t \in Tasks, RetireWorker(t) PROVE Goal
    <2>1. /\ pc[t] = "waiting"
          /\ worker' = [worker EXCEPT ![serves[t]] = None]
          /\ pc' = [pc EXCEPT ![t] = "done"]
          /\ serves' = [serves EXCEPT ![t] = None]
          /\ open' = open \ {serves[t]}
          /\ mailbox' = [mailbox EXCEPT ![serves[t]] = <<>>]
          /\ UNCHANGED <<held, uses>>
      BY <1>6 DEF RetireWorker, Retire
    <2>2. /\ serves[t] \in open /\ worker[serves[t]] = t
          /\ \A u \in Tasks : pc[u] # "done" /\ u # t => serves[u] # serves[t]
      BY <1>00, <2>1
    <2>3. Workers'
      BY <1>0, <1>00, <2>1, <2>2
    <2>4. HeldWhileBusy' /\ Uses'
      <3>1. HeldWhileBusy /\ Uses /\ pc \in [Tasks -> PCs]
        BY <1>0, <1>00
      <3>2. QED
        BY ONLY <2>1, <3>1 DEF HeldWhileBusy, Uses, Busy
    <2>5. QED
      BY <2>3, <2>4
  <1>7. ASSUME NEW t \in Tasks, RearmWorker(t) PROVE Goal
    BY <1>7, <1>00 DEF RearmWorker
  <1>8. ASSUME NEW t \in Tasks, LookupFails(t) PROVE Goal
    BY <1>8, <1>0, <1>00 DEF LookupFails, BackToMailbox
  <1>9. ASSUME NEW t \in Tasks, BeginRun(t) PROVE Goal
    <2>1. PICK a \in Agents : uses' = [uses EXCEPT ![t] = a]
      BY <1>9 DEF BeginRun
    <2>2. /\ pc[t] = "lookup" /\ pc' = [pc EXCEPT ![t] = "running"]
          /\ UNCHANGED <<open, mailbox, worker, serves, held>>
      BY <1>9 DEF BeginRun
    <2>3. QED
      BY <1>0, <1>00, <2>1, <2>2
  <1>10. ASSUME NEW t \in Tasks, EndRun(t) PROVE Goal
    BY <1>10, <1>0, <1>00 DEF EndRun, ReleaseAgent, BackToMailbox
  <1>11. QED
    BY <1>1, <1>2, <1>3, <1>4, <1>5, <1>6, <1>7, <1>8, <1>9, <1>10, StepKinds

\* A waiting worker with mail is fresh: a message is dispatched with a new
\* activity time and no tick passes while it is about to be taken.
LEMMA FreshMailStep == IInv /\ [Next]_vars => FreshMail'
  <1> SUFFICES ASSUME IInv, [Next]_vars, NEW u \in Tasks
               PROVE  /\ pc'[u] # "waiting" => waited'[u] = 0
                      /\ pc'[u] = "waiting" /\ mailbox'[serves'[u]] # <<>> =>
                           age'[serves'[u]] < IdleTTL \/ waited'[u] < IdleTTL
    BY DEF FreshMail
  <1> DEFINE Goal == /\ pc'[u] # "waiting" => waited'[u] = 0
                     /\ pc'[u] = "waiting" /\ mailbox'[serves'[u]] # <<>> =>
                          age'[serves'[u]] < IdleTTL \/ waited'[u] < IdleTTL
  <1> USE DEF queueVars, sessionVars, taskVars, poolVars
  <1>0. /\ open \subseteq Sessions
        /\ mailbox \in [Sessions -> Seq(Message)]
        /\ age \in [Sessions -> 0 .. IdleTTL]
        /\ pc \in [Tasks -> PCs]
        /\ serves \in [Tasks -> Sessions \cup {None}]
        /\ waited \in [Tasks -> 0 .. IdleTTL]
        /\ sem \in Seq(Tasks)
        /\ IdleTTL \in Nat \ {0}
    BY BusAssumption DEF IInv, TypeOK
  <1>00. /\ FreshMail /\ Waiters
         /\ \A t \in Tasks : pc[t] # "done" =>
               serves[t] \in open /\ worker[serves[t]] = t
    BY DEF IInv, Workers, OneWorkerPerMailbox
  <1>000. \A t \in Tasks : /\ t # u /\ pc[t] # "done" /\ pc[u] # "done"
                           => serves[u] # serves[t]
    BY <1>00
  <1> USE DEF FreshMail
  <1>1. CASE Elsewhere
    BY <1>1, <1>00 DEF Elsewhere
  <1>2. CASE Dispatch
    <2> DEFINE s == Head(inbound).session
    <2>1. /\ age' = [age EXCEPT ![s] = 0]
          /\ \A x \in Sessions : x # s => mailbox'[x] = mailbox[x]
      BY <1>0, <1>2 DEF Dispatch
    <2>2. CASE UNCHANGED <<worker, pc, serves, waited>>
      BY <1>0, <1>00, <2>1, <2>2
    <2>3. CASE StartWorker(s)
      <3>1. PICK t \in Tasks : /\ pc[t] = "done"
                               /\ pc' = [pc EXCEPT ![t] = "waiting"]
                               /\ serves' = [serves EXCEPT ![t] = s]
                               /\ waited' = [waited EXCEPT ![t] = 0]
        BY <2>3 DEF StartWorker
      <3>2. QED
        BY <1>0, <1>00, <2>1, <3>1
    <2>4. QED
      BY <1>2, <2>2, <2>3 DEF Dispatch
  <1>3. CASE GrantPermit
    <2>1. /\ sem # <<>> /\ pc' = [pc EXCEPT ![Head(sem)] = "lookup"]
          /\ UNCHANGED <<mailbox, serves, age, waited>>
      BY <1>3 DEF GrantPermit
    <2>2. Head(sem) \in Tasks /\ pc[Head(sem)] = "queued"
      BY <1>0, <1>00, <2>1 DEF Waiters
    <2>3. QED
      BY <1>0, <1>00, <2>1, <2>2
  <1>4. CASE Tick
    BY <1>0, <1>00, <1>4 DEF Tick
  <1>5. ASSUME NEW t \in Tasks, TakeMessage(t) PROVE Goal
    <2>1. PICK p \in {"lookup", "queued"} : pc' = [pc EXCEPT ![t] = p]
      BY <1>5 DEF TakeMessage
    <2>2. /\ pc[t] = "waiting"
          /\ mailbox' = [mailbox EXCEPT ![serves[t]] = Tail(@)]
          /\ waited' = [waited EXCEPT ![t] = 0]
          /\ UNCHANGED <<serves, age>>
      BY <1>5 DEF TakeMessage
    <2>3. QED
      BY <1>0, <1>00, <1>000, <2>1, <2>2
  <1>6. ASSUME NEW t \in Tasks, RetireWorker(t) PROVE Goal
    BY <1>0, <1>00, <1>000, <1>6 DEF RetireWorker, Retire
  <1>7. ASSUME NEW t \in Tasks, RearmWorker(t) PROVE Goal
    BY <1>0, <1>00, <1>7 DEF RearmWorker
  <1>8. ASSUME NEW t \in Tasks, LookupFails(t) PROVE Goal
    BY <1>0, <1>00, <1>8 DEF LookupFails, BackToMailbox
  <1>9. ASSUME NEW t \in Tasks, BeginRun(t) PROVE Goal
    BY <1>0, <1>00, <1>9 DEF BeginRun
  <1>10. ASSUME NEW t \in Tasks, EndRun(t) PROVE Goal
    BY <1>0, <1>00, <1>10 DEF EndRun, ReleaseAgent, BackToMailbox
  <1>11. QED
    BY <1>1, <1>2, <1>3, <1>4, <1>5, <1>6, <1>7, <1>8, <1>9, <1>10, StepKinds

\* A worker enters the semaphore's queue once and leaves it when it is let in.
LEMMA WaitersStep == IInv /\ [Next]_vars => Waiters'
  <1> SUFFICES ASSUME IInv, [Next]_vars PROVE Waiters'
    OBVIOUS
  <1> USE DEF queueVars, sessionVars, taskVars, poolVars
  <1>0. /\ pc \in [Tasks -> PCs] /\ sem \in Seq(Tasks) /\ Len(sem) \in Nat
        /\ \A i \in 1 .. Len(sem) : sem[i] \in Tasks
    BY DEF IInv, TypeOK
  <1>00. /\ \A i \in 1 .. Len(sem) : pc[sem[i]] = "queued"
         /\ \A i, j \in 1 .. Len(sem) : sem[i] = sem[j] => i = j
    BY DEF IInv, Waiters
  <1>1. ASSUME NEW t \in Tasks, NEW p \in PCs, pc[t] # "queued",
               pc' = [pc EXCEPT ![t] = p], sem' = sem
        PROVE  Waiters'
    BY <1>0, <1>00, <1>1 DEF Waiters
  <1>2. CASE Elsewhere \/ Tick
    BY <1>2, <1>00 DEF Elsewhere, Tick, Waiters
  <1>3. CASE Dispatch
    <2>1. CASE UNCHANGED pc
      BY <1>3, <2>1, <1>00 DEF Dispatch, Waiters
    <2>2. CASE StartWorker(Head(inbound).session)
      BY <1>3, <2>2, <1>1 DEF Dispatch, StartWorker, PCs
    <2>3. QED
      BY <1>3, <2>1, <2>2 DEF Dispatch
  <1>4. CASE GrantPermit
    <2>1. /\ sem # <<>> /\ sem' = Tail(sem)
          /\ pc' = [pc EXCEPT ![Head(sem)] = "lookup"]
      BY <1>4 DEF GrantPermit
    <2>2. /\ Head(sem) = sem[1] /\ Len(sem') = Len(sem) - 1
          /\ \A i \in 1 .. Len(sem') : sem'[i] = sem[i + 1]
      BY <1>0, <2>1, HeadTailProperties
    <2>3. \A i \in 1 .. Len(sem') : i + 1 \in 1 .. Len(sem) /\ i + 1 # 1
      BY <1>0, <2>2
    <2>4. Len(sem) >= 1
      BY <1>0, <2>1
    <2>5. \A i \in 1 .. Len(sem') : sem'[i] # Head(sem) /\ sem'[i] \in Tasks
      BY <1>0, <1>00, <2>2, <2>3, <2>4
    <2>6. QED
      BY <1>0, <1>00, <2>1, <2>2, <2>3, <2>5 DEF Waiters
  <1>5. ASSUME NEW t \in Tasks, TakeMessage(t) PROVE Waiters'
    <2>0. pc[t] = "waiting"
      BY <1>5 DEF TakeMessage
    <2>1. CASE pc' = [pc EXCEPT ![t] = "lookup"] /\ sem' = sem
      BY <1>1, <2>0, <2>1 DEF PCs
    <2>2. CASE pc' = [pc EXCEPT ![t] = "queued"] /\ sem' = Append(sem, t)
      <3>1. /\ Len(sem') = Len(sem) + 1 /\ sem'[Len(sem) + 1] = t
            /\ \A i \in 1 .. Len(sem) : sem'[i] = sem[i]
        BY <1>0, <2>2, AppendProperties
      <3>2. \A i \in 1 .. Len(sem) : sem[i] # t
        BY <1>00, <2>0
      <3>3. \A i \in 1 .. Len(sem') : i \in 1 .. Len(sem) \/ i = Len(sem) + 1
        BY <1>0, <3>1
      <3>4. \A i \in 1 .. Len(sem') : pc'[sem'[i]] = "queued"
        BY <1>0, <1>00, <2>2, <3>1, <3>3
      <3>5. \A i, j \in 1 .. Len(sem') : sem'[i] = sem'[j] => i = j
        BY <1>00, <3>1, <3>2, <3>3
      <3>6. QED
        BY <3>4, <3>5 DEF Waiters
    <2>3. QED
      BY <1>5, <2>1, <2>2 DEF TakeMessage
  <1>6. ASSUME NEW t \in Tasks,
               RetireWorker(t) \/ LookupFails(t) \/ BeginRun(t) \/ EndRun(t)
        PROVE  Waiters'
    BY <1>1, <1>6 DEF RetireWorker, Retire, LookupFails, BeginRun, EndRun,
                      ReleaseAgent, BackToMailbox, PCs
  <1>7. ASSUME NEW t \in Tasks, RearmWorker(t) PROVE Waiters'
    BY <1>7, <1>00 DEF RearmWorker, Waiters
  <1>8. QED
    BY <1>2, <1>3, <1>4, <1>5, <1>6, <1>7, StepKinds

-----------------------------------------------------------------------------
\* The inductive invariant holds of every behaviour of the bus.
THEOREM Invariance == Spec => []IInv
  <1>1. Init => IInv
    BY InitIInv
  <1>2. IInv /\ [Next]_vars => IInv'
    BY TypeStep, InboundIdsStep, WorkersStep, FreshMailStep, WaitersStep DEF IInv
  <1>3. QED
    BY <1>1, <1>2, PTL DEF Spec

\* Every variable of the bus keeps its type (queues.py:31-49).
THEOREM TypeCorrect == Spec => []TypeOK
  <1>1. IInv => TypeOK
    BY DEF IInv
  <1>2. QED
    BY <1>1, Invariance, PTL

\* A session has one worker while it has a mailbox and none otherwise
\* (queues.py:35-39): this makes the handling of a session serial.
THEOREM WorkersAndMailboxesPaired == Spec => []OneWorkerPerMailbox
  <1>1. IInv => OneWorkerPerMailbox
    BY DEF IInv, Workers
  <1>2. QED
    BY <1>1, Invariance, PTL

-----------------------------------------------------------------------------
LEMMA InitRefines == Init => Serial!Init
  <1> SUFFICES ASSUME Init PROVE Serial!Init
    OBVIOUS
  <1>1. mailbox = [s \in Sessions |-> <<>>]
    BY DEF Init
  <1>2. Current = [s \in Sessions |-> None]
    BY DEF Init, Current
  <1>3. Taken = 0
    <2>1. Len(inbound) = 0 /\ sent = 0
      BY EmptySeq DEF Init
    <2>2. QED
      BY <2>1 DEF Taken
  <1>4. QED
    BY <1>1, <1>2, <1>3 DEF Serial!Init

\* A step that leaves mailboxes, workers, held messages and the count of
\* messages taken alone is invisible in SessionSerial.
LEMMA Invisible ==
  UNCHANGED <<mailbox, worker, held>> /\ Taken' = Taken
     => UNCHANGED Serial!vars
  BY DEF Current, Serial!vars

\* Every step of the bus is a step of SessionSerial or invisible there.
LEMMA StepRefines == IInv /\ [Next]_vars => [Serial!Next]_(Serial!vars)
  <1> DEFINE Goal == [Serial!Next]_(Serial!vars)
  <1> SUFFICES ASSUME IInv, [Next]_vars PROVE Goal
    OBVIOUS
  <1> USE DEF queueVars, sessionVars, taskVars, poolVars
  <1>0. /\ inbound \in Seq(Message) /\ Len(inbound) \in Nat
        /\ sent \in Nat
        /\ \A i \in 1 .. Len(inbound) : inbound[i].id = sent - Len(inbound) + i
        /\ mailbox \in [Sessions -> Seq(Message)]
        /\ worker \in [Sessions -> Tasks \cup {None}]
        /\ pc \in [Tasks -> PCs]
        /\ held \in [Tasks -> Message \cup {None}]
        /\ age \in [Sessions -> 0 .. IdleTTL]
        /\ open \subseteq Sessions /\ IdleTTL \in Nat
    BY BusAssumption DEF IInv, TypeOK, InboundIds
  <1>00. /\ None \notin Message /\ None \notin Tasks /\ None \notin Sessions
    BY BusAssumption DEF Message
  <1>000. /\ \A t \in Tasks : pc[t] # "done" =>
                serves[t] \in open /\ worker[serves[t]] = t
          /\ \A t \in Tasks : held[t] # None <=> pc[t] \in Busy
          /\ \A s \in Sessions : worker[s] # None =>
                pc[worker[s]] # "done" /\ serves[worker[s]] = s
    BY <1>0 DEF IInv, Workers, OneWorkerPerMailbox, WorkerAlive, HeldWhileBusy
  <1>1. CASE PushInbound
    <2>1. Len(inbound') = Len(inbound) + 1 /\ sent' = sent + 1
      <3>1. PICK r \in Requests :
              inbound' = Append(inbound, [id |-> sent + 1, kind |-> r.kind,
                                          session |-> r.session, type |-> r.type])
        BY <1>1 DEF PushInbound
      <3>2. Len(inbound') = Len(inbound) + 1
        BY <1>0, <3>1
      <3>3. QED
        BY <1>1, <3>2 DEF PushInbound
    <2>2. Taken' = Taken
      BY <1>0, <2>1 DEF Taken
    <2>3. QED
      BY <1>1, <2>2, Invisible DEF PushInbound
  <1>2. ASSUME inbound # <<>>, inbound' = Tail(inbound), sent' = sent
        PROVE  Taken' = Taken + 1 /\ Head(inbound).id = Taken + 1 /\ Taken \in Int
    <2>1. /\ Len(inbound') = Len(inbound) - 1 /\ Head(inbound) = inbound[1]
          /\ 1 \in 1 .. Len(inbound)
      BY <1>0, <1>2
    <2>2. QED
      BY <1>0, <1>2, <2>1 DEF Taken
  <1>3. ASSUME HandleStatus \/ HandleStop \/ RejectInbound PROVE Goal
    <2>1. /\ inbound # <<>> /\ inbound' = Tail(inbound) /\ sent' = sent
          /\ UNCHANGED <<mailbox, worker, held>>
      BY <1>3 DEF HandleStatus, HandleStop, RejectInbound
    <2>2. Serial!Answer
      BY <1>2, <2>1 DEF Serial!Answer, Current
    <2>3. QED
      BY <2>2 DEF Serial!Next
  <1>4. CASE Dispatch
    <2> DEFINE m == Head(inbound)
               s == m.session
    <2>1. /\ inbound # <<>> /\ inbound' = Tail(inbound) /\ sent' = sent
          /\ s # None /\ held' = held
          /\ mailbox' = [mailbox EXCEPT ![s] = PutDroppingOldest(@, m)]
      BY <1>4 DEF Dispatch
    <2>2. m \in Message
      BY <1>0, <2>1
    <2>3. s \in Sessions
      BY <2>1, <2>2 DEF Message
    <2>4. m.id > Taken /\ Taken' = m.id
      BY <1>2, <2>1
    <2>5. Current' = Current
      <3>1. CASE worker' = worker
        BY <2>1, <3>1 DEF Current
      <3>2. CASE ~WorkerAlive(s) /\ StartWorker(s)
        <4>1. worker[s] = None
          BY <1>000, <2>3, <3>2 DEF WorkerAlive
        <4>2. PICK t \in Tasks : pc[t] = "done" /\ worker' = [worker EXCEPT ![s] = t]
          BY <3>2 DEF StartWorker
        <4>3. held[t] = None
          BY <1>000, <4>2 DEF Busy
        <4>4. QED
          BY <1>0, <1>00, <2>1, <2>3, <4>1, <4>2, <4>3 DEF Current
      <3>3. QED
        BY <1>4, <3>1, <3>2 DEF Dispatch
    <2>6. Serial!Accept(s, m)
      BY <2>1, <2>4, <2>5 DEF Serial!Accept, PutDroppingOldest
    <2>7. QED
      BY <2>2, <2>3, <2>6 DEF Serial!Next
  <1>5. ASSUME NEW t \in Tasks, TakeMessage(t) PROVE Goal
    <2> DEFINE s == serves[t]
    <2>1. /\ pc[t] = "waiting" /\ mailbox[s] # <<>>
          /\ held' = [held EXCEPT ![t] = Head(mailbox[s])]
          /\ mailbox' = [mailbox EXCEPT ![s] = Tail(@)]
          /\ UNCHANGED <<worker, inbound, sent>>
      BY <1>5 DEF TakeMessage
    <2>2. s \in Sessions /\ worker[s] = t /\ held[t] = None
      BY <1>0, <1>000, <2>1 DEF Busy
    <2>3. Current[s] = None
      BY <2>2 DEF Current
    <2>4. Current' = [Current EXCEPT ![s] = Head(mailbox[s])]
      <3>1. \A x \in Sessions : x # s => worker[x] # t
        BY <1>00, <1>000, <2>2
      <3>2. QED
        BY <1>0, <1>00, <2>1, <2>2, <3>1 DEF Current
    <2>5. Serial!Start(s)
      BY <2>1, <2>3, <2>4 DEF Serial!Start, Taken
    <2>6. QED
      BY <2>2, <2>5 DEF Serial!Next
  <1>6. ASSUME NEW t \in Tasks, LookupFails(t) \/ EndRun(t) PROVE Goal
    <2> DEFINE s == serves[t]
    <2>1. /\ pc[t] \in {"lookup", "running"}
          /\ held' = [held EXCEPT ![t] = None]
          /\ UNCHANGED <<mailbox, worker, inbound, sent>>
      BY <1>6 DEF LookupFails, EndRun, ReleaseAgent, BackToMailbox
    <2>2. s \in Sessions /\ worker[s] = t /\ held[t] # None
      BY <1>0, <1>000, <2>1 DEF Busy
    <2>3. Current[s] # None
      BY <1>00, <2>2 DEF Current
    <2>4. Current' = [Current EXCEPT ![s] = None]
      <3>1. \A x \in Sessions : x # s => worker[x] # t
        BY <1>00, <1>000, <2>2
      <3>2. QED
        BY <1>0, <1>00, <2>1, <2>2, <3>1 DEF Current
    <2>5. Serial!Finish(s)
      BY <2>1, <2>3, <2>4 DEF Serial!Finish, Taken
    <2>6. QED
      BY <2>2, <2>5 DEF Serial!Next
  <1>7. ASSUME NEW t \in Tasks, RetireWorker(t) PROVE Goal
    <2> DEFINE s == serves[t]
    <2>1. /\ pc[t] = "waiting" /\ waited[t] = IdleTTL /\ age[s] >= IdleTTL
          /\ mailbox' = [mailbox EXCEPT ![s] = <<>>]
          /\ worker' = [worker EXCEPT ![s] = None]
          /\ UNCHANGED <<held, inbound, sent>>
      BY <1>7 DEF RetireWorker, Retire
    <2>2. s \in Sessions /\ worker[s] = t /\ held[t] = None
      BY <1>0, <1>000, <2>1 DEF Busy
    <2>3. mailbox[s] = <<>>
      <3>1. mailbox[s] # <<>> => age[s] < IdleTTL \/ waited[t] < IdleTTL
        BY <2>1 DEF IInv, FreshMail
      <3>2. age[s] \in 0 .. IdleTTL
        BY <1>0, <2>2
      <3>3. QED
        BY <1>0, <2>1, <3>1, <3>2
    <2>4. mailbox' = mailbox
      BY <1>0, <2>1, <2>3
    <2>5. Current' = Current
      BY <1>0, <1>00, <2>1, <2>2 DEF Current
    <2>6. QED
      BY <2>1, <2>4, <2>5 DEF Serial!vars, Taken
  <1>8. ASSUME UNCHANGED <<mailbox, worker, held, inbound, sent>> PROVE Goal
    BY <1>8, Invisible DEF Taken
  <1>9. QED
    <2>1. CASE DeliverOutbound \/ GrantPermit \/ CleanPool \/ Tick
               \/ UNCHANGED vars
      BY <1>8, <2>1 DEF DeliverOutbound, GrantPermit, CleanPool, Tick, vars
    <2>2. ASSUME NEW t \in Tasks,
                 RearmWorker(t) \/ BeginRun(t) \/ AgentStep(t)
          PROVE  Goal
      BY <1>8, <2>2 DEF RearmWorker, BeginRun, AgentStep
    <2>3. QED
      BY <1>1, <1>3, <1>4, <1>5, <1>6, <1>7, <2>1, <2>2
         DEF Next, InboundLoop, SessionWorker

\* The bus handles the messages of a session one at a time and in order, each
\* at most once, and loses none but the oldest of a full mailbox
\* (queues.py:35-39 and 175-233).
THEOREM BusIsSerial == Spec => ImplementsSerial
  <1>1. Init => Serial!Init
    BY InitRefines
  <1>2. IInv /\ [Next]_vars => [Serial!Next]_(Serial!vars)
    BY StepRefines
  <1>3. QED
    BY <1>1, <1>2, Invariance, PTL DEF Spec, ImplementsSerial, Serial!Spec

-----------------------------------------------------------------------------
(* The pools of agents.                                                    *)

\* What AgentsAccounted rests on: a pool key has its agent in the free pool or
\* lends it to the worker of its session, never both.
Pools ==
    /\ RunningPoolExact /\ StopDiesWithRun
    /\ \A k \in PoolKeys :
          /\ Len(free[k]) <= 1
          /\ \A i \in 1 .. Len(free[k]) : key[free[k][i]] = k
    /\ \A t \in Tasks : pc[t] = "running" =>
          /\ key[uses[t]] \in PoolKeys
          /\ key[uses[t]][1] = serves[t]
          /\ free[key[uses[t]]] = <<>>

\* A queue that holds at most one element.
LEMMA LoneElement ==
  ASSUME NEW S, NEW q \in Seq(S), Len(q) <= 1
  PROVE  \/ q = <<>> /\ Len(q) = 0
         \/ /\ q # <<>> /\ Len(q) = 1
            /\ q[1] \in S /\ Head(q) = q[1] /\ Tail(q) = <<>>
  <1>1. Len(q) \in Nat /\ (q = <<>> <=> Len(q) = 0)
    BY EmptySeq, LenProperties
  <1>2. CASE Len(q) = 1
    <2>1. q[1] \in S /\ Head(q) = q[1] /\ Tail(q) \in Seq(S) /\ Len(Tail(q)) = 0
      BY <1>1, <1>2, ElementOfSeq, HeadTailProperties
    <2>2. QED
      BY <1>1, <1>2, <2>1, EmptySeq
  <1>3. \A n \in Nat : n <= 1 => n = 0 \/ n = 1
    OBVIOUS
  <1>4. Len(q) = 0 \/ Len(q) = 1
    BY ONLY <1>1, <1>3, Len(q) <= 1
  <1>5. QED
    BY ONLY <1>1, <1>2, <1>4

\* No agent is there at the start.
LEMMA InitPools == Init => Pools
  <1> SUFFICES ASSUME Init PROVE Pools
    OBVIOUS
  <1>1. RunningPoolExact /\ StopDiesWithRun
    BY DEF Init, RunningPoolExact, StopDiesWithRun
  <1>2. \A k \in PoolKeys : free[k] = <<>> /\ Len(free[k]) = 0
    BY DEF Init
  <1>3. QED
    BY <1>1, <1>2 DEF Init, Pools

\* A step that leaves the pools and the running workers alone keeps Pools.
LEMMA QuietStep ==
  ASSUME IInv, Pools, UNCHANGED <<free, running, uses, key, stop>>,
         \A t \in Tasks : pc'[t] = "running" <=> pc[t] = "running",
         \A t \in Tasks : pc[t] = "running" =>
            /\ serves'[t] = serves[t] /\ serves[t] \in open'
            /\ worker'[serves[t]] = t
  PROVE  Pools'
  <1>1. \A s \in Sessions : running[s] # None =>
           worker[s] \in Tasks /\ serves[worker[s]] = s
    BY DEF IInv, TypeOK, Pools, RunningPoolExact, Workers, OneWorkerPerMailbox, WorkerAlive
  <1>2. RunningPoolExact'
    BY <1>1 DEF Pools, RunningPoolExact
  <1>3. QED
    BY <1>2 DEF Pools, StopDiesWithRun

\* Every action keeps the pools exact.
LEMMA PoolsStep == IInv /\ Pools /\ [Next]_vars => Pools'
  <1> SUFFICES ASSUME IInv, Pools, [Next]_vars PROVE Pools'
    OBVIOUS
  <1> USE BusAssumption DEF queueVars, sessionVars, taskVars, poolVars
  <1>0. /\ open \subseteq Sessions
        /\ worker \in [Sessions -> Tasks \cup {None}]
        /\ pc \in [Tasks -> PCs]
        /\ serves \in [Tasks -> Sessions \cup {None}]
        /\ held \in [Tasks -> Message \cup {None}]
        /\ free \in [PoolKeys -> Seq(Agents)]
        /\ running \in [Sessions -> Agents \cup {None}]
        /\ uses \in [Tasks -> Agents \cup {None}]
        /\ key \in [Agents -> PoolKeys \cup {None}]
        /\ stop \in [Agents -> BOOLEAN]
        /\ sem \in Seq(Tasks)
        /\ inbound \in Seq(Message)
    BY DEF IInv, TypeOK
  <1>00. /\ \A t \in Tasks : pc[t] # "done" =>
               serves[t] \in Sessions /\ serves[t] \in open /\ worker[serves[t]] = t
         /\ \A s \in open : worker[s] \in Tasks /\ serves[worker[s]] = s /\ pc[worker[s]] # "done"
         /\ \A t \in Tasks : uses[t] # None <=> pc[t] = "running"
    BY <1>0 DEF IInv, Workers, OneWorkerPerMailbox, WorkerAlive, Uses
  <1>1. CASE PushInbound \/ DeliverOutbound \/ HandleStatus \/ RejectInbound \/ Tick \/ UNCHANGED vars
    BY <1>1, <1>00, QuietStep
       DEF PushInbound, DeliverOutbound, HandleStatus, RejectInbound, Tick, vars
  <1>2. ASSUME NEW t \in Tasks, AgentStep(t) \/ RearmWorker(t) PROVE Pools'
    BY <1>2, <1>00, QuietStep DEF AgentStep, RearmWorker
  <1>3. CASE GrantPermit
    <2>1. sem # <<>> /\ pc' = [pc EXCEPT ![Head(sem)] = "lookup"]
          /\ UNCHANGED <<open, worker, serves, poolVars>>
      BY <1>3 DEF GrantPermit
    <2>2. Head(sem) \in Tasks /\ pc[Head(sem)] = "queued"
      BY <1>0, <2>1 DEF IInv, Waiters
    <2>3. QED
      BY <1>0, <1>00, <2>1, <2>2, QuietStep
  <1>4. ASSUME NEW t \in Tasks, TakeMessage(t) \/ LookupFails(t) PROVE Pools'
    <2>1. PICK p \in PCs \ {"running"} : pc' = [pc EXCEPT ![t] = p]
      BY <1>4 DEF TakeMessage, LookupFails, BackToMailbox, PCs
    <2>2. pc[t] # "running" /\ UNCHANGED <<open, worker, serves, poolVars>>
      BY <1>4 DEF TakeMessage, LookupFails
    <2>3. QED
      BY <1>0, <1>00, <2>1, <2>2, QuietStep
  <1>5. ASSUME NEW t \in Tasks, RetireWorker(t) PROVE Pools'
    <2>1. /\ pc[t] = "waiting"
          /\ worker' = [worker EXCEPT ![serves[t]] = None]
          /\ pc' = [pc EXCEPT ![t] = "done"]
          /\ serves' = [serves EXCEPT ![t] = None]
          /\ open' = open \ {serves[t]}
          /\ UNCHANGED poolVars
      BY <1>5 DEF RetireWorker, Retire
    <2>2. \A u \in Tasks : pc[u] = "running" => u # t /\ serves[u] # serves[t]
      BY <1>00, <2>1
    <2>3. QED
      BY <1>0, <1>00, <2>1, <2>2, QuietStep
  <1>6. CASE Dispatch
    <2> DEFINE s == Head(inbound).session
    <2>1. open' = open \cup {s} /\ UNCHANGED poolVars
      BY <1>6 DEF Dispatch
    <2>2. CASE UNCHANGED <<worker, pc, serves, waited>>
      BY <1>00, <2>1, <2>2, QuietStep
    <2>3. CASE ~WorkerAlive(s) /\ StartWorker(s)
      <3>1. PICK t \in Tasks : /\ pc[t] = "done"
                               /\ worker' = [worker EXCEPT ![s] = t]
                               /\ pc' = [pc EXCEPT ![t] = "waiting"]
                               /\ serves' = [serves EXCEPT ![t] = s]
        BY <2>3 DEF StartWorker
      <3>2. \A u \in Tasks : pc[u] = "running" => u # t /\ serves[u] # s
        BY <1>0, <1>00, <2>3, <3>1 DEF WorkerAlive
      <3>3. QED
        BY <1>0, <1>00, <2>1, <3>1, <3>2, QuietStep
    <2>4. QED
      BY <1>6, <2>2, <2>3 DEF Dispatch
  <1>7. CASE HandleStop
    <2>1. UNCHANGED <<sessionVars, taskVars, free, running, uses, key>>
      BY <1>7 DEF HandleStop
    <2>2. \A a \in Agents : stop'[a] => stop[a] \/ \E s \in Sessions : running[s] = a
      <3>1. inbound # <<>> /\ Head(inbound).session \in Sessions \cup {None}
        <4>1. inbound # <<>>
          BY <1>7 DEF HandleStop
        <4>2. Head(inbound) \in Message
          BY ONLY <1>0, <4>1
        <4>3. QED
          BY <4>1, <4>2 DEF Message
      <3>2. QED
        BY <1>0, <1>7, <3>1 DEF HandleStop
    <2>3. QED
      BY <2>1, <2>2 DEF Pools, RunningPoolExact, StopDiesWithRun
  <1>8. CASE CleanPool
    <2>1. UNCHANGED <<sessionVars, taskVars, running, uses, key, stop>>
      BY <1>8 DEF CleanPool
    <2> DEFINE pooled == {k \in PoolKeys : free[k] # <<>>}
    <2>2. PICK n \in [pooled -> 0 .. Cardinality(Agents)] :
            free' = [k \in PoolKeys |-> IF free[k] = <<>> THEN <<>>
                                        ELSE SubSeq(free[k], n[k] + 1, Len(free[k]))]
      BY <1>8 DEF CleanPool
    <2>3. ASSUME NEW k \in PoolKeys
          PROVE  free'[k] = free[k] \/ free'[k] = <<>>
      <3>1. CASE free[k] = <<>>
        BY <2>2, <3>1
      <3>2. CASE free[k] # <<>>
        <4>1. free'[k] = SubSeq(free[k], n[k] + 1, Len(free[k])) /\ n[k] \in 0 .. Cardinality(Agents)
          BY <2>2, <3>2
        <4>2. free[k] \in Seq(Agents) /\ Len(free[k]) = 1
          BY <1>0, <3>2, LoneElement DEF Pools
        <4>3. CASE n[k] = 0
          BY <4>1, <4>2, <4>3
        <4>4. CASE n[k] # 0
          BY <4>1, <4>2, <4>4
        <4>5. QED
          BY <4>3, <4>4
      <3>3. QED
        BY <3>1, <3>2
    <2>4. \A k \in PoolKeys : Len(free'[k]) <= 1
            /\ \A i \in 1 .. Len(free'[k]) : key[free'[k][i]] = k
      BY <2>3 DEF Pools
    <2>5. QED
      BY <2>1, <2>3, <2>4 DEF Pools, RunningPoolExact, StopDiesWithRun
  <1>9. ASSUME NEW t \in Tasks, BeginRun(t) PROVE Pools'
    <2> DEFINE k == <<serves[t], held[t].type>>
               x == serves[t]
    <2>1. /\ pc[t] = "lookup" /\ pc' = [pc EXCEPT ![t] = "running"]
          /\ UNCHANGED <<sessionVars, serves, held>>
      BY <1>9 DEF BeginRun
    <2>2. k \in PoolKeys /\ x \in Sessions /\ x \in open /\ worker[x] = t
      <3>1. held[t] \in Message
        BY <1>0, <2>1 DEF IInv, HeldWhileBusy, Busy
      <3>2. QED
        BY <1>00, <2>1, <3>1 DEF Message, PoolKeys
    <2>3. PICK a \in Agents :
            /\ \/ /\ free[k] # <<>> /\ a = Head(free[k])
                  /\ free' = [free EXCEPT ![k] = Tail(@)]
                  /\ UNCHANGED key
               \/ /\ free[k] = <<>> /\ a \in Unused
                  /\ key' = [key EXCEPT ![a] = k]
                  /\ UNCHANGED free
            /\ stop' = [stop EXCEPT ![a] = FALSE]
            /\ running' = [running EXCEPT ![x] = a]
            /\ uses' = [uses EXCEPT ![t] = a]
      BY <1>9 DEF BeginRun
    <2> HIDE DEF k, x
    <2>4. running[x] = None
      BY <2>1, <2>2 DEF Pools, RunningPoolExact
    <2>5. /\ free'[k] = <<>> /\ key'[a] = k /\ key' \in [Agents -> PoolKeys \cup {None}]
          /\ \A y \in PoolKeys \ {k} : free'[y] = free[y]
          /\ \A y \in PoolKeys : \A i \in 1 .. Len(free'[y]) : key'[free'[y][i]] = y
          /\ \A u \in Tasks \ {t} : pc[u] = "running" => key'[uses[u]] = key[uses[u]]
      <3>1. CASE /\ free[k] # <<>> /\ a = Head(free[k])
                 /\ free' = [free EXCEPT ![k] = Tail(@)]
                 /\ UNCHANGED key
        <4>1. free[k] \in Seq(Agents) /\ Len(free[k]) = 1 /\ key[free[k][1]] = k
          BY <1>0, <2>2, <3>1, LoneElement DEF Pools
        <4>2. Head(free[k]) = free[k][1] /\ Tail(free[k]) = <<>>
          BY <1>0, <2>2, <3>1, LoneElement DEF Pools
        <4>3. free'[k] = <<>> /\ \A y \in PoolKeys \ {k} : free'[y] = free[y]
          BY <1>0, <2>2, <3>1, <4>2
        <4>4. QED
          BY <1>0, <3>1, <4>1, <4>2, <4>3 DEF Pools
      <3>2. CASE /\ free[k] = <<>> /\ a \in Unused
                 /\ key' = [key EXCEPT ![a] = k]
                 /\ UNCHANGED free
        <4>1. \A y \in PoolKeys : \A i \in 1 .. Len(free[y]) : free[y][i] # a
          BY <1>0, <3>2 DEF Unused, Pooled, Elements
        <4>2. \A u \in Tasks : uses[u] # a
          BY <3>2 DEF Unused
        <4>3. \A y \in PoolKeys : \A i \in 1 .. Len(free[y]) : key'[free[y][i]] = y
          <5>1. \A y \in PoolKeys : \A i \in 1 .. Len(free[y]) : free[y][i] \in Agents
            BY <1>0
          <5>2. QED
            BY <1>0, <3>2, <4>1, <5>1 DEF Pools
        <4>4. \A u \in Tasks \ {t} : pc[u] = "running" => key'[uses[u]] = key[uses[u]]
          BY <1>0, <1>00, <3>2, <4>2
        <4>5. QED
          BY <1>0, <2>2, <3>2, <4>3, <4>4
      <3>3. QED
        BY <2>3, <3>1, <3>2
    <2>6. \A u \in Tasks \ {t} : pc[u] = "running" =>
             /\ serves[u] # x /\ key'[uses[u]][1] = serves[u]
             /\ key'[uses[u]] \in PoolKeys \ {k}
      <3>1. k[1] = x
        BY DEF k, x
      <3>2. \A u \in Tasks \ {t} : pc[u] = "running" => serves[u] # x
        BY <1>00, <2>2
      <3>3. QED
        BY <2>5, <3>1, <3>2 DEF Pools
    <2>7. \A y \in PoolKeys : Len(free'[y]) <= 1
      BY <2>5 DEF Pools
    <2>8. \A u \in Tasks : pc'[u] = "running" =>
             /\ key'[uses'[u]] \in PoolKeys
             /\ key'[uses'[u]][1] = serves'[u]
             /\ free'[key'[uses'[u]]] = <<>>
      <3>1. k[1] = x
        BY DEF k, x
      <3>2. uses'[t] = a /\ serves'[t] = x
        BY <1>0, <2>1, <2>3 DEF x
      <3>3. \A u \in Tasks \ {t} : pc'[u] = pc[u] /\ uses'[u] = uses[u] /\ serves'[u] = serves[u]
        BY <1>0, <2>1, <2>3
      <3>4. QED
        BY <2>2, <2>5, <2>6, <3>1, <3>2, <3>3 DEF Pools
    <2>9. RunningPoolExact'
      <3>1. running'[x] = a /\ \A s \in Sessions \ {x} : running'[s] = running[s]
        BY <1>0, <2>2, <2>3
      <3>2. /\ uses'[t] = a /\ pc'[t] = "running"
            /\ \A u \in Tasks \ {t} : uses'[u] = uses[u] /\ pc'[u] = pc[u]
        BY <1>0, <2>1, <2>3
      <3>3. \A u \in Tasks : pc'[u] = "running" => running'[serves'[u]] = uses'[u]
        BY <1>00, <2>1, <2>6, <3>1, <3>2 DEF Pools, RunningPoolExact, x
      <3>4. \A s \in Sessions \ {x} : running[s] # None =>
               worker[s] \in Tasks \ {t} /\ serves[worker[s]] = s /\ pc[worker[s]] = "running"
        BY <1>00, <2>2 DEF Pools, RunningPoolExact, x
      <3>5. \A s \in Sessions \ {x} : running[s] # None => key'[running[s]][1] = s
        BY <2>6, <3>4 DEF Pools, RunningPoolExact
      <3>6. k[1] = x
        BY DEF k, x
      <3>7. QED
        BY <2>1, <2>2, <2>5, <3>1, <3>2, <3>3, <3>4, <3>5, <3>6 DEF Pools, RunningPoolExact
    <2>10. StopDiesWithRun'
      BY <1>0, <2>2, <2>3, <2>4 DEF Pools, StopDiesWithRun
    <2>11. QED
      BY <2>5, <2>7, <2>8, <2>9, <2>10 DEF Pools
  <1>10. ASSUME NEW t \in Tasks, EndRun(t) PROVE Pools'
    <2> DEFINE a == uses[t]
               x == serves[t]
               k == key[a]
    <2>1. /\ pc[t] = "running" /\ pc' = [pc EXCEPT ![t] = "waiting"]
          /\ free' = [free EXCEPT ![k] = Append(@, a)]
          /\ stop' = [stop EXCEPT ![a] = FALSE]
          /\ running' = [running EXCEPT ![x] = None]
          /\ uses' = [uses EXCEPT ![t] = None]
          /\ UNCHANGED <<sessionVars, serves, key>>
      BY <1>10 DEF EndRun, ReleaseAgent, BackToMailbox
    <2>2. /\ k \in PoolKeys /\ k[1] = x /\ free[k] = <<>>
          /\ a \in Agents /\ x \in Sessions /\ running[x] = a /\ worker[x] = t
      BY <1>0, <1>00, <2>1 DEF Pools, RunningPoolExact
    <2>3. k = key[a] /\ x = serves[t] /\ a = uses[t]
      OBVIOUS
    <2> HIDE DEF k, x, a
    <2>4. /\ Len(free'[k]) = 1 /\ free'[k][1] = a
          /\ \A y \in PoolKeys \ {k} : free'[y] = free[y]
      BY <1>0, <2>1, <2>2
    <2>5. \A u \in Tasks \ {t} :
             /\ pc'[u] = pc[u] /\ uses'[u] = uses[u] /\ serves'[u] = serves[u]
             /\ pc[u] = "running" => serves[u] # x /\ key[uses[u]] # k
      <3>1. \A u \in Tasks \ {t} : pc[u] = "running" => serves[u] # x
        BY <1>00, <2>2
      <3>2. QED
        BY <1>0, <2>1, <2>2, <3>1 DEF Pools
    <2>6. pc'[t] = "waiting" /\ running'[x] = None
          /\ \A s \in Sessions \ {x} : running'[s] = running[s]
      BY <1>0, <2>1, <2>2
    <2>7. \A y \in PoolKeys : /\ Len(free'[y]) <= 1
                              /\ \A i \in 1 .. Len(free'[y]) : key'[free'[y][i]] = y
      BY <2>1, <2>3, <2>4 DEF Pools
    <2>8. \A s \in Sessions \ {x} : running[s] # None =>
             worker[s] \in Tasks \ {t} /\ serves[worker[s]] = s
      BY <1>00, <2>3 DEF Pools, RunningPoolExact
    <2>9. RunningPoolExact'
      <3>1. \A u \in Tasks : pc'[u] = "running" => running'[serves'[u]] = uses'[u]
        BY <1>00, <2>5, <2>6 DEF Pools, RunningPoolExact
      <3>2. QED
        BY <2>1, <2>5, <2>6, <2>8, <3>1 DEF Pools, RunningPoolExact
    <2>10. StopDiesWithRun'
      BY <1>0, <2>1, <2>2, <2>6 DEF Pools, StopDiesWithRun
    <2>11. QED
      BY <2>1, <2>4, <2>5, <2>6, <2>7, <2>9, <2>10 DEF Pools
  <1>11. QED
    BY <1>1, <1>2, <1>3, <1>4, <1>5, <1>6, <1>7, <1>8, <1>9, <1>10
       DEF Next, InboundLoop, SessionWorker

\* The pools tell who runs, for whom, and whether he was asked to stop
\* (queues.py:143-157, :258-286).
THEOREM AgentsStayAccounted == Spec => []AgentsAccounted
  <1>1. ASSUME IInv, Pools PROVE AgentsAccounted
    <2>1. ASSUME NEW k \in PoolKeys
          PROVE  /\ Len(free[k]) + Cardinality({t \in Tasks : uses[t] # None /\ key[uses[t]] = k}) <= 1
                 /\ \A a \in Elements(free[k]) : key[a] = k
      <3> DEFINE runs == {t \in Tasks : uses[t] # None /\ key[uses[t]] = k}
      <3>1. \A t \in runs : /\ pc[t] = "running" /\ free[k] = <<>>
                            /\ serves[t] = k[1] /\ worker[k[1]] = t
        BY <1>1 DEF IInv, Uses, Pools, Workers, OneWorkerPerMailbox
      <3>2. free[k] \in Seq(Agents) /\ Len(free[k]) \in {0, 1}
        <4>1. free[k] \in Seq(Agents)
          BY <1>1 DEF IInv, TypeOK
        <4>2. QED
          BY <1>1, <4>1, LoneElement DEF Pools
      <3>3. Cardinality(runs) \in {0, 1} /\ (Cardinality(runs) = 1 => free[k] = <<>>)
        <4>1. CASE runs = {}
          <5>1. Cardinality(runs) = 0
            BY <4>1, FS_EmptySet
          <5>2. QED
            BY <5>1
        <4>2. CASE runs # {}
          <5>1. PICK t \in runs : TRUE
            BY <4>2
          <5>2. runs = {t}
            BY <3>1, <5>1
          <5>3. Cardinality(runs) = 1 /\ free[k] = <<>>
            BY <3>1, <5>1, <5>2, FS_Singleton
          <5>4. QED
            BY <5>3
        <4>3. QED
          BY <4>1, <4>2
      <3>4. Len(free[k]) + Cardinality(runs) <= 1
        <4>1. Len(free[k]) = 0 \/ Len(free[k]) = 1
          BY <3>2
        <4>2. free[k] = <<>> => Len(free[k]) = 0
          BY <3>2, LoneElement, EmptySeq
        <4>3. \A n, m \in {0, 1} : (m = 1 => n = 0) => n + m <= 1
          OBVIOUS
        <4>4. QED
          BY ONLY <3>3, <4>1, <4>2, <4>3
      <3>5. \A a \in Elements(free[k]) : key[a] = k
        BY <1>1, <3>2 DEF Pools, Elements
      <3>6. QED
        BY <3>4, <3>5
    <2>2. QED
      BY <1>1, <2>1 DEF AgentsAccounted, OneAgentPerKey, Pools
  <1>2. Spec => []Pools
    <2>1. IInv /\ Pools /\ [Next]_vars => Pools'
      BY PoolsStep
    <2>2. QED
      BY <2>1, InitPools, Invariance, PTL DEF Spec
  <1>3. QED
    BY <1>1, <1>2, Invariance, PTL

-----------------------------------------------------------------------------
(* The semaphore.                                                          *)

\* The permits that are held are counted, and who is queued is in the queue.
Permits ==
    /\ IsFiniteSet(Holders) /\ Cardinality(Holders) <= Concurrency
    /\ \A t \in Tasks : pc[t] = "queued" => \E i \in 1 .. Len(sem) : sem[i] = t

\* Nobody holds a permit at the start.
LEMMA InitPermits == Init => Permits
  <1> SUFFICES ASSUME Init PROVE Permits
    OBVIOUS
  <1>1. Holders = {}
    BY DEF Init, Holders
  <1>2. IsFiniteSet(Holders) /\ Cardinality(Holders) = 0
    BY <1>1, FS_EmptySet
  <1>3. QED
    BY <1>2, BusAssumption DEF Init, Permits, BusAssumption

\* Who holds a permit after a step held one before, or a permit was free.
LEMMA HoldersStep ==
  ASSUME IInv, Permits, NEW t, Holders' \subseteq Holders \cup {t},
         t \in Holders \/ Holders' \subseteq Holders \/ PermitFree
  PROVE  IsFiniteSet(Holders') /\ Cardinality(Holders') <= Concurrency
  <1>1. IsFiniteSet(Holders) /\ Cardinality(Holders) \in Nat
        /\ Cardinality(Holders) <= Concurrency /\ Concurrency \in Nat
    BY FS_CardinalityType, BusAssumption DEF Permits, BusAssumption
  <1>2. CASE Holders' \subseteq Holders
    <2>1. IsFiniteSet(Holders') /\ Cardinality(Holders') <= Cardinality(Holders)
          /\ Cardinality(Holders') \in Nat
      BY <1>1, <1>2, FS_Subset, FS_CardinalityType
    <2>2. QED
      BY <1>1, <2>1
  <1>3. CASE PermitFree /\ t \notin Holders
    <2>1. IsFiniteSet(Holders \cup {t}) /\ Cardinality(Holders \cup {t}) = Cardinality(Holders) + 1
      BY <1>1, <1>3, FS_AddElement
    <2>2. IsFiniteSet(Holders') /\ Cardinality(Holders') <= Cardinality(Holders) + 1
          /\ Cardinality(Holders') \in Nat
      BY <2>1, FS_Subset, FS_CardinalityType
    <2>3. Cardinality(Holders) < Concurrency
      BY <1>3 DEF PermitFree
    <2>4. QED
      BY <1>1, <2>2, <2>3
  <1>4. QED
    BY <1>2, <1>3

\* Every action keeps the permits counted and the queue complete.
LEMMA PermitsStep == IInv /\ Permits /\ [Next]_vars => Permits'
  <1> SUFFICES ASSUME IInv, Permits, [Next]_vars PROVE Permits'
    OBVIOUS
  <1> USE DEF queueVars, sessionVars, taskVars, poolVars
  <1>0. /\ pc \in [Tasks -> PCs] /\ sem \in Seq(Tasks) /\ Len(sem) \in Nat
    BY LenProperties DEF IInv, TypeOK
  <1>1. ASSUME NEW t \in Tasks, NEW p \in PCs \ {"queued"}, pc[t] # "queued",
               p \in {"lookup", "running"} => pc[t] \in {"lookup", "running"} \/ PermitFree,
               pc' = [pc EXCEPT ![t] = p], sem' = sem
        PROVE  Permits'
    <2>1. Holders' \subseteq Holders \cup {t}
      BY <1>0, <1>1 DEF Holders
    <2>2. t \in Holders \/ Holders' \subseteq Holders \/ PermitFree
      BY <1>0, <1>1 DEF Holders
    <2>3. \A u \in Tasks : pc'[u] = "queued" => \E i \in 1 .. Len(sem') : sem'[i] = u
      BY <1>0, <1>1 DEF Permits
    <2>4. QED
      BY <2>1, <2>2, <2>3, HoldersStep DEF Permits
  <1>2. CASE UNCHANGED <<pc, sem>>
    BY <1>2 DEF Permits, Holders
  <1>3. CASE Dispatch
    <2>1. CASE StartWorker(Head(inbound).session)
      BY <1>3, <2>1, <1>1 DEF Dispatch, StartWorker, PCs
    <2>2. QED
      BY <1>2, <1>3, <2>1 DEF Dispatch
  <1>4. CASE GrantPermit
    <2>1. /\ sem # <<>> /\ sem' = Tail(sem) /\ PermitFree
          /\ pc' = [pc EXCEPT ![Head(sem)] = "lookup"]
      BY <1>4 DEF GrantPermit
    <2>2. /\ Head(sem) = sem[1] /\ Len(sem') = Len(sem) - 1
          /\ \A i \in 1 .. Len(sem') : sem'[i] = sem[i + 1]
      BY <1>0, <2>1, HeadTailProperties
    <2>3. Holders' \subseteq Holders \cup {Head(sem)}
      BY <1>0, <2>1 DEF Holders
    <2>4. ASSUME NEW u \in Tasks, pc'[u] = "queued"
          PROVE  \E i \in 1 .. Len(sem') : sem'[i] = u
      <3>1. u # Head(sem) /\ pc[u] = "queued"
        BY <1>0, <2>1, <2>4
      <3>2. PICK i \in 1 .. Len(sem) : sem[i] = u
        BY <3>1 DEF Permits
      <3>3. i - 1 \in 1 .. Len(sem') /\ (i - 1) + 1 = i
        BY <1>0, <2>2, <3>1, <3>2
      <3>4. sem'[i - 1] = u
        BY <2>2, <3>2, <3>3
      <3>5. QED
        BY <3>3, <3>4
    <2>5. QED
      BY <2>1, <2>3, <2>4, HoldersStep DEF Permits
  <1>5. ASSUME NEW t \in Tasks, TakeMessage(t) PROVE Permits'
    <2>0. pc[t] = "waiting"
      BY <1>5 DEF TakeMessage
    <2>1. CASE PermitFree /\ pc' = [pc EXCEPT ![t] = "lookup"] /\ sem' = sem
      BY <1>1, <2>0, <2>1 DEF PCs
    <2>2. CASE pc' = [pc EXCEPT ![t] = "queued"] /\ sem' = Append(sem, t)
      <3>1. /\ Len(sem') = Len(sem) + 1 /\ sem'[Len(sem) + 1] = t
            /\ \A i \in 1 .. Len(sem) : sem'[i] = sem[i]
        BY <1>0, <2>2, AppendProperties
      <3>2. \A i \in 1 .. Len(sem) : i \in 1 .. Len(sem')
        BY <1>0, <3>1
      <3>3. Len(sem) + 1 \in 1 .. Len(sem')
        BY <1>0, <3>1
      <3>4. \A u \in Tasks : pc'[u] = "queued" => \E i \in 1 .. Len(sem') : sem'[i] = u
        BY <1>0, <2>2, <3>1, <3>2, <3>3 DEF Permits
      <3>5. Holders' \subseteq Holders
        BY <1>0, <2>2 DEF Holders
      <3>6. QED
        BY <3>4, <3>5, HoldersStep DEF Permits
    <2>3. QED
      BY <1>5, <2>1, <2>2 DEF TakeMessage
  <1>6. ASSUME NEW t \in Tasks,
               RetireWorker(t) \/ LookupFails(t) \/ BeginRun(t) \/ EndRun(t)
        PROVE  Permits'
    BY <1>1, <1>6 DEF RetireWorker, Retire, LookupFails, BeginRun, EndRun,
                      ReleaseAgent, BackToMailbox, PCs
  <1>7. ASSUME Tick \/ Elsewhere \/ \E t \in Tasks : RearmWorker(t) PROVE Permits'
    BY <1>2, <1>7 DEF Tick, Elsewhere, RearmWorker
  <1>8. QED
    BY <1>3, <1>4, <1>5, <1>6, <1>7, StepKinds

\* The queue of the semaphore lists its waiters, each once.
LEMMA PermitsAreSound == IInv /\ Permits => SemaphoreSound
  <1> SUFFICES ASSUME IInv, Permits PROVE SemaphoreSound
    OBVIOUS
  <1>0. sem \in Seq(Tasks) /\ Len(sem) \in Nat /\ DOMAIN sem = 1 .. Len(sem)
        /\ \A i \in 1 .. Len(sem) : sem[i] \in Tasks
    BY LenProperties, ElementOfSeq DEF IInv, TypeOK
  <1>1. Elements(sem) = {t \in Tasks : pc[t] = "queued"}
    BY <1>0 DEF IInv, Waiters, Permits, Elements
  <1>2. Len(sem) = Cardinality(Elements(sem))
    <2>1. sem \in Bijection(1 .. Len(sem), Elements(sem))
      <3>1. sem \in [1 .. Len(sem) -> Elements(sem)]
        BY <1>0 DEF Elements
      <3>2. \A i, j \in 1 .. Len(sem) : sem[i] = sem[j] => i = j
        BY DEF IInv, Waiters
      <3>3. \A x \in Elements(sem) : \E i \in 1 .. Len(sem) : sem[i] = x
        BY <1>0 DEF Elements
      <3>4. QED
        BY <1>0, <3>1, <3>2, <3>3 DEF Bijection, Injection, Surjection, IsInjective
    <2>2. IsFiniteSet(1 .. Len(sem)) /\ Cardinality(1 .. Len(sem)) = Len(sem)
      <3>1. IsFiniteSet(1 .. Len(sem)) /\ Cardinality(1 .. Len(sem)) = IF 1 > Len(sem) THEN 0 ELSE Len(sem) - 1 + 1
        BY ONLY <1>0, FS_Interval, Len(sem) \in Int, 1 \in Int
      <3>2. (IF 1 > Len(sem) THEN 0 ELSE Len(sem) - 1 + 1) = Len(sem)
        BY ONLY <1>0
      <3>3. QED
        BY ONLY <3>1, <3>2
    <2>3. QED
      BY <2>1, <2>2, FS_Bijection DEF ExistsBijection
  <1>3. QED
    BY <1>1, <1>2 DEF SemaphoreSound, Permits

-----------------------------------------------------------------------------
(* The places of a message.                                                *)

\* A message is in one place: every id that was dispatched stands at most once
\* in a mailbox or at a worker.
OnePlace ==
    /\ \A s \in Sessions : \A i \in 1 .. Len(mailbox[s]) : mailbox[s][i].id <= Taken
    /\ \A s, x \in Sessions : \A i \in 1 .. Len(mailbox[s]), j \in 1 .. Len(mailbox[x]) :
          mailbox[s][i].id = mailbox[x][j].id => s = x /\ i = j
    /\ \A t \in Tasks : held[t] # None =>
          /\ held[t].id <= Taken
          /\ \A s \in Sessions : \A i \in 1 .. Len(mailbox[s]) : mailbox[s][i].id # held[t].id
          /\ \A u \in Tasks : held[u] # None /\ held[u].id = held[t].id => u = t

\* An id that was answered with an error stands nowhere.
Final ==
    \A o \in 1 .. Len(outbound) : outbound[o].what = "error" =>
       /\ outbound[o].id <= Taken
       /\ \A s \in Sessions : \A i \in 1 .. Len(mailbox[s]) : mailbox[s][i].id # outbound[o].id
       /\ \A t \in Tasks : held[t] # None => held[t].id # outbound[o].id

\* No message is anywhere at the start.
LEMMA InitFinal == Init => OnePlace /\ Final
  <1> SUFFICES ASSUME Init PROVE OnePlace /\ Final
    OBVIOUS
  <1>0. ASSUME NEW s \in Sessions PROVE Len(mailbox[s]) = 0
    <2>1. mailbox[s] = <<>>
      BY DEF Init
    <2>2. QED
      BY ONLY <2>1, EmptySeq
  <1>1. Len(outbound) = 0 /\ \A t \in Tasks : held[t] = None
    BY EmptySeq DEF Init
  <1>2. OnePlace
    <2>1. ASSUME NEW s \in Sessions, NEW i \in 1 .. Len(mailbox[s]) PROVE FALSE
      <3>1. Len(mailbox[s]) = 0
        BY <1>0
      <3>2. QED
        BY ONLY <3>1, i \in 1 .. Len(mailbox[s])
    <2>2. \A t \in Tasks : ~(held[t] # None)
      BY <1>1
    <2>3. QED
      BY ONLY <2>1, <2>2 DEF OnePlace
  <1>3. Final
    BY <1>1 DEF Final
  <1>4. QED
    BY <1>2, <1>3

\* The count of messages taken from the inbound queue.
LEMMA TakenStep ==
  ASSUME IInv, [Next]_vars
  PROVE  /\ Taken \in Nat /\ Taken' \in Nat
         /\ ~InboundLoop => Taken' = Taken
         /\ InboundLoop => Taken' = Taken + 1 /\ Head(inbound).id = Taken'
                           /\ Head(inbound) \in Message
  <1> USE DEF queueVars, sessionVars, taskVars, poolVars
  <1>0. /\ inbound \in Seq(Message) /\ sent \in Nat /\ Len(inbound) \in Nat
        /\ Len(inbound) <= sent
        /\ \A i \in 1 .. Len(inbound) : inbound[i].id = sent - Len(inbound) + i
    BY BusAssumption, LenProperties DEF IInv, TypeOK, InboundIds
  <1>1. CASE InboundLoop
    <2>1. inbound # <<>> /\ inbound' = Tail(inbound) /\ sent' = sent
      BY <1>1 DEF InboundLoop, HandleStatus, HandleStop, RejectInbound, Dispatch
    <2>2. Len(inbound') = Len(inbound) - 1 /\ Head(inbound) = inbound[1] /\ Len(inbound) >= 1
      BY <1>0, <2>1, HeadTailProperties, EmptySeq
    <2>3. Head(inbound) \in Message
      BY ONLY <1>0, <2>1
    <2>4. QED
      BY <1>0, <1>1, <2>1, <2>2, <2>3 DEF Taken
  <1>2. CASE PushInbound
    <2>1. \E m \in Message : inbound' = Append(inbound, m) /\ sent' = sent + 1
      <3>1. PICK r \in Requests :
              inbound' = Append(inbound, [id |-> sent + 1, kind |-> r.kind,
                                          session |-> r.session, type |-> r.type])
        BY <1>2 DEF PushInbound
      <3>2. [id |-> sent + 1, kind |-> r.kind, session |-> r.session, type |-> r.type] \in Message
        BY <1>0, <1>2, BusAssumption DEF PushInbound, Message
      <3>3. sent' = sent + 1
        BY <1>2 DEF PushInbound
      <3>4. QED
        BY <3>1, <3>2, <3>3
    <2>2. Len(inbound') = Len(inbound) + 1
      BY <1>0, <2>1, AppendProperties
    <2>3. ~InboundLoop
      <3>1. InboundLoop => sent' = sent
        BY DEF InboundLoop, HandleStatus, HandleStop, RejectInbound, Dispatch
      <3>2. QED
        BY <1>0, <2>1, <3>1
    <2>4. QED
      BY <1>0, <2>1, <2>2, <2>3 DEF Taken
  <1>3. CASE UNCHANGED <<inbound, sent>>
    <2>1. ~InboundLoop
      <3>1. InboundLoop => inbound # <<>> /\ inbound' = Tail(inbound)
        BY DEF InboundLoop, HandleStatus, HandleStop, RejectInbound, Dispatch
      <3>2. inbound # <<>> => Len(Tail(inbound)) = Len(inbound) - 1
        BY <1>0, HeadTailProperties
      <3>3. QED
        BY <1>0, <1>3, <3>1, <3>2
    <2>2. QED
      BY <1>0, <1>3, <2>1 DEF Taken
  <1>4. QED
    BY <1>1, <1>2, <1>3
       DEF Next, vars, DeliverOutbound, GrantPermit, CleanPool, Tick,
           SessionWorker, TakeMessage, RetireWorker, Retire, RearmWorker,
           LookupFails, BeginRun, AgentStep, EndRun, ReleaseAgent

\* A full mailbox shifts by one when a message is put, another one does not.
LEMMA PutShifts ==
  ASSUME NEW q \in Seq(Message), NEW m \in Message, MailboxSize \in Nat \ {0}
  PROVE  \E d \in {0, 1} : \A j \in 1 .. Len(PutDroppingOldest(q, m)) :
            \/ PutDroppingOldest(q, m)[j] = m /\ j = Len(q) - d + 1
            \/ /\ j + d \in 1 .. Len(q) /\ j # Len(q) - d + 1
               /\ PutDroppingOldest(q, m)[j] = q[j + d]
  <1>0. Len(q) \in Nat
    BY LenProperties
  <1>1. CASE Len(q) >= MailboxSize
    <2>1. q # <<>>
      BY <1>1, EmptySeq
    <2>2. /\ Tail(q) \in Seq(Message) /\ Len(Tail(q)) = Len(q) - 1
          /\ \A i \in 1 .. Len(Tail(q)) : Tail(q)[i] = q[i + 1]
      BY <2>1, HeadTailProperties
    <2>3. PutDroppingOldest(q, m) = Append(Tail(q), m)
      BY <1>1 DEF PutDroppingOldest
    <2>4. /\ Len(Append(Tail(q), m)) = Len(q)
          /\ Append(Tail(q), m)[Len(q)] = m
          /\ \A i \in 1 .. Len(q) - 1 : Append(Tail(q), m)[i] = q[i + 1]
      BY <1>0, <2>2, AppendProperties
    <2>5. \A j \in 1 .. Len(q) : j = Len(q) \/ (j \in 1 .. Len(q) - 1 /\ j + 1 \in 1 .. Len(q) /\ j # Len(q))
      BY <1>0
    <2>6. QED
      BY <1>0, <2>3, <2>4, <2>5
  <1>2. CASE ~(Len(q) >= MailboxSize)
    <2>1. PutDroppingOldest(q, m) = Append(q, m)
      BY <1>2 DEF PutDroppingOldest
    <2>2. /\ Len(Append(q, m)) = Len(q) + 1
          /\ Append(q, m)[Len(q) + 1] = m
          /\ \A i \in 1 .. Len(q) : Append(q, m)[i] = q[i]
      BY AppendProperties
    <2>3. \A j \in 1 .. Len(q) + 1 : j = Len(q) + 1 \/ (j \in 1 .. Len(q) /\ j + 0 = j /\ j # Len(q) + 1)
      BY <1>0
    <2>4. QED
      BY <1>0, <2>1, <2>2, <2>3
  <1>3. QED
    BY <1>1, <1>2

\* A step that moves no message keeps OnePlace and, if it sends no error, Final.
LEMMA StillMail ==
  ASSUME IInv, OnePlace, Final, Taken \in Nat, Taken' \in Nat, Taken' >= Taken,
         \A s \in Sessions : mailbox'[s] = mailbox[s] \/ mailbox'[s] = <<>>,
         \A t \in Tasks : held'[t] = held[t] \/ held'[t] = None
  PROVE  /\ OnePlace'
         /\ UNCHANGED outbound => Final'
  <1>0. /\ \A s \in Sessions : mailbox[s] \in Seq(Message)
        /\ held \in [Tasks -> Message \cup {None}]
        /\ outbound \in Seq(Replies)
    BY DEF IInv, TypeOK
  <1>1. \A s \in Sessions : \A i \in 1 .. Len(mailbox'[s]) :
           mailbox'[s] = mailbox[s] /\ i \in 1 .. Len(mailbox[s])
    BY EmptySeq
  <1>2. \A s \in Sessions : \A i \in 1 .. Len(mailbox[s]) : mailbox[s][i].id \in Nat
    <2>1. \A s \in Sessions : \A i \in 1 .. Len(mailbox[s]) : mailbox[s][i] \in Message
      BY <1>0, ElementOfSeq
    <2>2. QED
      BY <2>1, BusAssumption DEF Message, BusAssumption
  <1>3. \A t \in Tasks : held[t] # None => held[t].id \in Nat
    BY <1>0, BusAssumption DEF Message, BusAssumption
  <1>4. \A o \in 1 .. Len(outbound) : outbound[o].id \in Nat
    <2>1. \A o \in 1 .. Len(outbound) : outbound[o] \in Replies
      BY <1>0, ElementOfSeq
    <2>2. QED
      BY <2>1, BusAssumption DEF Replies, BusAssumption
  <1>5. OnePlace'
    <2>1. \A s \in Sessions : \A i \in 1 .. Len(mailbox'[s]) : mailbox'[s][i].id <= Taken'
      BY <1>1, <1>2 DEF OnePlace
    <2>2. \A t \in Tasks : held'[t] # None => held'[t] = held[t] /\ held'[t].id <= Taken'
      BY <1>3 DEF OnePlace
    <2>3. \A s, x \in Sessions : \A i \in 1 .. Len(mailbox'[s]), j \in 1 .. Len(mailbox'[x]) :
             mailbox'[s][i].id = mailbox'[x][j].id => s = x /\ i = j
      BY <1>1 DEF OnePlace
    <2>4. \A t \in Tasks : held'[t] # None =>
             /\ \A s \in Sessions : \A i \in 1 .. Len(mailbox'[s]) : mailbox'[s][i].id # held'[t].id
             /\ \A u \in Tasks : held'[u] # None /\ held'[u].id = held'[t].id => u = t
      BY <1>1, <2>2 DEF OnePlace
    <2>5. QED
      BY <2>1, <2>2, <2>3, <2>4 DEF OnePlace
  <1>6. ASSUME UNCHANGED outbound PROVE Final'
    <2>1. \A o \in 1 .. Len(outbound) : outbound[o].what = "error" => outbound[o].id <= Taken'
      BY <1>4 DEF Final
    <2>2. QED
      BY <1>1, <1>6, <2>1 DEF Final
  <1>7. QED
    BY <1>5, <1>6

\* What a worker has finished with, or had an error for, has left the bus.
LEMMA ErrorLast ==
  ASSUME IInv, OnePlace, Final, NEW t \in Tasks, held[t] # None,
         UNCHANGED <<mailbox, Taken>>, held' = [held EXCEPT ![t] = None],
         PushReply(held[t], "error")
  PROVE  Final'
  <1>0. /\ held \in [Tasks -> Message \cup {None}]
        /\ outbound \in Seq(Replies) /\ held[t] \in Message
    BY DEF IInv, TypeOK
  <1> DEFINE r == [id |-> held[t].id, what |-> "error"]
  <1>1. outbound' = Append(outbound, r) /\ r \in Replies /\ r.id = held[t].id
    BY <1>0 DEF PushReply, Replies, Message
  <1> HIDE DEF r
  <1>2. /\ Len(outbound') = Len(outbound) + 1 /\ Len(outbound) \in Nat
        /\ outbound'[Len(outbound) + 1] = r
        /\ \A o \in 1 .. Len(outbound) : outbound'[o] = outbound[o]
    BY <1>0, <1>1, AppendProperties, LenProperties
  <1>3. \A o \in 1 .. Len(outbound') : o \in 1 .. Len(outbound) \/ o = Len(outbound) + 1
    BY <1>2
  <1>4. \A u \in Tasks : held'[u] # None => held'[u] = held[u] /\ u # t
    BY <1>0
  <1>5. /\ r.id <= Taken
        /\ \A s \in Sessions : \A i \in 1 .. Len(mailbox[s]) : mailbox[s][i].id # r.id
        /\ \A u \in Tasks : held'[u] # None => held'[u].id # r.id
    BY <1>1, <1>4 DEF OnePlace
  <1>6. ASSUME NEW o \in 1 .. Len(outbound'), outbound'[o].what = "error"
        PROVE  /\ outbound'[o].id <= Taken
               /\ \A s \in Sessions : \A i \in 1 .. Len(mailbox[s]) : mailbox[s][i].id # outbound'[o].id
               /\ \A u \in Tasks : held'[u] # None => held'[u].id # outbound'[o].id
    <2>1. CASE o \in 1 .. Len(outbound)
      BY <1>2, <1>4, <1>6, <2>1 DEF Final
    <2>2. CASE o = Len(outbound) + 1
      BY <1>2, <1>5, <2>2
    <2>3. QED
      BY <1>3, <2>1, <2>2
  <1>7. QED
    BY <1>6 DEF Final

\* The messages keep their places apart, and an error stays the last word.
LEMMA FinalStep == IInv /\ OnePlace /\ Final /\ [Next]_vars => OnePlace' /\ Final'
  <1> SUFFICES ASSUME IInv, OnePlace, Final, [Next]_vars PROVE OnePlace' /\ Final'
    OBVIOUS
  <1> USE DEF queueVars, sessionVars, taskVars, poolVars
  <1>0. /\ \A s \in Sessions : mailbox[s] \in Seq(Message)
        /\ mailbox \in [Sessions -> Seq(Message)]
        /\ held \in [Tasks -> Message \cup {None}]
        /\ serves \in [Tasks -> Sessions \cup {None}]
        /\ pc \in [Tasks -> PCs]
        /\ outbound \in Seq(Replies) /\ Len(outbound) \in Nat
    BY LenProperties DEF IInv, TypeOK
  <1>00. Taken \in Nat /\ Taken' \in Nat /\ Taken' >= Taken
    BY TakenStep
  <1>10. \A s \in Sessions : \A i \in 1 .. Len(mailbox[s]) :
            mailbox[s][i] \in Message /\ mailbox[s][i].id \in Nat
    <2>1. \A m \in Message : m.id \in Nat
      BY BusAssumption DEF Message, BusAssumption
    <2>2. QED
      BY <1>0, <2>1, ElementOfSeq
  <1>11. \A t \in Tasks : held[t] # None => held[t] \in Message /\ held[t].id \in Nat
    BY <1>0, BusAssumption DEF Message, BusAssumption
  <1>12. \A o \in 1 .. Len(outbound) : outbound[o] \in Replies /\ outbound[o].id \in Nat
    <2>1. \A r \in Replies : r.id \in Nat
      BY BusAssumption DEF Replies, BusAssumption
    <2>2. QED
      BY <1>0, <2>1, ElementOfSeq
  <1>1. CASE UNCHANGED <<mailbox, held, outbound>>
    BY <1>1, <1>00, StillMail
  <1>2. CASE DeliverOutbound
    <2>1. OnePlace'
      BY <1>2, <1>00, StillMail DEF DeliverOutbound
    <2>2. outbound # <<>> /\ outbound' = Tail(outbound) /\ UNCHANGED <<mailbox, held, inbound, sent>>
      BY <1>2 DEF DeliverOutbound
    <2>3. /\ Len(outbound') = Len(outbound) - 1
          /\ \A o \in 1 .. Len(outbound') : outbound'[o] = outbound[o + 1]
      BY <1>0, <2>2, HeadTailProperties
    <2>4. \A o \in 1 .. Len(outbound') : o + 1 \in 1 .. Len(outbound)
      BY <1>0, <2>3
    <2>5. QED
      BY <2>1, <2>2, <2>3, <2>4 DEF Final, Taken
  <1>3. CASE HandleStatus \/ HandleStop \/ RejectInbound
    <2> DEFINE m == Head(inbound)
    <2>1. UNCHANGED <<mailbox, held>>
      BY <1>3 DEF HandleStatus, HandleStop, RejectInbound
    <2>2. OnePlace'
      BY <1>00, <2>1, StillMail
    <2>3. PICK w \in {"stopSent", "noAgent", "status", "error"} : PushReply(m, w)
      BY <1>3 DEF HandleStatus, HandleStop, RejectInbound
    <2>4. m \in Message /\ m.id = Taken + 1 /\ Taken' = Taken + 1
      BY <1>3, <1>00, TakenStep DEF InboundLoop
    <2> DEFINE r == [id |-> m.id, what |-> w]
    <2>5. outbound' = Append(outbound, r) /\ r \in Replies /\ r.id = Taken + 1
      BY <2>3, <2>4 DEF PushReply, Replies, Message
    <2> HIDE DEF r, m
    <2>6. /\ Len(outbound') = Len(outbound) + 1
          /\ outbound'[Len(outbound) + 1] = r
          /\ \A o \in 1 .. Len(outbound) : outbound'[o] = outbound[o]
      BY <1>0, <2>5, AppendProperties
    <2>7. ASSUME NEW o \in 1 .. Len(outbound'), outbound'[o].what = "error"
          PROVE  /\ outbound'[o].id <= Taken'
                 /\ \A s \in Sessions : \A i \in 1 .. Len(mailbox[s]) : mailbox[s][i].id # outbound'[o].id
                 /\ \A u \in Tasks : held[u] # None => held[u].id # outbound'[o].id
      <3>1. CASE o \in 1 .. Len(outbound)
        <4>1. outbound'[o] = outbound[o] /\ outbound[o].id \in Nat
          BY <1>12, <2>6, <3>1
        <4>2. outbound[o].id <= Taken
          BY <2>7, <3>1, <4>1 DEF Final
        <4>3. outbound[o].id <= Taken'
          BY <1>00, <4>1, <4>2
        <4>4. QED
          BY <2>7, <3>1, <4>1, <4>3 DEF Final
      <3>2. CASE o = Len(outbound) + 1
        <4>1. outbound'[o].id = Taken + 1
          BY <2>5, <2>6, <3>2
        <4>2. \A n \in Nat : n <= Taken => n # Taken + 1
          BY <1>00
        <4>3. QED
          BY <1>10, <1>11, <1>00, <2>4, <4>1, <4>2 DEF OnePlace
      <3>3. QED
        BY <1>0, <2>6, <3>1, <3>2
    <2>8. QED
      BY <2>1, <2>2, <2>7 DEF Final
  <1>4. CASE Dispatch
    <2> DEFINE m == Head(inbound)
               s == m.session
    <2>1. m \in Message /\ m.id = Taken + 1 /\ Taken' = Taken + 1
      BY <1>4, <1>00, TakenStep DEF InboundLoop
    <2>2. s \in Sessions
      BY <1>4, <2>1 DEF Dispatch, Message
    <2>3. mailbox' = [mailbox EXCEPT ![s] = PutDroppingOldest(@, m)] /\ UNCHANGED <<held, outbound>>
      BY <1>4 DEF Dispatch
    <2> HIDE DEF m, s
    <2>4. PICK d \in {0, 1} : \A j \in 1 .. Len(PutDroppingOldest(mailbox[s], m)) :
            \/ PutDroppingOldest(mailbox[s], m)[j] = m /\ j = Len(mailbox[s]) - d + 1
            \/ /\ j + d \in 1 .. Len(mailbox[s]) /\ j # Len(mailbox[s]) - d + 1
               /\ PutDroppingOldest(mailbox[s], m)[j] = mailbox[s][j + d]
      BY <1>0, <2>1, <2>2, BusAssumption, PutShifts DEF BusAssumption
    <2>5. \A j \in 1 .. Len(mailbox'[s]) :
            \/ mailbox'[s][j] = m /\ j = Len(mailbox[s]) - d + 1
            \/ /\ j + d \in 1 .. Len(mailbox[s]) /\ j # Len(mailbox[s]) - d + 1
               /\ mailbox'[s][j] = mailbox[s][j + d]
      BY <1>0, <2>2, <2>3, <2>4
    <2>6. \A x \in Sessions \ {s} : mailbox'[x] = mailbox[x]
      BY <1>0, <2>2, <2>3
    <2>7. \A x \in Sessions : \A j \in 1 .. Len(mailbox'[x]) :
            \/ x = s /\ mailbox'[x][j].id = Taken + 1 /\ j = Len(mailbox[s]) - d + 1
            \/ \E i \in 1 .. Len(mailbox[x]) :
                  mailbox'[x][j] = mailbox[x][i] /\ i = IF x = s THEN j + d ELSE j
      BY <2>1, <2>5, <2>6
    <2>8. \A n \in Nat : n <= Taken => n # Taken + 1 /\ n <= Taken'
      BY <1>00, <2>1
    <2>9. \A x \in Sessions : \A i \in 1 .. Len(mailbox[x]) :
             mailbox[x][i].id # Taken + 1 /\ mailbox[x][i].id <= Taken'
      BY <1>10, <2>8 DEF OnePlace
    <2>10. \A x \in Sessions : \A j \in 1 .. Len(mailbox'[x]) : mailbox'[x][j].id <= Taken'
      BY <1>00, <2>1, <2>7, <2>9
    <2>11. ASSUME NEW x \in Sessions, NEW y \in Sessions,
                  NEW i \in 1 .. Len(mailbox'[x]), NEW j \in 1 .. Len(mailbox'[y]),
                  mailbox'[x][i].id = mailbox'[y][j].id
           PROVE  x = y /\ i = j
      <3>1. CASE x = s /\ mailbox'[x][i].id = Taken + 1 /\ i = Len(mailbox[s]) - d + 1
        <4>1. mailbox'[y][j].id = Taken + 1
          BY <2>11, <3>1
        <4>2. ASSUME NEW k \in 1 .. Len(mailbox[y]), mailbox'[y][j] = mailbox[y][k]
              PROVE  FALSE
          <5>1. mailbox[y][k].id # Taken + 1
            BY <2>9
          <5>2. QED
            BY <4>1, <4>2, <5>1
        <4>3. y = s /\ j = Len(mailbox[s]) - d + 1
          BY <2>7, <4>2
        <4>4. QED
          BY <3>1, <4>3
      <3>2. CASE y = s /\ mailbox'[y][j].id = Taken + 1 /\ j = Len(mailbox[s]) - d + 1
        <4>1. mailbox'[x][i].id = Taken + 1
          BY <2>11, <3>2
        <4>2. ASSUME NEW k \in 1 .. Len(mailbox[x]), mailbox'[x][i] = mailbox[x][k]
              PROVE  FALSE
          <5>1. mailbox[x][k].id # Taken + 1
            BY <2>9
          <5>2. QED
            BY <4>1, <4>2, <5>1
        <4>3. x = s /\ i = Len(mailbox[s]) - d + 1
          BY <2>7, <4>2
        <4>4. QED
          BY <3>2, <4>3
      <3>3. ASSUME NEW a \in 1 .. Len(mailbox[x]), NEW b \in 1 .. Len(mailbox[y]),
                   mailbox'[x][i] = mailbox[x][a], a = IF x = s THEN i + d ELSE i,
                   mailbox'[y][j] = mailbox[y][b], b = IF y = s THEN j + d ELSE j
            PROVE  x = y /\ i = j
        <4>1. x = y /\ a = b
          BY <2>11, <3>3 DEF OnePlace
        <4>2. \A k, l \in Int : k + d = l + d => k = l
          OBVIOUS
        <4>3. QED
          BY <3>3, <4>1, <4>2
      <3>4. QED
        BY <2>7, <3>1, <3>2, <3>3
    <2>12. \A t \in Tasks : held[t] # None => held[t].id # Taken + 1 /\ held[t].id <= Taken'
      BY <1>11, <2>8 DEF OnePlace
    <2>13. \A t \in Tasks : held[t] # None =>
              \A x \in Sessions : \A j \in 1 .. Len(mailbox'[x]) : mailbox'[x][j].id # held[t].id
      BY <2>7, <2>12 DEF OnePlace
    <2>14. OnePlace'
      BY <2>3, <2>10, <2>11, <2>12, <2>13 DEF OnePlace
    <2>15. Final'
      <3>1. ASSUME NEW o \in 1 .. Len(outbound), outbound[o].what = "error"
            PROVE  /\ outbound[o].id <= Taken' /\ outbound[o].id # Taken + 1
                   /\ \A x \in Sessions : \A i \in 1 .. Len(mailbox[x]) : mailbox[x][i].id # outbound[o].id
        <4>1. outbound[o].id \in Nat /\ outbound[o].id <= Taken
          BY <1>12, <3>1 DEF Final
        <4>2. outbound[o].id <= Taken' /\ outbound[o].id # Taken + 1
          BY <2>8, <4>1
        <4>3. QED
          BY <3>1, <4>2 DEF Final
      <3>2. QED
        BY <2>3, <2>7, <3>1 DEF Final
    <2>16. QED
      BY <2>14, <2>15
  <1>5. ASSUME NEW t \in Tasks, TakeMessage(t) PROVE OnePlace' /\ Final'
    <2> DEFINE s == serves[t]
               m == Head(mailbox[s])
    <2>1. /\ pc[t] = "waiting" /\ mailbox[s] # <<>>
          /\ held' = [held EXCEPT ![t] = m]
          /\ mailbox' = [mailbox EXCEPT ![s] = Tail(@)]
          /\ UNCHANGED <<outbound, inbound, sent>>
      BY <1>5 DEF TakeMessage
    <2>2. s \in Sessions
      BY <2>1 DEF IInv, TypeOK, Workers, OneWorkerPerMailbox
    <2> HIDE DEF s, m
    <2>3. /\ 1 \in 1 .. Len(mailbox[s]) /\ m = mailbox[s][1] /\ Len(mailbox[s]) \in Nat
          /\ Len(Tail(mailbox[s])) = Len(mailbox[s]) - 1
          /\ \A j \in 1 .. Len(Tail(mailbox[s])) : Tail(mailbox[s])[j] = mailbox[s][j + 1]
      <3>1. mailbox[s] \in Seq(Message) /\ mailbox[s] # <<>>
        BY <1>0, <2>1, <2>2
      <3>2. Len(mailbox[s]) \in Nat \ {0}
        BY <3>1, LenProperties, EmptySeq
      <3>3. QED
        BY <3>1, <3>2, HeadTailProperties DEF m
    <2>4. \A x \in Sessions : \A j \in 1 .. Len(mailbox'[x]) :
            \E i \in 1 .. Len(mailbox[x]) :
               /\ mailbox'[x][j] = mailbox[x][i]
               /\ IF x = s THEN i = j + 1 /\ i # 1 ELSE i = j
      <3>1. mailbox'[s] = Tail(mailbox[s])
        BY <1>0, <2>1, <2>2
      <3>2. \A x \in Sessions \ {s} : mailbox'[x] = mailbox[x]
        BY <1>0, <2>1, <2>2
      <3>3. \A j \in 1 .. Len(mailbox'[s]) : j + 1 \in 1 .. Len(mailbox[s]) /\ j + 1 # 1
        BY <2>3, <3>1
      <3>4. QED
        BY <2>3, <3>1, <3>2, <3>3
    <2>5. held'[t] = m /\ \A u \in Tasks \ {t} : held'[u] = held[u]
      BY <1>0, <2>1
    <2>6. Taken' = Taken
      BY <2>1 DEF Taken
    <2>7. \A x \in Sessions : \A j \in 1 .. Len(mailbox'[x]) :
             mailbox'[x][j].id <= Taken /\ mailbox'[x][j].id # m.id
      <3>1. ASSUME NEW x \in Sessions, NEW j \in 1 .. Len(mailbox'[x])
            PROVE  mailbox'[x][j].id <= Taken /\ mailbox'[x][j].id # m.id
        <4>1. PICK i \in 1 .. Len(mailbox[x]) :
                mailbox'[x][j] = mailbox[x][i] /\ (x = s => i # 1)
          BY <2>4
        <4>2. mailbox[x][i].id <= Taken
          BY DEF OnePlace
        <4>3. mailbox[x][i].id # mailbox[s][1].id
          BY <2>2, <2>3, <4>1 DEF OnePlace
        <4>4. QED
          BY <2>3, <4>1, <4>2, <4>3
      <3>2. QED
        BY <3>1
    <2>8. ASSUME NEW x \in Sessions, NEW y \in Sessions,
                  NEW i \in 1 .. Len(mailbox'[x]), NEW j \in 1 .. Len(mailbox'[y]),
                  mailbox'[x][i].id = mailbox'[y][j].id
          PROVE  x = y /\ i = j
      <3>1. PICK a \in 1 .. Len(mailbox[x]) :
              mailbox'[x][i] = mailbox[x][a] /\ IF x = s THEN a = i + 1 ELSE a = i
        BY <2>4
      <3>2. PICK b \in 1 .. Len(mailbox[y]) :
              mailbox'[y][j] = mailbox[y][b] /\ IF y = s THEN b = j + 1 ELSE b = j
        BY <2>4
      <3>3. x = y /\ a = b
        BY <2>8, <3>1, <3>2 DEF OnePlace
      <3>4. QED
        BY <3>1, <3>2, <3>3
    <2>9. ASSUME NEW u \in Tasks, held'[u] # None
          PROVE  /\ held'[u].id <= Taken
                 /\ \A x \in Sessions : \A j \in 1 .. Len(mailbox'[x]) : mailbox'[x][j].id # held'[u].id
                 /\ \A v \in Tasks : held'[v] # None /\ held'[v].id = held'[u].id => v = u
      <3>1. m.id <= Taken /\ \A v \in Tasks : held[v] # None => held[v].id # m.id
        BY <2>2, <2>3 DEF OnePlace
      <3>2. CASE u = t
        BY <2>5, <2>7, <3>1, <3>2
      <3>3. CASE u # t
        BY <2>4, <2>5, <2>9, <3>1, <3>3 DEF OnePlace
      <3>4. QED
        BY <3>2, <3>3
    <2>10. OnePlace'
      BY <2>6, <2>7, <2>8, <2>9 DEF OnePlace
    <2>11. Final'
      BY <2>1, <2>2, <2>3, <2>4, <2>5, <2>6 DEF Final
    <2>12. QED
      BY <2>10, <2>11
  <1>6. ASSUME NEW t \in Tasks, RetireWorker(t) PROVE OnePlace' /\ Final'
    <2>1. mailbox' = [mailbox EXCEPT ![serves[t]] = <<>>] /\ UNCHANGED <<held, outbound>>
      BY <1>6 DEF RetireWorker, Retire
    <2>2. \A s \in Sessions : mailbox'[s] = mailbox[s] \/ mailbox'[s] = <<>>
      BY <1>0, <2>1
    <2>3. QED
      BY <1>00, <2>1, <2>2, StillMail
  <1>7. ASSUME NEW t \in Tasks, LookupFails(t) \/ EndRun(t) PROVE OnePlace' /\ Final'
    <2>1. /\ held' = [held EXCEPT ![t] = None] /\ UNCHANGED <<mailbox, inbound, sent>>
          /\ UNCHANGED outbound \/ PushReply(held[t], "error")
          /\ pc[t] \in Busy
      BY <1>7 DEF LookupFails, EndRun, ReleaseAgent, BackToMailbox, Busy
    <2>2. held[t] # None
      BY <2>1 DEF IInv, HeldWhileBusy
    <2>3. \A u \in Tasks : held'[u] = held[u] \/ held'[u] = None
      BY <1>0, <2>1
    <2>4. UNCHANGED Taken
      BY <2>1 DEF Taken
    <2>5. QED
      BY <1>00, <2>1, <2>2, <2>3, <2>4, StillMail, ErrorLast
  <1>8. QED
    BY <1>1, <1>2, <1>3, <1>4, <1>5, <1>6, <1>7
       DEF Next, vars, PushInbound, InboundLoop, GrantPermit, CleanPool, Tick,
           SessionWorker, RearmWorker, BeginRun, AgentStep

\* ErrorIsFinal with positions for elements.
LEMMA FinalIsFinal == IInv /\ Final => ErrorIsFinal
  <1> SUFFICES ASSUME IInv, Final PROVE ErrorIsFinal
    OBVIOUS
  <1>1. /\ outbound \in Seq(Replies) /\ DOMAIN outbound = 1 .. Len(outbound)
        /\ \A s \in Sessions : DOMAIN mailbox[s] = 1 .. Len(mailbox[s])
    BY LenProperties DEF IInv, TypeOK
  <1>2. QED
    BY <1>1 DEF ErrorIsFinal, Final, Elements

\* A message is handled under a permit, at most Concurrency at a time, nobody
\* who waits for one is forgotten, and an error is the last word on a message
\* (queues.py:204-233).
THEOREM HandlingStaysSound == Spec => []HandlingSound
  <1>1. Spec => [](Permits /\ OnePlace /\ Final)
    <2>1. Init => Permits /\ OnePlace /\ Final
      BY InitPermits, InitFinal
    <2>2. IInv /\ (Permits /\ OnePlace /\ Final) /\ [Next]_vars
             => (Permits /\ OnePlace /\ Final)'
      BY PermitsStep, FinalStep
    <2>3. QED
      BY <2>1, <2>2, Invariance, PTL DEF Spec
  <1>2. IInv /\ (Permits /\ OnePlace /\ Final) => HandlingSound
    BY PermitsAreSound, FinalIsFinal DEF HandlingSound
  <1>3. QED
    BY <1>1, <1>2, Invariance, PTL
=============================================================================
