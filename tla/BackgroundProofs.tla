-------------------------- MODULE BackgroundProofs --------------------------
(***************************************************************************)
(* Proofs about the services that run beside the agents: the pool of MCP   *)
(* connections, the WebSocket channel, the scheduler of jobs, the          *)
(* connection to the database between startup and shutdown, and the lock   *)
(* and the queue of the redis client.                                      *)
(***************************************************************************)
EXTENDS Cron, WebSocketChannel, McpPool, AppServices, RedisClient, SequenceTheorems, FiniteSetTheorems, TLAPS

-----------------------------------------------------------------------------
(***************************************************************************)
(* The pool of MCP connections.  The invariant adds to what is to be shown *)
(* who stands in line for the lock of the key, that only its holder connects *)
(* and only while there is no connection, and that nobody who shares the   *)
(* connection has fetched it later than its last use.                      *)
(***************************************************************************)

\* A line of waiters, each of whom stands in it once: who joins it and who
\* leaves it at the front.
LEMMA LineJoined ==
    ASSUME NEW S, NEW q \in Seq(S), NEW a \in S, IsInjective(q), a \notin ToSet(q)
    PROVE /\ Append(q, a) \in Seq(S) /\ IsInjective(Append(q, a))
          /\ ToSet(Append(q, a)) = ToSet(q) \cup {a}
          /\ Len(Append(q, a)) = Len(q) + 1
          /\ \A i \in 1 .. Len(Append(q, a)) :
                Append(q, a)[i] = IF i = Len(q) + 1 THEN a ELSE q[i]
<1> DEFINE p == Append(q, a)
<1>1. Len(q) \in Nat /\ DOMAIN q = 1 .. Len(q)
  OBVIOUS
<1>2. /\ p \in Seq(S) /\ Len(p) = Len(q) + 1 /\ DOMAIN p = 1 .. Len(q) + 1
      /\ \A i \in 1 .. Len(q) : p[i] = q[i]
      /\ p[Len(q) + 1] = a
  BY AppendProperties
<1> HIDE DEF p
<1>3. \A i \in 1 .. Len(p) : i \in 1 .. Len(q) \/ i = Len(q) + 1
  BY <1>1, <1>2
<1>4. \A i \in 1 .. Len(p) : p[i] = IF i = Len(q) + 1 THEN a ELSE q[i]
  BY <1>1, <1>2, <1>3
<1>5. ToSet(p) = ToSet(q) \cup {a}
  <2>1. \A x \in ToSet(p) : x \in ToSet(q) \cup {a}
    BY <1>1, <1>2, <1>3 DEF ToSet
  <2>2. 1 .. Len(q) \subseteq DOMAIN p /\ Len(q) + 1 \in DOMAIN p
    BY <1>1, <1>2
  <2>3. \A x \in ToSet(q) \cup {a} : x \in ToSet(p)
    BY <1>1, <1>2, <2>2 DEF ToSet
  <2> QED BY <2>1, <2>3
<1>6. IsInjective(p)
  <2>1. \A i \in 1 .. Len(q) : q[i] # a
    BY <1>1 DEF ToSet
  <2> QED BY <1>1, <1>2, <1>3, <2>1 DEF IsInjective
<1> QED BY <1>2, <1>4, <1>5, <1>6 DEF p

LEMMA LineLeft ==
    ASSUME NEW S, NEW q \in Seq(S), q # <<>>, IsInjective(q)
    PROVE /\ Tail(q) \in Seq(S) /\ IsInjective(Tail(q))
          /\ Head(q) \in S /\ ToSet(Tail(q)) = ToSet(q) \ {Head(q)}
          /\ Len(Tail(q)) = Len(q) - 1
          /\ \A i \in 1 .. Len(Tail(q)) : Tail(q)[i] = q[i + 1]
<1> DEFINE p == Tail(q)
<1>1. Len(q) \in Nat /\ Len(q) # 0 /\ DOMAIN q = 1 .. Len(q)
  BY EmptySeq
<1>2. /\ p \in Seq(S) /\ Len(p) = Len(q) - 1 /\ Head(q) = q[1] /\ Head(q) \in S
      /\ \A i \in 1 .. Len(p) : p[i] = q[i + 1]
  BY HeadTailProperties
<1>3. DOMAIN p = 1 .. Len(p)
  BY <1>2
<1> HIDE DEF p
<1>4. \A i \in 1 .. Len(p) : i + 1 \in 1 .. Len(q) /\ i + 1 # 1
  BY <1>1, <1>2
<1>5. \A i \in 1 .. Len(q) : i = 1 \/ (i - 1 \in 1 .. Len(p) /\ (i - 1) + 1 = i)
  BY <1>1, <1>2
<1>6. 1 \in 1 .. Len(q)
  BY <1>1
<1>7. \A i, j \in 1 .. Len(q) : q[i] = q[j] => i = j
  BY <1>1 DEF IsInjective
<1>8. IsInjective(p)
  <2>1. \A i, j \in 1 .. Len(p) : p[i] = p[j] => i + 1 = j + 1
    BY <1>2, <1>4, <1>7
  <2> QED BY <1>3, <2>1 DEF IsInjective
<1>9. ToSet(p) = ToSet(q) \ {Head(q)}
  <2>1. \A x \in ToSet(p) : x \in ToSet(q) \ {Head(q)}
    BY <1>1, <1>2, <1>3, <1>4, <1>6, <1>7 DEF ToSet
  <2>2. ASSUME NEW x \in ToSet(q), x # Head(q) PROVE x \in ToSet(p)
    <3>1. PICK i \in 1 .. Len(q) : q[i] = x
      BY <1>1 DEF ToSet
    <3>2. i # 1
      BY <1>2, <2>2, <3>1
    <3>3. i - 1 \in 1 .. Len(p) /\ p[i - 1] = x
      BY <1>2, <1>5, <3>1, <3>2
    <3> QED BY <1>3, <3>3 DEF ToSet
  <2> QED BY <2>1, <2>2
<1> QED BY <1>2, <1>8, <1>9 DEF p

McpCalls == [pc : {"none", "lock", "connect"}, age : 0 .. Expired]
McpSessions == [conn : Conns \cup {NoConn, NoTools}, age : 0 .. Expired]

\* Who waits for the lock of the key, or holds it.
McpLine ==
    /\ mcpQueue \in Seq(McpAgents) /\ IsInjective(mcpQueue)
    /\ ToSet(mcpQueue) = {a \in McpAgents : mcpCall[a].pc # "none"}
    /\ \A i \in 2 .. Len(mcpQueue) : mcpCall[mcpQueue[i]].pc = "lock"

\* Nobody connects while there is a connection.
ConnectsAlone == \A a \in McpAgents : mcpCall[a].pc = "connect" => mcpEntry = NoConn

\* Whoever shares the connection in the table has fetched it before its last use,
\* or at that time.
SharersOlder ==
    mcpEntry \in Conns \ mcpSlow =>
        \A a \in McpAgents : mcpTools[a].conn = mcpEntry => mcpTools[a].age >= mcpAge

McpInv == McpTypeOK /\ McpLine /\ ConnectsAlone /\ McpOneOpen /\ SharersOlder /\ McpFreshTools

LEMMA McpNumbers == IdleTimeout \in Nat /\ Expired \in Nat /\ Expired = IdleTimeout + 1 /\ NoConn \notin Conns /\ NoTools \notin Conns
BY McpAssumption DEF McpAssumption, Expired

LEMMA AgedTyped == \A n \in 0 .. Expired : Aged(n) \in 0 .. Expired /\ Aged(n) >= n
BY McpNumbers DEF Aged

LEMMA AgedMonotone == \A m, n \in 0 .. Expired : m >= n => Aged(m) >= Aged(n)
BY McpNumbers DEF Aged

\* Only the agent in front of the line connects.
LEMMA ConnectsInFront ==
    ASSUME McpInv, NEW a \in McpAgents, mcpCall[a].pc # "none"
    PROVE  mcpQueue # <<>> /\ (mcpCall[a].pc = "connect" => Head(mcpQueue) = a)
<1>1. mcpQueue \in Seq(McpAgents) /\ Len(mcpQueue) \in Nat /\ a \in ToSet(mcpQueue)
  BY DEF McpInv, McpLine
<1>2. PICK i \in 1 .. Len(mcpQueue) : mcpQueue[i] = a
  BY <1>1 DEF ToSet
<1>3. mcpQueue # <<>>
  BY <1>1, <1>2, EmptySeq
<1>4. Head(mcpQueue) = mcpQueue[1]
  BY <1>1, <1>3, HeadTailProperties
<1>5. i # 1 => i \in 2 .. Len(mcpQueue)
  BY <1>1
<1>6. mcpCall[a].pc = "connect" => i = 1
  BY <1>2, <1>5 DEF McpInv, McpLine
<1> QED BY <1>2, <1>3, <1>4, <1>6

\* What a step does to the line: nothing, somebody joins, the first one leaves.
LEMMA LineStays ==
    ASSUME McpLine, mcpQueue' = mcpQueue,
           \A b \in McpAgents : mcpCall'[b].pc = "none" <=> mcpCall[b].pc = "none",
           \A b \in McpAgents : mcpCall'[b].pc # mcpCall[b].pc => mcpQueue # <<>> /\ b = Head(mcpQueue)
    PROVE McpLine'
<1>1. mcpQueue \in Seq(McpAgents) /\ Len(mcpQueue) \in Nat /\ DOMAIN mcpQueue = 1 .. Len(mcpQueue)
  BY DEF McpLine
<1>2. ASSUME NEW i \in 2 .. Len(mcpQueue) PROVE mcpCall'[mcpQueue[i]].pc = "lock"
  <2>1. i \in 1 .. Len(mcpQueue) /\ 1 \in 1 .. Len(mcpQueue) /\ i # 1 /\ Len(mcpQueue) # 0
    BY <1>1, <1>2
  <2>2. mcpQueue # <<>> => Head(mcpQueue) = mcpQueue[1]
    BY <1>1, HeadTailProperties
  <2>3. mcpQueue[i] # mcpQueue[1] /\ mcpQueue[i] \in McpAgents
    BY <1>1, <2>1 DEF McpLine, IsInjective
  <2> QED BY <1>2, <2>2, <2>3 DEF McpLine
<1> QED BY <1>2 DEF McpLine

LEMMA LineGrows ==
    ASSUME McpLine, NEW a \in McpAgents, mcpCall[a].pc = "none", mcpQueue' = Append(mcpQueue, a),
           \A b \in McpAgents : b # a => mcpCall'[b].pc = mcpCall[b].pc,
           mcpCall'[a].pc = IF mcpQueue = <<>> THEN "connect" ELSE "lock"
    PROVE McpLine'
<1>1. mcpQueue \in Seq(McpAgents) /\ IsInjective(mcpQueue) /\ a \notin ToSet(mcpQueue) /\ Len(mcpQueue) \in Nat
  BY DEF McpLine
<1>2. /\ mcpQueue' \in Seq(McpAgents) /\ IsInjective(mcpQueue')
      /\ ToSet(mcpQueue') = ToSet(mcpQueue) \cup {a}
      /\ Len(mcpQueue') = Len(mcpQueue) + 1
      /\ \A i \in 1 .. Len(mcpQueue') : mcpQueue'[i] = IF i = Len(mcpQueue) + 1 THEN a ELSE mcpQueue[i]
  BY ONLY <1>1, a \in McpAgents, mcpQueue' = Append(mcpQueue, a), LineJoined
<1>3. mcpCall'[a].pc # "none"
  OBVIOUS
<1>4. ToSet(mcpQueue') = {b \in McpAgents : mcpCall'[b].pc # "none"}
  BY <1>2, <1>3 DEF McpLine
<1>5. ASSUME NEW i \in 2 .. Len(mcpQueue') PROVE mcpCall'[mcpQueue'[i]].pc = "lock"
  <2>1. i \in 1 .. Len(mcpQueue') /\ (i = Len(mcpQueue) + 1 \/ i \in 2 .. Len(mcpQueue))
    BY <1>1, <1>2, <1>5
  <2>2. CASE i = Len(mcpQueue) + 1
    <3>1. Len(mcpQueue) # 0
      BY <1>1, <2>2, <1>5
    <3>2. mcpQueue # <<>>
      BY ONLY <3>1
    <3> QED BY <1>2, <2>1, <2>2, <3>2
  <2>3. CASE i \in 2 .. Len(mcpQueue)
    <3>1. i # Len(mcpQueue) + 1 /\ i \in 1 .. Len(mcpQueue)
      BY <1>1, <2>3
    <3>2. mcpQueue'[i] = mcpQueue[i] /\ mcpQueue[i] \in McpAgents
      BY <1>1, <1>2, <2>1, <3>1
    <3>3. mcpQueue[i] # a
      BY <1>1, <3>1 DEF ToSet
    <3>4. mcpCall[mcpQueue[i]].pc = "lock"
      BY <2>3 DEF McpLine
    <3> QED BY <3>2, <3>3, <3>4
  <2> QED BY <2>1, <2>2, <2>3
<1> QED BY <1>2, <1>4, <1>5 DEF McpLine

LEMMA LineShrinks ==
    ASSUME McpLine, mcpQueue # <<>>, mcpQueue' = Tail(mcpQueue),
           \A b \in McpAgents : b # Head(mcpQueue) => mcpCall'[b].pc = mcpCall[b].pc,
           mcpCall'[Head(mcpQueue)].pc = "none"
    PROVE McpLine'
<1>1. mcpQueue \in Seq(McpAgents) /\ IsInjective(mcpQueue) /\ Len(mcpQueue) \in Nat
  BY DEF McpLine
<1>2. /\ mcpQueue' \in Seq(McpAgents) /\ IsInjective(mcpQueue')
      /\ Head(mcpQueue) \in McpAgents /\ ToSet(mcpQueue') = ToSet(mcpQueue) \ {Head(mcpQueue)}
      /\ Len(mcpQueue') = Len(mcpQueue) - 1
      /\ \A i \in 1 .. Len(mcpQueue') : mcpQueue'[i] = mcpQueue[i + 1]
  BY ONLY <1>1, mcpQueue # <<>>, mcpQueue' = Tail(mcpQueue), LineLeft
<1>3. ToSet(mcpQueue') = {b \in McpAgents : mcpCall'[b].pc # "none"}
  BY <1>2 DEF McpLine
<1>4. ASSUME NEW i \in 2 .. Len(mcpQueue') PROVE mcpCall'[mcpQueue'[i]].pc = "lock"
  <2>1. i + 1 \in 2 .. Len(mcpQueue) /\ i \in 1 .. Len(mcpQueue')
    BY <1>1, <1>2, <1>4
  <2>2. mcpQueue'[i] = mcpQueue[i + 1] /\ mcpCall[mcpQueue[i + 1]].pc = "lock"
    BY <1>2, <2>1 DEF McpLine
  <2>3. mcpQueue'[i] \in ToSet(mcpQueue')
    <3>1. DOMAIN mcpQueue' = 1 .. Len(mcpQueue')
      BY <1>2
    <3> QED BY <2>1, <3>1 DEF ToSet
  <2>4. mcpQueue'[i] # Head(mcpQueue) /\ mcpQueue'[i] \in McpAgents
    BY <1>2, <2>3, <1>3
  <2> QED BY <2>2, <2>4
<1> QED BY <1>2, <1>3, <1>4 DEF McpLine

\* The types of what the steps write.
LEMMA McpTyped ==
    ASSUME McpInv
    PROVE /\ mcpEntry \in Conns \cup {NoConn} /\ mcpAge \in 0 .. Expired
          /\ mcpLine \in [Conns -> {"none", "open", "closing", "closed"}]
          /\ mcpCall \in [McpAgents -> McpCalls] /\ mcpTools \in [McpAgents -> McpSessions]
          /\ 0 \in 0 .. Expired /\ NoFetch \in McpCalls /\ NoFetch.pc = "none"
BY McpNumbers DEF McpInv, McpTypeOK, McpCalls, McpSessions, NoFetch

LEMMA GivenTo ==
    ASSUME McpInv, NEW a \in McpAgents, NEW c \in Conns \cup {NoConn, NoTools}, Given(a, c)
    PROVE /\ mcpTools' \in [McpAgents -> McpSessions]
          /\ mcpTools'[a].conn = c /\ mcpTools'[a].age = 0
          /\ \A b \in McpAgents : b # a => mcpTools'[b] = mcpTools[b]
<1>1. [conn |-> c, age |-> 0] \in McpSessions
  BY McpTyped DEF McpSessions
<1> QED BY <1>1, McpTyped DEF Given

LEMMA CallOver ==
    ASSUME McpInv, NEW a \in McpAgents, Fetched(a)
    PROVE /\ mcpCall' \in [McpAgents -> McpCalls] /\ mcpCall'[a].pc = "none"
          /\ \A b \in McpAgents : b # a => mcpCall'[b] = mcpCall[b]
BY McpTyped DEF Fetched

LEMMA CallGoes ==
    ASSUME McpInv, NEW a \in McpAgents, NEW pc \in {"lock", "connect"}, Fetching(a, pc)
    PROVE /\ mcpCall' \in [McpAgents -> McpCalls] /\ mcpCall'[a].pc = pc
          /\ \A b \in McpAgents : b # a => mcpCall'[b] = mcpCall[b]
<1>1. mcpCall \in [McpAgents -> McpCalls]
  BY McpTyped
<1> QED BY <1>1 DEF Fetching, McpCalls

\* The parts of the invariant, where they are put together again.
LEMMA McpTogether ==
    ASSUME mcpEntry' \in Conns \cup {NoConn}, mcpAge' \in 0 .. Expired,
           mcpLine' \in [Conns -> {"none", "open", "closing", "closed"}],
           mcpCall' \in [McpAgents -> McpCalls], mcpTools' \in [McpAgents -> McpSessions],
           McpLine', ConnectsAlone', McpOneOpen', SharersOlder', McpFreshTools'
    PROVE McpInv'
BY DEF McpInv, McpTypeOK, McpLine, McpCalls, McpSessions

LEMMA McpAsked == ASSUME McpInv, NEW a \in McpAgents, GetOrConnect(a) PROVE McpInv'
<1>1. UNCHANGED <<mcpEntry, mcpLine, mcpSlow>> /\ mcpCall[a].pc = "none"
  BY McpTyped DEF GetOrConnect, NoFetch
<1>2. CASE mcpEntry # NoConn
  <2>1. mcpAge' = 0 /\ Given(a, mcpEntry) /\ UNCHANGED <<mcpQueue, mcpCall>> /\ mcpEntry \in Conns
    BY <1>2, McpTyped DEF GetOrConnect
  <2>2. /\ mcpTools' \in [McpAgents -> McpSessions]
        /\ mcpTools'[a].conn = mcpEntry /\ mcpTools'[a].age = 0
        /\ \A b \in McpAgents : b # a => mcpTools'[b] = mcpTools[b]
    BY <2>1, GivenTo
  <2>3. \A b \in McpAgents : mcpTools'[b].age \in 0 .. Expired /\ mcpTools[b].age \in 0 .. Expired
    BY <2>2, McpTyped DEF McpSessions
  <2>4. SharersOlder'
    BY <2>1, <2>3 DEF SharersOlder
  <2>5. McpFreshTools'
    <3>1. mcpLine[mcpEntry] = "open"
      BY <2>1 DEF McpInv, McpOneOpen
    <3>2. \A b \in McpAgents : b # a => mcpTools'[b] = mcpTools[b]
      BY <2>2
    <3> QED BY <1>1, <2>2, <3>1, <3>2 DEF McpInv, McpFreshTools
  <2>6. ConnectsAlone' /\ McpOneOpen' /\ McpLine'
    BY <1>1, <2>1 DEF McpInv, ConnectsAlone, McpOneOpen, McpLine
  <2> QED BY <1>1, <2>1, <2>2, <2>4, <2>5, <2>6, McpTyped, McpTogether
<1>3. CASE mcpEntry = NoConn
  <2> DEFINE pc == IF mcpQueue = <<>> THEN "connect" ELSE "lock"
  <2>1. Fetching(a, pc) /\ mcpQueue' = Append(mcpQueue, a) /\ UNCHANGED <<mcpAge, mcpTools>>
    BY <1>3 DEF GetOrConnect
  <2>2. pc \in {"lock", "connect"}
    OBVIOUS
  <2> HIDE DEF pc
  <2>3. /\ mcpCall' \in [McpAgents -> McpCalls] /\ mcpCall'[a].pc = pc
        /\ \A b \in McpAgents : b # a => mcpCall'[b] = mcpCall[b]
    BY <2>1, <2>2, CallGoes
  <2>4. McpLine'
    BY <1>1, <2>1, <2>3, LineGrows DEF McpInv, pc
  <2>5. ConnectsAlone'
    BY <1>1, <1>3 DEF ConnectsAlone
  <2>6. McpOneOpen' /\ SharersOlder' /\ McpFreshTools'
    BY <1>1, <2>1 DEF McpInv, McpOneOpen, SharersOlder, McpFreshTools
  <2> QED BY <1>1, <2>1, <2>3, <2>4, <2>5, <2>6, McpTyped, McpTogether
<1> QED BY <1>2, <1>3

LEMMA LookedAgain == ASSUME McpInv, NEW a \in McpAgents, LookAgain(a) PROVE McpInv'
<1>1. UNCHANGED <<mcpEntry, mcpLine>> /\ mcpCall[a].pc = "lock" /\ Head(mcpQueue) = a /\ mcpQueue # <<>>
  BY ConnectsInFront DEF LookAgain
<1>2. CASE mcpEntry # NoConn
  <2>1. /\ mcpAge' = mcpCall[a].age /\ Given(a, mcpEntry) /\ Waited(a, mcpEntry)
        /\ Fetched(a) /\ mcpQueue' = Tail(mcpQueue) /\ mcpEntry \in Conns
    BY <1>2, McpTyped DEF LookAgain
  <2>2. /\ mcpTools' \in [McpAgents -> McpSessions]
        /\ mcpTools'[a].conn = mcpEntry /\ mcpTools'[a].age = 0
        /\ \A b \in McpAgents : b # a => mcpTools'[b] = mcpTools[b]
    BY <2>1, GivenTo
  <2>3. /\ mcpCall' \in [McpAgents -> McpCalls] /\ mcpCall'[a].pc = "none"
        /\ \A b \in McpAgents : b # a => mcpCall'[b] = mcpCall[b]
    BY <2>1, CallOver
  <2>4. mcpCall[a].age \in 0 .. Expired
    BY McpTyped DEF McpCalls
  <2>5. mcpSlow \subseteq mcpSlow' /\ (mcpCall[a].age > 0 => mcpEntry \in mcpSlow')
    BY <2>1 DEF Waited
  <2>6. \A b \in McpAgents : mcpTools'[b].age \in 0 .. Expired
    BY <2>2 DEF McpSessions
  <2>7. SharersOlder'
    BY <1>1, <2>1, <2>4, <2>5, <2>6 DEF SharersOlder
  <2>8. McpFreshTools'
    <3>1. mcpLine[mcpEntry] = "open"
      BY <2>1 DEF McpInv, McpOneOpen
    <3> QED BY <1>1, <2>2, <2>5, <3>1 DEF McpInv, McpFreshTools
  <2>9. McpLine'
    BY <1>1, <2>1, <2>3, LineShrinks DEF McpInv
  <2>10. ConnectsAlone' /\ McpOneOpen'
    BY <1>1, <2>3 DEF McpInv, ConnectsAlone, McpOneOpen
  <2> QED BY <1>1, <2>1, <2>2, <2>3, <2>4, <2>7, <2>8, <2>9, <2>10, McpTyped, McpTogether
<1>3. CASE mcpEntry = NoConn
  <2>1. Fetching(a, "connect") /\ UNCHANGED <<mcpAge, mcpQueue, mcpTools, mcpSlow>>
    BY <1>3 DEF LookAgain
  <2>2. /\ mcpCall' \in [McpAgents -> McpCalls] /\ mcpCall'[a].pc = "connect"
        /\ \A b \in McpAgents : b # a => mcpCall'[b] = mcpCall[b]
    BY <2>1, CallGoes
  <2>3. McpLine'
    BY <1>1, <2>1, <2>2, LineStays DEF McpInv
  <2>4. ConnectsAlone' /\ McpOneOpen' /\ SharersOlder' /\ McpFreshTools'
    BY <1>1, <1>3, <2>1 DEF McpInv, ConnectsAlone, McpOneOpen, SharersOlder, McpFreshTools
  <2> QED BY <1>1, <2>1, <2>2, <2>3, <2>4, McpTyped, McpTogether
<1> QED BY <1>2, <1>3

LEMMA ConnectionMade == ASSUME McpInv, NEW a \in McpAgents, Connected(a) PROVE McpInv'
<1>1. PICK c \in FreeConns :
        /\ mcpLine' = [mcpLine EXCEPT ![c] = "open"]
        /\ mcpEntry' = c
        /\ mcpAge' = mcpCall[a].age
        /\ mcpSlow' = IF mcpCall[a].age > 0 THEN mcpSlow \cup {c} ELSE mcpSlow \ {c}
        /\ Given(a, c)
  BY DEF Connected
<1>2. /\ c \in Conns /\ mcpLine[c] # "open" /\ \A b \in McpAgents : mcpTools[b].conn # c
      /\ mcpCall[a].pc = "connect" /\ mcpEntry = NoConn /\ Fetched(a) /\ mcpQueue' = Tail(mcpQueue)
      /\ mcpQueue # <<>> /\ Head(mcpQueue) = a
  BY ConnectsInFront DEF FreeConns, Connected, McpInv, ConnectsAlone
<1>3. /\ mcpTools' \in [McpAgents -> McpSessions]
      /\ mcpTools'[a].conn = c /\ mcpTools'[a].age = 0
      /\ \A b \in McpAgents : b # a => mcpTools'[b] = mcpTools[b]
  BY <1>1, <1>2, GivenTo
<1>4. /\ mcpCall' \in [McpAgents -> McpCalls] /\ mcpCall'[a].pc = "none"
      /\ \A b \in McpAgents : b # a => mcpCall'[b] = mcpCall[b]
  BY <1>2, CallOver
<1>5. mcpCall[a].age \in 0 .. Expired
  BY McpTyped DEF McpCalls
<1>6. /\ mcpLine' \in [Conns -> {"none", "open", "closing", "closed"}]
      /\ \A d \in Conns : mcpLine'[d] = IF d = c THEN "open" ELSE mcpLine[d]
  BY <1>1, <1>2, McpTyped
<1>7. McpOneOpen'
  BY <1>1, <1>2, <1>6, McpNumbers DEF McpInv, McpOneOpen
<1>8. McpLine'
  BY <1>2, <1>4, LineShrinks DEF McpInv
<1>9. ConnectsAlone'
  <2>1. \A b \in McpAgents : b # a => mcpCall[b].pc # "connect"
    BY <1>2, ConnectsInFront
  <2> QED BY <1>4, <2>1 DEF ConnectsAlone
<1>10. SharersOlder'
  <2>1. \A b \in McpAgents : mcpTools'[b].conn = c => mcpTools'[b].age = 0
    BY <1>2, <1>3
  <2>2. c \notin mcpSlow' => mcpAge' = 0
    BY <1>1, <1>5
  <2> QED BY <1>1, <2>1, <2>2 DEF SharersOlder
<1>11. McpFreshTools'
  <2>1. \A b \in McpAgents : b # a => mcpTools'[b].conn # c
    BY <1>2, <1>3
  <2>2. \A d \in Conns : d # c => (d \in mcpSlow' <=> d \in mcpSlow)
    BY <1>1
  <2> QED BY <1>3, <1>6, <2>1, <2>2 DEF McpInv, McpFreshTools
<1> QED BY <1>1, <1>2, <1>3, <1>4, <1>5, <1>6, <1>7, <1>8, <1>9, <1>10, <1>11, McpTyped, McpTogether

LEMMA ConnectionFailed == ASSUME McpInv, NEW a \in McpAgents, ConnectFails(a) PROVE McpInv'
<1>1. /\ Given(a, NoTools) /\ Fetched(a) /\ mcpQueue' = Tail(mcpQueue)
      /\ mcpQueue # <<>> /\ Head(mcpQueue) = a
      /\ UNCHANGED <<mcpEntry, mcpLine, mcpAge, mcpSlow>>
  BY ConnectsInFront DEF ConnectFails
<1>2. /\ mcpTools' \in [McpAgents -> McpSessions]
      /\ mcpTools'[a].conn = NoTools
      /\ \A b \in McpAgents : b # a => mcpTools'[b] = mcpTools[b]
  BY <1>1, GivenTo
<1>3. /\ mcpCall' \in [McpAgents -> McpCalls] /\ mcpCall'[a].pc = "none"
      /\ \A b \in McpAgents : b # a => mcpCall'[b] = mcpCall[b]
  BY <1>1, CallOver
<1>4. McpLine'
  BY <1>1, <1>3, LineShrinks DEF McpInv
<1>5. SharersOlder' /\ McpFreshTools'
  BY <1>1, <1>2, McpNumbers DEF McpInv, SharersOlder, McpFreshTools
<1>6. ConnectsAlone' /\ McpOneOpen'
  BY <1>1, <1>3 DEF McpInv, ConnectsAlone, McpOneOpen
<1> QED BY <1>1, <1>2, <1>3, <1>4, <1>5, <1>6, McpTyped, McpTogether

LEMMA AgentGone == ASSUME McpInv, NEW a \in McpAgents, AgentGoes(a) PROVE McpInv'
<1>1. /\ mcpTools' = [mcpTools EXCEPT ![a] = Unregistered]
      /\ UNCHANGED <<mcpEntry, mcpLine, mcpAge, mcpQueue, mcpCall, mcpSlow>>
  BY DEF AgentGoes
<1>2. Unregistered \in McpSessions /\ Unregistered.conn = NoConn
  BY McpTyped DEF McpSessions, Unregistered
<1>3. /\ mcpTools' \in [McpAgents -> McpSessions]
      /\ mcpTools'[a].conn = NoConn
      /\ \A b \in McpAgents : b # a => mcpTools'[b] = mcpTools[b]
  BY <1>1, <1>2, McpTyped
<1>4. SharersOlder' /\ McpFreshTools'
  BY <1>1, <1>3, McpNumbers DEF McpInv, SharersOlder, McpFreshTools
<1>5. ConnectsAlone' /\ McpOneOpen' /\ McpLine'
  BY <1>1 DEF McpInv, ConnectsAlone, McpOneOpen, McpLine
<1> QED BY <1>1, <1>3, <1>4, <1>5, McpTyped, McpTogether

LEMMA IdleEvicted == ASSUME McpInv, EvictIdle PROVE McpInv'
<1>1. /\ mcpEntry \in Conns /\ mcpAge > IdleTimeout /\ mcpEntry' = NoConn
      /\ mcpLine' = [mcpLine EXCEPT ![mcpEntry] = "closing"]
      /\ UNCHANGED <<mcpAge, mcpQueue, mcpCall, mcpTools, mcpSlow>>
  BY McpTyped DEF EvictIdle
<1>2. /\ mcpLine' \in [Conns -> {"none", "open", "closing", "closed"}]
      /\ \A d \in Conns : mcpLine'[d] = IF d = mcpEntry THEN "closing" ELSE mcpLine[d]
  BY <1>1, McpTyped
<1>3. McpOneOpen' /\ SharersOlder' /\ ConnectsAlone'
  BY <1>1, <1>2, McpNumbers DEF McpInv, McpOneOpen, SharersOlder, ConnectsAlone
<1>4. \A a \in McpAgents : mcpTools[a].conn = mcpEntry /\ mcpEntry \notin mcpSlow => mcpTools[a].age > IdleTimeout
  <2>1. \A a \in McpAgents : mcpTools[a].age \in 0 .. Expired
    BY McpTyped DEF McpSessions
  <2>2. mcpAge \in 0 .. Expired
    BY McpTyped
  <2> QED BY <1>1, <2>1, <2>2, McpNumbers DEF McpInv, SharersOlder
<1>5. McpFreshTools'
  BY <1>1, <1>2, <1>4 DEF McpInv, McpFreshTools
<1>6. McpLine'
  BY <1>1 DEF McpInv, McpLine
<1> QED BY <1>1, <1>2, <1>3, <1>5, <1>6, McpTyped, McpTogether

LEMMA IdleClosed == ASSUME McpInv, CloseIdle PROVE McpInv'
<1>1. PICK c \in Conns : mcpLine[c] = "closing" /\ mcpLine' = [mcpLine EXCEPT ![c] = "closed"]
  BY DEF CloseIdle
<1>2. UNCHANGED <<mcpEntry, mcpAge, mcpQueue, mcpCall, mcpTools, mcpSlow>>
  BY DEF CloseIdle
<1>3. /\ mcpLine' \in [Conns -> {"none", "open", "closing", "closed"}]
      /\ \A d \in Conns : mcpLine'[d] = IF d = c THEN "closed" ELSE mcpLine[d]
  BY <1>1, McpTyped
<1>4. McpOneOpen' /\ McpFreshTools' /\ SharersOlder' /\ ConnectsAlone' /\ McpLine'
  BY <1>1, <1>2, <1>3 DEF McpInv, McpOneOpen, McpFreshTools, SharersOlder, ConnectsAlone, McpLine
<1> QED BY <1>2, <1>3, <1>4, McpTyped, McpTogether

LEMMA McpTicked == ASSUME McpInv, McpTick PROVE McpInv'
<1>1. UNCHANGED <<mcpEntry, mcpLine, mcpQueue, mcpSlow>>
  BY DEF McpTick
<1>2. mcpAge' \in 0 .. Expired /\ (mcpEntry # NoConn => mcpAge' = Aged(mcpAge))
  BY McpTyped, AgedTyped DEF McpTick
<1>3. mcpCall' \in [McpAgents -> McpCalls] /\ \A a \in McpAgents : mcpCall'[a].pc = mcpCall[a].pc
  <2>1. ASSUME NEW a \in McpAgents
        PROVE  LET call == IF mcpCall[a].pc = "none" THEN NoFetch ELSE [mcpCall[a] EXCEPT !.age = Aged(@)]
               IN  call \in McpCalls /\ call.pc = mcpCall[a].pc
    <3>1. mcpCall[a] \in McpCalls /\ Aged(mcpCall[a].age) \in 0 .. Expired
      BY McpTyped, AgedTyped DEF McpCalls
    <3>2. mcpCall[a].pc = "none" => NoFetch \in McpCalls /\ NoFetch.pc = mcpCall[a].pc
      BY McpTyped
    <3>3. LET call == [mcpCall[a] EXCEPT !.age = Aged(mcpCall[a].age)]
          IN  call \in McpCalls /\ call.pc = mcpCall[a].pc
      BY <3>1 DEF McpCalls
    <3> QED BY <3>2, <3>3
  <2> QED BY <2>1 DEF McpTick
<1>4. /\ mcpTools' \in [McpAgents -> McpSessions]
      /\ \A a \in McpAgents : /\ mcpTools'[a].conn = mcpTools[a].conn
                              /\ mcpTools[a].conn \in Conns => mcpTools'[a].age = Aged(mcpTools[a].age)
  <2>1. ASSUME NEW a \in McpAgents
        PROVE  LET tools == IF mcpTools[a].conn \notin Conns THEN mcpTools[a] ELSE [mcpTools[a] EXCEPT !.age = Aged(@)]
               IN  /\ tools \in McpSessions /\ tools.conn = mcpTools[a].conn
                   /\ mcpTools[a].conn \in Conns => tools.age = Aged(mcpTools[a].age)
    <3>1. mcpTools[a] \in McpSessions /\ Aged(mcpTools[a].age) \in 0 .. Expired
      BY McpTyped, AgedTyped DEF McpSessions
    <3> QED BY <3>1 DEF McpSessions
  <2> QED BY <2>1 DEF McpTick
<1>5. \A a \in McpAgents : mcpTools[a].age \in 0 .. Expired
  BY McpTyped DEF McpSessions
<1>6. McpLine'
  BY <1>1, <1>3, LineStays DEF McpInv
<1>7. ConnectsAlone' /\ McpOneOpen'
  BY <1>1, <1>3 DEF McpInv, ConnectsAlone, McpOneOpen
<1>8. SharersOlder'
  BY <1>1, <1>2, <1>4, <1>5, McpTyped, McpNumbers, AgedMonotone DEF McpInv, SharersOlder
<1>9. McpFreshTools'
  <2>1. \A n \in 0 .. Expired : n > IdleTimeout => Aged(n) > IdleTimeout
    BY McpNumbers DEF Aged
  <2> QED BY <1>1, <1>4, <1>5, <2>1 DEF McpInv, McpFreshTools
<1> QED BY <1>1, <1>2, <1>3, <1>4, <1>6, <1>7, <1>8, <1>9, McpTyped, McpTogether

LEMMA McpStarts == McpInit => McpInv
<1> SUFFICES ASSUME McpInit PROVE McpInv
  OBVIOUS
<1>1. 0 \in 0 .. Expired
  BY McpNumbers
<1>2. /\ \A a \in McpAgents : mcpCall[a].pc = "none" /\ mcpTools[a].conn = NoConn
      /\ \A c \in Conns : mcpLine[c] = "none"
      /\ mcpCall \in [McpAgents -> McpCalls] /\ mcpTools \in [McpAgents -> McpSessions]
      /\ mcpLine \in [Conns -> {"none", "open", "closing", "closed"}]
  BY <1>1 DEF McpInit, NoFetch, Unregistered, McpCalls, McpSessions
<1>3. mcpQueue \in Seq(McpAgents) /\ Len(mcpQueue) = 0 /\ DOMAIN mcpQueue = {}
  BY DEF McpInit
<1>4. McpLine
  BY <1>2, <1>3 DEF McpLine, IsInjective, ToSet
<1>5. McpTypeOK
  BY <1>1, <1>2, <1>4 DEF McpInit, McpTypeOK, McpLine, McpCalls, McpSessions
<1> QED BY <1>2, <1>4, <1>5, McpNumbers DEF McpInit, McpInv, ConnectsAlone, McpOneOpen, SharersOlder, McpFreshTools

\* Agents share the connection to a server and keep it while they use it: for
\* every number of agents and every idle timeout, however they ask, connect,
\* fail and leave while the cleanup closes connections.
THEOREM ConnectionsAreShared == McpSpec => []McpShared
<1>1. ASSUME McpInv, [McpNext]_mcpVars PROVE McpInv'
  <2>1. CASE UNCHANGED mcpVars
    BY <1>1, <2>1 DEF mcpVars, McpInv, McpTypeOK, McpLine, ConnectsAlone, McpOneOpen, SharersOlder, McpFreshTools
  <2> QED BY <1>1, <2>1, McpAsked, LookedAgain, ConnectionMade, ConnectionFailed, AgentGone, IdleEvicted, IdleClosed,
             McpTicked DEF McpNext, FetchStep
<1>2. McpInv => McpShared
  BY DEF McpInv, McpShared
<1> QED BY <1>1, <1>2, McpStarts, PTL DEF McpSpec

-----------------------------------------------------------------------------
(***************************************************************************)
(* The WebSocket channel.  What is promised is about sessions whose sockets *)
(* do not overlap; the invariant says what makes such a session orderly.   *)
(***************************************************************************)

HandlerSteps == {"new", "lookup", "hello", "hello failed", "hello closing", "receive", "error", "error failed",
                 "error closing", "cleanup", "closing", "done"}
LineStates == {"none", "open", "lost", "closed"}
SendSteps == {"none", "queued", "failed", "closing", "done"}
Of(c) == {s \in Sockets : SessionOf[s] = c}
NoneOpen(c) == \A s \in Of(c) : wsLine[s] # "open"

\* A session whose sockets never overlapped: one handler is at work, an open
\* line is registered and its handler at work, and nothing is open any more
\* where an entry is about to be removed.
Orderly(c) ==
    /\ \A s, t \in Of(c) : Busy(s) /\ Busy(t) => s = t
    /\ \A s \in Of(c) : wsLine[s] = "open" => wsActive[c] = s /\ Busy(s)
    /\ \A s \in Of(c) : wsPc[s] \in {"hello closing", "error closing", "closing"} => wsLine[s] # "open"
    /\ Cleaning(c) => NoneOpen(c) /\ \A s \in Of(c) : wsPc[s] # "lookup"

\* A socket is not accepted before its session was found.
Unaccepted == \A s \in Sockets : wsPc[s] \in {"new", "lookup"} => wsLine[s] = "none"

WsInv ==
    /\ WsTypeOK /\ Unaccepted /\ WsNotCut /\ WsHeard
    /\ \A c \in WsSessions \ wsOverlap : Orderly(c)

LEMMA WsInvIsServed == WsInv => WsServed
<1> SUFFICES ASSUME WsInv PROVE WsServed
  OBVIOUS
<1>1. ASSUME NEW s \in Sockets, wsLine[s] = "open", wsActive[SessionOf[s]] # s PROVE SessionOf[s] \in wsOverlap
  <2>1. SessionOf[s] \in WsSessions /\ s \in Of(SessionOf[s])
    BY WsAssumption DEF WsAssumption, Of
  <2> QED BY <1>1, <2>1 DEF WsInv, Orderly
<1> QED BY <1>1 DEF WsInv, WsServed, WsRegistered

\* The session of a socket, and the step of one handler.
LEMMA SocketOf == ASSUME NEW s \in Sockets PROVE SessionOf[s] \in WsSessions /\ s \in Of(SessionOf[s]) /\ s # NoSocket
BY WsAssumption DEF WsAssumption, Of

LEMMA Went ==
    ASSUME WsTypeOK, NEW s \in Sockets, NEW p \in HandlerSteps, WsGoto(s, p)
    PROVE  /\ wsPc' \in [Sockets -> HandlerSteps] /\ wsPc'[s] = p
           /\ \A t \in Sockets : t # s => wsPc'[t] = wsPc[t] /\ (Busy(t)' <=> Busy(t))
           /\ Busy(s)' <=> p \notin {"new", "done"}
BY DEF WsTypeOK, WsGoto, HandlerSteps, Busy

\* The step of one task that sends.
LEMMA SendWent ==
    ASSUME WsTypeOK, NEW c \in WsSessions, NEW n \in 1 .. MaxOutbound, NEW p \in SendSteps, SendGoto(c, n, p)
    PROVE  /\ wsSend' \in [WsSessions -> [1 .. MaxOutbound -> SendSteps]]
           /\ \A d \in WsSessions : d # c => wsSend'[d] = wsSend[d]
           /\ \A m \in 1 .. MaxOutbound : wsSend'[c][m] = IF m = n THEN p ELSE wsSend[c][m]
BY DEF WsTypeOK, SendGoto, SendSteps

\* What steps have in common that leave the tables of sockets alone: the typing
\* of what they change is left to be shown.
LEMMA WsTypes ==
    WsTypeOK <=>
        /\ wsActive \in [WsSessions -> Sockets \cup {NoSocket}]
        /\ wsPc \in [Sockets -> HandlerSteps]
        /\ wsLine \in [Sockets -> LineStates]
        /\ wsSend \in [WsSessions -> [1 .. MaxOutbound -> SendSteps]]
        /\ wsMissed \in [WsSessions -> BOOLEAN]
        /\ wsCut \subseteq Sockets /\ wsOverlap \subseteq WsSessions
        /\ \A c \in WsSessions : wsActive[c] # NoSocket =>
               SessionOf[wsActive[c]] = c /\ wsLine[wsActive[c]] # "none"
BY DEF WsTypeOK, HandlerSteps, LineStates, SendSteps

LEMMA WsInvParts ==
    ASSUME WsInv
    PROVE  /\ WsTypeOK /\ Unaccepted /\ WsNotCut /\ WsHeard
           /\ \A c \in WsSessions \ wsOverlap : Orderly(c)
           /\ wsOverlap \subseteq WsSessions /\ wsCut \subseteq Sockets
BY DEF WsInv, WsTypeOK

-----------------------------------------------------------------------------
\* A handler that is at work and registers, closes and removes nothing.
LEMMA HandlerGoes ==
    ASSUME WsInv, NEW s \in Sockets, Busy(s),
           NEW p \in HandlerSteps \ {"new", "lookup", "done", "hello closing", "error closing", "closing"}, WsGoto(s, p),
           UNCHANGED <<wsActive, wsLine, wsSend, wsMissed, wsCut, wsOverlap>>
    PROVE  WsInv'
<1>1. /\ wsPc' \in [Sockets -> HandlerSteps] /\ wsPc'[s] = p
      /\ \A t \in Sockets : t # s => wsPc'[t] = wsPc[t] /\ (Busy(t)' <=> Busy(t))
      /\ Busy(s)' <=> p \notin {"new", "done"}
  BY WsInvParts, Went
<1>2. WsTypeOK'
  BY <1>1, WsTypes, WsInvParts DEF WsTypeOK, HandlerSteps
<1>3. Unaccepted'
  BY <1>1, WsInvParts DEF Unaccepted
<1>4. WsNotCut' /\ WsHeard'
  BY WsInvParts DEF WsNotCut, WsHeard
<1>5. ASSUME NEW c \in WsSessions \ wsOverlap PROVE Orderly(c)'
  <2>1. Orderly(c) /\ \A t \in Of(c) : t \in Sockets
    BY WsInvParts DEF Of
  <2>2. \A t \in Of(c) : Busy(t)' <=> Busy(t)
    BY <1>1, <2>1
  <2>3. Cleaning(c)' <=> Cleaning(c)
    BY DEF Cleaning
  <2>4. \A t \in Of(c) : /\ wsPc'[t] \in {"hello closing", "error closing", "closing"} => wsPc'[t] = wsPc[t]
                         /\ wsPc'[t] = "lookup" => wsPc[t] = "lookup"
    BY <1>1, <2>1
  <2>5. Of(c)' = Of(c)
    BY DEF Of
  <2> QED BY <2>1, <2>2, <2>3, <2>4, <2>5 DEF Orderly, NoneOpen
<1> QED BY <1>2, <1>3, <1>4, <1>5 DEF WsInv

LEMMA NotFoundGoes == ASSUME WsInv, NEW s \in Sockets, NotFound(s) PROVE WsInv'
BY HandlerGoes DEF NotFound, Busy, HandlerSteps

LEMMA GreetGoes == ASSUME WsInv, NEW s \in Sockets, Greet(s) PROVE WsInv'
<1> DEFINE p == LET x == wsActive[SessionOf[s]] IN
                 IF x = NoSocket THEN "cleanup"
                 ELSE IF wsLine[x] # "open" THEN
                    IF wsPc[s] = "hello" THEN "hello failed" ELSE "error failed"
                 ELSE IF wsPc[s] = "hello" THEN "receive" ELSE "cleanup"
<1>1. WsGoto(s, p) /\ UNCHANGED <<wsActive, wsLine, wsSend, wsMissed, wsCut, wsOverlap>> /\ Busy(s)
  BY DEF Greet, Busy
<1>2. p \in HandlerSteps \ {"new", "lookup", "done", "hello closing", "error closing", "closing"}
  BY DEF HandlerSteps
<1> HIDE DEF p
<1> QED BY <1>1, <1>2, HandlerGoes

LEMMA BadMessageGoes == ASSUME WsInv, NEW s \in Sockets, BadMessage(s) PROVE WsInv'
BY HandlerGoes DEF BadMessage, Busy, HandlerSteps

LEMMA IdleGoes == ASSUME WsInv, NEW s \in Sockets, Idle(s) PROVE WsInv'
BY HandlerGoes DEF Idle, Busy, HandlerSteps

LEMMA Opened == ASSUME WsInv, NEW s \in Sockets, WsOpen(s) PROVE WsInv'
<1> DEFINE c == SessionOf[s]
<1>0. /\ wsPc[s] = "new" /\ WsGoto(s, "lookup") /\ wsLine[s] = "none"
      /\ wsOverlap' = IF OthersBusy(c, s) \/ Cleaning(c) THEN wsOverlap \cup {c} ELSE wsOverlap
      /\ UNCHANGED <<wsActive, wsLine, wsSend, wsMissed, wsCut>>
      /\ c \in WsSessions
  BY WsInvParts, SocketOf DEF WsOpen, Unaccepted
<1>1. /\ wsPc' \in [Sockets -> HandlerSteps] /\ wsPc'[s] = "lookup"
      /\ \A t \in Sockets : t # s => wsPc'[t] = wsPc[t] /\ (Busy(t)' <=> Busy(t))
  BY <1>0, WsInvParts, Went DEF HandlerSteps
<1>2. wsOverlap \subseteq wsOverlap' /\ wsOverlap' \subseteq WsSessions
      /\ (c \notin wsOverlap' => ~OthersBusy(c, s) /\ ~Cleaning(c))
  BY <1>0, WsInvParts
<1> HIDE DEF c
<1>3. WsTypeOK'
  BY <1>0, <1>1, <1>2, WsTypes, WsInvParts DEF WsTypeOK, HandlerSteps
<1>4. Unaccepted'
  BY <1>0, <1>1, WsInvParts DEF Unaccepted
<1>5. WsNotCut' /\ WsHeard'
  BY <1>0, <1>2, WsInvParts DEF WsNotCut, WsHeard
<1>6. ASSUME NEW d \in WsSessions \ wsOverlap' PROVE Orderly(d)'
  <2>1. Orderly(d) /\ \A t \in Of(d) : t \in Sockets
    BY <1>2, WsInvParts DEF Of
  <2>2. Of(d)' = Of(d) /\ (Cleaning(d)' <=> Cleaning(d)) /\ (NoneOpen(d)' <=> NoneOpen(d))
    BY <1>0 DEF Of, Cleaning, NoneOpen
  <2>3. CASE d = c
    <3>1. ~Cleaning(d) /\ \A t \in Of(d) : t # s => ~Busy(t)
      BY <1>2, <1>6, <2>1, <2>3 DEF OthersBusy, Of
    <3>2. \A t, u \in Of(d) : Busy(t)' /\ Busy(u)' => t = u
      BY <1>1, <2>1, <3>1
    <3>3. \A t \in Of(d) : wsLine'[t] = "open" => wsActive'[d] = t /\ Busy(t)'
      BY <1>0, <1>1, <2>1 DEF Orderly
    <3>4. \A t \in Of(d) : wsPc'[t] \in {"hello closing", "error closing", "closing"} => wsLine'[t] # "open"
      BY <1>0, <1>1, <2>1 DEF Orderly
    <3> QED BY <2>2, <3>1, <3>2, <3>3, <3>4 DEF Orderly
  <2>4. CASE d # c
    <3>1. \A t \in Of(d) : t # s
      BY <2>4 DEF Of, c
    <3>2. \A t \in Of(d) : wsPc'[t] = wsPc[t] /\ (Busy(t)' <=> Busy(t))
      BY <1>1, <2>1, <3>1
    <3> QED BY <1>0, <2>1, <2>2, <3>2 DEF Orderly
  <2> QED BY <2>3, <2>4
<1> QED BY <1>3, <1>4, <1>5, <1>6 DEF WsInv

LEMMA ConnectGoes == ASSUME WsInv, NEW s \in Sockets, Connect(s) PROVE WsInv'
<1> DEFINE c == SessionOf[s]
<1>0. /\ wsPc[s] = "lookup" /\ WsGoto(s, "hello") /\ wsLine' = [wsLine EXCEPT ![s] = "open"]
      /\ wsActive' = [wsActive EXCEPT ![c] = s]
      /\ UNCHANGED <<wsSend, wsMissed, wsCut, wsOverlap>> /\ c \in WsSessions /\ s # NoSocket
  BY SocketOf DEF Connect
<1>1. /\ wsPc' \in [Sockets -> HandlerSteps] /\ wsPc'[s] = "hello"
      /\ \A t \in Sockets : t # s => wsPc'[t] = wsPc[t] /\ (Busy(t)' <=> Busy(t))
      /\ Busy(s)' /\ Busy(s)
  BY <1>0, WsInvParts, Went DEF HandlerSteps, Busy
<1>2. /\ wsLine' \in [Sockets -> LineStates] /\ \A t \in Sockets : wsLine'[t] = IF t = s THEN "open" ELSE wsLine[t]
      /\ wsActive' \in [WsSessions -> Sockets \cup {NoSocket}]
      /\ \A d \in WsSessions : wsActive'[d] = IF d = c THEN s ELSE wsActive[d]
  BY <1>0, WsInvParts, WsTypes DEF LineStates
<1>3. \A d \in WsSessions : wsActive'[d] # NoSocket => SessionOf[wsActive'[d]] = d /\ wsLine'[wsActive'[d]] # "none"
  <2>1. ASSUME NEW d \in WsSessions, wsActive'[d] # NoSocket
        PROVE SessionOf[wsActive'[d]] = d /\ wsLine'[wsActive'[d]] # "none"
    <3>1. CASE d = c
      BY <1>2, <3>1
    <3>2. CASE d # c
      <4>1. wsActive'[d] = wsActive[d] /\ wsActive[d] \in Sockets
        BY <1>2, <2>1, <3>2
      <4> QED BY <1>2, <2>1, <4>1, WsInvParts, WsTypes
    <3> QED BY <3>1, <3>2
  <2> QED BY <2>1
<1> HIDE DEF c
<1>4. WsTypeOK'
  BY <1>0, <1>1, <1>2, <1>3, WsTypes, WsInvParts DEF WsTypeOK, HandlerSteps, LineStates
<1>5. Unaccepted' /\ WsNotCut' /\ WsHeard'
  BY <1>0, <1>1, <1>2, WsInvParts DEF Unaccepted, WsNotCut, WsHeard
<1>6. ASSUME NEW d \in WsSessions \ wsOverlap' PROVE Orderly(d)'
  <2>1. Orderly(d) /\ \A t \in Of(d) : t \in Sockets
    BY <1>0, WsInvParts DEF Of
  <2>2. Of(d)' = Of(d) /\ (Cleaning(d)' <=> Cleaning(d))
    BY <1>0 DEF Of, Cleaning
  <2>3. \A t \in Of(d) : Busy(t)' <=> Busy(t)
    BY <1>1, <2>1
  <2>4. CASE d = c
    <3>1. s \in Of(d)
      BY <2>4 DEF c, Of
    <3>2. ~Cleaning(d)
      BY <1>0, <2>1, <3>1 DEF Orderly
    <3>3. \A t \in Of(d) : t # s => wsLine[t] # "open" /\ ~Busy(t)
      BY <1>1, <2>1, <3>1 DEF Orderly
    <3>4. \A t \in Of(d) : wsLine'[t] = "open" => wsActive'[d] = t /\ Busy(t)'
      BY <1>1, <1>2, <2>1, <2>4, <3>3
    <3>5. \A t \in Of(d) : wsPc'[t] \in {"hello closing", "error closing", "closing"} => wsLine'[t] # "open"
      BY <1>1, <1>2, <2>1, <3>3
    <3> QED BY <2>1, <2>2, <2>3, <3>2, <3>4, <3>5 DEF Orderly
  <2>5. CASE d # c
    <3>1. \A t \in Of(d) : t # s
      BY <2>5 DEF Of, c
    <3>2. \A t \in Of(d) : wsPc'[t] = wsPc[t] /\ wsLine'[t] = wsLine[t]
      BY <1>1, <1>2, <2>1, <3>1
    <3>3. wsActive'[d] = wsActive[d] /\ (NoneOpen(d)' <=> NoneOpen(d))
      BY <1>2, <2>2, <2>5, <3>2 DEF NoneOpen
    <3> QED BY <2>1, <2>2, <2>3, <3>2, <3>3 DEF Orderly
  <2> QED BY <2>4, <2>5
<1> QED BY <1>4, <1>5, <1>6 DEF WsInv

-----------------------------------------------------------------------------
\* What close() of the registered socket does.
ClosedBy(c, by) ==
    /\ wsLine' \in [Sockets -> LineStates]
    /\ \A s \in Sockets : wsLine'[s] = IF s = wsActive[c] THEN "closed" ELSE wsLine[s]
    /\ \A s \in wsCut' : s \in wsCut \/ (s \in Sockets /\ s = wsActive[c] /\ wsLine[s] = "open" /\ s # by)

LEMMA CloseEffect ==
    ASSUME WsTypeOK, NEW c \in WsSessions, NEW by,
           \/ wsActive[c] = NoSocket /\ UNCHANGED <<wsLine, wsCut>>
           \/ /\ wsActive[c] # NoSocket
              /\ wsLine' = [wsLine EXCEPT ![wsActive[c]] = "closed"]
              /\ wsCut' = IF wsLine[wsActive[c]] = "open" /\ wsActive[c] # by THEN wsCut \cup {wsActive[c]} ELSE wsCut
    PROVE ClosedBy(c, by)
<1>1. wsActive[c] \in Sockets \cup {NoSocket} /\ NoSocket \notin Sockets /\ wsLine \in [Sockets -> LineStates]
  BY WsTypes, WsAssumption DEF WsAssumption
<1>2. CASE wsActive[c] = NoSocket /\ UNCHANGED <<wsLine, wsCut>>
  BY <1>1, <1>2 DEF ClosedBy
<1>3. CASE /\ wsActive[c] # NoSocket
           /\ wsLine' = [wsLine EXCEPT ![wsActive[c]] = "closed"]
           /\ wsCut' = IF wsLine[wsActive[c]] = "open" /\ wsActive[c] # by THEN wsCut \cup {wsActive[c]} ELSE wsCut
  BY <1>1, <1>3 DEF ClosedBy, LineStates
<1> QED BY <1>2, <1>3

\* Where the sockets of a session do not overlap, nothing of it is open behind a
\* close, and the close cuts nobody off but the one who closes.
LEMMA NoneOpenLeft ==
    ASSUME WsInv, NEW c \in WsSessions, NEW by, ClosedBy(c, by), UNCHANGED wsOverlap,
           c \notin wsOverlap => Cleaning(c) \/ (by \in Of(c) /\ Busy(by))
    PROVE  /\ c \notin wsOverlap => NoneOpen(c)'
           /\ WsNotCut'
           /\ \A d \in WsSessions : d # c => \A t \in Of(d) : wsLine'[t] = wsLine[t]
<1>1. \A t \in Of(c) : t \in Sockets
  BY DEF Of
<1>2. ASSUME c \notin wsOverlap PROVE NoneOpen(c)'
  <2>1. \A t \in Of(c) : wsLine'[t] = "open" => t # wsActive[c] /\ wsLine[t] = "open"
    BY <1>1 DEF ClosedBy
  <2>2. \A t \in Of(c) : wsLine[t] = "open" => t = wsActive[c]
    BY <1>2, WsInvParts DEF Orderly
  <2> QED BY <2>1, <2>2 DEF NoneOpen, Of
<1>3. \A t \in Sockets : t = wsActive[c] => SessionOf[t] = c
  <2>1. ASSUME NEW t \in Sockets, t = wsActive[c] PROVE SessionOf[t] = c
    <3>1. wsActive[c] # NoSocket
      BY <2>1, SocketOf
    <3> QED BY <2>1, <3>1, WsInvParts DEF WsTypeOK
  <2> QED BY <2>1
<1>4. WsNotCut'
  <2> SUFFICES ASSUME NEW s \in wsCut' PROVE SessionOf[s] \in wsOverlap
    BY DEF WsNotCut
  <2>1. CASE s \in wsCut
    BY <2>1, WsInvParts DEF WsNotCut
  <2>2. CASE s \in Sockets /\ s = wsActive[c] /\ wsLine[s] = "open" /\ s # by
    <3>1. s \in Of(c) /\ SessionOf[s] = c
      BY <1>3, <2>2 DEF Of
    <3>2. c \notin wsOverlap => Orderly(c)
      BY WsInvParts
    <3> QED BY <2>2, <3>1, <3>2 DEF Orderly, NoneOpen
  <2> QED BY <2>1, <2>2 DEF ClosedBy
<1>5. \A d \in WsSessions : d # c => \A t \in Of(d) : wsLine'[t] = wsLine[t]
  BY <1>3 DEF ClosedBy, Of
<1> QED BY <1>2, <1>4, <1>5

LEMMA ClosedTyped ==
    ASSUME WsInv, NEW c \in WsSessions, NEW by, ClosedBy(c, by), UNCHANGED <<wsActive, wsMissed, wsOverlap>>,
           wsPc' \in [Sockets -> HandlerSteps], wsSend' \in [WsSessions -> [1 .. MaxOutbound -> SendSteps]]
    PROVE  WsTypeOK'
<1>1. \A d \in WsSessions : wsActive'[d] # NoSocket => SessionOf[wsActive'[d]] = d /\ wsLine'[wsActive'[d]] # "none"
  <2>1. ASSUME NEW d \in WsSessions, wsActive[d] # NoSocket PROVE SessionOf[wsActive[d]] = d /\ wsLine'[wsActive[d]] # "none"
    <3>1. wsActive[d] \in Sockets /\ SessionOf[wsActive[d]] = d /\ wsLine[wsActive[d]] # "none"
      BY <2>1, WsInvParts, WsTypes
    <3> QED BY <3>1 DEF ClosedBy
  <2> QED BY <2>1
<1>2. wsCut' \subseteq Sockets
  BY WsInvParts DEF ClosedBy
<1>3. wsLine' \in [Sockets -> LineStates]
  BY DEF ClosedBy
<1> QED BY <1>1, <1>2, <1>3, WsInvParts DEF WsTypeOK, HandlerSteps, SendSteps, LineStates

\* A handler closes what is registered for its session, and goes on or ends.
LEMMA HandlerCloses ==
    ASSUME WsInv, NEW s \in Sockets, Busy(s), wsPc[s] # "lookup", ClosedBy(SessionOf[s], s),
           NEW p \in HandlerSteps \ {"new", "lookup"}, WsGoto(s, p),
           UNCHANGED <<wsActive, wsSend, wsMissed, wsOverlap>>
    PROVE  WsInv'
<1> DEFINE c == SessionOf[s]
<1>1. /\ wsPc' \in [Sockets -> HandlerSteps] /\ wsPc'[s] = p
      /\ \A t \in Sockets : t # s => wsPc'[t] = wsPc[t] /\ (Busy(t)' <=> Busy(t))
      /\ Busy(s)' => Busy(s)
  BY WsInvParts, Went
<1>2. c \in WsSessions /\ s \in Of(c) /\ ClosedBy(c, s)
  BY SocketOf
<1> HIDE DEF c
<1>3. WsTypeOK'
  <2>1. wsSend' \in [WsSessions -> [1 .. MaxOutbound -> SendSteps]]
    BY WsInvParts, WsTypes
  <2> QED BY <1>1, <1>2, <2>1, ClosedTyped
<1>4. /\ c \notin wsOverlap => NoneOpen(c)'
      /\ WsNotCut'
      /\ \A d \in WsSessions : d # c => \A t \in Of(d) : wsLine'[t] = wsLine[t]
  BY <1>2, NoneOpenLeft
<1>5. Unaccepted'
  <2>1. ASSUME NEW t \in Sockets, wsPc'[t] \in {"new", "lookup"} PROVE wsLine'[t] = "none"
    <3>1. t # s /\ wsPc[t] = wsPc'[t] /\ wsLine[t] = "none"
      BY <1>1, <2>1, WsInvParts DEF Unaccepted
    <3>2. t # wsActive[c]
      BY <1>2, <3>1, SocketOf, WsInvParts DEF WsTypeOK
    <3> QED BY <1>2, <3>1, <3>2 DEF ClosedBy
  <2> QED BY <2>1 DEF Unaccepted
<1>6. WsHeard'
  BY WsInvParts DEF WsHeard
<1>7. ASSUME NEW d \in WsSessions \ wsOverlap' PROVE Orderly(d)'
  <2>1. Orderly(d) /\ \A t \in Of(d) : t \in Sockets
    BY WsInvParts DEF Of
  <2>2. Of(d)' = Of(d) /\ (Cleaning(d)' <=> Cleaning(d))
    BY DEF Of, Cleaning
  <2>3. \A t \in Of(d) : Busy(t)' => Busy(t)
    BY <1>1, <2>1
  <2>4. \A t \in Of(d) : wsPc'[t] = "lookup" => wsPc[t] = "lookup"
    BY <1>1, <2>1
  <2>5. CASE d = c
    <3>1. NoneOpen(d)' /\ \A t \in Of(d) : wsLine'[t] # "open"
      BY <1>4, <1>7, <2>2, <2>5 DEF NoneOpen
    <3>2. \A t, u \in Of(d) : Busy(t)' /\ Busy(u)' => t = u
      BY <2>1, <2>3 DEF Orderly
    <3>3. Cleaning(d) => \A t \in Of(d) : wsPc'[t] # "lookup"
      BY <2>1, <2>4 DEF Orderly
    <3> QED BY <2>2, <3>1, <3>2, <3>3 DEF Orderly
  <2>6. CASE d # c
    <3>1. \A t \in Of(d) : t # s
      BY <2>6 DEF Of, c
    <3>2. \A t \in Of(d) : wsPc'[t] = wsPc[t] /\ wsLine'[t] = wsLine[t] /\ (Busy(t)' <=> Busy(t))
      BY <1>1, <1>4, <2>1, <2>6, <3>1
    <3>3. wsActive'[d] = wsActive[d] /\ (NoneOpen(d)' <=> NoneOpen(d))
      BY <2>2, <3>2 DEF NoneOpen
    <3> QED BY <2>1, <2>2, <3>2, <3>3 DEF Orderly
  <2> QED BY <2>5, <2>6
<1> QED BY <1>3, <1>4, <1>5, <1>6, <1>7 DEF WsInv

LEMMA GreetFailedGoes == ASSUME WsInv, NEW s \in Sockets, GreetFailed(s) PROVE WsInv'
<1>1. Busy(s) /\ wsPc[s] # "lookup" /\ UNCHANGED <<wsActive, wsSend, wsMissed, wsOverlap>>
  BY DEF GreetFailed, Busy
<1>2. ClosedBy(SessionOf[s], s)
  BY SocketOf, WsInvParts, CloseEffect DEF GreetFailed, Close
<1>3. \E p \in {"hello closing", "receive", "error closing", "cleanup"} : WsGoto(s, p)
  BY DEF GreetFailed, Close
<1>4. {"hello closing", "receive", "error closing", "cleanup"} \subseteq HandlerSteps \ {"new", "lookup"}
  BY DEF HandlerSteps
<1> QED BY <1>1, <1>2, <1>3, <1>4, HandlerCloses

LEMMA CleanupGoes == ASSUME WsInv, NEW s \in Sockets, Cleanup(s) PROVE WsInv'
<1>1. Busy(s) /\ wsPc[s] # "lookup" /\ UNCHANGED <<wsActive, wsSend, wsMissed, wsOverlap>>
  BY DEF Cleanup, Busy
<1>2. ClosedBy(SessionOf[s], s)
  BY SocketOf, WsInvParts, CloseEffect DEF Cleanup, Close
<1>3. \E p \in {"closing", "done"} : WsGoto(s, p)
  BY DEF Cleanup, Close
<1>4. {"closing", "done"} \subseteq HandlerSteps \ {"new", "lookup"}
  BY DEF HandlerSteps
<1> QED BY <1>1, <1>2, <1>3, <1>4, HandlerCloses

-----------------------------------------------------------------------------
\* del: what is registered for a session is forgotten.
LEMMA Forgotten ==
    ASSUME WsInv, NEW c \in WsSessions, Unregister(c), UNCHANGED <<wsLine, wsMissed, wsCut, wsOverlap>>,
           wsPc' \in [Sockets -> HandlerSteps], wsSend' \in [WsSessions -> [1 .. MaxOutbound -> SendSteps]]
    PROVE  /\ WsTypeOK' /\ WsNotCut' /\ WsHeard'
           /\ \A d \in WsSessions : wsActive'[d] = IF d = c THEN NoSocket ELSE wsActive[d]
<1>1. /\ wsActive' \in [WsSessions -> Sockets \cup {NoSocket}]
      /\ \A d \in WsSessions : wsActive'[d] = IF d = c THEN NoSocket ELSE wsActive[d]
  BY WsInvParts, WsTypes DEF Unregister
<1>2. WsTypeOK'
  BY <1>1, WsInvParts, WsTypes DEF WsTypeOK, HandlerSteps, SendSteps
<1> QED BY <1>1, <1>2, WsInvParts DEF WsNotCut, WsHeard

LEMMA HandlerForgets ==
    ASSUME WsInv, NEW s \in Sockets, wsPc[s] \in {"hello closing", "error closing", "closing"},
           NEW p \in {"receive", "cleanup", "done"}, WsGoto(s, p), Unregister(SessionOf[s]),
           UNCHANGED <<wsLine, wsSend, wsMissed, wsCut, wsOverlap>>
    PROVE  WsInv'
<1> DEFINE c == SessionOf[s]
<1>1. /\ wsPc' \in [Sockets -> HandlerSteps] /\ wsPc'[s] = p
      /\ \A t \in Sockets : t # s => wsPc'[t] = wsPc[t] /\ (Busy(t)' <=> Busy(t))
      /\ Busy(s)
  <2>1. p \in HandlerSteps
    BY DEF HandlerSteps
  <2> QED BY <2>1, WsInvParts, Went DEF Busy
<1>2. c \in WsSessions /\ s \in Of(c) /\ Unregister(c)
  BY SocketOf
<1> HIDE DEF c
<1>3. /\ WsTypeOK' /\ WsNotCut' /\ WsHeard'
      /\ \A d \in WsSessions : wsActive'[d] = IF d = c THEN NoSocket ELSE wsActive[d]
  <2>1. wsSend' \in [WsSessions -> [1 .. MaxOutbound -> SendSteps]]
    BY WsInvParts, WsTypes
  <2> QED BY <1>1, <1>2, <2>1, Forgotten
<1>4. Unaccepted'
  BY <1>1, WsInvParts DEF Unaccepted
<1>5. ASSUME NEW d \in WsSessions \ wsOverlap' PROVE Orderly(d)'
  <2>1. Orderly(d) /\ \A t \in Of(d) : t \in Sockets
    BY WsInvParts DEF Of
  <2>2. Of(d)' = Of(d) /\ (Cleaning(d)' <=> Cleaning(d)) /\ (NoneOpen(d)' <=> NoneOpen(d))
    BY DEF Of, Cleaning, NoneOpen
  <2>3. \A t \in Of(d) : Busy(t)' => Busy(t)
    BY <1>1, <2>1
  <2>4. \A t \in Of(d) : wsPc'[t] = "lookup" => wsPc[t] = "lookup"
    BY <1>1, <2>1
  <2>5. CASE d = c
    <3>1. \A t \in Of(d) : wsLine[t] # "open"
      BY <1>1, <1>2, <2>1, <2>5 DEF Orderly
    <3>2. \A t, u \in Of(d) : Busy(t)' /\ Busy(u)' => t = u
      BY <2>1, <2>3 DEF Orderly
    <3>3. NoneOpen(d)
      BY <3>1 DEF NoneOpen
    <3>4. Cleaning(d) => \A t \in Of(d) : wsPc'[t] # "lookup"
      BY <2>1, <2>4 DEF Orderly
    <3> QED BY <2>2, <3>1, <3>2, <3>3, <3>4 DEF Orderly
  <2>6. CASE d # c
    <3>1. \A t \in Of(d) : t # s
      BY <2>6 DEF Of, c
    <3>2. \A t \in Of(d) : wsPc'[t] = wsPc[t] /\ (Busy(t)' <=> Busy(t))
      BY <1>1, <2>1, <3>1
    <3>3. wsActive'[d] = wsActive[d]
      BY <1>3, <2>6
    <3> QED BY <2>1, <2>2, <3>2, <3>3 DEF Orderly
  <2> QED BY <2>5, <2>6
<1> QED BY <1>3, <1>4, <1>5 DEF WsInv

LEMMA GreetClosedGoes == ASSUME WsInv, NEW s \in Sockets, GreetClosed(s) PROVE WsInv'
BY HandlerForgets DEF GreetClosed

LEMMA ClosedGoes == ASSUME WsInv, NEW s \in Sockets, Closed(s) PROVE WsInv'
BY HandlerForgets DEF Closed

LEMMA ClientGoes == ASSUME WsInv, NEW s \in Sockets, NEW how \in {"closed", "lost"}, ClientGone(s, how) PROVE WsInv'
<1>1. /\ wsLine[s] = "open" /\ wsLine' \in [Sockets -> LineStates]
      /\ \A t \in Sockets : wsLine'[t] = IF t = s THEN how ELSE wsLine[t]
      /\ UNCHANGED <<wsActive, wsPc, wsSend, wsMissed, wsCut, wsOverlap>>
  BY WsInvParts, WsTypes DEF ClientGone, LineStates
<1>2. \A d \in WsSessions : wsActive'[d] # NoSocket => SessionOf[wsActive'[d]] = d /\ wsLine'[wsActive'[d]] # "none"
  <2>1. ASSUME NEW d \in WsSessions, wsActive[d] # NoSocket PROVE SessionOf[wsActive[d]] = d /\ wsLine'[wsActive[d]] # "none"
    <3>1. wsActive[d] \in Sockets /\ SessionOf[wsActive[d]] = d /\ wsLine[wsActive[d]] # "none"
      BY <2>1, WsInvParts, WsTypes
    <3> QED BY <1>1, <3>1
  <2> QED BY <1>1, <2>1
<1>3. WsTypeOK'
  BY <1>1, <1>2, WsInvParts DEF WsTypeOK, LineStates
<1>4. Unaccepted' /\ WsNotCut' /\ WsHeard'
  BY <1>1, WsInvParts DEF Unaccepted, WsNotCut, WsHeard
<1>5. ASSUME NEW d \in WsSessions \ wsOverlap' PROVE Orderly(d)'
  <2>1. Orderly(d) /\ \A t \in Of(d) : t \in Sockets
    BY <1>1, WsInvParts DEF Of
  <2>2. Of(d)' = Of(d) /\ (Cleaning(d)' <=> Cleaning(d)) /\ \A t \in Of(d) : Busy(t)' <=> Busy(t)
    BY <1>1 DEF Of, Cleaning, Busy
  <2>3. \A t \in Of(d) : wsLine'[t] = "open" => wsLine[t] = "open"
    BY <1>1, <2>1
  <2>4. NoneOpen(d) => NoneOpen(d)'
    BY <2>2, <2>3 DEF NoneOpen
  <2> QED BY <1>1, <2>1, <2>2, <2>3, <2>4 DEF Orderly
<1> QED BY <1>3, <1>4, <1>5 DEF WsInv

\* A task of a session changes; where it cleans up behind a failure, nothing of
\* the session is open and no handler is about to register.
LEMMA TaskGoes ==
    ASSUME WsInv, NEW c \in WsSessions, NEW n \in 1 .. MaxOutbound, NEW p \in SendSteps, SendGoto(c, n, p),
           UNCHANGED <<wsActive, wsPc, wsLine, wsCut>>,
           wsOverlap \subseteq wsOverlap', wsOverlap' \subseteq WsSessions,
           wsMissed' \in [WsSessions -> BOOLEAN], WsHeard',
           c \notin wsOverlap' /\ p \in {"failed", "closing"} => NoneOpen(c) /\ \A s \in Of(c) : wsPc[s] # "lookup"
    PROVE  WsInv'
<1>1. /\ wsSend' \in [WsSessions -> [1 .. MaxOutbound -> SendSteps]]
      /\ \A d \in WsSessions : d # c => wsSend'[d] = wsSend[d]
      /\ \A m \in 1 .. MaxOutbound : wsSend'[c][m] = IF m = n THEN p ELSE wsSend[c][m]
  BY WsInvParts, SendWent
<1>2. WsTypeOK'
  BY <1>1, WsInvParts DEF WsTypeOK, SendSteps
<1>3. Unaccepted' /\ WsNotCut'
  BY WsInvParts DEF Unaccepted, WsNotCut
<1>4. ASSUME NEW d \in WsSessions \ wsOverlap' PROVE Orderly(d)'
  <2>1. Orderly(d) /\ Of(d)' = Of(d) /\ (NoneOpen(d)' <=> NoneOpen(d)) /\ \A t \in Of(d) : Busy(t)' <=> Busy(t)
    BY WsInvParts DEF Of, NoneOpen, Busy
  <2>2. Cleaning(d)' => NoneOpen(d) /\ \A t \in Of(d) : wsPc[t] # "lookup"
    <3>1. CASE d # c
      BY <1>1, <2>1, <3>1 DEF Cleaning, Orderly
    <3>2. CASE d = c /\ p \in {"failed", "closing"}
      BY <1>4, <3>2
    <3>3. CASE d = c /\ p \notin {"failed", "closing"}
      BY <1>1, <2>1, <3>3 DEF Cleaning, Orderly
    <3> QED BY <3>1, <3>2, <3>3
  <2> QED BY <2>1, <2>2 DEF Orderly
<1> QED BY <1>2, <1>3, <1>4 DEF WsInv

LEMMA PushGoes == ASSUME WsInv, NEW c \in WsSessions, Push(c) PROVE WsInv'
<1>1. PICK n \in 1 .. MaxOutbound : SendGoto(c, n, "queued")
  BY DEF Push
<1>2. UNCHANGED <<wsActive, wsPc, wsLine, wsMissed, wsCut, wsOverlap>>
  BY DEF Push
<1>3. WsHeard' /\ wsMissed' \in [WsSessions -> BOOLEAN]
  BY <1>2, WsInvParts, WsTypes DEF WsHeard
<1> QED BY <1>1, <1>2, <1>3, WsInvParts, TaskGoes DEF SendSteps

LEMMA SendTaskGoes ==
    ASSUME WsInv, NEW c \in WsSessions, NEW n \in 1 .. MaxOutbound, SendTask(c, n)
    PROVE  WsInv'
<1> DEFINE x == wsActive[c]
           heard == x # NoSocket /\ wsLine[x] \in {"open", "lost"}
           missed == ~heard /\ \E s \in Sockets : SessionOf[s] = c /\ wsPc[s] = "receive" /\ wsLine[s] = "open"
<1>1. wsMissed' = [wsMissed EXCEPT ![c] = @ \/ missed] /\ UNCHANGED <<wsActive, wsPc, wsLine, wsCut>>
  BY DEF SendTask
<1>2. \/ SendGoto(c, n, "done") /\ UNCHANGED wsOverlap
      \/ /\ x # NoSocket /\ wsLine[x] # "open"
         /\ SendGoto(c, n, "failed")
         /\ wsOverlap' = IF OthersBusy(c, x) THEN wsOverlap \cup {c} ELSE wsOverlap
  BY DEF SendTask
<1>3. wsOverlap \subseteq wsOverlap' /\ wsOverlap' \subseteq WsSessions
  BY <1>2, WsInvParts
<1>4. c \notin wsOverlap => ~missed
  <2> SUFFICES ASSUME c \notin wsOverlap, NEW s \in Sockets, SessionOf[s] = c, wsLine[s] = "open" PROVE heard
    OBVIOUS
  <2>1. x = s
    BY WsInvParts DEF Orderly, Of
  <2> QED BY <2>1, SocketOf
<1> HIDE DEF missed, heard
<1>5. wsMissed' \in [WsSessions -> BOOLEAN] /\ \A d \in WsSessions : wsMissed'[d] => wsMissed[d] \/ (d = c /\ missed)
  <2>1. wsMissed \in [WsSessions -> BOOLEAN]
    BY WsInvParts, WsTypes
  <2>2. (wsMissed[c] \/ missed) \in BOOLEAN
    OBVIOUS
  <2> QED BY <1>1, <2>1, <2>2, Zenon
<1>6. WsHeard'
  BY <1>3, <1>4, <1>5, WsInvParts DEF WsHeard
<1>7. CASE SendGoto(c, n, "done") /\ UNCHANGED wsOverlap
  BY <1>1, <1>3, <1>5, <1>6, <1>7, TaskGoes DEF SendSteps
<1>8. CASE /\ x # NoSocket /\ wsLine[x] # "open"
           /\ SendGoto(c, n, "failed")
           /\ wsOverlap' = IF OthersBusy(c, x) THEN wsOverlap \cup {c} ELSE wsOverlap
  <2>1. x \in Sockets /\ SessionOf[x] = c /\ wsLine[x] # "none"
    BY <1>8, WsInvParts, WsTypes
  <2>2. ASSUME c \notin wsOverlap' PROVE NoneOpen(c) /\ \A s \in Of(c) : wsPc[s] # "lookup"
    <3>1. ~OthersBusy(c, x) /\ Orderly(c)
      BY <1>3, <1>8, <2>2, WsInvParts
    <3>2. NoneOpen(c)
      BY <1>8, <3>1 DEF Orderly, NoneOpen
    <3>3. ASSUME NEW s \in Of(c), wsPc[s] = "lookup" PROVE FALSE
      <4>1. s \in Sockets /\ Busy(s) /\ SessionOf[s] = c
        BY <3>3 DEF Of, Busy
      <4>2. s = x
        BY <3>1, <4>1 DEF OthersBusy
      <4> QED BY <2>1, <3>3, <4>1, <4>2, WsInvParts DEF Unaccepted
    <3> QED BY <3>2, <3>3
  <2> QED BY <1>1, <1>3, <1>5, <1>6, <1>8, <2>2, TaskGoes DEF SendSteps
<1> QED BY <1>2, <1>7, <1>8

\* A task that cleans up behind a failure: nothing of the session is open, so
\* nobody is cut off, and nothing that is open is forgotten.
LEMMA SendFailedGoes ==
    ASSUME WsInv, NEW c \in WsSessions, NEW n \in 1 .. MaxOutbound, SendFailed(c, n)
    PROVE  WsInv'
<1>1. Cleaning(c) /\ UNCHANGED <<wsActive, wsPc, wsMissed, wsOverlap>>
  BY DEF SendFailed, Cleaning
<1>2. ClosedBy(c, NoSocket)
  BY WsInvParts, CloseEffect DEF SendFailed, Close
<1>3. PICK p \in {"closing", "done"} : SendGoto(c, n, p)
  BY DEF SendFailed, Close
<1>4. /\ wsSend' \in [WsSessions -> [1 .. MaxOutbound -> SendSteps]]
      /\ \A d \in WsSessions : d # c => wsSend'[d] = wsSend[d]
  BY <1>3, WsInvParts, SendWent DEF SendSteps
<1>5. WsTypeOK'
  BY <1>1, <1>2, <1>4, WsInvParts, WsTypes, ClosedTyped
<1>6. /\ c \notin wsOverlap => NoneOpen(c)'
      /\ WsNotCut'
      /\ \A d \in WsSessions : d # c => \A t \in Of(d) : wsLine'[t] = wsLine[t]
  BY <1>1, <1>2, NoneOpenLeft
<1>7. Unaccepted'
  <2>1. ASSUME NEW t \in Sockets, wsPc[t] \in {"new", "lookup"} PROVE wsLine'[t] = "none"
    <3>1. wsLine[t] = "none" /\ t # NoSocket
      BY <2>1, WsInvParts, SocketOf DEF Unaccepted
    <3>2. t # wsActive[c]
      BY <3>1, WsInvParts DEF WsTypeOK
    <3> QED BY <1>2, <3>1, <3>2 DEF ClosedBy
  <2> QED BY <1>1, <2>1 DEF Unaccepted
<1>8. WsHeard'
  BY <1>1, WsInvParts DEF WsHeard
<1>9. ASSUME NEW d \in WsSessions \ wsOverlap' PROVE Orderly(d)'
  <2>1. Orderly(d) /\ Of(d)' = Of(d) /\ \A t \in Of(d) : Busy(t)' <=> Busy(t)
    BY <1>1, WsInvParts DEF Of, Busy
  <2>2. CASE d = c
    <3>1. NoneOpen(d)' /\ \A t \in Of(d) : wsLine'[t] # "open"
      BY <1>1, <1>6, <1>9, <2>1, <2>2 DEF NoneOpen
    <3>2. \A t \in Of(d) : wsPc[t] # "lookup"
      BY <1>1, <2>1, <2>2 DEF Orderly
    <3> QED BY <1>1, <2>1, <3>1, <3>2 DEF Orderly
  <2>3. CASE d # c
    <3>1. \A t \in Of(d) : wsLine'[t] = wsLine[t]
      BY <1>6, <2>3
    <3>2. (Cleaning(d)' <=> Cleaning(d)) /\ (NoneOpen(d)' <=> NoneOpen(d))
      BY <1>4, <2>1, <2>3, <3>1 DEF Cleaning, NoneOpen
    <3> QED BY <1>1, <2>1, <3>1, <3>2 DEF Orderly
  <2> QED BY <2>2, <2>3
<1> QED BY <1>5, <1>6, <1>7, <1>8, <1>9 DEF WsInv

LEMMA SendClosedGoes ==
    ASSUME WsInv, NEW c \in WsSessions, NEW n \in 1 .. MaxOutbound, SendClosed(c, n)
    PROVE  WsInv'
<1>1. /\ Cleaning(c) /\ SendGoto(c, n, "done") /\ Unregister(c)
      /\ UNCHANGED <<wsPc, wsLine, wsMissed, wsCut, wsOverlap>>
  BY DEF SendClosed, Cleaning
<1>2. /\ wsSend' \in [WsSessions -> [1 .. MaxOutbound -> SendSteps]]
      /\ \A d \in WsSessions : d # c => wsSend'[d] = wsSend[d]
  BY <1>1, WsInvParts, SendWent DEF SendSteps
<1>3. /\ WsTypeOK' /\ WsNotCut' /\ WsHeard'
      /\ \A d \in WsSessions : wsActive'[d] = IF d = c THEN NoSocket ELSE wsActive[d]
  BY <1>1, <1>2, WsInvParts, WsTypes, Forgotten
<1>4. Unaccepted'
  BY <1>1, WsInvParts DEF Unaccepted
<1>5. ASSUME NEW d \in WsSessions \ wsOverlap' PROVE Orderly(d)'
  <2>1. /\ Orderly(d) /\ Of(d)' = Of(d) /\ (NoneOpen(d)' <=> NoneOpen(d))
        /\ \A t \in Of(d) : Busy(t)' <=> Busy(t)
    BY <1>1, WsInvParts DEF Of, Busy, NoneOpen
  <2>2. CASE d = c
    <3>1. NoneOpen(d) /\ \A t \in Of(d) : wsPc[t] # "lookup"
      BY <1>1, <2>1, <2>2 DEF Orderly
    <3>2. \A t \in Of(d) : wsLine[t] # "open"
      BY <3>1 DEF NoneOpen
    <3> QED BY <1>1, <2>1, <3>1, <3>2 DEF Orderly
  <2>3. CASE d # c
    <3>1. (Cleaning(d)' <=> Cleaning(d)) /\ wsActive'[d] = wsActive[d]
      BY <1>2, <1>3, <2>3 DEF Cleaning
    <3> QED BY <1>1, <2>1, <3>1 DEF Orderly
  <2> QED BY <2>2, <2>3
<1> QED BY <1>3, <1>4, <1>5 DEF WsInv

LEMMA WsStarts == WsInit => WsInv
<1> SUFFICES ASSUME WsInit PROVE WsInv
  OBVIOUS
<1>1. /\ \A c \in WsSessions : wsActive[c] = NoSocket /\ wsMissed[c] = FALSE
      /\ \A c \in WsSessions : \A n \in 1 .. MaxOutbound : wsSend[c][n] = "none"
      /\ \A s \in Sockets : wsPc[s] = "new" /\ wsLine[s] = "none"
      /\ wsCut = {} /\ wsOverlap = {}
  BY DEF WsInit
<1>2. WsTypeOK
  BY <1>1 DEF WsInit, WsTypeOK
<1> QED BY <1>1, <1>2 DEF WsInv, Unaccepted, WsNotCut, WsHeard, Orderly, NoneOpen, Of, Busy, Cleaning

\* Unless two sockets of a session overlap its client is registered, stays
\* connected and hears every answer: for every number of sockets and messages.
THEOREM ClientsAreServed == WsSpec => []WsServed
<1>1. ASSUME WsInv, [WsNext]_wsVars PROVE WsInv'
  <2>1. CASE UNCHANGED wsVars
    <3>1. UNCHANGED <<wsActive, wsPc, wsLine, wsSend, wsMissed, wsCut, wsOverlap>>
      BY <2>1 DEF wsVars
    <3>2. WsTypeOK' /\ Unaccepted' /\ WsNotCut' /\ WsHeard'
      BY <1>1, <3>1 DEF WsInv, WsTypeOK, Unaccepted, WsNotCut, WsHeard
    <3>3. ASSUME NEW c \in WsSessions \ wsOverlap PROVE Orderly(c)'
      <4>1. Orderly(c)
        BY <1>1 DEF WsInv
      <4> QED BY <3>1, <4>1 DEF Orderly, NoneOpen, Of, Busy, Cleaning
    <3> QED BY <3>1, <3>2, <3>3 DEF WsInv
  <2> QED BY <1>1, <2>1, Opened, ConnectGoes, NotFoundGoes, GreetGoes, GreetFailedGoes, GreetClosedGoes, CleanupGoes,
             ClosedGoes, BadMessageGoes, IdleGoes, ClientGoes, PushGoes, SendTaskGoes, SendFailedGoes, SendClosedGoes
          DEF WsNext, Handler, SendStep
<1> QED BY <1>1, WsStarts, WsInvIsServed, PTL DEF WsSpec

-----------------------------------------------------------------------------
(***************************************************************************)
(* The scheduler.  First its types: the loop, the calls of the store and   *)
(* the references they hold.  Then, while store calls do not overlap, what *)
(* the file, the cache and the list of a call say of each other; and at    *)
(* last where the copies of a job are that has run, or was switched off.   *)
(***************************************************************************)

\* The references of CronTypeOK one by one.
CronRefs ==
    /\ cronCache # NoCache => \A i \in JobIds : cronCache[i] # NoJob => heap[cronCache[i]] # NoJob
    /\ \A k \in 1 .. Len(loop.due) : heap[loop.due[k]] # NoJob
    /\ \A c \in Callers : op[c].obj # NoJob => heap[op[c].obj] # NoJob

LEMMA HeldIs ==
    ASSUME CronShape, NEW x
    PROVE  x \in Held <=>
             \/ cronCache # NoCache /\ \E i \in JobIds : x = cronCache[i]
             \/ \E k \in 1 .. Len(loop.due) : x = loop.due[k]
             \/ \E c \in Callers : x = op[c].obj
<1>1. cronCache # NoCache => DOMAIN cronCache = JobIds
  BY DEF CronShape
<1>2. loop.due \in Seq(Obj) /\ DOMAIN loop.due = 1 .. Len(loop.due)
  BY DEF CronShape, LoopOK
<1>3. x \in (IF cronCache = NoCache THEN {} ELSE Range(cronCache))
        <=> cronCache # NoCache /\ \E i \in JobIds : x = cronCache[i]
  BY <1>1, Zenon DEF Range
<1>4. x \in Range(loop.due) <=> \E k \in 1 .. Len(loop.due) : x = loop.due[k]
  BY <1>2, Zenon DEF Range
<1> QED BY <1>3, <1>4, Zenon DEF Held

LEMMA CronRefsAreHeld == CronShape /\ CronRefs <=> CronTypeOK
<1>1. ASSUME CronShape PROVE CronRefs <=> \A x \in Held \ {NoJob} : heap[x] # NoJob
  <2>1. NoJob \notin Obj /\ \A k \in 1 .. Len(loop.due) : loop.due[k] \in Obj
    BY <1>1, ReferenceAssumption DEF CronShape, LoopOK
  <2>2. \A x : x \in Held <=>
             \/ cronCache # NoCache /\ \E i \in JobIds : x = cronCache[i]
             \/ \E k \in 1 .. Len(loop.due) : x = loop.due[k]
             \/ \E c \in Callers : x = op[c].obj
    BY <1>1, HeldIs, Zenon
  <2> QED BY <2>1, <2>2 DEF CronRefs
<1> QED BY <1>1 DEF CronTypeOK

LEMMA CallersFacts ==
    /\ IsFiniteSet(Callers) /\ Cardinality(Callers) = Cardinality(Editors) + 1
    /\ Cardinality(Editors) \in Nat /\ "loop" \in Callers /\ "loop" \notin Editors
    /\ IsFiniteSet(Slots) /\ Cardinality(Slots) = Cardinality(Editors) + 3
    /\ Slots \subseteq Nat \ {0} /\ 0 \notin Slots
<1>1. IsFiniteSet(Editors) /\ "loop" \notin Editors
  BY CronAssumption DEF CronAssumption
<1>2. Cardinality(Editors) \in Nat
  BY <1>1, FS_CardinalityType
<1>3. IsFiniteSet(Callers) /\ Cardinality(Callers) = Cardinality(Editors) + 1
  BY <1>1, FS_AddElement DEF Callers
<1>4. IsFiniteSet(Slots) /\ Cardinality(Slots) = Cardinality(Editors) + 3
  BY <1>2, FS_Interval DEF Slots
<1>5. Slots \subseteq Nat \ {0} /\ 0 \notin Slots
  BY <1>2 DEF Slots
<1> QED BY <1>1, <1>2, <1>3, <1>4, <1>5 DEF Callers

\* There is a slot for one more object of a job: the cache, the due jobs and
\* every other call hold at most one each.
LEMMA SlotIsFree ==
    ASSUME CronShape, NEW c \in Callers, NEW i \in JobIds,
           op[c].obj # NoJob => op[c].obj[1] # i
    PROVE  FreshObj(i) \in Obj /\ FreshObj(i)[1] = i /\ FreshObj(i) \notin Held
<1> DEFINE Others == Callers \ {c}
           f == [d \in Others |-> op[d].obj[2]]
           T == {f[d] : d \in Others}
           N == Cardinality(Editors)
<1>1. IsFiniteSet(Others) /\ Cardinality(Others) = N /\ N \in Nat
  <2>1. /\ IsFiniteSet(Callers \ {c})
        /\ Cardinality(Callers \ {c}) =
              IF c \in Callers THEN Cardinality(Callers) - 1 ELSE Cardinality(Callers)
    BY CallersFacts, FS_RemoveElement, Zenon
  <2> QED BY <2>1, CallersFacts
<1>2. f \in Surjection(Others, T)
  BY Zenon DEF Surjection
<1>3. IsFiniteSet(T) /\ Cardinality(T) <= N
  <2> HIDE DEF T, f, Others
  <2> QED BY <1>1, <1>2, FS_Surjection
<1>4. PICK a : cronCache # NoCache /\ cronCache[i] # NoJob => a = cronCache[i][2]
  BY Zenon
<1>5. PICK b : \A k \in 1 .. Len(loop.due) : loop.due[k][1] = i => b = loop.due[k][2]
  <2>1. \A j, k \in 1 .. Len(loop.due) : j # k => loop.due[j][1] # loop.due[k][1]
    BY DEF CronShape, LoopOK
  <2> QED BY <2>1
<1> DEFINE U == (T \cup {a}) \cup {b}
<1>6. IsFiniteSet(U) /\ Cardinality(U) <= N + 2 /\ Cardinality(U) \in Nat
  <2>1. IsFiniteSet(T \cup {a}) /\ Cardinality(T \cup {a}) <= N + 1
    <3> HIDE DEF T
    <3>1. Cardinality(T) \in Nat
      BY <1>3, FS_CardinalityType
    <3>2. /\ IsFiniteSet(T \cup {a})
          /\ Cardinality(T \cup {a}) = IF a \in T THEN Cardinality(T) ELSE Cardinality(T) + 1
      BY <1>3, FS_AddElement, Zenon
    <3> QED BY <3>1, <3>2, <1>1, <1>3
  <2> DEFINE V == T \cup {a}
  <2>2. Cardinality(V) \in Nat
    BY <2>1, FS_CardinalityType
  <2> HIDE DEF V
  <2>3. IsFiniteSet(V \cup {b}) /\ Cardinality(V \cup {b}) <= N + 2
    <3>1. /\ IsFiniteSet(V \cup {b})
          /\ Cardinality(V \cup {b}) = IF b \in V THEN Cardinality(V) ELSE Cardinality(V) + 1
      BY <2>1, FS_AddElement, Zenon DEF V
    <3>2. Cardinality(V) <= N + 1
      BY <2>1 DEF V
    <3> QED BY <3>1, <3>2, <2>2, <1>1
  <2>4. Cardinality(V \cup {b}) \in Nat
    BY <2>3, FS_CardinalityType
  <2> QED BY <2>3, <2>4 DEF V
<1>7. \A g \in Slots : <<i, g>> \in Held => g \in U
  <2> SUFFICES ASSUME NEW g \in Slots, <<i, g>> \in Held PROVE g \in U
    OBVIOUS
  <2>0. <<i, g>> \in Obj /\ <<i, g>> # NoJob /\ <<i, g>>[1] = i /\ <<i, g>>[2] = g
    BY ReferenceAssumption DEF Obj
  <2>1. CASE cronCache # NoCache /\ \E j \in JobIds : <<i, g>> = cronCache[j]
    <3>1. PICK j \in JobIds : <<i, g>> = cronCache[j]
      BY <2>1
    <3>2. cronCache[j] # NoJob /\ cronCache[j][1] = j
      BY <2>0, <2>1, <3>1 DEF CronShape
    <3>3. j = i
      BY <2>0, <3>1, <3>2
    <3> QED BY <1>4, <2>0, <2>1, <3>1, <3>2, <3>3
  <2>2. CASE \E k \in 1 .. Len(loop.due) : <<i, g>> = loop.due[k]
    BY <1>5, <2>0, <2>2
  <2>3. CASE \E d \in Callers : <<i, g>> = op[d].obj
    <3>1. PICK d \in Callers : <<i, g>> = op[d].obj
      BY <2>3
    <3>2. d # c
      BY <2>0, <3>1
    <3> QED BY <2>0, <3>1, <3>2
  <2> QED BY <2>1, <2>2, <2>3, HeldIs
<1>8. \E g \in Slots : <<i, g>> \notin Held
  <2> SUFFICES ASSUME \A g \in Slots : <<i, g>> \in Held PROVE FALSE
    OBVIOUS
  <2>1. Slots \in SUBSET U
    BY <1>7
  <2> HIDE DEF U
  <2>2. Cardinality(Slots) <= Cardinality(U)
    BY <2>1, <1>6, FS_Subset
  <2> QED BY <2>2, <1>1, <1>6, CallersFacts
<1> DEFINE g == CHOOSE g \in Slots : <<i, g>> \notin Held
<1>9. g \in Slots /\ <<i, g>> \notin Held
  BY <1>8, Zenon
<1>10. FreshObj(i) = <<i, g>>
  BY Zenon DEF FreshObj
<1> HIDE DEF g
<1> QED BY <1>9, <1>10 DEF Obj

LEMMA CallChanged ==
    ASSUME CronShape, NEW c \in Callers, NEW r, CallOK(r), op' = [op EXCEPT ![c] = r]
    PROVE  /\ op' = [d \in Callers |-> op'[d]]
           /\ op'[c] = r /\ \A d \in Callers : d # c => op'[d] = op[d]
           /\ \A d \in Callers : CallOK(op'[d])
<1>1. op = [d \in Callers |-> op[d]] /\ \A d \in Callers : CallOK(op[d])
  BY DEF CronShape
<1>2. op'[c] = r /\ \A d \in Callers : d # c => op'[d] = op[d]
  BY <1>1
<1>3. \A d \in Callers : CallOK(op'[d])
  BY <1>1, <1>2, Zenon
<1>4. op' = [d \in Callers |-> op'[d]]
  BY <1>1
<1> QED BY <1>2, <1>3, <1>4

\* The loop keeps its place while somebody else's call changes.
LEMMA LoopStays ==
    ASSUME LoopOK, UNCHANGED <<loop, op["loop"]>>
    PROVE  LoopOK'
BY DEF LoopOK

LEMMA CallParts ==
    ASSUME CronShape, NEW c \in Callers
    PROVE  /\ op[c].step \in {"none", "load", "save", "write", "cache"}
           /\ op[c].step = "none" <=> op[c] = Resting
           /\ op[c].kind \in {"none", "list", "add", "update", "remove"}
           /\ op[c].kind = "none" <=> op[c] = Resting
           /\ op[c].id \in JobIds \cup {NoJob} /\ op[c].obj \in Obj \cup {NoJob}
           /\ op[c].obj # NoJob => op[c].kind \in {"add", "update"} /\ op[c].obj[1] = op[c].id
           /\ op[c].kind \in {"add", "update"} => op[c].obj \in Obj /\ op[c].id = op[c].obj[1] /\ op[c].id \in JobIds
           /\ op[c].kind = "remove" => op[c].id \in JobIds /\ op[c].obj = NoJob
           /\ op[c].kind = "list" => op[c].id = NoJob /\ op[c].obj = NoJob /\ op[c].step \in {"load", "cache"}
           /\ op[c].step # "none" => op[c].jobs \in JobLists
                /\ op[c] = [kind |-> op[c].kind, id |-> op[c].id, obj |-> op[c].obj,
                            jobs |-> op[c].jobs, step |-> op[c].step]
           /\ op[c].kind = "remove" /\ op[c].step # "load" => op[c].jobs[op[c].id] = NoJob
           /\ op[c].kind \in {"add", "update"} /\ op[c].step # "load" => op[c].jobs[op[c].id] # NoJob
<1>1. CallOK(op[c])
  BY DEF CronShape
<1>2. NoJob \notin Obj /\ \A o \in Obj : o[1] \in JobIds
  BY ReferenceAssumption DEF Obj
<1>3. CASE op[c] = Resting
  <2>1. /\ op[c].kind = "none" /\ op[c].id = NoJob /\ op[c].obj = NoJob /\ op[c].step = "none"
    BY <1>3 DEF Resting
  <2> QED BY <2>1, <1>3
<1>4. CASE op[c] # Resting
  <2>1. op[c].kind \in {"list", "add", "update", "remove"} /\ op[c].step \in {"load", "save", "write", "cache"}
    BY <1>1, <1>4 DEF CallOK
  <2> QED BY <1>1, <1>2, <1>4, <2>1 DEF CallOK
<1> QED BY <1>3, <1>4

LEMMA LoadingOK ==
    ASSUME NEW kind, NEW i, NEW o,
           \/ kind = "list" /\ i = NoJob /\ o = NoJob
           \/ kind = "remove" /\ i \in JobIds /\ o = NoJob
           \/ kind \in {"add", "update"} /\ o \in Obj /\ i = o[1]
    PROVE  CallOK([kind |-> kind, id |-> i, obj |-> o, jobs |-> NoJobs, step |-> "load"])
<1> DEFINE r == [kind |-> kind, id |-> i, obj |-> o, jobs |-> NoJobs, step |-> "load"]
<1>1. r.kind = kind /\ r.id = i /\ r.obj = o /\ r.jobs = NoJobs /\ r.step = "load"
  OBVIOUS
<1>2. NoJobs \in JobLists
  BY DEF NoJobs, JobLists
<1>3. r = [kind |-> r.kind, id |-> r.id, obj |-> r.obj, jobs |-> r.jobs, step |-> r.step]
  OBVIOUS
<1> HIDE DEF r
<1> QED BY <1>1, <1>2, <1>3 DEF CallOK

\* What the beginning of a call keeps.
LEMMA BeginKeeps ==
    ASSUME CronShape, CronRefs, NEW c \in Callers, NEW kind, NEW i, NEW o,
           Begin(c, kind, i, o),
           \/ kind = "list" /\ i = NoJob /\ o = NoJob
           \/ kind = "remove" /\ i \in JobIds /\ o = NoJob
           \/ kind \in {"add", "update"} /\ o \in Obj /\ i = o[1],
           UNCHANGED <<now, cronFile, cronCache>>, loop'.due = loop.due,
           heap' \in [Obj -> Jobs \cup {NoJob}],
           \A x \in Obj : heap[x] # NoJob => heap'[x] # NoJob,
           o # NoJob => heap'[o] # NoJob,
           LoopOK', loop'.at # "arm" => loop.at # "arm"
    PROVE  CronShape' /\ CronRefs'
<1> DEFINE r == [kind |-> kind, id |-> i, obj |-> o, jobs |-> NoJobs, step |-> "load"]
<1>1. CallOK(r)
  BY LoadingOK
<1>2. op' = [op EXCEPT ![c] = r]
  BY DEF Begin
<1>3. r.obj = o
  OBVIOUS
<1> HIDE DEF r
<1>4. /\ op' = [d \in Callers |-> op'[d]]
      /\ op'[c] = r /\ \A d \in Callers : d # c => op'[d] = op[d]
      /\ \A d \in Callers : CallOK(op'[d])
  BY <1>1, <1>2, CallChanged
<1>5. CronShape'
  BY <1>4 DEF CronShape
<1>6. \A d \in Callers : op[d].obj \in Obj \cup {NoJob}
  BY CallParts
<1>7. \A k \in 1 .. Len(loop.due) : loop.due[k] \in Obj
  BY DEF CronShape, LoopOK
<1>8. \A j \in JobIds : cronCache # NoCache /\ cronCache[j] # NoJob => cronCache[j] \in Obj
  BY DEF CronShape
<1>9. CronRefs'
  BY <1>3, <1>4, <1>6, <1>7, <1>8 DEF CronRefs
<1> QED BY <1>5, <1>9

LEMMA EditorLoop ==
    ASSUME CronShape, NEW c \in Editors, NEW r, op' = [op EXCEPT ![c] = r], loop' = loop
    PROVE  LoopOK' /\ c \in Callers
<1>1. c # "loop" /\ c \in Callers /\ "loop" \in Callers
  BY CallersFacts DEF Callers
<1>2. op'["loop"] = op["loop"]
  BY <1>1 DEF CronShape
<1> QED BY <1>1, <1>2, LoopStays DEF CronShape

LEMMA NextRunType ==
    ASSUME NEW i \in JobIds, NEW last \in Nat, NEW t \in Nat
    PROVE  NextRun(i, last, t) \in Nat
<1>1. /\ Schedule[i].kind \in {"at", "every", "cron"} /\ Schedule[i].n \in Nat \ {0}
  BY CronAssumption DEF CronAssumption
<1>2. CASE Schedule[i].kind = "cron"
  <2>1. t \div Schedule[i].n \in Nat
    BY <1>1
  <2>2. ((t \div Schedule[i].n) + 1) * Schedule[i].n \in Nat
    BY <1>1, <2>1
  <2> QED BY <1>2, <2>2 DEF NextRun
<1> QED BY <1>1, <1>2 DEF NextRun

\* A reference that can be followed.
LEMMA CachedObject ==
    ASSUME CronShape, CronRefs, NEW i \in JobIds, cronCache # NoCache, cronCache[i] # NoJob
    PROVE  /\ cronCache[i] \in Obj /\ cronCache[i][1] = i
           /\ heap[cronCache[i]] \in Jobs
<1>1. cronCache[i] \in Obj /\ cronCache[i][1] = i
  BY DEF CronShape
<1>2. heap[cronCache[i]] \in Jobs \cup {NoJob} /\ heap[cronCache[i]] # NoJob
  BY <1>1 DEF CronShape, CronRefs
<1> QED BY <1>1, <1>2

LEMMA DueObject ==
    ASSUME CronShape, CronRefs, loop.due # <<>>
    PROVE  /\ Len(loop.due) \in Nat \ {0} /\ Head(loop.due) = loop.due[1]
           /\ Head(loop.due) \in Obj /\ Head(loop.due)[1] \in JobIds
           /\ heap[Head(loop.due)] \in Jobs
<1>1. loop.due \in Seq(Obj)
  BY DEF CronShape, LoopOK
<1>2. Len(loop.due) \in Nat \ {0}
  BY <1>1, EmptySeq
<1>3. Head(loop.due) = loop.due[1] /\ loop.due[1] \in Obj
  BY <1>1, <1>2
<1>4. heap[loop.due[1]] \in Jobs \cup {NoJob} /\ heap[loop.due[1]] # NoJob
  BY <1>2, <1>3 DEF CronShape, CronRefs
<1> QED BY <1>2, <1>3, <1>4 DEF Obj

LEMMA JobsUpdated ==
    ASSUME heap \in [Obj -> Jobs \cup {NoJob}], NEW o \in Obj, NEW j \in Jobs,
           heap' = [heap EXCEPT ![o] = j]
    PROVE  /\ heap' \in [Obj -> Jobs \cup {NoJob}] /\ heap'[o] = j /\ heap'[o] # NoJob
           /\ \A x \in Obj : x # o => heap'[x] = heap[x]
           /\ \A x \in Obj : heap[x] # NoJob => heap'[x] # NoJob
BY ReferenceAssumption

LEMMA AddJobType ==
    ASSUME CronShape, CronRefs, NEW c \in Editors, NEW i \in JobIds, AddJob(c, i)
    PROVE  CronShape' /\ CronRefs'
<1> DEFINE o == FreshObj(i)
           j == [enabled |-> TRUE, next |-> NextRun(i, 0, now), last |-> 0]
<1>1. Begin(c, "add", i, o) /\ heap' = [heap EXCEPT ![o] = j]
      /\ UNCHANGED <<now, cronFile, cronCache, loop>>
  BY DEF AddJob
<1>2. c \in Callers /\ op[c] = Resting
  BY <1>1 DEF Begin, Callers
<1>3. o \in Obj /\ o[1] = i
  BY <1>2, SlotIsFree DEF Resting
<1>4. j \in Jobs
  <2>1. NextRun(i, 0, now) \in Nat
    BY NextRunType DEF CronShape
  <2> QED BY <2>1 DEF Jobs
<1> HIDE DEF o, j
<1>5. LoopOK'
  BY <1>1, EditorLoop DEF Begin
<1>6. /\ heap' \in [Obj -> Jobs \cup {NoJob}] /\ heap'[o] # NoJob
      /\ \A x \in Obj : heap[x] # NoJob => heap'[x] # NoJob
  BY <1>1, <1>3, <1>4, JobsUpdated DEF CronShape
<1> QED BY <1>1, <1>2, <1>3, <1>5, <1>6, BeginKeeps

LEMMA RemoveJobType ==
    ASSUME CronShape, CronRefs, NEW c \in Editors, NEW i \in JobIds, RemoveJob(c, i)
    PROVE  CronShape' /\ CronRefs'
<1>1. Begin(c, "remove", i, NoJob) /\ UNCHANGED <<now, cronFile, heap, cronCache, loop>>
  BY DEF RemoveJob
<1>2. LoopOK' /\ c \in Callers
  BY <1>1, EditorLoop DEF Begin
<1> QED BY <1>1, <1>2, BeginKeeps DEF CronShape

\* What an edit of the cached object keeps.
LEMMA EditType ==
    ASSUME CronShape, CronRefs, NEW c \in Editors, NEW i \in JobIds, Finds(c, i),
           NEW j \in Jobs, heap' = [heap EXCEPT ![cronCache[i]] = j],
           Begin(c, "update", i, cronCache[i]),
           UNCHANGED <<now, cronFile, cronCache, loop>>
    PROVE  CronShape' /\ CronRefs'
<1>1. cronCache[i] \in Obj /\ cronCache[i][1] = i
  BY CachedObject DEF Finds
<1>2. LoopOK' /\ c \in Callers
  BY EditorLoop DEF Begin
<1>3. /\ heap' \in [Obj -> Jobs \cup {NoJob}] /\ heap'[cronCache[i]] # NoJob
      /\ \A x \in Obj : heap[x] # NoJob => heap'[x] # NoJob
  BY <1>1, JobsUpdated DEF CronShape
<1> QED BY <1>1, <1>2, <1>3, BeginKeeps

LEMMA SetEnabledIs ==
    ASSUME CronShape, CronRefs, NEW c \in Editors, NEW i \in JobIds, NEW b \in BOOLEAN,
           SetEnabled(c, i, b)
    PROVE  \E j \in Jobs :
             /\ j.next = heap[cronCache[i]].next
             /\ heap' = [heap EXCEPT ![cronCache[i]] = j]
<1>1. cronCache[i] \in Obj /\ heap[cronCache[i]] \in Jobs
  BY CachedObject DEF SetEnabled, Finds
<1> DEFINE j == [heap[cronCache[i]] EXCEPT !.enabled = b]
<1>2. j \in Jobs /\ j.next = heap[cronCache[i]].next
  BY <1>1 DEF Jobs
<1>3. heap' = [heap EXCEPT ![cronCache[i]] = j]
  BY <1>1 DEF SetEnabled
<1> QED BY <1>2, <1>3

LEMMA RunJobNowIs ==
    ASSUME CronShape, CronRefs, NEW c \in Editors, NEW i \in JobIds, RunJobNow(c, i)
    PROVE  \E j \in Jobs :
             /\ j.next = NextRun(i, now, now)
             /\ heap' = [heap EXCEPT ![cronCache[i]] = j]
<1>1. cronCache[i] \in Obj /\ heap[cronCache[i]] \in Jobs
  BY CachedObject DEF RunJobNow, Finds
<1> DEFINE j == [heap[cronCache[i]] EXCEPT !.last = now, !.next = NextRun(i, now, now)]
<1>2. now \in Nat /\ NextRun(i, now, now) \in Nat
  BY NextRunType DEF CronShape
<1>3. j \in Jobs /\ j.next = NextRun(i, now, now)
  BY <1>1, <1>2 DEF Jobs
<1>4. heap' = [heap EXCEPT ![cronCache[i]] = j]
  BY <1>1 DEF RunJobNow
<1> QED BY <1>3, <1>4

LEMMA EnsureCacheType ==
    ASSUME CronShape, CronRefs, NEW c \in Callers, EnsureCache(c),
           c = "loop" => loop.at = "arm"
    PROVE  CronShape' /\ CronRefs'
<1>1. Begin(c, "list", NoJob, NoJob) /\ UNCHANGED <<now, cronFile, heap, cronCache, loop>>
  BY DEF EnsureCache
<1>2. LoopOK'
  <2>1. CASE c = "loop"
    <3>1. op'["loop"].kind = "list"
      BY <1>1, <2>1 DEF Begin, CronShape
    <3> QED BY <1>1, <2>1, <3>1 DEF LoopOK, CronShape, Resting
  <2>2. CASE c # "loop"
    <3>1. c \in Editors
      BY <2>2 DEF Callers
    <3> QED BY <1>1, <3>1, EditorLoop DEF Begin
  <2> QED BY <2>1, <2>2
<1> QED BY <1>1, <1>2, BeginKeeps DEF CronShape

LEMMA ReadyIs ==
    ASSUME CronShape, NEW c \in Callers, op[c].step # "none", NEW jobs, NEW step,
           op' = [op EXCEPT ![c].jobs = jobs, ![c].step = step]
    PROVE  op' = [op EXCEPT ![c] = [kind |-> op[c].kind, id |-> op[c].id, obj |-> op[c].obj,
                                    jobs |-> jobs, step |-> step]]
<1>1. op[c] = [kind |-> op[c].kind, id |-> op[c].id, obj |-> op[c].obj,
               jobs |-> op[c].jobs, step |-> op[c].step]
  BY CallParts
<1>2. op = [d \in Callers |-> op[d]]
  BY DEF CronShape
<1>3. [op[c] EXCEPT !.jobs = jobs, !.step = step] =
        [kind |-> op[c].kind, id |-> op[c].id, obj |-> op[c].obj, jobs |-> jobs, step |-> step]
  <2>1. PICK k, i, o, l, s : op[c] = [kind |-> k, id |-> i, obj |-> o, jobs |-> l, step |-> s]
    BY <1>1, Zenon
  <2>2. op[c].kind = k /\ op[c].id = i /\ op[c].obj = o
    BY <2>1
  <2>3. [op[c] EXCEPT !.jobs = jobs, !.step = step] =
          [kind |-> k, id |-> i, obj |-> o, jobs |-> jobs, step |-> step]
    <3> DEFINE r == [op[c] EXCEPT !.jobs = jobs]
    <3>1. r = [kind |-> k, id |-> i, obj |-> o, jobs |-> jobs, step |-> s]
      BY <2>1
    <3>2. [op[c] EXCEPT !.jobs = jobs, !.step = step] = [r EXCEPT !.step = step]
      BY Zenon
    <3> HIDE DEF r
    <3>3. [r EXCEPT !.step = step] =
            [kind |-> k, id |-> i, obj |-> o, jobs |-> jobs, step |-> step]
      BY <3>1
    <3> QED BY <3>2, <3>3
  <2> QED BY <2>2, <2>3
<1>4. op' = [op EXCEPT ![c] = [op[c] EXCEPT !.jobs = jobs, !.step = step]]
  BY <1>2
<1> QED BY <1>3, <1>4

\* What a step of a call keeps.
LEMMA CallGoesOn ==
    ASSUME CronShape, CronRefs, NEW c \in Callers, op[c].step # "none",
           NEW r, CallOK(r), op' = [op EXCEPT ![c] = r],
           r = Resting \/ (r.kind = op[c].kind /\ r.id = op[c].id /\ r.obj = op[c].obj),
           UNCHANGED <<now, heap, cronCache, loop>>, cronFile' \in JobLists \cup {Torn}
    PROVE  CronShape' /\ CronRefs'
<1>1. /\ op' = [d \in Callers |-> op'[d]]
      /\ op'[c] = r /\ \A d \in Callers : d # c => op'[d] = op[d]
      /\ \A d \in Callers : CallOK(op'[d])
  BY CallChanged
<1>2. LoopOK'
  <2>0. "loop" \in Callers
    BY CallersFacts
  <2>1. CASE c = "loop"
    <3>1. op["loop"] # Resting
      BY <2>1 DEF Resting
    <3>2. r = Resting \/ (r.kind = op["loop"].kind /\ r.id = op["loop"].id /\ r.obj = op["loop"].obj)
      BY <2>1
    <3>3. op'["loop"] = r
      BY <1>1, <2>1
    <3> QED BY <3>1, <3>2, <3>3 DEF CronShape, LoopOK, Resting
  <2>2. CASE c # "loop"
    BY <1>1, <2>0, <2>2, LoopStays DEF CronShape
  <2> QED BY <2>1, <2>2
<1>3. CronShape'
  BY <1>1, <1>2 DEF CronShape
<1>4. CronRefs'
  BY <1>1 DEF CronRefs, Resting
<1> QED BY <1>3, <1>4

LEMMA LoadedType == CronShape => Loaded \in JobLists
BY DEF CronShape, Loaded, NoJobs, JobLists

\* A list with the job put in or taken out.
LEMMA ListChanged ==
    ASSUME NEW l \in JobLists, NEW i \in JobIds, NEW j \in Jobs \cup {NoJob}
    PROVE  /\ [l EXCEPT ![i] = j] \in JobLists /\ [l EXCEPT ![i] = j][i] = j
           /\ \A k \in JobIds : k # i => [l EXCEPT ![i] = j][k] = l[k]
BY DEF JobLists

\* What Load does: the call has its list, or it returns.
LEMMA LoadIs ==
    ASSUME CronShape, CronRefs, NEW c \in Callers, Load(c)
    PROVE  /\ op[c].step = "load"
           /\ UNCHANGED <<now, cronFile, heap, cronCache, loop, fate, want, ran, orderly, cronUsed>>
           /\ \/ /\ op[c].kind \in {"update", "remove"} /\ Loaded[op[c].id] = NoJob
                 /\ op' = [op EXCEPT ![c] = Resting]
              \/ \E jobs \in JobLists, step \in {"save", "cache"} :
                   /\ op' = [op EXCEPT ![c] = [kind |-> op[c].kind, id |-> op[c].id, obj |-> op[c].obj,
                                               jobs |-> jobs, step |-> step]]
                   /\ \A k \in JobIds : k # op[c].id => jobs[k] = Loaded[k]
                   /\ step = "cache" <=> op[c].kind = "list"
                   /\ op[c].kind \in {"add", "update"} => jobs[op[c].id] = heap[op[c].obj]
                   /\ op[c].kind = "remove" => jobs[op[c].id] = NoJob
                   /\ op[c].kind \in {"remove", "update"} => Loaded[op[c].id] # NoJob
<1> DEFINE o == op[c]
           Ready(jobs, step) == op' = [op EXCEPT ![c].jobs = jobs, ![c].step = step]
           Goal(jobs, step) ==
                   /\ op' = [op EXCEPT ![c] = [kind |-> op[c].kind, id |-> op[c].id, obj |-> op[c].obj,
                                               jobs |-> jobs, step |-> step]]
                   /\ \A k \in JobIds : k # op[c].id => jobs[k] = Loaded[k]
                   /\ step = "cache" <=> op[c].kind = "list"
                   /\ op[c].kind \in {"add", "update"} => jobs[op[c].id] = heap[op[c].obj]
                   /\ op[c].kind = "remove" => jobs[op[c].id] = NoJob
                   /\ op[c].kind \in {"remove", "update"} => Loaded[op[c].id] # NoJob
<1>1. o.step = "load"
      /\ UNCHANGED <<now, cronFile, heap, cronCache, loop, fate, want, ran, orderly, cronUsed>>
  BY DEF Load
<1>2. \/ o.kind = "list" /\ Ready(Loaded, "cache")
      \/ o.kind = "add" /\ Ready([Loaded EXCEPT ![o.id] = heap[o.obj]], "save")
      \/ o.kind = "update" /\ Loaded[o.id] # NoJob /\ Ready([Loaded EXCEPT ![o.id] = heap[o.obj]], "save")
      \/ o.kind = "remove" /\ Loaded[o.id] # NoJob /\ Ready([Loaded EXCEPT ![o.id] = NoJob], "save")
      \/ /\ o.kind \in {"update", "remove"} /\ Loaded[o.id] = NoJob
         /\ op' = [op EXCEPT ![c] = Resting]
  BY DEF Load
<1>3. Loaded \in JobLists
  BY LoadedType
<1>4. \A jobs, step : Ready(jobs, step) =>
        op' = [op EXCEPT ![c] = [kind |-> op[c].kind, id |-> op[c].id, obj |-> op[c].obj,
                                 jobs |-> jobs, step |-> step]]
  BY <1>1, ReadyIs
<1> HIDE DEF Ready
<1>5. CASE o.kind = "list" /\ Ready(Loaded, "cache")
  <2>1. Goal(Loaded, "cache")
    BY <1>4, <1>5
  <2> QED BY <1>1, <1>3, <2>1
<1>6. CASE \/ o.kind = "add" /\ Ready([Loaded EXCEPT ![o.id] = heap[o.obj]], "save")
           \/ o.kind = "update" /\ Loaded[o.id] # NoJob /\ Ready([Loaded EXCEPT ![o.id] = heap[o.obj]], "save")
  <2>1. o.id \in JobIds /\ o.obj \in Obj
    BY <1>6, CallParts
  <2>2. heap[o.obj] \in Jobs \cup {NoJob}
    BY <2>1 DEF CronShape
  <2> DEFINE l == [Loaded EXCEPT ![o.id] = heap[o.obj]]
  <2>3. /\ l \in JobLists /\ l[o.id] = heap[o.obj]
        /\ \A k \in JobIds : k # o.id => l[k] = Loaded[k]
    BY <1>3, <2>1, <2>2, ListChanged
  <2>4. Ready(l, "save")
    BY <1>6
  <2> HIDE DEF l
  <2>5. Goal(l, "save")
    BY <1>4, <1>6, <2>3, <2>4
  <2> HIDE DEF Goal
  <2>6. \E jobs \in JobLists, step \in {"save", "cache"} : Goal(jobs, step)
    BY <2>3, <2>5
  <2> QED BY <1>1, <2>6 DEF Goal
<1>7. CASE o.kind = "remove" /\ Loaded[o.id] # NoJob /\ Ready([Loaded EXCEPT ![o.id] = NoJob], "save")
  <2>1. o.id \in JobIds
    BY <1>7, CallParts
  <2> DEFINE l == [Loaded EXCEPT ![o.id] = NoJob]
  <2>3. /\ l \in JobLists /\ l[o.id] = NoJob
        /\ \A k \in JobIds : k # o.id => l[k] = Loaded[k]
    BY <1>3, <2>1, ListChanged
  <2>4. Ready(l, "save")
    BY <1>7
  <2> HIDE DEF l
  <2>5. Goal(l, "save")
    BY <1>4, <1>7, <2>3, <2>4
  <2> HIDE DEF Goal
  <2>6. \E jobs \in JobLists, step \in {"save", "cache"} : Goal(jobs, step)
    BY <2>3, <2>5
  <2> QED BY <1>1, <2>6 DEF Goal
<1>8. CASE /\ o.kind \in {"update", "remove"} /\ Loaded[o.id] = NoJob
           /\ op' = [op EXCEPT ![c] = Resting]
  BY <1>1, <1>8
<1> QED BY <1>2, <1>5, <1>6, <1>7, <1>8

LEMMA StepIs ==
    ASSUME CronShape, NEW c \in Callers, op[c].step # "none", NEW step,
           op' = [op EXCEPT ![c].step = step]
    PROVE  op' = [op EXCEPT ![c] = [kind |-> op[c].kind, id |-> op[c].id, obj |-> op[c].obj,
                                    jobs |-> op[c].jobs, step |-> step]]
<1>1. PICK k, i, o, l, s : op[c] = [kind |-> k, id |-> i, obj |-> o, jobs |-> l, step |-> s]
  <2>1. op[c] = [kind |-> op[c].kind, id |-> op[c].id, obj |-> op[c].obj,
                 jobs |-> op[c].jobs, step |-> op[c].step]
    BY CallParts
  <2> QED BY <2>1, Zenon
<1>2. op[c].kind = k /\ op[c].id = i /\ op[c].obj = o /\ op[c].jobs = l
  BY <1>1
<1>3. [op[c] EXCEPT !.step = step] = [kind |-> k, id |-> i, obj |-> o, jobs |-> l, step |-> step]
  BY <1>1
<1>4. op' = [op EXCEPT ![c] = [op[c] EXCEPT !.step = step]]
  BY DEF CronShape
<1> QED BY <1>2, <1>3, <1>4

LEMMA GoingOK ==
    ASSUME CronShape, NEW c \in Callers, op[c].step # "none",
           NEW jobs \in JobLists, NEW step \in {"save", "write", "cache"},
           op[c].kind = "list" => step = "cache",
           op[c].kind = "remove" => jobs[op[c].id] = NoJob,
           op[c].kind \in {"add", "update"} => jobs[op[c].id] # NoJob
    PROVE  CallOK([kind |-> op[c].kind, id |-> op[c].id, obj |-> op[c].obj,
                   jobs |-> jobs, step |-> step])
<1> DEFINE r == [kind |-> op[c].kind, id |-> op[c].id, obj |-> op[c].obj, jobs |-> jobs, step |-> step]
<1>1. /\ r.kind = op[c].kind /\ r.id = op[c].id /\ r.obj = op[c].obj /\ r.jobs = jobs /\ r.step = step
      /\ r = [kind |-> r.kind, id |-> r.id, obj |-> r.obj, jobs |-> r.jobs, step |-> r.step]
  OBVIOUS
<1> HIDE DEF r
<1>2. op[c].kind \in {"list", "add", "update", "remove"}
  BY CallParts DEF Resting
<1>3. /\ op[c].kind = "list" => op[c].id = NoJob /\ op[c].obj = NoJob
      /\ op[c].kind = "remove" => op[c].id \in JobIds /\ op[c].obj = NoJob
      /\ op[c].kind \in {"add", "update"} => op[c].obj \in Obj /\ op[c].id = op[c].obj[1]
  BY CallParts
<1>4. CallOK(r)
  BY <1>1, <1>2, <1>3 DEF CallOK
<1> QED BY <1>4 DEF r

LEMMA RestingOK == CallOK(Resting)
BY DEF CallOK

LEMMA LoadType ==
    ASSUME CronShape, CronRefs, NEW c \in Callers, Load(c)
    PROVE  CronShape' /\ CronRefs'
<1>1. /\ op[c].step = "load" /\ UNCHANGED <<now, cronFile, heap, cronCache, loop>>
      /\ cronFile \in JobLists \cup {Torn}
  BY LoadIs DEF CronShape
<1>2. CASE op' = [op EXCEPT ![c] = Resting]
  BY <1>1, <1>2, RestingOK, CallGoesOn
<1>3. CASE op' # [op EXCEPT ![c] = Resting]
  <2>1. PICK jobs \in JobLists, step \in {"save", "cache"} :
                   /\ op' = [op EXCEPT ![c] = [kind |-> op[c].kind, id |-> op[c].id, obj |-> op[c].obj,
                                               jobs |-> jobs, step |-> step]]
                   /\ step = "cache" <=> op[c].kind = "list"
                   /\ op[c].kind \in {"add", "update"} => jobs[op[c].id] = heap[op[c].obj]
                   /\ op[c].kind = "remove" => jobs[op[c].id] = NoJob
    BY <1>3, LoadIs
  <2>2. op[c].kind \in {"add", "update"} => heap[op[c].obj] # NoJob
    <3>1. op[c].kind \in {"add", "update"} => op[c].obj \in Obj
      BY CallParts
    <3> QED BY <3>1, ReferenceAssumption DEF CronRefs
  <2> DEFINE r == [kind |-> op[c].kind, id |-> op[c].id, obj |-> op[c].obj, jobs |-> jobs, step |-> step]
  <2>3. CallOK(r)
    BY <1>1, <2>1, <2>2, GoingOK
  <2>4. r.kind = op[c].kind /\ r.id = op[c].id /\ r.obj = op[c].obj /\ op' = [op EXCEPT ![c] = r]
    BY <2>1
  <2> HIDE DEF r
  <2> QED BY <1>1, <2>3, <2>4, CallGoesOn
<1> QED BY <1>2, <1>3

LEMMA TruncateIs ==
    ASSUME CronShape, CronRefs, NEW c \in Callers, Truncate(c)
    PROVE  /\ op[c].step = "save" /\ op[c].kind \in {"add", "update", "remove"}
           /\ cronFile' = Torn
           /\ UNCHANGED <<now, heap, cronCache, loop, fate, want, ran, orderly, cronUsed>>
           /\ \E text \in JobLists :
                /\ op' = [op EXCEPT ![c] = [kind |-> op[c].kind, id |-> op[c].id, obj |-> op[c].obj,
                                            jobs |-> text, step |-> "write"]]
                /\ \A k \in JobIds : k # op[c].id => text[k] = op[c].jobs[k]
                /\ op[c].kind \in {"add", "update"} => text[op[c].id] = heap[op[c].obj]
                /\ op[c].kind = "remove" => text[op[c].id] = NoJob
<1> DEFINE o == op[c]
           text == IF o.obj = NoJob THEN o.jobs ELSE [o.jobs EXCEPT ![o.id] = heap[o.obj]]
<1>1. /\ o.step = "save" /\ op' = [op EXCEPT ![c].jobs = text, ![c].step = "write"]
      /\ cronFile' = Torn
      /\ UNCHANGED <<now, heap, cronCache, loop, fate, want, ran, orderly, cronUsed>>
  BY DEF Truncate
<1>2. op[c].kind \in {"add", "update", "remove"} /\ o.jobs \in JobLists
  BY <1>1, CallParts
<1>3. /\ text \in JobLists
      /\ \A k \in JobIds : k # o.id => text[k] = o.jobs[k]
      /\ o.kind \in {"add", "update"} => text[o.id] = heap[o.obj]
      /\ o.kind = "remove" => text[o.id] = NoJob
  <2>1. CASE o.kind = "remove"
    <3>1. o.obj = NoJob /\ o.jobs[o.id] = NoJob
      BY <1>1, <2>1, CallParts
    <3> QED BY <1>2, <2>1, <3>1
  <2>2. CASE o.kind \in {"add", "update"}
    <3>1. o.obj \in Obj /\ o.id \in JobIds /\ o.obj # NoJob
      BY <2>2, CallParts, ReferenceAssumption
    <3>2. heap[o.obj] \in Jobs \cup {NoJob}
      BY <3>1 DEF CronShape
    <3>3. text = [o.jobs EXCEPT ![o.id] = heap[o.obj]]
      BY <3>1
    <3> HIDE DEF text
    <3>4. /\ text \in JobLists /\ text[o.id] = heap[o.obj]
          /\ \A k \in JobIds : k # o.id => text[k] = o.jobs[k]
      <4> DEFINE l == [o.jobs EXCEPT ![o.id] = heap[o.obj]]
      <4>1. /\ l \in JobLists /\ l[o.id] = heap[o.obj]
            /\ \A k \in JobIds : k # o.id => l[k] = o.jobs[k]
        BY <1>2, <3>1, <3>2 DEF JobLists
      <4> QED BY <3>3, <4>1, Zenon
    <3> QED BY <2>2, <3>4
  <2> QED BY <1>2, <2>1, <2>2
<1> HIDE DEF text
<1>4. op' = [op EXCEPT ![c] = [kind |-> op[c].kind, id |-> op[c].id, obj |-> op[c].obj,
                               jobs |-> text, step |-> "write"]]
  BY <1>1, ReadyIs
<1> QED BY <1>1, <1>2, <1>3, <1>4

LEMMA TruncateType ==
    ASSUME CronShape, CronRefs, NEW c \in Callers, Truncate(c)
    PROVE  CronShape' /\ CronRefs'
<1>1. PICK text \in JobLists :
                /\ op' = [op EXCEPT ![c] = [kind |-> op[c].kind, id |-> op[c].id, obj |-> op[c].obj,
                                            jobs |-> text, step |-> "write"]]
                /\ op[c].kind \in {"add", "update"} => text[op[c].id] = heap[op[c].obj]
                /\ op[c].kind = "remove" => text[op[c].id] = NoJob
  BY TruncateIs
<1>2. /\ op[c].step = "save" /\ UNCHANGED <<now, heap, cronCache, loop>> /\ cronFile' = Torn
      /\ op[c].kind \in {"add", "update", "remove"}
  BY TruncateIs
<1>3. op[c].kind \in {"add", "update"} => heap[op[c].obj] # NoJob
  <2>1. op[c].kind \in {"add", "update"} => op[c].obj \in Obj
    BY CallParts
  <2> QED BY <2>1, ReferenceAssumption DEF CronRefs
<1> DEFINE r == [kind |-> op[c].kind, id |-> op[c].id, obj |-> op[c].obj, jobs |-> text, step |-> "write"]
<1>4. CallOK(r)
  BY <1>1, <1>2, <1>3, GoingOK
<1>5. r.kind = op[c].kind /\ r.id = op[c].id /\ r.obj = op[c].obj /\ op' = [op EXCEPT ![c] = r]
  BY <1>1
<1> HIDE DEF r
<1> QED BY <1>2, <1>4, <1>5, CallGoesOn

LEMMA WriteTextIs ==
    ASSUME CronShape, NEW c \in Callers, WriteText(c)
    PROVE  /\ op[c].step = "write" /\ op[c].kind \in {"add", "update", "remove"}
           /\ op[c].jobs \in JobLists
           /\ cronFile' = op[c].jobs \/ (cronFile # Torn /\ cronFile' = Torn)
           /\ UNCHANGED <<now, heap, cronCache, loop, ran, orderly, cronUsed>>
           /\ op' = [op EXCEPT ![c] = [kind |-> op[c].kind, id |-> op[c].id, obj |-> op[c].obj,
                                       jobs |-> op[c].jobs, step |-> "cache"]]
<1>1. /\ op[c].step = "write" /\ op' = [op EXCEPT ![c].step = "cache"]
      /\ cronFile' \in {op[c].jobs} \cup (IF cronFile = Torn THEN {} ELSE {Torn})
      /\ UNCHANGED <<now, heap, cronCache, loop, ran, orderly, cronUsed>>
  BY DEF WriteText
<1>2. op[c].kind \in {"add", "update", "remove"} /\ op[c].jobs \in JobLists
  BY <1>1, CallParts
<1> QED BY <1>1, <1>2, StepIs

LEMMA WriteTextType ==
    ASSUME CronShape, CronRefs, NEW c \in Callers, WriteText(c)
    PROVE  CronShape' /\ CronRefs'
<1> DEFINE r == [kind |-> op[c].kind, id |-> op[c].id, obj |-> op[c].obj, jobs |-> op[c].jobs, step |-> "cache"]
<1>1. /\ op[c].step = "write" /\ op[c].jobs \in JobLists
      /\ cronFile' \in JobLists \cup {Torn}
      /\ UNCHANGED <<now, heap, cronCache, loop>> /\ op' = [op EXCEPT ![c] = r]
  BY WriteTextIs
<1>2. CallOK(r)
  BY <1>1, GoingOK, CallParts
<1>3. r.kind = op[c].kind /\ r.id = op[c].id /\ r.obj = op[c].obj
  OBVIOUS
<1> HIDE DEF r
<1> QED BY <1>1, <1>2, <1>3, CallGoesOn

\* The list becomes the cache: the job of the call keeps its object, all others
\* get new ones, and nothing that somebody else holds changes.
LEMMA SetCacheIs ==
    ASSUME CronShape, CronRefs, NEW c \in Callers, SetCache(c)
    PROVE  /\ op[c].step = "cache" /\ op' = [op EXCEPT ![c] = Resting]
           /\ UNCHANGED <<now, cronFile, loop, fate, want, ran, orderly, cronUsed>>
           /\ op[c].jobs \in JobLists
           /\ cronCache' \in [JobIds -> Obj \cup {NoJob}]
           /\ heap' \in [Obj -> Jobs \cup {NoJob}]
           /\ \A i \in JobIds :
                /\ cronCache'[i] = NoJob <=> op[c].jobs[i] = NoJob
                /\ cronCache'[i] # NoJob => cronCache'[i][1] = i
                /\ i # op[c].id /\ cronCache'[i] # NoJob => heap'[cronCache'[i]] = op[c].jobs[i]
                /\ i = op[c].id /\ cronCache'[i] # NoJob =>
                      /\ cronCache'[i] = op[c].obj /\ heap'[cronCache'[i]] = heap[op[c].obj]
                      /\ heap[op[c].obj] # NoJob
           /\ \A k \in 1 .. Len(loop.due) : heap'[loop.due[k]] = heap[loop.due[k]]
           /\ \A d \in Callers \ {c} : op[d].obj # NoJob => heap'[op[d].obj] = heap[op[d].obj]
<1> DEFINE o == op[c]
           ref(i) == IF o.jobs[i] = NoJob THEN NoJob
                     ELSE IF i = o.id THEN o.obj ELSE FreshObj(i)
           kept == {ref(i) : i \in JobIds} \cup Range(loop.due)
                       \cup {op[d].obj : d \in Callers \ {c}}
<1>1. /\ op[c].step = "cache" /\ op' = [op EXCEPT ![c] = Resting]
      /\ UNCHANGED <<now, cronFile, loop, fate, want, ran, orderly, cronUsed>>
      /\ cronCache' = [i \in JobIds |-> ref(i)]
      /\ heap' = [x \in Obj |-> IF x = ref(x[1]) /\ x # o.obj THEN o.jobs[x[1]]
                                ELSE IF x \in kept THEN heap[x] ELSE NoJob]
  BY DEF SetCache
<1>2. o.jobs \in JobLists /\ NoJob \notin Obj /\ NoJob \notin JobIds /\ NoJob \notin Jobs
  BY <1>1, CallParts, ReferenceAssumption
<1>3. \A i \in JobIds : o.jobs[i] \in Jobs \cup {NoJob}
  BY <1>2 DEF JobLists
<1>4. ASSUME NEW i \in JobIds, o.jobs[i] # NoJob, i = o.id
      PROVE  ref(i) = o.obj /\ o.obj \in Obj /\ o.obj[1] = i /\ heap[o.obj] # NoJob
  <2>1. o.kind \in {"add", "update"}
    BY <1>1, <1>2, <1>4, CallParts, Zenon DEF Resting
  <2>2. o.obj \in Obj /\ o.obj[1] = i
    BY <1>4, <2>1, CallParts
  <2> QED BY <1>2, <1>4, <2>2 DEF CronRefs
<1>5. ASSUME NEW i \in JobIds, o.jobs[i] # NoJob, i # o.id
      PROVE  ref(i) = FreshObj(i) /\ ref(i) \in Obj /\ ref(i)[1] = i /\ ref(i) \notin Held /\ ref(i) # o.obj
  <2>1. op[c].obj # NoJob => op[c].obj[1] # i
    BY <1>5, CallParts
  <2>2. FreshObj(i) \in Obj /\ FreshObj(i)[1] = i /\ FreshObj(i) \notin Held
    BY <2>1, SlotIsFree
  <2>3. o.obj \in Held
    BY HeldIs
  <2> QED BY <1>5, <2>2, <2>3
<1>6. \A i \in JobIds : ref(i) = NoJob <=> o.jobs[i] = NoJob
  BY <1>2, <1>4, <1>5
<1>7. \A i \in JobIds : ref(i) \in Obj \cup {NoJob} /\ (ref(i) # NoJob => ref(i)[1] = i)
  BY <1>4, <1>5
<1>8. \A x \in Obj : x[1] \in JobIds
  BY DEF Obj
<1> HIDE DEF ref, o
<1>9. cronCache' \in [JobIds -> Obj \cup {NoJob}]
  BY <1>1, <1>7
<1>10. \A i \in JobIds : cronCache'[i] = ref(i)
  BY <1>1
<1>11. \A x \in Obj : heap'[x] = IF x = ref(x[1]) /\ x # o.obj THEN o.jobs[x[1]]
                                 ELSE IF x \in kept THEN heap[x] ELSE NoJob
  BY <1>1
<1>12. heap' \in [Obj -> Jobs \cup {NoJob}]
  <2>1. \A x \in Obj : heap[x] \in Jobs \cup {NoJob}
    BY DEF CronShape
  <2>2. \A x \in Obj : heap'[x] \in Jobs \cup {NoJob}
    BY <1>3, <1>8, <1>11, <2>1
  <2> HIDE DEF kept
  <2> QED BY <1>1, <2>2
<1>13. ASSUME NEW x \in Obj, x \in Held, x \in kept
       PROVE  heap'[x] = heap[x]
  <2>1. CASE x[1] = o.id
    <3>1. ref(x[1]) = NoJob \/ ref(x[1]) = o.obj
      BY <1>4, <1>6, <1>8, <2>1
    <3> QED BY <1>2, <1>11, <1>13, <3>1
  <2>2. CASE x[1] # o.id
    <3>1. ref(x[1]) = NoJob \/ ref(x[1]) \notin Held
      BY <1>5, <1>6, <1>8, <2>2
    <3> QED BY <1>2, <1>11, <1>13, <3>1
  <2> QED BY <2>1, <2>2
<1>14. ASSUME NEW k \in 1 .. Len(loop.due) PROVE heap'[loop.due[k]] = heap[loop.due[k]]
  <2>1. loop.due[k] \in Obj /\ loop.due \in Seq(Obj)
    BY DEF CronShape, LoopOK
  <2>2. loop.due[k] \in Range(loop.due)
    BY <2>1 DEF Range
  <2>3. loop.due[k] \in Held
    BY HeldIs
  <2> QED BY <1>13, <2>1, <2>2, <2>3
<1>15. ASSUME NEW d \in Callers \ {c}, op[d].obj # NoJob PROVE heap'[op[d].obj] = heap[op[d].obj]
  <2>1. op[d].obj \in Obj
    BY <1>15, CallParts
  <2>2. op[d].obj \in Held
    BY HeldIs
  <2> QED BY <1>13, <2>1, <2>2
<1>16. ASSUME NEW i \in JobIds, i # o.id, ref(i) # NoJob
       PROVE  heap'[ref(i)] = o.jobs[i]
  <2>1. ref(i) \in Obj /\ ref(i)[1] = i /\ ref(i) # o.obj
    BY <1>5, <1>6, <1>16
  <2> QED BY <1>11, <2>1
<1>17. ASSUME NEW i \in JobIds, i = o.id, ref(i) # NoJob
       PROVE  ref(i) = o.obj /\ heap'[ref(i)] = heap[o.obj] /\ heap[o.obj] # NoJob
  <2>1. ref(i) = o.obj /\ o.obj \in Obj /\ o.obj \in kept /\ heap[o.obj] # NoJob
    BY <1>4, <1>6, <1>17
  <2> QED BY <1>11, <2>1
<1>18. o = op[c]
  BY DEF o
<1> HIDE DEF kept
<1> QED BY <1>1, <1>2, <1>6, <1>7, <1>9, <1>10, <1>12, <1>14, <1>15, <1>16, <1>17, <1>18

LEMMA SetCacheType ==
    ASSUME CronShape, CronRefs, NEW c \in Callers, SetCache(c)
    PROVE  CronShape' /\ CronRefs'
<1>1. /\ op[c].step = "cache" /\ op' = [op EXCEPT ![c] = Resting]
      /\ UNCHANGED <<now, cronFile, loop>> /\ op[c].jobs \in JobLists
      /\ cronCache' \in [JobIds -> Obj \cup {NoJob}] /\ cronCache' # NoCache
      /\ heap' \in [Obj -> Jobs \cup {NoJob}]
      /\ \A i \in JobIds :
           /\ cronCache'[i] # NoJob => cronCache'[i][1] = i
           /\ cronCache'[i] # NoJob => heap'[cronCache'[i]] # NoJob
      /\ \A k \in 1 .. Len(loop.due) : heap'[loop.due[k]] = heap[loop.due[k]]
      /\ \A d \in Callers \ {c} : op[d].obj # NoJob => heap'[op[d].obj] = heap[op[d].obj]
  <2>1. \A i \in JobIds : cronCache'[i] # NoJob => heap'[cronCache'[i]] # NoJob
    BY SetCacheIs
  <2> QED BY <2>1, SetCacheIs, ReferenceAssumption
<1>2. /\ op' = [d \in Callers |-> op'[d]]
      /\ op'[c] = Resting /\ \A d \in Callers : d # c => op'[d] = op[d]
      /\ \A d \in Callers : CallOK(op'[d])
  BY <1>1, RestingOK, CallChanged
<1>3. LoopOK'
  <2>0. "loop" \in Callers
    BY CallersFacts
  <2>1. CASE c = "loop"
    <3>1. op["loop"] # Resting /\ op'["loop"] = Resting
      BY <1>1, <1>2, <2>1 DEF Resting
    <3> QED BY <1>1, <3>1 DEF CronShape, LoopOK, Resting
  <2>2. CASE c # "loop"
    BY <1>1, <1>2, <2>0, <2>2, LoopStays DEF CronShape
  <2> QED BY <2>1, <2>2
<1>4. CronShape'
  BY <1>1, <1>2, <1>3 DEF CronShape
<1>5. CronRefs'
  <2>1. \A d \in Callers : op'[d].obj # NoJob => op'[d].obj = op[d].obj /\ d \in Callers \ {c}
    BY <1>2 DEF Resting
  <2> QED BY <1>1, <1>2, <2>1 DEF CronRefs
<1> QED BY <1>4, <1>5

LEMMA WriteFailsType ==
    ASSUME CronShape, CronRefs, NEW c \in Callers, WriteFails(c)
    PROVE  CronShape' /\ CronRefs'
<1>1. /\ op[c].step = "write" /\ op' = [op EXCEPT ![c] = Resting]
      /\ loop' = IF c = "loop" THEN [at |-> "rest", due |-> <<>>, wake |-> now + Poll] ELSE loop
      /\ UNCHANGED <<now, cronFile, heap, cronCache>>
  BY DEF WriteFails
<1>2. /\ op' = [d \in Callers |-> op'[d]]
      /\ op'[c] = Resting /\ \A d \in Callers : d # c => op'[d] = op[d]
      /\ \A d \in Callers : CallOK(op'[d])
  BY <1>1, RestingOK, CallChanged
<1>3. LoopOK' /\ \A k \in 1 .. Len(loop'.due) : heap[loop'.due[k]] # NoJob
  <2>0. "loop" \in Callers
    BY CallersFacts
  <2>1. CASE c = "loop"
    <3>1. op'["loop"] = Resting /\ loop' = [at |-> "rest", due |-> <<>>, wake |-> now + Poll]
      BY <1>1, <1>2, <2>1
    <3>2. /\ loop'.at = "rest" /\ loop'.due = <<>>
          /\ loop' = [at |-> loop'.at, due |-> loop'.due, wake |-> loop'.wake]
      BY <3>1
    <3>3. loop'.due \in Seq(Obj) /\ Len(loop'.due) = 0
      BY <3>2, EmptySeq
    <3> QED BY <3>1, <3>2, <3>3 DEF LoopOK
  <2>2. CASE c # "loop"
    BY <1>1, <1>2, <2>0, <2>2, LoopStays DEF CronShape, CronRefs
  <2> QED BY <2>1, <2>2
<1>4. loop'.at # "arm" => cronCache # NoCache
  <2>1. CASE c = "loop"
    <3>1. op["loop"].kind \notin {"none", "list"}
      BY <1>1, <2>1, CallParts
    <3> QED BY <3>1 DEF CronShape, LoopOK
  <2>2. CASE c # "loop"
    BY <1>1, <2>2 DEF CronShape
  <2> QED BY <2>1, <2>2
<1>5. CronShape'
  BY <1>1, <1>2, <1>3, <1>4 DEF CronShape
<1>6. CronRefs'
  BY <1>1, <1>2, <1>3 DEF CronRefs, Resting
<1> QED BY <1>5, <1>6

LEMMA CronInitType == CronInit => CronShape /\ CronRefs
<1> SUFFICES ASSUME CronInit PROVE CronShape /\ CronRefs
  OBVIOUS
<1>1. \A c \in Callers : op[c] = Resting /\ CallOK(op[c])
  BY RestingOK DEF CronInit
<1>2. /\ loop.due \in Seq(Obj) /\ Len(loop.due) = 0 /\ loop.at = "arm" /\ loop.due = <<>>
      /\ loop = [at |-> loop.at, due |-> loop.due, wake |-> loop.wake]
  BY EmptySeq DEF CronInit
<1>3. LoopOK
  BY <1>1, <1>2, CallersFacts DEF LoopOK, Resting
<1>4. CronShape
  BY <1>1, <1>2, <1>3, CronAssumption DEF CronInit, CronShape, CronAssumption, NoJobs, JobLists
<1>5. CronRefs
  BY <1>1, <1>2 DEF CronRefs, CronInit, Resting
<1> QED BY <1>4, <1>5

LEMMA CronCrashType ==
    ASSUME CronShape, CronRefs, CronCrash
    PROVE  CronShape' /\ CronRefs'
<1>1. /\ cronCache' = NoCache /\ loop' = [at |-> "arm", due |-> <<>>, wake |-> 0]
      /\ op' = [c \in Callers |-> Resting] /\ heap' = [o \in Obj |-> NoJob]
      /\ UNCHANGED <<now, cronFile>>
  BY DEF CronCrash
<1>2. \A c \in Callers : op'[c] = Resting /\ CallOK(op'[c])
  BY <1>1, RestingOK
<1>3. /\ loop'.due \in Seq(Obj) /\ Len(loop'.due) = 0 /\ loop'.at = "arm" /\ loop'.due = <<>>
      /\ loop' = [at |-> loop'.at, due |-> loop'.due, wake |-> loop'.wake]
  BY <1>1, EmptySeq
<1>4. LoopOK'
  BY <1>2, <1>3, CallersFacts DEF LoopOK, Resting
<1>5. CronShape'
  BY <1>1, <1>2, <1>3, <1>4 DEF CronShape
<1>6. CronRefs'
  BY <1>1, <1>2, <1>3 DEF CronRefs, Resting
<1> QED BY <1>5, <1>6

\* The due jobs are objects of the cache, one of each job.
LEMMA SnapshotIs ==
    ASSUME CronShape, CronRefs, Snapshot
    PROVE  /\ loop.at = "sleep" /\ op["loop"] = Resting /\ loop.due = <<>>
           /\ UNCHANGED <<now, cronFile, cronCache, fate, want, cronUsed, heap, op, ran, orderly>>
           /\ \/ loop' = [loop EXCEPT !.at = "arm"]
              \/ \E seq \in Seq(Obj) :
                   /\ seq # <<>> /\ loop' = [loop EXCEPT !.at = "run", !.due = seq]
                   /\ \A k \in 1 .. Len(seq) :
                        /\ seq[k][1] \in JobIds /\ Due(seq[k][1]) /\ seq[k] = cronCache[seq[k][1]]
                   /\ \A j, k \in 1 .. Len(seq) : j # k => seq[j][1] # seq[k][1]
<1>1. /\ loop.at = "sleep" /\ op["loop"] = Resting /\ loop.due = <<>>
      /\ UNCHANGED <<now, cronFile, cronCache, fate, want, cronUsed, heap, op, ran, orderly>>
  BY DEF Snapshot, LoopFree, LoopOnly, CronShape, LoopOK
<1> DEFINE D == {k \in JobIds : Due(k)}
           due == {cronCache[i] : i \in D}
<1>2. CASE due = {}
  BY <1>1, <1>2 DEF Snapshot
<1>3. CASE due # {}
  <2>1. PICK seq \in SetToSeqs(due) : loop' = [loop EXCEPT !.at = "run", !.due = seq]
    BY <1>3 DEF Snapshot
  <2>2. cronCache # NoCache
    BY <1>1 DEF CronShape
  <2>3. \A i \in D : i \in JobIds /\ Due(i) /\ cronCache[i] \in Obj /\ cronCache[i][1] = i
    <3> SUFFICES ASSUME NEW i \in D PROVE i \in JobIds /\ Due(i) /\ cronCache[i] \in Obj /\ cronCache[i][1] = i
      OBVIOUS
    <3>1. i \in JobIds /\ Due(i) /\ cronCache[i] # NoJob
      BY DEF Due
    <3> QED BY <2>2, <3>1, CachedObject
  <2>4. due \in SUBSET Obj /\ IsFiniteSet(due)
    <3>1. IsFiniteSet(JobIds) /\ IsFiniteSet(Slots)
      BY CronAssumption, CallersFacts DEF CronAssumption
    <3>2. IsFiniteSet(Obj)
      BY <3>1, FS_Product DEF Obj
    <3>3. due \in SUBSET Obj
      BY <2>3
    <3> HIDE DEF due
    <3> QED BY <3>2, <3>3, FS_Subset
  <2>5. Cardinality(due) \in Nat /\ Cardinality(due) # 0
    <3> HIDE DEF due
    <3> QED BY <1>3, <2>4, FS_CardinalityType, FS_EmptySet
  <2>6. \A x \in due : x[1] \in JobIds /\ Due(x[1]) /\ x = cronCache[x[1]] /\ x \in Obj
    BY <2>3
  <2> HIDE DEF due
  <2>7. /\ seq \in [1 .. Cardinality(due) -> due]
        /\ \A i, j \in 1 .. Cardinality(due) : i # j => seq[i] # seq[j]
    BY <2>1 DEF SetToSeqs
  <2>8. seq \in Seq(due) /\ Len(seq) = Cardinality(due) /\ seq # <<>>
    BY <2>5, <2>7
  <2>9. seq \in Seq(Obj)
    BY <2>4, <2>8
  <2>10. \A k \in 1 .. Len(seq) :
           seq[k][1] \in JobIds /\ Due(seq[k][1]) /\ seq[k] = cronCache[seq[k][1]]
    BY <2>6, <2>7, <2>8
  <2>11. \A j, k \in 1 .. Len(seq) : j # k => seq[j][1] # seq[k][1]
    BY <2>7, <2>8, <2>10
  <2> QED BY <1>1, <2>1, <2>8, <2>9, <2>10, <2>11
<1> QED BY <1>2, <1>3

LEMMA SnapshotType ==
    ASSUME CronShape, CronRefs, Snapshot
    PROVE  CronShape' /\ CronRefs'
<1>1. /\ loop.at = "sleep" /\ op["loop"] = Resting /\ loop.due = <<>>
      /\ UNCHANGED <<now, cronFile, cronCache, heap, op>>
      /\ loop = [at |-> loop.at, due |-> loop.due, wake |-> loop.wake]
  BY SnapshotIs DEF CronShape, LoopOK
<1>2. CASE loop' = [loop EXCEPT !.at = "arm"]
  <2>1. /\ loop'.at = "arm" /\ loop'.due = <<>>
        /\ loop' = [at |-> loop'.at, due |-> loop'.due, wake |-> loop'.wake]
    BY <1>1, <1>2
  <2>2. <<>> \in Seq(Obj) /\ Len(loop'.due) = 0
    BY <2>1, EmptySeq
  <2>3. LoopOK'
    BY <1>1, <2>1, <2>2 DEF LoopOK, Resting
  <2> QED BY <1>1, <2>1, <2>2, <2>3 DEF CronShape, CronRefs
<1>3. CASE loop' # [loop EXCEPT !.at = "arm"]
  <2>1. PICK seq \in Seq(Obj) :
                   /\ seq # <<>> /\ loop' = [loop EXCEPT !.at = "run", !.due = seq]
                   /\ \A k \in 1 .. Len(seq) :
                        /\ seq[k][1] \in JobIds /\ Due(seq[k][1]) /\ seq[k] = cronCache[seq[k][1]]
                   /\ \A j, k \in 1 .. Len(seq) : j # k => seq[j][1] # seq[k][1]
    BY <1>3, SnapshotIs
  <2>2. /\ loop'.at = "run" /\ loop'.due = seq
        /\ loop' = [at |-> loop'.at, due |-> loop'.due, wake |-> loop'.wake]
    BY <1>1, <2>1
  <2>3. LoopOK'
    BY <1>1, <2>1, <2>2 DEF LoopOK
  <2>4. \A k \in 1 .. Len(seq) : heap[seq[k]] # NoJob
    <3>1. cronCache # NoCache
      BY <1>1 DEF CronShape
    <3>2. \A k \in 1 .. Len(seq) : seq[k][1] \in JobIds /\ cronCache[seq[k][1]] # NoJob
      BY <2>1 DEF Due
    <3>3. \A k \in 1 .. Len(seq) : heap[cronCache[seq[k][1]]] # NoJob
      BY <3>1, <3>2 DEF CronRefs
    <3> QED BY <2>1, <3>3
  <2> QED BY <1>1, <2>2, <2>3, <2>4 DEF CronShape, CronRefs
<1> QED BY <1>2, <1>3

\* The tail of the due jobs.
LEMMA DueTail ==
    ASSUME CronShape, CronRefs, loop.due # <<>>
    PROVE  /\ Tail(loop.due) \in Seq(Obj) /\ Len(Tail(loop.due)) = Len(loop.due) - 1
           /\ Len(Tail(loop.due)) \in Nat
           /\ \A k \in 1 .. Len(Tail(loop.due)) :
                k + 1 \in 1 .. Len(loop.due) /\ Tail(loop.due)[k] = loop.due[k + 1]
           /\ Tail(loop.due) = <<>> <=> Len(loop.due) = 1
<1>1. loop.due \in Seq(Obj) /\ Len(loop.due) \in Nat \ {0}
  BY DueObject DEF CronShape, LoopOK
<1>2. /\ Tail(loop.due) \in Seq(Obj) /\ Len(Tail(loop.due)) = Len(loop.due) - 1
      /\ \A k \in 1 .. Len(Tail(loop.due)) : Tail(loop.due)[k] = loop.due[k + 1]
  BY <1>1
<1>3. Tail(loop.due) = <<>> <=> Len(Tail(loop.due)) = 0
  BY <1>2, EmptySeq
<1> QED BY <1>1, <1>2, <1>3

LEMMA LoopMoves ==
    ASSUME CronShape, CronRefs, UNCHANGED <<cronFile, heap, cronCache, op>>,
           now' \in 1 .. MaxTime, LoopOK', loop'.at # "arm" => cronCache # NoCache,
           \A k \in 1 .. Len(loop'.due) : heap[loop'.due[k]] # NoJob
    PROVE  CronShape' /\ CronRefs'
BY DEF CronShape, CronRefs

LEMMA LoopRecord ==
    ASSUME CronShape
    PROVE  /\ loop = [at |-> loop.at, due |-> loop.due, wake |-> loop.wake]
           /\ LoopOK /\ loop.due \in Seq(Obj)
BY DEF CronShape, LoopOK

LEMMA ArmType ==
    ASSUME CronShape, CronRefs, Arm
    PROVE  CronShape' /\ CronRefs'
<1>1. /\ loop.at = "arm" /\ op["loop"] = Resting /\ cronCache # NoCache
      /\ UNCHANGED <<now, cronFile, heap, cronCache, op>>
      /\ \E w : loop' = [loop EXCEPT !.at = "sleep", !.wake = w]
  BY DEF Arm, LoopFree, LoopOnly
<1>2. PICK w : loop' = [loop EXCEPT !.at = "sleep", !.wake = w]
  BY <1>1
<1>3. /\ loop'.at = "sleep" /\ loop'.due = loop.due
      /\ loop' = [at |-> loop'.at, due |-> loop'.due, wake |-> loop'.wake]
  BY <1>2, LoopRecord
<1>4. LoopOK'
  BY <1>1, <1>3, LoopRecord DEF LoopOK
<1> QED BY <1>1, <1>3, <1>4, LoopMoves DEF CronShape, CronRefs

LEMMA ExecuteType ==
    ASSUME CronShape, CronRefs, Execute
    PROVE  CronShape' /\ CronRefs'
<1>1. /\ loop.at = "run" /\ op["loop"] = Resting
      /\ UNCHANGED <<now, cronFile, heap, cronCache, op>>
      /\ loop' = [loop EXCEPT !.at = "ran"]
  BY DEF Execute, LoopFree, LoopOnly
<1>2. /\ loop'.at = "ran" /\ loop'.due = loop.due
      /\ loop' = [at |-> loop'.at, due |-> loop'.due, wake |-> loop'.wake]
  BY <1>1, LoopRecord
<1>3. LoopOK'
  BY <1>1, <1>2, LoopRecord DEF LoopOK
<1> QED BY <1>1, <1>2, <1>3, LoopMoves DEF CronShape, CronRefs

LEMMA NextDueType ==
    ASSUME CronShape, CronRefs, NextDue
    PROVE  CronShape' /\ CronRefs'
<1>1. /\ loop.at \in {"stored", "dropped"} /\ op["loop"] = Resting
      /\ UNCHANGED <<now, cronFile, heap, cronCache, op>>
      /\ loop' = [loop EXCEPT !.due = Tail(@), !.at = IF Len(loop.due) > 1 THEN "run" ELSE "arm"]
  BY DEF NextDue, LoopFree, LoopOnly
<1>2. /\ loop'.at = IF Len(loop.due) > 1 THEN "run" ELSE "arm"
      /\ loop'.due = Tail(loop.due)
      /\ loop' = [at |-> loop'.at, due |-> loop'.due, wake |-> loop'.wake]
  BY <1>1, LoopRecord
<1>3. loop.due # <<>>
  BY <1>1 DEF CronShape, LoopOK
<1>4. /\ loop'.due \in Seq(Obj) /\ Len(loop'.due) \in Nat
      /\ \A k \in 1 .. Len(loop'.due) : k + 1 \in 1 .. Len(loop.due) /\ loop'.due[k] = loop.due[k + 1]
      /\ loop'.due = <<>> <=> Len(loop.due) = 1
      /\ Len(loop.due) \in Nat \ {0}
  BY <1>2, <1>3, DueTail, DueObject
<1>5. \A j, k \in 1 .. Len(loop.due) : j # k => loop.due[j][1] # loop.due[k][1]
  BY LoopRecord DEF LoopOK
<1>6. \A j, k \in 1 .. Len(loop'.due) : j # k => loop'.due[j][1] # loop'.due[k][1]
  <2> TAKE j, k \in 1 .. Len(loop'.due)
  <2>1. j + 1 \in 1 .. Len(loop.due) /\ k + 1 \in 1 .. Len(loop.due) /\ (j # k => j + 1 # k + 1)
    BY <1>4
  <2>2. loop'.due[j] = loop.due[j + 1] /\ loop'.due[k] = loop.due[k + 1]
    BY <1>4
  <2> QED BY <1>5, <2>1, <2>2
<1>7. LoopOK'
  BY <1>1, <1>2, <1>4, <1>6 DEF LoopOK, Resting
<1>8. \A k \in 1 .. Len(loop'.due) : heap[loop'.due[k]] # NoJob
  BY <1>4 DEF CronRefs
<1> QED BY <1>1, <1>7, <1>8, LoopMoves DEF CronShape

LEMMA RestedType ==
    ASSUME CronShape, CronRefs, Rested
    PROVE  CronShape' /\ CronRefs'
<1>1. /\ loop.at = "rest" /\ op["loop"] = Resting
      /\ UNCHANGED <<now, cronFile, heap, cronCache, op>>
      /\ loop' = [loop EXCEPT !.at = "arm"]
  BY DEF Rested, LoopFree, LoopOnly
<1>2. /\ loop'.at = "arm" /\ loop'.due = loop.due
      /\ loop' = [at |-> loop'.at, due |-> loop'.due, wake |-> loop'.wake]
  BY <1>1, LoopRecord
<1>3. LoopOK'
  BY <1>1, <1>2, LoopRecord DEF LoopOK, Resting
<1> QED BY <1>1, <1>2, <1>3, LoopMoves DEF CronShape, CronRefs

LEMMA TimePassesType ==
    ASSUME CronShape, CronRefs, TimePasses
    PROVE  CronShape' /\ CronRefs'
<1>1. /\ now < MaxTime /\ now' = now + 1
      /\ UNCHANGED <<cronFile, heap, cronCache, op, loop>>
  BY DEF TimePasses
<1>2. now' \in 1 .. MaxTime
  BY <1>1, CronAssumption DEF CronShape, CronAssumption
<1>3. LoopOK'
  BY <1>1, LoopRecord, LoopStays
<1> QED BY <1>1, <1>2, <1>3, LoopMoves DEF CronShape, CronRefs

\* What WriteBack does to the object of the job that ran.
LEMMA WriteBackIs ==
    ASSUME CronShape, CronRefs, WriteBack
    PROVE  LET o == Head(loop.due) IN
           /\ loop.at = "ran" /\ loop.due # <<>> /\ o \in Obj /\ o[1] \in JobIds
           /\ Begin("loop", "update", o[1], o) /\ loop' = [loop EXCEPT !.at = "stored"]
           /\ UNCHANGED <<now, cronFile, cronCache, fate, want, cronUsed, ran>>
           /\ \E j \in Jobs : /\ heap' = [heap EXCEPT ![o] = j]
                              /\ j.next = NextRun(o[1], now, now)
<1> DEFINE o == Head(loop.due)
           next == NextRun(o[1], now, now)
           j == [enabled |-> heap[o].enabled /\ ~(Schedule[o[1]].kind = "at" /\ next = 0),
                 next |-> next, last |-> now]
<1>1. /\ loop.at = "ran" /\ Begin("loop", "update", o[1], o) /\ loop' = [loop EXCEPT !.at = "stored"]
      /\ UNCHANGED <<now, cronFile, cronCache, fate, want, cronUsed, ran>>
      /\ heap' = [heap EXCEPT ![o] = j]
  BY DEF WriteBack, LoopFree, LoopOnly
<1>2. loop.due # <<>>
  BY <1>1 DEF CronShape, LoopOK
<1>3. o \in Obj /\ o[1] \in JobIds /\ heap[o] \in Jobs
  BY <1>2, DueObject
<1>4. now \in Nat /\ next \in Nat
  BY <1>3, NextRunType DEF CronShape
<1>5. j \in Jobs /\ j.next = next
  <2>1. (heap[o].enabled /\ ~(Schedule[o[1]].kind = "at" /\ next = 0)) \in BOOLEAN
    BY Zenon
  <2> HIDE DEF next
  <2> QED BY <1>4, <2>1 DEF Jobs
<1> HIDE DEF j
<1> QED BY <1>1, <1>2, <1>3, <1>5

LEMMA WriteBackType ==
    ASSUME CronShape, CronRefs, WriteBack
    PROVE  CronShape' /\ CronRefs'
<1> DEFINE o == Head(loop.due)
<1>1. /\ loop.at = "ran" /\ loop.due # <<>> /\ o \in Obj /\ o[1] \in JobIds
      /\ Begin("loop", "update", o[1], o) /\ loop' = [loop EXCEPT !.at = "stored"]
      /\ UNCHANGED <<now, cronFile, cronCache>>
      /\ \E j \in Jobs : heap' = [heap EXCEPT ![o] = j]
  BY WriteBackIs
<1>2. /\ heap' \in [Obj -> Jobs \cup {NoJob}] /\ heap'[o] # NoJob
      /\ \A x \in Obj : heap[x] # NoJob => heap'[x] # NoJob
  <2> HIDE DEF o
  <2> QED BY <1>1, JobsUpdated DEF CronShape
<1>3. /\ loop'.at = "stored" /\ loop'.due = loop.due
      /\ loop' = [at |-> loop'.at, due |-> loop'.due, wake |-> loop'.wake]
  BY <1>1, LoopRecord
<1>4. op'["loop"].kind = "update" /\ op'["loop"].obj = o
  BY <1>1, CallersFacts DEF Begin, CronShape
<1>5. LoopOK'
  BY <1>1, <1>3, <1>4, LoopRecord DEF LoopOK
<1> HIDE DEF o
<1> QED BY <1>1, <1>2, <1>3, <1>5, BeginKeeps, CallersFacts

LEMMA DropAfterRunType ==
    ASSUME CronShape, CronRefs, DropAfterRun
    PROVE  CronShape' /\ CronRefs'
<1> DEFINE i == Head(loop.due)[1]
<1>1. /\ loop.at = "stored" /\ Begin("loop", "remove", i, NoJob) /\ loop' = [loop EXCEPT !.at = "dropped"]
      /\ UNCHANGED <<now, cronFile, cronCache, heap>>
  BY DEF DropAfterRun, LoopFree, LoopOnly
<1>2. loop.due # <<>>
  BY <1>1 DEF CronShape, LoopOK
<1>3. i \in JobIds
  BY <1>2, DueObject
<1>4. /\ loop'.at = "dropped" /\ loop'.due = loop.due
      /\ loop' = [at |-> loop'.at, due |-> loop'.due, wake |-> loop'.wake]
  BY <1>1, LoopRecord
<1>5. op'["loop"].kind = "remove" /\ op'["loop"].id = i
  BY <1>1, CallersFacts DEF Begin, CronShape
<1>6. LoopOK'
  BY <1>1, <1>2, <1>4, <1>5, LoopRecord DEF LoopOK
<1> HIDE DEF i
<1> QED BY <1>1, <1>3, <1>4, <1>6, BeginKeeps, CallersFacts DEF CronShape

LEMMA CronTypeStep ==
    ASSUME CronShape, CronRefs, [CronNext]_cronVars
    PROVE  CronShape' /\ CronRefs'
<1>1. CASE LoopStep
  <2>1. "loop" \in Callers
    BY CallersFacts
  <2> QED BY <1>1, <2>1, ArmType, SnapshotType, ExecuteType, WriteBackType, DropAfterRunType,
             NextDueType, RestedType, EnsureCacheType DEF LoopStep
<1>2. CASE TimePasses
  BY <1>2, TimePassesType
<1>3. CASE CronCrash
  BY <1>3, CronCrashType
<1>4. CASE \E c \in Callers : StoreStep(c)
  BY <1>4, LoadType, TruncateType, WriteTextType, SetCacheType, WriteFailsType DEF StoreStep
<1>5. CASE \E c \in Editors : EnsureCache(c)
  BY <1>5, EnsureCacheType, CallersFacts DEF Callers
<1>6. ASSUME NEW c \in Editors, NEW i \in JobIds,
             AddJob(c, i) \/ RemoveJob(c, i) \/ RunJobNow(c, i) \/ \E b \in BOOLEAN : SetEnabled(c, i, b)
      PROVE  CronShape' /\ CronRefs'
  <2>1. CASE AddJob(c, i)
    BY <2>1, AddJobType
  <2>2. CASE RemoveJob(c, i)
    BY <2>2, RemoveJobType
  <2>3. CASE RunJobNow(c, i)
    <3>1. Finds(c, i) /\ Begin(c, "update", i, cronCache[i]) /\ UNCHANGED <<now, cronFile, cronCache, loop>>
      BY <2>3 DEF RunJobNow
    <3> QED BY <2>3, <3>1, RunJobNowIs, EditType
  <2>4. CASE \E b \in BOOLEAN : SetEnabled(c, i, b)
    <3>1. PICK b \in BOOLEAN : SetEnabled(c, i, b)
      BY <2>4
    <3>2. Finds(c, i) /\ Begin(c, "update", i, cronCache[i]) /\ UNCHANGED <<now, cronFile, cronCache, loop>>
      BY <3>1 DEF SetEnabled
    <3> QED BY <3>1, <3>2, SetEnabledIs, EditType
  <2> QED BY <1>6, <2>1, <2>2, <2>3, <2>4
<1>7. CASE UNCHANGED cronVars
  <2>1. UNCHANGED <<cronFile, heap, cronCache, op, loop, now>>
    BY <1>7 DEF cronVars
  <2>2. LoopOK'
    BY <2>1, LoopRecord, LoopStays
  <2> QED BY <2>1, <2>2, LoopMoves DEF CronShape, CronRefs
<1> QED BY <1>1, <1>2, <1>3, <1>4, <1>5, <1>6, <1>7 DEF CronNext

-----------------------------------------------------------------------------
(* The store: its file, its cache and the call that is under way.          *)

Stored == {"save", "write", "cache"}
Content(i) == IF cronCache[i] = NoJob THEN NoJob ELSE heap[cronCache[i]]

\* One call of the store is under way at most, and the file is torn exactly
\* while that call writes it.
CallsAlone == \A c, d \in Callers : op[c] # Resting /\ op[d] # Resting => c = d
FileWhole == cronFile = Torn <=> \E c \in Callers : op[c].step = "write"

\* The jobs of the file, of the cache and of the list of a call are those that
\* were added, but for what the call is about to change.
FileAgrees == cronFile # Torn => \A i \in JobIds : cronFile[i] # NoJob <=> fate[i] = "added"
CacheKnows ==
    cronCache # NoCache => \A i \in JobIds :
        (\A c \in Callers : ~(op[c].id = i /\ op[c].step = "cache")) =>
            (cronCache[i] # NoJob <=> fate[i] = "added")
ListsAgree ==
    \A c \in Callers :
        /\ op[c].step \in {"save", "write"} =>
             \A i \in JobIds : i # op[c].id => (op[c].jobs[i] # NoJob <=> fate[i] = "added")
        /\ op[c].kind = "update" /\ op[c].step \in Stored => fate[op[c].id] = "added"
        /\ op[c].kind = "add" /\ op[c].step # "cache" => fate[op[c].id] = "adding"
        /\ op[c].step = "cache" => cronFile = op[c].jobs
        /\ op[c].kind = "remove" /\ op[c].step = "cache" => fate[op[c].id] = "removed"

\* The objects of the cache say what the file says, but for the one of the call.
CacheReflects ==
    /\ cronCache # NoCache /\ Quiet => \A i \in JobIds : cronFile[i] = Content(i)
    /\ \A c \in Callers : cronCache # NoCache /\ op[c].step = "load" =>
         \A i \in JobIds : i # op[c].id => cronFile[i] = Content(i)
    /\ \A c \in Callers : op[c].step \in {"write", "cache"} /\ op[c].obj # NoJob =>
         op[c].jobs[op[c].id] = heap[op[c].obj]
    /\ \A c \in Editors : op[c].kind = "update" => cronCache # NoCache /\ cronCache[op[c].id] = op[c].obj

CronStored == CallsAlone /\ FileWhole /\ FileAgrees /\ CacheKnows /\ ListsAgree /\ CacheReflects

LEMMA QuietStored ==
    ASSUME CronStored, Quiet
    PROVE  /\ cronFile # Torn
           /\ \A i \in JobIds : cronFile[i] # NoJob <=> fate[i] = "added"
           /\ cronCache # NoCache => \A i \in JobIds :
                /\ cronCache[i] # NoJob <=> fate[i] = "added"
                /\ cronFile[i] = Content(i)
<1>1. \A c \in Callers : op[c].step = "none"
  BY DEF Quiet, Resting
<1> QED BY <1>1 DEF CronStored, FileWhole, FileAgrees, CacheKnows, CacheReflects

\* The call that is under way is alone.
LEMMA OneCall ==
    ASSUME CronShape, CallsAlone, NEW c \in Callers, op[c].step # "none"
    PROVE  \A d \in Callers : d # c => op[d] = Resting
<1>1. op[c] # Resting
  BY DEF Resting
<1> QED BY <1>1 DEF CallsAlone

LEMMA BeginStored ==
    ASSUME CronShape, CronRefs, CronStored, NEW c \in Callers, NEW kind, NEW i, NEW o,
           Begin(c, kind, i, o), orderly', UNCHANGED <<cronFile, cronCache>>,
           \A k \in JobIds : k # i /\ cronCache # NoCache /\ cronCache[k] # NoJob =>
               heap'[cronCache[k]] = heap[cronCache[k]],
           \A k \in JobIds : fate'[k] = "added" <=> fate[k] = "added",
           kind = "add" => fate'[i] = "adding",
           kind = "update" /\ c \in Editors => cronCache # NoCache /\ cronCache[i] = o
    PROVE  CronStored'
<1>1. Quiet /\ op[c] = Resting
  BY DEF Begin
<1> DEFINE r == [kind |-> kind, id |-> i, obj |-> o, jobs |-> NoJobs, step |-> "load"]
<1>2. r.kind = kind /\ r.id = i /\ r.obj = o /\ r.step = "load" /\ r # Resting
  BY DEF Resting
<1>3. op'[c] = r /\ \A d \in Callers : d # c => op'[d] = Resting
  BY <1>1 DEF Begin, CronShape, Quiet
<1> HIDE DEF r
<1>4. \A d \in Callers : op'[d].step # "none" => d = c
  BY <1>3 DEF Resting
<1>5. \A d \in Callers : op'[d].step \in {"load", "none"} /\ (op'[d].kind # "none" => d = c)
  BY <1>2, <1>3 DEF Resting
<1>6. CallsAlone'
  BY <1>3 DEF CallsAlone
<1>7. FileWhole' /\ FileAgrees'
  BY <1>1, <1>5, QuietStored DEF FileWhole, FileAgrees
<1>8. CacheKnows'
  BY <1>1, QuietStored DEF CacheKnows
<1>9. ListsAgree'
  BY <1>2, <1>3, <1>5 DEF ListsAgree, Stored
<1>10. CacheReflects'
  <2>1. ~Quiet'
    BY <1>2, <1>3 DEF Quiet
  <2>2. \A d \in Callers : cronCache' # NoCache /\ op'[d].step = "load" =>
          \A k \in JobIds : k # op'[d].id => cronFile'[k] = Content(k)'
    <3>1. SUFFICES ASSUME NEW d \in Callers, cronCache # NoCache, op'[d].step = "load",
                          NEW k \in JobIds, k # op'[d].id
                   PROVE  cronFile[k] = IF cronCache[k] = NoJob THEN NoJob ELSE heap'[cronCache[k]]
      BY DEF Content
    <3>2. d = c /\ k # i
      BY <1>2, <1>3, <1>4, <3>1
    <3>3. cronFile[k] = Content(k)
      BY <1>1, <3>1, QuietStored
    <3> QED BY <3>1, <3>2, <3>3 DEF Content
  <2>3. \A d \in Callers : ~(op'[d].step \in {"write", "cache"})
    BY <1>5
  <2>4. \A d \in Editors : op'[d].kind = "update" => cronCache # NoCache /\ cronCache[op'[d].id] = op'[d].obj
    <3>1. \A d \in Editors : d \in Callers
      BY DEF Callers
    <3> QED BY <1>2, <1>3, <1>5, <3>1
  <2> QED BY <2>1, <2>2, <2>3, <2>4 DEF CacheReflects
<1> QED BY <1>6, <1>7, <1>8, <1>9, <1>10 DEF CronStored

LEMMA LoadStored ==
    ASSUME CronShape, CronRefs, CronStored, NEW c \in Callers, Load(c)
    PROVE  CronStored'
<1>1. /\ op[c].step = "load" /\ UNCHANGED <<cronFile, heap, cronCache, fate>>
  BY LoadIs
<1>2. \A d \in Callers : d # c => op[d] = Resting
  BY <1>1, OneCall DEF CronStored
<1>3. cronFile # Torn /\ Loaded = cronFile
  <2>1. \A d \in Callers : op[d].step # "write"
    BY <1>1, <1>2 DEF Resting
  <2> QED BY <2>1 DEF CronStored, FileWhole, Loaded
<1>4. \A i \in JobIds : cronFile[i] # NoJob <=> fate[i] = "added"
  BY <1>3 DEF CronStored, FileAgrees
<1>5. cronCache # NoCache => \A i \in JobIds : cronCache[i] # NoJob <=> fate[i] = "added"
  <2>1. \A d \in Callers : op[d].step # "cache"
    BY <1>1, <1>2 DEF Resting
  <2> QED BY <2>1 DEF CronStored, CacheKnows
<1>6. CASE /\ op[c].kind \in {"update", "remove"} /\ Loaded[op[c].id] = NoJob
           /\ op' = [op EXCEPT ![c] = Resting]
  <2>1. \A d \in Callers : op'[d] = Resting
    BY <1>2, <1>6 DEF CronShape
  <2>2. Quiet' /\ \A d \in Callers : op'[d].step = "none" /\ op'[d].kind = "none" /\ op'[d].obj = NoJob
    BY <2>1 DEF Quiet, Resting
  <2>3. CallsAlone' /\ FileWhole' /\ FileAgrees' /\ ListsAgree'
    BY <1>1, <1>3, <1>4, <2>1, <2>2 DEF CallsAlone, FileWhole, FileAgrees, ListsAgree, Stored
  <2>4. CacheKnows'
    BY <1>1, <1>5 DEF CacheKnows
  <2>5. cronCache # NoCache => \A i \in JobIds : cronFile[i] = Content(i)
    <3> SUFFICES ASSUME cronCache # NoCache, NEW i \in JobIds PROVE cronFile[i] = Content(i)
      OBVIOUS
    <3>1. CASE i = op[c].id
      <4>1. cronFile[i] = NoJob
        BY <1>3, <1>6, <3>1
      <4>2. cronCache[i] = NoJob
        BY <1>4, <1>5, <4>1
      <4> QED BY <4>1, <4>2 DEF Content
    <3>2. CASE i # op[c].id
      BY <1>1, <3>2 DEF CronStored, CacheReflects
    <3> QED BY <3>1, <3>2
  <2>6. CacheReflects'
    <3>1. cronCache' # NoCache => \A i \in JobIds : cronFile'[i] = Content(i)'
      BY <1>1, <2>5 DEF Content
    <3>2. \A d \in Editors : d \in Callers
      BY DEF Callers
    <3> QED BY <2>2, <3>1, <3>2 DEF CacheReflects
  <2> QED BY <2>3, <2>4, <2>6 DEF CronStored
<1>7. ASSUME NEW jobs \in JobLists, NEW step \in {"save", "cache"},
                   /\ op' = [op EXCEPT ![c] = [kind |-> op[c].kind, id |-> op[c].id, obj |-> op[c].obj,
                                               jobs |-> jobs, step |-> step]]
                   /\ \A k \in JobIds : k # op[c].id => jobs[k] = Loaded[k]
                   /\ step = "cache" <=> op[c].kind = "list"
                   /\ op[c].kind \in {"remove", "update"} => Loaded[op[c].id] # NoJob
      PROVE  CronStored'
  <2> DEFINE r == [kind |-> op[c].kind, id |-> op[c].id, obj |-> op[c].obj, jobs |-> jobs, step |-> step]
  <2>1. /\ r.kind = op[c].kind /\ r.id = op[c].id /\ r.obj = op[c].obj /\ r.jobs = jobs /\ r.step = step
        /\ r # Resting
    BY DEF Resting
  <2>2. op'[c] = r /\ \A d \in Callers : d # c => op'[d] = Resting
    BY <1>2, <1>7 DEF CronShape
  <2> HIDE DEF r
  <2>3. \A d \in Callers : op'[d].step # "none" \/ op'[d].kind # "none" => d = c
    BY <2>2 DEF Resting
  <2>4. \A d \in Callers : op'[d].step \in {"none", "save", "cache"}
    BY <2>1, <2>2 DEF Resting
  <2>5. CallsAlone' /\ FileWhole' /\ FileAgrees'
    BY <1>1, <1>3, <1>4, <2>2, <2>4 DEF CallsAlone, FileWhole, FileAgrees
  <2>6. CacheKnows'
    BY <1>1, <1>5 DEF CacheKnows
  <2>7. step = "cache" => cronFile = jobs
    <3> SUFFICES ASSUME step = "cache" PROVE cronFile = jobs
      OBVIOUS
    <3>1. op[c].id = NoJob /\ NoJob \notin JobIds
      BY <1>7, CallParts, ReferenceAssumption
    <3>2. \A k \in JobIds : jobs[k] = cronFile[k]
      BY <1>3, <1>7, <3>1
    <3>3. cronFile \in JobLists
      BY <1>3 DEF CronShape
    <3> QED BY <3>2, <3>3 DEF JobLists
  <2>8. op[c].kind = "update" => fate[op[c].id] = "added"
    <3>1. op[c].kind = "update" => op[c].id \in JobIds
      BY CallParts
    <3> QED BY <1>3, <1>4, <1>7, <3>1
  <2>9. op[c].kind = "add" => fate[op[c].id] = "adding"
    BY <1>1 DEF CronStored, ListsAgree
  <2>10. \A i \in JobIds : i # op[c].id => (jobs[i] # NoJob <=> fate[i] = "added")
    BY <1>3, <1>4, <1>7
  <2>13. op[c].kind = "remove" => step # "cache"
    BY <1>7
  <2>11. ListsAgree'
    <3>1. \A d \in Callers : d # c => op'[d].step = "none" /\ op'[d].kind = "none"
      BY <2>2 DEF Resting
    <3>2. UNCHANGED <<fate, cronFile>>
      BY <1>1
    <3>3. \A d \in Callers : op'[d].step = "cache" => cronFile' = op'[d].jobs
      BY <2>1, <2>2, <2>7, <3>1, <3>2
    <3>4. \A d \in Callers : op'[d].kind = "remove" /\ op'[d].step = "cache" => fate'[op'[d].id] = "removed"
      BY <2>1, <2>2, <2>13, <3>1
    <3> QED BY <2>1, <2>2, <2>8, <2>9, <2>10, <3>1, <3>2, <3>3, <3>4 DEF ListsAgree, Stored
  <2>12. CacheReflects'
    <3>1. ~Quiet'
      BY <2>1, <2>2 DEF Quiet
    <3>2. \A d \in Callers : op'[d].step \in {"write", "cache"} => op'[d].obj = NoJob
      <4>1. step = "cache" => op[c].obj = NoJob
        BY <1>7, CallParts
      <4> QED BY <2>1, <2>2, <2>3, <4>1
    <3>3. \A d \in Callers : op'[d].step # "load"
      BY <2>4
    <3>4. \A d \in Editors : op'[d].kind = "update" => cronCache' # NoCache /\ cronCache'[op'[d].id] = op'[d].obj
      <4>1. \A d \in Editors : d \in Callers
        BY DEF Callers
      <4>2. c \in Editors /\ op[c].kind = "update" => cronCache # NoCache /\ cronCache[op[c].id] = op[c].obj
        BY DEF CronStored, CacheReflects
      <4> QED BY <1>1, <2>1, <2>2, <2>3, <4>1, <4>2
    <3> QED BY <3>1, <3>2, <3>3, <3>4 DEF CacheReflects
  <2> QED BY <2>5, <2>6, <2>11, <2>12 DEF CronStored
<1> QED BY <1>6, <1>7, LoadIs

\* What is remembered of the jobs.
CronHistory ==
    /\ fate \in [JobIds -> {"unborn", "adding", "added", "removed"}]
    /\ want \in [JobIds -> {"unknown", "on", "off"}]
    /\ ran \in [JobIds -> Nat]

\* What a call of the store sees of the others.
LEMMA CallAlone ==
    ASSUME CronShape, CronStored, NEW c \in Callers, op[c].step # "none",
           NEW r, r # Resting, op' = [op EXCEPT ![c] = r]
    PROVE  /\ op'[c] = r /\ \A d \in Callers : d # c => op[d] = Resting /\ op'[d] = Resting
           /\ \A d \in Callers : op'[d].step # "none" \/ op'[d].kind # "none" => d = c
           /\ CallsAlone' /\ ~Quiet'
<1>1. \A d \in Callers : d # c => op[d] = Resting
  BY OneCall DEF CronStored
<1>2. op'[c] = r /\ \A d \in Callers : d # c => op'[d] = Resting
  BY <1>1 DEF CronShape
<1> QED BY <1>1, <1>2 DEF CallsAlone, Quiet, Resting

\* The conditions under which the call that is under way leaves all in order.
LEMMA CallStored ==
    ASSUME CronShape, CronStored, NEW c \in Callers, op[c].step # "none",
           NEW r, r # Resting, op' = [op EXCEPT ![c] = r],
           r.kind = op[c].kind /\ r.id = op[c].id /\ r.obj = op[c].obj,
           r.step \in {"write", "cache"}, r.step = "write" <=> cronFile' = Torn,
           UNCHANGED <<heap, cronCache>>,
           \A i \in JobIds : i # op[c].id => (fate'[i] = "added" <=> fate[i] = "added"),
           r.step = "write" =>
             /\ \A i \in JobIds : i # op[c].id => (r.jobs[i] # NoJob <=> fate[i] = "added")
             /\ UNCHANGED fate,
           r.step = "cache" =>
             /\ cronFile' = r.jobs
             /\ \A i \in JobIds : r.jobs[i] # NoJob <=> fate'[i] = "added",
           r.kind = "update" => fate'[op[c].id] = "added",
           r.kind = "remove" /\ r.step = "cache" => fate'[op[c].id] = "removed",
           r.obj # NoJob => r.jobs[op[c].id] = heap[r.obj],
           op[c].step # "cache"
    PROVE  CronStored'
<1>1. /\ op'[c] = r /\ \A d \in Callers : d # c => op[d] = Resting /\ op'[d] = Resting
      /\ \A d \in Callers : op'[d].step # "none" \/ op'[d].kind # "none" => d = c
      /\ CallsAlone' /\ ~Quiet'
  BY CallAlone
<1>2. FileWhole'
  BY <1>1 DEF FileWhole, Resting
<1>3. FileAgrees'
  BY DEF FileAgrees
<1>4. CacheKnows'
  <2>1. \A d \in Callers : op[d].step # "cache"
    BY <1>1 DEF Resting
  <2>2. cronCache # NoCache => \A i \in JobIds : cronCache[i] # NoJob <=> fate[i] = "added"
    BY <2>1 DEF CronStored, CacheKnows
  <2>3. \A i \in JobIds : (\A d \in Callers : ~(op'[d].id = i /\ op'[d].step = "cache")) =>
                            (fate'[i] = "added" <=> fate[i] = "added")
    BY <1>1
  <2> QED BY <2>2, <2>3 DEF CacheKnows
<1>5. ListsAgree'
  <2>1. op[c].kind = "add" /\ r.step # "cache" => fate'[op[c].id] = "adding"
    BY DEF CronStored, ListsAgree
  <2> QED BY <1>1, <2>1 DEF ListsAgree, Stored
<1>6. CacheReflects'
  <2>1. \A d \in Editors : d \in Callers
    BY DEF Callers
  <2>2. c \in Editors /\ op[c].kind = "update" => cronCache # NoCache /\ cronCache[op[c].id] = op[c].obj
    BY DEF CronStored, CacheReflects
  <2>3. \A d \in Editors : op'[d].kind = "update" => cronCache' # NoCache /\ cronCache'[op'[d].id] = op'[d].obj
    BY <1>1, <2>1, <2>2
  <2>4. \A d \in Callers : op'[d].step # "load"
    BY <1>1 DEF Resting
  <2>5. \A d \in Callers : op'[d].step \in {"write", "cache"} /\ op'[d].obj # NoJob =>
          op'[d].jobs[op'[d].id] = heap'[op'[d].obj]
    BY <1>1
  <2> QED BY <1>1, <2>3, <2>4, <2>5 DEF CacheReflects
<1> QED BY <1>1, <1>2, <1>3, <1>4, <1>5, <1>6 DEF CronStored

LEMMA TruncateStored ==
    ASSUME CronShape, CronRefs, CronStored, NEW c \in Callers, Truncate(c)
    PROVE  CronStored'
<1>1. /\ op[c].step = "save" /\ op[c].kind \in {"add", "update", "remove"} /\ cronFile' = Torn
      /\ UNCHANGED <<heap, cronCache, fate>>
  BY TruncateIs
<1>2. PICK text \in JobLists :
                /\ op' = [op EXCEPT ![c] = [kind |-> op[c].kind, id |-> op[c].id, obj |-> op[c].obj,
                                            jobs |-> text, step |-> "write"]]
                /\ \A k \in JobIds : k # op[c].id => text[k] = op[c].jobs[k]
                /\ op[c].kind \in {"add", "update"} => text[op[c].id] = heap[op[c].obj]
  BY TruncateIs
<1>3. /\ \A i \in JobIds : i # op[c].id => (op[c].jobs[i] # NoJob <=> fate[i] = "added")
      /\ op[c].kind = "update" => fate[op[c].id] = "added"
  BY <1>1 DEF CronStored, ListsAgree, Stored
<1>4. op[c].obj # NoJob => op[c].kind \in {"add", "update"}
  BY CallParts
<1> DEFINE r == [kind |-> op[c].kind, id |-> op[c].id, obj |-> op[c].obj, jobs |-> text, step |-> "write"]
<1>5. /\ r.kind = op[c].kind /\ r.id = op[c].id /\ r.obj = op[c].obj /\ r.jobs = text /\ r.step = "write"
      /\ r # Resting /\ op' = [op EXCEPT ![c] = r]
  BY <1>2 DEF Resting
<1> HIDE DEF r
<1>6. \A i \in JobIds : i # op[c].id => (r.jobs[i] # NoJob <=> fate[i] = "added")
  BY <1>2, <1>3, <1>5
<1>7. r.obj # NoJob => r.jobs[op[c].id] = heap[r.obj]
  BY <1>2, <1>4, <1>5
<1> QED BY <1>1, <1>3, <1>5, <1>6, <1>7, CallStored

LEMMA WriteTextStored ==
    ASSUME CronShape, CronRefs, CronHistory, CronStored, NEW c \in Callers, WriteText(c)
    PROVE  CronStored' /\ cronFile = Torn /\ cronFile' = op[c].jobs
<1> DEFINE r == [kind |-> op[c].kind, id |-> op[c].id, obj |-> op[c].obj, jobs |-> op[c].jobs, step |-> "cache"]
<1>1. /\ op[c].step = "write" /\ op[c].kind \in {"add", "update", "remove"}
      /\ op[c].jobs \in JobLists /\ UNCHANGED <<heap, cronCache>>
      /\ op' = [op EXCEPT ![c] = r]
      /\ cronFile' = op[c].jobs \/ (cronFile # Torn /\ cronFile' = Torn)
  BY WriteTextIs
<1>2. cronFile = Torn /\ cronFile' = op[c].jobs /\ cronFile' # Torn
  BY <1>1, ReferenceAssumption DEF CronStored, FileWhole
<1>3. /\ \A i \in JobIds : i # op[c].id => (op[c].jobs[i] # NoJob <=> fate[i] = "added")
      /\ op[c].kind = "update" => fate[op[c].id] = "added"
  BY <1>1 DEF CronStored, ListsAgree, Stored
<1>4. op[c].id \in JobIds /\ (op[c].obj # NoJob => op[c].jobs[op[c].id] = heap[op[c].obj])
      /\ (op[c].kind = "remove" <=> op[c].jobs[op[c].id] = NoJob)
  BY <1>1, CallParts DEF CronStored, CacheReflects
<1>5. fate' = CASE op[c].kind = "add" -> [fate EXCEPT ![op[c].id] = "added"]
                [] op[c].kind = "remove" -> [fate EXCEPT ![op[c].id] = "removed"]
                [] OTHER -> fate
  BY DEF WriteText
<1>6. \A i \in JobIds : i # op[c].id => fate'[i] = fate[i]
  BY <1>1, <1>4, <1>5 DEF CronHistory
<1>7. /\ op[c].kind = "add" => fate'[op[c].id] = "added"
      /\ op[c].kind = "remove" => fate'[op[c].id] = "removed"
      /\ op[c].kind = "update" => fate' = fate
  BY <1>1, <1>4, <1>5 DEF CronHistory
<1>8. \A i \in JobIds : op[c].jobs[i] # NoJob <=> fate'[i] = "added"
  BY <1>1, <1>3, <1>4, <1>6, <1>7
<1>9. /\ r.kind = op[c].kind /\ r.id = op[c].id /\ r.obj = op[c].obj /\ r.jobs = op[c].jobs
      /\ r.step = "cache" /\ r # Resting
  BY DEF Resting
<1> HIDE DEF r
<1>10. op[c].kind = "update" => fate'[op[c].id] = "added"
  BY <1>3, <1>7
<1>11. CronStored'
  BY <1>1, <1>2, <1>4, <1>6, <1>7, <1>8, <1>9, <1>10, CallStored
<1> QED BY <1>2, <1>11

LEMMA SetCacheStored ==
    ASSUME CronShape, CronRefs, CronStored, NEW c \in Callers, SetCache(c)
    PROVE  CronStored'
<1>1. /\ op[c].step = "cache" /\ op' = [op EXCEPT ![c] = Resting]
      /\ UNCHANGED <<cronFile, fate>> /\ op[c].jobs \in JobLists
  BY SetCacheIs
<1>2. cronFile = op[c].jobs /\ cronFile # Torn
  BY <1>1, ReferenceAssumption DEF CronStored, ListsAgree
<1>3. \A i \in JobIds :
         /\ cronCache'[i] = NoJob <=> op[c].jobs[i] = NoJob
         /\ i # op[c].id /\ cronCache'[i] # NoJob => heap'[cronCache'[i]] = op[c].jobs[i]
         /\ i = op[c].id /\ cronCache'[i] # NoJob =>
               cronCache'[i] = op[c].obj /\ heap'[cronCache'[i]] = heap[op[c].obj]
  BY SetCacheIs
<1>4. cronCache' \in [JobIds -> Obj \cup {NoJob}]
  BY SetCacheIs
<1>5. \A d \in Callers : op'[d] = Resting
  BY <1>1, OneCall DEF CronStored, CronShape
<1>6. Quiet' /\ \A d \in Callers : op'[d].step = "none" /\ op'[d].kind = "none" /\ op'[d].obj = NoJob
  BY <1>5 DEF Quiet, Resting
<1>7. \A i \in JobIds : cronFile[i] # NoJob <=> fate[i] = "added"
  BY <1>2 DEF CronStored, FileAgrees
<1>8. CallsAlone' /\ FileWhole' /\ FileAgrees' /\ ListsAgree'
  BY <1>1, <1>2, <1>5, <1>6, <1>7 DEF CallsAlone, FileWhole, FileAgrees, ListsAgree, Stored
<1>9. CacheKnows'
  BY <1>1, <1>2, <1>3, <1>7 DEF CacheKnows
<1>10. \A i \in JobIds : cronFile[i] = IF cronCache'[i] = NoJob THEN NoJob ELSE heap'[cronCache'[i]]
  <2> SUFFICES ASSUME NEW i \in JobIds
               PROVE  cronFile[i] = IF cronCache'[i] = NoJob THEN NoJob ELSE heap'[cronCache'[i]]
    OBVIOUS
  <2>1. CASE cronCache'[i] = NoJob
    BY <1>2, <1>3, <2>1
  <2>2. CASE cronCache'[i] # NoJob /\ i # op[c].id
    BY <1>2, <1>3, <2>2
  <2>3. CASE cronCache'[i] # NoJob /\ i = op[c].id
    <3>1. cronCache'[i] = op[c].obj /\ heap'[cronCache'[i]] = heap[op[c].obj]
      BY <1>3, <2>3
    <3>2. op[c].jobs[i] = heap[op[c].obj]
      BY <1>1, <2>3, <3>1 DEF CronStored, CacheReflects
    <3> QED BY <1>2, <2>3, <3>1, <3>2
  <2> QED BY <2>1, <2>2, <2>3
<1>11. CacheReflects'
  <2>1. \A i \in JobIds : cronFile'[i] = Content(i)'
    BY <1>1, <1>10 DEF Content
  <2>2. \A d \in Editors : d \in Callers
    BY DEF Callers
  <2> QED BY <1>6, <2>1, <2>2 DEF CacheReflects
<1> QED BY <1>8, <1>9, <1>11 DEF CronStored

LEMMA CronCrashStored ==
    ASSUME CronShape, CronHistory, CronStored, CronCrash, orderly'
    PROVE  CronStored'
<1>1. /\ cronFile # Torn /\ cronFile' = cronFile /\ cronCache' = NoCache
      /\ op' = [c \in Callers |-> Resting]
      /\ fate' = [i \in JobIds |-> IF fate[i] = "adding" THEN "removed" ELSE fate[i]]
  BY DEF CronCrash
<1>2. /\ \A d \in Callers : op'[d] = Resting
      /\ \A d \in Callers : op'[d].step = "none" /\ op'[d].kind = "none" /\ op'[d].obj = NoJob
  BY <1>1 DEF Resting
<1>3. \A i \in JobIds : cronFile'[i] # NoJob <=> fate'[i] = "added"
  BY <1>1 DEF CronStored, FileAgrees
<1>4. \A d \in Editors : d \in Callers
  BY DEF Callers
<1> QED BY <1>1, <1>2, <1>3, <1>4
        DEF CronStored, CallsAlone, FileWhole, FileAgrees, CacheKnows, ListsAgree, CacheReflects, Stored

LEMMA CronHistoryStep ==
    ASSUME CronShape, CronRefs, CronHistory, [CronNext]_cronVars
    PROVE  CronHistory'
<1>1. CASE LoopStep
  <2>1. CASE Execute
    <3>1. loop.due # <<>>
      BY <2>1 DEF Execute, LoopFree, CronShape, LoopOK
    <3>2. Head(loop.due)[1] \in JobIds
      BY <3>1, DueObject
    <3> QED BY <2>1, <3>2 DEF Execute, LoopOnly, CronHistory
  <2>2. CASE ~Execute
    <3>1. UNCHANGED <<fate, want, ran>>
      BY <1>1, <2>2 DEF LoopStep, Arm, Snapshot, WriteBack, DropAfterRun, NextDue, Rested, EnsureCache, LoopOnly
    <3> QED BY <3>1 DEF CronHistory
  <2> QED BY <2>1, <2>2
<1>2. CASE TimePasses \/ UNCHANGED cronVars \/ \E c \in Editors : EnsureCache(c)
  <2>1. UNCHANGED <<fate, want, ran>>
    BY <1>2 DEF TimePasses, cronVars, EnsureCache
  <2> QED BY <2>1 DEF CronHistory
<1>3. CASE CronCrash
  BY <1>3 DEF CronCrash, CronHistory
<1>4. ASSUME NEW c \in Callers, StoreStep(c)
      PROVE  CronHistory'
  <2>1. CASE WriteText(c)
    <3>1. op[c].id \in JobIds
      <4>1. op[c].kind \in {"add", "update", "remove"}
        BY <2>1, WriteTextIs
      <4> QED BY <4>1, CallParts
    <3>2. UNCHANGED ran
      BY <2>1 DEF WriteText
    <3>3. fate' = fate \/ fate' = [fate EXCEPT ![op[c].id] = "added"]
            \/ fate' = [fate EXCEPT ![op[c].id] = "removed"]
      BY <2>1 DEF WriteText
    <3>4. want' = want \/ want' = [want EXCEPT ![op[c].id] = "on"]
            \/ want' = [want EXCEPT ![op[c].id] = "off"]
      BY <2>1 DEF WriteText
    <3> QED BY <3>1, <3>2, <3>3, <3>4 DEF CronHistory
  <2>2. CASE ~WriteText(c)
    <3>1. UNCHANGED <<fate, want, ran>>
      BY <1>4, <2>2 DEF StoreStep, Load, Truncate, SetCache, WriteFails
    <3> QED BY <3>1 DEF CronHistory
  <2> QED BY <2>1, <2>2
<1>5. ASSUME NEW c \in Editors, NEW i \in JobIds,
             AddJob(c, i) \/ RemoveJob(c, i) \/ RunJobNow(c, i) \/ \E b \in BOOLEAN : SetEnabled(c, i, b)
      PROVE  CronHistory'
  BY <1>5 DEF AddJob, RemoveJob, RunJobNow, SetEnabled, Unseen, CronHistory
<1> QED BY <1>1, <1>2, <1>3, <1>4, <1>5 DEF CronNext

\* What is not orderly never is again.
LEMMA OrderlyFalls == [CronNext]_cronVars /\ orderly' => orderly
<1> SUFFICES ASSUME [CronNext]_cronVars, orderly' PROVE orderly
  OBVIOUS
<1>1. CASE LoopStep
  BY <1>1 DEF LoopStep, Arm, Snapshot, Execute, WriteBack, DropAfterRun, NextDue, Rested, EnsureCache, LoopOnly, Begin
<1>2. CASE TimePasses \/ UNCHANGED cronVars \/ \E c \in Editors : EnsureCache(c)
  BY <1>2 DEF TimePasses, cronVars, EnsureCache, Begin
<1>3. CASE CronCrash
  BY <1>3 DEF CronCrash
<1>4. CASE \E c \in Callers : StoreStep(c)
  BY <1>4 DEF StoreStep, Load, Truncate, WriteText, SetCache, WriteFails
<1>5. ASSUME NEW c \in Editors, NEW i \in JobIds,
             AddJob(c, i) \/ RemoveJob(c, i) \/ RunJobNow(c, i) \/ \E b \in BOOLEAN : SetEnabled(c, i, b)
      PROVE  orderly
  BY <1>5 DEF AddJob, RemoveJob, RunJobNow, SetEnabled, Begin
<1> QED BY <1>1, <1>2, <1>3, <1>4, <1>5 DEF CronNext

LEMMA StoredStays ==
    ASSUME CronStored, UNCHANGED <<cronFile, heap, cronCache, op, fate>>
    PROVE  CronStored'
<1>1. CallsAlone' /\ FileWhole' /\ FileAgrees'
  BY DEF CronStored, CallsAlone, FileWhole, FileAgrees
<1>2. CacheKnows' /\ ListsAgree'
  BY DEF CronStored, CacheKnows, ListsAgree
<1>3. CacheReflects'
  BY DEF CronStored, CacheReflects, Content, Quiet
<1> QED BY <1>1, <1>2, <1>3 DEF CronStored

\* Which step leaves the store alone, which begins a call, and how.
QuietStep ==
    \/ Arm \/ Snapshot \/ Execute \/ NextDue \/ Rested \/ TimePasses \/ UNCHANGED cronVars

LEMMA QuietStepKeeps ==
    QuietStep => UNCHANGED <<cronFile, heap, cronCache, op, fate, want, orderly>>
BY DEF QuietStep, Arm, Snapshot, Execute, NextDue, Rested, TimePasses, cronVars, LoopOnly

\* The steps of the scheduler, sorted.
LEMMA CronSteps ==
    ASSUME [CronNext]_cronVars
    PROVE  \/ QuietStep \/ WriteBack \/ DropAfterRun \/ CronCrash
           \/ \E c \in Callers : EnsureCache(c) \/ StoreStep(c)
           \/ \E c \in Editors, i \in JobIds :
                \/ AddJob(c, i) \/ RemoveJob(c, i) \/ RunJobNow(c, i)
                \/ \E b \in BOOLEAN : SetEnabled(c, i, b)
BY CallersFacts DEF CronNext, LoopStep, QuietStep, Callers

LEMMA EditorCalls == \A c \in Editors : c \in Callers /\ c # "loop"
BY CallersFacts DEF Callers

\* An object of another job stays as it is.
LEMMA OtherObjects ==
    ASSUME CronShape, CronRefs, NEW o \in Obj, NEW j, heap' = [heap EXCEPT ![o] = j]
    PROVE  \A k \in JobIds : k # o[1] /\ cronCache # NoCache /\ cronCache[k] # NoJob =>
               heap'[cronCache[k]] = heap[cronCache[k]]
<1> SUFFICES ASSUME NEW k \in JobIds, k # o[1], cronCache # NoCache, cronCache[k] # NoJob
             PROVE  heap'[cronCache[k]] = heap[cronCache[k]]
  OBVIOUS
<1>1. cronCache[k] \in Obj /\ cronCache[k][1] = k
  BY CachedObject
<1>2. cronCache[k] # o
  BY <1>1
<1> QED BY <1>1, <1>2 DEF CronShape

LEMMA CronStoredStep ==
    ASSUME CronShape, CronRefs, CronHistory, CronStored, orderly', [CronNext]_cronVars
    PROVE  CronStored'
<1>1. CASE QuietStep
  BY <1>1, QuietStepKeeps, StoredStays
<1>2. CASE WriteBack
  <2> DEFINE o == Head(loop.due)
  <2>1. /\ o \in Obj /\ o[1] \in JobIds /\ Begin("loop", "update", o[1], o)
        /\ UNCHANGED <<cronFile, cronCache, fate>> /\ \E j \in Jobs : heap' = [heap EXCEPT ![o] = j]
    BY <1>2, WriteBackIs
  <2>2. "loop" \in Callers /\ "loop" \notin Editors
    BY CallersFacts
  <2> HIDE DEF o
  <2>3. \A k \in JobIds : k # o[1] /\ cronCache # NoCache /\ cronCache[k] # NoJob =>
               heap'[cronCache[k]] = heap[cronCache[k]]
    BY <2>1, OtherObjects
  <2> QED BY <2>1, <2>2, <2>3, BeginStored
<1>3. CASE DropAfterRun
  <2> DEFINE i == Head(loop.due)[1]
  <2>1. Begin("loop", "remove", i, NoJob) /\ UNCHANGED <<cronFile, cronCache, fate, heap>>
    BY <1>3 DEF DropAfterRun, LoopOnly
  <2> HIDE DEF i
  <2> QED BY <2>1, CallersFacts, BeginStored
<1>4. CASE CronCrash
  BY <1>4, CronCrashStored
<1>5. ASSUME NEW c \in Callers, EnsureCache(c) PROVE CronStored'
  <2>1. Begin(c, "list", NoJob, NoJob) /\ UNCHANGED <<cronFile, cronCache, fate, heap>>
    BY <1>5 DEF EnsureCache
  <2> QED BY <2>1, BeginStored
<1>6. ASSUME NEW c \in Callers, StoreStep(c) PROVE CronStored'
  <2>1. ~WriteFails(c)
    BY DEF WriteFails
  <2> QED BY <1>6, <2>1, LoadStored, TruncateStored, WriteTextStored, SetCacheStored DEF StoreStep
<1>7. ASSUME NEW c \in Editors, NEW i \in JobIds, AddJob(c, i) PROVE CronStored'
  <2> DEFINE o == FreshObj(i)
  <2>1. /\ Begin(c, "add", i, o) /\ UNCHANGED <<cronFile, cronCache>>
        /\ fate[i] = "unborn" /\ fate' = [fate EXCEPT ![i] = "adding"]
        /\ \E j : heap' = [heap EXCEPT ![o] = j]
    BY <1>7 DEF AddJob
  <2>2. c \in Callers /\ op[c] = Resting
    BY <2>1, EditorCalls DEF Begin
  <2>3. o \in Obj /\ o[1] = i
    BY <2>2, SlotIsFree DEF Resting
  <2>4. /\ \A k \in JobIds : fate'[k] = "added" <=> fate[k] = "added"
        /\ fate'[i] = "adding"
    BY <2>1 DEF CronHistory
  <2> HIDE DEF o
  <2>5. \A k \in JobIds : k # i /\ cronCache # NoCache /\ cronCache[k] # NoJob =>
               heap'[cronCache[k]] = heap[cronCache[k]]
    BY <2>1, <2>3, OtherObjects
  <2> QED BY <2>1, <2>2, <2>4, <2>5, BeginStored
<1>8. ASSUME NEW c \in Editors, NEW i \in JobIds, RemoveJob(c, i) PROVE CronStored'
  <2>1. Begin(c, "remove", i, NoJob) /\ UNCHANGED <<cronFile, cronCache, fate, heap>>
    BY <1>8 DEF RemoveJob
  <2> QED BY <2>1, EditorCalls, BeginStored
<1>9. ASSUME NEW c \in Editors, NEW i \in JobIds,
             RunJobNow(c, i) \/ \E b \in BOOLEAN : SetEnabled(c, i, b)
      PROVE  CronStored'
  <2>1. /\ Finds(c, i) /\ Begin(c, "update", i, cronCache[i]) /\ UNCHANGED <<cronFile, cronCache, fate>>
        /\ \E j \in Jobs : heap' = [heap EXCEPT ![cronCache[i]] = j]
    <3>1. CASE RunJobNow(c, i)
      BY <3>1, RunJobNowIs DEF RunJobNow
    <3>2. ASSUME NEW b \in BOOLEAN, SetEnabled(c, i, b)
          PROVE /\ Finds(c, i) /\ Begin(c, "update", i, cronCache[i]) /\ UNCHANGED <<cronFile, cronCache, fate>>
                /\ \E j \in Jobs : heap' = [heap EXCEPT ![cronCache[i]] = j]
      BY <3>2, SetEnabledIs DEF SetEnabled
    <3> QED BY <1>9, <3>1, <3>2
  <2>2. cronCache # NoCache /\ cronCache[i] \in Obj /\ cronCache[i][1] = i
    BY <2>1, CachedObject DEF Finds
  <2>3. \A k \in JobIds : k # i /\ cronCache # NoCache /\ cronCache[k] # NoJob =>
               heap'[cronCache[k]] = heap[cronCache[k]]
    BY <2>1, <2>2, OtherObjects
  <2> QED BY <2>1, <2>2, <2>3, EditorCalls, BeginStored
<1> QED BY <1>1, <1>2, <1>3, <1>4, <1>5, <1>6, <1>7, <1>8, <1>9, CronSteps

-----------------------------------------------------------------------------
(* The copies of a job, and the ticks that run it.                         *)

\* Wherever job i is stored, about to be stored, or can be reached, it is in S.
Copies(i, S) ==
    /\ cronFile # Torn => cronFile[i] \in S \cup {NoJob}
    /\ \A c \in Callers : op[c].step \in Stored => op[c].jobs[i] \in S \cup {NoJob}
    /\ \A c \in Callers : op[c].obj # NoJob /\ op[c].id = i => heap[op[c].obj] \in S
    /\ cronCache # NoCache /\ cronCache[i] # NoJob => heap[cronCache[i]] \in S

LEMMA CopiesStay ==
    ASSUME NEW i, NEW S, Copies(i, S), UNCHANGED <<cronFile, heap, cronCache, op>>
    PROVE  Copies(i, S)'
BY DEF Copies

LEMMA CopiesBegin ==
    ASSUME CronShape, NEW i \in JobIds, NEW S, Copies(i, S),
           NEW c \in Callers, NEW kind, NEW k, NEW o, Begin(c, kind, k, o),
           UNCHANGED <<cronFile, cronCache>>,
           \A x \in Obj : x[1] = i => heap'[x] = heap[x] \/ heap'[x] \in S,
           o # NoJob /\ k = i => heap'[o] \in S
    PROVE  Copies(i, S)'
<1> DEFINE r == [kind |-> kind, id |-> k, obj |-> o, jobs |-> NoJobs, step |-> "load"]
<1>1. r.id = k /\ r.obj = o /\ r.step = "load"
  OBVIOUS
<1>2. op'[c] = r /\ \A d \in Callers : d # c => op'[d] = op[d]
  BY DEF Begin, CronShape
<1> HIDE DEF r
<1>3. \A d \in Callers : op'[d].step \in Stored => op'[d].jobs[i] \in S \cup {NoJob}
  BY <1>1, <1>2 DEF Copies, Stored
<1>4. ASSUME NEW d \in Callers, op'[d].obj # NoJob, op'[d].id = i PROVE heap'[op'[d].obj] \in S
  <2>1. CASE d = c
    BY <1>1, <1>2, <1>4, <2>1
  <2>2. CASE d # c
    <3>1. op[d].obj \in Obj /\ op[d].obj[1] = i /\ heap[op[d].obj] \in S
      <4>1. op[d].obj # NoJob /\ op[d].id = i
        BY <1>2, <1>4, <2>2
      <4>2. op[d].obj \in Obj /\ op[d].obj[1] = i
        BY <4>1, CallParts
      <4> QED BY <4>1, <4>2 DEF Copies
    <3> QED BY <1>2, <2>2, <3>1
  <2> QED BY <2>1, <2>2
<1>5. ASSUME cronCache # NoCache, cronCache[i] # NoJob PROVE heap'[cronCache[i]] \in S
  <2>1. cronCache[i] \in Obj /\ cronCache[i][1] = i /\ heap[cronCache[i]] \in S
    BY <1>5 DEF CronShape, Copies
  <2> QED BY <2>1
<1> QED BY <1>3, <1>4, <1>5 DEF Copies

\* A call that goes on with a list that may be stored.
LEMMA CopiesGoOn ==
    ASSUME CronShape, NEW i \in JobIds, NEW S, Copies(i, S), NEW c \in Callers, NEW r,
           op' = [op EXCEPT ![c] = r],
           r = Resting \/ (r.id = op[c].id /\ r.obj = op[c].obj /\ r.jobs[i] \in S \cup {NoJob}),
           UNCHANGED <<heap, cronCache>>,
           cronFile' # Torn => cronFile'[i] \in S \cup {NoJob}
    PROVE  Copies(i, S)'
<1>1. op'[c] = r /\ \A d \in Callers : d # c => op'[d] = op[d]
  BY DEF CronShape
<1>2. r = Resting => r.obj = NoJob /\ r.step \notin Stored
  BY DEF Resting, Stored
<1>3. \A d \in Callers : op'[d].step \in Stored => op'[d].jobs[i] \in S \cup {NoJob}
  BY <1>1, <1>2 DEF Copies
<1>4. \A d \in Callers : op'[d].obj # NoJob /\ op'[d].id = i => heap'[op'[d].obj] \in S
  BY <1>1, <1>2 DEF Copies
<1> QED BY <1>3, <1>4 DEF Copies

LEMMA CopiesStore ==
    ASSUME CronShape, CronRefs, NEW i \in JobIds, NEW S, Copies(i, S), NEW c \in Callers,
           Load(c) \/ Truncate(c) \/ WriteText(c) \/ SetCache(c)
    PROVE  Copies(i, S)'
<1>0. op[c].id = i => op[c].kind \in {"add", "update", "remove"}
  <2>1. NoJob \notin JobIds
    BY ReferenceAssumption
  <2>2. op[c] = Resting => op[c].id = NoJob
    BY DEF Resting
  <2>3. /\ op[c].kind \in {"none", "list", "add", "update", "remove"}
        /\ op[c].kind = "none" <=> op[c] = Resting
        /\ op[c].kind = "list" => op[c].id = NoJob
    BY CallParts
  <2> QED BY <2>1, <2>2, <2>3
<1>1. op[c].kind \in {"add", "update"} /\ op[c].id = i => heap[op[c].obj] \in S
  <2>1. op[c].kind \in {"add", "update"} => op[c].obj # NoJob
    BY CallParts, ReferenceAssumption
  <2> QED BY <2>1 DEF Copies
<1>2. CASE Load(c)
  <2>1. Loaded[i] \in S \cup {NoJob}
    BY DEF Loaded, Copies, NoJobs
  <2>2. UNCHANGED <<heap, cronCache, cronFile>> /\ (cronFile # Torn => cronFile[i] \in S \cup {NoJob})
    BY <1>2, LoadIs DEF Copies
  <2>3. CASE op' = [op EXCEPT ![c] = Resting]
    BY <2>2, <2>3, CopiesGoOn
  <2>4. CASE op' # [op EXCEPT ![c] = Resting]
    <3>1. PICK jobs \in JobLists, step \in {"save", "cache"} :
                   /\ op' = [op EXCEPT ![c] = [kind |-> op[c].kind, id |-> op[c].id, obj |-> op[c].obj,
                                               jobs |-> jobs, step |-> step]]
                   /\ \A k \in JobIds : k # op[c].id => jobs[k] = Loaded[k]
                   /\ op[c].kind \in {"add", "update"} => jobs[op[c].id] = heap[op[c].obj]
                   /\ op[c].kind = "remove" => jobs[op[c].id] = NoJob
      BY <1>2, <2>4, LoadIs
    <3>2. jobs[i] \in S \cup {NoJob}
      BY <1>0, <1>1, <2>1, <3>1
    <3> DEFINE r == [kind |-> op[c].kind, id |-> op[c].id, obj |-> op[c].obj, jobs |-> jobs, step |-> step]
    <3>3. r.id = op[c].id /\ r.obj = op[c].obj /\ r.jobs = jobs /\ op' = [op EXCEPT ![c] = r]
      BY <3>1
    <3> HIDE DEF r
    <3> QED BY <2>2, <3>2, <3>3, CopiesGoOn
  <2> QED BY <2>3, <2>4
<1>3. CASE Truncate(c)
  <2>1. /\ op[c].step = "save" /\ UNCHANGED <<heap, cronCache>> /\ cronFile' = Torn
    BY <1>3, TruncateIs
  <2>2. PICK text \in JobLists :
                /\ op' = [op EXCEPT ![c] = [kind |-> op[c].kind, id |-> op[c].id, obj |-> op[c].obj,
                                            jobs |-> text, step |-> "write"]]
                /\ \A k \in JobIds : k # op[c].id => text[k] = op[c].jobs[k]
                /\ op[c].kind \in {"add", "update"} => text[op[c].id] = heap[op[c].obj]
                /\ op[c].kind = "remove" => text[op[c].id] = NoJob
    BY <1>3, TruncateIs
  <2>3. op[c].jobs[i] \in S \cup {NoJob}
    BY <2>1 DEF Copies, Stored
  <2>4. text[i] \in S \cup {NoJob}
    BY <1>0, <1>1, <2>2, <2>3
  <2> DEFINE r == [kind |-> op[c].kind, id |-> op[c].id, obj |-> op[c].obj, jobs |-> text, step |-> "write"]
  <2>5. r.id = op[c].id /\ r.obj = op[c].obj /\ r.jobs = text /\ op' = [op EXCEPT ![c] = r]
    BY <2>2
  <2> HIDE DEF r
  <2> QED BY <2>1, <2>4, <2>5, CopiesGoOn
<1>4. CASE WriteText(c)
  <2> DEFINE r == [kind |-> op[c].kind, id |-> op[c].id, obj |-> op[c].obj, jobs |-> op[c].jobs, step |-> "cache"]
  <2>1. /\ op[c].step = "write" /\ UNCHANGED <<heap, cronCache>> /\ op' = [op EXCEPT ![c] = r]
        /\ cronFile' = op[c].jobs \/ cronFile' = Torn
    BY <1>4, WriteTextIs
  <2>2. op[c].jobs[i] \in S \cup {NoJob}
    BY <2>1 DEF Copies, Stored
  <2>3. r.id = op[c].id /\ r.obj = op[c].obj /\ r.jobs = op[c].jobs
    OBVIOUS
  <2> HIDE DEF r
  <2> QED BY <2>1, <2>2, <2>3, CopiesGoOn
<1>5. CASE SetCache(c)
  <2>1. /\ op[c].step = "cache" /\ op' = [op EXCEPT ![c] = Resting] /\ UNCHANGED cronFile
        /\ cronCache'[i] = NoJob <=> op[c].jobs[i] = NoJob
        /\ i # op[c].id /\ cronCache'[i] # NoJob => heap'[cronCache'[i]] = op[c].jobs[i]
        /\ i = op[c].id /\ cronCache'[i] # NoJob =>
              cronCache'[i] = op[c].obj /\ heap'[cronCache'[i]] = heap[op[c].obj]
        /\ \A d \in Callers \ {c} : op[d].obj # NoJob => heap'[op[d].obj] = heap[op[d].obj]
    BY <1>5, SetCacheIs
  <2>2. op'[c] = Resting /\ \A d \in Callers : d # c => op'[d] = op[d]
    BY <2>1 DEF CronShape
  <2>3. Resting.step \notin Stored /\ Resting.obj = NoJob
    BY DEF Resting, Stored
  <2>4. op[c].jobs[i] \in S \cup {NoJob}
    BY <2>1 DEF Copies, Stored
  <2>5. cronCache'[i] # NoJob => heap'[cronCache'[i]] \in S
    <3>1. cronCache'[i] # NoJob /\ i = op[c].id => cronCache'[i] = op[c].obj /\ op[c].obj # NoJob
      BY <2>1
    <3> QED BY <2>1, <2>4, <3>1 DEF Copies
  <2>6. \A d \in Callers : op'[d].step \in Stored => op'[d].jobs[i] \in S \cup {NoJob}
    BY <2>2, <2>3 DEF Copies
  <2>7. \A d \in Callers : op'[d].obj # NoJob /\ op'[d].id = i => heap'[op'[d].obj] \in S
    BY <2>1, <2>2, <2>3 DEF Copies
  <2> QED BY <2>1, <2>5, <2>6, <2>7 DEF Copies
<1> QED BY <1>2, <1>3, <1>4, <1>5

LEMMA CopiesCrash ==
    ASSUME NEW i, NEW S, cronFile # Torn => cronFile[i] \in S \cup {NoJob}, CronCrash
    PROVE  Copies(i, S)'
<1>1. cronFile' = cronFile /\ cronCache' = NoCache /\ op' = [c \in Callers |-> Resting]
  BY DEF CronCrash
<1>2. \A c \in Callers : op'[c].obj = NoJob /\ op'[c].step = "none"
  BY <1>1 DEF Resting
<1> QED BY <1>1, <1>2 DEF Copies, Stored

\* A call begins, and the object it is about, if any, is the only one that
\* changes: it has its next run computed, or keeps it.
Begins(c, kind, i, o) ==
    /\ Begin(c, kind, i, o) /\ UNCHANGED <<now, cronFile, cronCache, ran>>
    /\ o # NoJob =>
         /\ o \in Obj /\ o[1] = i /\ i \in JobIds /\ heap'[o] \in Jobs
         /\ \/ \E t \in Nat : heap'[o].next = NextRun(i, t, now)
            \/ cronCache # NoCache /\ cronCache[i] = o /\ heap'[o].next = heap[o].next
    /\ \A x \in Obj : x # o => heap'[x] = heap[x]

LEMMA NewObject ==
    ASSUME CronShape, NEW o \in Obj, NEW j, heap' = [heap EXCEPT ![o] = j]
    PROVE  heap'[o] = j /\ \A x \in Obj : x # o => heap'[x] = heap[x]
BY DEF CronShape

LEMMA BeginSteps ==
    ASSUME CronShape, CronRefs,
           \/ WriteBack \/ DropAfterRun
           \/ \E c \in Callers : EnsureCache(c)
           \/ \E c \in Editors, i \in JobIds :
                \/ AddJob(c, i) \/ RemoveJob(c, i) \/ RunJobNow(c, i)
                \/ \E b \in BOOLEAN : SetEnabled(c, i, b)
    PROVE  \E c \in Callers, kind \in {"list", "add", "update", "remove"},
              i \in JobIds \cup {NoJob}, o \in Obj \cup {NoJob} : Begins(c, kind, i, o)
<1>0. now \in Nat
  BY DEF CronShape
<1>1. CASE WriteBack
  <2> DEFINE o == Head(loop.due)
  <2>1. /\ o \in Obj /\ o[1] \in JobIds /\ Begin("loop", "update", o[1], o)
        /\ UNCHANGED <<now, cronFile, cronCache, ran>>
        /\ \E j \in Jobs : /\ heap' = [heap EXCEPT ![o] = j]
                           /\ j.next = NextRun(o[1], now, now)
    BY <1>1, WriteBackIs
  <2> HIDE DEF o
  <2>2. /\ heap'[o] \in Jobs /\ heap'[o].next = NextRun(o[1], now, now)
        /\ \A x \in Obj : x # o => heap'[x] = heap[x]
    BY <2>1, NewObject
  <2>3. Begins("loop", "update", o[1], o)
    BY <1>0, <2>1, <2>2 DEF Begins
  <2> QED BY <2>1, <2>3, CallersFacts
<1>2. CASE DropAfterRun
  <2> DEFINE i == Head(loop.due)[1]
  <2>1. Begin("loop", "remove", i, NoJob) /\ UNCHANGED <<now, cronFile, cronCache, ran, heap>>
    BY <1>2 DEF DropAfterRun, LoopOnly
  <2>2. i \in JobIds
    <3>1. loop.due # <<>>
      BY <1>2 DEF DropAfterRun, LoopFree, CronShape, LoopOK
    <3> QED BY <3>1, DueObject
  <2> HIDE DEF i
  <2>3. Begins("loop", "remove", i, NoJob)
    BY <2>1 DEF Begins
  <2> QED BY <2>2, <2>3, CallersFacts
<1>3. ASSUME NEW c \in Callers, EnsureCache(c)
      PROVE  Begins(c, "list", NoJob, NoJob)
  BY <1>3 DEF EnsureCache, Begins
<1>4. ASSUME NEW c \in Editors, NEW i \in JobIds, AddJob(c, i)
      PROVE  FreshObj(i) \in Obj /\ Begins(c, "add", i, FreshObj(i))
  <2> DEFINE o == FreshObj(i)
             j == [enabled |-> TRUE, next |-> NextRun(i, 0, now), last |-> 0]
  <2>1. /\ Begin(c, "add", i, o) /\ UNCHANGED <<now, cronFile, cronCache, ran>>
        /\ heap' = [heap EXCEPT ![o] = j]
    BY <1>4 DEF AddJob
  <2>2. c \in Callers /\ op[c] = Resting
    BY <2>1, EditorCalls DEF Begin
  <2>3. o \in Obj /\ o[1] = i
    BY <2>2, SlotIsFree DEF Resting
  <2>4. j \in Jobs /\ j.next = NextRun(i, 0, now)
    <3>1. NextRun(i, 0, now) \in Nat
      BY <1>0, NextRunType
    <3> QED BY <3>1 DEF Jobs
  <2> HIDE DEF o, j
  <2>5. heap'[o] = j /\ \A x \in Obj : x # o => heap'[x] = heap[x]
    BY <2>1, <2>3, NewObject
  <2>6. Begins(c, "add", i, o)
    BY <2>1, <2>3, <2>4, <2>5 DEF Begins
  <2> QED BY <2>3, <2>6 DEF o
<1>5. ASSUME NEW c \in Editors, NEW i \in JobIds, RemoveJob(c, i)
      PROVE  Begins(c, "remove", i, NoJob)
  BY <1>5 DEF RemoveJob, Begins
<1>6. ASSUME NEW c \in Editors, NEW i \in JobIds,
             RunJobNow(c, i) \/ \E b \in BOOLEAN : SetEnabled(c, i, b)
      PROVE  cronCache[i] \in Obj /\ Begins(c, "update", i, cronCache[i])
  <2>1. /\ Finds(c, i) /\ Begin(c, "update", i, cronCache[i]) /\ UNCHANGED <<now, cronFile, cronCache, ran>>
        /\ \E j \in Jobs : /\ heap' = [heap EXCEPT ![cronCache[i]] = j]
                           /\ j.next = heap[cronCache[i]].next \/ j.next = NextRun(i, now, now)
    <3>1. CASE RunJobNow(c, i)
      BY <3>1, RunJobNowIs DEF RunJobNow
    <3>2. ASSUME NEW b \in BOOLEAN, SetEnabled(c, i, b)
          PROVE /\ Finds(c, i) /\ Begin(c, "update", i, cronCache[i]) /\ UNCHANGED <<now, cronFile, cronCache, ran>>
                /\ \E j \in Jobs : heap' = [heap EXCEPT ![cronCache[i]] = j] /\ j.next = heap[cronCache[i]].next
      BY <3>2, SetEnabledIs DEF SetEnabled
    <3> QED BY <1>6, <3>1, <3>2
  <2>2. cronCache # NoCache /\ cronCache[i] \in Obj /\ cronCache[i][1] = i
    BY <2>1, CachedObject DEF Finds
  <2>3. /\ heap'[cronCache[i]] \in Jobs
        /\ heap'[cronCache[i]].next = heap[cronCache[i]].next \/ heap'[cronCache[i]].next = NextRun(i, now, now)
        /\ \A x \in Obj : x # cronCache[i] => heap'[x] = heap[x]
    BY <2>1, <2>2, NewObject
  <2> QED BY <1>0, <2>1, <2>2, <2>3 DEF Begins
<1> QED BY <1>1, <1>2, <1>3, <1>4, <1>5, <1>6, EditorCalls

AtJob(i) == Schedule[i].kind = "at"
Timely(i) == {j \in Jobs : j.next \in {0, Schedule[i].n}}
Spent == {j \in Jobs : j.next = 0}
Off == {j \in Jobs : ~j.enabled}

\* A job with a time is due at that time, or has none any more.
AtTimes == \A i \in JobIds : AtJob(i) => Copies(i, Timely(i))

\* The jobs of a tick were added; those with a time have not run yet, but for
\* the one the tick is at.
DueSound ==
    \A k \in 1 .. Len(loop.due) :
        LET i == loop.due[k][1] IN
        /\ fate[i] \in {"added", "removed"}
        /\ AtJob(i) => /\ Schedule[i].n <= now
                       /\ ran[i] = 0 \/ (k = 1 /\ loop.at \in {"ran", "stored", "dropped"})

\* The tick has run i and not stored it yet.
InHand(i) ==
    /\ loop.due # <<>> /\ Head(loop.due)[1] = i
    /\ \/ loop.at = "ran"
       \/ /\ loop.at = "stored" /\ op["loop"] # Resting
          /\ heap[op["loop"].obj] \in Spent
          /\ op["loop"].step \in Stored => op["loop"].jobs[i] \in Spent

\* A job with a time ran at most once; then its time is over everywhere.
RanOnce ==
    \A i \in JobIds : AtJob(i) =>
        \/ ran[i] = 0
        \/ /\ ran[i] = 1 /\ Schedule[i].n <= now /\ fate[i] \in {"added", "removed"}
           /\ Copies(i, Spent) \/ InHand(i)

\* A job that was switched off is off everywhere and not due.
OffRests ==
    \A i \in JobIds : want[i] = "off" =>
        /\ Copies(i, Off) /\ fate[i] \in {"added", "removed"}
        /\ \A k \in 1 .. Len(loop.due) : loop.due[k][1] # i

CronJobsInv == AtTimes /\ DueSound /\ RanOnce /\ OffRests

LEMMA AtNext ==
    ASSUME NEW i \in JobIds, AtJob(i), NEW last
    PROVE  /\ Schedule[i].n \in Nat \ {0}
           /\ NextRun(i, last, now) = IF Schedule[i].n > now THEN Schedule[i].n ELSE 0
BY CronAssumption DEF CronAssumption, AtJob, NextRun

\* A call that begins leaves job i among S, if S has what a next run can be.
LEMMA BeginsCopies ==
    ASSUME CronShape, NEW i \in JobIds, NEW S, Copies(i, S),
           NEW c \in Callers, NEW kind, NEW k \in JobIds \cup {NoJob}, NEW o \in Obj \cup {NoJob},
           Begins(c, kind, k, o),
           \A j \in Jobs : (\E t \in Nat : j.next = NextRun(i, t, now)) => j \in S,
           \A j \in Jobs, l \in S : j.next = l.next => j \in S
    PROVE  Copies(i, S)'
<1>1. o # NoJob /\ k = i => heap'[o] \in S
  <2> SUFFICES ASSUME o # NoJob, k = i PROVE heap'[o] \in S
    OBVIOUS
  <2>1. /\ heap'[o] \in Jobs
        /\ \/ \E t \in Nat : heap'[o].next = NextRun(i, t, now)
           \/ cronCache # NoCache /\ cronCache[i] = o /\ heap'[o].next = heap[o].next
    BY DEF Begins
  <2>2. CASE \E t \in Nat : heap'[o].next = NextRun(i, t, now)
    BY <2>1, <2>2
  <2>3. CASE cronCache # NoCache /\ cronCache[i] = o /\ heap'[o].next = heap[o].next
    <3>1. heap[o] \in S
      BY <2>3 DEF Copies
    <3> QED BY <2>1, <2>3, <3>1
  <2> QED BY <2>1, <2>2, <2>3
<1>2. \A x \in Obj : x[1] = i => heap'[x] = heap[x] \/ heap'[x] \in S
  <2> SUFFICES ASSUME NEW x \in Obj, x[1] = i, heap'[x] # heap[x] PROVE heap'[x] \in S
    OBVIOUS
  <2>1. x = o
    BY DEF Begins
  <2>2. o # NoJob /\ k = i
    BY <2>1, ReferenceAssumption DEF Begins
  <2> QED BY <1>1, <2>1, <2>2
<1>3. Begin(c, kind, k, o) /\ UNCHANGED <<cronFile, cronCache>>
  BY DEF Begins
<1> QED BY <1>1, <1>2, <1>3, CopiesBegin

LEMMA AtTimesStep ==
    ASSUME CronShape, CronRefs, AtTimes, [CronNext]_cronVars, orderly'
    PROVE  AtTimes'
<1> SUFFICES ASSUME NEW i \in JobIds, AtJob(i) PROVE Copies(i, Timely(i))'
  BY DEF AtTimes, AtJob, Timely
<1>0. Copies(i, Timely(i))
  BY DEF AtTimes
<1> DEFINE S == Timely(i)
<1>s. /\ \A j \in Jobs : (\E t \in Nat : j.next = NextRun(i, t, now)) => j \in S
      /\ \A j \in Jobs, l \in S : j.next = l.next => j \in S
  BY AtNext DEF Timely
<1> HIDE DEF S
<1>1. Copies(i, S)
  BY <1>0 DEF S
<1>2. Copies(i, S)'
  <2>1. CASE QuietStep
    BY <1>1, <2>1, QuietStepKeeps, CopiesStay
  <2>2. CASE CronCrash
    BY <1>1, <2>2, CopiesCrash DEF Copies
  <2>3. ASSUME NEW c \in Callers, StoreStep(c) PROVE Copies(i, S)'
    <3>1. ~WriteFails(c)
      BY DEF WriteFails
    <3> QED BY <1>1, <2>3, <3>1, CopiesStore DEF StoreStep
  <2>4. CASE \/ WriteBack \/ DropAfterRun
             \/ \E c \in Callers : EnsureCache(c)
             \/ \E c \in Editors, k \in JobIds :
                  \/ AddJob(c, k) \/ RemoveJob(c, k) \/ RunJobNow(c, k)
                  \/ \E b \in BOOLEAN : SetEnabled(c, k, b)
    <3>1. PICK c \in Callers, kind \in {"list", "add", "update", "remove"},
                k \in JobIds \cup {NoJob}, o \in Obj \cup {NoJob} : Begins(c, kind, k, o)
      BY <2>4, BeginSteps
    <3> QED BY <1>1, <1>s, <3>1, BeginsCopies
  <2> QED BY <2>1, <2>2, <2>3, <2>4, CronSteps
<1> QED BY <1>2 DEF S, Timely, Copies

\* A due job: its time has come, and it has one.
LEMMA DueIs ==
    ASSUME CronShape, CronRefs, NEW i \in JobIds, AtJob(i), Due(i), cronCache # NoCache
    PROVE  LET j == heap[cronCache[i]] IN
           j \in Jobs /\ j.enabled /\ j.next # 0 /\ j.next <= now
<1> DEFINE j == heap[cronCache[i]]
<1>1. cronCache[i] # NoJob /\ j.enabled /\ WakeOf(j, i) \in 1 .. now
  BY DEF Due
<1>2. j \in Jobs
  BY <1>1, CachedObject
<1>3. WakeOf(j, i) = IF j.next # 0 THEN j.next ELSE NextRun(i, j.last, now)
  BY DEF WakeOf
<1> HIDE DEF j
<1>4. NextRun(i, j.last, now) \notin 1 .. now
  BY AtNext DEF CronShape
<1>5. now \in Nat /\ j.next \in Nat
  BY <1>2 DEF CronShape, Jobs
<1> QED BY <1>1, <1>2, <1>3, <1>4, <1>5 DEF j

LEMMA FateStays ==
    ASSUME CronShape, CronRefs, CronHistory, [CronNext]_cronVars,
           NEW i \in JobIds, fate[i] \in {"added", "removed"}
    PROVE  fate'[i] \in {"added", "removed"}
<1>1. CASE QuietStep
  BY <1>1, QuietStepKeeps
<1>2. CASE WriteBack \/ DropAfterRun \/ (\E c \in Callers : EnsureCache(c))
  BY <1>2 DEF WriteBack, DropAfterRun, EnsureCache, LoopOnly
<1>3. CASE CronCrash
  BY <1>3 DEF CronCrash
<1>4. ASSUME NEW c \in Callers, StoreStep(c) PROVE fate'[i] \in {"added", "removed"}
  <2>1. CASE WriteText(c)
    <3>1. fate' = fate \/ fate' = [fate EXCEPT ![op[c].id] = "added"]
            \/ fate' = [fate EXCEPT ![op[c].id] = "removed"]
      BY <2>1 DEF WriteText
    <3> QED BY <3>1 DEF CronHistory
  <2>2. CASE ~WriteText(c)
    BY <1>4, <2>2 DEF StoreStep, Load, Truncate, SetCache, WriteFails
  <2> QED BY <2>1, <2>2
<1>5. ASSUME NEW c \in Editors, NEW k \in JobIds,
             AddJob(c, k) \/ RemoveJob(c, k) \/ RunJobNow(c, k) \/ \E b \in BOOLEAN : SetEnabled(c, k, b)
      PROVE  fate'[i] \in {"added", "removed"}
  BY <1>5 DEF AddJob, RemoveJob, RunJobNow, SetEnabled, CronHistory
<1> QED BY <1>1, <1>2, <1>3, <1>4, <1>5, CronSteps

LEMMA NowGrows ==
    ASSUME CronShape, [CronNext]_cronVars
    PROVE  now \in Nat /\ now' \in Nat /\ now' >= now
<1>1. now \in Nat
  BY DEF CronShape
<1>2. now' = now \/ now' = now + 1
  BY DEF CronNext, LoopStep, Arm, Snapshot, Execute, WriteBack, DropAfterRun, NextDue, Rested, EnsureCache,
         LoopOnly, TimePasses, CronCrash, StoreStep, Load, Truncate, WriteText, SetCache, WriteFails,
         AddJob, RemoveJob, RunJobNow, SetEnabled, cronVars
<1> QED BY <1>1, <1>2

LEMMA DueJobs ==
    ASSUME CronShape, NEW k \in 1 .. Len(loop.due)
    PROVE  loop.due[k] \in Obj /\ loop.due[k][1] \in JobIds
BY DEF CronShape, LoopOK, Obj

LEMMA DueStays ==
    ASSUME CronShape, CronRefs, CronHistory, DueSound, [CronNext]_cronVars,
           loop'.due = loop.due, UNCHANGED ran,
           loop.at \in {"ran", "stored", "dropped"} => loop'.at \in {"ran", "stored", "dropped"}
    PROVE  DueSound'
<1> SUFFICES ASSUME NEW k \in 1 .. Len(loop.due)
             PROVE  LET i == loop.due[k][1] IN
                    /\ fate'[i] \in {"added", "removed"}
                    /\ AtJob(i) => /\ Schedule[i].n <= now'
                                   /\ ran[i] = 0 \/ (k = 1 /\ loop'.at \in {"ran", "stored", "dropped"})
  BY DEF DueSound, AtJob
<1> DEFINE i == loop.due[k][1]
<1>1. i \in JobIds
  BY DueJobs
<1>2. /\ fate[i] \in {"added", "removed"}
      /\ AtJob(i) => /\ Schedule[i].n <= now
                     /\ ran[i] = 0 \/ (k = 1 /\ loop.at \in {"ran", "stored", "dropped"})
  BY DEF DueSound
<1> HIDE DEF i
<1>3. fate'[i] \in {"added", "removed"}
  BY <1>1, <1>2, FateStays
<1>4. AtJob(i) => Schedule[i].n \in Nat
  BY <1>1, AtNext
<1>5. AtJob(i) => Schedule[i].n <= now'
  BY <1>2, <1>4, NowGrows
<1> QED BY <1>2, <1>3, <1>5 DEF i

\* Nothing is in hand while no tick runs, so whatever ran is over.
LEMMA OverAtRest ==
    ASSUME CronShape, RanOnce, loop.due = <<>>, NEW i \in JobIds, AtJob(i), ran[i] # 0
    PROVE  Copies(i, Spent)
BY DEF RanOnce, InHand

LEMMA SnapshotDue ==
    ASSUME CronShape, CronRefs, CronHistory, CronStored, CronJobsInv, Snapshot
    PROVE  DueSound'
<1>1. /\ loop.at = "sleep" /\ op["loop"] = Resting /\ loop.due = <<>>
      /\ UNCHANGED <<now, fate, ran>>
  BY SnapshotIs
<1>2. CASE loop' = [loop EXCEPT !.at = "arm"]
  <2>1. loop'.due = <<>>
    BY <1>1, <1>2, LoopRecord
  <2> QED BY <2>1, EmptySeq DEF DueSound
<1>3. CASE loop' # [loop EXCEPT !.at = "arm"]
  <2>1. PICK seq \in Seq(Obj) :
                   /\ seq # <<>> /\ loop' = [loop EXCEPT !.at = "run", !.due = seq]
                   /\ \A k \in 1 .. Len(seq) :
                        /\ seq[k][1] \in JobIds /\ Due(seq[k][1]) /\ seq[k] = cronCache[seq[k][1]]
    BY <1>3, SnapshotIs
  <2>2. loop'.due = seq
    BY <2>1, LoopRecord
  <2>3. ASSUME NEW k \in 1 .. Len(seq)
        PROVE  LET i == seq[k][1] IN
               /\ fate[i] \in {"added", "removed"}
               /\ AtJob(i) => Schedule[i].n <= now /\ ran[i] = 0
    <3> DEFINE i == seq[k][1]
    <3>1. i \in JobIds /\ Due(i) /\ cronCache # NoCache /\ cronCache[i] # NoJob
      BY <1>1, <2>1 DEF CronShape, Due
    <3> HIDE DEF i
    <3>2. fate[i] \in {"added", "removed"}
      <4>1. CASE \A c \in Callers : ~(op[c].id = i /\ op[c].step = "cache")
        BY <3>1, <4>1 DEF CronStored, CacheKnows
      <4>2. ASSUME NEW c \in Callers, op[c].id = i, op[c].step = "cache" PROVE fate[i] \in {"added", "removed"}
        \* The cache still has a job that was removed; a job that is added is not there yet.
        <5>1. cronFile = op[c].jobs /\ op[c].jobs \in JobLists
          BY <4>2, CallParts DEF CronStored, ListsAgree
        <5>2. cronFile # Torn
          BY <5>1, ReferenceAssumption
        <5>3. CASE op[c].kind = "remove"
          BY <4>2, <5>3 DEF CronStored, ListsAgree
        <5>4. CASE op[c].kind \in {"add", "update"}
          <6>1. cronFile[i] # NoJob
            BY <4>2, <5>1, <5>4, CallParts
          <6> QED BY <3>1, <5>2, <6>1 DEF CronStored, FileAgrees
        <5>5. op[c].kind \in {"remove", "add", "update"}
          <6>1. NoJob \notin JobIds
            BY ReferenceAssumption
          <6> QED BY <3>1, <4>2, <6>1, CallParts
        <5> QED BY <5>3, <5>4, <5>5
      <4> QED BY <4>1, <4>2
    <3>3. AtJob(i) => Schedule[i].n <= now /\ ran[i] = 0
      <4> SUFFICES ASSUME AtJob(i) PROVE Schedule[i].n <= now /\ ran[i] = 0
        OBVIOUS
      <4> DEFINE j == heap[cronCache[i]]
      <4>1. j.next # 0 /\ j.next <= now
        BY <3>1, DueIs
      <4>2. j \in Timely(i)
        BY <3>1 DEF CronJobsInv, AtTimes, Copies
      <4>3. j.next = Schedule[i].n
        BY <4>1, <4>2 DEF Timely
      <4>4. ASSUME ran[i] # 0 PROVE FALSE
        <5>1. Copies(i, Spent)
          BY <1>1, <3>1, <4>4, OverAtRest DEF CronJobsInv
        <5> QED BY <3>1, <4>1, <5>1 DEF Copies, Spent
      <4> HIDE DEF j
      <4> QED BY <4>1, <4>3, <4>4
    <3> QED BY <3>2, <3>3 DEF i
  <2> QED BY <1>1, <2>2, <2>3 DEF DueSound, AtJob
<1> QED BY <1>2, <1>3

LEMMA DueSoundStep ==
    ASSUME CronShape, CronRefs, CronHistory, CronStored, CronJobsInv, [CronNext]_cronVars, orderly'
    PROVE  DueSound'
<1>0. DueSound /\ LoopOK
  BY DEF CronJobsInv, CronShape
<1>1. CASE Arm \/ Rested
  <2>1. loop'.due = loop.due /\ UNCHANGED ran /\ loop.at \in {"arm", "rest"}
    BY <1>1, LoopRecord DEF Arm, Rested, LoopFree
  <2> QED BY <1>0, <2>1, DueStays
<1>2. CASE Snapshot
  BY <1>2, SnapshotDue
<1>3. CASE Execute
  <2>1. /\ loop.at = "run" /\ loop'.at = "ran" /\ loop'.due = loop.due /\ UNCHANGED <<fate, now>>
        /\ ran' = [ran EXCEPT ![Head(loop.due)[1]] = @ + 1] /\ loop.due # <<>>
    BY <1>3, LoopRecord DEF Execute, LoopFree, LoopOnly, LoopOK
  <2>2. Head(loop.due) = loop.due[1] /\ 1 \in 1 .. Len(loop.due)
    BY <2>1, DueObject
  <2>3. \A k \in 1 .. Len(loop.due) : k # 1 => ran'[loop.due[k][1]] = ran[loop.due[k][1]]
    <3> SUFFICES ASSUME NEW k \in 1 .. Len(loop.due), k # 1
                 PROVE  ran'[loop.due[k][1]] = ran[loop.due[k][1]]
      OBVIOUS
    <3>1. loop.due[k][1] # loop.due[1][1]
      BY <1>0, <2>2 DEF LoopOK
    <3>2. loop.due[k][1] \in JobIds
      BY DueJobs
    <3> QED BY <2>1, <2>2, <3>1, <3>2 DEF CronHistory
  <2> QED BY <1>0, <2>1, <2>3 DEF DueSound, AtJob
<1>4. CASE NextDue
  <2>1. /\ loop.due # <<>> /\ loop'.due = Tail(loop.due) /\ UNCHANGED <<fate, now, ran>>
    BY <1>0, <1>4, LoopRecord DEF NextDue, LoopFree, LoopOnly, LoopOK
  <2>2. \A k \in 1 .. Len(loop'.due) :
           k + 1 \in 1 .. Len(loop.due) /\ k + 1 # 1 /\ loop'.due[k] = loop.due[k + 1]
    BY <2>1, DueTail
  <2>3. ASSUME NEW k \in 1 .. Len(loop'.due)
        PROVE  LET i == loop'.due[k][1] IN
               fate[i] \in {"added", "removed"} /\ (AtJob(i) => Schedule[i].n <= now /\ ran[i] = 0)
    BY <1>0, <2>2 DEF DueSound
  <2> QED BY <2>1, <2>3 DEF DueSound, AtJob
<1>5. CASE TimePasses \/ UNCHANGED cronVars \/ (\E c \in Callers : EnsureCache(c))
  <2>1. loop' = loop /\ UNCHANGED ran
    BY <1>5 DEF TimePasses, cronVars, EnsureCache
  <2> QED BY <1>0, <2>1, DueStays
<1>6. CASE WriteBack \/ DropAfterRun
  <2>1. loop'.due = loop.due /\ UNCHANGED ran /\ loop'.at \in {"stored", "dropped"}
    BY <1>6, LoopRecord DEF WriteBack, DropAfterRun
  <2> QED BY <1>0, <2>1, DueStays
<1>7. CASE CronCrash
  <2>1. loop'.due = <<>>
    BY <1>7 DEF CronCrash
  <2> QED BY <2>1, EmptySeq DEF DueSound
<1>8. ASSUME NEW c \in Callers, StoreStep(c) PROVE DueSound'
  <2>1. loop' = loop /\ UNCHANGED ran
    BY <1>8 DEF StoreStep, Load, Truncate, WriteText, SetCache, WriteFails
  <2> QED BY <1>0, <2>1, DueStays
<1>9. ASSUME NEW c \in Editors, NEW k \in JobIds,
             AddJob(c, k) \/ RemoveJob(c, k) \/ RunJobNow(c, k) \/ \E b \in BOOLEAN : SetEnabled(c, k, b)
      PROVE  DueSound'
  <2>1. loop' = loop /\ UNCHANGED ran
    BY <1>9 DEF AddJob, RemoveJob, RunJobNow, SetEnabled
  <2> QED BY <1>0, <2>1, DueStays
<1> QED BY <1>1, <1>2, <1>3, <1>4, <1>5, <1>6, <1>7, <1>8, <1>9, CronSteps DEF QuietStep

\* A job whose time is over everywhere does not get another one.
LEMMA SpentStays ==
    ASSUME CronShape, CronRefs, NEW i \in JobIds, AtJob(i), Schedule[i].n <= now,
           Copies(i, Spent), [CronNext]_cronVars, orderly'
    PROVE  Copies(i, Spent)'
<1> DEFINE S == Spent
<1>1. /\ \A j \in Jobs : (\E t \in Nat : j.next = NextRun(i, t, now)) => j \in S
      /\ \A j \in Jobs, l \in S : j.next = l.next => j \in S
  <2>1. \A t : NextRun(i, t, now) = 0
    BY AtNext DEF CronShape
  <2> QED BY <2>1 DEF Spent
<1>2. Copies(i, S)
  OBVIOUS
<1> HIDE DEF S
<1>3. Copies(i, S)'
  <2>1. CASE QuietStep
    BY <1>2, <2>1, QuietStepKeeps, CopiesStay
  <2>2. CASE CronCrash
    BY <1>2, <2>2, CopiesCrash DEF Copies
  <2>3. ASSUME NEW c \in Callers, StoreStep(c) PROVE Copies(i, S)'
    <3>1. ~WriteFails(c)
      BY DEF WriteFails
    <3> QED BY <1>2, <2>3, <3>1, CopiesStore DEF StoreStep
  <2>4. CASE \/ WriteBack \/ DropAfterRun
             \/ \E c \in Callers : EnsureCache(c)
             \/ \E c \in Editors, k \in JobIds :
                  \/ AddJob(c, k) \/ RemoveJob(c, k) \/ RunJobNow(c, k)
                  \/ \E b \in BOOLEAN : SetEnabled(c, k, b)
    <3>1. PICK c \in Callers, kind \in {"list", "add", "update", "remove"},
                k \in JobIds \cup {NoJob}, o \in Obj \cup {NoJob} : Begins(c, kind, k, o)
      BY <2>4, BeginSteps
    <3> QED BY <1>1, <1>2, <3>1, BeginsCopies
  <2> QED BY <2>1, <2>2, <2>3, <2>4, CronSteps
<1> QED BY <1>3 DEF S, Spent, Copies

\* Steps that leave the loop alone.
LEMMA LoopAlone ==
    ASSUME \/ TimePasses \/ UNCHANGED cronVars
           \/ \E c \in Callers : EnsureCache(c) \/ (StoreStep(c) /\ ~WriteFails(c))
           \/ \E c \in Editors, i \in JobIds :
                \/ AddJob(c, i) \/ RemoveJob(c, i) \/ RunJobNow(c, i)
                \/ \E b \in BOOLEAN : SetEnabled(c, i, b)
    PROVE  loop' = loop
BY DEF TimePasses, cronVars, EnsureCache, StoreStep, Load, Truncate, WriteText, SetCache,
       AddJob, RemoveJob, RunJobNow, SetEnabled

\* A job that has just run is written back before anything else is done with it.
LEMMA RanInHand ==
    ASSUME CronShape, CronRefs, NEW i \in JobIds, AtJob(i), Schedule[i].n <= now,
           loop.at = "ran", loop.due # <<>>, Head(loop.due)[1] = i,
           [CronNext]_cronVars, orderly'
    PROVE  InHand(i)'
<1>1. CASE WriteBack
  <2> DEFINE o == Head(loop.due)
  <2>1. /\ o \in Obj /\ Begin("loop", "update", i, o) /\ loop' = [loop EXCEPT !.at = "stored"]
        /\ \E j \in Jobs : heap' = [heap EXCEPT ![o] = j] /\ j.next = NextRun(i, now, now)
    BY <1>1, WriteBackIs
  <2>2. loop'.at = "stored" /\ loop'.due = loop.due
    BY <2>1, LoopRecord
  <2>3. NextRun(i, now, now) = 0
    BY AtNext DEF CronShape
  <2> DEFINE r == [kind |-> "update", id |-> i, obj |-> o, jobs |-> NoJobs, step |-> "load"]
  <2>4. r.obj = o /\ r.step = "load" /\ r # Resting
    BY DEF Resting
  <2>5. op'["loop"] = r
    BY <2>1, CallersFacts DEF Begin, CronShape
  <2> HIDE DEF r
  <2>6. heap'[o] \in Spent
    BY <2>1, <2>3, NewObject DEF Spent
  <2> HIDE DEF o
  <2>7. loop'.due # <<>> /\ Head(loop'.due)[1] = i
    BY <2>2
  <2> QED BY <2>2, <2>4, <2>5, <2>6, <2>7 DEF InHand, Stored
<1>2. CASE TimePasses \/ UNCHANGED cronVars
  BY <1>2, LoopAlone DEF InHand
<1>3. ~Arm /\ ~Snapshot /\ ~Execute /\ ~NextDue /\ ~Rested /\ ~DropAfterRun /\ ~CronCrash
  BY DEF Arm, Snapshot, Execute, NextDue, Rested, DropAfterRun, LoopFree, CronCrash
<1>4. ASSUME NEW c \in Callers, EnsureCache(c) \/ StoreStep(c) PROVE InHand(i)'
  <2>1. ~WriteFails(c)
    BY DEF WriteFails
  <2> QED BY <1>4, <2>1, LoopAlone DEF InHand
<1>5. CASE \E c \in Editors, k \in JobIds :
             \/ AddJob(c, k) \/ RemoveJob(c, k) \/ RunJobNow(c, k)
             \/ \E b \in BOOLEAN : SetEnabled(c, k, b)
  BY <1>5, LoopAlone DEF InHand
<1> QED BY <1>1, <1>2, <1>3, <1>4, <1>5, CronSteps DEF QuietStep

\* The store call of the tick takes it to the file and to the cache.
LEMMA StoredInHand ==
    ASSUME CronShape, CronRefs, CronStored, NEW i \in JobIds,
           loop.at = "stored", InHand(i), [CronNext]_cronVars, orderly'
    PROVE  Copies(i, Spent)' \/ InHand(i)'
<1> DEFINE c == "loop"
<1>0. c \in Callers /\ loop.due # <<>> /\ Head(loop.due)[1] = i /\ Head(loop.due) \in Obj
  BY CallersFacts, DueObject DEF InHand
<1>1. /\ op[c] # Resting /\ op[c].kind = "update" /\ op[c].obj = Head(loop.due) /\ op[c].id = i
      /\ heap[op[c].obj] \in Spent /\ op[c].step # "none"
      /\ op[c].step \in Stored => op[c].jobs[i] \in Spent
  <2>1. op[c] # Resting /\ heap[op[c].obj] \in Spent /\ (op[c].step \in Stored => op[c].jobs[i] \in Spent)
    BY DEF InHand
  <2>2. op[c].kind = "update" /\ op[c].obj = Head(loop.due)
    BY <2>1 DEF CronShape, LoopOK
  <2> QED BY <1>0, <2>1, <2>2, CallParts
<1>2. \A d \in Callers : d # c => op[d] = Resting
  BY <1>0, <1>1, OneCall DEF CronStored
<1>3. ASSUME NEW r, op' = [op EXCEPT ![c] = r], loop' = loop, heap' = heap,
             r.obj = op[c].obj, r # Resting, r.jobs[i] \in Spent
      PROVE  InHand(i)'
  <2>1. op'[c] = r
    BY <1>0, <1>3 DEF CronShape
  <2>2. loop'.due # <<>> /\ Head(loop'.due)[1] = i /\ loop'.at = "stored"
    BY <1>0, <1>3
  <2>3. heap'[op'[c].obj] \in Spent /\ op'[c].jobs[i] \in Spent
    BY <1>1, <1>3, <2>1
  <2> QED BY <1>3, <2>1, <2>2, <2>3 DEF InHand
<1>4. ASSUME op' = [op EXCEPT ![c] = Resting],
             cronFile' # Torn => cronFile'[i] \in Spent \cup {NoJob},
             cronCache' # NoCache /\ cronCache'[i] # NoJob => heap'[cronCache'[i]] \in Spent
      PROVE  Copies(i, Spent)'
  <2>1. \A d \in Callers : op'[d] = Resting
    BY <1>2, <1>4 DEF CronShape
  <2>2. \A d \in Callers : op'[d].obj = NoJob /\ op'[d].step \notin Stored
    BY <2>1 DEF Resting, Stored
  <2>3. Spent' = Spent
    BY DEF Spent
  <2> QED BY <1>4, <2>2, <2>3 DEF Copies
<1>5. CASE Load(c)
  <2>1. op[c].step = "load" /\ UNCHANGED <<cronFile, heap, cronCache, loop>>
    BY <1>0, <1>5, LoadIs
  <2>2. CASE op' = [op EXCEPT ![c] = Resting] /\ Loaded[op[c].id] = NoJob
    <3>1. cronFile # Torn /\ cronFile[i] = NoJob
      <4>1. \A d \in Callers : op[d].step # "write"
        BY <1>2, <2>1 DEF Resting
      <4> QED BY <1>1, <2>2, <4>1 DEF CronStored, FileWhole, Loaded
    <3>2. \A d \in Callers : op[d].step # "cache"
      BY <1>2, <2>1 DEF Resting
    <3>3. cronCache # NoCache => cronCache[i] = NoJob
      BY <3>1, <3>2 DEF CronStored, FileAgrees, CacheKnows
    <3> QED BY <1>4, <2>1, <2>2, <3>1, <3>3
  <2>3. CASE ~(op' = [op EXCEPT ![c] = Resting] /\ Loaded[op[c].id] = NoJob)
    <3>1. PICK jobs \in JobLists, step \in {"save", "cache"} :
                   /\ op' = [op EXCEPT ![c] = [kind |-> op[c].kind, id |-> op[c].id, obj |-> op[c].obj,
                                               jobs |-> jobs, step |-> step]]
                   /\ op[c].kind \in {"add", "update"} => jobs[op[c].id] = heap[op[c].obj]
      BY <1>0, <1>5, <2>3, LoadIs
    <3> DEFINE r == [kind |-> op[c].kind, id |-> op[c].id, obj |-> op[c].obj, jobs |-> jobs, step |-> step]
    <3>2. r.obj = op[c].obj /\ r.jobs[i] \in Spent /\ op' = [op EXCEPT ![c] = r] /\ r # Resting
      BY <1>1, <3>1 DEF Resting
    <3> HIDE DEF r
    <3> QED BY <1>3, <2>1, <3>2
  <2> QED BY <2>2, <2>3
<1>6. CASE Truncate(c)
  <2>1. UNCHANGED <<heap, loop>>
    BY <1>0, <1>6, TruncateIs
  <2>2. PICK text \in JobLists :
                /\ op' = [op EXCEPT ![c] = [kind |-> op[c].kind, id |-> op[c].id, obj |-> op[c].obj,
                                            jobs |-> text, step |-> "write"]]
                /\ op[c].kind \in {"add", "update"} => text[op[c].id] = heap[op[c].obj]
    BY <1>0, <1>6, TruncateIs
  <2> DEFINE r == [kind |-> op[c].kind, id |-> op[c].id, obj |-> op[c].obj, jobs |-> text, step |-> "write"]
  <2>3. r.obj = op[c].obj /\ r.jobs[i] \in Spent /\ op' = [op EXCEPT ![c] = r] /\ r # Resting
    BY <1>1, <2>2 DEF Resting
  <2> HIDE DEF r
  <2> QED BY <1>3, <2>1, <2>3
<1>7. CASE WriteText(c)
  <2> DEFINE r == [kind |-> op[c].kind, id |-> op[c].id, obj |-> op[c].obj, jobs |-> op[c].jobs, step |-> "cache"]
  <2>1. op[c].step = "write" /\ UNCHANGED <<heap, loop>> /\ op' = [op EXCEPT ![c] = r]
    BY <1>0, <1>7, WriteTextIs
  <2>2. r.obj = op[c].obj /\ r.jobs[i] \in Spent /\ r # Resting
    BY <1>1, <2>1 DEF Resting, Stored
  <2> HIDE DEF r
  <2> QED BY <1>3, <2>1, <2>2
<1>8. CASE SetCache(c)
  <2>1. /\ op[c].step = "cache" /\ op' = [op EXCEPT ![c] = Resting] /\ UNCHANGED cronFile
        /\ cronCache'[i] # NoJob => cronCache'[i] = op[c].obj /\ heap'[cronCache'[i]] = heap[op[c].obj]
    BY <1>0, <1>1, <1>8, SetCacheIs
  <2>2. cronFile = op[c].jobs
    BY <1>0, <2>1 DEF CronStored, ListsAgree
  <2>3. cronFile[i] \in Spent
    BY <1>1, <2>1, <2>2 DEF Stored
  <2> QED BY <1>1, <1>4, <2>1, <2>3
<1>9. CASE CronCrash
  <2>1. cronFile # Torn /\ op[c].step \notin {"load", "save"}
    BY <1>9 DEF CronCrash
  <2>2. op[c].step = "cache"
    <3>1. op[c].step # "write"
      BY <1>0, <2>1 DEF CronStored, FileWhole
    <3> QED BY <1>0, <1>1, <2>1, <3>1, CallParts
  <2>3. cronFile = op[c].jobs
    BY <1>0, <2>2 DEF CronStored, ListsAgree
  <2>4. cronFile[i] \in Spent
    BY <1>1, <2>2, <2>3 DEF Stored
  <2>5. Copies(i, Spent)'
    <3> DEFINE S == Spent
    <3>1. cronFile[i] \in S
      BY <2>4
    <3> HIDE DEF S
    <3>2. Copies(i, S)'
      BY <1>9, <3>1, CopiesCrash
    <3> QED BY <3>2 DEF S, Spent, Copies
  <2> QED BY <2>5
<1>10. CASE UNCHANGED cronVars
  BY <1>10, <1>0, <1>1 DEF cronVars, InHand
<1>11. /\ ~Arm /\ ~Snapshot /\ ~Execute /\ ~NextDue /\ ~Rested /\ ~DropAfterRun /\ ~WriteBack /\ ~TimePasses
  BY <1>1 DEF Arm, Snapshot, Execute, NextDue, Rested, DropAfterRun, WriteBack, LoopFree, TimePasses
<1>12. ~Quiet
  BY <1>0, <1>1 DEF Quiet
<1>13. \A d \in Callers : ~EnsureCache(d) /\ (StoreStep(d) => d = c) /\ ~WriteFails(d)
  <2>1. \A d \in Callers : StoreStep(d) => op[d].step # "none"
    BY DEF StoreStep, Load, Truncate, WriteText, SetCache, WriteFails
  <2>2. \A d \in Callers : op[d] = Resting => op[d].step = "none"
    BY DEF Resting
  <2> QED BY <1>2, <1>12, <2>1, <2>2 DEF EnsureCache, Begin, WriteFails
<1>14. \A d \in Editors, k \in JobIds :
         /\ ~AddJob(d, k) /\ ~RemoveJob(d, k) /\ ~RunJobNow(d, k)
         /\ \A b \in BOOLEAN : ~SetEnabled(d, k, b)
  BY <1>12 DEF AddJob, RemoveJob, RunJobNow, SetEnabled, Begin
<1> HIDE DEF c
<1> QED BY <1>5, <1>6, <1>7, <1>8, <1>9, <1>10, <1>11, <1>13, <1>14, CronSteps DEF QuietStep, StoreStep

LEMMA RanOnceStep ==
    ASSUME CronShape, CronRefs, CronHistory, CronStored, CronJobsInv, [CronNext]_cronVars, orderly'
    PROVE  RanOnce'
<1> SUFFICES ASSUME NEW i \in JobIds, AtJob(i)
             PROVE  \/ ran'[i] = 0
                    \/ /\ ran'[i] = 1 /\ Schedule[i].n <= now' /\ fate'[i] \in {"added", "removed"}
                       /\ Copies(i, Spent)' \/ InHand(i)'
  BY DEF RanOnce, AtJob
<1>0. DueSound /\ RanOnce
  BY DEF CronJobsInv
<1>1. CASE Execute
  <2>1. /\ loop.at = "run" /\ loop'.at = "ran" /\ loop'.due = loop.due /\ UNCHANGED <<fate, now, cronFile, heap, cronCache, op>>
        /\ ran' = [ran EXCEPT ![Head(loop.due)[1]] = @ + 1] /\ loop.due # <<>>
    BY <1>1, LoopRecord DEF Execute, LoopFree, LoopOnly, LoopOK
  <2>2. Head(loop.due) = loop.due[1] /\ 1 \in 1 .. Len(loop.due)
    BY <2>1, DueObject
  <2>3. CASE Head(loop.due)[1] = i
    <3>1. Schedule[i].n <= now /\ ran[i] = 0 /\ fate[i] \in {"added", "removed"}
      BY <1>0, <2>1, <2>2, <2>3 DEF DueSound
    <3>2. ran'[i] = 1
      BY <2>1, <2>3, <3>1 DEF CronHistory
    <3>3. InHand(i)'
      BY <2>1, <2>3 DEF InHand
    <3> QED BY <2>1, <3>1, <3>2, <3>3
  <2>4. CASE Head(loop.due)[1] # i
    <3>1. ran'[i] = ran[i]
      BY <2>1, <2>4 DEF CronHistory
    <3>2. ~InHand(i)
      BY <2>1 DEF InHand
    <3>3. CASE ran[i] # 0
      <4>1. ran[i] = 1 /\ Schedule[i].n <= now /\ fate[i] \in {"added", "removed"} /\ Copies(i, Spent)
        BY <1>0, <3>2, <3>3 DEF RanOnce
      <4>2. Copies(i, Spent)'
        BY <2>1, <4>1 DEF Copies, Spent
      <4> QED BY <2>1, <3>1, <4>1, <4>2
    <3> QED BY <3>1, <3>3
  <2> QED BY <2>3, <2>4
<1>2. CASE ~Execute
  <2>1. UNCHANGED ran
    BY <1>2 DEF CronNext, LoopStep, Arm, Snapshot, WriteBack, DropAfterRun, NextDue, Rested, EnsureCache,
         LoopOnly, TimePasses, CronCrash, StoreStep, Load, Truncate, WriteText, SetCache, WriteFails,
         AddJob, RemoveJob, RunJobNow, SetEnabled, cronVars
  <2>2. CASE ran[i] # 0
    <3>1. ran[i] = 1 /\ Schedule[i].n <= now /\ fate[i] \in {"added", "removed"}
      BY <1>0, <2>2 DEF RanOnce
    <3>2. fate'[i] \in {"added", "removed"}
      BY <3>1, FateStays
    <3>3. Schedule[i].n <= now'
      BY <3>1, AtNext, NowGrows
    <3>4. CASE Copies(i, Spent)
      BY <2>1, <3>1, <3>2, <3>3, <3>4, SpentStays
    <3>5. CASE InHand(i) /\ loop.at = "ran"
      <4>1. loop.due # <<>> /\ Head(loop.due)[1] = i
        BY <3>5 DEF InHand
      <4>2. InHand(i)'
        BY <3>1, <3>5, <4>1, RanInHand
      <4> QED BY <2>1, <3>1, <3>2, <3>3, <4>2
    <3>6. CASE InHand(i) /\ loop.at = "stored"
      BY <2>1, <3>1, <3>2, <3>3, <3>6, StoredInHand
    <3>7. Copies(i, Spent) \/ (InHand(i) /\ loop.at \in {"ran", "stored"})
      BY <1>0, <2>2 DEF RanOnce, InHand
    <3> QED BY <3>4, <3>5, <3>6, <3>7
  <2> QED BY <2>1, <2>2
<1> QED BY <1>1, <1>2

\* Where the due jobs of the next state come from.
LEMMA DueFrom ==
    ASSUME CronShape, CronRefs, [CronNext]_cronVars, orderly', NEW i \in JobIds,
           \A k \in 1 .. Len(loop.due) : loop.due[k][1] # i,
           cronCache # NoCache /\ cronCache[i] # NoJob => ~heap[cronCache[i]].enabled
    PROVE  \A k \in 1 .. Len(loop'.due) : loop'.due[k][1] # i
<1>1. CASE Arm \/ Rested \/ Execute \/ WriteBack \/ DropAfterRun
  <2>1. loop'.due = loop.due
    BY <1>1, LoopRecord DEF Arm, Rested, Execute, WriteBack, DropAfterRun
  <2> QED BY <2>1
<1>2. CASE Snapshot
  <2>1. loop.due = <<>> /\ UNCHANGED <<cronCache, heap>> /\ loop.at = "sleep"
    BY <1>2, SnapshotIs
  <2>2. CASE loop' = [loop EXCEPT !.at = "arm"]
    BY <2>1, <2>2, LoopRecord
  <2>3. CASE loop' # [loop EXCEPT !.at = "arm"]
    <3>1. PICK seq \in Seq(Obj) :
                   /\ loop' = [loop EXCEPT !.at = "run", !.due = seq]
                   /\ \A k \in 1 .. Len(seq) : Due(seq[k][1])
      BY <1>2, <2>3, SnapshotIs
    <3>2. ~Due(i)
      BY <2>1 DEF Due, CronShape
    <3>3. loop'.due = seq
      BY <3>1, LoopRecord
    <3> QED BY <3>1, <3>2, <3>3
  <2> QED BY <2>2, <2>3
<1>3. CASE NextDue
  <2>1. loop.due # <<>> /\ loop'.due = Tail(loop.due)
    BY <1>3, LoopRecord DEF NextDue, LoopFree, LoopOK
  <2> QED BY <2>1, DueTail
<1>4. CASE CronCrash
  <2>1. loop'.due = <<>>
    BY <1>4 DEF CronCrash
  <2> QED BY <2>1, EmptySeq
<1>5. CASE \/ TimePasses \/ UNCHANGED cronVars
           \/ \E c \in Callers : EnsureCache(c) \/ StoreStep(c)
           \/ \E c \in Editors, k \in JobIds :
                \/ AddJob(c, k) \/ RemoveJob(c, k) \/ RunJobNow(c, k)
                \/ \E b \in BOOLEAN : SetEnabled(c, k, b)
  <2>1. \A c \in Callers : ~WriteFails(c)
    BY DEF WriteFails
  <2>2. loop' = loop
    BY <1>5, <2>1, LoopAlone
  <2> QED BY <2>2
<1> QED BY <1>1, <1>2, <1>3, <1>4, <1>5, CronSteps DEF QuietStep

\* A job that is off stays off, unless somebody edits it.
LEMMA OffStays ==
    ASSUME CronShape, CronRefs, CronHistory, NEW i \in JobIds, Copies(i, Off),
           fate[i] \in {"added", "removed"}, want'[i] = "off",
           \A k \in 1 .. Len(loop.due) : loop.due[k][1] # i,
           [CronNext]_cronVars, orderly'
    PROVE  Copies(i, Off)'
<1> DEFINE S == Off
<1>1. Copies(i, S)
  OBVIOUS
<1> HIDE DEF S
<1>2. ASSUME NEW c \in Callers, NEW kind, NEW k, NEW o \in Obj, NEW j, Begin(c, kind, k, o),
             UNCHANGED <<cronFile, cronCache>>, o[1] = k, k # i, heap' = [heap EXCEPT ![o] = j]
      PROVE  Copies(i, S)'
  <2>1. \A x \in Obj : x[1] = i => heap'[x] = heap[x]
    <3>1. \A x \in Obj : x # o => heap'[x] = heap[x]
      BY <1>2, NewObject
    <3> QED BY <1>2, <3>1
  <2> QED BY <1>1, <1>2, <2>1, CopiesBegin
<1>3. ASSUME NEW c \in Callers, NEW kind, NEW k, Begin(c, kind, k, NoJob),
             UNCHANGED <<cronFile, cronCache, heap>>
      PROVE  Copies(i, S)'
  BY <1>1, <1>3, CopiesBegin
<1>4. Copies(i, S)'
  <2>1. CASE QuietStep
    BY <1>1, <2>1, QuietStepKeeps, CopiesStay
  <2>2. CASE CronCrash
    BY <1>1, <2>2, CopiesCrash DEF Copies
  <2>3. ASSUME NEW c \in Callers, StoreStep(c) PROVE Copies(i, S)'
    <3>1. ~WriteFails(c)
      BY DEF WriteFails
    <3> QED BY <1>1, <2>3, <3>1, CopiesStore DEF StoreStep
  <2>4. CASE WriteBack
    <3> DEFINE o == Head(loop.due)
    <3>1. /\ loop.due # <<>> /\ o \in Obj /\ Begin("loop", "update", o[1], o)
          /\ UNCHANGED <<cronFile, cronCache>> /\ \E j \in Jobs : heap' = [heap EXCEPT ![o] = j]
      BY <2>4, WriteBackIs
    <3>2. o[1] # i /\ "loop" \in Callers
      BY <3>1, DueObject, CallersFacts
    <3> HIDE DEF o
    <3> QED BY <1>2, <3>1, <3>2
  <2>5. CASE DropAfterRun
    <3>1. /\ Begin("loop", "remove", Head(loop.due)[1], NoJob)
          /\ UNCHANGED <<cronFile, cronCache, heap>> /\ "loop" \in Callers
      BY <2>5, CallersFacts DEF DropAfterRun, LoopOnly
    <3> QED BY <1>3, <3>1
  <2>6. ASSUME NEW c \in Callers, EnsureCache(c) PROVE Copies(i, S)'
    <3>1. Begin(c, "list", NoJob, NoJob) /\ UNCHANGED <<cronFile, cronCache, heap>>
      BY <2>6 DEF EnsureCache
    <3> QED BY <1>3, <3>1
  <2>7. ASSUME NEW c \in Editors, NEW k \in JobIds, RemoveJob(c, k) PROVE Copies(i, S)'
    <3>1. Begin(c, "remove", k, NoJob) /\ UNCHANGED <<cronFile, cronCache, heap>> /\ c \in Callers
      BY <2>7, EditorCalls DEF RemoveJob
    <3> QED BY <1>3, <3>1
  <2>8. ASSUME NEW c \in Editors, NEW k \in JobIds, AddJob(c, k) PROVE Copies(i, S)'
    <3> DEFINE o == FreshObj(k)
    <3>1. /\ Begin(c, "add", k, o) /\ UNCHANGED <<cronFile, cronCache>> /\ fate[k] = "unborn"
          /\ \E j : heap' = [heap EXCEPT ![o] = j]
      BY <2>8 DEF AddJob
    <3>2. c \in Callers /\ op[c] = Resting
      BY <3>1, EditorCalls DEF Begin
    <3>3. o \in Obj /\ o[1] = k
      BY <3>2, SlotIsFree DEF Resting
    <3>4. k # i
      BY <3>1
    <3> HIDE DEF o
    <3> QED BY <1>2, <3>1, <3>2, <3>3, <3>4
  <2>9. ASSUME NEW c \in Editors, NEW k \in JobIds,
               RunJobNow(c, k) \/ \E b \in BOOLEAN : SetEnabled(c, k, b)
        PROVE  Copies(i, S)'
    <3>1. /\ Finds(c, k) /\ Begin(c, "update", k, cronCache[k]) /\ UNCHANGED <<cronFile, cronCache>>
          /\ want' = [want EXCEPT ![k] = "unknown"]
      BY <2>9 DEF RunJobNow, SetEnabled, Unseen
    <3>2. \E j \in Jobs : heap' = [heap EXCEPT ![cronCache[k]] = j]
      BY <2>9, RunJobNowIs, SetEnabledIs
    <3>3. cronCache[k] \in Obj /\ cronCache[k][1] = k /\ c \in Callers
      BY <3>1, CachedObject, EditorCalls DEF Finds
    <3>4. k # i
      BY <3>1 DEF CronHistory
    <3> QED BY <1>2, <3>1, <3>2, <3>3, <3>4
  <2> QED BY <2>1, <2>2, <2>3, <2>4, <2>5, <2>6, <2>7, <2>8, <2>9, CronSteps
<1> QED BY <1>4 DEF S, Off, Copies

\* The call that switches a job off has the only copies there are.
LEMMA SwitchedOff ==
    ASSUME CronShape, CronRefs, CronHistory, CronStored, DueSound, NEW i \in JobIds,
           NEW c \in Callers, WriteText(c), want[i] # "off", want'[i] = "off"
    PROVE  /\ Copies(i, Off)' /\ fate'[i] \in {"added", "removed"}
           /\ \A k \in 1 .. Len(loop.due) : loop.due[k][1] # i
<1> DEFINE o == op[c]
           r == [kind |-> o.kind, id |-> o.id, obj |-> o.obj, jobs |-> o.jobs, step |-> "cache"]
<1>1. /\ o.step = "write" /\ o.jobs \in JobLists /\ UNCHANGED <<heap, cronCache, loop>>
      /\ op' = [op EXCEPT ![c] = r]
  BY WriteTextIs
<1>2. /\ o.id = i /\ ~o.jobs[i].enabled
      /\ o.kind = "add" \/ (c \in Editors /\ o.kind = "update" /\ loop.at = "sleep")
  BY DEF WriteText, CronHistory
<1>3. o.obj \in Obj /\ o.jobs[i] # NoJob
  BY <1>1, <1>2, CallParts
<1>4. o.jobs[i] \in Off
  BY <1>1, <1>2, <1>3 DEF JobLists, Off
<1>5. heap[o.obj] = o.jobs[i]
  BY <1>1, <1>2, <1>3, ReferenceAssumption DEF CronStored, CacheReflects
<1>6. \A d \in Callers : d # c => op[d] = Resting
  BY <1>1, OneCall DEF CronStored
<1>7. /\ r.obj = o.obj /\ r.jobs = o.jobs
      /\ op'[c] = r /\ \A d \in Callers : d # c => op'[d] = Resting
  BY <1>1, <1>6 DEF CronShape
<1>8. cronFile' = o.jobs
  BY WriteTextStored
<1>9. cronCache # NoCache /\ cronCache[i] # NoJob => heap[cronCache[i]] \in Off
  <2>1. CASE o.kind = "add"
    <3>1. fate[i] = "adding"
      BY <1>1, <1>2, <2>1 DEF CronStored, ListsAgree
    <3>2. \A d \in Callers : op[d].step # "cache"
      BY <1>1, <1>6 DEF Resting
    <3> QED BY <3>1, <3>2 DEF CronStored, CacheKnows
  <2>2. CASE c \in Editors /\ o.kind = "update"
    <3>1. cronCache[i] = o.obj
      BY <1>2, <2>2 DEF CronStored, CacheReflects
    <3> QED BY <1>4, <1>5, <3>1
  <2> QED BY <1>2, <2>1, <2>2
<1>10. fate'[i] = "added"
  <2>1. CASE o.kind = "add"
    BY <1>2, <2>1 DEF WriteText, CronHistory
  <2>2. CASE o.kind = "update"
    <3>1. fate[i] = "added"
      BY <1>1, <1>2, <2>2 DEF CronStored, ListsAgree, Stored
    <3> QED BY <2>2, <3>1 DEF WriteText
  <2> QED BY <1>2, <2>1, <2>2
<1>11. \A k \in 1 .. Len(loop.due) : loop.due[k][1] # i
  <2>1. CASE o.kind = "add"
    <3>1. fate[i] = "adding"
      BY <1>1, <1>2, <2>1 DEF CronStored, ListsAgree
    <3> QED BY <3>1 DEF DueSound
  <2>2. CASE loop.at = "sleep"
    <3>1. loop.due = <<>>
      BY <2>2 DEF CronShape, LoopOK
    <3> QED BY <3>1, EmptySeq
  <2> QED BY <1>2, <2>1, <2>2
<1> HIDE DEF r
<1>12. Copies(i, Off)'
  <2> DEFINE S == Off
  <2>1. S' = S
    BY DEF Off
  <2>2. o.jobs[i] \in S
    BY <1>4
  <2>3. cronCache # NoCache /\ cronCache[i] # NoJob => heap[cronCache[i]] \in S
    BY <1>9
  <2> HIDE DEF S
  <2>4. \A d \in Callers : op'[d].step \in Stored => op'[d].jobs[i] \in S \cup {NoJob}
    BY <1>7, <2>2 DEF Resting, Stored
  <2>5. \A d \in Callers : op'[d].obj # NoJob => heap'[op'[d].obj] \in S
    BY <1>1, <1>5, <1>7, <2>2 DEF Resting
  <2>6. Copies(i, S)'
    BY <1>1, <1>8, <2>1, <2>2, <2>3, <2>4, <2>5 DEF Copies
  <2> QED BY <2>6 DEF S, Off, Copies
<1> QED BY <1>10, <1>11, <1>12

LEMMA OffRestsStep ==
    ASSUME CronShape, CronRefs, CronHistory, CronStored, CronJobsInv, [CronNext]_cronVars, orderly'
    PROVE  OffRests'
<1> SUFFICES ASSUME NEW i \in JobIds, want'[i] = "off"
             PROVE  /\ Copies(i, Off)' /\ fate'[i] \in {"added", "removed"}
                    /\ \A k \in 1 .. Len(loop'.due) : loop'.due[k][1] # i
  BY DEF OffRests
<1>0. DueSound /\ OffRests
  BY DEF CronJobsInv
<1>1. CASE want[i] = "off"
  <2>1. /\ Copies(i, Off) /\ fate[i] \in {"added", "removed"}
        /\ \A k \in 1 .. Len(loop.due) : loop.due[k][1] # i
    BY <1>0, <1>1 DEF OffRests
  <2>2. cronCache # NoCache /\ cronCache[i] # NoJob => ~heap[cronCache[i]].enabled
    BY <2>1 DEF Copies, Off
  <2>3. \A k \in 1 .. Len(loop'.due) : loop'.due[k][1] # i
    BY <2>1, <2>2, DueFrom
  <2> QED BY <2>1, <2>3, FateStays, OffStays
<1>2. CASE want[i] # "off"
  <2>1. \E c \in Callers : WriteText(c)
    <3> SUFFICES ASSUME \A c \in Callers : ~WriteText(c) PROVE FALSE
      OBVIOUS
    <3>1. ~QuietStep
      BY <1>2, QuietStepKeeps
    <3>2. ~WriteBack /\ ~DropAfterRun /\ ~CronCrash
      BY <1>2 DEF WriteBack, DropAfterRun, LoopOnly, CronCrash
    <3>3. \A c \in Callers : ~EnsureCache(c) /\ ~StoreStep(c)
      BY <1>2 DEF EnsureCache, StoreStep, Load, Truncate, SetCache, WriteFails
    <3>4. \A c \in Editors, k \in JobIds :
            /\ ~AddJob(c, k) /\ ~RemoveJob(c, k) /\ ~RunJobNow(c, k)
            /\ \A b \in BOOLEAN : ~SetEnabled(c, k, b)
      BY <1>2 DEF AddJob, RemoveJob, RunJobNow, SetEnabled, Unseen, CronHistory
    <3> QED BY <3>1, <3>2, <3>3, <3>4, CronSteps
  <2>2. PICK c \in Callers : WriteText(c)
    BY <2>1
  <2>3. /\ Copies(i, Off)' /\ fate'[i] \in {"added", "removed"}
        /\ \A k \in 1 .. Len(loop.due) : loop.due[k][1] # i
    BY <1>0, <1>2, <2>2, SwitchedOff
  <2>4. loop' = loop
    BY <2>2, WriteTextIs
  <2> QED BY <2>3, <2>4
<1> QED BY <1>1, <1>2

(***************************************************************************)
(* The invariant of the scheduler.  Its calls, references and history are  *)
(* what they should be always; the store agrees with itself, and the jobs  *)
(* are where the ticks left them, as long as store calls do not overlap    *)
(* and no write is cut off.                                                *)
(***************************************************************************)
CronInv ==
    /\ CronShape /\ CronRefs /\ CronHistory
    /\ orderly => CronStored /\ CronJobsInv

LEMMA CronInvInit == CronInit => CronInv
<1> SUFFICES ASSUME CronInit PROVE CronInv
  OBVIOUS
<1>1. CronShape /\ CronRefs
  BY CronInitType
<1>2. CronHistory
  BY DEF CronInit, CronHistory
<1>3. /\ \A c \in Callers : op[c] = Resting /\ op[c].step = "none" /\ op[c].kind = "none" /\ op[c].obj = NoJob
      /\ cronCache = NoCache /\ loop.due = <<>> /\ cronFile = NoJobs
      /\ \A i \in JobIds : fate[i] = "unborn" /\ want[i] = "unknown" /\ ran[i] = 0
  BY DEF CronInit, Resting
<1>4. cronFile # Torn /\ \A i \in JobIds : cronFile[i] = NoJob
  <2>1. NoJobs \in JobLists
    BY DEF NoJobs, JobLists
  <2> QED BY <1>3, <2>1, ReferenceAssumption DEF NoJobs
<1>5. CronStored
  <2>1. CallsAlone /\ FileWhole /\ FileAgrees
    BY <1>3, <1>4 DEF CallsAlone, FileWhole, FileAgrees
  <2>2. CacheKnows /\ ListsAgree
    BY <1>3 DEF CacheKnows, ListsAgree, Stored
  <2>3. CacheReflects
    BY <1>3, EditorCalls DEF CacheReflects
  <2> QED BY <2>1, <2>2, <2>3 DEF CronStored
<1>6. \A i \in JobIds : \A S : Copies(i, S)
  BY <1>3, <1>4 DEF Copies, Stored
<1>7. AtTimes /\ DueSound /\ RanOnce /\ OffRests
  <2>1. AtTimes
    BY <1>6 DEF AtTimes
  <2>2. DueSound
    BY <1>3, EmptySeq DEF DueSound
  <2>3. RanOnce /\ OffRests
    BY <1>3 DEF RanOnce, OffRests
  <2> QED BY <2>1, <2>2, <2>3
<1> QED BY <1>1, <1>2, <1>5, <1>7 DEF CronInv, CronJobsInv

LEMMA CronInvStep == CronInv /\ [CronNext]_cronVars => CronInv'
<1> SUFFICES ASSUME CronInv, [CronNext]_cronVars PROVE CronInv'
  OBVIOUS
<1>1. CronShape' /\ CronRefs'
  BY CronTypeStep DEF CronInv
<1>2. CronHistory'
  BY CronHistoryStep DEF CronInv
<1>3. ASSUME orderly' PROVE CronStored' /\ CronJobsInv'
  <2>1. orderly /\ CronStored /\ CronJobsInv
    BY <1>3, OrderlyFalls DEF CronInv
  <2>2. CronStored'
    BY <1>3, <2>1, CronStoredStep DEF CronInv
  <2>3. AtTimes'
    BY <1>3, <2>1, AtTimesStep DEF CronInv, CronJobsInv
  <2>4. DueSound' /\ RanOnce' /\ OffRests'
    BY <1>3, <2>1, DueSoundStep, RanOnceStep, OffRestsStep DEF CronInv
  <2> QED BY <2>2, <2>3, <2>4 DEF CronJobsInv
<1> QED BY <1>1, <1>2, <1>3 DEF CronInv

LEMMA CronInvTells == CronInv => CronJobsKept /\ CronRunsRight
<1> SUFFICES ASSUME CronInv PROVE CronJobsKept /\ CronRunsRight
  OBVIOUS
<1>1. CronTypeOK
  BY CronRefsAreHeld DEF CronInv
<1>2. CronKeepsJobs
  BY QuietStored DEF CronInv, CronKeepsJobs, CronStored, FileAgrees
<1>3. CronRemovedStays
  BY QuietStored DEF CronInv, CronRemovedStays, CronStored, FileAgrees
<1>4. CronCacheIsFile
  BY QuietStored DEF CronInv, CronCacheIsFile, Content
<1>5. CronOnce
  BY DEF CronInv, CronHistory, CronJobsInv, RanOnce, AtJob, CronOnce
<1>6. CronDisabledRests
  <2> SUFFICES ASSUME orderly, loop.at = "ran" PROVE want[Head(loop.due)[1]] # "off"
    BY DEF CronDisabledRests
  <2>1. CronShape /\ CronRefs /\ OffRests
    BY DEF CronInv, CronJobsInv
  <2>2. loop.due # <<>>
    BY <2>1 DEF CronShape, LoopOK
  <2>3. Head(loop.due) = loop.due[1] /\ Head(loop.due)[1] \in JobIds /\ 1 \in 1 .. Len(loop.due)
    BY <2>1, <2>2, DueObject
  <2> QED BY <2>1, <2>3 DEF OffRests
<1> QED BY <1>1, <1>2, <1>3, <1>4, <1>5, <1>6 DEF CronJobsKept, CronRunsRight

\* The scheduler keeps its owners' jobs: every reference of the cache, of a
\* tick and of a running call leads to an object, and while store calls do not
\* overlap and no write is cut off, jobs that were added are in the file until
\* they are removed, removed jobs do not come back with a tick's writes, and
\* the cache says what the file says (store.py:141-183, manager.py:66-93).
THEOREM JobsAreKept == CronSpec => []CronJobsKept
<1>1. CronInit => CronInv
  BY CronInvInit
<1>2. CronInv /\ [CronNext]_cronVars => CronInv'
  BY CronInvStep
<1>3. CronInv => CronJobsKept
  BY CronInvTells
<1> QED BY <1>1, <1>2, <1>3, PTL DEF CronSpec

\* Ticks run jobs right: under the same conditions a job with a time runs once,
\* whatever is edited meanwhile and however often the process restarts after
\* the run was stored, and a job that was switched off between two ticks is
\* not run by a later one.
THEOREM JobsRunRight == CronSpec => []CronRunsRight
<1>1. CronInit => CronInv
  BY CronInvInit
<1>2. CronInv /\ [CronNext]_cronVars => CronInv'
  BY CronInvStep
<1>3. CronInv => CronRunsRight
  BY CronInvTells
<1> QED BY <1>1, <1>2, <1>3, PTL DEF CronSpec

-----------------------------------------------------------------------------
(***************************************************************************)
(* get_db never lacks a connection before the shutdown closes the database *)
(* and shutdown_event leaves no loop behind, for every number of users of  *)
(* the connection, of outages, faults and cancellations.                   *)
(***************************************************************************)

Steps == {"idle", "lock", "dispose", "pragma", "probe", "session"}
Calls == [at : Steps, conn : Nat, lazy : BOOLEAN]
After == {"database", "storage", "vectors", "redis", "ended"}

DbTypeOK ==
    /\ appAt \in Before \cup After
    /\ dbConn \in Nat /\ dbMade \in Nat /\ dbClosing \in Nat
    /\ dbOpen \subseteq 1 .. dbMade /\ dbReady \subseteq 1 .. dbMade
    /\ dbLock \in DbUsers \cup {NoUser}
    /\ dbCall \in [DbUsers -> Calls]

\* An engine whose PRAGMAs are executed is new, and there is no connection
\* meanwhile.
PragmaFresh == \A c \in DbUsers : dbCall[c].at = "pragma" =>
    dbConn = 0 /\ dbCall[c].conn \in dbReady /\ dbCall[c].conn # dbClosing

ClosingKnown == dbClosing <= dbMade /\ (appAt \in Before => dbClosing = 0)

\* Before the shutdown nobody but the holder of the lock changes _connection.
HolderAlone == appAt \in Before => \A c \in DbUsers :
    /\ dbCall[c].at = "probe" => dbConn # 0
    /\ dbCall[c].at = "dispose" => dbConn = dbCall[c].conn

EnginesKnown == ~dbFaulty /\ appAt \in Before =>
    \A k \in dbOpen : k = dbConn \/ \E c \in DbUsers : dbCall[c].at = "pragma" /\ dbCall[c].conn = k

\* How far startup and shutdown have come, in what runs and what is closed.
Phases ==
    /\ appAt = "new" => appLoops = {}
    /\ appAt \in {"running", "bus"} =>
          appLoops = BusLoops \cup {"mcp", "files"} \cup (IF runCron THEN {"cron"} ELSE {})
    /\ appAt = "files" => appLoops \subseteq {"files"}
    /\ appAt \in After \cup {"lsp"} => appLoops = {}
    /\ appAt \in Before \cup {"database", "storage"} => appClosed = {}
    /\ appAt = "vectors" => appClosed = {"storage"}
    /\ appAt = "redis" => appClosed = {"storage", "vectors"}
    /\ appAt = "ended" => appClosed = {"storage", "vectors", "redis"} \/ dbFaulty

ConnInv ==
    /\ DbTypeOK /\ DbOneInside /\ DbConnReady /\ DbServed
    /\ PragmaFresh /\ ClosingKnown /\ HolderAlone /\ EnginesKnown
Inv == ConnInv /\ Phases
-----------------------------------------------------------------------------
LEMMA CallTyped ==
    ASSUME DbTypeOK, NEW c \in DbUsers, NEW at \in Steps, NEW k \in Nat, NEW lazy \in BOOLEAN, DbCallIs(c, at, k, lazy)
    PROVE  /\ dbCall' \in [DbUsers -> Calls]
           /\ dbCall'[c].at = at /\ dbCall'[c].conn = k
           /\ \A d \in DbUsers : d # c => dbCall'[d] = dbCall[d]
  BY DEF DbTypeOK, DbCallIs, Calls

\* Whoever enters the lock, or holds it, makes a connection when no older one
\* is to be kept.
LEMMA NewOne ==
    ASSUME ConnInv, NEW c \in DbUsers, NEW lazy \in BOOLEAN,
           NEW open \in SUBSET dbOpen, NEW ready \in SUBSET dbReady,
           dbLock = c \/ (dbLock = NoUser /\ dbCall[c].at = "lock"),
           ~dbFaulty' /\ appAt \in Before => open = {} /\ ~dbFaulty,
           NewConnection(c, lazy, open, ready), UNCHANGED <<appVars, dbUp>>
    PROVE  ConnInv'
<1> DEFINE n == dbMade + 1
<1>1. n \in Nat /\ n # 0 /\ n \notin dbOpen /\ n \notin dbReady /\ n # dbClosing /\ dbClosing <= n
  BY DEF ConnInv, DbTypeOK, ClosingKnown
<1>2. 1 .. dbMade \subseteq 1 .. n /\ n \in 1 .. n
  BY DEF ConnInv, DbTypeOK
<1>3. dbMade' = n /\ dbOpen' = open \cup {n} /\ dbReady' = ready \cup {n} /\ dbClosing' = dbClosing /\ appAt' = appAt
  BY DEF NewConnection, appVars
<1>4. dbOpen' \subseteq 1 .. dbMade' /\ dbReady' \subseteq 1 .. dbMade'
  BY <1>2, <1>3 DEF ConnInv, DbTypeOK
<1>5. \A d \in DbUsers : d # c => dbCall[d].at \notin DbHolding
  BY NoUserIsNone DEF NoUserIsNone, ConnInv, DbOneInside
<1> HIDE DEF n
<1>6. CASE dbConn' = 0 /\ DbCallIs(c, "pragma", n, lazy) /\ dbLock' = c /\ UNCHANGED dbRefused
  <2>1. /\ dbCall' \in [DbUsers -> Calls] /\ dbCall'[c].at = "pragma" /\ dbCall'[c].conn = n
        /\ \A d \in DbUsers : d # c => dbCall'[d] = dbCall[d]
    BY <1>6, <1>1, CallTyped DEF ConnInv, Steps
  <2> QED BY <1>1, <1>3, <1>4, <1>5, <1>6, <2>1, NoUserIsNone
         DEF NoUserIsNone, ConnInv, DbTypeOK, DbOneInside, DbConnReady, DbServed, PragmaFresh, ClosingKnown, HolderAlone, EnginesKnown, DbHolding
<1>7. CASE dbConn' = n /\ DbCallIs(c, "probe", n, TRUE) /\ dbLock' = c /\ UNCHANGED dbRefused
  <2>1. /\ dbCall' \in [DbUsers -> Calls] /\ dbCall'[c].at = "probe" /\ dbCall'[c].conn = n
        /\ \A d \in DbUsers : d # c => dbCall'[d] = dbCall[d]
    BY <1>7, <1>1, CallTyped DEF ConnInv, Steps
  <2> QED BY <1>1, <1>3, <1>4, <1>5, <1>7, <2>1, NoUserIsNone
         DEF NoUserIsNone, ConnInv, DbTypeOK, DbOneInside, DbConnReady, DbServed, PragmaFresh, ClosingKnown, HolderAlone, EnginesKnown, DbHolding
<1>8. CASE dbConn' = n /\ DbCallIs(c, "session", n, FALSE) /\ dbLock' = NoUser /\ UNCHANGED dbRefused
  <2>1. /\ dbCall' \in [DbUsers -> Calls] /\ dbCall'[c].at = "session" /\ dbCall'[c].conn = n
        /\ \A d \in DbUsers : d # c => dbCall'[d] = dbCall[d]
    BY <1>8, <1>1, CallTyped DEF ConnInv, Steps
  <2> QED BY <1>1, <1>3, <1>4, <1>5, <1>8, <2>1, NoUserIsNone
         DEF NoUserIsNone, ConnInv, DbTypeOK, DbOneInside, DbConnReady, DbServed, PragmaFresh, ClosingKnown, HolderAlone, EnginesKnown, DbHolding
<1> QED BY <1>3, <1>6, <1>7, <1>8 DEF NewConnection, Made, Leave

\* get_connection returns the connection there is.
LEMMA Left ==
    ASSUME ConnInv, NEW c \in DbUsers, Leave(c, dbConn, dbReady),
           dbLock = c \/ (dbLock = NoUser /\ dbCall[c].at = "lock"),
           dbConn = 0 => appAt \notin Before,
           UNCHANGED <<appVars, connVars, dbFaulty>>, dbCall[c].at # "pragma"
    PROVE  ConnInv'
<1>1. \A d \in DbUsers : d # c => dbCall[d].at \notin DbHolding
  BY NoUserIsNone DEF NoUserIsNone, ConnInv, DbOneInside
<1>2. /\ dbCall' \in [DbUsers -> Calls] /\ dbCall'[c].at \in {"session", "idle"}
      /\ \A d \in DbUsers : d # c => dbCall'[d] = dbCall[d]
  <2>1. CASE DbCallIs(c, "session", dbConn, FALSE)
    BY <2>1, CallTyped DEF ConnInv, DbTypeOK, Steps
  <2>2. CASE dbCall' = [dbCall EXCEPT ![c] = DbIdle]
    BY <2>2, CallTyped DEF ConnInv, DbTypeOK, Steps, DbCallIs, DbIdle
  <2> QED BY <2>1, <2>2 DEF Leave
<1>3. dbRefused' => dbRefused \/ appAt \notin Before
  BY DEF Leave, ConnInv, DbConnReady
<1>4. dbLock' = NoUser
  BY DEF Leave
<1>5. \A d \in DbUsers : dbCall'[d].at # "pragma" /\ dbCall'[d].at \notin DbHolding
  BY <1>1, <1>2 DEF DbHolding
<1>6. \A d \in DbUsers : dbCall[d].at # "pragma"
  BY <1>1 DEF DbHolding
<1> QED BY <1>1, <1>2, <1>3, <1>4, <1>5, <1>6, NoUserIsNone
       DEF NoUserIsNone, ConnInv, DbTypeOK, DbOneInside, DbConnReady, DbServed, PragmaFresh, ClosingKnown, HolderAlone, EnginesKnown, DbHolding, appVars, connVars

LEMMA NobodyElse == ASSUME ConnInv, NEW c \in DbUsers, dbLock = c \/ dbLock = NoUser
                    PROVE  \A d \in DbUsers : d # c => dbCall[d].at \notin DbHolding
  BY NoUserIsNone DEF NoUserIsNone, ConnInv, DbOneInside

LEMMA Asked == ASSUME ConnInv, NEW c \in DbUsers, GetConnection(c) PROVE ConnInv'
<1>1. DbCallIs(c, "lock", 0, FALSE) /\ dbCall[c].at = "idle"
  <2>1. dbCall[c] = DbIdle /\ DbCallIs(c, "lock", 0, FALSE)
    BY DEF GetConnection
  <2>2. DbIdle.at = "idle"
    BY DEF DbIdle
  <2> QED BY <2>1, <2>2
<1>2. /\ dbCall' \in [DbUsers -> Calls] /\ dbCall'[c].at = "lock"
      /\ \A d \in DbUsers : d # c => dbCall'[d] = dbCall[d]
  BY <1>1, CallTyped DEF ConnInv, Steps
<1> QED BY <1>1, <1>2
       DEF ConnInv, DbTypeOK, DbOneInside, DbConnReady, DbServed, PragmaFresh, ClosingKnown, HolderAlone, EnginesKnown, DbHolding, appVars, connVars, GetConnection

\* Only close_db sets _connection to None under the eyes of a holder, so there
\* are no engines but the one that is kept.
LEMMA NoEngines == ASSUME ConnInv, NEW c \in DbUsers, dbConn = 0, dbLock = c \/ dbLock = NoUser,
                          dbCall[c].at # "pragma", ~dbFaulty, appAt \in Before
                   PROVE  dbOpen = {}
  BY NobodyElse DEF ConnInv, DbTypeOK, EnginesKnown, DbHolding

LEMMA Entered == ASSUME ConnInv, NEW c \in DbUsers, EnterLock(c) PROVE ConnInv'
<1>1. dbCall[c].at = "lock" /\ dbLock = NoUser /\ UNCHANGED <<appVars, dbUp, dbFaulty>>
  BY DEF EnterLock, InLock
<1>2. CASE dbConn = 0 /\ NewConnection(c, TRUE, dbOpen, dbReady)
  BY <1>1, <1>2, NoEngines, NewOne
<1>3. CASE dbConn # 0 /\ DbCallIs(c, "probe", dbConn, FALSE) /\ dbLock' = c /\ UNCHANGED <<connVars, dbDue, dbRefused>>
  <2>1. /\ dbCall' \in [DbUsers -> Calls] /\ dbCall'[c].at = "probe"
        /\ \A d \in DbUsers : d # c => dbCall'[d] = dbCall[d]
    BY <1>3, CallTyped DEF ConnInv, DbTypeOK, Steps
  <2>2. \A d \in DbUsers : dbCall[d].at \notin DbHolding
    BY <1>1, NobodyElse DEF DbHolding
  <2> QED BY <1>1, <1>3, <2>1, <2>2, NoUserIsNone
         DEF NoUserIsNone, ConnInv, DbTypeOK, DbOneInside, DbConnReady, DbServed, PragmaFresh, ClosingKnown, HolderAlone, EnginesKnown, DbHolding, appVars, connVars
<1>4. CASE dbConn # 0 /\ Leave(c, dbConn, dbReady) /\ UNCHANGED <<connVars, dbDue>>
  BY <1>1, <1>4, Left
<1> QED BY <1>2, <1>3, <1>4 DEF EnterLock, InLock

LEMMA PragmasDone == ASSUME ConnInv, NEW c \in DbUsers, Pragmas(c) PROVE ConnInv'
<1> DEFINE k == dbCall[c].conn
<1>1. /\ dbCall[c].at = "pragma" /\ dbLock = c /\ k \in dbReady /\ k # dbClosing /\ k \in Nat /\ k # 0 /\ dbConn = 0
      /\ UNCHANGED <<appVars, dbUp, dbMade, dbOpen, dbReady>>
  BY DEF Pragmas, ConnInv, DbTypeOK, DbOneInside, DbHolding, PragmaFresh, Calls
<1>2. \A d \in DbUsers : d # c => dbCall[d].at \notin DbHolding
  BY <1>1, NobodyElse
<1>3. ~dbFaulty /\ appAt \in Before => dbOpen \subseteq {k}
  BY <1>1, <1>2 DEF ConnInv, DbTypeOK, EnginesKnown, DbHolding
<1> HIDE DEF k
<1>4. CASE dbConn' = k /\ DbCallIs(c, "probe", k, TRUE) /\ dbLock' = c /\ UNCHANGED <<dbRefused, dbFaulty>>
  <2>1. /\ dbCall' \in [DbUsers -> Calls] /\ dbCall'[c].at = "probe"
        /\ \A d \in DbUsers : d # c => dbCall'[d] = dbCall[d]
    BY <1>1, <1>4, CallTyped DEF ConnInv, Steps
  <2> QED BY <1>1, <1>2, <1>3, <1>4, <2>1, NoUserIsNone
         DEF NoUserIsNone, ConnInv, DbTypeOK, DbOneInside, DbConnReady, DbServed, PragmaFresh, ClosingKnown, HolderAlone, EnginesKnown, DbHolding, appVars
<1>5. CASE dbConn' = k /\ DbCallIs(c, "session", k, FALSE) /\ dbLock' = NoUser /\ UNCHANGED <<dbRefused, dbFaulty>>
  <2>1. /\ dbCall' \in [DbUsers -> Calls] /\ dbCall'[c].at = "session"
        /\ \A d \in DbUsers : d # c => dbCall'[d] = dbCall[d]
    BY <1>1, <1>5, CallTyped DEF ConnInv, Steps
  <2> QED BY <1>1, <1>2, <1>3, <1>5, <2>1, NoUserIsNone
         DEF NoUserIsNone, ConnInv, DbTypeOK, DbOneInside, DbConnReady, DbServed, PragmaFresh, ClosingKnown, HolderAlone, EnginesKnown, DbHolding, appVars
<1>6. CASE dbCall' = [dbCall EXCEPT ![c] = DbIdle] /\ dbLock' = NoUser /\ dbFaulty' = TRUE /\ UNCHANGED <<dbConn, dbRefused>>
  <2>1. /\ dbCall' \in [DbUsers -> Calls] /\ dbCall'[c].at = "idle"
        /\ \A d \in DbUsers : d # c => dbCall'[d] = dbCall[d]
    BY <1>6, CallTyped DEF ConnInv, Steps, DbCallIs, DbIdle
  <2> QED BY <1>1, <1>2, <1>6, <2>1, NoUserIsNone
         DEF NoUserIsNone, ConnInv, DbTypeOK, DbOneInside, DbConnReady, DbServed, PragmaFresh, ClosingKnown, HolderAlone, EnginesKnown, DbHolding, appVars
<1> QED BY <1>1, <1>4, <1>5, <1>6 DEF Pragmas, Made, Leave, k

LEMMA ProbeAnswered == ASSUME ConnInv, NEW c \in DbUsers, Probed(c) PROVE ConnInv'
<1>1. dbCall[c].at = "probe" /\ dbLock = c /\ UNCHANGED <<appVars, dbUp, dbFaulty>> /\ (dbConn = 0 => appAt \notin Before)
  BY DEF Probed, ConnInv, DbOneInside, DbHolding, HolderAlone
<1>2. CASE Leave(c, dbConn, dbReady) /\ UNCHANGED connVars
  BY <1>1, <1>2, Left
<1>3. CASE dbConn # 0 /\ DbCallIs(c, "dispose", dbConn, FALSE) /\ UNCHANGED <<connVars, dbLock, dbDue, dbRefused>>
  <2>1. /\ dbCall' \in [DbUsers -> Calls] /\ dbCall'[c].at = "dispose" /\ dbCall'[c].conn = dbConn
        /\ \A d \in DbUsers : d # c => dbCall'[d] = dbCall[d]
    BY <1>3, CallTyped DEF ConnInv, DbTypeOK, Steps
  <2>2. \A d \in DbUsers : d # c => dbCall[d].at \notin DbHolding
    BY <1>1, NobodyElse
  <2> QED BY <1>1, <1>3, <2>1, <2>2, NoUserIsNone
         DEF NoUserIsNone, ConnInv, DbTypeOK, DbOneInside, DbConnReady, DbServed, PragmaFresh, ClosingKnown, HolderAlone, EnginesKnown, DbHolding, appVars, connVars
<1>4. CASE dbConn = 0 /\ NewConnection(c, FALSE, dbOpen, dbReady)
  BY <1>1, <1>4, NewOne
<1> QED BY <1>2, <1>3, <1>4 DEF Probed

LEMMA OldDisposed == ASSUME ConnInv, NEW c \in DbUsers, Disposed(c) PROVE ConnInv'
<1> DEFINE k == dbCall[c].conn
<1>1. dbCall[c].at = "dispose" /\ dbLock = c /\ UNCHANGED <<appVars, dbUp>> /\ (appAt \in Before => dbConn = k)
  BY DEF Disposed, ConnInv, DbOneInside, DbHolding, HolderAlone
<1>2. \A d \in DbUsers : dbCall[d].at # "pragma"
  BY <1>1, NobodyElse DEF DbHolding
<1>3. ~dbFaulty /\ appAt \in Before => dbOpen \ {k} = {}
  BY <1>1, <1>2 DEF ConnInv, EnginesKnown
<1>4. CASE NewConnection(c, FALSE, dbOpen \ {k}, dbReady \ {k}) /\ UNCHANGED dbFaulty
  BY <1>1, <1>3, <1>4, NewOne
<1>5. CASE dbFaulty' = TRUE /\ NewConnection(c, FALSE, dbOpen, dbReady)
  BY <1>1, <1>5, NewOne
<1> QED BY <1>4, <1>5 DEF Disposed

LEMMA SessionOver == ASSUME ConnInv, NEW c \in DbUsers, SessionEnds(c) PROVE ConnInv'
<1>1. /\ dbCall' \in [DbUsers -> Calls] /\ dbCall'[c].at = "idle" /\ dbCall[c].at = "session"
      /\ \A d \in DbUsers : d # c => dbCall'[d] = dbCall[d]
  BY CallTyped DEF ConnInv, SessionEnds, DbCallIs, DbIdle, Steps
<1> QED BY <1>1
       DEF ConnInv, DbTypeOK, DbOneInside, DbConnReady, DbServed, PragmaFresh, ClosingKnown, HolderAlone, EnginesKnown, DbHolding, appVars, connVars, SessionEnds

LEMMA Cancelled == ASSUME ConnInv, NEW c \in DbUsers, UserCancelled(c) PROVE ConnInv'
<1>1. /\ dbCall' \in [DbUsers -> Calls] /\ dbCall'[c].at = "idle"
      /\ \A d \in DbUsers : d # c => dbCall'[d] = dbCall[d]
  BY CallTyped DEF ConnInv, UserCancelled, DbCallIs, DbIdle, Steps
<1>2. dbLock' = (IF dbLock = c THEN NoUser ELSE dbLock) /\ dbFaulty' = (dbFaulty \/ dbCall[c].at = "pragma")
  BY DEF UserCancelled
<1>3. UNCHANGED <<appVars, dbUp, connVars, dbDue, dbRefused>>
  BY DEF UserCancelled
<1>4. DbTypeOK' /\ DbOneInside' /\ DbConnReady' /\ DbServed' /\ PragmaFresh' /\ ClosingKnown' /\ HolderAlone'
  BY <1>1, <1>2, <1>3, NoUserIsNone
     DEF NoUserIsNone, ConnInv, DbTypeOK, DbOneInside, DbConnReady, DbServed, PragmaFresh, ClosingKnown, HolderAlone, DbHolding, appVars, connVars
<1>5. EnginesKnown'
  <2>1. SUFFICES ASSUME ~dbFaulty', appAt' \in Before', NEW k \in dbOpen'
                 PROVE  k = dbConn' \/ \E d \in DbUsers : dbCall'[d].at = "pragma" /\ dbCall'[d].conn = k
    BY DEF EnginesKnown
  <2>2. ~dbFaulty /\ dbCall[c].at # "pragma" /\ appAt \in Before /\ k \in dbOpen /\ dbConn' = dbConn
    BY <1>2, <1>3, <2>1 DEF appVars, connVars, Before
  <2>3. k = dbConn \/ \E d \in DbUsers : dbCall[d].at = "pragma" /\ dbCall[d].conn = k
    BY <2>2 DEF ConnInv, EnginesKnown
  <2> QED BY <1>1, <2>2, <2>3
<1> QED BY <1>4, <1>5 DEF ConnInv
-----------------------------------------------------------------------------
\* What no user of the connection does: the server, the clock, the shutdown.
LEMMA NoUsersTurn ==
    ASSUME ConnInv, UNCHANGED <<connVars, dbLock, dbCall, dbFaulty, dbRefused>>,
           dbClosing' = dbClosing, appAt' \in Before \cup After,
           appAt' \in Before => appAt \in Before
    PROVE  ConnInv'
  BY DEF ConnInv, DbTypeOK, DbOneInside, DbConnReady, DbServed, PragmaFresh, ClosingKnown, HolderAlone, EnginesKnown, connVars, Before, After

LEMMA ClosingBegins == ASSUME ConnInv, CloseDb PROVE ConnInv'
<1>1. /\ appAt' \in After /\ appAt' \notin Before /\ dbClosing' = dbConn
      /\ UNCHANGED <<connVars, dbLock, dbCall, dbFaulty, dbRefused>>
  BY DEF CloseDb, After, Before, connVars, holdVars
<1>2. dbConn <= dbMade
  BY DEF ConnInv, DbTypeOK, DbConnReady
<1>3. \A d \in DbUsers : dbCall[d].at = "pragma" => dbCall[d].conn # dbConn
  BY DEF ConnInv, DbTypeOK, PragmaFresh
<1> QED BY <1>1, <1>2, <1>3
       DEF ConnInv, DbTypeOK, DbOneInside, DbConnReady, DbServed, PragmaFresh, ClosingKnown, HolderAlone, EnginesKnown, connVars

LEMMA ClosingEnds == ASSUME ConnInv, DbClosed PROVE ConnInv'
<1>1. /\ appAt' \in After /\ appAt' \notin Before /\ dbClosing' = 0 /\ dbConn' = 0
      /\ dbOpen' = dbOpen \ {dbClosing} /\ dbReady' = dbReady \ {dbClosing}
      /\ UNCHANGED <<dbMade, dbLock, dbCall, dbFaulty, dbRefused>>
  BY DEF DbClosed, After, Before, holdVars
<1>2. \A d \in DbUsers : dbCall[d].at = "pragma" => dbCall[d].conn # 0
  BY DEF ConnInv, DbTypeOK, PragmaFresh
<1> QED BY <1>1, <1>2
       DEF ConnInv, DbTypeOK, DbOneInside, DbConnReady, DbServed, PragmaFresh, ClosingKnown, HolderAlone, EnginesKnown

LEMMA ClosingFails == ASSUME ConnInv, DbNotClosed PROVE ConnInv'
<1>1. /\ appAt' \in After /\ appAt' \notin Before /\ dbClosing' = 0 /\ dbFaulty'
      /\ UNCHANGED <<connVars, dbLock, dbCall, dbRefused>>
  BY DEF DbNotClosed, After, Before
<1>2. \A d \in DbUsers : dbCall[d].at = "pragma" => dbCall[d].conn # 0
  BY DEF ConnInv, DbTypeOK, PragmaFresh
<1> QED BY <1>1, <1>2
       DEF ConnInv, DbTypeOK, DbOneInside, DbConnReady, DbServed, PragmaFresh, ClosingKnown, HolderAlone, EnginesKnown, connVars

LEMMA ConnInvKept == ASSUME ConnInv, [DbNext]_dbVars PROVE ConnInv'
<1>1. ASSUME NEW c \in DbUsers, DbStep(c) PROVE ConnInv'
  BY <1>1, Asked, Entered, PragmasDone, ProbeAnswered, OldDisposed, SessionOver, Cancelled DEF DbStep
<1>2. CASE ServerTurns \/ CheckIsDue
  BY <1>2, NoUsersTurn DEF ServerTurns, CheckIsDue, appVars, holdVars, ConnInv, DbTypeOK
<1>3. CASE AppStart \/ ShutDown \/ BusStopped \/ FilesStopped
  BY <1>3, NoUsersTurn DEF AppStart, ShutDown, BusStopped, FilesStopped, holdVars, Before, After
<1>4. CASE CloseOthers
  BY <1>4, NoUsersTurn DEF CloseOthers, holdVars, Before, After
<1>5. CASE UNCHANGED dbVars
  BY <1>5, NoUsersTurn DEF dbVars, appVars, holdVars, ConnInv, DbTypeOK
<1> QED BY <1>1, <1>2, <1>3, <1>4, <1>5, ClosingBegins, ClosingEnds, ClosingFails DEF DbNext

\* What a user of the connection does leaves startup and shutdown alone.
LEMMA UserElsewhere == ASSUME NEW c \in DbUsers, DbStep(c) PROVE UNCHANGED appVars /\ (dbFaulty => dbFaulty')
<1>1. UNCHANGED appVars
  BY DEF DbStep, GetConnection, EnterLock, InLock, Pragmas, Probed, Disposed, SessionEnds, UserCancelled
<1>2. dbFaulty => dbFaulty'
  BY DEF DbStep, GetConnection, EnterLock, InLock, Pragmas, Probed, Disposed, SessionEnds, UserCancelled
<1> QED BY <1>1, <1>2

LEMMA PhasesKept == ASSUME ConnInv, Phases, [DbNext]_dbVars PROVE Phases'
<1>1. ASSUME UNCHANGED appVars, dbFaulty => dbFaulty' PROVE Phases'
  BY <1>1 DEF Phases, appVars
<1>2. CASE (\E c \in DbUsers : DbStep(c)) \/ UNCHANGED dbVars \/ ServerTurns \/ CheckIsDue
  BY <1>1, <1>2, UserElsewhere DEF dbVars, ServerTurns, CheckIsDue, holdVars
<1>3. CASE AppStart
  BY <1>3 DEF AppStart, Phases, Before, After
<1>4. CASE ShutDown
  BY <1>4 DEF ShutDown, Phases, Before, After
<1>5. CASE BusStopped
  <2>1. appLoops = BusLoops \cup {"mcp", "files"} \cup (IF runCron THEN {"cron"} ELSE {}) /\ appClosed = {}
    BY <1>5 DEF BusStopped, Phases, Before
  <2>2. appLoops' \subseteq {"files"}
    BY <1>5, <2>1 DEF BusStopped
  <2> QED BY <1>5, <2>1, <2>2 DEF BusStopped, Phases, Before, After
<1>6. CASE FilesStopped
  BY <1>6 DEF FilesStopped, Phases, Before, After
<1>7. CASE CloseDb
  BY <1>7 DEF CloseDb, Phases, Before, After
<1>8. CASE DbClosed
  BY <1>8 DEF DbClosed, Phases, Before, After
<1>9. CASE DbNotClosed
  BY <1>9 DEF DbNotClosed, Phases, Before, After
<1>10. CASE CloseOthers
  BY <1>10 DEF CloseOthers, holdVars, Phases, Before, After
<1> QED BY <1>2, <1>3, <1>4, <1>5, <1>6, <1>7, <1>8, <1>9, <1>10 DEF DbNext

LEMMA InvAtStart == DbInit => Inv
<1> SUFFICES ASSUME DbInit PROVE Inv
  OBVIOUS
<1>1. DbTypeOK
  BY DEF DbInit, DbTypeOK, Before, After, Calls, Steps, DbIdle
<1>2. \A c \in DbUsers : dbCall[c].at = "idle"
  BY DEF DbInit, DbIdle
<1> QED BY <1>1, <1>2, NoUserIsNone
       DEF NoUserIsNone, DbInit, Inv, ConnInv, DbOneInside, DbConnReady, DbServed, PragmaFresh, ClosingKnown, HolderAlone, EnginesKnown, DbHolding, Phases, Before, After

\* The engine that is known is the one of the connection, or one whose PRAGMAs
\* run, and then there is no connection and nobody else makes one.
LEMMA InvIsSound == Inv => AppServicesSound
<1> SUFFICES ASSUME Inv PROVE DbOneEngine /\ AppStops
  BY DEF Inv, ConnInv, AppServicesSound
<1>1. DbOneEngine
  <2> SUFFICES ASSUME ~dbFaulty, appAt \in Before, NEW j \in dbOpen, NEW k \in dbOpen PROVE j = k
    BY DEF DbOneEngine
  <2>1. \A i \in dbOpen : i # 0
    BY DEF Inv, ConnInv, DbTypeOK
  <2>2. \A i \in dbOpen : i = dbConn \/ \E c \in DbUsers : dbCall[c].at = "pragma" /\ dbCall[c].conn = i
    BY DEF Inv, ConnInv, EnginesKnown
  <2>3. \A c, d \in DbUsers : dbCall[c].at = "pragma" /\ dbCall[d].at = "pragma" => c = d /\ dbConn = 0
    BY DEF Inv, ConnInv, DbOneInside, PragmaFresh, DbHolding
  <2> QED BY <2>1, <2>2, <2>3
<1>2. AppStops
  BY DEF Inv, Phases, AppStops, After
<1> QED BY <1>1, <1>2

\* Whatever the users of the database, the server, the clock, cancellations and
\* the shutdown do: get_db never lacks a connection before close_db begins, a
\* replacement leaves no engine behind, and the shutdown leaves no loop behind.
THEOREM ConnectionServed == DbSpec => []AppServicesSound
<1>1. DbInit => Inv
  BY InvAtStart
<1>2. Inv /\ [DbNext]_dbVars => Inv'
  BY ConnInvKept, PhasesKept DEF Inv
<1>3. Inv => AppServicesSound
  BY InvIsSound
<1> QED BY <1>1, <1>2, <1>3, PTL DEF DbSpec

-----------------------------------------------------------------------------
(***************************************************************************)
(* The lock of the redis client, for any number of owners.                 *)
(***************************************************************************)

LockTyped ==
    /\ lockKey \in LockOwners \cup {NoOwner}
    /\ lockAcquired \in [LockOwners -> BOOLEAN] /\ lockLive \in [LockOwners -> BOOLEAN]

\* The lock is exclusive for any number of owners, failures and expiries: who
\* sets the key finds it absent, so no other owner's key was live.
THEOREM LockIsExclusive == LockSpec => []LockExclusive
<1>1. LockInit => LockTyped /\ LockExclusive
  BY DEF LockInit, LockTyped, LockExclusive
<1>2. ASSUME LockTyped, LockExclusive, [LockNext]_lockVars PROVE LockTyped' /\ LockExclusive'
  <2> USE DEF LockTyped, LockExclusive
  <2>1. ASSUME NEW o \in LockOwners, BeginAcquire(o) PROVE LockTyped' /\ LockExclusive'
    BY <1>2, <2>1 DEF BeginAcquire, DeleteIfEqual
  <2>2. ASSUME NEW o \in LockOwners, SetKey(o) PROVE LockTyped' /\ LockExclusive'
    BY <1>2, <2>2, NoOwnerIsNone DEF SetKey, SetIfAbsent, NoOwnerIsNone
  <2>3. ASSUME NEW o \in LockOwners, Release(o) PROVE LockTyped' /\ LockExclusive'
    BY <1>2, <2>3 DEF Release, DeleteIfEqual
  <2>4. CASE KeyExpires
    BY <1>2, <2>4 DEF KeyExpires
  <2>5. CASE UNCHANGED lockVars
    BY <1>2, <2>5 DEF lockVars
  <2> QED BY <1>2, <2>1, <2>2, <2>3, <2>4, <2>5 DEF LockNext
<1> QED BY <1>1, <1>2, PTL DEF LockSpec

-----------------------------------------------------------------------------
(***************************************************************************)
(* The queue of the redis client: no message is lost, for any number of    *)
(* producers, consumers and faults.                                        *)
(***************************************************************************)

ConsumerStates == [at : {"idle", "group", "read", "have", "add", "ack"},
                   tries : Nat, after : Nat, holds : Nat, scan : BOOLEAN]
QueueTypeOK ==
    /\ stream \in Seq(QueueMsgs) /\ Len(stream) <= MaxStream
    /\ group \in Nat /\ (group = NoGroup \/ group <= Len(stream))
    /\ pending \in [Ids -> Consumers \cup {NoMsg}]
    /\ \A i \in Ids : pending[i] # NoMsg => i <= Len(stream)
    /\ producer \in [QueueMsgs -> [tries : Nat, told : {"none", "yes", "no"}]]
    /\ consumer \in [Consumers -> ConsumerStates]
    /\ \A c \in Consumers : consumer[c].at \in {"have", "add", "ack"} => consumer[c].holds \in 1 .. Len(stream)

\* An entry that is still to be delivered, or to be acknowledged.
Live(i) == group = NoGroup \/ i > group \/ pending[i] # NoMsg
\* The message of an entry needs it no longer: it is handled, or there is a later
\* live entry with it.
Copied(i) == stream[i] \in done \/ \E j \in 1 .. Len(stream) : j > i /\ stream[j] = stream[i] /\ Live(j)

\* Who has put a message back may acknowledge the old entry.
PutBack == \A c \in Consumers, i \in 1 .. Len(stream) :
    consumer[c].at = "ack" /\ consumer[c].holds = i => Copied(i)
QueueInv == QueueTypeOK /\ PutBack /\ QueueKeeps

\* The stream only grows at its end.
StreamGrows == Len(stream) <= Len(stream') /\ \A i \in 1 .. Len(stream) : stream'[i] = stream[i]

LEMMA Grown == ASSUME QueueTypeOK, stream' = stream \/ \E m \in QueueMsgs : stream' = Append(stream, m)
    PROVE StreamGrows
<1>1. CASE stream' = stream
  BY <1>1 DEF StreamGrows, QueueTypeOK
<1>2. CASE \E m \in QueueMsgs : stream' = Append(stream, m)
  BY <1>2, AppendProperties DEF StreamGrows, QueueTypeOK
<1> QED BY <1>1, <1>2

\* What a step has to see to: entries go on to live unless their messages are
\* handled or there are later entries with them.
LEMMA StillCopied ==
    ASSUME QueueTypeOK, StreamGrows, done \subseteq done',
           \A i \in 1 .. Len(stream) : Live(i) => Live(i)' \/ Copied(i)',
           NEW k \in 1 .. Len(stream), Copied(k), Len(stream') \in Nat
    PROVE Copied(k)'
<1>1. CASE stream[k] \in done
  BY <1>1 DEF StreamGrows, Copied
<1>2. CASE \E j \in 1 .. Len(stream) : j > k /\ stream[j] = stream[k] /\ Live(j)
  <2>1. PICK j \in 1 .. Len(stream) : j > k /\ stream[j] = stream[k] /\ Live(j)
    BY <1>2
  <2>2. Len(stream) \in Nat /\ j \in 1 .. Len(stream')
    BY DEF StreamGrows, QueueTypeOK
  <2>3. stream'[j] = stream'[k]
    BY <2>1 DEF StreamGrows
  <2>4. CASE Live(j)'
    BY <2>1, <2>2, <2>3, <2>4 DEF Copied
  <2>5. CASE stream'[j] \in done'
    BY <2>3, <2>5 DEF Copied
  <2>6. CASE \E l \in 1 .. Len(stream') : l > j /\ stream'[l] = stream'[j] /\ Live(l)'
    <3>1. PICK l \in 1 .. Len(stream') : l > j /\ stream'[l] = stream'[j] /\ Live(l)'
      BY <2>6
    <3>2. l > k
      BY <2>1, <2>2, <3>1
    <3> QED BY <2>3, <3>1, <3>2 DEF Copied
  <2>7. Live(j)' \/ Copied(j)'
    BY <2>1
  <2> QED BY <2>4, <2>5, <2>6, <2>7 DEF Copied
<1> QED BY <1>1, <1>2 DEF Copied

LEMMA Preserved ==
    ASSUME QueueInv, QueueTypeOK', StreamGrows, done \subseteq done',
           \A i \in 1 .. Len(stream) : Live(i) => Live(i)' \/ Copied(i)',
           \A c \in Consumers, i \in 1 .. Len(stream') : consumer'[c].at = "ack" /\ consumer'[c].holds = i =>
               Copied(i)' \/ (consumer[c].at = "ack" /\ consumer[c].holds = i),
           \A m \in QueueMsgs : producer'[m].told = "yes" =>
               \/ producer[m].told = "yes"
               \/ \E i \in 1 .. Len(stream') : stream'[i] = m /\ Live(i)'
    PROVE QueueInv'
<1>0. Len(stream) \in Nat /\ Len(stream') \in Nat
  BY DEF QueueInv, QueueTypeOK
<1>1. PutBack'
  <2> SUFFICES ASSUME NEW c \in Consumers, NEW i \in 1 .. Len(stream'), consumer'[c].at = "ack", consumer'[c].holds = i
               PROVE Copied(i)'
    BY DEF PutBack
  <2>1. CASE consumer[c].at = "ack" /\ consumer[c].holds = i
    <3>1. i \in 1 .. Len(stream) /\ Copied(i)
      BY <2>1 DEF QueueInv, QueueTypeOK, PutBack
    <3> QED BY <1>0, <3>1, StillCopied DEF QueueInv
  <2> QED BY <2>1
<1>2. QueueKeeps'
  <2> SUFFICES ASSUME NEW m \in QueueMsgs, producer'[m].told = "yes", m \notin done'
               PROVE \E i \in 1 .. Len(stream') : stream'[i] = m /\ Live(i)'
    BY DEF QueueKeeps, Live
  <2>1. CASE producer[m].told = "yes"
    <3>1. PICK i \in 1 .. Len(stream) : stream[i] = m /\ Live(i)
      BY <2>1 DEF QueueInv, QueueKeeps, Live
    <3>2. i \in 1 .. Len(stream') /\ stream'[i] = m
      BY <1>0, <3>1 DEF StreamGrows
    <3>3. Live(i)' \/ \E j \in 1 .. Len(stream') : stream'[j] = stream'[i] /\ Live(j)'
      BY <3>1, <3>2 DEF Copied
    <3> QED BY <3>2, <3>3
  <2> QED BY <2>1
<1> QED BY <1>1, <1>2 DEF QueueInv

\* The record of one consumer changes.
LEMMA Moved ==
    ASSUME QueueTypeOK, NEW c \in Consumers, NEW r \in ConsumerStates, consumer' = [consumer EXCEPT ![c] = r]
    PROVE /\ consumer' \in [Consumers -> ConsumerStates] /\ consumer'[c] = r
          /\ \A d \in Consumers : d # c => consumer'[d] = consumer[d]
BY DEF QueueTypeOK

LEMMA RestingTyped == ReadsNothing \in ConsumerStates /\ ReadsNothing.at = "idle" /\ NewId \in Nat
BY QueueAssumption DEF ReadsNothing, ConsumerStates, NewId, QueueAssumption

\* A consumer that tries again, or gives up, has what it had.
LEMMA TriedAgain ==
    ASSUME QueueTypeOK, NEW c \in Consumers, NEW at \in {"group", "add"}, NEW after \in Nat, Again(c, at, after)
    PROVE /\ consumer' \in [Consumers -> ConsumerStates]
          /\ \A d \in Consumers : d # c => consumer'[d] = consumer[d]
          /\ consumer'[c].at = "idle" \/ (consumer'[c].at = at /\ consumer'[c].holds = consumer[c].holds)
<1> DEFINE r == IF consumer[c].tries + 1 = Tries THEN ReadsNothing
                ELSE [at |-> at, tries |-> consumer[c].tries + 1, after |-> after,
                      holds |-> consumer[c].holds, scan |-> consumer[c].scan]
<1>1. consumer[c] \in ConsumerStates
  BY DEF QueueTypeOK
<1>2. r \in ConsumerStates
  BY <1>1, RestingTyped DEF ConsumerStates
<1>3. consumer' = [consumer EXCEPT ![c] = r]
  BY DEF Again
<1>4. r.at = "idle" \/ (r.at = at /\ r.holds = consumer[c].holds)
  BY RestingTyped
<1> HIDE DEF r
<1> QED BY <1>2, <1>3, <1>4, Moved

\* A step of one consumer that leaves the stream and what is delivered alone.
LEMMA OnlyMoves ==
    ASSUME QueueInv, NEW c \in Consumers, UNCHANGED <<stream, group, pending, producer, done>>,
           consumer' \in [Consumers -> ConsumerStates],
           \A d \in Consumers : d # c => consumer'[d] = consumer[d],
           consumer'[c].at \in {"have", "add", "ack"} => consumer'[c].holds \in 1 .. Len(stream),
           consumer'[c].at # "ack"
    PROVE QueueInv'
<1>1. QueueTypeOK'
  <2>1. \A d \in Consumers : consumer'[d].at \in {"have", "add", "ack"} => consumer'[d].holds \in 1 .. Len(stream)
    BY DEF QueueInv, QueueTypeOK
  <2> QED BY <2>1 DEF QueueInv, QueueTypeOK
<1>2. \A i \in 1 .. Len(stream) : Live(i) => Live(i)'
  BY DEF Live
<1>3. StreamGrows
  BY Grown DEF QueueInv
<1>4. \A m \in QueueMsgs : producer'[m].told = producer[m].told
  OBVIOUS
<1>5. \A d \in Consumers : consumer'[d].at = "ack" => consumer'[d] = consumer[d]
  OBVIOUS
<1>6. done \subseteq done'
  OBVIOUS
<1> QED BY <1>1, <1>2, <1>3, <1>4, <1>5, <1>6, Preserved

LEMMA Consuming == ASSUME QueueInv, NEW c \in Consumers, NEW scan \in BOOLEAN, BeginConsume(c, scan) PROVE QueueInv'
<1> DEFINE r == [ReadsNothing EXCEPT !.at = "group", !.scan = scan, !.after = IF scan THEN 0 ELSE NewId]
<1>1. r \in ConsumerStates /\ r.at = "group"
  BY RestingTyped DEF ConsumerStates
<1>2. consumer' = [consumer EXCEPT ![c] = r]
  BY DEF BeginConsume
<1>3. UNCHANGED <<stream, group, pending, producer, done>>
  BY DEF BeginConsume
<1>4. QueueTypeOK
  BY DEF QueueInv
<1> HIDE DEF r
<1>5. /\ consumer' \in [Consumers -> ConsumerStates] /\ consumer'[c] = r
      /\ \A d \in Consumers : d # c => consumer'[d] = consumer[d]
  BY <1>1, <1>2, <1>4, Moved
<1> QED BY <1>1, <1>3, <1>5, OnlyMoves

LEMMA Requeueing == ASSUME QueueInv, NEW c \in Consumers, NEW i \in Ids, BeginRequeue(c, i) PROVE QueueInv'
<1> DEFINE r == [consumer[c] EXCEPT !.at = "add", !.holds = i]
<1>1. QueueTypeOK
  BY DEF QueueInv
<1>2. consumer[c] \in ConsumerStates /\ i \in Nat /\ i \in 1 .. Len(stream)
  BY <1>1, QueueAssumption DEF QueueTypeOK, BeginRequeue, Ids, QueueAssumption
<1>3. r \in ConsumerStates /\ r.at = "add" /\ r.holds = i
  BY <1>2 DEF ConsumerStates
<1>4. consumer' = [consumer EXCEPT ![c] = r]
  BY <1>2 DEF BeginRequeue
<1>5. UNCHANGED <<stream, group, pending, producer, done>>
  BY DEF BeginRequeue
<1> HIDE DEF r
<1>6. /\ consumer' \in [Consumers -> ConsumerStates] /\ consumer'[c] = r
      /\ \A d \in Consumers : d # c => consumer'[d] = consumer[d]
  BY <1>1, <1>3, <1>4, Moved
<1> QED BY <1>2, <1>3, <1>5, <1>6, OnlyMoves

LEMMA Dying == ASSUME QueueInv, NEW c \in Consumers, ConsumerDies(c) PROVE QueueInv'
<1>1. /\ consumer' \in [Consumers -> ConsumerStates] /\ consumer'[c] = ReadsNothing
      /\ \A d \in Consumers : d # c => consumer'[d] = consumer[d]
  BY RestingTyped, Moved DEF ConsumerDies, QueueInv
<1>2. UNCHANGED <<stream, group, pending, producer, done>>
  BY DEF ConsumerDies
<1> QED BY <1>1, <1>2, RestingTyped, OnlyMoves

LEMMA GroupThere == ASSUME QueueInv, NEW c \in Consumers, EnsureGroup(c) PROVE QueueInv'
<1> DEFINE r == [consumer[c] EXCEPT !.at = "read"]
<1>1. QueueTypeOK
  BY DEF QueueInv
<1>2. consumer[c] \in ConsumerStates
  BY <1>1 DEF QueueTypeOK
<1>3. r \in ConsumerStates /\ r.at = "read"
  BY <1>2 DEF ConsumerStates
<1>4. consumer' = [consumer EXCEPT ![c] = r]
  BY <1>2 DEF EnsureGroup
<1> HIDE DEF r
<1>5. /\ consumer' \in [Consumers -> ConsumerStates] /\ consumer'[c] = r
      /\ \A d \in Consumers : d # c => consumer'[d] = consumer[d]
  BY <1>1, <1>3, <1>4, Moved
<1>6. /\ UNCHANGED <<stream, pending, producer, done>>
      /\ group' = IF group = NoGroup THEN 0 ELSE group
  BY DEF EnsureGroup
<1>7. \A d \in Consumers : consumer'[d].at \in {"have", "add", "ack"} => consumer'[d] = consumer[d]
  BY <1>3, <1>5
<1>8. Len(stream) \in Nat
  BY <1>1 DEF QueueTypeOK
<1>9. group' \in Nat /\ (group' = NoGroup \/ group' <= Len(stream))
  BY <1>1, <1>6, <1>8 DEF QueueTypeOK
<1>10. QueueTypeOK'
  BY <1>1, <1>5, <1>6, <1>7, <1>9 DEF QueueTypeOK
<1>11. \A i \in 1 .. Len(stream) : Live(i) => Live(i)'
  BY <1>6, <1>8 DEF Live
<1>12. StreamGrows /\ done \subseteq done' /\ producer' = producer
  BY <1>1, <1>6, Grown
<1> QED BY <1>7, <1>10, <1>11, <1>12, Preserved

\* An entry that is delivered is in the stream, pending with the consumer, and
\* no other entry is less live than before.
LEMMA DeliveredLives ==
    ASSUME QueueInv, NEW c \in Consumers, NEW i, i \in Readable(c), Delivered(c, i), stream' = stream
    PROVE /\ i \in 1 .. Len(stream)
          /\ pending' \in [Ids -> Consumers \cup {NoMsg}]
          /\ \A k \in Ids : pending'[k] # NoMsg => k <= Len(stream)
          /\ group' \in Nat /\ (group' = NoGroup \/ group' <= Len(stream))
          /\ \A k \in 1 .. Len(stream) : Live(k) => Live(k)'
<1>1. QueueTypeOK /\ Len(stream) \in Nat /\ MaxStream \in Nat /\ Len(stream) <= MaxStream /\ c # NoMsg
  BY QueueAssumption DEF QueueInv, QueueTypeOK, QueueAssumption
<1>2. CASE consumer[c].after = NewId
  <2>1. i = group + 1 /\ i <= Len(stream) /\ group' = i /\ pending' = [pending EXCEPT ![i] = c]
    BY <1>2 DEF Readable, Delivered
  <2>2. group \in Nat /\ i \in 1 .. Len(stream) /\ i \in Ids /\ group # NoGroup
    BY <1>1, <2>1 DEF QueueTypeOK, Ids, NoGroup
  <2>3. pending' \in [Ids -> Consumers \cup {NoMsg}] /\ \A k \in Ids : pending'[k] = IF k = i THEN c ELSE pending[k]
    BY <1>1, <2>1, <2>2 DEF QueueTypeOK
  <2>4. \A k \in Ids : pending'[k] # NoMsg => k <= Len(stream)
    BY <1>1, <2>1, <2>3 DEF QueueTypeOK
  <2>5. \A k \in 1 .. Len(stream) : k \in Ids /\ (k > group => k = i \/ k > i)
    BY <1>1, <2>1, <2>2 DEF Ids
  <2>6. \A k \in 1 .. Len(stream) : Live(k) => Live(k)'
    BY <1>1, <2>1, <2>2, <2>3, <2>5 DEF Live
  <2> QED BY <1>1, <2>1, <2>2, <2>3, <2>4, <2>6
<1>3. CASE consumer[c].after # NewId
  <2>1. i \in Ids /\ pending[i] = c /\ group' = group /\ pending' = [pending EXCEPT ![i] = c]
    BY <1>3 DEF Readable, Delivered
  <2>2. i <= Len(stream) /\ pending' = pending
    BY <1>1, <2>1 DEF QueueTypeOK
  <2>3. i \in 1 .. Len(stream)
    BY <1>1, <2>1, <2>2 DEF Ids
  <2> QED BY <1>1, <2>1, <2>2, <2>3 DEF QueueTypeOK, Live
<1> QED BY <1>2, <1>3

\* A step of a consumer that delivers an entry, or none.
LEMMA ReadMoves ==
    ASSUME QueueInv, NEW c \in Consumers, UNCHANGED <<stream, producer, done>>,
           (UNCHANGED <<group, pending>>) \/ \E i \in Readable(c) : Delivered(c, i),
           consumer' \in [Consumers -> ConsumerStates],
           \A d \in Consumers : d # c => consumer'[d] = consumer[d],
           consumer'[c].at \in {"have", "add", "ack"} => consumer'[c].holds \in 1 .. Len(stream),
           consumer'[c].at # "ack"
    PROVE QueueInv'
<1>1. CASE UNCHANGED <<group, pending>>
  BY <1>1, OnlyMoves
<1>2. CASE \E i \in Readable(c) : Delivered(c, i)
  <2>1. PICK i \in Readable(c) : Delivered(c, i)
    BY <1>2
  <2>2. stream' = stream
    OBVIOUS
  <2>3. /\ pending' \in [Ids -> Consumers \cup {NoMsg}]
        /\ \A k \in Ids : pending'[k] # NoMsg => k <= Len(stream)
        /\ group' \in Nat /\ (group' = NoGroup \/ group' <= Len(stream))
        /\ \A k \in 1 .. Len(stream) : Live(k) => Live(k)'
    BY <2>1, <2>2, DeliveredLives
  <2>4. \A d \in Consumers : consumer'[d].at \in {"have", "add", "ack"} => consumer'[d].holds \in 1 .. Len(stream)
    BY DEF QueueInv, QueueTypeOK
  <2>5. QueueTypeOK'
    BY <2>3, <2>4 DEF QueueInv, QueueTypeOK
  <2>6. \A d \in Consumers : consumer'[d].at = "ack" => consumer'[d] = consumer[d]
    OBVIOUS
  <2>7. StreamGrows /\ done \subseteq done' /\ \A m \in QueueMsgs : producer'[m].told = producer[m].told
    BY Grown DEF QueueInv
  <2> QED BY <2>3, <2>5, <2>6, <2>7, Preserved
<1> QED BY <1>1, <1>2

LEMMA EntryRead == ASSUME QueueInv, NEW c \in Consumers, ReadEntry(c) PROVE QueueInv'
<1>1. QueueTypeOK /\ UNCHANGED <<stream, producer, done>> /\ consumer[c] \in ConsumerStates
  BY DEF ReadEntry, QueueInv, QueueTypeOK
<1>2. ASSUME NEW i \in Readable(c), Delivered(c, i), consumer' = [consumer EXCEPT ![c].at = "have", ![c].holds = i]
      PROVE QueueInv'
  <2> DEFINE r == [consumer[c] EXCEPT !.at = "have", !.holds = i]
  <2>1. i \in 1 .. Len(stream)
    BY <1>1, <1>2, DeliveredLives
  <2>0. i \in Nat
    BY <2>1
  <2>2. r \in ConsumerStates /\ r.at = "have" /\ r.holds = i
    BY ONLY <1>1, <2>0 DEF ConsumerStates
  <2>3. consumer' = [consumer EXCEPT ![c] = r]
    BY <1>1, <1>2 DEF ConsumerStates, QueueTypeOK
  <2> HIDE DEF r
  <2>4. /\ consumer' \in [Consumers -> ConsumerStates] /\ consumer'[c] = r
        /\ \A d \in Consumers : d # c => consumer'[d] = consumer[d]
    BY <1>1, <2>2, <2>3, Moved
  <2> QED BY <1>1, <1>2, <2>1, <2>2, <2>4, ReadMoves
<1>3. ASSUME NEW i \in Readable(c), Delivered(c, i), Again(c, "group", i) PROVE QueueInv'
  <2>1. i \in 1 .. Len(stream)
    BY <1>1, <1>3, DeliveredLives
  <2>2. /\ consumer' \in [Consumers -> ConsumerStates] /\ consumer'[c].at \in {"idle", "group"}
        /\ \A d \in Consumers : d # c => consumer'[d] = consumer[d]
    BY <1>1, <1>3, <2>1, TriedAgain
  <2> QED BY <1>1, <1>3, <2>2, ReadMoves
<1>4. ASSUME consumer' = [consumer EXCEPT ![c] = ReadsNothing], UNCHANGED <<group, pending>> PROVE QueueInv'
  BY <1>1, <1>4, RestingTyped, Moved, OnlyMoves
<1> QED BY <1>2, <1>3, <1>4 DEF ReadEntry

LEMMA ReadFailed == ASSUME QueueInv, NEW c \in Consumers, ReadFails(c) PROVE QueueInv'
<1>1. QueueTypeOK /\ UNCHANGED <<stream, producer, done>> /\ consumer[c].after \in Nat /\ Again(c, "group", consumer[c].after)
  BY DEF ReadFails, QueueInv, QueueTypeOK, ConsumerStates
<1>2. /\ consumer' \in [Consumers -> ConsumerStates] /\ consumer'[c].at \in {"idle", "group"}
      /\ \A d \in Consumers : d # c => consumer'[d] = consumer[d]
  BY <1>1, TriedAgain
<1>3. (UNCHANGED <<group, pending>>) \/ \E i \in Readable(c) : Delivered(c, i)
  BY DEF ReadFails
<1> QED BY <1>1, <1>2, <1>3, ReadMoves

\* An entry that is acknowledged is the only one that may live no longer.
LEMMA Acknowledged ==
    ASSUME QueueTypeOK, NEW h \in 1 .. Len(stream), UNCHANGED <<stream, group>>,
           pending' = pending \/ pending' = [pending EXCEPT ![h] = NoMsg]
    PROVE /\ pending' \in [Ids -> Consumers \cup {NoMsg}]
          /\ \A k \in Ids : pending'[k] # NoMsg => k <= Len(stream)
          /\ \A k \in 1 .. Len(stream) : k # h => (Live(k) => Live(k)')
<1>1. \A k \in 1 .. Len(stream) : k \in Ids
  BY QueueAssumption DEF QueueTypeOK, Ids, QueueAssumption
<1>2. CASE pending' = pending
  BY <1>2 DEF QueueTypeOK, Live
<1>3. CASE pending' = [pending EXCEPT ![h] = NoMsg]
  <2>1. pending' \in [Ids -> Consumers \cup {NoMsg}] /\ \A k \in Ids : pending'[k] = IF k = h THEN NoMsg ELSE pending[k]
    BY <1>3 DEF QueueTypeOK
  <2> QED BY <1>1, <2>1 DEF QueueTypeOK, Live
<1> QED BY <1>2, <1>3

LEMMA AckGiven == ASSUME QueueInv, NEW c \in Consumers, Ack(c) PROVE QueueInv'
<1> DEFINE h == consumer[c].holds
           r == IF consumer[c].scan
                THEN [at |-> "group", tries |-> 0, after |-> h, holds |-> 0, scan |-> TRUE] ELSE ReadsNothing
<1>1. /\ QueueTypeOK /\ UNCHANGED <<stream, group, producer>> /\ consumer[c] \in ConsumerStates
      /\ h \in 1 .. Len(stream) /\ consumer' = [consumer EXCEPT ![c] = r]
      /\ done' = done \cup {stream[h]}
      /\ (pending' = pending \/ pending' = [pending EXCEPT ![h] = NoMsg])
  BY DEF Ack, Onward, QueueInv, QueueTypeOK
<1>2. r \in ConsumerStates /\ r.at \in {"group", "idle"}
  BY <1>1, RestingTyped DEF ConsumerStates
<1> HIDE DEF r, h
<1>3. /\ consumer' \in [Consumers -> ConsumerStates] /\ consumer'[c] = r
      /\ \A d \in Consumers : d # c => consumer'[d] = consumer[d]
  BY <1>1, <1>2, Moved
<1>4. /\ pending' \in [Ids -> Consumers \cup {NoMsg}]
      /\ \A k \in Ids : pending'[k] # NoMsg => k <= Len(stream)
      /\ \A k \in 1 .. Len(stream) : k # h => (Live(k) => Live(k)')
  BY <1>1, Acknowledged
<1>5. \A d \in Consumers : consumer'[d].at \in {"have", "add", "ack"} => consumer'[d] = consumer[d]
  BY <1>2, <1>3
<1>6. QueueTypeOK'
  BY <1>1, <1>3, <1>4, <1>5 DEF QueueTypeOK
<1>7. \A k \in 1 .. Len(stream) : k = h => Copied(k)'
  BY <1>1 DEF Copied
<1>8. StreamGrows /\ done \subseteq done' /\ \A m \in QueueMsgs : producer'[m].told = producer[m].told
  BY <1>1, Grown
<1> QED BY <1>4, <1>5, <1>6, <1>7, <1>8, Preserved

LEMMA OldAcked == ASSUME QueueInv, NEW c \in Consumers, RequeueAcks(c) PROVE QueueInv'
<1>1. QueueTypeOK /\ UNCHANGED <<stream, group, producer, done>>
  BY DEF RequeueAcks, QueueInv
<1>2. CASE Again(c, "add", NewId) /\ UNCHANGED pending
  <2>1. /\ consumer' \in [Consumers -> ConsumerStates]
        /\ \A d \in Consumers : d # c => consumer'[d] = consumer[d]
        /\ consumer'[c].at = "idle" \/ (consumer'[c].at = "add" /\ consumer'[c].holds = consumer[c].holds)
    BY <1>1, <1>2, TriedAgain, RestingTyped
  <2>2. consumer[c].holds \in 1 .. Len(stream)
    BY <1>1 DEF RequeueAcks, QueueTypeOK
  <2> QED BY <1>1, <1>2, <2>1, <2>2, OnlyMoves
<1>3. ASSUME NEW h, h = consumer[c].holds, pending' = [pending EXCEPT ![h] = NoMsg],
             consumer' = [consumer EXCEPT ![c] = ReadsNothing]
      PROVE QueueInv'
  <2>1. /\ consumer' \in [Consumers -> ConsumerStates] /\ consumer'[c] = ReadsNothing
        /\ \A d \in Consumers : d # c => consumer'[d] = consumer[d]
    BY <1>1, <1>3, RestingTyped, Moved
  <2>2. h \in 1 .. Len(stream) /\ Copied(h)
    BY <1>1, <1>3 DEF RequeueAcks, QueueInv, QueueTypeOK, PutBack
  <2>3. /\ pending' \in [Ids -> Consumers \cup {NoMsg}]
        /\ \A k \in Ids : pending'[k] # NoMsg => k <= Len(stream)
        /\ \A k \in 1 .. Len(stream) : k # h => (Live(k) => Live(k)')
    BY <1>1, <1>3, <2>2, Acknowledged
  <2>4. \A d \in Consumers : consumer'[d].at \in {"have", "add", "ack"} => consumer'[d] = consumer[d]
    BY <2>1, RestingTyped
  <2>5. QueueTypeOK'
    BY <1>1, <2>1, <2>3, <2>4 DEF QueueTypeOK
  <2>6. Copied(h)'
    <3>1. CASE stream[h] \in done
      BY <1>1, <3>1 DEF Copied
    <3>2. ASSUME NEW j \in 1 .. Len(stream), j > h, stream[j] = stream[h], Live(j) PROVE Copied(h)'
      <4>1. j # h
        BY <2>2, <3>2
      <4> QED BY <1>1, <2>3, <3>2, <4>1 DEF Copied
    <3> QED BY <2>2, <3>1, <3>2 DEF Copied
  <2>7. StreamGrows /\ done \subseteq done' /\ \A m \in QueueMsgs : producer'[m].told = producer[m].told
    BY <1>1, Grown
  <2> QED BY <2>3, <2>4, <2>5, <2>6, <2>7, Preserved
<1> QED BY <1>2, <1>3 DEF RequeueAcks

\* An entry that is added lives, and no other is less live than before.
LEMMA AddedLives ==
    ASSUME QueueTypeOK, NEW m \in QueueMsgs, Added(m), UNCHANGED <<group, pending>>
    PROVE /\ stream' \in Seq(QueueMsgs) /\ Len(stream') = Len(stream) + 1 /\ Len(stream') <= MaxStream
          /\ \A i \in 1 .. Len(stream') : i > Len(stream) => stream'[i] = m /\ Live(i)'
          /\ \A i \in 1 .. Len(stream) : stream'[i] = stream[i] /\ (Live(i) => Live(i)')
<1>1. stream \in Seq(QueueMsgs) /\ Len(stream) \in Nat /\ group \in Nat /\ (group = NoGroup \/ group <= Len(stream))
  BY DEF QueueTypeOK
<1>2. stream' = Append(stream, m) /\ Len(stream) < MaxStream
  BY DEF Added
<1>3. stream' \in Seq(QueueMsgs) /\ Len(stream') = Len(stream) + 1 /\ stream'[Len(stream')] = m
  BY <1>1, <1>2, AppendProperties
<1>4. Len(stream') <= MaxStream
  BY <1>1, <1>2, <1>3, QueueAssumption DEF QueueAssumption
<1>5. \A i \in 1 .. Len(stream) : stream'[i] = stream[i] /\ (Live(i) => Live(i)')
  BY <1>1, <1>2, AppendProperties DEF Live
<1>6. \A i \in 1 .. Len(stream') : i > Len(stream) => i = Len(stream') /\ (group = NoGroup \/ i > group)
  BY <1>1, <1>3
<1>7. \A i \in 1 .. Len(stream') : i > Len(stream) => stream'[i] = m /\ Live(i)'
  BY <1>3, <1>6 DEF Live
<1> QED BY <1>3, <1>4, <1>5, <1>7

\* The type of what does not change when a step adds an entry, or none.
LEMMA AddedTyped ==
    ASSUME QueueTypeOK, NEW m \in QueueMsgs, AddedOrNot(m), UNCHANGED <<group, pending>>,
           consumer' \in [Consumers -> ConsumerStates], producer' \in [QueueMsgs -> [tries : Nat, told : {"none", "yes", "no"}]],
           \A c \in Consumers : consumer'[c].at \in {"have", "add", "ack"} => consumer'[c].holds \in 1 .. Len(stream)
    PROVE /\ QueueTypeOK' /\ StreamGrows
          /\ \A i \in 1 .. Len(stream) : Live(i) => Live(i)'
<1>1. CASE stream' = stream
  BY <1>1, Grown DEF QueueTypeOK, Live
<1>2. CASE Added(m)
  <2>1. /\ stream' \in Seq(QueueMsgs) /\ Len(stream') = Len(stream) + 1 /\ Len(stream') <= MaxStream
        /\ \A i \in 1 .. Len(stream) : stream'[i] = stream[i] /\ (Live(i) => Live(i)')
    BY <1>2, AddedLives
  <2>2. Len(stream) \in Nat
    BY DEF QueueTypeOK
  <2>3. \A i \in 1 .. Len(stream) : i \in 1 .. Len(stream')
    BY <2>1, <2>2
  <2>4. \A i \in Ids : pending'[i] # NoMsg => i <= Len(stream')
    BY <2>1, <2>2 DEF QueueTypeOK, Ids
  <2>5. group' = NoGroup \/ group' <= Len(stream')
    BY <2>1, <2>2 DEF QueueTypeOK
  <2>6. QueueTypeOK'
    BY <2>1, <2>3, <2>4, <2>5 DEF QueueTypeOK
  <2>7. StreamGrows
    <3>1. Len(stream) <= Len(stream')
      BY ONLY <2>1, <2>2
    <3> QED BY ONLY <2>1, <3>1 DEF StreamGrows
  <2> QED BY ONLY <2>1, <2>6, <2>7
<1> QED BY <1>1, <1>2 DEF AddedOrNot

LEMMA CopyAdded == ASSUME QueueInv, NEW c \in Consumers, RequeueAdds(c) PROVE QueueInv'
<1> DEFINE h == consumer[c].holds
           m == stream[h]
<1>1. QueueTypeOK /\ UNCHANGED <<group, pending, producer, done>> /\ consumer[c] \in ConsumerStates
  BY DEF RequeueAdds, QueueInv, QueueTypeOK
<1>2. h \in 1 .. Len(stream) /\ m \in QueueMsgs /\ Len(stream) \in Nat
  BY <1>1 DEF RequeueAdds, QueueTypeOK
<1>3. \A d \in Consumers : consumer[d].at \in {"have", "add", "ack"} => consumer[d].holds \in 1 .. Len(stream)
  BY <1>1 DEF QueueTypeOK
<1>4. CASE Added(m) /\ consumer' = [consumer EXCEPT ![c].at = "ack"]
  <2> DEFINE r == [consumer[c] EXCEPT !.at = "ack"]
  <2>1. r \in ConsumerStates /\ r.at = "ack" /\ r.holds = h
    BY <1>1 DEF ConsumerStates
  <2>2. consumer' = [consumer EXCEPT ![c] = r]
    BY <1>1, <1>4 DEF ConsumerStates, QueueTypeOK
  <2> HIDE DEF r, h, m
  <2>3. /\ consumer' \in [Consumers -> ConsumerStates] /\ consumer'[c] = r
        /\ \A d \in Consumers : d # c => consumer'[d] = consumer[d]
    BY <1>1, <2>1, <2>2, Moved
  <2>4. \A d \in Consumers : consumer'[d].at \in {"have", "add", "ack"} => consumer'[d].holds \in 1 .. Len(stream)
    BY <1>2, <1>3, <2>1, <2>3
  <2>5. producer' \in [QueueMsgs -> [tries : Nat, told : {"none", "yes", "no"}]]
    BY <1>1 DEF QueueTypeOK
  <2>6. /\ QueueTypeOK' /\ StreamGrows
        /\ \A i \in 1 .. Len(stream) : Live(i) => Live(i)'
    BY <1>1, <1>2, <1>4, <2>3, <2>4, <2>5, AddedTyped DEF AddedOrNot
  <2>7. /\ Len(stream') = Len(stream) + 1
        /\ \A i \in 1 .. Len(stream') : i > Len(stream) => stream'[i] = m /\ Live(i)'
    BY <1>1, <1>2, <1>4, AddedLives
  <2>8. Len(stream') \in 1 .. Len(stream') /\ Len(stream') > h
    BY <1>2, <2>7
  <2>9. stream'[h] = m
    BY <1>2, <2>6 DEF StreamGrows, m
  <2>10. \A i \in 1 .. Len(stream') : i = h => Copied(i)'
    BY <1>2, <2>7, <2>8, <2>9 DEF Copied
  <2>11. \A d \in Consumers, i \in 1 .. Len(stream') : consumer'[d].at = "ack" /\ consumer'[d].holds = i =>
               Copied(i)' \/ (consumer[d].at = "ack" /\ consumer[d].holds = i)
    BY <2>1, <2>3, <2>10
  <2>12. done \subseteq done' /\ \A k \in QueueMsgs : producer'[k].told = producer[k].told
    BY <1>1
  <2> QED BY <2>6, <2>11, <2>12, Preserved
<1>5. CASE AddedOrNot(m) /\ Again(c, "add", NewId)
  <2>1. /\ consumer' \in [Consumers -> ConsumerStates]
        /\ \A d \in Consumers : d # c => consumer'[d] = consumer[d]
        /\ consumer'[c].at = "idle" \/ (consumer'[c].at = "add" /\ consumer'[c].holds = h)
    BY <1>1, <1>5, TriedAgain, RestingTyped
  <2> HIDE DEF h, m
  <2>2. \A d \in Consumers : consumer'[d].at \in {"have", "add", "ack"} => consumer'[d].holds \in 1 .. Len(stream)
    BY <1>2, <1>3, <2>1
  <2>3. producer' \in [QueueMsgs -> [tries : Nat, told : {"none", "yes", "no"}]]
    BY <1>1 DEF QueueTypeOK
  <2>4. /\ QueueTypeOK' /\ StreamGrows
        /\ \A i \in 1 .. Len(stream) : Live(i) => Live(i)'
    BY <1>1, <1>2, <1>5, <2>1, <2>2, <2>3, AddedTyped
  <2>5. \A d \in Consumers : consumer'[d].at = "ack" => consumer'[d] = consumer[d]
    BY <2>1
  <2>6. done \subseteq done' /\ \A k \in QueueMsgs : producer'[k].told = producer[k].told
    BY <1>1
  <2> QED BY <2>4, <2>5, <2>6, Preserved
<1> QED BY <1>4, <1>5 DEF RequeueAdds

LEMMA Producing == ASSUME QueueInv, NEW m \in QueueMsgs, Produce(m) PROVE QueueInv'
<1>1. QueueTypeOK /\ UNCHANGED <<group, pending, consumer, done>> /\ AddedOrNot(m)
  BY DEF Produce, QueueInv, AddedOrNot
<1>2. producer \in [QueueMsgs -> [tries : Nat, told : {"none", "yes", "no"}]]
  BY <1>1 DEF QueueTypeOK
<1>3. producer' \in [QueueMsgs -> [tries : Nat, told : {"none", "yes", "no"}]]
  <2>1. CASE producer' = [producer EXCEPT ![m].told = "yes"]
    BY <1>2, <2>1
  <2>2. CASE producer' = [producer EXCEPT ![m] =
                 [tries |-> @.tries + 1, told |-> IF @.tries + 1 = Tries THEN "no" ELSE "none"]]
    BY <1>2, <2>2
  <2> QED BY <2>1, <2>2 DEF Produce
<1>4. \A k \in QueueMsgs : producer'[k].told = "yes" => producer[k].told = "yes" \/ (k = m /\ Added(m))
  BY <1>2 DEF Produce
<1>5. /\ QueueTypeOK' /\ StreamGrows
      /\ \A i \in 1 .. Len(stream) : Live(i) => Live(i)'
  BY <1>1, <1>3, AddedTyped DEF QueueTypeOK
<1>6. Added(m) => \E i \in 1 .. Len(stream') : stream'[i] = m /\ Live(i)'
  <2> SUFFICES ASSUME Added(m) PROVE \E i \in 1 .. Len(stream') : stream'[i] = m /\ Live(i)'
    OBVIOUS
  <2>1. /\ Len(stream') = Len(stream) + 1
        /\ \A i \in 1 .. Len(stream') : i > Len(stream) => stream'[i] = m /\ Live(i)'
    BY <1>1, AddedLives
  <2>2. Len(stream') \in 1 .. Len(stream') /\ Len(stream') > Len(stream)
    BY <1>1, <2>1 DEF QueueTypeOK
  <2> QED BY <2>1, <2>2
<1>7. done \subseteq done' /\ consumer' = consumer
  BY <1>1
<1> QED BY <1>4, <1>5, <1>6, <1>7, Preserved

LEMMA QueueStarts == QueueInit => QueueInv
<1> SUFFICES ASSUME QueueInit PROVE QueueInv
  OBVIOUS
<1>1. stream \in Seq(QueueMsgs) /\ Len(stream) = 0 /\ MaxStream \in Nat
  BY QueueAssumption DEF QueueInit, QueueAssumption
<1>2. /\ \A i \in Ids : pending[i] = NoMsg
      /\ \A c \in Consumers : consumer[c] = ReadsNothing
      /\ \A m \in QueueMsgs : producer[m].told = "none"
  BY DEF QueueInit
<1>3. consumer \in [Consumers -> ConsumerStates] /\ \A c \in Consumers : consumer[c].at = "idle"
  BY <1>2, RestingTyped DEF QueueInit
<1>4. pending \in [Ids -> Consumers \cup {NoMsg}] /\ group = NoGroup /\ group \in Nat
  BY <1>1 DEF QueueInit, NoGroup
<1>5. producer \in [QueueMsgs -> [tries : Nat, told : {"none", "yes", "no"}]]
  BY DEF QueueInit
<1>6. QueueTypeOK
  BY <1>1, <1>2, <1>3, <1>4, <1>5 DEF QueueTypeOK
<1> QED BY <1>2, <1>3, <1>6 DEF QueueInv, PutBack, QueueKeeps

THEOREM MessagesAreKept == QueueSpec => []QueueKeeps
<1>1. ASSUME QueueInv, [QueueNext]_queueVars PROVE QueueInv'
  <2>1. CASE UNCHANGED queueVars
    <3>1. UNCHANGED <<stream, group, pending, producer, consumer, done>>
      BY <2>1 DEF queueVars
    <3>2. QueueTypeOK'
      BY <1>1, <3>1 DEF QueueInv, QueueTypeOK
    <3>3. PutBack' /\ QueueKeeps'
      BY <1>1, <3>1 DEF QueueInv, PutBack, Copied, Live, QueueKeeps
    <3> QED BY <3>2, <3>3 DEF QueueInv
  <2> QED BY <1>1, <2>1, Producing, Consuming, Requeueing, GroupThere, EntryRead, ReadFailed,
             AckGiven, CopyAdded, OldAcked, Dying DEF QueueNext
<1> QED BY <1>1, QueueStarts, PTL DEF QueueSpec, QueueInv
=============================================================================
