------------------------- MODULE SlurmSessionProofs -------------------------
(***************************************************************************)
(* For any number of nodes and instances, if init is not run while a       *)
(* redis.srun is left of an earlier session: what the commands have        *)
(* counted is what the nodes have done.                                    *)
(***************************************************************************)
EXTENDS SlurmSession, FiniteSetTheorems, TLAPS

Places == {"none", "start", "sadd", "pushUp", "blocked", "stop", "srem", "pushDown"}
Port1 == 1..PerNode
Types == /\ shell \in {"idle", "cleaned", "started", "waiting", "stopping"} /\ got \in Nat
         /\ session \in [status : {"none", "failed", "ready"}, addrs : SUBSET Instance]
         /\ central \in {"down", "untagged", "up"}
         /\ waitkey \in Nat /\ order \in BOOLEAN /\ addr \subseteq Instance
         /\ pending \subseteq Node /\ running \subseteq Instance /\ dead \subseteq Instance
         /\ script \in [Node -> [at : Places, port : Port1]]

\* What redis.srun has done on its way up with the instance at port k of node n.
Started(n, k) == \/ At(n) = "blocked"
                 \/ At(n) = "start" /\ k < script[n].port
                 \/ At(n) \in {"sadd", "pushUp"} /\ k <= script[n].port
Added(n, k) == \/ At(n) = "blocked"
               \/ At(n) \in {"start", "sadd"} /\ k < script[n].port
               \/ At(n) = "pushUp" /\ k <= script[n].port
Announced(n, k) == \/ At(n) = "blocked"
                   \/ At(n) \in {"start", "sadd", "pushUp"} /\ k < script[n].port
\* And on its way down.
Remains(n, k) == \/ At(n) = "blocked"
                 \/ At(n) = "stop" /\ k >= script[n].port
                 \/ At(n) \in {"srem", "pushDown"} /\ k > script[n].port
Gone(n, k) == \/ At(n) = "none"
              \/ At(n) \in {"stop", "srem", "pushDown"} /\ k < script[n].port

Rising(n) == /\ IF n \in pending THEN At(n) = "none" ELSE At(n) \in {"start", "sadd", "pushUp", "blocked"}
             /\ \A k \in Port1 : /\ <<n, k>> \in running <=> Started(n, k)
                                 /\ <<n, k>> \in addr <=> Added(n, k)
Sinking(n) == /\ n \notin pending /\ At(n) \in {"none", "blocked", "stop", "srem", "pushDown"}
              /\ \A k \in Port1 : <<n, k>> \in running \cup dead => Remains(n, k)
Up == {i \in Instance : Announced(i[1], i[2])}
Down == {i \in Instance : Gone(i[1], i[2])}

Rest == pending = {} /\ running = {} /\ dead = {} /\ \A n \in Node : At(n) = "none"
Empty == waitkey = 0 /\ order = FALSE /\ addr = {}

\* The phases of a session.
Off == /\ shell \in {"idle", "cleaned", "started"} /\ session = Session("none", {}) /\ got = 0
       /\ central # "up" /\ Empty /\ Rest
Starting == /\ shell = "waiting" /\ session = Session("none", {}) /\ central = "up" /\ order = FALSE
            /\ dead = {} /\ (\A n \in Node : Rising(n)) /\ waitkey + got = Cardinality(Up)
Serving == /\ shell = "idle" /\ session = Session("ready", Instance) /\ central = "up" /\ got = 0
           /\ waitkey = 0 /\ order = FALSE /\ pending = {} /\ running = Instance \ dead
           /\ \A n \in Node : At(n) = "blocked"
Stopping == /\ shell = "stopping" /\ session = Session("ready", Instance) /\ central = "up"
            /\ (\A n \in Node : Sinking(n)) /\ waitkey + got = Cardinality(Down)
Failed == /\ shell = "idle" /\ got = 0 /\ Empty /\ \A n \in Node : Sinking(n)
          /\ \/ session.status = "failed" /\ central # "up" /\ (central = "untagged" => Rest)
             \/ session = Session("ready", Instance) /\ central = "down"
Inv == Types /\ (Off \/ Starting \/ Serving \/ Stopping \/ Failed)
-----------------------------------------------------------------------------
\* There are Total instances.
LEMMA Instances == /\ IsFiniteSet(Instance) /\ Cardinality(Instance) = Total /\ Total \in Nat
                   /\ 1 \in Port1 /\ PerNode \in Port1
<1>1. IsFiniteSet(1..PerNode) /\ Cardinality(1..PerNode) = PerNode
  BY FS_Interval, SessionAssumption
<1>2. Cardinality(Node) \in Nat
  BY FS_CardinalityType, SessionAssumption
<1>3. IsFiniteSet(Instance) /\ Cardinality(Instance) = Cardinality(Node) * Cardinality(1..PerNode)
  BY <1>1, FS_Product, SessionAssumption DEF Instance
<1> QED
  BY <1>1, <1>2, <1>3, SessionAssumption DEF Total, Port1

\* What has been counted is a number, at most Total, and Total only if it is all.
LEMMA Counting ==
  ASSUME NEW S, S \subseteq Instance
  PROVE  /\ IsFiniteSet(S) /\ Cardinality(S) \in 0..Total
         /\ Cardinality(S) = Total => S = Instance
<1>1. IsFiniteSet(S) /\ Cardinality(S) <= Total /\ (Cardinality(S) = Total => S = Instance)
  BY FS_Subset, Instances
<1> QED
  BY <1>1, Instances, FS_CardinalityType

\* One more instance is counted.
LEMMA CountOne ==
  ASSUME NEW S, S \subseteq Instance, NEW i, i \notin S, NEW T, T = S \cup {i}
  PROVE  Cardinality(T) = Cardinality(S) + 1
BY Counting, FS_AddElement

\* A redis.srun moves alone.
LEMMA MoveFacts ==
  ASSUME Types, NEW n \in Node, NEW from, NEW to \in Places, NEW port \in Port1,
         Moves(n, from, to, port)
  PROVE  /\ At(n) = from /\ script' \in [Node -> [at : Places, port : Port1]]
         /\ script'[n].at = to /\ script'[n].port = port
         /\ \A m \in Node : m # n => script'[m] = script[m]
BY DEF Types, Moves, Script, At

\* The port a redis.srun is at, and the one after.
LEMMA PortFacts ==
  ASSUME Types, NEW n \in Node
  PROVE  /\ script[n].port \in Port1 /\ Port(n) = <<n, script[n].port>> /\ Port(n) \in Instance
         /\ script[n].port < PerNode => script[n].port + 1 \in Port1
BY SessionAssumption DEF Types, Port1, Port, Instance

\* Cleaning up leaves no central Redis that is tagged, or does nothing.
LEMMA CleanupFacts ==
  ASSUME Types, Cleanup \/ GoesDown
  PROVE  /\ script' \in [Node -> [at : Places, port : Port1]]
         /\ central' \in {"down", "untagged"} /\ waitkey' \in Nat /\ order' \in BOOLEAN /\ addr' \subseteq Instance
         /\ \/ UNCHANGED <<central, keys, script>>
            \/ /\ central' = "down" /\ Empty'
               /\ \A n \in Node : IF At(n) = "blocked" THEN script'[n] = Script("stop", 1)
                                                      ELSE script'[n] = script[n]
<1>1. CASE GoesDown
  BY <1>1, Instances DEF Types, GoesDown, Script, Places, Empty
<1>2. CASE Cleanup /\ central # "up"
  BY <1>2 DEF Cleanup, Types, keys
<1> QED
  BY <1>1, <1>2 DEF Cleanup

\* The state keeps its types.
LEMMA TypesStep == Types /\ [Next]_vars => Types'
<1> SUFFICES ASSUME Types, [Next]_vars PROVE Types'
  OBVIOUS
<1>1. CASE UNCHANGED vars
  BY <1>1 DEF vars, keys, nodes, Types
<1>2. CASE Command
  <2>1. CASE StartCentral \/ Launch \/ WriteSession
    BY <2>1 DEF StartCentral, Launch, WriteSession, Types, keys, nodes, Session
  <2>2. CASE Pop
    BY <2>2 DEF Pop, Types, nodes
  <2>3. CASE StartFails \/ CleanAfter
    BY <2>3, CleanupFacts DEF StartFails, CleanAfter, Fail, Types, Session
  <2> QED
    BY <1>2, <2>1, <2>2, <2>3 DEF Command
<1>3. CASE User
  <2>1. CASE CleanBefore \/ FinalizeFails
    BY <2>1, CleanupFacts DEF CleanBefore, FinalizeFails, Fail, Types, Session
  <2>2. CASE Order
    BY <2>2 DEF Order, Types, nodes
  <2> QED
    BY <1>3, <2>1, <2>2 DEF User
<1>4. CASE Failure
  <2>1. CASE CentralDies
    BY <2>1, CleanupFacts DEF CentralDies, Types
  <2>2. CASE \E i \in Instance : RedisDies(i)
    BY <2>2 DEF RedisDies, Types, keys
  <2> QED
    BY <1>4, <2>1, <2>2 DEF Failure
<1>5. ASSUME NEW n \in Node, RedisSrun(n) PROVE Types'
  <2> USE Instances, PortFacts DEF Places
  <2>1. CASE RunScript(n)
    BY <2>1, MoveFacts DEF RunScript, Types, keys
  <2>2. CASE StartRedis(n)
    <3>1. script' \in [Node -> [at : Places, port : Port1]]
      BY <2>2, MoveFacts DEF StartRedis
    <3> QED
      BY <2>2, <3>1 DEF StartRedis, Types, keys
  <2>3. CASE AddAddr(n)
    <3>1. script' \in [Node -> [at : Places, port : Port1]]
      BY <2>3, MoveFacts DEF AddAddr
    <3> QED
      BY <2>3, <3>1 DEF AddAddr, Types
  <2>4. CASE PushUp(n) \/ PushDown(n)
    <3>1. script' \in [Node -> [at : Places, port : Port1]]
      BY <2>4, MoveFacts DEF PushUp, PushDown
    <3> QED
      BY <2>4, <3>1 DEF PushUp, PushDown, Push, Types
  <2>5. CASE Ordered(n)
    BY <2>5, MoveFacts DEF Ordered, Types, keys
  <2>6. CASE StopRedis(n)
    BY <2>6, MoveFacts DEF StopRedis, Types, keys
  <2>7. CASE RemoveAddr(n)
    BY <2>7, MoveFacts DEF RemoveAddr, Types
  <2> QED
    BY <1>5, <2>1, <2>2, <2>3, <2>4, <2>5, <2>6, <2>7 DEF RedisSrun
<1> QED
  BY <1>1, <1>2, <1>3, <1>4, <1>5 DEF Next
-----------------------------------------------------------------------------
\* While the instances come up, only the last command of each is counted.
LEMMA RisingStep ==
  ASSUME Types, Starting, NEW n \in Node, RedisSrun(n)
  PROVE  Starting'
<1> DEFINE port == script[n].port
<1>1. /\ port \in Port1 /\ Port(n) = <<n, port>> /\ Rising(n) /\ PerNode \in Nat \ {0}
      /\ 1 \in Port1 /\ PerNode \in Port1 /\ (port < PerNode => port + 1 \in Port1)
  BY PortFacts, Instances, SessionAssumption DEF Starting
<1>2. RunScript(n) \/ StartRedis(n) \/ AddAddr(n) \/ PushUp(n)
  BY <1>1 DEF RedisSrun, Starting, Rising, Ordered, StopRedis, RemoveAddr, PushDown, Moves
<1>3. UNCHANGED <<shell, got, session, central, order, dead>>
  BY <1>2 DEF RunScript, StartRedis, AddAddr, PushUp, Push, keys
<1>4. ASSUME NEW to \in Places, NEW q \in Port1, script'[n].at = to, script'[n].port = q,
             \A m \in Node : m # n => script'[m] = script[m] /\ (m \in pending' <=> m \in pending),
             \A m \in Node, k \in Port1 :
               m # n => /\ <<m, k>> \in running' <=> <<m, k>> \in running
                        /\ <<m, k>> \in addr' <=> <<m, k>> \in addr,
             Rising(n)'
      PROVE  \A m \in Node : Rising(m)'
  BY <1>4 DEF Starting, Rising, Started, Added, At
<1>5. CASE RunScript(n)
  <2>1. /\ n \in pending /\ At(n) = "none" /\ script'[n].at = "start" /\ script'[n].port = 1
        /\ \A m \in Node : m # n => script'[m] = script[m]
        /\ pending' = pending \ {n} /\ UNCHANGED <<running, addr, waitkey>>
    BY ZenonT(60), <1>1, <1>5, MoveFacts DEF RunScript, keys, Places
  <2>2. Rising(n)'
    BY <1>1, <2>1 DEF Rising, Started, Added, At, Port1
  <2>3. \A m \in Node : Rising(m)'
    BY <1>1, <1>4, <2>1, <2>2 DEF Places
  <2>4. Up' = Up
    BY <2>1 DEF Up, Announced, At, Instance
  <2> QED
    BY <1>3, <2>1, <2>3, <2>4 DEF Starting
<1>6. CASE StartRedis(n)
  <2>1. /\ At(n) = "start" /\ script'[n].at = "sadd" /\ script'[n].port = port
        /\ \A m \in Node : m # n => script'[m] = script[m]
        /\ running' = running \cup {<<n, port>>} /\ UNCHANGED <<pending, addr, waitkey>>
    BY ZenonT(60), <1>1, <1>6, MoveFacts DEF StartRedis, keys, Places
  <2>2. Rising(n)'
    BY <1>1, <2>1 DEF Rising, Started, Added, At, Port1
  <2>3. \A m \in Node : Rising(m)'
    BY <1>1, <1>4, <2>1, <2>2 DEF Places
  <2>4. Up' = Up
    BY <2>1 DEF Up, Announced, At, Instance
  <2> QED
    BY <1>3, <2>1, <2>3, <2>4 DEF Starting
<1>7. CASE AddAddr(n)
  <2>1. /\ At(n) = "sadd" /\ script'[n].at = "pushUp" /\ script'[n].port = port
        /\ \A m \in Node : m # n => script'[m] = script[m]
        /\ addr' = addr \cup {<<n, port>>} /\ UNCHANGED <<pending, running, waitkey>>
    BY ZenonT(60), <1>1, <1>7, MoveFacts DEF AddAddr, Starting, Places
  <2>2. Rising(n)'
    BY <1>1, <2>1 DEF Rising, Started, Added, At, Port1
  <2>3. \A m \in Node : Rising(m)'
    BY <1>1, <1>4, <2>1, <2>2 DEF Places
  <2>4. Up' = Up
    BY <2>1 DEF Up, Announced, At, Instance
  <2> QED
    BY <1>3, <2>1, <2>3, <2>4 DEF Starting
<1>8. CASE PushUp(n)
  <2>1. /\ At(n) = "pushUp" /\ waitkey' = waitkey + 1 /\ UNCHANGED <<pending, running, addr>>
        /\ \A m \in Node : m # n => script'[m] = script[m]
        /\ IF port < PerNode THEN script'[n].at = "start" /\ script'[n].port = port + 1
                             ELSE script'[n].at = "blocked" /\ script'[n].port = 1
    BY ZenonT(60), <1>1, <1>8, MoveFacts DEF PushUp, Push, Starting, Places
  <2>2. Rising(n)'
    BY <1>1, <2>1 DEF Rising, Started, Added, At, Port1
  <2>3. \A m \in Node : Rising(m)'
    BY <1>1, <1>4, <2>1, <2>2 DEF Places
  <2>4. Up' = Up \cup {<<n, port>>} /\ <<n, port>> \notin Up /\ Up \subseteq Instance
    BY <1>1, <2>1 DEF Up, Announced, At, Instance, Port1
  <2>5. Cardinality(Up') = Cardinality(Up) + 1
    BY <2>4, CountOne
  <2>6. waitkey' + got' = Cardinality(Up')
    BY <1>3, <2>1, <2>5 DEF Starting, Types
  <2> QED
    BY <1>3, <2>3, <2>6 DEF Starting
<1> QED
  BY <1>2, <1>5, <1>6, <1>7, <1>8

\* While they go down, with the central Redis or without it.
LEMMA SinkingStep ==
  ASSUME Types, \A m \in Node : Sinking(m), NEW n \in Node, RedisSrun(n)
  PROVE  /\ \A m \in Node : Sinking(m)'
         /\ UNCHANGED <<shell, got, session, central, order, pending>>
         /\ addr = {} => addr' = {}
         /\ Cardinality(Down') = Cardinality(Down) + (IF PushDown(n) THEN 1 ELSE 0)
         /\ waitkey' = waitkey + (IF PushDown(n) /\ central # "down" THEN 1 ELSE 0)
<1> DEFINE port == script[n].port
<1>1. /\ port \in Port1 /\ Port(n) = <<n, port>> /\ Sinking(n) /\ PerNode \in Nat \ {0}
      /\ 1 \in Port1 /\ PerNode \in Port1 /\ (port < PerNode => port + 1 \in Port1)
  BY PortFacts, Instances, SessionAssumption
<1>2. Ordered(n) \/ StopRedis(n) \/ RemoveAddr(n) \/ PushDown(n)
  BY <1>1 DEF RedisSrun, Sinking, RunScript, StartRedis, AddAddr, PushUp, Moves
<1>3. /\ UNCHANGED <<shell, got, session, central, order, pending>> /\ (addr = {} => addr' = {})
      /\ running' \cup dead' \subseteq running \cup dead
  BY <1>2 DEF Ordered, StopRedis, RemoveAddr, PushDown, Push, keys
<1>4. ASSUME \A m \in Node : m # n => script'[m] = script[m], Sinking(n)'
      PROVE  \A m \in Node : Sinking(m)'
  BY <1>3, <1>4 DEF Sinking, Remains, At
<1>5. CASE Ordered(n) \/ StopRedis(n) \/ RemoveAddr(n)
  <2>1. /\ \A m \in Node : m # n => script'[m] = script[m]
        /\ \/ At(n) = "blocked" /\ script'[n].at = "stop" /\ script'[n].port = 1
           \/ /\ At(n) = "stop" /\ script'[n].at = "srem" /\ script'[n].port = port
              /\ <<n, port>> \notin running' \cup dead'
           \/ At(n) = "srem" /\ script'[n].at = "pushDown" /\ script'[n].port = port
    BY ZenonT(60), <1>1, <1>5, MoveFacts DEF Ordered, StopRedis, RemoveAddr, Places
  <2>2. Sinking(n)'
    BY <1>1, <1>3, <2>1 DEF Sinking, Remains, At, Port1
  <2>3. Down' = Down
    BY <2>1 DEF Down, Gone, At, Instance
  <2>4. ~PushDown(n) /\ waitkey' = waitkey
    BY <1>5, <2>1 DEF Ordered, StopRedis, RemoveAddr, PushDown, Moves, keys, At
  <2>5. Cardinality(Down) \in Nat
    BY Counting, Instances DEF Down
  <2> QED
    BY <1>3, <1>4, <2>1, <2>2, <2>3, <2>4, <2>5 DEF Types
<1>6. CASE PushDown(n)
  <2>1. /\ At(n) = "pushDown" /\ waitkey' = IF central = "down" THEN waitkey ELSE waitkey + 1
        /\ \A m \in Node : m # n => script'[m] = script[m]
        /\ IF port < PerNode THEN script'[n].at = "stop" /\ script'[n].port = port + 1
                             ELSE script'[n].at = "none" /\ script'[n].port = 1
    <3>1. CASE port < PerNode
      <4>1. Moves(n, "pushDown", "stop", port + 1) /\ port + 1 \in Port1
        BY <1>1, <1>6, <3>1 DEF PushDown
      <4>2. At(n) = "pushDown" /\ script'[n].at = "stop" /\ script'[n].port = port + 1
            /\ \A m \in Node : m # n => script'[m] = script[m]
        BY <4>1, MoveFacts DEF Places
      <4> QED
        BY <1>6, <3>1, <4>2 DEF PushDown, Push
    <3>2. CASE ~(port < PerNode)
      <4>1. Moves(n, "pushDown", "none", 1) /\ "none" \in Places
        BY <1>6, <3>2 DEF PushDown, Places
      <4>2. At(n) = "pushDown" /\ script'[n].at = "none" /\ script'[n].port = 1
            /\ \A m \in Node : m # n => script'[m] = script[m]
        BY <1>1, <4>1, MoveFacts
      <4> QED
        BY <1>6, <3>2, <4>2 DEF PushDown, Push
    <3> QED
      BY <3>1, <3>2
  <2>2. Sinking(n)'
    BY <1>1, <1>3, <2>1 DEF Sinking, Remains, At, Port1
  <2>3. Down' = Down \cup {<<n, port>>} /\ <<n, port>> \notin Down /\ Down \subseteq Instance
    BY <1>1, <2>1 DEF Down, Gone, At, Instance, Port1
  <2>4. Cardinality(Down') = Cardinality(Down) + 1
    BY <2>3, CountOne
  <2> QED
    BY <1>3, <1>4, <1>6, <2>1, <2>2, <2>4 DEF Types
<1> QED
  BY <1>2, <1>5, <1>6
-----------------------------------------------------------------------------
\* At the start there is no session.
LEMMA InvInit == Init => Inv
<1> SUFFICES ASSUME Init PROVE Inv
  OBVIOUS
<1>1. Types
  BY Instances DEF Init, Types, Session, Script, Places
<1>2. Off
  BY DEF Init, Off, Rest, Empty, At, Script
<1> QED
  BY <1>1, <1>2 DEF Inv

\* With no redis.srun about, none moves, and cleaning up finds nothing to do.
LEMMA FromOff == ASSUME Types, Off, Next, ~Again PROVE Off' \/ Starting' \/ Failed'
<1>1. ASSUME NEW n \in Node PROVE ~RedisSrun(n)
  BY DEF Off, Rest, RedisSrun, RunScript, StartRedis, AddAddr, PushUp, Ordered, StopRedis,
         RemoveAddr, PushDown, Moves
<1>2. Cleanup => UNCHANGED <<central, keys, script>>
  BY DEF Off, Cleanup
<1>3. CASE CleanBefore
  BY <1>2, <1>3 DEF CleanBefore, Off, Rest, Empty, keys, At
<1>4. CASE StartCentral
  BY <1>4 DEF StartCentral, Off, Rest, Empty, keys, nodes, At
<1>5. CASE StartFails \/ FinalizeFails
  <2>1. /\ shell' = "idle" /\ session' = Session("failed", {})
        /\ UNCHANGED <<got, central, keys, script, pending, running, dead>>
    BY <1>2, <1>5 DEF StartFails, FinalizeFails, Fail
  <2>2. Rest' /\ Empty' /\ \A n \in Node : Sinking(n)'
    BY <2>1 DEF Off, Rest, Empty, Sinking, Remains, keys, At
  <2> QED
    BY <2>1, <2>2 DEF Off, Failed, Session
<1>6. CASE Launch
  <2>1. /\ shell' = "waiting" /\ central' = "up" /\ pending' = Node
        /\ UNCHANGED <<got, session, waitkey, order, addr, script, running, dead>>
    BY <1>6 DEF Launch, keys
  <2>2. \A n \in Node : Rising(n)'
    BY <2>1 DEF Off, Rest, Empty, Rising, Started, Added, At
  <2>3. Up' = {}
    BY <2>1 DEF Off, Rest, Up, Announced, At, Instance
  <2> QED
    BY <2>1, <2>2, <2>3, FS_EmptySet DEF Off, Rest, Empty, Starting
<1> QED
  BY <1>1, <1>3, <1>4, <1>5, <1>6
     DEF Off, Next, Command, User, Failure, Pop, WriteSession, CleanAfter, Order, CentralDies,
         RedisDies, Session

\* init ends when all instances have been counted, which is when all are up.
LEMMA FromStarting == ASSUME Types, Starting, Next PROVE Starting' \/ Serving'
<1>1. CASE Pop
  <2>1. waitkey' + got' = waitkey + got /\ UNCHANGED <<shell, session, central, order, addr, nodes>>
    BY <1>1 DEF Pop, Types
  <2>2. Up' = Up /\ \A n \in Node : Rising(n)'
    BY <2>1 DEF Starting, Up, Announced, Rising, Started, Added, At, nodes
  <2> QED
    BY <2>1, <2>2 DEF Starting, nodes
<1>2. CASE WriteSession
  <2>1. /\ got = Total /\ shell' = "idle" /\ got' = 0 /\ session' = Session("ready", addr)
        /\ UNCHANGED <<central, waitkey, order, addr, pending, script, running, dead>>
    BY <1>2 DEF WriteSession, keys, nodes
  <2>2. Up \subseteq Instance
    BY DEF Up
  <2>3. Cardinality(Up) \in 0..Total /\ (Cardinality(Up) = Total => Up = Instance)
    BY <2>2, Counting
  <2>4. waitkey = 0 /\ Up = Instance
    BY <2>1, <2>3, Instances DEF Starting, Types
  <2>5. ASSUME NEW n \in Node PROVE At(n) = "blocked" /\ n \notin pending
    <3>1. <<n, PerNode>> \in Up
      BY <2>4, Instances DEF Instance, Port1
    <3>2. Announced(n, PerNode)
      BY <3>1 DEF Up
    <3>3. script[n].port \in Port1
      BY DEF Types
    <3>4. At(n) = "blocked"
      BY <3>2, <3>3, SessionAssumption DEF Announced, Port1
    <3> QED
      BY <3>4 DEF Starting, Rising
  <2>6. addr = Instance /\ running = Instance
    BY <2>5 DEF Starting, Rising, Started, Added, Instance, Port1, Types
  <2> QED
    BY <2>1, <2>4, <2>5, <2>6 DEF Starting, Serving, At, Types
<1>3. CASE \E n \in Node : RedisSrun(n)
  BY <1>3, RisingStep
<1> QED
  BY <1>1, <1>2, <1>3
     DEF Starting, Next, Command, User, Failure, StartCentral, StartFails, Launch, CleanAfter,
         CleanBefore, FinalizeFails, Order, CentralDies, RedisDies

\* A session ends with its order, or with its central Redis.
LEMMA FromServing == ASSUME Types, Serving, Next, ~Again PROVE Serving' \/ Stopping' \/ Failed'
<1>1. PICK n \in Node : At(n) = "blocked"
  BY SessionAssumption DEF Serving
<1>2. ~CleanBefore /\ ~FinalizeFails
  BY <1>1 DEF CleanBefore, FinalizeFails, Serving, Session
<1>3. ASSUME NEW m \in Node PROVE ~RedisSrun(m)
  BY DEF Serving, RedisSrun, RunScript, StartRedis, AddAddr, PushUp, Ordered, StopRedis,
         RemoveAddr, PushDown, Moves
<1>4. CASE Order
  <2>1. /\ shell' = "stopping" /\ UNCHANGED <<got, session, central, waitkey, pending, script, running, dead>>
    BY <1>4 DEF Order, nodes
  <2>2. \A m \in Node : Sinking(m)'
    BY <2>1 DEF Serving, Sinking, Remains, At
  <2>3. Down' = {}
    BY <2>1 DEF Serving, Down, Gone, At, Instance
  <2> QED
    BY <2>1, <2>2, <2>3, FS_EmptySet DEF Serving, Stopping
<1>5. CASE CentralDies
  <2>1. /\ central' = "down" /\ Empty' /\ UNCHANGED <<shell, got, session, pending, running, dead>>
        /\ \A m \in Node : script'[m] = Script("stop", 1)
    BY <1>5, CleanupFacts DEF CentralDies, GoesDown, Serving, Empty, At
  <2>2. \A m \in Node : Sinking(m)'
    BY <2>1 DEF Serving, Sinking, Remains, At, Script, Port1
  <2> QED
    BY <2>1, <2>2 DEF Serving, Failed
<1>6. ASSUME NEW i \in Instance, RedisDies(i) PROVE Serving'
  BY <1>6 DEF RedisDies, Serving, keys, At
<1> QED
  BY <1>2, <1>3, <1>4, <1>5, <1>6
     DEF Serving, Next, Command, User, Failure, StartCentral, StartFails, Launch, Pop,
         WriteSession, CleanAfter

\* finalize ends when all instances have been counted, which is when none is left.
LEMMA FromStopping == ASSUME Types, Stopping, Next PROVE Stopping' \/ Off'
<1>1. CASE Pop
  <2>1. waitkey' + got' = waitkey + got /\ UNCHANGED <<shell, session, central, order, addr, nodes>>
    BY <1>1 DEF Pop, Types
  <2>2. Down' = Down /\ \A n \in Node : Sinking(n)'
    BY <2>1 DEF Stopping, Down, Gone, Sinking, Remains, At, nodes
  <2> QED
    BY <2>1, <2>2 DEF Stopping
<1>2. CASE CleanAfter
  <2>1. /\ got = Total /\ shell' = "idle" /\ got' = 0 /\ session' = Session("none", {})
        /\ GoesDown /\ UNCHANGED <<pending, running, dead>>
    BY <1>2 DEF CleanAfter, Stopping, Cleanup
  <2>2. Down \subseteq Instance
    BY DEF Down
  <2>3. Cardinality(Down) \in 0..Total /\ (Cardinality(Down) = Total => Down = Instance)
    BY <2>2, Counting
  <2>4. Down = Instance
    BY <2>1, <2>3, Instances DEF Stopping, Types
  <2>5. ASSUME NEW n \in Node PROVE At(n) = "none" /\ n \notin pending
    <3>1. <<n, PerNode>> \in Down
      BY <2>4, Instances DEF Instance, Port1
    <3>2. Gone(n, PerNode)
      BY <3>1 DEF Down
    <3>3. script[n].port \in Port1
      BY DEF Types
    <3>4. At(n) = "none"
      BY <3>2, <3>3, SessionAssumption DEF Gone, Port1
    <3> QED
      BY <3>4 DEF Stopping, Sinking
  <2>6. pending = {} /\ running = {} /\ dead = {}
    BY <2>5 DEF Stopping, Sinking, Remains, Instance, Port1, Types
  <2>7. \A n \in Node : script'[n] = script[n]
    BY <2>1, <2>5 DEF GoesDown
  <2> QED
    BY <2>1, <2>5, <2>6, <2>7 DEF Off, Rest, Empty, GoesDown, At
<1>3. CASE \E n \in Node : RedisSrun(n)
  <2>1. PICK n \in Node : RedisSrun(n)
    BY <1>3
  <2>2. /\ \A m \in Node : Sinking(m)'
        /\ UNCHANGED <<shell, got, session, central>>
        /\ Cardinality(Down') = Cardinality(Down) + (IF PushDown(n) THEN 1 ELSE 0)
        /\ waitkey' = waitkey + (IF PushDown(n) THEN 1 ELSE 0)
    BY <2>1, SinkingStep DEF Stopping
  <2>3. Cardinality(Down) \in Nat
    BY Counting, Instances DEF Down
  <2>4. waitkey' + got' = Cardinality(Down')
    BY <2>2, <2>3 DEF Stopping, Types
  <2> QED
    BY <2>2, <2>4 DEF Stopping
<1> QED
  BY <1>1, <1>2, <1>3
     DEF Stopping, Next, Command, User, Failure, StartCentral, StartFails, Launch, WriteSession,
         CleanBefore, FinalizeFails, Order, CentralDies, RedisDies

\* Without a central Redis what is left of a session goes away; init waits for it.
LEMMA FromFailed == ASSUME Types, Failed, Next, ~Again PROVE Failed' \/ Off'
<1>1. Cleanup => UNCHANGED <<central, keys, script>>
  BY DEF Failed, Cleanup
<1>2. CASE CleanBefore
  <2>1. /\ \A n \in Node : At(n) = "none"
        /\ shell' = "cleaned" /\ session' = Session("none", {}) /\ pending = {}
        /\ UNCHANGED <<got, central, waitkey, order, addr, script, pending, running, dead>>
    BY <1>1, <1>2 DEF CleanBefore, keys
  <2>2. running = {} /\ dead = {}
    BY <2>1 DEF Failed, Sinking, Remains, Instance, Port1, Types
  <2> QED
    BY <2>1, <2>2 DEF Failed, Off, Rest, Empty, At
<1>3. CASE FinalizeFails
  <2>1. /\ shell' = "idle" /\ session'.status = "failed"
        /\ UNCHANGED <<got, central, waitkey, order, addr, script, pending, running, dead>>
    BY <1>1, <1>3 DEF FinalizeFails, Fail, keys, Session
  <2>2. Empty' /\ (\A n \in Node : Sinking(n)') /\ (Rest => Rest')
    BY <2>1 DEF Failed, Empty, Sinking, Remains, Rest, At
  <2> QED
    BY <2>1, <2>2 DEF Failed
<1>4. ASSUME NEW i \in Instance, RedisDies(i) PROVE Failed'
  <2>1. /\ UNCHANGED <<shell, got, session, central, waitkey, order, addr, pending, script>>
        /\ running' \cup dead' = running \cup dead /\ session.status = "ready"
    BY <1>4 DEF RedisDies, keys
  <2>2. Empty' /\ \A n \in Node : Sinking(n)'
    BY <2>1 DEF Failed, Empty, Sinking, Remains, At
  <2> QED
    BY <2>1, <2>2 DEF Failed
<1>5. ASSUME NEW n \in Node, RedisSrun(n) PROVE Failed'
  <2>1. central = "down"
    BY <1>5 DEF Failed, Types, Rest, RedisSrun, RunScript, StartRedis, AddAddr, PushUp, Ordered,
                StopRedis, RemoveAddr, PushDown, Moves
  <2>2. /\ \A m \in Node : Sinking(m)'
        /\ UNCHANGED <<shell, got, session, central, order>> /\ addr' = {} /\ waitkey' = waitkey + 0
    BY <1>5, <2>1, SinkingStep DEF Failed, Empty
  <2> QED
    BY <2>1, <2>2 DEF Failed, Empty
<1> QED
  BY <1>2, <1>3, <1>4, <1>5
     DEF Failed, Next, Command, User, Failure, StartCentral, StartFails, Launch, Pop, WriteSession,
         CleanAfter, Order, CentralDies, Session

\* A session goes from phase to phase.
LEMMA InvStep == ~Again /\ Inv /\ [Next]_vars => Inv'
<1> SUFFICES ASSUME ~Again, Inv, [Next]_vars PROVE Inv'
  OBVIOUS
<1>1. Types'
  BY TypesStep DEF Inv
<1>2. CASE UNCHANGED vars
  <2>1. (Off => Off') /\ (Serving => Serving')
    BY <1>2 DEF vars, keys, nodes, Off, Serving, Rest, Empty, At
  <2>2. Starting => Starting'
    BY <1>2 DEF vars, keys, nodes, Starting, Rising, Started, Added, Up, Announced, At
  <2>3. (Stopping => Stopping') /\ (Failed => Failed')
    BY <1>2 DEF vars, keys, nodes, Stopping, Failed, Sinking, Remains, Down, Gone, Rest, Empty, At
  <2> QED
    BY <1>1, <2>1, <2>2, <2>3 DEF Inv
<1> QED
  BY <1>1, <1>2, FromOff, FromStarting, FromServing, FromStopping, FromFailed DEF Inv

-----------------------------------------------------------------------------
\* Neither list nor counter ever holds more than there are instances.
THEOREM TypeCorrect == ~Again /\ Spec => []TypeOK
<1>1. Inv => TypeOK
  <2>1. Up \subseteq Instance /\ Down \subseteq Instance
    BY DEF Up, Down
  <2>2. Cardinality(Up) \in 0..Total /\ Cardinality(Down) \in 0..Total
    BY <2>1, Counting
  <2>3. Inv => waitkey \in 0..Total /\ got \in 0..Total
    BY <2>2, Instances DEF Inv, Types, Off, Starting, Serving, Stopping, Failed, Empty
  <2> QED
    BY <2>3 DEF Inv, Types, TypeOK, Places, Port1
<1>2. ~Again /\ Inv /\ [Next]_vars => Inv'
  BY InvStep
<1>3. CASE ~Again
  BY <1>1, <1>2, <1>3, InvInit, PTL DEF Spec
<1> QED
  BY <1>3

\* When init has written pdwfs.session all instances are in it, and the nodes
\* stay until finalize (pdwfs-slurm:166-177).
THEOREM SessionIsServed == ~Again /\ Spec => []SessionServes
<1>1. Inv => SessionServes
  BY DEF Inv, Off, Starting, Serving, Stopping, Failed, SessionServes, Session
<1>2. ~Again /\ Inv /\ [Next]_vars => Inv'
  BY InvStep
<1>3. CASE ~Again
  BY <1>1, <1>2, <1>3, InvInit, PTL DEF Spec
<1> QED
  BY <1>3

\* When finalize has ended nothing of the session is left (pdwfs-slurm:227-233).
THEOREM FinalizeIsComplete == ~Again /\ Spec => []FinalizeComplete
<1>1. Inv => FinalizeComplete
  BY DEF Inv, Off, Rest, Starting, Serving, Stopping, Failed, FinalizeComplete, Session
<1>2. ~Again /\ Inv /\ [Next]_vars => Inv'
  BY InvStep
<1>3. CASE ~Again
  BY <1>1, <1>2, <1>3, InvInit, PTL DEF Spec
<1> QED
  BY <1>3
=============================================================================
