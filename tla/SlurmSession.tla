---------------------------- MODULE SlurmSession ----------------------------
(***************************************************************************)
(* A session of pdwfs under SLURM: "pdwfs-slurm init" starts a central     *)
(* Redis and, by srun, a redis.srun on each node, which starts the node's  *)
(* instances one after the other and waits for an order; "finalize" gives  *)
(* it.  They meet in the central Redis: the list waitkey has an element    *)
(* for each instance that has come up or gone down, order is "stop" or     *)
(* empty, addr the addresses.  A redis-cli command is one step; one that   *)
(* finds no central Redis fails, and the scripts go on.  The user runs one *)
(* command at a time.                                                      *)
(*                                                                         *)
(* srun and redis-server do start what they are told to: pdwfs-slurm       *)
(* cannot notice that they do not ($? of a command in the background).     *)
(***************************************************************************)
EXTENDS Integers, FiniteSets

CONSTANTS Node, PerNode,   \* nNodes, and nInstances on each
          Again            \* may init run while redis.srun of a session before do?
ASSUME SessionAssumption == IsFiniteSet(Node) /\ Node # {} /\ PerNode \in Nat \ {0} /\ Again \in BOOLEAN

Instance == Node \X (1..PerNode)
Total == Cardinality(Node) * PerNode

VARIABLES
  shell,                        \* where the command the user runs is
  got,                          \* the elements it has popped
  session,                      \* pdwfs.session: whether it is there, and PDWFS_REDIS
  central,                      \* "down", "untagged" or "up": the central Redis
  waitkey, order, addr,         \* and its keys; waitkey has only a length
  pending,                      \* where srun has not started redis.srun yet
  script,                       \* where each redis.srun is, and with which port
  running, dead                 \* the instances that run; that have died by themselves
keys == <<waitkey, order, addr>>
nodes == <<pending, script, running, dead>>
vars == <<shell, got, session, central, keys, nodes>>

At(n) == script[n].at
Port(n) == <<n, script[n].port>>
Script(at, port) == [at |-> at, port |-> port]
Session(status, addrs) == [status |-> status, addrs |-> addrs]

Init == /\ shell = "idle" /\ got = 0 /\ session = Session("none", {})
        /\ central = "down" /\ waitkey = 0 /\ order = FALSE /\ addr = {}
        /\ pending = {} /\ script = [n \in Node |-> Script("none", 1)]
        /\ running = {} /\ dead = {}
-----------------------------------------------------------------------------
(* The central Redis. *)

\* Its keys are gone (--save ""), and brpoplpush fails wherever it is waiting.
GoesDown == /\ central' = "down" /\ waitkey' = 0 /\ order' = FALSE /\ addr' = {}
            /\ script' = [n \in Node |-> IF At(n) = "blocked" THEN Script("stop", 1) ELSE script[n]]

\* a bug: the central Redis is left running
Cleanup_leave == UNCHANGED <<central, keys, script>>
\* cleanup_session: only a Redis with the key pdwfs is shut down.
Cleanup == IF central = "up" THEN GoesDown ELSE UNCHANGED <<central, keys, script>>

Fail == Cleanup /\ session' = Session("failed", {}) /\ shell' = "idle"
-----------------------------------------------------------------------------
(* pdwfs-slurm init *)

CleanBefore ==
  /\ shell = "idle" /\ shell' = "cleaned" /\ session' = Session("none", {})
  /\ Again \/ (pending = {} /\ \A n \in Node : At(n) = "none")
  /\ Cleanup /\ UNCHANGED <<got, pending, running, dead>>

\* redis-server ends in the background if an untagged Redis has its port.
StartCentral == /\ shell = "cleaned" /\ shell' = "started"
                /\ central' = IF central = "down" THEN "untagged" ELSE central
                /\ UNCHANGED <<got, session, keys, nodes>>
\* a bug: try again until it starts
StartFails_retry == /\ shell \in {"cleaned", "started"} /\ shell' = "cleaned"
                    /\ Cleanup /\ UNCHANGED <<got, session, pending, running, dead>>
StartFails == /\ shell \in {"cleaned", "started"}    \* its exit code, or no answer to ping
              /\ Fail /\ UNCHANGED <<got, pending, running, dead>>

\* Tag the central Redis, srun in the background.
Launch == /\ shell = "started" /\ shell' = "waiting"
          /\ central' = "up" /\ pending' = Node
          /\ UNCHANGED <<got, session, keys, script, running, dead>>

\* blpop waitkey
Pop == /\ shell \in {"waiting", "stopping"} /\ got < Total /\ waitkey > 0
       /\ waitkey' = waitkey - 1 /\ got' = got + 1
       /\ UNCHANGED <<shell, session, central, order, addr, nodes>>

WriteSession == /\ shell = "waiting" /\ got = Total
                /\ shell' = "idle" /\ got' = 0 /\ session' = Session("ready", addr)
                /\ UNCHANGED <<central, keys, nodes>>
-----------------------------------------------------------------------------
(* pdwfs-slurm finalize *)

FinalizeFails == /\ shell = "idle" /\ (session.status # "ready" \/ central = "down")
                 /\ Fail /\ UNCHANGED <<got, pending, running, dead>>

Order == /\ shell = "idle" /\ session.status = "ready" /\ central # "down"
         /\ shell' = "stopping" /\ order' = TRUE
         /\ UNCHANGED <<got, session, central, waitkey, addr, nodes>>

CleanAfter == /\ shell = "stopping" /\ got = Total
              /\ shell' = "idle" /\ got' = 0 /\ session' = Session("none", {})
              /\ Cleanup /\ UNCHANGED <<pending, running, dead>>
-----------------------------------------------------------------------------
(* redis.srun on node n; central Redis permitting *)

Moves(n, from, to, port) == At(n) = from /\ script' = [script EXCEPT ![n] = Script(to, port)]
Push(n) == /\ waitkey' = IF central = "down" THEN waitkey ELSE waitkey + 1
           /\ UNCHANGED <<shell, got, session, central, order, addr, pending, running, dead>>

RunScript(n) == /\ n \in pending /\ Moves(n, "none", "start", 1)
                /\ pending' = pending \ {n}
                /\ UNCHANGED <<shell, got, session, central, keys, running, dead>>

\* redis-server, until it answers
StartRedis(n) == /\ Moves(n, "start", "sadd", script[n].port)
                 /\ running' = running \cup {Port(n)}
                 /\ UNCHANGED <<shell, got, session, central, keys, pending, dead>>
AddAddr(n) == /\ Moves(n, "sadd", "pushUp", script[n].port)
              /\ addr' = IF central = "down" THEN addr ELSE addr \cup {Port(n)}
              /\ UNCHANGED <<shell, got, session, central, waitkey, order, pending, running, dead>>
\* a bug: the loop goes on for one port more
PushUp_more(n) == LET port == script[n].port
                  IN  /\ Push(n) /\ IF port <= PerNode THEN Moves(n, "pushUp", "start", port + 1)
                                                       ELSE Moves(n, "pushUp", "blocked", 1)
PushUp(n) == LET port == script[n].port
             IN  /\ Push(n) /\ IF port < PerNode THEN Moves(n, "pushUp", "start", port + 1)
                                                 ELSE Moves(n, "pushUp", "blocked", 1)

\* brpoplpush order order: what is popped is pushed again
Ordered(n) == /\ order /\ Moves(n, "blocked", "stop", 1)
              /\ UNCHANGED <<shell, got, session, central, keys, pending, running, dead>>

\* a bug: the instance is not shut down if it is not the last
StopRedis_last(n) == /\ Moves(n, "stop", "srem", script[n].port)
                     /\ running' = IF script[n].port = PerNode THEN running \ {Port(n)} ELSE running
                     /\ dead' = dead \ {Port(n)}
                     /\ UNCHANGED <<shell, got, session, central, keys, pending>>
StopRedis(n) == /\ Moves(n, "stop", "srem", script[n].port)
                /\ running' = running \ {Port(n)} /\ dead' = dead \ {Port(n)}
                /\ UNCHANGED <<shell, got, session, central, keys, pending>>
\* a bug: wait for the central Redis to answer
RemoveAddr_wait(n) ==
  /\ central # "down" /\ Moves(n, "srem", "pushDown", script[n].port) /\ addr' = addr \ {Port(n)}
  /\ UNCHANGED <<shell, got, session, central, waitkey, order, pending, running, dead>>
RemoveAddr(n) == /\ Moves(n, "srem", "pushDown", script[n].port)
                 /\ addr' = addr \ {Port(n)}
                 /\ UNCHANGED <<shell, got, session, central, waitkey, order, pending, running, dead>>
PushDown(n) == LET port == script[n].port
               IN  /\ Push(n) /\ IF port < PerNode THEN Moves(n, "pushDown", "stop", port + 1)
                                                   ELSE Moves(n, "pushDown", "none", 1)
-----------------------------------------------------------------------------
(* Failures, of a session that is ready *)

CentralDies == /\ shell = "idle" /\ session.status = "ready" /\ central = "up"
               /\ GoesDown /\ UNCHANGED <<shell, got, session, pending, running, dead>>
RedisDies(i) == /\ shell = "idle" /\ session.status = "ready" /\ i \in running
                /\ running' = running \ {i} /\ dead' = dead \cup {i}
                /\ UNCHANGED <<shell, got, session, central, keys, pending, script>>
-----------------------------------------------------------------------------
Command == StartCentral \/ StartFails \/ Launch \/ Pop \/ WriteSession \/ CleanAfter
User == CleanBefore \/ FinalizeFails \/ Order
RedisSrun(n) == \/ RunScript(n) \/ StartRedis(n) \/ AddAddr(n) \/ PushUp(n) \/ Ordered(n)
                \/ StopRedis(n) \/ RemoveAddr(n) \/ PushDown(n)
Failure == CentralDies \/ \E i \in Instance : RedisDies(i)
Next == Command \/ User \/ Failure \/ \E n \in Node : RedisSrun(n)

\* A command that can go on does, and so does a redis.srun; the user need not run any.
Fairness == WF_vars(Command) /\ \A n \in Node : WF_vars(RedisSrun(n))
Spec == Init /\ [][Next]_vars /\ Fairness
-----------------------------------------------------------------------------
TypeOK ==
  /\ shell \in {"idle", "cleaned", "started", "waiting", "stopping"} /\ got \in 0..Total
  /\ session \in [status : {"none", "failed", "ready"}, addrs : SUBSET Instance]
  /\ central \in {"down", "untagged", "up"}
  /\ waitkey \in 0..Total /\ order \in BOOLEAN /\ addr \subseteq Instance
  /\ pending \subseteq Node /\ running \subseteq Instance /\ dead \subseteq Instance
  /\ script \in [Node -> [at : {"none", "start", "sadd", "pushUp", "blocked", "stop", "srem", "pushDown"},
                          port : 1..PerNode]]

\* When init has ended, pdwfs.session names every instance, and as long as the
\* central Redis lives no node leaves the session ("wait till all instances are up").
SessionServes ==
  shell = "idle" /\ session.status = "ready" =>
    /\ session.addrs = Instance
    /\ central = "up" => running = Instance \ dead /\ \A n \in Node : At(n) = "blocked"

\* When finalize has ended, nothing of the session is left, though instances may
\* have died before ("wait till all instances are down").
FinalizeComplete ==
  shell \in {"idle", "cleaned"} /\ session.status = "none" =>
    running = {} /\ pending = {} /\ \A n \in Node : At(n) = "none"

\* Each command ends: init when the instances are up or it has failed, finalize
\* when they are down.
CommandsEnd == shell # "idle" ~> shell = "idle"

\* If the central Redis is lost, the nodes stop their instances by themselves.
OrphansStop == central = "down" ~> running = {}
=============================================================================
