------------------------------ MODULE ConnPool ------------------------------
(***************************************************************************)
(* The pool of connections to one Redis instance and the pipelining of a   *)
(* connection (src/go/redigo/redis/pool.go, conn.go), as the store's       *)
(* goroutines use them (redisfs/redis.go): Wait with at most MaxActive     *)
(* connections, no context, no TestOnBorrow, no IdleTimeout, no            *)
(* MaxConnLifetime.  A region under p.mu is one step; what is done outside *)
(* of it (waiting on p.ch, dialing, talking to Redis) is a step of its own.*)
(***************************************************************************)
EXTENDS Integers, Sequences, FiniteSets

CONSTANTS Goroutine, Conn, NoConn,   \* Conn: a new one for every Dial
          MaxActive, MaxIdle,        \* 50 and 5 in NewRedisClient
          MaxPending                 \* bound: commands sent ahead of a Do
ASSUME PoolAssumption ==
  /\ MaxActive \in Nat \ {0} /\ MaxIdle \in Nat /\ MaxPending \in Nat
  /\ NoConn \notin Conn /\ IsFiniteSet(Goroutine)

VARIABLES
  closed, inited,   \* p.closed, p.chInitialized
  tokens,           \* len(p.ch)
  active, idle,     \* p.active; p.idle, front first
  phase, held,      \* where each goroutine is, and the connection it has
  multi,            \* activeConn.state & connectionMultiState
  link,             \* what both ends of a connection know
  open              \* the connections whose socket is open
pool == <<closed, inited, tokens, active, idle>>
vars == <<closed, inited, tokens, active, idle, phase, held, multi, link, open>>

\* pending: the client's count of replies it has not read; unread: the replies
\* that are to come; queueing: the server is in a MULTI; err: conn.err is set
Link(pending, unread, queueing, err) ==
  [pending |-> pending, unread |-> unread, queueing |-> queueing, err |-> err]
Fresh == Link(0, 0, FALSE, FALSE)

Init == /\ closed = FALSE /\ inited = FALSE /\ tokens = 0
        /\ active = 0 /\ idle = <<>>
        /\ phase = [g \in Goroutine |-> "out"]
        /\ held = [g \in Goroutine |-> NoConn]
        /\ multi = [g \in Goroutine |-> FALSE]
        /\ link = [c \in Conn |-> Fresh] /\ open = {}

Go(g, from, to) == phase[g] = from /\ phase' = [phase EXCEPT ![g] = to]

\* p.ch <- struct{}{}, under p.mu: it would block the whole pool if p.ch were full
GiveToken == IF closed THEN UNCHANGED tokens
             ELSE tokens < MaxActive /\ tokens' = tokens + 1

-----------------------------------------------------------------------------
LazyInit(g) == /\ Go(g, "out", "wait")
               /\ inited' = TRUE
               /\ tokens' = IF inited \/ closed THEN tokens ELSE MaxActive
               /\ UNCHANGED <<closed, active, idle, held, multi, link, open>>

\* <-p.ch: a closed channel still gives its tokens, then never blocks
TakeToken(g) == /\ Go(g, "wait", "get")
                /\ tokens > 0 \/ closed
                /\ tokens' = IF tokens > 0 THEN tokens - 1 ELSE 0
                /\ UNCHANGED <<closed, inited, active, idle, held, multi, link, open>>

GetIdle(g) == /\ Go(g, "get", "use") /\ idle # <<>>
              /\ held' = [held EXCEPT ![g] = Head(idle)] /\ idle' = Tail(idle)
              /\ UNCHANGED <<closed, inited, tokens, active, multi, link, open>>

\* errors.New("redigo: get on closed pool")
GetOnClosed(g) == /\ Go(g, "get", "out") /\ idle = <<>> /\ closed
                  /\ UNCHANGED <<pool, held, multi, link, open>>

\* a bug: the connection is counted when it has been dialed
StartDial_late(g) == /\ Go(g, "get", "dial") /\ idle = <<>> /\ ~closed
                     /\ UNCHANGED <<pool, held, multi, link, open>>

StartDial(g) == /\ Go(g, "get", "dial") /\ idle = <<>> /\ ~closed
                /\ active' = active + 1
                /\ UNCHANGED <<closed, inited, tokens, idle, held, multi, link, open>>

Dialed(g, c) == /\ Go(g, "dial", "use") /\ c \notin open
                /\ held' = [held EXCEPT ![g] = c]
                /\ link' = [link EXCEPT ![c] = Fresh] /\ open' = open \cup {c}
                /\ UNCHANGED <<pool, multi>>

\* a bug: the token of a failed Dial is not given back
DialFailed_token(g) == /\ Go(g, "dial", "out")
                       /\ active' = active - 1
                       /\ UNCHANGED <<closed, inited, tokens, idle, held, multi, link, open>>

DialFailed(g) == /\ Go(g, "dial", "out")
                 /\ active' = active - 1 /\ GiveToken
                 /\ UNCHANGED <<closed, inited, idle, held, multi, link, open>>

-----------------------------------------------------------------------------
(* The holder of a connection: Send, Do and Receive, any of which may meet a *)
(* network error, which fatal keeps in conn.err.                             *)

With(g, r) == link' = [link EXCEPT ![held[g]] = r]
Breaks(g) == LET l == link[held[g]] IN With(g, Link(l.pending, l.unread, l.queueing, TRUE))
Using(g) == phase[g] = "use" /\ UNCHANGED <<pool, phase, held, open>>
Fatal(g) == /\ Using(g) /\ Breaks(g) /\ UNCHANGED multi
Works(g) == Using(g) /\ ~link[held[g]].err

\* The state a command leaves: MULTI starts a transaction, EXEC and DISCARD end it.
After(cmd, on) == IF cmd = "MULTI" THEN TRUE ELSE IF cmd = "EXEC" THEN FALSE ELSE on

Send(g, cmd) ==
  LET l == link[held[g]]
  IN  /\ Works(g) /\ l.pending < MaxPending
      /\ multi' = [multi EXCEPT ![g] = After(cmd, @)]
      /\ With(g, Link(l.pending + 1, l.unread + 1, After(cmd, l.queueing), FALSE))

\* a bug: only its own reply is read
Do_own(g, cmd) ==
  LET l == link[held[g]]
  IN  /\ Works(g)
      /\ multi' = [multi EXCEPT ![g] = After(cmd, @)]
      /\ With(g, Link(0, l.unread, After(cmd, l.queueing), FALSE))

\* reads the replies to what was sent before, and returns the one after these
Do(g, cmd) ==
  LET l == link[held[g]]
  IN  /\ Works(g)
      /\ multi' = [multi EXCEPT ![g] = After(cmd, @)]
      /\ With(g, Link(0, l.unread - l.pending, After(cmd, l.queueing), FALSE))

Receive(g) ==
  LET l == link[held[g]]
  IN  /\ Works(g) /\ l.unread > 0 /\ UNCHANGED multi
      /\ With(g, Link(IF l.pending > 0 THEN l.pending - 1 ELSE 0, l.unread - 1,
                      l.queueing, FALSE))

\* a bug: a connection is released in the middle of a transaction
Release_multi(g) ==
  LET l == link[held[g]]
  IN  /\ Go(g, "use", "put")
      /\ multi' = [multi EXCEPT ![g] = FALSE]
      /\ With(g, Link(0, IF l.err THEN l.unread ELSE l.unread - l.pending, l.queueing, l.err))
      /\ UNCHANGED <<pool, held, open>>

\* activeConn.Close up to put: DISCARD what is queued, and Do("") to read every
\* reply to come, which may fail.
Release(g) ==
  LET l == link[held[g]]
      sent == IF multi[g] THEN 1 ELSE 0
  IN  /\ Go(g, "use", "put")
      /\ multi' = [multi EXCEPT ![g] = FALSE]
      /\ \/ /\ ~l.err
            /\ With(g, Link(0, (l.unread + sent) - (l.pending + sent),
                             l.queueing /\ ~multi[g], FALSE))
         \/ Breaks(g)
      /\ UNCHANGED <<pool, held, open>>

\* a bug: MaxIdle is not looked at
PutIdle_all(g) ==
  /\ Go(g, "put", "out") /\ ~closed /\ ~link[held[g]].err
  /\ idle' = <<held[g]>> \o idle
  /\ held' = [held EXCEPT ![g] = NoConn]
  /\ GiveToken /\ UNCHANGED <<closed, inited, active, multi, link, open>>

\* put: to the front of the idle list, if there is room
PutIdle(g) ==
  /\ Go(g, "put", "out") /\ ~closed /\ ~link[held[g]].err /\ Len(idle) < MaxIdle
  /\ idle' = <<held[g]>> \o idle
  /\ held' = [held EXCEPT ![g] = NoConn]
  /\ GiveToken /\ UNCHANGED <<closed, inited, active, multi, link, open>>

\* if there is none, the connection at the back is dropped in its place
PutFull(g) ==
  /\ Go(g, "put", "drop") /\ ~closed /\ ~link[held[g]].err /\ Len(idle) >= MaxIdle
  /\ LET all == <<held[g]>> \o idle
     IN  /\ idle' = SubSeq(all, 1, Len(all) - 1)
         /\ held' = [held EXCEPT ![g] = all[Len(all)]]
  /\ UNCHANGED <<closed, inited, tokens, active, multi, link, open>>

\* a broken connection, or any one when the pool is closed
PutForced(g) == /\ Go(g, "put", "drop") /\ (closed \/ link[held[g]].err)
                /\ UNCHANGED <<pool, held, multi, link, open>>

Drop(g) == /\ Go(g, "drop", "out")
           /\ open' = open \ {held[g]} /\ held' = [held EXCEPT ![g] = NoConn]
           /\ active' = active - 1 /\ GiveToken
           /\ UNCHANGED <<closed, inited, idle, multi, link>>

\* a bug: the idle connections are not closed with the pool
Close_idle == /\ ~closed /\ closed' = TRUE
              /\ active' = active - Len(idle) /\ idle' = <<>>
              /\ UNCHANGED <<inited, tokens, phase, held, multi, link, open>>

\* Pool.Close, from the library's destructor: close(p.ch) lets every waiter go on
Close == /\ ~closed /\ closed' = TRUE
         /\ active' = active - Len(idle) /\ idle' = <<>>
         /\ open' = open \ {idle[k] : k \in 1..Len(idle)}
         /\ UNCHANGED <<inited, tokens, phase, held, multi, link>>

Get(g) == \/ TakeToken(g) \/ GetIdle(g) \/ GetOnClosed(g) \/ StartDial(g)
          \/ DialFailed(g) \/ \E c \in Conn : Dialed(g, c)
Use(g) == \/ \E cmd \in {"MULTI", "EXEC", "GET"} : Send(g, cmd) \/ Do(g, cmd)
          \/ Receive(g) \/ Fatal(g)
Put(g) == PutIdle(g) \/ PutFull(g) \/ PutForced(g) \/ Drop(g)
Next == Close \/ \E g \in Goroutine : LazyInit(g) \/ Get(g) \/ Use(g) \/ Release(g) \/ Put(g)

\* Go's scheduler runs every goroutine that can go on, and a channel serves its
\* waiters in turn; a method of RedisClient has its Close deferred, so that
\* whoever has a connection releases it.
Fairness == \A g \in Goroutine :
  /\ SF_vars(TakeToken(g)) /\ WF_vars(Get(g) \/ Put(g)) /\ WF_vars(Release(g))
Spec == Init /\ [][Next]_vars
FairSpec == Spec /\ Fairness
-----------------------------------------------------------------------------
Owning == {"dial", "use", "put", "drop"}
Holding == {"get"} \cup Owning
HasConn == {"use", "put", "drop"}
In(P) == {g \in Goroutine : phase[g] \in P}

Links == [pending : Nat, unread : Int, queueing : BOOLEAN, err : BOOLEAN]
TypeOK == /\ closed \in BOOLEAN /\ inited \in BOOLEAN
          /\ tokens \in 0..MaxActive /\ active \in 0..MaxActive
          /\ idle \in Seq(Conn) /\ Len(idle) <= MaxIdle
          /\ phase \in [Goroutine -> {"out", "wait", "get", "dial", "use", "put", "drop"}]
          /\ held \in [Goroutine -> Conn \cup {NoConn}] /\ multi \in [Goroutine -> BOOLEAN]
          /\ open \subseteq Conn
          /\ link \in [Conn -> Links]

\* A token of p.ch is never lost or made up, whatever fails: every goroutine
\* past the channel has one and gives it back.  So a send on p.ch, which is
\* made under p.mu, finds room.
TokensKept == inited /\ ~closed => tokens + Cardinality(In(Holding)) = MaxActive

\* p.active counts the connections, those being dialed among them, and is never
\* more than MaxActive; after Close, those that are still out.
ActiveCounts == /\ active = Len(idle) + Cardinality(In(Owning))
                /\ active <= MaxActive

\* A connection is in one place: with one goroutine, or once in the idle list.
\* None that is open is forgotten, and none that is closed is handed out.
OnePlace ==
  /\ \A g, h \in In(HasConn) : g # h => held[g] # held[h]
  /\ \A g \in In(HasConn) : \A k \in 1..Len(idle) : held[g] # idle[k]
  /\ \A j, k \in 1..Len(idle) : j # k => idle[j] # idle[k]
  /\ open = {held[g] : g \in In(HasConn)} \cup {idle[k] : k \in 1..Len(idle)}

\* Whoever gets a connection from the pool gets a working one with no reply of
\* another's commands to come and no transaction open (activeConn.Close).
IdleIsClean == \A k \in 1..Len(idle) : link[idle[k]] = Fresh

\* On a working connection the replies to come are those the client counts, so
\* that the reply a Do returns is that to its own command.
RepliesMatch == \A g \in In(HasConn) :
  LET l == link[held[g]] IN ~l.err => l.unread = l.pending /\ l.queueing = multi[g]

\* A goroutine that waits for a connection does not wait forever, though there
\* are more goroutines than connections (store.go:165), Dial fails, connections
\* break or the pool is closed.
WaitersGoOn == \A g \in Goroutine : phase[g] = "wait" ~> phase[g] # "wait"
=============================================================================
