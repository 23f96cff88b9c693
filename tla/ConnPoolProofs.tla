--------------------------- MODULE ConnPoolProofs ---------------------------
(***************************************************************************)
(* For any number of goroutines and connections: the pool keeps its tokens *)
(* and its count of connections, has each connection in one place, and     *)
(* whoever gets one gets a clean one and its own commands' replies.        *)
(***************************************************************************)
EXTENDS ConnPool, FiniteSetTheorems, SequenceTheorems, TLAPS

Phases == {"out", "wait", "get", "dial", "use", "put", "drop"}

\* Before the channel is made nobody has passed it; only dial, use, put and
\* drop own a connection, and who has one has one of Conn.
Started == ~inited => \A g \in Goroutine : phase[g] = "out"
HeldIsConn == \A g \in In(HasConn) : held[g] \in Conn
Counts == TypeOK /\ Started /\ HeldIsConn /\ TokensKept /\ ActiveCounts

\* How a goroutine that moves changes the number of those in the phases P.
LEMMA CountMove ==
  ASSUME NEW f \in [Goroutine -> Phases], NEW g \in Goroutine, NEW to \in Phases,
         NEW P, NEW f2, f2 = [f EXCEPT ![g] = to],
         NEW A, A = {h \in Goroutine : f[h] \in P},
         NEW B, B = {h \in Goroutine : f2[h] \in P}
  PROVE  /\ Cardinality(A) \in Nat /\ Cardinality(B) \in Nat
         /\ f[g] \in P /\ to \in P => Cardinality(B) = Cardinality(A)
         /\ f[g] \notin P /\ to \notin P => Cardinality(B) = Cardinality(A)
         /\ f[g] \notin P /\ to \in P => Cardinality(B) = Cardinality(A) + 1
         /\ f[g] \in P /\ to \notin P => Cardinality(B) = Cardinality(A) - 1
<1>1. IsFiniteSet(A) /\ IsFiniteSet(B)
  BY FS_Subset, PoolAssumption
<1>2. Cardinality(A) \in Nat /\ Cardinality(B) \in Nat
  BY <1>1, FS_CardinalityType
<1>3. \/ f[g] \in P /\ to \in P /\ B = A
      \/ f[g] \notin P /\ to \notin P /\ B = A
      \/ f[g] \notin P /\ to \in P /\ B = A \cup {g} /\ g \notin A
      \/ f[g] \in P /\ to \notin P /\ B = A \ {g} /\ g \in A
  OBVIOUS
<1> QED
  BY <1>1, <1>2, <1>3, FS_AddElement, FS_RemoveElement

\* There are no more goroutines with a connection than with a token.
LEMMA OwnersHold ==
  /\ Cardinality(In(Owning)) \in Nat /\ Cardinality(In(Holding)) \in Nat
  /\ Cardinality(In(Owning)) <= Cardinality(In(Holding))
<1>1. IsFiniteSet(In(Holding))
  BY FS_Subset, PoolAssumption DEF In
<1>2. In(Owning) \in SUBSET In(Holding)
  BY DEF In, Holding
<1> QED
  BY <1>1, <1>2, FS_Subset, FS_CardinalityType

\* A connection at the front of the idle list.
LEMMA Pushed ==
  ASSUME NEW s \in Seq(Conn), NEW c \in Conn, NEW t, t = <<c>> \o s
  PROVE  /\ t \in Seq(Conn) /\ Len(t) = Len(s) + 1 /\ t[1] = c
         /\ \A k \in 1..Len(s) : t[k + 1] = s[k]
         /\ \A k \in 2..Len(t) : k - 1 \in 1..Len(s) /\ t[k] = s[k - 1]
<1>1. <<c>> \in Seq(Conn) /\ Len(<<c>>) = 1 /\ <<c>>[1] = c
  OBVIOUS
<1> QED
  BY <1>1, ConcatProperties

\* What moving one goroutine does to the two counts.
LEMMA Moved ==
  ASSUME TypeOK, NEW g \in Goroutine, NEW from, NEW to \in Phases, Go(g, from, to)
  PROVE  /\ phase[g] = from /\ phase' \in [Goroutine -> Phases]
         /\ phase' = [phase EXCEPT ![g] = to]
         /\ Cardinality(In(Holding)) \in Nat /\ Cardinality(In(Owning)) \in Nat
         /\ Cardinality(In(Holding)') = Cardinality(In(Holding))
              + (IF to \in Holding THEN 1 ELSE 0) - (IF from \in Holding THEN 1 ELSE 0)
         /\ Cardinality(In(Owning)') = Cardinality(In(Owning))
              + (IF to \in Owning THEN 1 ELSE 0) - (IF from \in Owning THEN 1 ELSE 0)
<1>1. /\ phase[g] = from /\ phase' = [phase EXCEPT ![g] = to]
      /\ phase \in [Goroutine -> Phases] /\ phase' \in [Goroutine -> Phases]
  BY DEF Go, TypeOK, Phases
<1>2. \A P, A, B : A = {h \in Goroutine : phase[h] \in P}
                   /\ B = {h \in Goroutine : phase'[h] \in P}
        => /\ Cardinality(A) \in Nat /\ Cardinality(B) \in Nat
           /\ from \in P /\ to \in P => Cardinality(B) = Cardinality(A)
           /\ from \notin P /\ to \notin P => Cardinality(B) = Cardinality(A)
           /\ from \notin P /\ to \in P => Cardinality(B) = Cardinality(A) + 1
           /\ from \in P /\ to \notin P => Cardinality(B) = Cardinality(A) - 1
  BY <1>1, CountMove
<1>3. /\ In(Holding) = {h \in Goroutine : phase[h] \in Holding}
      /\ In(Owning) = {h \in Goroutine : phase[h] \in Owning}
      /\ In(Holding)' = {h \in Goroutine : phase'[h] \in Holding}
      /\ In(Owning)' = {h \in Goroutine : phase'[h] \in Owning}
  BY DEF In, Holding, Owning
<1>4. /\ Cardinality(In(Holding)) \in Nat
      /\ Cardinality(In(Holding)') = Cardinality(In(Holding))
           + (IF to \in Holding THEN 1 ELSE 0) - (IF from \in Holding THEN 1 ELSE 0)
  BY <1>2, <1>3
<1>5. /\ Cardinality(In(Owning)) \in Nat
      /\ Cardinality(In(Owning)') = Cardinality(In(Owning))
           + (IF to \in Owning THEN 1 ELSE 0) - (IF from \in Owning THEN 1 ELSE 0)
  BY <1>2, <1>3
<1> QED
  BY <1>1, <1>4, <1>5

-----------------------------------------------------------------------------
\* Whoever gives its token back leaves as many as it found.
LEMMA TokenGiven ==
  ASSUME TypeOK, TokensKept, GiveToken, inited' = inited, closed' = closed,
         Cardinality(In(Holding)) \in Nat,
         Cardinality(In(Holding)') = Cardinality(In(Holding)) - 1
  PROVE  TokensKept'
<1>1. CASE closed
  BY <1>1 DEF TokensKept
<1>2. CASE ~closed
  <2>1. tokens' = tokens + 1 /\ tokens \in Nat
    BY <1>2 DEF GiveToken, TypeOK
  <2>2. inited => tokens + Cardinality(In(Holding)) = MaxActive
    BY <1>2 DEF TokensKept
  <2>3. inited => tokens' + Cardinality(In(Holding)') = MaxActive
    BY <2>1, <2>2
  <2> QED
    BY <2>3 DEF TokensKept
<1> QED
  BY <1>1, <1>2

\* A goroutine that talks to its connection changes nothing of the pool.
LEMMA UseKeepsCounts ==
  ASSUME Counts, NEW g \in Goroutine, Use(g)
  PROVE  Counts'
<1>1. UNCHANGED <<pool, phase, held, open>> /\ phase[g] = "use"
  BY DEF Use, Send, Do, Receive, Fatal, Works, Using
<1>2. held[g] \in Conn
  BY <1>1 DEF Counts, HeldIsConn, In, HasConn
<1>3. link' \in [Conn -> Links]
      /\ multi' \in [Goroutine -> BOOLEAN]
  <2>0. /\ link \in [Conn -> Links]
        /\ multi \in [Goroutine -> BOOLEAN]
    BY DEF Counts, TypeOK
  <2>1. link[held[g]] \in Links
    BY <1>2, <2>0
  <2>2. \A p \in Nat, u \in Int, b \in BOOLEAN, e \in BOOLEAN : Link(p, u, b, e) \in Links
    BY DEF Link, Links
  <2>3. \A r \in Links : With(g, r) => link' \in [Conn -> Links]
    BY <1>2, <2>0 DEF With
  <2>4. \A cmd, b : b \in BOOLEAN => After(cmd, b) \in BOOLEAN
    BY DEF After
  <2>5. /\ link[held[g]].pending \in Nat /\ link[held[g]].unread \in Int
        /\ link[held[g]].queueing \in BOOLEAN
    BY <2>1 DEF Links
  <2> DEFINE l == link[held[g]]
  <2>60. \A cmd : multi' = [multi EXCEPT ![g] = After(cmd, multi[g])]
                   => multi' \in [Goroutine -> BOOLEAN]
    BY <2>0, <2>4
  <2>6. ASSUME NEW cmd, Send(g, cmd) PROVE link' \in [Conn -> Links] /\ multi' \in [Goroutine -> BOOLEAN]
    <3>1. With(g, Link(l.pending + 1, l.unread + 1, After(cmd, l.queueing), FALSE))
      BY <2>6, Zenon DEF Send
    <3>2. Link(l.pending + 1, l.unread + 1, After(cmd, l.queueing), FALSE) \in Links
      <4>1. l.pending + 1 \in Nat /\ l.unread + 1 \in Int
        BY <2>5
      <4> QED
        BY <2>2, <2>4, <2>5, <4>1, Zenon
    <3>3. multi' \in [Goroutine -> BOOLEAN]
      BY <2>6, <2>60, Zenon DEF Send
    <3> QED
      BY <2>3, <3>1, <3>2, <3>3, Zenon
  <2>7. ASSUME NEW cmd, Do(g, cmd) PROVE link' \in [Conn -> Links] /\ multi' \in [Goroutine -> BOOLEAN]
    <3>1. With(g, Link(0, l.unread - l.pending, After(cmd, l.queueing), FALSE))
      BY <2>7, Zenon DEF Do
    <3>2. Link(0, l.unread - l.pending, After(cmd, l.queueing), FALSE) \in Links
      <4>1. 0 \in Nat /\ l.unread - l.pending \in Int
        BY <2>5
      <4> QED
        BY <2>2, <2>4, <2>5, <4>1, Zenon
    <3>3. multi' \in [Goroutine -> BOOLEAN]
      BY <2>7, <2>60, Zenon DEF Do
    <3> QED
      BY <2>3, <3>1, <3>2, <3>3, Zenon
  <2>8. CASE Receive(g)
    <3> DEFINE p == IF l.pending > 0 THEN l.pending - 1 ELSE 0
    <3>1. With(g, Link(p, l.unread - 1, l.queueing, FALSE)) /\ multi' = multi
      BY <2>8, Zenon DEF Receive
    <3>2. p \in Nat /\ l.unread - 1 \in Int
      BY <2>5
    <3> HIDE DEF p
    <3>3. Link(p, l.unread - 1, l.queueing, FALSE) \in Links
      BY <2>2, <2>5, <3>2, Zenon
    <3> QED
      BY <2>0, <2>3, <3>1, <3>3, Zenon
  <2>9. CASE Fatal(g)
    BY <2>0, <2>2, <2>3, <2>5, <2>9 DEF Fatal, Breaks
  <2> QED
    BY <2>6, <2>7, <2>8, <2>9 DEF Use
<1>4. TypeOK'
  BY <1>1, <1>3 DEF Counts, TypeOK, pool
<1> QED
  BY <1>1, <1>4 DEF Counts, Started, HeldIsConn, In, TokensKept, ActiveCounts, pool

\* No token is out before the first Get.
LEMMA CountsInit == Init => Counts
<1> SUFFICES ASSUME Init PROVE Counts
  OBVIOUS
<1>0. Fresh \in Links
  BY DEF Fresh, Link, Links
<1>5. TypeOK
  <2>1. idle \in Seq(Conn) /\ Len(idle) = 0
    BY DEF Init
  <2>2. /\ closed \in BOOLEAN /\ inited \in BOOLEAN /\ multi \in [Goroutine -> BOOLEAN]
        /\ open \subseteq Conn /\ link \in [Conn -> Links]
    BY <1>0, Zenon DEF Init
  <2>3. /\ held \in [Goroutine -> Conn \cup {NoConn}]
        /\ phase \in [Goroutine -> {"out", "wait", "get", "dial", "use", "put", "drop"}]
    BY DEF Init
  <2>4. tokens \in 0..MaxActive /\ active \in 0..MaxActive /\ 0 <= MaxIdle
    BY PoolAssumption DEF Init
  <2> QED
    BY <2>1, <2>2, <2>3, <2>4 DEF TypeOK
<1>6. Started /\ HeldIsConn /\ TokensKept
  BY DEF Init, Started, HeldIsConn, TokensKept, In, HasConn
<1>1. TypeOK /\ Started /\ HeldIsConn /\ TokensKept
  BY <1>5, <1>6
<1>2. In(Owning) = {}
  BY DEF Init, In, Owning
<1>3. active = 0 /\ Len(idle) = 0 /\ Cardinality(In(Owning)) = 0 /\ 0 <= MaxActive
  <2>1. Cardinality(In(Owning)) = 0
    BY <1>2, FS_EmptySet, Zenon
  <2>2. active = 0 /\ idle = <<>>
    BY DEF Init
  <2> QED
    BY <2>1, <2>2, PoolAssumption
<1>4. ActiveCounts
  BY <1>3 DEF ActiveCounts
<1> QED
  BY <1>1, <1>4 DEF Counts

\* Every step of the pool keeps its counts: a goroutine takes a token when it
\* passes the channel and gives it back when it has done, and is counted in
\* p.active from StartDial or GetIdle on.
LEMMA CountsStep == Counts /\ [Next]_vars => Counts'
<1> SUFFICES ASSUME Counts, [Next]_vars PROVE Counts'
  OBVIOUS
<1> USE PoolAssumption
<1>0. /\ TypeOK /\ Started /\ HeldIsConn /\ TokensKept /\ ActiveCounts
      /\ Cardinality(In(Owning)) <= Cardinality(In(Holding))
      /\ Cardinality(In(Owning)) \in Nat /\ Cardinality(In(Holding)) \in Nat
      /\ Len(idle) \in Nat
  BY OwnersHold DEF Counts, TypeOK
<1>1. CASE UNCHANGED vars
  BY <1>1 DEF Counts, TypeOK, Started, HeldIsConn, TokensKept, ActiveCounts, In, vars
<1>2. CASE Close
  <2>1. active' = active - Len(idle) /\ idle' = <<>> /\ Len(idle') = 0
        /\ UNCHANGED <<phase, held, multi, link, tokens, inited>> /\ closed' = TRUE
    BY <1>2 DEF Close
  <2>2. In(Owning)' = In(Owning)
    BY <2>1 DEF In
  <2>3. ActiveCounts'
    BY <1>0, <2>1, <2>2 DEF ActiveCounts, TypeOK
  <2>4. open' \subseteq Conn
    BY <1>0, <1>2 DEF Close, TypeOK
  <2>5. TypeOK'
    BY <1>0, <2>1, <2>3, <2>4 DEF TypeOK, ActiveCounts
  <2> QED
    BY <1>0, <2>1, <2>3, <2>5 DEF Counts, Started, HeldIsConn, In, TokensKept
<1>3. ASSUME NEW g \in Goroutine, LazyInit(g) \/ Get(g) \/ Use(g) \/ Release(g) \/ Put(g)
      PROVE  Counts'
  <2>1. CASE LazyInit(g)
    <3>1. Go(g, "out", "wait")
      BY <2>1 DEF LazyInit
    <3>2. /\ phase[g] = "out" /\ phase' = [phase EXCEPT ![g] = "wait"]
          /\ Cardinality(In(Holding)') = Cardinality(In(Holding))
          /\ Cardinality(In(Owning)') = Cardinality(In(Owning))
      BY <1>0, <3>1, Moved DEF Phases, Holding, Owning
    <3>3. ~inited => In(Holding) = {}
      BY <1>0 DEF Started, In, Holding, Owning
    <3>4. ~inited => Cardinality(In(Holding)) = 0
      BY <3>3, FS_EmptySet
    <3>5. TypeOK'
      BY <1>0, <2>1, <3>2 DEF TypeOK, LazyInit
    <3>6. TokensKept' /\ ActiveCounts'
      BY <1>0, <2>1, <3>2, <3>4 DEF TypeOK, LazyInit, TokensKept, ActiveCounts
    <3>7. Started' /\ HeldIsConn'
      BY <1>0, <2>1, <3>2 DEF TypeOK, LazyInit, Started, HeldIsConn, In, HasConn
    <3> QED
      BY <3>5, <3>6, <3>7 DEF Counts
  <2>2. CASE TakeToken(g)
    <3>1. Go(g, "wait", "get")
      BY <2>2 DEF TakeToken
    <3>2. /\ phase[g] = "wait" /\ phase' = [phase EXCEPT ![g] = "get"]
          /\ Cardinality(In(Holding)') = Cardinality(In(Holding)) + 1
          /\ Cardinality(In(Owning)') = Cardinality(In(Owning))
      BY <1>0, <3>1, Moved DEF Phases, Holding, Owning
    <3>3. TypeOK'
      BY <1>0, <2>2, <3>2 DEF TypeOK, TakeToken
    <3>4. TokensKept' /\ ActiveCounts'
      BY <1>0, <2>2, <3>2 DEF TypeOK, TakeToken, TokensKept, ActiveCounts
    <3>5. Started' /\ HeldIsConn'
      BY <1>0, <2>2, <3>2 DEF TypeOK, TakeToken, Started, HeldIsConn, In, HasConn
    <3> QED
      BY <3>3, <3>4, <3>5 DEF Counts
  <2>3. CASE GetIdle(g)
    <3>1. Go(g, "get", "use")
      BY <2>3 DEF GetIdle
    <3>2. /\ phase[g] = "get" /\ phase' = [phase EXCEPT ![g] = "use"]
          /\ Cardinality(In(Holding)') = Cardinality(In(Holding))
          /\ Cardinality(In(Owning)') = Cardinality(In(Owning)) + 1
      BY <1>0, <3>1, Moved DEF Phases, Holding, Owning
    <3>3. Head(idle) \in Conn /\ idle' \in Seq(Conn) /\ Len(idle') = Len(idle) - 1
      BY <1>0, <2>3, HeadTailProperties DEF TypeOK, GetIdle
    <3>4. TypeOK'
      BY <1>0, <2>3, <3>2, <3>3 DEF TypeOK, GetIdle
    <3>5. TokensKept' /\ ActiveCounts'
      BY <1>0, <2>3, <3>2, <3>3 DEF TypeOK, GetIdle, TokensKept, ActiveCounts
    <3>6. Started' /\ HeldIsConn'
      BY <1>0, <2>3, <3>2, <3>3 DEF TypeOK, GetIdle, Started, HeldIsConn, In, HasConn
    <3> QED
      BY <3>4, <3>5, <3>6 DEF Counts
  <2>4. CASE GetOnClosed(g)
    <3>1. Go(g, "get", "out") /\ closed
      BY <2>4 DEF GetOnClosed
    <3>2. /\ phase[g] = "get" /\ phase' = [phase EXCEPT ![g] = "out"]
          /\ Cardinality(In(Owning)') = Cardinality(In(Owning))
      BY <1>0, <3>1, Moved DEF Phases, Holding, Owning
    <3>3. TypeOK'
      BY <1>0, <2>4, <3>2 DEF TypeOK, GetOnClosed, pool
    <3>4. TokensKept' /\ ActiveCounts'
      BY <1>0, <2>4, <3>1, <3>2 DEF TypeOK, GetOnClosed, TokensKept, ActiveCounts, pool
    <3>5. Started' /\ HeldIsConn'
      BY <1>0, <2>4, <3>2 DEF TypeOK, GetOnClosed, Started, HeldIsConn, In, HasConn, pool
    <3> QED
      BY <3>3, <3>4, <3>5 DEF Counts
  <2>5. CASE StartDial(g)
    <3>1. Go(g, "get", "dial") /\ ~closed /\ idle = <<>> /\ Len(idle) = 0
      BY <2>5 DEF StartDial
    <3>2. /\ phase[g] = "get" /\ phase' = [phase EXCEPT ![g] = "dial"]
          /\ Cardinality(In(Holding)') = Cardinality(In(Holding))
          /\ Cardinality(In(Owning)') = Cardinality(In(Owning)) + 1
      BY <1>0, <3>1, Moved DEF Phases, Holding, Owning
    <3>3. inited
      BY <1>0, <3>2 DEF Started
    <3>4. Cardinality(In(Owning)') <= Cardinality(In(Holding)')
          /\ Cardinality(In(Holding)) <= MaxActive
      <4>1. Cardinality(In(Holding)) <= MaxActive
        BY <1>0, <3>1, <3>3 DEF TokensKept, TypeOK
      <4>2. IsFiniteSet(In(Holding)')
        BY FS_Subset DEF In
      <4>3. In(Owning)' \in SUBSET In(Holding)'
        BY DEF In, Holding
      <4> QED
        BY <4>1, <4>2, <4>3, FS_Subset
    <3>5. active' = active + 1 /\ active' <= MaxActive
      BY <1>0, <2>5, <3>1, <3>2, <3>4 DEF StartDial, ActiveCounts, TypeOK
    <3>6. TypeOK'
      BY <1>0, <2>5, <3>2, <3>5 DEF TypeOK, StartDial
    <3>7. TokensKept' /\ ActiveCounts'
      BY <1>0, <2>5, <3>2, <3>5 DEF TypeOK, StartDial, TokensKept, ActiveCounts
    <3>8. Started' /\ HeldIsConn'
      BY <1>0, <2>5, <3>2 DEF TypeOK, StartDial, Started, HeldIsConn, In, HasConn
    <3> QED
      BY <3>6, <3>7, <3>8 DEF Counts
  <2>6. ASSUME NEW c \in Conn, Dialed(g, c) PROVE Counts'
    <3>1. Go(g, "dial", "use")
      BY <2>6 DEF Dialed
    <3>2. /\ phase[g] = "dial" /\ phase' = [phase EXCEPT ![g] = "use"]
          /\ Cardinality(In(Holding)') = Cardinality(In(Holding))
          /\ Cardinality(In(Owning)') = Cardinality(In(Owning))
      BY <1>0, <3>1, Moved DEF Phases, Holding, Owning
    <3>3. TypeOK'
      BY <1>0, <2>6, <3>2 DEF TypeOK, Dialed, pool, Fresh, Link, Links
    <3>4. TokensKept' /\ ActiveCounts'
      BY <1>0, <2>6, <3>2 DEF Dialed, TokensKept, ActiveCounts, pool
    <3>5. Started' /\ HeldIsConn'
      BY <1>0, <2>6, <3>2 DEF TypeOK, Dialed, Started, HeldIsConn, In, HasConn, pool
    <3> QED
      BY <3>3, <3>4, <3>5 DEF Counts
  <2>7. CASE DialFailed(g)
    <3>1. Go(g, "dial", "out") /\ GiveToken /\ active' = active - 1
      BY <2>7 DEF DialFailed
    <3>2. /\ phase[g] = "dial" /\ phase' = [phase EXCEPT ![g] = "out"]
          /\ Cardinality(In(Holding)') = Cardinality(In(Holding)) - 1
          /\ Cardinality(In(Owning)') = Cardinality(In(Owning)) - 1
          /\ Cardinality(In(Owning)') \in Nat
      <4>1. In(Owning)' \in SUBSET Goroutine
        BY DEF In
      <4>2. Cardinality(In(Owning)') \in Nat
        BY <4>1, FS_Subset, FS_CardinalityType
      <4> QED
        BY <1>0, <3>1, <4>2, Moved DEF Phases, Holding, Owning
    <3>3. active' \in 0..MaxActive /\ tokens' \in 0..MaxActive
      BY <1>0, <3>1, <3>2 DEF TypeOK, ActiveCounts, GiveToken
    <3>4. TypeOK'
      BY <1>0, <2>7, <3>2, <3>3 DEF TypeOK, DialFailed
    <3>5. ActiveCounts'
      BY <1>0, <2>7, <3>1, <3>2, <3>3 DEF TypeOK, DialFailed, ActiveCounts
    <3>50. TokensKept'
      BY <1>0, <2>7, <3>1, <3>2, TokenGiven DEF DialFailed
    <3>6. Started' /\ HeldIsConn'
      BY <1>0, <2>7, <3>2 DEF TypeOK, DialFailed, Started, HeldIsConn, In, HasConn
    <3> QED
      BY <3>4, <3>5, <3>50, <3>6 DEF Counts
  <2>8. CASE Use(g)
    BY <2>8, UseKeepsCounts
  <2>9. CASE Release(g)
    <3>1. Go(g, "use", "put")
      BY <2>9 DEF Release
    <3>2. /\ phase[g] = "use" /\ phase' = [phase EXCEPT ![g] = "put"]
          /\ Cardinality(In(Holding)') = Cardinality(In(Holding))
          /\ Cardinality(In(Owning)') = Cardinality(In(Owning))
      BY <1>0, <3>1, Moved DEF Phases, Holding, Owning
    <3>3. held[g] \in Conn
      BY <1>0, <3>2 DEF HeldIsConn, In, HasConn
    <3>4. link' \in [Conn -> Links]
      <4>1. link[held[g]] \in Links /\ multi[g] \in BOOLEAN
        BY <1>0, <3>3 DEF TypeOK
      <4>2. /\ link[held[g]].pending \in Nat /\ link[held[g]].unread \in Int
            /\ link[held[g]].queueing \in BOOLEAN
        BY <4>1 DEF Links
      <4>3. \A p \in Nat, u \in Int, b \in BOOLEAN, e \in BOOLEAN : Link(p, u, b, e) \in Links
        BY DEF Link, Links
      <4>4. \A r \in Links : With(g, r) => link' \in [Conn -> Links]
        BY <1>0, <3>3 DEF With, TypeOK
      <4>5. \E u \in Int, b \in BOOLEAN : With(g, Link(0, u, b, FALSE)) \/ Breaks(g)
        <5> DEFINE l == link[held[g]]
                   sent == IF multi[g] THEN 1 ELSE 0
        <5>1. \/ With(g, Link(0, (l.unread + sent) - (l.pending + sent),
                              l.queueing /\ ~multi[g], FALSE))
              \/ Breaks(g)
          BY <2>9, Zenon DEF Release
        <5>2. (l.unread + sent) - (l.pending + sent) \in Int
          BY <4>2
        <5>3. (l.queueing /\ ~multi[g]) \in BOOLEAN
          BY Zenon
        <5> QED
          BY <5>1, <5>2, <5>3, Zenon
      <4> QED
        BY <4>2, <4>3, <4>4, <4>5 DEF Breaks
    <3>5. TypeOK'
      BY <1>0, <2>9, <3>2, <3>4 DEF TypeOK, Release, pool
    <3>6. TokensKept' /\ ActiveCounts'
      BY <1>0, <2>9, <3>2 DEF Release, TokensKept, ActiveCounts, pool
    <3>7. Started' /\ HeldIsConn'
      BY <1>0, <2>9, <3>2 DEF TypeOK, Release, Started, HeldIsConn, In, HasConn, pool
    <3> QED
      BY <3>5, <3>6, <3>7 DEF Counts
  <2>10. CASE PutIdle(g)
    <3>1. Go(g, "put", "out") /\ GiveToken /\ idle' = <<held[g]>> \o idle
      BY <2>10 DEF PutIdle
    <3>2. /\ phase[g] = "put" /\ phase' = [phase EXCEPT ![g] = "out"]
          /\ Cardinality(In(Holding)') = Cardinality(In(Holding)) - 1
          /\ Cardinality(In(Owning)') = Cardinality(In(Owning)) - 1
      BY <1>0, <3>1, Moved DEF Phases, Holding, Owning
    <3>3. held[g] \in Conn
      BY <1>0, <3>2 DEF HeldIsConn, In, HasConn
    <3>4. idle' \in Seq(Conn) /\ Len(idle') = Len(idle) + 1
      BY <1>0, <3>1, <3>3, Pushed DEF TypeOK
    <3>5. TypeOK'
      BY <1>0, <2>10, <3>2, <3>4 DEF TypeOK, PutIdle, GiveToken
    <3>6. ActiveCounts'
      BY <1>0, <2>10, <3>2, <3>4 DEF TypeOK, PutIdle, ActiveCounts
    <3>60. TokensKept'
      BY <1>0, <2>10, <3>1, <3>2, TokenGiven DEF PutIdle
    <3>7. Started' /\ HeldIsConn'
      BY <1>0, <2>10, <3>2 DEF TypeOK, PutIdle, Started, HeldIsConn, In, HasConn
    <3> QED
      BY <3>5, <3>6, <3>60, <3>7 DEF Counts
  <2>11. CASE PutFull(g)
    <3> DEFINE all == <<held[g]>> \o idle
    <3>1. Go(g, "put", "drop") /\ idle' = SubSeq(all, 1, Len(all) - 1)
          /\ held' = [held EXCEPT ![g] = all[Len(all)]]
      BY <2>11 DEF PutFull
    <3>2. /\ phase[g] = "put" /\ phase' = [phase EXCEPT ![g] = "drop"]
          /\ Cardinality(In(Holding)') = Cardinality(In(Holding))
          /\ Cardinality(In(Owning)') = Cardinality(In(Owning))
      BY <1>0, <3>1, Moved DEF Phases, Holding, Owning
    <3>3. held[g] \in Conn
      BY <1>0, <3>2 DEF HeldIsConn, In, HasConn
    <3>4. all \in Seq(Conn) /\ Len(all) = Len(idle) + 1
      BY <1>0, <3>3, Pushed DEF TypeOK
    <3> HIDE DEF all
    <3>5. all[Len(all)] \in Conn /\ \A k \in 1..(Len(all) - 1) : all[k] \in Conn
      BY <1>0, <3>4
    <3>6. idle' \in Seq(Conn) /\ Len(idle') = Len(idle)
      BY <1>0, <3>1, <3>4, <3>5, SubSeqProperties
    <3>7. TypeOK'
      BY <1>0, <2>11, <3>1, <3>2, <3>5, <3>6 DEF TypeOK, PutFull
    <3>8. TokensKept' /\ ActiveCounts'
      BY <1>0, <2>11, <3>2, <3>6 DEF PutFull, TokensKept, ActiveCounts
    <3>9. Started' /\ HeldIsConn'
      BY <1>0, <2>11, <3>1, <3>2, <3>5 DEF TypeOK, PutFull, Started, HeldIsConn, In, HasConn
    <3> QED
      BY <3>7, <3>8, <3>9 DEF Counts
  <2>12. CASE PutForced(g)
    <3>1. Go(g, "put", "drop")
      BY <2>12 DEF PutForced
    <3>2. /\ phase[g] = "put" /\ phase' = [phase EXCEPT ![g] = "drop"]
          /\ Cardinality(In(Holding)') = Cardinality(In(Holding))
          /\ Cardinality(In(Owning)') = Cardinality(In(Owning))
      BY <1>0, <3>1, Moved DEF Phases, Holding, Owning
    <3>3. TypeOK'
      BY <1>0, <2>12, <3>2 DEF TypeOK, PutForced, pool
    <3>4. TokensKept' /\ ActiveCounts'
      BY <1>0, <2>12, <3>2 DEF PutForced, TokensKept, ActiveCounts, pool
    <3>5. Started' /\ HeldIsConn'
      BY <1>0, <2>12, <3>2 DEF TypeOK, PutForced, Started, HeldIsConn, In, HasConn, pool
    <3> QED
      BY <3>3, <3>4, <3>5 DEF Counts
  <2>13. CASE Drop(g)
    <3>1. Go(g, "drop", "out") /\ GiveToken /\ active' = active - 1
      BY <2>13 DEF Drop
    <3>2. /\ phase[g] = "drop" /\ phase' = [phase EXCEPT ![g] = "out"]
          /\ Cardinality(In(Holding)') = Cardinality(In(Holding)) - 1
          /\ Cardinality(In(Owning)') = Cardinality(In(Owning)) - 1
          /\ Cardinality(In(Owning)') \in Nat
      <4>1. In(Owning)' \in SUBSET Goroutine
        BY DEF In
      <4>2. Cardinality(In(Owning)') \in Nat
        BY <4>1, FS_Subset, FS_CardinalityType
      <4> QED
        BY <1>0, <3>1, <4>2, Moved DEF Phases, Holding, Owning
    <3>3. active' \in 0..MaxActive /\ tokens' \in 0..MaxActive
      BY SMTT(30), <1>0, <3>1, <3>2 DEF TypeOK, ActiveCounts, GiveToken
    <3>4. TypeOK'
      BY <1>0, <2>13, <3>2, <3>3 DEF TypeOK, Drop
    <3>5. ActiveCounts'
      BY <1>0, <2>13, <3>1, <3>2, <3>3 DEF TypeOK, Drop, ActiveCounts
    <3>50. TokensKept'
      BY <1>0, <2>13, <3>1, <3>2, TokenGiven DEF Drop
    <3>6. Started' /\ HeldIsConn'
      BY <1>0, <2>13, <3>2 DEF TypeOK, Drop, Started, HeldIsConn, In, HasConn
    <3> QED
      BY <3>4, <3>5, <3>50, <3>6 DEF Counts
  <2> QED
    BY <1>3, <2>1, <2>2, <2>3, <2>4, <2>5, <2>6, <2>7, <2>8, <2>9, <2>10, <2>11, <2>12, <2>13
    DEF Get, Put
<1> QED
  BY <1>1, <1>2, <1>3 DEF Next

\* The pool's state keeps its type: never more tokens or connections than
\* MaxActive, nor more idle connections than MaxIdle.
THEOREM PoolTypeCorrect == Spec => []TypeOK
<1>1. Counts => TypeOK
  BY DEF Counts
<1> QED
  BY <1>1, CountsInit, CountsStep, PTL DEF Spec

\* The pool never loses or makes up a token (pool.go: get, put), for any number
\* of goroutines and whatever fails.
THEOREM TokensAreKept == Spec => []TokensKept
<1>1. Counts => TokensKept
  BY DEF Counts
<1> QED
  BY <1>1, CountsInit, CountsStep, PTL DEF Spec

\* p.active is the number of connections and stays within MaxActive.
THEOREM ActiveIsBounded == Spec => []ActiveCounts
<1>1. Counts => ActiveCounts
  BY DEF Counts
<1> QED
  BY <1>1, CountsInit, CountsStep, PTL DEF Spec

-----------------------------------------------------------------------------
\* A connection stays where it is when no goroutine gets or loses one.
LEMMA PlacesUnchanged ==
  ASSUME OnePlace, UNCHANGED <<held, idle, open>>, In(HasConn)' = In(HasConn)
  PROVE  OnePlace'
BY DEF OnePlace

\* A connection only moves: from nowhere to its dialer, from the idle list to who
\* gets it and back, or out of the pool with its socket closed.
LEMMA PlacesStep == Counts /\ OnePlace /\ [Next]_vars => OnePlace'
<1> SUFFICES ASSUME Counts, OnePlace, [Next]_vars PROVE OnePlace'
  OBVIOUS
<1>0. /\ phase \in [Goroutine -> Phases] /\ held \in [Goroutine -> Conn \cup {NoConn}]
      /\ idle \in Seq(Conn) /\ HeldIsConn
  BY DEF Counts, TypeOK, Phases
<1>1. CASE UNCHANGED vars
  BY <1>1, PlacesUnchanged DEF vars, In
<1>2. CASE Close
  <2>1. UNCHANGED <<phase, held>> /\ idle' = <<>> /\ Len(idle') = 0
        /\ open' = open \ {idle[k] : k \in 1..Len(idle)}
    BY <1>2 DEF Close
  <2>2. In(HasConn)' = In(HasConn)
    BY <2>1 DEF In
  <2> QED
    BY <2>1, <2>2 DEF OnePlace
<1>3. ASSUME NEW g \in Goroutine,
             \/ LazyInit(g) \/ TakeToken(g) \/ GetOnClosed(g) \/ StartDial(g)
             \/ DialFailed(g) \/ Use(g) \/ Release(g) \/ PutForced(g)
      PROVE  OnePlace'
  <2>1. UNCHANGED <<held, idle, open>>
    BY <1>3 DEF LazyInit, TakeToken, GetOnClosed, StartDial, DialFailed, Release, PutForced,
                Use, Send, Do, Receive, Fatal, Works, Using, pool
  <2>2. \/ phase' = phase
        \/ \E from, to : /\ phase[g] = from /\ phase' = [phase EXCEPT ![g] = to]
                         /\ from \in HasConn <=> to \in HasConn
    BY <1>3 DEF LazyInit, TakeToken, GetOnClosed, StartDial, DialFailed, Release, PutForced,
                Use, Send, Do, Receive, Fatal, Works, Using, Go, HasConn
  <2>3. In(HasConn)' = In(HasConn)
    BY <1>0, <2>2 DEF In
  <2> QED
    BY <2>1, <2>3, PlacesUnchanged
<1>4. ASSUME NEW g \in Goroutine, GetIdle(g) PROVE OnePlace'
  <2>1. /\ In(HasConn)' = In(HasConn) \cup {g} /\ g \notin In(HasConn)
        /\ held' = [held EXCEPT ![g] = Head(idle)] /\ idle' = Tail(idle) /\ idle # <<>>
        /\ open' = open
    BY <1>0, <1>4 DEF GetIdle, Go, In, HasConn
  <2>2. /\ Len(idle) \in Nat /\ Len(idle') = Len(idle) - 1 /\ Head(idle) = idle[1]
        /\ \A k \in 1..Len(idle') : idle'[k] = idle[k + 1]
        /\ Len(idle) > 0
    BY <1>0, <2>1, HeadTailProperties
  <2>3. \A h \in In(HasConn) : h # g /\ held'[h] = held[h]
    BY <1>0, <2>1 DEF In
  <2>4. held'[g] = idle[1]
    BY <1>0, <2>1, <2>2
  <2>5. \A k \in 1..Len(idle) : k = 1 \/ (k - 1 \in 1..Len(idle') /\ idle[k] = idle'[k - 1])
    BY <2>2
  <2>6. open' = {held'[h] : h \in In(HasConn)'} \cup {idle'[k] : k \in 1..Len(idle')}
    BY SMTT(30), <2>1, <2>2, <2>3, <2>4, <2>5 DEF OnePlace
  <2>7. 1 \in 1..Len(idle) /\ \A k \in 1..Len(idle') : k + 1 \in 1..Len(idle) /\ k + 1 # 1
    BY <2>2
  <2>8. \A h, i \in In(HasConn)' : h # i => held'[h] # held'[i]
    BY <2>1, <2>3, <2>4, <2>7 DEF OnePlace
  <2>9. \A h \in In(HasConn)' : \A k \in 1..Len(idle') : held'[h] # idle'[k]
    <3>1. \A k \in 1..Len(idle') : idle'[k] = idle[k + 1] /\ idle[k + 1] # idle[1]
      BY <2>2, <2>7 DEF OnePlace
    <3>2. \A h \in In(HasConn) : \A k \in 1..Len(idle') : held[h] # idle[k + 1]
      BY <2>7 DEF OnePlace
    <3> QED
      BY <2>1, <2>3, <2>4, <3>1, <3>2
  <2>10. \A j, k \in 1..Len(idle') : j # k => idle'[j] # idle'[k]
    <3>1. \A j, k \in 1..Len(idle') : j # k => j + 1 # k + 1
      BY <2>2
    <3> QED
      BY <2>2, <2>7, <3>1 DEF OnePlace
  <2> QED
    BY <2>6, <2>8, <2>9, <2>10 DEF OnePlace
<1>5. ASSUME NEW g \in Goroutine, NEW c \in Conn, Dialed(g, c) PROVE OnePlace'
  <2>1. /\ In(HasConn)' = In(HasConn) \cup {g} /\ g \notin In(HasConn)
        /\ held' = [held EXCEPT ![g] = c] /\ idle' = idle
        /\ c \notin open /\ open' = open \cup {c}
    BY <1>0, <1>5 DEF Dialed, Go, In, HasConn, pool
  <2>2. held'[g] = c /\ \A h \in In(HasConn) : h # g /\ held'[h] = held[h]
    BY <1>0, <2>1 DEF In
  <2> QED
    BY <2>1, <2>2 DEF OnePlace
<1>6. ASSUME NEW g \in Goroutine, PutIdle(g) PROVE OnePlace'
  <2>1. /\ In(HasConn)' = In(HasConn) \ {g} /\ g \in In(HasConn)
        /\ held' = [held EXCEPT ![g] = NoConn] /\ idle' = <<held[g]>> \o idle
        /\ open' = open
    BY <1>0, <1>6 DEF PutIdle, Go, In, HasConn
  <2>2. /\ Len(idle) \in Nat /\ Len(idle') = Len(idle) + 1 /\ idle'[1] = held[g]
        /\ \A k \in 1..Len(idle) : idle'[k + 1] = idle[k]
        /\ \A k \in 2..Len(idle') : k - 1 \in 1..Len(idle) /\ idle'[k] = idle[k - 1]
    BY <1>0, <2>1, Pushed DEF HeldIsConn
  <2>3. \A h \in In(HasConn)' : h # g /\ held'[h] = held[h] /\ h \in In(HasConn)
    BY <1>0, <2>1 DEF In
  <2>4. \A k \in 1..Len(idle') : k = 1 \/ k \in 2..Len(idle')
    OBVIOUS
  <2>5. open' = {held'[h] : h \in In(HasConn)'} \cup {idle'[k] : k \in 1..Len(idle')}
    <3>1. \A k \in 1..Len(idle) : k + 1 \in 1..Len(idle')
      BY <2>2
    <3>2. 1 \in 1..Len(idle')
      BY <2>2
    <3> QED
      BY <2>1, <2>2, <2>3, <2>4, <3>1, <3>2 DEF OnePlace
  <2>6. \A j, k \in 1..Len(idle') : j # k => idle'[j] # idle'[k]
    <3>1. \A k \in 1..Len(idle) : held[g] # idle[k]
      BY <2>1 DEF OnePlace
    <3>2. \A k \in 2..Len(idle') : idle'[k] # idle'[1]
      BY <2>2, <3>1
    <3>3. \A j, k \in 2..Len(idle') : j # k => j - 1 # k - 1
      OBVIOUS
    <3>4. \A j, k \in 2..Len(idle') : j # k => idle'[j] # idle'[k]
      BY <2>2, <3>3 DEF OnePlace
    <3> QED
      BY <2>4, <3>2, <3>4
  <2> QED
    BY <2>1, <2>2, <2>3, <2>4, <2>5, <2>6 DEF OnePlace
<1>7. ASSUME NEW g \in Goroutine, PutFull(g) PROVE OnePlace'
  <2> DEFINE all == <<held[g]>> \o idle
             n == Len(idle)
  <2>1. /\ In(HasConn)' = In(HasConn) /\ g \in In(HasConn)
        /\ held' = [held EXCEPT ![g] = all[Len(all)]]
        /\ idle' = SubSeq(all, 1, Len(all) - 1) /\ open' = open
    BY <1>0, <1>7 DEF PutFull, Go, In, HasConn
  <2>2. /\ n \in Nat /\ Len(all) = n + 1 /\ all[1] = held[g] /\ all \in Seq(Conn)
        /\ \A k \in 1..n : all[k + 1] = idle[k]
        /\ \A k \in 2..Len(all) : k - 1 \in 1..n /\ all[k] = idle[k - 1]
    BY <1>0, <2>1, Pushed DEF HeldIsConn
  <2> HIDE DEF all
  <2>3. Len(idle') = n /\ \A k \in 1..n : idle'[k] = all[k]
    BY <2>1, <2>2, SubSeqProperties
  <2>4. held'[g] = all[n + 1] /\ \A h \in In(HasConn) : h # g => held'[h] = held[h]
    BY <1>0, <2>1, <2>2 DEF In
  <2> HIDE DEF n
  <2>5. \A j, k \in 1..(n + 1) : j # k => all[j] # all[k]
    <3>1. \A k \in 1..(n + 1) : k = 1 \/ k \in 2..Len(all)
      BY <2>2
    <3>2. \A j, k \in 1..n : j # k => idle[j] # idle[k]
      BY DEF OnePlace, n
    <3>3. \A k \in 1..n : held[g] # idle[k]
      BY <2>1 DEF OnePlace, n
    <3>4. \A k \in 2..Len(all) : all[k] # all[1]
      BY <2>2, <3>3
    <3>5. \A j, k \in 2..Len(all) : j # k => j - 1 # k - 1
      BY <2>2
    <3>6. \A j, k \in 2..Len(all) : j # k => all[j] # all[k]
      <4> SUFFICES ASSUME NEW j \in 2..Len(all), NEW k \in 2..Len(all), j # k
                   PROVE  all[j] # all[k]
        OBVIOUS
      <4>1. j - 1 \in 1..n /\ k - 1 \in 1..n /\ all[j] = idle[j - 1] /\ all[k] = idle[k - 1]
        BY <2>2
      <4>2. idle[j - 1] # idle[k - 1]
        BY <3>2, <3>5, <4>1
      <4> QED
        BY <4>1, <4>2
    <3> QED
      BY <3>1, <3>4, <3>6
  <2>6. \A h \in In(HasConn) : h # g => \A k \in 1..(n + 1) : held[h] # all[k]
    <3>1. \A k \in 1..(n + 1) : k = 1 \/ k \in 2..Len(all)
      BY <2>2
    <3>2. \A h \in In(HasConn) : h # g => held[h] # held[g]
      BY <2>1 DEF OnePlace
    <3>3. \A h \in In(HasConn) : \A k \in 1..n : held[h] # idle[k]
      BY DEF OnePlace, n
    <3> QED
      BY <2>2, <3>1, <3>2, <3>3
  <2>7. open = {held[h] : h \in In(HasConn) \ {g}} \cup {all[k] : k \in 1..(n + 1)}
    <3>1. open = {held[h] : h \in In(HasConn)} \cup {idle[k] : k \in 1..n}
      BY DEF OnePlace, n
    <3>2. {all[k] : k \in 1..(n + 1)} = {held[g]} \cup {idle[k] : k \in 1..n}
      <4>1. \A k \in 1..n : k + 1 \in 1..(n + 1) /\ all[k + 1] = idle[k]
        BY <2>2
      <4>2. \A k \in 1..(n + 1) : k = 1 \/ (k - 1 \in 1..n /\ all[k] = idle[k - 1])
        BY <2>2
      <4>3. 1 \in 1..(n + 1) /\ all[1] = held[g]
        BY <2>2
      <4> QED
        BY <4>1, <4>2, <4>3
    <3> QED
      BY <2>1, <3>1, <3>2
  <2>8. {all[k] : k \in 1..(n + 1)} = {held'[g]} \cup {idle'[k] : k \in 1..n}
    <3>1. \A k \in 1..(n + 1) : k = n + 1 \/ k \in 1..n
      BY <2>2
    <3>2. n + 1 \in 1..(n + 1) /\ \A k \in 1..n : k \in 1..(n + 1)
      BY <2>2
    <3> QED
      BY <2>3, <2>4, <3>1, <3>2
  <2>9. open' = {held'[h] : h \in In(HasConn)'} \cup {idle'[k] : k \in 1..Len(idle')}
    BY <2>1, <2>3, <2>4, <2>7, <2>8
  <2>10. \A j, k \in 1..Len(idle') : j # k => idle'[j] # idle'[k]
    BY <2>2, <2>3, <2>5
  <2>11. \A h \in In(HasConn)' : \A k \in 1..Len(idle') : held'[h] # idle'[k]
    BY <2>1, <2>2, <2>3, <2>4, <2>5, <2>6
  <2>12. \A h, i \in In(HasConn)' : h # i => held'[h] # held'[i]
    <3>1. \A h, i \in In(HasConn) : h # i => held[h] # held[i]
      BY DEF OnePlace
    <3>2. n + 1 \in 1..(n + 1)
      BY <2>2
    <3> QED
      BY <2>1, <2>4, <2>6, <3>1, <3>2
  <2> QED
    BY <2>9, <2>10, <2>11, <2>12 DEF OnePlace
<1>8. ASSUME NEW g \in Goroutine, Drop(g) PROVE OnePlace'
  <2>1. /\ In(HasConn)' = In(HasConn) \ {g} /\ g \in In(HasConn)
        /\ held' = [held EXCEPT ![g] = NoConn] /\ idle' = idle /\ open' = open \ {held[g]}
    BY <1>0, <1>8 DEF Drop, Go, In, HasConn
  <2>2. \A h \in In(HasConn)' : h # g /\ held'[h] = held[h] /\ h \in In(HasConn)
    BY <1>0, <2>1 DEF In
  <2> QED
    BY <2>1, <2>2 DEF OnePlace
<1> QED
  BY <1>1, <1>2, <1>3, <1>4, <1>5, <1>6, <1>7, <1>8 DEF Next, Get, Put

\* There is no connection at first.
LEMMA PlacesInit == Init => OnePlace
<1> SUFFICES ASSUME Init PROVE OnePlace
  OBVIOUS
<1>1. In(HasConn) = {} /\ idle = <<>> /\ Len(idle) = 0 /\ open = {}
  BY DEF Init, In, HasConn
<1> QED
  BY <1>1 DEF OnePlace

\* No connection is with two goroutines, in the idle list while one uses it, or
\* forgotten with its socket open (pool.go: get, put, Close).
THEOREM ConnectionsInOnePlace == Spec => []OnePlace
BY CountsInit, CountsStep, PlacesInit, PlacesStep, PTL DEF Spec

-----------------------------------------------------------------------------
(* Links: whoever gets a connection gets a clean one, and the replies to its *)
(* own commands.                                                             *)


\* A transaction is open only with its user, and activeConn.Close leaves a
\* working connection with nothing to come.
MultiIsUsed == \A g \in Goroutine : phase[g] # "use" => multi[g] = FALSE
PutIsClean == \A g \in In({"put"}) : ~link[held[g]].err => link[held[g]] = Fresh
Clean == IdleIsClean /\ RepliesMatch /\ MultiIsUsed /\ PutIsClean

\* A user changes its own link only: in the pool and with others, connections are
\* not its own (OnePlace).
LEMMA OwnLink ==
  ASSUME Counts, OnePlace, Clean, NEW g \in In({"use"}), NEW r,
         link' = [link EXCEPT ![held[g]] = r], UNCHANGED <<idle, held>>,
         \A h \in Goroutine \ {g} : phase'[h] = phase[h] /\ multi'[h] = multi[h],
         phase'[g] \in {"use", "put"},
         ~r.err => r.unread = r.pending /\ r.queueing = multi'[g],
         phase'[g] = "put" => multi'[g] = FALSE /\ (~r.err => r = Fresh)
  PROVE  Clean'
<1>1. /\ link \in [Conn -> Links] /\ idle \in Seq(Conn)
      /\ \A h \in In(HasConn) : held[h] \in Conn
  BY DEF Counts, TypeOK, HeldIsConn
<1>2. g \in Goroutine /\ g \in In(HasConn) /\ link'[held[g]] = r
  BY <1>1 DEF In, HasConn
<1>3. In(HasConn)' = In(HasConn)
  BY <1>2 DEF In, HasConn
<1>4. \A h \in In(HasConn) : h # g => link'[held[h]] = link[held[h]]
  BY <1>1, <1>2 DEF OnePlace
<1>5. \A k \in 1..Len(idle) : link'[idle[k]] = link[idle[k]]
  <2>1. \A k \in 1..Len(idle) : idle[k] \in Conn /\ idle[k] # held[g]
    BY <1>1, <1>2 DEF OnePlace
  <2> QED
    BY <1>1, <2>1
<1>6. IdleIsClean'
  BY <1>5 DEF Clean, IdleIsClean
<1>7. RepliesMatch'
  <2> SUFFICES ASSUME NEW h \in In(HasConn)', ~link'[held'[h]].err
               PROVE  /\ link'[held'[h]].unread = link'[held'[h]].pending
                      /\ link'[held'[h]].queueing = multi'[h]
    BY DEF RepliesMatch
  <2>1. CASE h = g
    BY <2>1, <1>2
  <2>2. CASE h # g
    BY <2>2, <1>3, <1>4 DEF Clean, RepliesMatch, In
  <2> QED
    BY <2>1, <2>2
<1>8. MultiIsUsed'
  BY <1>2 DEF Clean, MultiIsUsed
<1>9. PutIsClean'
  <2> SUFFICES ASSUME NEW h \in In({"put"})', ~link'[held'[h]].err
               PROVE  link'[held'[h]] = Fresh
    BY DEF PutIsClean
  <2>1. CASE h = g
    BY <2>1, <1>2 DEF In
  <2>2. CASE h # g
    BY <2>2, <1>3, <1>4 DEF Clean, PutIsClean, In, HasConn
  <2> QED
    BY <2>1, <2>2
<1> QED
  BY <1>6, <1>7, <1>8, <1>9 DEF Clean

\* Where connections only move, a clean one stays clean.
LEMMA LinksUnchanged ==
  ASSUME Clean, UNCHANGED <<link, multi>>,
         \A k \in 1..Len(idle') : link[idle'[k]] = Fresh,
         \A g \in Goroutine : phase'[g] \in HasConn =>
            \/ /\ held'[g] = held[g]
               /\ phase'[g] = phase[g] \/ (phase[g] = "put" /\ phase'[g] = "drop")
            \/ multi[g] = FALSE /\ link[held'[g]] = Fresh,
         \A g \in Goroutine : phase'[g] # "use" => multi[g] = FALSE
  PROVE  Clean'
<1>1. Fresh.unread = Fresh.pending /\ Fresh.queueing = FALSE
  BY DEF Fresh, Link
<1>2. IdleIsClean'
  BY DEF IdleIsClean
<1>3. RepliesMatch'
  BY <1>1 DEF Clean, RepliesMatch, In, HasConn
<1>4. MultiIsUsed'
  BY DEF Clean, MultiIsUsed
<1>5. PutIsClean'
  BY DEF Clean, PutIsClean, In, HasConn
<1> QED
  BY <1>2, <1>3, <1>4, <1>5 DEF Clean

\* The steps of a user.
LEMMA UseKeepsClean ==
  ASSUME Counts, OnePlace, Clean, NEW g \in Goroutine, Use(g)
  PROVE  Clean'
<1> DEFINE l == link[held[g]]
<1>1. /\ UNCHANGED <<idle, phase, held>> /\ g \in In({"use"}) /\ phase[g] = "use"
      /\ g \in In(HasConn)
  BY DEF Use, Send, Do, Receive, Fatal, Works, Using, pool, In, HasConn
<1>2. l \in Links /\ multi \in [Goroutine -> BOOLEAN]
  BY <1>1 DEF Counts, HeldIsConn, TypeOK
<1>3. l.pending \in Nat /\ l.unread \in Int
  BY <1>2 DEF Links
<1>4. ~l.err => l.unread = l.pending /\ l.queueing = multi[g]
  BY <1>1 DEF Clean, RepliesMatch
<1>5. ASSUME NEW cmd, Send(g, cmd) PROVE Clean'
  <2> DEFINE r == Link(l.pending + 1, l.unread + 1, After(cmd, l.queueing), FALSE)
  <2>1. /\ ~l.err /\ link' = [link EXCEPT ![held[g]] = r]
        /\ multi' = [multi EXCEPT ![g] = After(cmd, @)]
    BY <1>5 DEF Send, Works, With
  <2>2. r.pending = l.pending + 1 /\ r.unread = l.unread + 1 /\ r.queueing = After(cmd, l.queueing)
    BY DEF Link
  <2>3. r.unread = r.pending
    BY <2>1, <2>2, <1>4
  <2>4. r.queueing = multi'[g] /\ \A h \in Goroutine \ {g} : multi'[h] = multi[h]
    BY <2>1, <2>2, <1>2, <1>4, Zenon
  <2> HIDE DEF r, l
  <2> QED
    BY <1>1, <2>1, <2>3, <2>4, OwnLink
<1>6. ASSUME NEW cmd, Do(g, cmd) PROVE Clean'
  <2> DEFINE r == Link(0, l.unread - l.pending, After(cmd, l.queueing), FALSE)
  <2>1. /\ ~l.err /\ link' = [link EXCEPT ![held[g]] = r]
        /\ multi' = [multi EXCEPT ![g] = After(cmd, @)]
    BY <1>6 DEF Do, Works, With
  <2>2. r.pending = 0 /\ r.unread = l.unread - l.pending /\ r.queueing = After(cmd, l.queueing)
    BY DEF Link
  <2>3. r.unread = r.pending
    <3>1. l.unread - l.pending = 0
      BY <2>1, <1>3, <1>4
    <3> QED
      BY <2>2, <3>1, Zenon
  <2>4. r.queueing = multi'[g] /\ \A h \in Goroutine \ {g} : multi'[h] = multi[h]
    BY <2>1, <2>2, <1>2, <1>4, Zenon
  <2> HIDE DEF r, l
  <2> QED
    BY <1>1, <2>1, <2>3, <2>4, OwnLink
<1>7. ASSUME Receive(g) PROVE Clean'
  <2> DEFINE n == IF l.pending > 0 THEN l.pending - 1 ELSE 0
             r == Link(n, l.unread - 1, l.queueing, FALSE)
  <2>1. /\ ~l.err /\ link' = [link EXCEPT ![held[g]] = r] /\ multi' = multi /\ l.unread > 0
    BY <1>7 DEF Receive, Works, With
  <2>2. r.pending = n /\ r.unread = l.unread - 1 /\ r.queueing = l.queueing
    BY DEF Link
  <2>3. r.unread = r.pending
    BY <2>1, <2>2, <1>3, <1>4
  <2>4. r.queueing = multi'[g]
    BY <2>1, <2>2, <1>4, Zenon
  <2> HIDE DEF r, l
  <2> QED
    BY <1>1, <2>1, <2>3, <2>4, OwnLink
<1>8. ASSUME Fatal(g) PROVE Clean'
  <2> DEFINE r == Link(l.pending, l.unread, l.queueing, TRUE)
  <2>1. link' = [link EXCEPT ![held[g]] = r] /\ multi' = multi
    BY <1>8 DEF Fatal, Breaks, With
  <2>2. r.err = TRUE
    BY DEF Link
  <2> HIDE DEF r, l
  <2> QED
    BY <1>1, <2>1, <2>2, OwnLink
<1> QED
  BY <1>5, <1>6, <1>7, <1>8 DEF Use

\* activeConn.Close ends what its user began.
LEMMA ReleaseKeepsClean ==
  ASSUME Counts, OnePlace, Clean, NEW g \in Goroutine, Release(g)
  PROVE  Clean'
<1> DEFINE l == link[held[g]]
           sent == IF multi[g] THEN 1 ELSE 0
<1>1. /\ UNCHANGED <<idle, held>> /\ g \in In({"use"}) /\ phase[g] = "use"
      /\ g \in In(HasConn) /\ phase' = [phase EXCEPT ![g] = "put"]
      /\ multi' = [multi EXCEPT ![g] = FALSE]
  BY DEF Release, Go, pool, In, HasConn
<1>2. /\ l \in Links /\ multi \in [Goroutine -> BOOLEAN] /\ phase \in [Goroutine -> Phases]
  BY <1>1 DEF Counts, HeldIsConn, TypeOK, Phases
<1>3. l.pending \in Nat /\ l.unread \in Int /\ sent \in Nat
  BY <1>2 DEF Links
<1>4. ~l.err => l.unread = l.pending /\ l.queueing = multi[g]
  BY <1>1 DEF Clean, RepliesMatch
<1>5. /\ phase'[g] = "put" /\ multi'[g] = FALSE
      /\ \A h \in Goroutine \ {g} : phase'[h] = phase[h] /\ multi'[h] = multi[h]
  BY <1>1, <1>2
<1>6. CASE ~l.err /\ With(g, Link(0, (l.unread + sent) - (l.pending + sent),
                                  l.queueing /\ ~multi[g], FALSE))
  <2>1. (l.unread + sent) - (l.pending + sent) = 0
    BY <1>3, <1>4, <1>6
  <2>2. (l.queueing /\ ~multi[g]) = FALSE
    BY <1>4, <1>6, <1>2
  <2>3. link' = [link EXCEPT ![held[g]] = Fresh]
    BY <1>6, <2>1, <2>2 DEF With, Fresh
  <2>4. Fresh.unread = Fresh.pending /\ Fresh.queueing = FALSE
    BY DEF Fresh, Link
  <2> QED
    BY <1>1, <1>5, <2>3, <2>4, OwnLink
<1>7. CASE Breaks(g)
  <2> DEFINE r == Link(l.pending, l.unread, l.queueing, TRUE)
  <2>1. link' = [link EXCEPT ![held[g]] = r]
    BY <1>7 DEF Breaks, With
  <2>2. r.err = TRUE
    BY DEF Link
  <2> HIDE DEF r, l
  <2> QED
    BY <1>1, <1>5, <2>1, <2>2, OwnLink
<1> QED
  BY <1>6, <1>7 DEF Release

LEMMA CleanStep == Counts /\ OnePlace /\ Clean /\ [Next]_vars => Clean'
<1> SUFFICES ASSUME Counts, OnePlace, Clean, [Next]_vars PROVE Clean'
  OBVIOUS
<1>0. /\ phase \in [Goroutine -> Phases] /\ held \in [Goroutine -> Conn \cup {NoConn}]
      /\ idle \in Seq(Conn) /\ HeldIsConn /\ link \in [Conn -> Links]
      /\ multi \in [Goroutine -> BOOLEAN]
  BY DEF Counts, TypeOK, Phases
<1>i. /\ \A k \in 1..Len(idle) : link[idle[k]] = Fresh
      /\ \A g \in Goroutine : phase[g] # "use" => multi[g] = FALSE
  BY DEF Clean, IdleIsClean, MultiIsUsed
<1>1. CASE UNCHANGED vars
  BY <1>1 DEF vars, pool, Clean, IdleIsClean, RepliesMatch, MultiIsUsed, PutIsClean, In
<1>2. CASE Close
  <2>1. UNCHANGED <<phase, held, link, multi>> /\ idle' = <<>> /\ Len(idle') = 0
    BY <1>2 DEF Close
  <2> QED
    BY <2>1 DEF Clean, IdleIsClean, RepliesMatch, MultiIsUsed, PutIsClean, In
<1>3. ASSUME NEW g \in Goroutine,
             \/ LazyInit(g) \/ TakeToken(g) \/ GetOnClosed(g) \/ StartDial(g) \/ DialFailed(g)
             \/ PutForced(g)
      PROVE  Clean'
  <2>1. UNCHANGED <<held, idle, link, multi>>
    BY <1>3 DEF LazyInit, TakeToken, GetOnClosed, StartDial, DialFailed, PutForced, pool
  <2>2. \/ phase[g] # "use" /\ phase' = [phase EXCEPT ![g] = "out"]
        \/ phase[g] # "use" /\ phase' = [phase EXCEPT ![g] = "wait"]
        \/ phase[g] # "use" /\ phase' = [phase EXCEPT ![g] = "get"]
        \/ phase[g] # "use" /\ phase' = [phase EXCEPT ![g] = "dial"]
        \/ phase[g] = "put" /\ phase' = [phase EXCEPT ![g] = "drop"]
    BY <1>3 DEF LazyInit, TakeToken, GetOnClosed, StartDial, DialFailed, PutForced, Go
  <2>3. \A h \in Goroutine :
          /\ phase'[h] \in HasConn => phase'[h] = phase[h] \/ (phase[h] = "put" /\ phase'[h] = "drop")
          /\ phase'[h] # "use" => phase[h] # "use"
    BY <1>0, <2>2 DEF HasConn
  <2> QED
    BY <1>i, <2>1, <2>3, LinksUnchanged
<1>4. ASSUME NEW g \in Goroutine, GetIdle(g) PROVE Clean'
  <2>1. /\ phase[g] = "get" /\ phase' = [phase EXCEPT ![g] = "use"]
        /\ held' = [held EXCEPT ![g] = Head(idle)] /\ idle' = Tail(idle) /\ idle # <<>>
        /\ UNCHANGED <<link, multi>>
    BY <1>4 DEF GetIdle, Go
  <2>2. /\ Len(idle) \in Nat /\ Len(idle') = Len(idle) - 1 /\ Head(idle) = idle[1]
        /\ \A k \in 1..Len(idle') : idle'[k] = idle[k + 1]
        /\ Len(idle) > 0
    BY <1>0, <2>1, HeadTailProperties
  <2>3. \A k \in 1..Len(idle') : link[idle'[k]] = Fresh
    BY <1>i, <2>2
  <2>4. held'[g] = idle[1] /\ phase'[g] = "use" /\ multi[g] = FALSE /\ link[held'[g]] = Fresh
    BY <1>0, <1>i, <2>1, <2>2
  <2>5. \A h \in Goroutine : h # g => held'[h] = held[h] /\ phase'[h] = phase[h]
    BY <1>0, <2>1
  <2>a. \A h \in Goroutine : phase'[h] \in HasConn =>
          \/ held'[h] = held[h] /\ phase'[h] = phase[h]
          \/ multi[h] = FALSE /\ link[held'[h]] = Fresh
    BY <1>i, <2>1, <2>3, <2>4, <2>5 DEF HasConn
  <2>b. \A h \in Goroutine : phase'[h] # "use" => multi[h] = FALSE
    BY <1>i, <2>1, <2>3, <2>4, <2>5
  <2> QED
    BY <1>i, <2>1, <2>3, <2>a, <2>b, LinksUnchanged
<1>5. ASSUME NEW g \in Goroutine, NEW c \in Conn, Dialed(g, c) PROVE Clean'
  <2>1. /\ phase[g] = "dial" /\ phase' = [phase EXCEPT ![g] = "use"] /\ c \notin open
        /\ held' = [held EXCEPT ![g] = c] /\ link' = [link EXCEPT ![c] = Fresh]
        /\ UNCHANGED <<idle, multi>>
    BY <1>5 DEF Dialed, Go, pool
  <2>2. \A h \in In(HasConn) : h # g /\ held[h] # c /\ held[h] \in Conn
    BY <2>1 DEF OnePlace, Counts, HeldIsConn, In, HasConn
  <2>3. \A k \in 1..Len(idle) : idle[k] # c /\ idle[k] \in Conn
    BY <1>0, <2>1 DEF OnePlace
  <2>4. /\ held'[g] = c /\ phase'[g] = "use" /\ multi[g] = FALSE /\ link'[c] = Fresh
        /\ \A h \in Goroutine : h # g => held'[h] = held[h] /\ phase'[h] = phase[h]
    BY <1>0, <1>i, <2>1
  <2>5. \A d \in Conn : d # c => link'[d] = link[d]
    BY <1>0, <2>1
  <2>6. Fresh.unread = Fresh.pending /\ Fresh.queueing = FALSE
    BY DEF Fresh, Link
  <2>7. \A h \in In(HasConn)' :
          \/ h = g
          \/ h \in In(HasConn) /\ held'[h] = held[h] /\ link'[held'[h]] = link[held[h]]
    <3>1. ASSUME NEW h \in In(HasConn)', h # g
          PROVE  h \in In(HasConn) /\ held'[h] = held[h]
      BY <2>4, <3>1 DEF In
    <3>2. ASSUME NEW h \in In(HasConn)', h # g
          PROVE  link'[held'[h]] = link[held[h]]
      BY <2>2, <2>5, <3>1, <3>2
    <3> QED
      BY <3>1, <3>2
  <2>8. IdleIsClean'
    BY <1>i, <2>1, <2>3, <2>5 DEF IdleIsClean
  <2>9. RepliesMatch'
    <3> SUFFICES ASSUME NEW h \in In(HasConn)', ~link'[held'[h]].err
                 PROVE  /\ link'[held'[h]].unread = link'[held'[h]].pending
                        /\ link'[held'[h]].queueing = multi'[h]
      BY DEF RepliesMatch
    <3>1. CASE h = g
      <4>1. link'[held'[h]] = Fresh
        BY <2>4, <3>1
      <4>2. multi'[h] = FALSE
        BY <2>1, <2>4, <3>1
      <4> QED
        BY <2>6, <4>1, <4>2
    <3>2. CASE h # g
      BY <2>1, <2>7, <3>2 DEF Clean, RepliesMatch
    <3> QED
      BY <3>1, <3>2
  <2>10. MultiIsUsed'
    BY <1>i, <2>1, <2>4 DEF MultiIsUsed
  <2>11. PutIsClean'
    <3> SUFFICES ASSUME NEW h \in In({"put"})', ~link'[held'[h]].err
                 PROVE  link'[held'[h]] = Fresh
      BY DEF PutIsClean
    <3>1. h # g /\ h \in In({"put"}) /\ h \in In(HasConn)'
      BY <2>4 DEF In, HasConn
    <3> QED
      BY <2>7, <3>1 DEF Clean, PutIsClean
  <2> QED
    BY <2>8, <2>9, <2>10, <2>11 DEF Clean
<1>6. ASSUME NEW g \in Goroutine, PutIdle(g) PROVE Clean'
  <2>1. /\ phase[g] = "put" /\ phase' = [phase EXCEPT ![g] = "out"] /\ ~link[held[g]].err
        /\ held' = [held EXCEPT ![g] = NoConn] /\ idle' = <<held[g]>> \o idle
        /\ UNCHANGED <<link, multi>>
    BY <1>6 DEF PutIdle, Go
  <2>2. held[g] \in Conn /\ link[held[g]] = Fresh
    BY <2>1 DEF Clean, PutIsClean, Counts, HeldIsConn, In, HasConn
  <2>3. \A k \in 1..Len(idle') : link[idle'[k]] = Fresh
    <3>1. /\ Len(idle') = Len(idle) + 1 /\ idle'[1] = held[g]
          /\ \A k \in 2..Len(idle') : k - 1 \in 1..Len(idle) /\ idle'[k] = idle[k - 1]
      BY <1>0, <2>1, <2>2, Pushed
    <3> QED
      BY <1>0, <1>i, <2>2, <3>1
  <2>4. /\ phase'[g] = "out"
        /\ \A h \in Goroutine : h # g => held'[h] = held[h] /\ phase'[h] = phase[h]
    BY <1>0, <2>1
  <2>a. \A h \in Goroutine : phase'[h] \in HasConn =>
          \/ held'[h] = held[h] /\ phase'[h] = phase[h]
          \/ multi[h] = FALSE /\ link[held'[h]] = Fresh
    BY <1>i, <2>1, <2>3, <2>4 DEF HasConn
  <2>b. \A h \in Goroutine : phase'[h] # "use" => multi[h] = FALSE
    BY <1>i, <2>1, <2>3, <2>4
  <2> QED
    BY <1>i, <2>1, <2>3, <2>a, <2>b, LinksUnchanged
<1>7. ASSUME NEW g \in Goroutine, PutFull(g) PROVE Clean'
  <2> DEFINE all == <<held[g]>> \o idle
  <2>1. /\ phase[g] = "put" /\ phase' = [phase EXCEPT ![g] = "drop"] /\ ~link[held[g]].err
        /\ held' = [held EXCEPT ![g] = all[Len(all)]] /\ idle' = SubSeq(all, 1, Len(all) - 1)
        /\ UNCHANGED <<link, multi>>
    BY <1>7 DEF PutFull, Go
  <2>2. held[g] \in Conn /\ link[held[g]] = Fresh
    BY <2>1 DEF Clean, PutIsClean, Counts, HeldIsConn, In, HasConn
  <2>3. /\ all \in Seq(Conn) /\ Len(all) = Len(idle) + 1 /\ all[1] = held[g]
        /\ \A k \in 2..Len(all) : k - 1 \in 1..Len(idle) /\ all[k] = idle[k - 1]
    BY <1>0, <2>2, Pushed
  <2>4. \A k \in 1..Len(all) : link[all[k]] = Fresh
    BY <1>0, <1>i, <2>2, <2>3
  <2> HIDE DEF all
  <2>5. Len(all) \in Nat \ {0} /\ Len(idle') = Len(all) - 1
        /\ \A k \in 1..Len(idle') : idle'[k] = all[k]
    BY <1>0, <2>1, <2>3
  <2>6. \A k \in 1..Len(idle') : link[idle'[k]] = Fresh
    BY <2>4, <2>5
  <2>7. /\ phase'[g] = "drop" /\ held'[g] = all[Len(all)] /\ multi[g] = FALSE
        /\ \A h \in Goroutine : h # g => held'[h] = held[h] /\ phase'[h] = phase[h]
    BY <1>0, <1>i, <2>1
  <2>8. link[held'[g]] = Fresh
    BY <2>4, <2>5, <2>7
  <2>a. \A h \in Goroutine : phase'[h] \in HasConn =>
          \/ held'[h] = held[h] /\ phase'[h] = phase[h]
          \/ multi[h] = FALSE /\ link[held'[h]] = Fresh
    BY <1>i, <2>1, <2>6, <2>7, <2>8 DEF HasConn
  <2>b. \A h \in Goroutine : phase'[h] # "use" => multi[h] = FALSE
    BY <1>i, <2>1, <2>6, <2>7, <2>8
  <2> QED
    BY <1>i, <2>1, <2>6, <2>a, <2>b, LinksUnchanged
<1>8. ASSUME NEW g \in Goroutine, Drop(g) PROVE Clean'
  <2>1. /\ phase[g] = "drop" /\ phase' = [phase EXCEPT ![g] = "out"]
        /\ held' = [held EXCEPT ![g] = NoConn] /\ UNCHANGED <<link, multi, idle>>
    BY <1>8 DEF Drop, Go
  <2>2. /\ phase'[g] = "out"
        /\ \A h \in Goroutine : h # g => held'[h] = held[h] /\ phase'[h] = phase[h]
    BY <1>0, <2>1
  <2>a. \A h \in Goroutine : phase'[h] \in HasConn =>
          \/ held'[h] = held[h] /\ phase'[h] = phase[h]
          \/ multi[h] = FALSE /\ link[held'[h]] = Fresh
    BY <1>i, <2>1, <2>2 DEF HasConn
  <2>b. \A h \in Goroutine : phase'[h] # "use" => multi[h] = FALSE
    BY <1>i, <2>1, <2>2
  <2> QED
    BY <1>i, <2>1, <2>a, <2>b, LinksUnchanged
<1> QED
  BY <1>1, <1>2, <1>3, <1>4, <1>5, <1>6, <1>7, <1>8, UseKeepsClean, ReleaseKeepsClean
     DEF Next, Get, Put

\* Before the first connection is dialed there is none to be clean.
LEMMA CleanInit == Init => Clean
<1> SUFFICES ASSUME Init PROVE Clean
  OBVIOUS
<1>1. /\ idle = <<>> /\ Len(idle) = 0 /\ \A g \in Goroutine : phase[g] = "out" /\ multi[g] = FALSE
  BY DEF Init
<1> QED
  BY <1>1 DEF Clean, IdleIsClean, RepliesMatch, MultiIsUsed, PutIsClean, In, HasConn

\* Connections in the idle list have no reply to come and no open transaction.
THEOREM IdleConnectionsAreClean == Spec => []IdleIsClean
<1>1. Clean => IdleIsClean
  BY DEF Clean
<1> QED
  BY <1>1, CountsInit, CountsStep, PlacesInit, PlacesStep, CleanInit, CleanStep, PTL DEF Spec

\* On a working connection the client and the server agree on the replies to
\* come and on the transaction, so that Do returns its own command's reply.
THEOREM RepliesAreOwn == Spec => []RepliesMatch
<1>1. Clean => RepliesMatch
  BY DEF Clean
<1> QED
  BY <1>1, CountsInit, CountsStep, PlacesInit, PlacesStep, CleanInit, CleanStep, PTL DEF Spec
=============================================================================
