--------------------------- MODULE PvCursorProofs --------------------------
(***************************************************************************)
(* For any number of pv and any screen that has room for them: those that  *)
(* have started have lines of their own, until one leaves.                 *)
(***************************************************************************)
EXTENDS PvCursor, FiniteSetTheorems, TLAPS

Step == {"init", "attach", "count", "top", "idle", "check", "look", "scroll", "write", "done"}
Types == /\ pc \in [Pv -> Step] /\ attached \subseteq Pv /\ top \in Int /\ row \in Int
         /\ y_start \in [Pv -> Int] /\ y_offset \in [Pv -> Int] /\ y_lastread \in [Pv -> Int]
         /\ pvmax \in [Pv -> Int]

Coming(p) == pc[p] \in {"count", "top"}
\* Who has attached, and that who is about to has the lock.
Phases == \A p \in Pv : /\ pc[p] # "done"
                        /\ p \in attached <=> Started(p) \/ Coming(p)
                        /\ pc[p] = "attach" \/ Coming(p) => holder = p
\* Every row that is in use is one of the terminal.
Rows == /\ row >= 1
        /\ \A p \in Pv : Started(p) => y_start[p] >= 1 /\ y_lastread[p] >= 1 /\ top >= 1
\* The numbers are below the count of the attached, and all different.
Numbers == \A p \in Pv : Started(p) =>
             /\ y_offset[p] >= 0 /\ y_offset[p] < Cardinality(attached)
             /\ \A q \in Pv \ {p} : Started(q) => y_offset[p] # y_offset[q]
\* One that comes makes the count larger by one, and the new number is free.
Newcomer == \A q \in Pv : Coming(q) =>
              /\ \A p \in Pv : Started(p) => y_offset[p] < Cardinality(attached) - 1
              /\ Cardinality(attached) = 1 \/ top >= 1
              /\ pc[q] = "top" => y_offset[q] = Cardinality(attached) - 1
Good == Phases /\ Rows /\ Numbers /\ Newcomer
Inv == Types /\ (~left => Good)

\* The count of the attached is a number.
LEMMA Counted == ASSUME attached \subseteq Pv PROVE Cardinality(attached) \in Nat
BY FS_Subset, FS_CardinalityType, CursorAssumption

\* At the start no process is attached.
LEMMA InvInit == Init => Inv
<1> SUFFICES ASSUME Init PROVE Inv
  OBVIOUS
<1>1. Types
  BY CursorAssumption DEF Init, None, Types, Step
<1>2. \A p \in Pv : pc[p] = "init" /\ p \notin attached /\ ~Started(p) /\ ~Coming(p)
  BY DEF Init, Started, Coming
<1>3. row >= 1
  BY CursorAssumption DEF Init
<1> QED
  BY <1>1, <1>2, <1>3 DEF Inv, Good, Phases, Rows, Numbers, Newcomer

\* All steps keep the types.
LEMMA TypesKeep == ASSUME Types, [Next]_vars PROVE Types'
<1>0. Cardinality(attached) \in Nat
  BY Counted DEF Types
<1>1. CASE UNCHANGED vars
  BY <1>1 DEF Types, vars, own
<1>2. ASSUME NEW p \in Pv, Displays(p) \/ Signal(p) \/ Fini(p) PROVE Types'
  <2>1. CASE InitLock(p) \/ Attach(p) \/ Update(p)
    BY <2>1 DEF Types, Step, InitLock, Attach, Update, Goes, own
  <2>2. CASE Offset(p) \/ Counts(p)
    BY <1>0, <2>2 DEF Types, Step, Offset, Counts, Goes, Set, CountAttached, Larger
  <2>3. CASE Top(p) \/ Reinit(p)
    BY <2>3 DEF Types, Step, Top, Reinit, Goes, Set, GetYpos
  <2>4. CASE Looks(p) \/ Writes(p)
    BY <2>4 DEF Types, Step, Looks, Writes, TopNow, Goes, Set, own
  <2>5. CASE Scrolls(p) \/ Signal(p)
    BY <2>5, CursorAssumption DEF Types, Step, Scrolls, Signal, Goes, Set, Larger
  <2>6. CASE Fini(p)
    BY <1>0, <2>6, CursorAssumption DEF Types, Step, Fini, Goes, Set, CountAttached, Larger
  <2> QED
    BY <1>2, <2>1, <2>2, <2>3, <2>4, <2>5, <2>6 DEF Displays
<1> QED
  BY <1>1, <1>2 DEF Next

\* A process that has started and stays so, and keeps its number.
LEMMA StaysGood ==
  ASSUME Types, Types', Good, NEW p \in Pv, Started(p), Started(p)',
         pc' = [pc EXCEPT ![p] = pc'[p]], UNCHANGED <<holder, attached, y_offset>>,
         row' >= 1, top' >= 1, y_start'[p] >= 1, y_lastread'[p] >= 1,
         \A q \in Pv \ {p} : y_start'[q] = y_start[q] /\ y_lastread'[q] = y_lastread[q]
  PROVE  Good'
<1>1. \A q \in Pv \ {p} : pc'[q] = pc[q]
  BY DEF Types
<1>2. \A q \in Pv : Started(q)' <=> Started(q)
  BY <1>1 DEF Started
<1>3. \A q \in Pv : (Coming(q)' <=> Coming(q)) /\ (Coming(q) => q # p /\ pc'[q] = pc[q])
  BY <1>1 DEF Started, Coming
<1>4. Phases'
  <2> SUFFICES ASSUME NEW q \in Pv
               PROVE  /\ pc'[q] # "done"
                      /\ q \in attached <=> Started(q) \/ Coming(q)
                      /\ pc'[q] = "attach" \/ Coming(q) => holder = q
    BY <1>2, <1>3 DEF Phases
  <2> QED
    BY <1>1 DEF Good, Phases, Started
<1>5. Rows'
  BY <1>2 DEF Good, Rows
<1>6. Numbers'
  BY <1>2 DEF Good, Numbers
<1>7. Newcomer'
  BY <1>2, <1>3 DEF Good, Newcomer
<1> QED
  BY <1>4, <1>5, <1>6, <1>7 DEF Good

\* The steps of an update, and SIGCONT, leave a process started.
LEMMA UpdatesKeep ==
  ASSUME Types, Types', Good, NEW p \in Pv,
         \/ Reinit(p) \/ Update(p) \/ Counts(p) \/ Looks(p) \/ Scrolls(p) \/ Writes(p) \/ Signal(p)
  PROVE  Good'
<1>1. Started(p) /\ Started(p)' /\ pc' = [pc EXCEPT ![p] = pc'[p]] /\ UNCHANGED <<holder, attached, y_offset>>
  BY DEF Types, Started, Reinit, Update, Counts, Looks, Scrolls, Writes, Signal, Goes, own
<1>2. \A q \in Pv \ {p} : y_start'[q] = y_start[q] /\ y_lastread'[q] = y_lastread[q]
  BY DEF Types, Reinit, Update, Counts, Looks, Scrolls, Writes, Signal, Set, own
<1>3. row >= 1 /\ top >= 1 /\ y_start[p] >= 1 /\ y_lastread[p] >= 1 /\ y_offset[p] >= 0
  BY <1>1 DEF Good, Rows, Numbers
<1>4. row' >= 1 /\ top' >= 1 /\ y_start'[p] >= 1 /\ y_lastread'[p] >= 1
  <2>1. CASE Reinit(p) \/ Update(p) \/ Counts(p)
    BY <1>3, <2>1 DEF Types, Reinit, Update, Counts, Set, GetYpos, own
  <2>2. CASE Looks(p) \/ Writes(p) \/ Signal(p)
    BY <1>3, <2>2, CursorAssumption DEF Types, Looks, TopNow, Writes, Signal, Set, own
  <2>3. CASE Scrolls(p)
    BY <1>3, <2>3, CursorAssumption DEF Types, Scrolls, Set, Larger
  <2> QED
    BY <2>1, <2>2, <2>3
<1> QED
  BY <1>1, <1>2, <1>4, StaysGood

\* Locking the terminal, which nobody has.
LEMMA LockKeeps == ASSUME Types, Types', Good, NEW p \in Pv, InitLock(p) PROVE Good'
<1>1. /\ holder = Free /\ holder' = p /\ pc[p] = "init" /\ pc'[p] = "attach"
      /\ \A q \in Pv \ {p} : pc'[q] = pc[q]
      /\ UNCHANGED <<attached, top, row, own>>
  BY DEF Types, InitLock, Goes, Lock
<1>2. \A q \in Pv : Started(q)' <=> Started(q)
  BY <1>1 DEF Started
<1>3. \A q \in Pv : ~Coming(q) /\ ~Coming(q)' /\ pc[q] # "attach"
  BY <1>1, CursorAssumption DEF Good, Phases, Coming
<1> QED
  BY <1>1, <1>2, <1>3 DEF own, Good, Phases, Rows, Numbers, Newcomer

\* Attaching makes the count larger by one.
LEMMA AttachKeeps == ASSUME Types, Types', Good, NEW p \in Pv, Attach(p) PROVE Good'
<1>1. /\ pc[p] = "attach" /\ pc'[p] = "count" /\ attached' = attached \cup {p}
      /\ \A q \in Pv \ {p} : pc'[q] = pc[q]
      /\ UNCHANGED <<holder, row, own>>
      /\ attached # {} => top' = top
  BY DEF Types, Attach, Goes
<1>2. /\ \A q \in Pv : Started(q)' <=> Started(q)
      /\ ~Started(p) /\ ~Coming(p) /\ Coming(p)'
  BY <1>1 DEF Started, Coming
<1>3. \A q \in Pv \ {p} : ~Coming(q) /\ ~Coming(q)' /\ pc[q] # "attach"
  BY <1>1 DEF Good, Phases, Coming
<1>4. p \notin attached /\ \A q \in Pv : q \in attached <=> Started(q)
  BY <1>2, <1>3 DEF Good, Phases
<1>5. /\ Cardinality(attached) \in Nat /\ Cardinality(attached') = Cardinality(attached) + 1
      /\ attached = {} => Cardinality(attached) = 0
  BY <1>1, <1>4, Counted, FS_Subset, FS_AddElement, FS_EmptySet, CursorAssumption DEF Types
<1>6. attached # {} => top >= 1
  BY <1>4 DEF Types, Good, Rows
<1>7. Phases'
  BY <1>1, <1>2, <1>3, <1>4 DEF Good, Phases
<1>8. Rows'
  BY <1>1, <1>2, <1>4 DEF Good, Rows, own
<1>9. Numbers'
  BY <1>1, <1>2, <1>5 DEF Types, Good, Numbers, own
<1>10. Newcomer'
  BY <1>1, <1>2, <1>3, <1>5, <1>6 DEF Types, Good, Numbers, Newcomer, own
<1> QED
  BY <1>7, <1>8, <1>9, <1>10 DEF Good

\* Taking the count, less one, as its number.
LEMMA OffsetKeeps == ASSUME Types, Types', Good, NEW p \in Pv, Offset(p) PROVE Good'
<1>1. /\ pc[p] = "count" /\ pc'[p] = "top" /\ y_offset'[p] = Cardinality(attached) - 1
      /\ \A q \in Pv \ {p} : pc'[q] = pc[q] /\ y_offset'[q] = y_offset[q]
      /\ UNCHANGED <<holder, attached, top, row, y_start, y_lastread>>
  BY DEF Types, Offset, Goes, Set
<1>2. /\ \A q \in Pv : (Started(q)' <=> Started(q)) /\ (Coming(q)' <=> Coming(q))
      /\ ~Started(p) /\ Coming(p)
  BY <1>1 DEF Started, Coming
<1>3. \A q \in Pv \ {p} : ~Coming(q)
  BY <1>2 DEF Good, Phases
<1>4. Phases'
  BY <1>1, <1>2 DEF Good, Phases
<1>5. Rows'
  BY <1>1, <1>2 DEF Good, Rows
<1>6. Numbers'
  BY <1>1, <1>2 DEF Good, Numbers
<1>7. Newcomer'
  BY <1>1, <1>2, <1>3 DEF Good, Newcomer
<1> QED
  BY <1>4, <1>5, <1>6, <1>7 DEF Good

\* The first puts its row into the segment, a later one finds one there.
LEMMA TopKeeps == ASSUME Types, Types', Good, NEW p \in Pv, Top(p) PROVE Good'
<1>1. /\ pc[p] = "top" /\ pc'[p] = "idle"
      /\ \A q \in Pv \ {p} : /\ pc'[q] = pc[q] /\ y_start'[q] = y_start[q]
                             /\ y_lastread'[q] = y_lastread[q]
      /\ UNCHANGED <<attached, row, y_offset>>
      /\ top' = IF y_offset[p] = 0 THEN row ELSE top
      /\ y_start'[p] = top' /\ y_lastread'[p] = top'
  BY DEF Types, Top, Goes, Set, GetYpos
<1>2. /\ ~Started(p) /\ Coming(p) /\ Started(p)' /\ ~Coming(p)'
      /\ \A q \in Pv \ {p} : (Started(q)' <=> Started(q)) /\ (Coming(q)' <=> Coming(q))
  BY <1>1 DEF Started, Coming
<1>3. \A q \in Pv \ {p} : ~Coming(q) /\ pc[q] # "attach"
  BY <1>2 DEF Good, Phases
<1>4. Cardinality(attached) \in Nat /\ p \in attached
  BY <1>2, Counted DEF Types, Good, Phases
<1>5. Cardinality(attached) >= 1
  BY <1>4, FS_EmptySet, FS_Subset, CursorAssumption DEF Types
<1>6. /\ y_offset[p] = Cardinality(attached) - 1 /\ top' >= 1
      /\ \A q \in Pv : Started(q) => y_offset[q] < Cardinality(attached) - 1
  BY <1>1, <1>2, <1>4 DEF Types, Good, Newcomer, Rows
<1>7. Phases'
  BY <1>1, <1>2, <1>3 DEF Good, Phases
<1>8. Rows'
  BY <1>1, <1>2, <1>6 DEF Types, Good, Rows
<1>9. Numbers'
  BY <1>1, <1>2, <1>4, <1>5, <1>6 DEF Types, Good, Numbers
<1>10. Newcomer'
  BY <1>2, <1>3 DEF Newcomer
<1> QED
  BY <1>7, <1>8, <1>9, <1>10 DEF Good

\* Every step keeps it all; once one has left nothing more is claimed.
LEMMA InvNext == Inv /\ [Next]_vars => Inv'
<1> SUFFICES ASSUME Inv, [Next]_vars PROVE Inv'
  OBVIOUS
<1>1. Types /\ Types'
  BY TypesKeep DEF Inv
<1>2. ASSUME ~left' PROVE Good'
  <2>1. CASE UNCHANGED vars
    <3>1. ~left /\ UNCHANGED <<pc, holder, attached, top, row, own>>
      BY <1>2, <2>1 DEF vars
    <3> QED
      BY <3>1 DEF Inv, Good, Phases, Rows, Numbers, Newcomer, Started, Coming, own
  <2>2. ASSUME NEW p \in Pv, Displays(p) \/ Signal(p) \/ Fini(p) PROVE Good'
    <3>1. ~Fini(p)
      BY <1>2 DEF Fini
    <3>2. left' = left
      BY <2>2, <3>1 DEF Displays, InitLock, Attach, Offset, Top, Reinit, Update, Counts, Looks, Scrolls,
         Writes, Signal
    <3>3. Good
      BY <1>2, <3>2 DEF Inv
    <3> QED
      BY <1>1, <2>2, <3>1, <3>3, UpdatesKeep, LockKeeps, AttachKeeps, OffsetKeeps, TopKeeps DEF Displays
  <2> QED
    BY <2>1, <2>2 DEF Next
<1> QED
  BY <1>1, <1>2 DEF Inv

\* Each pv that has started has a line of its own below a row of the terminal, for
\* any number of pv that attach, draw and are stopped in any order.
THEOREM OwnLines == Spec => []OwnLine
<1>1. Inv => OwnLine
  <2> SUFFICES ASSUME Inv, ~left, NEW p \in attached, Started(p)
               PROVE  /\ y_lastread[p] > 0
                      /\ \A q \in attached \ {p} : Started(q) => y_offset[p] # y_offset[q]
    BY DEF OwnLine
  <2>1. Good /\ Types /\ p \in Pv
    BY DEF Inv, Types
  <2> QED
    BY <2>1 DEF Types, Good, Rows, Numbers
<1> QED
  BY <1>1, InvInit, InvNext, PTL DEF Spec
=============================================================================
