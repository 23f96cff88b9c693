---------------------------- MODULE FdTableProofs ---------------------------
(***************************************************************************)
(* For any number of threads, descriptors and files: the three tables of   *)
(* descriptors agree, and nothing is left in them.                         *)
(***************************************************************************)
EXTENDS FdTable, TLAPS

TablesOK == /\ kernel \in [Fd -> {"free", "twin", "other"}] /\ register \subseteq Fd
            /\ at \in [Thread -> {"idle"} \cup InFlight] /\ fd \in [Thread -> Fd \cup {NoFd}]
            /\ app \in [Fd -> {"none", "libc"} \cup Path]

\* What the tables hold of a descriptor at each point of a call on it: of the
\* ones of a thread's call, and of the program's.
Held(t) == LET f == fd[t]
           IN  /\ f \in Fd /\ kernel[f] = "twin" /\ app[f] = "none" /\ f \notin DOMAIN files
               /\ f \in register <=> at[t] \in {"registered", "removing"}
HeldOK == \A t \in Thread : at[t] # "idle" => Held(t)
Distinct == \A t, u \in Thread :
  at[t] # "idle" /\ at[u] # "idle" /\ fd[t] = fd[u] => t = u
Free(f) == f \notin register /\ f \notin DOMAIN files
FreeOK == \A f \in Fd :
  app[f] = "none" => \/ kernel[f] = "free" /\ Free(f)
                     \/ \E t \in Thread : at[t] # "idle" /\ fd[t] = f
LibcOK == \A f \in Fd : app[f] = "libc" => kernel[f] = "other" /\ Free(f)
FileOK == \A f \in Fd : app[f] \in Path => /\ f \in register /\ kernel[f] = "twin"
                                           /\ f \in DOMAIN files /\ files[f].path = app[f]
Inv == TablesOK /\ HeldOK /\ Distinct /\ FreeOK /\ LibcOK /\ FileOK

\* At the start nothing is open.
LEMMA InvInit == Init => Inv
<1> SUFFICES ASSUME Init PROVE Inv
  OBVIOUS
<1>1. /\ kernel = [f \in Fd |-> "free"] /\ register = {} /\ DOMAIN files = {}
      /\ at = [t \in Thread |-> "idle"] /\ fd = [t \in Thread |-> NoFd]
      /\ app = [f \in Fd |-> "none"]
  BY DEF Init
<1>2. TablesOK
  BY <1>1 DEF TablesOK
<1> QED
  BY <1>1, <1>2, FdAssumption DEF Inv, HeldOK, Distinct, FreeOK, Free, LibcOK, FileOK

\* Calls on an open file change its offset at most.
LEMMA UsingKeeps ==
  ASSUME Inv, NEW t \in Thread, NEW f \in Fd, Using(t, f)
  PROVE  Inv'
<1>1. /\ UNCHANGED <<kernel, register, at, fd, app>>
      /\ \/ files' = files
         \/ \E off : MoveTo(f, off)
  BY DEF Using, Refused, Read, Pread, Write, Written, Pwrite, Seek, Truncate, Calls, thread
<1>2. DOMAIN files' = DOMAIN files /\ \A x \in DOMAIN files : files'[x].path = files[x].path
  BY <1>1 DEF MoveTo, Handle
<1> QED
  BY <1>1, <1>2 DEF Inv, TablesOK, HeldOK, Held, Distinct, FreeOK, Free, LibcOK, FileOK

\* A thread whose call goes on with the descriptor it has.
LEMMA StepKeeps ==
  ASSUME Inv, NEW t \in Thread, NEW to \in InFlight, at[t] # "idle",
         at' = [at EXCEPT ![t] = to],
         UNCHANGED <<kernel, files, fd, app>>,
         register' \in {register, register \cup {fd[t]}, register \ {fd[t]}},
         fd[t] \in register' <=> to \in {"registered", "removing"}
  PROVE  Inv'
<1>1. /\ at'[t] = to /\ to # "idle" /\ fd[t] \in Fd
      /\ \A u \in Thread : u # t => at'[u] = at[u]
      /\ \A x \in Fd : x # fd[t] => (x \in register' <=> x \in register)
  BY DEF Inv, TablesOK, HeldOK, Held, InFlight
<1>2. TablesOK'
  BY <1>1 DEF Inv, TablesOK
<1>3. HeldOK'
  BY <1>1 DEF Inv, HeldOK, Held, Distinct
<1>4. Distinct'
  BY <1>1 DEF Inv, Distinct
<1>5. FreeOK'
  BY <1>1 DEF Inv, FreeOK, Free
<1>6. app[fd[t]] = "none"
  BY DEF Inv, HeldOK, Held
<1>7. LibcOK' /\ FileOK'
  BY <1>1, <1>6, FdAssumption DEF Inv, LibcOK, FileOK, Free
<1> QED
  BY <1>2, <1>3, <1>4, <1>5, <1>7 DEF Inv

\* tmpfile takes a descriptor that is free for all.
LEMMA OpenTwinKeeps ==
  ASSUME Inv, NEW t \in Thread, NEW f \in Fd, OpenTwin(t, f)
  PROVE  Inv'
<1>1. /\ at[t] = "idle" /\ at'[t] = "twin" /\ fd'[t] = f /\ kernel'[f] = "twin"
      /\ \A u \in Thread : u # t => at'[u] = at[u] /\ fd'[u] = fd[u]
      /\ \A x \in Fd : x # f => kernel'[x] = kernel[x]
      /\ UNCHANGED <<register, files, app>> /\ kernel[f] = "free"
  BY DEF OpenTwin, Go, Inv, TablesOK
<1>2. app[f] = "none" /\ Free(f) /\ \A u \in Thread : at[u] # "idle" => fd[u] # f
  BY <1>1 DEF Inv, TablesOK, FileOK, LibcOK, FreeOK, HeldOK, Held
<1>3. TablesOK'
  BY DEF OpenTwin, Go, Inv, TablesOK, InFlight
<1>4. HeldOK'
  BY <1>1, <1>2 DEF Inv, HeldOK, Held, Free
<1>5. Distinct'
  BY <1>1, <1>2 DEF Inv, Distinct
<1>6. FreeOK'
  BY <1>1 DEF Inv, FreeOK, Free
<1>7. LibcOK' /\ FileOK'
  BY <1>1, <1>2, FdAssumption DEF Inv, LibcOK, FileOK, Free
<1> QED
  BY <1>3, <1>4, <1>5, <1>6, <1>7 DEF Inv

\* The Go layer enters a file for a descriptor no other call or file has.
LEMMA GoOpenKeeps ==
  ASSUME Inv, NEW t \in Thread, NEW p \in Path, NEW flags, NEW can, GoOpen(t, p, flags, can)
  PROVE  Inv'
<1> DEFINE f == fd[t]
<1>1. /\ at[t] = "registered" /\ at'[t] = "idle" /\ f \in Fd
      /\ f \in register /\ kernel[f] = "twin"
      /\ \A u \in Thread : u # t => at'[u] = at[u] /\ fd'[u] = fd[u] /\ (at[u] # "idle" => fd[u] # f)
      /\ app'[f] = p /\ \A x \in Fd : x # f => app'[x] = app[x]
      /\ UNCHANGED <<kernel, register>>
  BY DEF GoOpen, Go, Inv, TablesOK, HeldOK, Held, Distinct, InFlight
<1>2. /\ DOMAIN files' = DOMAIN files \cup {f} /\ files'[f].path = p
      /\ \A x \in DOMAIN files : x # f => files'[x] = files[x]
  BY DEF GoOpen, Handle
<1>3. TablesOK'
  BY DEF GoOpen, Go, Inv, TablesOK
<1> HIDE DEF f
<1>4. HeldOK'
  BY <1>1, <1>2 DEF Inv, HeldOK, Held
<1>5. Distinct'
  BY <1>1 DEF Inv, Distinct
<1>6. FreeOK'
  <2> SUFFICES ASSUME NEW x \in Fd, app'[x] = "none"
               PROVE  \/ kernel'[x] = "free" /\ Free(x)'
                      \/ \E u \in Thread : at'[u] # "idle" /\ fd'[u] = x
    BY DEF FreeOK
  <2>1. x # f
    BY <1>1, FdAssumption
  <2> QED
    BY <1>1, <1>2, <2>1 DEF Inv, FreeOK, Free, f
<1>7. LibcOK' /\ FileOK'
  BY <1>1, <1>2, FdAssumption DEF Inv, LibcOK, FileOK, Free
<1> QED
  BY <1>3, <1>4, <1>5, <1>6, <1>7 DEF Inv

\* close takes the descriptor from the program before it is taken out of a table.
LEMMA GoCloseKeeps ==
  ASSUME Inv, NEW t \in Thread, NEW f \in Fd, GoClose(t, f)
  PROVE  Inv'
<1>1. /\ at[t] = "idle" /\ at'[t] = "removing" /\ fd'[t] = f /\ app'[f] = "none"
      /\ \A u \in Thread : u # t => at'[u] = at[u] /\ fd'[u] = fd[u]
      /\ \A x \in Fd : x # f => app'[x] = app[x]
      /\ UNCHANGED <<kernel, register>> /\ f \in register /\ app[f] # "none"
  BY DEF GoClose, Go, Inv, TablesOK
<1>2. /\ DOMAIN files' = DOMAIN files \ {f}
      /\ \A x \in DOMAIN files : x # f => files'[x] = files[x]
  BY DEF GoClose, Restrict
<1>3. app[f] \in Path /\ kernel[f] = "twin" /\ \A u \in Thread : at[u] # "idle" => fd[u] # f
  BY <1>1 DEF Inv, TablesOK, FileOK, LibcOK, Free, HeldOK, Held
<1>4. TablesOK'
  BY DEF GoClose, Go, Inv, TablesOK, InFlight
<1>5. HeldOK'
  BY <1>1, <1>2, <1>3 DEF Inv, HeldOK, Held
<1>6. Distinct'
  BY <1>1, <1>3 DEF Inv, Distinct
<1>7. FreeOK'
  BY <1>1, <1>2 DEF Inv, FreeOK, Free
<1>8. LibcOK' /\ FileOK'
  BY <1>1, <1>2, FdAssumption DEF Inv, LibcOK, FileOK, Free
<1> QED
  BY <1>4, <1>5, <1>6, <1>7, <1>8 DEF Inv

\* The kernel may give the twin's descriptor out again when no table has it.
LEMMA CloseTwinKeeps ==
  ASSUME Inv, NEW t \in Thread, CloseTwin(t)
  PROVE  Inv'
<1> DEFINE f == fd[t]
<1>1. /\ at[t] = "closing" /\ at'[t] = "idle" /\ kernel'[f] = "free" /\ app[f] = "none"
      /\ f \in Fd /\ Free(f)
      /\ \A u \in Thread : u # t => at'[u] = at[u] /\ fd'[u] = fd[u] /\ (at[u] # "idle" => fd[u] # f)
      /\ \A x \in Fd : x # f => kernel'[x] = kernel[x]
      /\ UNCHANGED <<register, files, app>>
  BY DEF CloseTwin, Go, Inv, TablesOK, HeldOK, Held, Distinct, Free
<1>2. TablesOK'
  BY DEF CloseTwin, Go, Inv, TablesOK
<1> HIDE DEF f
<1>3. HeldOK'
  BY <1>1 DEF Inv, HeldOK, Held
<1>4. Distinct'
  BY <1>1 DEF Inv, Distinct
<1>5. FreeOK'
  BY <1>1 DEF Inv, FreeOK, Free, f
<1>6. LibcOK' /\ FileOK'
  BY <1>1, FdAssumption DEF Inv, LibcOK, FileOK, Free
<1> QED
  BY <1>2, <1>3, <1>4, <1>5, <1>6 DEF Inv

\* Descriptors that are not managed are in no table.
LEMMA LibcKeeps ==
  ASSUME Inv, NEW t \in Thread, NEW f \in Fd, LibcOpen(t, f) \/ LibcClose(t, f)
  PROVE  Inv'
<1>1. /\ \A x \in Fd : x # f => app'[x] = app[x] /\ kernel'[x] = kernel[x]
      /\ UNCHANGED <<register, files, at, fd>> /\ TablesOK'
  BY DEF LibcOpen, LibcClose, Inv, TablesOK, thread
<1>2. Free(f) /\ \A u \in Thread : at[u] # "idle" => fd[u] # f
  BY DEF LibcOpen, LibcClose, Inv, TablesOK, FileOK, LibcOK, FreeOK, Free, HeldOK, Held
<1>3. \/ app'[f] = "libc" /\ kernel'[f] = "other"
      \/ app'[f] = "none" /\ kernel'[f] = "free"
  BY DEF LibcOpen, LibcClose, Inv, TablesOK
<1>4. HeldOK' /\ Distinct'
  BY <1>1, <1>2 DEF Inv, HeldOK, Held, Distinct
<1>5. FreeOK'
  BY <1>1, <1>2, <1>3 DEF Inv, FreeOK, Free
<1>6. LibcOK' /\ FileOK'
  BY <1>1, <1>2, <1>3, FdAssumption DEF Inv, LibcOK, FileOK, Free
<1> QED
  BY <1>1, <1>4, <1>5, <1>6 DEF Inv

\* The invariant is inductive.
LEMMA InvStep == Inv /\ [Next]_vars => Inv'
<1> SUFFICES ASSUME Inv, [Next]_vars PROVE Inv'
  OBVIOUS
<1>1. CASE UNCHANGED vars
  BY <1>1 DEF vars, Inv, TablesOK, HeldOK, Held, Distinct, FreeOK, Free, LibcOK, FileOK
<1>2. ASSUME NEW t \in Thread,
             \/ Register(t) \/ Unregister(t)
             \/ \E p \in Path, flags \in Flags : GoOpenFails(t, p, flags)
      PROVE  Inv'
  <2>1. fd[t] \in Fd /\ (fd[t] \in register <=> at[t] \in {"registered", "removing"})
    BY <1>2 DEF Register, Unregister, GoOpenFails, Go, Inv, HeldOK, Held
  <2>2. CASE Register(t)
    BY <2>1, <2>2, StepKeeps DEF Register, Go, InFlight
  <2>3. CASE Unregister(t)
    BY <2>1, <2>3, StepKeeps DEF Unregister, Go, InFlight
  <2>4. CASE \E p \in Path, flags \in Flags : GoOpenFails(t, p, flags)
    BY <2>1, <2>4, StepKeeps DEF GoOpenFails, Go, InFlight, tables
  <2> QED
    BY <1>2, <2>2, <2>3, <2>4
<1> QED
  BY <1>1, <1>2, UsingKeeps, OpenTwinKeeps, GoOpenKeeps, GoCloseKeeps, CloseTwinKeeps, LibcKeeps
     DEF Next, Opening, Closing

-----------------------------------------------------------------------------
\* A call on a descriptor reaches the file the program has opened with it,
\* whatever other threads open and close (pdwfs.c: open, close, FD_NOT_MANAGED).
THEOREM RoutesAreRight == Spec => []RoutesRight
<1>1. Inv => RoutesRight
  BY DEF Inv, FileOK, LibcOK, Free, RoutesRight
<1> QED
  BY <1>1, InvInit, InvStep, PTL DEF Spec

\* No twin file and no entry of a table outlives its descriptor (remove_fd).
THEOREM NoTwinIsLeft == Spec => []TwinsKept
<1>1. Inv => TwinsKept
  BY DEF Inv, TablesOK, FreeOK, LibcOK, Free, TwinsKept
<1> QED
  BY <1>1, InvInit, InvStep, PTL DEF Spec

\* registerFile never finds the descriptor in use, and getFileFromFd always
\* finds that of a call.
THEOREM NeverPanics == Spec => []NoPanic
<1>1. Inv => NoPanic
  BY DEF Inv, TablesOK, HeldOK, Held, FileOK, LibcOK, Free, NoPanic
<1> QED
  BY <1>1, InvInit, InvStep, PTL DEF Spec
=============================================================================
