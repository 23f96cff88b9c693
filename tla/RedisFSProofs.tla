---------------------------- MODULE RedisFSProofs ---------------------------
(***************************************************************************)
(* For any number of processes, any tree of paths and however they are     *)
(* shared out among the processes: what a directory lists exists, what     *)
(* exists is listed, and a process remembers its own paths as they are.    *)
(***************************************************************************)
EXTENDS RedisFS, SequenceTheorems, TLAPS

Ats == {"idle", "parent", "parentdir", "node", "create", "link", "isdir", "trunc", "size",
        "entries", "unlink", "remove", "return"}
Results == {"ok", "dir", "full", "empty", "ErrExist", "ErrNotExist", "ErrNotDirectory",
            "ErrIsDirectory", "ErrDirNotEmpty", "ErrParentDirNotExist"}
Frames == [path : Path, at : {"isdir", "data", "list", "kids"}, kids : SUBSET Path]
Calls == [op : {"none", "mkdir", "rmdir", "unlink", "stat", "open"}, path : Path,
          flags : SUBSET {"CREATE", "EXCL", "TRUNC"}, at : Ats, res : Results, todo : Seq(Frames)]
Types == /\ modes \subseteq Path /\ children \in [Path -> SUBSET (Path \cup {Dot})]
         /\ up \subseteq Proc
         /\ inodes \in [Proc -> [Path -> {"none", "new", "dir", "file"}]]
         /\ call \in [Proc -> Calls]

Below == Path \ {Root}
Users == Shared \cup UNION {Own[p] : p \in Proc}

\* In Redis: an entry is in the set of its parent, a set that is not empty has the
\* entry that keeps it, and is that of a path with a mode.
Sets == /\ modes \subseteq Users \cup {Root}
        /\ \A d \in Path : \A x \in children[d] \ {Dot} : x \in Users /\ Parent[x] = d
        /\ \A d \in Path : children[d] # {} => Dot \in children[d] /\ d \in modes

\* The mount point, which no process removes.
Mounted(p) == /\ Root \in modes /\ Dot \in children[Root] /\ inodes[p][Root] \in {"new", "dir"}
\* What a process remembers of its own paths, during a call too; it meets no other
\* but those that all share.
Memo(p) ==
  /\ \A x \in Own[p] : /\ inodes[p][x] # "none" => x \in modes
                       /\ inodes[p][x] = "dir" => children[x] # {}
                       /\ inodes[p][x] = "file" => children[x] = {}
  /\ \A x \in Path \ (Own[p] \cup Shared \cup {Root}) : inodes[p][x] = "none"

\* The paths of a call are the process's own, but for open's.
Callers(p) == call[p].at # "idle" =>
  /\ call[p].op # "none"
  /\ call[p].path \in Own[p] \cup Shared
  /\ call[p].path \in Shared => call[p].op = "open"
  /\ call[p].at \in {"create", "link"} => call[p].op \in {"mkdir", "open"}
  /\ call[p].at = "isdir" => call[p].op \in {"rmdir", "stat", "open"}
  /\ call[p].at \in {"entries", "unlink", "remove"} => call[p].op \in {"rmdir", "unlink"}
\* What a call has looked up before it goes on.
LookedUp(p) ==
  LET x == call[p].path  d == Parent[x]  at == call[p].at
  IN  /\ at = "parentdir" => inodes[p][d] # "none"
      /\ at \in {"node", "create", "link"} => inodes[p][d] = "dir"
      /\ at \in {"create", "link"} => inodes[p][x] = "none"
      /\ at = "link" => x \in modes
      /\ at \in {"isdir", "entries", "unlink", "remove"} => inodes[p][x] # "none"
      /\ call[p].op = "unlink" /\ at \in {"parent", "parentdir", "node"} => Unmet(p, x)
      /\ at \in {"unlink", "remove"} => Unmet(p, x)
\* The stack of a removal, from the entry it has come to up to the path of the
\* call, which nothing lists any more: what is still in a directory it has listed,
\* it has still to remove.
Stack(p) ==
  LET todo == call[p].todo
  IN  /\ Len(todo) > 0 /\ todo[Len(todo)].path = call[p].path
      /\ call[p].path \notin children[Parent[call[p].path]]
      /\ \A k \in 1..Len(todo) : todo[k].path \in Own[p]
      /\ \A k \in 1..Len(todo) - 1 : /\ todo[k].path \in Under(call[p].path)
                                     /\ Parent[todo[k].path] = todo[k + 1].path
                                     /\ todo[k + 1].at = "kids"
      /\ todo[1].at = "data" => children[todo[1].path] = {}
      /\ \A k \in 1..Len(todo) : todo[k].at = "kids" =>
           /\ \A y \in todo[k].kids : y \in Own[p] /\ Parent[y] = todo[k].path
           /\ \A y \in (children[todo[k].path] \ {Dot}) \cap modes :
                y \in todo[k].kids \/ (k > 1 /\ y = todo[k - 1].path)

Sound(p) == /\ Mounted(p) /\ Memo(p) /\ LookedUp(p)
            /\ call[p].at = "remove" => Stack(p)
Local(p) == Callers(p) /\ (p \in up => Sound(p))
Inv == /\ Types /\ Sets /\ ListedExists /\ UnlistedIsUnfinished
       /\ \A p \in Proc : Local(p)

-----------------------------------------------------------------------------
(* The tree of paths *)

\* What is below a path is closed under entries.
LEMMA UnderCloses ==
  ASSUME NEW x \in Path, NEW z \in Below, Parent[z] = x \/ Parent[z] \in Under(x)
  PROVE  z \in Under(x)
BY DEF Under, Below

\* It is the least set that is.
LEMMA UnderIsLeast ==
  ASSUME NEW x \in Path, NEW S \in SUBSET Path,
         \A z \in Below : Parent[z] \in S \cup {x} => z \in S
  PROVE  Under(x) \subseteq S
BY DEF Under, Below

\* Neither a path nor the one it is in is below it.
LEMMA NotUnder ==
  ASSUME NEW x \in Below
  PROVE  x \notin Under(x) /\ Parent[x] \notin Under(x) /\ Parent[x] # x /\ Parent[x] \in Path
<1>1. x \notin Under(x) /\ Parent[x] \in Path
  BY NamespaceAssumption DEF Below
<1> QED
  BY <1>1, UnderCloses DEF Below

\* The mount point is below nothing.
LEMMA RootNotUnder == ASSUME NEW x \in Path PROVE Root \notin Under(x)
<1>1. Below \in SUBSET Path /\ \A z \in Below : z \in Below
  BY DEF Below
<1>2. Under(x) \subseteq Below
  BY <1>1, UnderIsLeast
<1> QED
  BY <1>2 DEF Below

\* What the programs use, and the entries of a process's own directory.
LEMMA OwnFacts ==
  /\ Users \subseteq Below /\ Shared \subseteq Below /\ \A p \in Proc : Own[p] \subseteq Below
  /\ \A p \in Proc, x \in Users : Parent[x] \in Own[p] => x \in Own[p]
  /\ \A p \in Proc : \A x \in Own[p] : Parent[x] \in Own[p] \cup {Root}
  /\ \A p, q \in Proc : \A x \in Own[p] : x \in Own[q] => p = q
  /\ \A x \in Shared : Parent[x] = Root /\ \A p \in Proc : x \notin Own[p]
BY NamespaceAssumption, OwnAssumption DEF Users, Below

-----------------------------------------------------------------------------
(* What the frames of a removal are *)

\* They are of the process's own paths, and the last one is of the path removed.
LEMMA StackEnds ==
  ASSUME NEW p \in Proc, Stack(p)
  PROVE  /\ Len(call[p].todo) > 0 /\ call[p].todo[Len(call[p].todo)].path = call[p].path
         /\ call[p].path \notin children[Parent[call[p].path]]
         /\ \A k \in 1..Len(call[p].todo) : call[p].todo[k].path \in Own[p]
BY DEF Stack

\* Each waits for the one before it, an entry of its directory.
LEMMA StackChain ==
  ASSUME NEW p \in Proc, Stack(p)
  PROVE  \A k \in 1..Len(call[p].todo) - 1 :
           /\ call[p].todo[k].path \in Under(call[p].path)
           /\ Parent[call[p].todo[k].path] = call[p].todo[k + 1].path
           /\ call[p].todo[k + 1].at = "kids"
BY DEF Stack

\* A directory has no entries but those it still goes through.
LEMMA StackKids ==
  ASSUME NEW p \in Proc, Stack(p), NEW k \in 1..Len(call[p].todo), call[p].todo[k].at = "kids"
  PROVE  /\ \A y \in call[p].todo[k].kids : y \in Own[p] /\ Parent[y] = call[p].todo[k].path
         /\ \A y \in (children[call[p].todo[k].path] \ {Dot}) \cap modes :
              y \in call[p].todo[k].kids \/ (k > 1 /\ y = call[p].todo[k - 1].path)
BY DEF Stack

-----------------------------------------------------------------------------
(* What a step of one process leaves of the others *)

\* The others do not notice what a process does to paths of its own, or adds.
LEMMA OthersKeep ==
  ASSUME Inv, NEW p \in Proc, NEW q \in Proc, q # p,
         call'[q] = call[q], inodes'[q] = inodes[q], q \in up' => q \in up,
         \A x \in Path \ Own[p] : x \in modes => x \in modes',
         \A x \in Own[q] : x \in modes' => x \in modes,
         \A x \in Below \ Own[p] : children'[x] = children[x],
         Dot \in children[Root] => Dot \in children'[Root],
         \A y \in Own[q] : y \in children'[Root] => y \in children[Root]
  PROVE  Local(q)'
<1>1. Local(q) /\ (\A x \in Own[q] : x \in Below /\ x \notin Own[p] /\ children'[x] = children[x])
  BY OwnFacts DEF Inv
<1>2. Callers(q)'
  BY <1>1 DEF Local, Callers
<1>3. ASSUME q \in up' PROVE Sound(q)'
  <2>1. Sound(q)
    BY <1>1, <1>3 DEF Local
  <2>2. Mounted(q)'
    BY <2>1, OwnFacts, NamespaceAssumption DEF Sound, Mounted, Below
  <2>3. Memo(q)'
    BY <2>1, <1>1, OwnFacts DEF Sound, Memo, Below
  <2>4. LookedUp(q)'
    <3>1. call[q].at = "link" => call[q].path \in Path /\ call[q].path \notin Own[p]
      BY <1>1, OwnFacts DEF Local, Callers, Below
    <3> QED
      BY <2>1, <3>1 DEF Sound, LookedUp, Unmet
  <2>5. call[q].at = "remove" => Stack(q)'
    <3> SUFFICES ASSUME call[q].at = "remove" PROVE Stack(q)'
      OBVIOUS
    <3>1. Stack(q)
      BY <2>1 DEF Sound
    <3>2. call[q].path \in Own[q]
      BY <1>1 DEF Local, Callers
    <3>3. call[q].path \notin children'[Parent[call[q].path]]
      BY <3>1, <3>2, <1>1, OwnFacts, StackEnds
    <3>4. \A k \in 1..Len(call[q].todo) : children'[call[q].todo[k].path] = children[call[q].todo[k].path]
      BY <3>1, <1>1, StackEnds
    <3>5. ASSUME NEW k \in 1..Len(call[q].todo), call[q].todo[k].at = "kids",
                 NEW y \in (children'[call[q].todo[k].path] \ {Dot}) \cap modes'
          PROVE  y \in call[q].todo[k].kids \/ (k > 1 /\ y = call[q].todo[k - 1].path)
      <4>1. call[q].todo[k].path \in Own[q] /\ y \in children[call[q].todo[k].path] \ {Dot}
        BY <3>1, <3>4, <3>5, StackEnds
      <4>2. y \in Own[q]
        BY <4>1, OwnFacts DEF Inv, Sets, Below
      <4> QED
        BY <3>1, <3>5, <4>1, <4>2, StackKids
    <3>6. call[q].todo[1].at = "data" => children'[call[q].todo[1].path] = {}
      <4>1. 1 \in 1..Len(call[q].todo)
        <5>1. call[q].todo \in Seq(Frames)
          BY DEF Inv, Types, Calls
        <5> QED
          BY <3>1, <5>1, StackEnds
      <4> QED
        BY <3>1, <3>4, <4>1 DEF Stack
    <3>7. \A k \in 1..Len(call[q].todo) : call[q].todo[k].at = "kids" =>
            /\ \A y \in call[q].todo[k].kids : y \in Own[q] /\ Parent[y] = call[q].todo[k].path
            /\ \A y \in (children'[call[q].todo[k].path] \ {Dot}) \cap modes' :
                 y \in call[q].todo[k].kids \/ (k > 1 /\ y = call[q].todo[k - 1].path)
      BY <3>1, <3>5, StackKids
    <3>8. /\ Len(call[q].todo) > 0 /\ call[q].todo[Len(call[q].todo)].path = call[q].path
          /\ \A k \in 1..Len(call[q].todo) : call[q].todo[k].path \in Own[q]
          /\ \A k \in 1..Len(call[q].todo) - 1 :
               /\ call[q].todo[k].path \in Under(call[q].path)
               /\ Parent[call[q].todo[k].path] = call[q].todo[k + 1].path
               /\ call[q].todo[k + 1].at = "kids"
      BY <3>1, StackEnds, StackChain
    <3> QED
      <4>1. /\ Len(call'[q].todo) > 0 /\ call'[q].todo[Len(call'[q].todo)].path = call'[q].path
            /\ call'[q].path \notin children'[Parent[call'[q].path]]
        BY <3>3, <3>8
      <4>2. \A k \in 1..Len(call'[q].todo) : call'[q].todo[k].path \in Own[q]
        BY <3>8
      <4>3. \A k \in 1..Len(call'[q].todo) - 1 :
              /\ call'[q].todo[k].path \in Under(call'[q].path)
              /\ Parent[call'[q].todo[k].path] = call'[q].todo[k + 1].path
              /\ call'[q].todo[k + 1].at = "kids"
        BY <3>8
      <4>4. call'[q].todo[1].at = "data" => children'[call'[q].todo[1].path] = {}
        BY <3>6
      <4>5. \A k \in 1..Len(call'[q].todo) : call'[q].todo[k].at = "kids" =>
              /\ \A y \in call'[q].todo[k].kids : y \in Own[q] /\ Parent[y] = call'[q].todo[k].path
              /\ \A y \in (children'[call'[q].todo[k].path] \ {Dot}) \cap modes' :
                   y \in call'[q].todo[k].kids \/ (k > 1 /\ y = call'[q].todo[k - 1].path)
        BY <3>7
      <4> QED
        BY <4>1, <4>2, <4>3, <4>4, <4>5 DEF Stack
  <2> QED
    BY <2>2, <2>3, <2>4, <2>5 DEF Sound
<1> QED
  BY <1>2, <1>3 DEF Local

\* A step that leaves Redis as it is keeps all, if what it leaves of its own
\* process is sound and it does not end a removal or the making of a path.
LEMMA QuietKeeps ==
  ASSUME Inv, NEW p \in Proc, Types', Local(p)',
         UNCHANGED <<modes, children>>,
         \A q \in Proc \ {p} : call'[q] = call[q] /\ inodes'[q] = inodes[q] /\ (q \in up' => q \in up),
         call[p].at \in {"link", "remove"} =>
           call'[p].at = call[p].at /\ call'[p].path = call[p].path,
         \A k \in 1..Len(call[p].todo) : call[p].at = "remove" =>
           \E j \in 1..Len(call'[p].todo) : call'[p].todo[j].path = call[p].todo[k].path
  PROVE  Inv'
<1>1. \A q \in Proc : Local(q)'
  <2>1. ASSUME NEW q \in Proc, q # p PROVE Local(q)'
    BY <2>1, OthersKeep
  <2> QED
    BY <2>1
<1>2. Sets'
  BY DEF Inv, Sets
<1>3. ListedExists'
  <2> SUFFICES ASSUME NEW d \in Path, NEW x \in children[d] \ {Dot}, x \notin modes
               PROVE  \E q \in Proc : call'[q].at = "remove"
                                      /\ \E k \in 1..Len(call'[q].todo) : call'[q].todo[k].path = d
    BY DEF ListedExists
  <2>1. PICK q \in Proc : call[q].at = "remove" /\ \E k \in 1..Len(call[q].todo) : call[q].todo[k].path = d
    BY DEF Inv, ListedExists
  <2>2. PICK k \in 1..Len(call[q].todo) : call[q].todo[k].path = d
    BY <2>1
  <2>3. CASE q # p
    <3>1. call'[q] = call[q]
      BY <2>3
    <3> QED
      BY <2>1, <3>1
  <2>4. CASE q = p
    <3>1. call'[p].at = "remove"
      BY <2>1, <2>4
    <3>2. \E j \in 1..Len(call'[p].todo) : call'[p].todo[j].path = d
      BY <2>1, <2>2, <2>4
    <3> QED
      BY <3>1, <3>2
  <2> QED
    BY <2>3, <2>4
<1>4. UnlistedIsUnfinished'
  <2> SUFFICES ASSUME NEW x \in modes \ {Root}, x \notin children[Parent[x]]
               PROVE  \E q \in Proc : call'[q].path = x /\ call'[q].at \in {"link", "remove"}
    BY DEF UnlistedIsUnfinished
  <2>1. PICK q \in Proc : call[q].path = x /\ call[q].at \in {"link", "remove"}
    BY DEF Inv, UnlistedIsUnfinished
  <2> QED
    BY <2>1
<1> QED
  BY <1>1, <1>2, <1>3, <1>4 DEF Inv

-----------------------------------------------------------------------------
(* Steps that only look at Redis *)

\* Calls begin on paths of the process's own, but for open's.
LEMMA BeginKeeps ==
  ASSUME Inv, NEW p \in Proc, NEW op \in {"mkdir", "rmdir", "unlink", "stat", "open"},
         NEW x \in Own[p] \cup Shared, NEW flags \in SUBSET {"CREATE", "EXCL", "TRUNC"},
         x \in Shared => op = "open", op = "unlink" => Unmet(p, x), Begin(p, op, x, flags)
  PROVE  Inv'
<1>1. /\ p \in up /\ call[p] = Idle /\ UNCHANGED <<modes, children, up, inodes>>
      /\ call' = [call EXCEPT ![p] = [Idle EXCEPT !.op = op, !.path = x, !.flags = flags, !.at = "parent"]]
  BY DEF Begin, redis
<1>2. call'[p] \in Calls /\ call'[p].op = op /\ call'[p].path = x /\ call'[p].at = "parent"
  BY <1>1, OwnFacts DEF Inv, Types, Calls, Idle, Ats, Results, Below
<1>3. Types' /\ \A q \in Proc \ {p} : call'[q] = call[q]
  BY <1>1, <1>2 DEF Inv, Types
<1>4. Sound(p)
  BY <1>1 DEF Inv, Local
<1>5. Local(p)'
  BY <1>1, <1>2, <1>4, OwnFacts DEF Local, Callers, Sound, Mounted, Memo, LookedUp, Unmet
<1>6. call[p].at = "idle"
  BY <1>1 DEF Idle
<1> QED
  BY <1>1, <1>3, <1>5, <1>6, QuietKeeps

\* Of a call under way: its path, the one it is in, and what is known of both.
LEMMA UnderWay ==
  ASSUME Inv, NEW p \in Proc, NEW at \in Ats \ {"idle"}, At(p, at)
  PROVE  /\ p \in up /\ call[p] \in Calls /\ call[p].at = at /\ up' = up
         /\ call[p].path \in Below /\ Parent[call[p].path] \in Path
         /\ Parent[call[p].path] \in Own[p] \cup {Root}
         /\ Sound(p) /\ Callers(p)
<1>1. p \in up /\ call[p].at = at /\ up' = up /\ call[p] \in Calls /\ Sound(p) /\ Callers(p)
  BY DEF At, Inv, Types, Local
<1> QED
  BY <1>1, OwnFacts, NotUnder DEF Callers

\* What the pieces of a step do to the call and to what the process remembers.
LEMMA GotoSets ==
  ASSUME Types, NEW p \in Proc, NEW at \in Ats, Goto(p, at)
  PROVE  /\ call' \in [Proc -> Calls] /\ \A q \in Proc \ {p} : call'[q] = call[q]
         /\ call'[p].op = call[p].op /\ call'[p].path = call[p].path /\ call'[p].at = at
         /\ call'[p].todo = call[p].todo
<1>1. call \in [Proc -> Calls] /\ call[p] \in Calls /\ call' = [call EXCEPT ![p].at = at]
  BY DEF Types, Goto
<1>2. [call[p] EXCEPT !.at = at] \in Calls
  BY <1>1 DEF Calls
<1> QED
  BY <1>1, <1>2 DEF Calls
LEMMA AnswerSets ==
  ASSUME Types, NEW p \in Proc, NEW res \in Results, Answer(p, res)
  PROVE  /\ call' \in [Proc -> Calls] /\ \A q \in Proc \ {p} : call'[q] = call[q]
         /\ call'[p].op = call[p].op /\ call'[p].path = call[p].path /\ call'[p].at = "return"
         /\ call'[p].todo = call[p].todo
<1>1. call \in [Proc -> Calls] /\ call[p] \in Calls
      /\ call' = [call EXCEPT ![p].at = "return", ![p].res = res]
  BY DEF Types, Answer
<1>2. [call[p] EXCEPT !.at = "return", !.res = res] \in Calls
  BY <1>1 DEF Calls, Ats
<1> QED
  BY <1>1, <1>2 DEF Calls
LEMMA KeepSets ==
  ASSUME Types, NEW p \in Proc, NEW x \in Path, NEW k \in {"none", "new", "dir", "file"}, Keep(p, x, k)
  PROVE  /\ inodes' \in [Proc -> [Path -> {"none", "new", "dir", "file"}]]
         /\ \A q \in Proc \ {p} : inodes'[q] = inodes[q]
         /\ \A y \in Path \ {x} : inodes'[p][y] = inodes[p][y]
         /\ inodes'[p][x] = k
BY DEF Types, Keep
\* A process asks Redis about one path that it may meet, and remembers the answer.
Asks(p, x) ==
  /\ inodes' \in [Proc -> [Path -> {"none", "new", "dir", "file"}]]
  /\ \A q \in Proc \ {p} : inodes'[q] = inodes[q]
  /\ \A y \in Path \ {x} : inodes'[p][y] = inodes[p][y]
  /\ inodes[p][x] # "none" => inodes'[p][x] # "none"
  /\ x \notin Shared => /\ inodes'[p][x] # "none" => x \in modes
                        /\ inodes'[p][x] = "dir" => children[x] # {}
                        /\ inodes'[p][x] = "file" => children[x] = {}
Met(p) == Own[p] \cup Shared \cup {Root}
LEMMA GetInodeAsks ==
  ASSUME Types, NEW p \in Proc, Sound(p), NEW x \in Met(p), GetInode(p, x)
  PROVE  /\ Asks(p, x)
         /\ inodes'[p][x] = inodes[p][x] \/ (inodes[p][x] = "none" /\ inodes'[p][x] = "new")
         /\ Meets(p, x) <=> inodes'[p][x] # "none"
<1>0. x \in Path
  BY OwnFacts, NamespaceAssumption DEF Met, Below
<1>1. CASE inodes[p][x] = "none" /\ x \in modes
  BY <1>0, <1>1, KeepSets DEF GetInode, Meets, Asks
<1>2. CASE ~(inodes[p][x] = "none" /\ x \in modes)
  BY <1>0, <1>2 DEF Types, GetInode, Meets, Asks, Sound, Mounted, Memo, Met
<1> QED
  BY <1>1, <1>2
LEMMA KnowIsDirAsks ==
  ASSUME Types, NEW p \in Proc, Sound(p), NEW x \in Met(p), KnowIsDir(p, x), inodes[p][x] # "none"
  PROVE  /\ Asks(p, x)
         /\ inodes'[p][x] = IF IsDir(p, x) THEN "dir" ELSE "file"
         /\ x \notin Shared => (IsDir(p, x) <=> children[x] # {})
<1>0. x \in Path
  BY OwnFacts, NamespaceAssumption DEF Met, Below
<1>1. PICK k \in {"dir", "file"} : k = (IF IsDir(p, x) THEN "dir" ELSE "file")
  OBVIOUS
<1>2. Keep(p, x, k)
  BY <1>1 DEF KnowIsDir
<1>3. x \notin Shared => (IsDir(p, x) <=> children[x] # {}) /\ x \in modes
  BY <1>0 DEF IsDir, Sound, Mounted, Memo, Types, Met
<1> QED
  BY <1>0, <1>1, <1>2, <1>3, KeepSets DEF Asks

\* What was looked up below a path stays so when another path is.
LEMMA UnmetStays ==
  ASSUME NEW p \in Proc, NEW x \in Below, NEW y \in {x, Parent[x]}, Asks(p, y),
         call'[p].path = call[p].path, Unmet(p, x)
  PROVE  \A z \in Under(x) : inodes'[p][z] = "none"
<1>1. y \notin Under(x) /\ Under(x) \subseteq Path
  BY NotUnder DEF Under
<1> QED
  BY <1>1 DEF Unmet, Asks

\* A step that asks about one path keeps all, if what it goes on with has been
\* looked up.
LEMMA AsksKeep ==
  ASSUME Inv, NEW p \in Proc, NEW at \in Ats \ {"idle", "link", "remove"}, At(p, at),
         UNCHANGED <<modes, children, data>>, NEW x \in Met(p), Asks(p, x),
         call' \in [Proc -> Calls], \A q \in Proc \ {p} : call'[q] = call[q],
         call'[p].at # "remove", Callers(p)', LookedUp(p)'
  PROVE  Inv'
<1>1. /\ p \in up /\ call[p].at = at /\ up' = up /\ Sound(p) /\ Types
      /\ at # "remove" /\ at # "link"
  BY UnderWay DEF Inv
<1>2. x \in Path /\ Own[p] \subseteq Path /\ Root \notin Shared /\ Own[p] \cap Shared = {}
  BY OwnFacts, NamespaceAssumption DEF Below, Met
<1>3. Types'
  BY <1>1 DEF Types, Asks
<1>4. Mounted(p)'
  BY <1>1, <1>2, NamespaceAssumption DEF Sound, Mounted, Asks, Types
<1>5. Memo(p)'
  BY <1>1, <1>2 DEF Sound, Memo, Asks, Met
<1>6. Local(p)'
  BY <1>4, <1>5 DEF Local, Sound
<1> QED
  BY <1>1, <1>3, <1>6, QuietKeeps DEF Asks

\* The directory of the call's path is found, or not.
LEMMA FindParentKeeps == ASSUME Inv, NEW p \in Proc, FindParent(p) PROVE Inv'
<1>0. PICK d : d = Parent[call[p].path]
  OBVIOUS
<1>1. At(p, "parent") /\ UNCHANGED <<modes, children, data>> /\ GetInode(p, d) /\ Types
  BY <1>0 DEF FindParent, redis, Inv
<1>2. /\ "parent" \in Ats \ {"idle", "link", "remove"} /\ call[p].at = "parent"
      /\ call[p].path \in Below /\ d \in Path /\ d \in Met(p) /\ Sound(p) /\ Callers(p)
  BY <1>0, <1>1, UnderWay DEF Ats, Met
<1>3. /\ Asks(p, d) /\ (Meets(p, d) <=> inodes'[p][d] # "none")
      /\ inodes[p][d] = "dir" => inodes'[p][d] = "dir"
  BY <1>1, <1>2, GetInodeAsks
<1>4. /\ call' \in [Proc -> Calls] /\ call'[p].op = call[p].op /\ call'[p].path = call[p].path
      /\ \A q \in Proc \ {p} : call'[q] = call[q]
      /\ \/ call'[p].at = "return"
         \/ call'[p].at = "node" /\ inodes'[p][d] = "dir"
         \/ call'[p].at = "parentdir" /\ inodes'[p][d] # "none"
  <2>1. CASE ~Meets(p, d) \/ inodes[p][d] = "file"
    <3>1. Answer(p, "ErrParentDirNotExist") /\ "ErrParentDirNotExist" \in Results
      BY <2>1, <1>0 DEF FindParent, Meets, Results
    <3> QED
      BY <3>1, <1>1, AnswerSets
  <2>2. CASE Meets(p, d) /\ inodes[p][d] = "dir"
    <3>1. Goto(p, "node") /\ "node" \in Ats
      BY <2>2, <1>0 DEF FindParent, Ats
    <3> QED
      BY <3>1, <1>1, <1>3, <2>2, GotoSets
  <2>3. CASE Meets(p, d) /\ inodes[p][d] # "dir" /\ inodes[p][d] # "file"
    <3>1. Goto(p, "parentdir") /\ "parentdir" \in Ats
      BY <2>3, <1>0 DEF FindParent, Ats
    <3> QED
      BY <3>1, <1>1, <1>3, <2>3, GotoSets
  <2> QED
    BY <2>1, <2>2, <2>3
<1>5. LookedUp(p)'
  <2>1. call[p].op = "unlink" => Unmet(p, call[p].path)
    BY <1>2 DEF Sound, LookedUp
  <2>2. call[p].op = "unlink" => \A z \in Under(call[p].path) : inodes'[p][z] = "none"
    BY <2>1, <1>0, <1>2, <1>3, <1>4, UnmetStays
  <2> QED
    BY <1>0, <1>4, <2>2 DEF LookedUp, Unmet
<1>6. Callers(p)'
  BY <1>2, <1>4 DEF Callers
<1> QED
  BY <1>1, <1>2, <1>3, <1>4, <1>5, <1>6, AsksKeep

LEMMA CheckParentKeeps == ASSUME Inv, NEW p \in Proc, CheckParent(p) PROVE Inv'
<1>0. PICK d : d = Parent[call[p].path]
  OBVIOUS
<1>1. At(p, "parentdir") /\ UNCHANGED <<modes, children, data>> /\ KnowIsDir(p, d) /\ Types
  BY <1>0 DEF CheckParent, redis, Inv
<1>2. /\ "parentdir" \in Ats \ {"idle", "link", "remove"} /\ call[p].at = "parentdir"
      /\ call[p].path \in Below /\ d \in Path /\ d \in Met(p) /\ Sound(p) /\ Callers(p)
  BY <1>0, <1>1, UnderWay DEF Ats, Met
<1>3. Asks(p, d) /\ inodes'[p][d] = IF IsDir(p, d) THEN "dir" ELSE "file"
  BY <1>0, <1>1, <1>2, KnowIsDirAsks DEF Sound, LookedUp
<1>4. /\ call' \in [Proc -> Calls] /\ call'[p].op = call[p].op /\ call'[p].path = call[p].path
      /\ \A q \in Proc \ {p} : call'[q] = call[q]
      /\ \/ call'[p].at = "return"
         \/ call'[p].at = "node" /\ inodes'[p][d] = "dir"
  <2>1. CASE IsDir(p, d)
    <3>1. Goto(p, "node") /\ "node" \in Ats
      BY <2>1, <1>0 DEF CheckParent, Ats
    <3> QED
      BY <3>1, <1>1, <1>3, <2>1, GotoSets
  <2>2. CASE ~IsDir(p, d)
    <3>1. Answer(p, "ErrParentDirNotExist") /\ "ErrParentDirNotExist" \in Results
      BY <2>2, <1>0 DEF CheckParent, Results
    <3> QED
      BY <3>1, <1>1, AnswerSets
  <2> QED
    BY <2>1, <2>2
<1>5. LookedUp(p)'
  <2>1. call[p].op = "unlink" => Unmet(p, call[p].path)
    BY <1>2 DEF Sound, LookedUp
  <2>2. call[p].op = "unlink" => \A z \in Under(call[p].path) : inodes'[p][z] = "none"
    BY <2>1, <1>0, <1>2, <1>3, <1>4, UnmetStays
  <2> QED
    BY <1>0, <1>4, <2>2 DEF LookedUp, Unmet
<1>6. Callers(p)'
  BY <1>2, <1>4 DEF Callers
<1> QED
  BY <1>1, <1>2, <1>3, <1>4, <1>5, <1>6, AsksKeep

LEMMA FindNodeKeeps == ASSUME Inv, NEW p \in Proc, FindNode(p) PROVE Inv'
<1>0. PICK x : x = call[p].path
  OBVIOUS
<1>1. At(p, "node") /\ UNCHANGED <<modes, children, data>> /\ GetInode(p, x) /\ Types
  BY <1>0 DEF FindNode, redis, Inv
<1>2. /\ "node" \in Ats \ {"idle", "link", "remove"} /\ call[p].at = "node"
      /\ x \in Below /\ Parent[x] \in Path /\ x \in Met(p) /\ Sound(p) /\ Callers(p)
      /\ Parent[x] # x
  BY <1>0, <1>1, UnderWay, NotUnder DEF Ats, Met, Callers
<1>3. Asks(p, x) /\ (Meets(p, x) <=> inodes'[p][x] # "none")
  BY <1>1, <1>2, GetInodeAsks
<1>4. /\ call' \in [Proc -> Calls] /\ call'[p].op = call[p].op /\ call'[p].path = x
      /\ \A q \in Proc \ {p} : call'[q] = call[q]
      /\ \/ call'[p].at = "return"
         \/ /\ call'[p].at = "create" /\ call[p].op \in {"mkdir", "open"}
            /\ inodes'[p][x] = "none"
         \/ call'[p].at = "unlink" /\ call[p].op = "unlink" /\ inodes'[p][x] # "none"
         \/ /\ call'[p].at = "isdir" /\ call[p].op \notin {"mkdir", "unlink"}
            /\ inodes'[p][x] # "none"
  <2>1. CASE ~Meets(p, x)
    <3>1. Missing(p)
      BY <2>1, <1>0 DEF FindNode
    <3>2. \/ Goto(p, "create") /\ call[p].op \in {"mkdir", "open"}
          \/ Answer(p, "ErrNotDirectory")
          \/ Answer(p, "ErrNotExist")
      BY <3>1 DEF Missing
    <3>3. "create" \in Ats /\ "ErrNotDirectory" \in Results /\ "ErrNotExist" \in Results
      BY DEF Ats, Results
    <3> QED
      BY <3>2, <3>3, <2>1, <1>0, <1>1, <1>3, GotoSets, AnswerSets
  <2>2. CASE Meets(p, x)
    <3>1. Found(p)
      BY <2>2, <1>0 DEF FindNode
    <3>2. \/ Answer(p, "ErrExist")
          \/ Goto(p, "unlink") /\ call[p].op = "unlink"
          \/ Goto(p, "isdir") /\ call[p].op \notin {"mkdir", "unlink"}
      BY <3>1 DEF Found
    <3>3. "unlink" \in Ats /\ "isdir" \in Ats /\ "ErrExist" \in Results
      BY DEF Ats, Results
    <3> QED
      BY <3>2, <3>3, <2>2, <1>0, <1>1, <1>3, GotoSets, AnswerSets
  <2> QED
    BY <2>1, <2>2
<1>5. LookedUp(p)'
  <2>1. /\ inodes[p][Parent[x]] = "dir"
        /\ call[p].op = "unlink" => Unmet(p, x)
    BY <1>0, <1>2 DEF Sound, LookedUp
  <2>2. call[p].op = "unlink" => \A z \in Under(x) : inodes'[p][z] = "none"
    BY <2>1, <1>0, <1>2, <1>3, <1>4, UnmetStays
  <2>3. inodes'[p][Parent[x]] = "dir"
    BY <2>1, <1>2, <1>3 DEF Asks
  <2> QED
    BY <1>4, <2>2, <2>3 DEF LookedUp, Unmet
<1>6. Callers(p)'
  <2>1. call[p].op \in {"none", "mkdir", "rmdir", "unlink", "stat", "open"}
    BY <1>1 DEF Types, Calls
  <2> QED
    BY <1>0, <1>2, <1>4, <2>1 DEF Callers
<1> QED
  BY <1>1, <1>2, <1>3, <1>4, <1>5, <1>6, AsksKeep

\* What the path of a call is, a file or a directory.
LEMMA CheckDirKeeps == ASSUME Inv, NEW p \in Proc, CheckDir(p) PROVE Inv'
<1>0. PICK x : x = call[p].path
  OBVIOUS
<1>1. At(p, "isdir") /\ UNCHANGED <<modes, children, data>> /\ KnowIsDir(p, x) /\ Types
  BY <1>0 DEF CheckDir, redis, Inv
<1>2. /\ "isdir" \in Ats \ {"idle", "link", "remove"} /\ call[p].at = "isdir"
      /\ x \in Below /\ x \in Met(p) /\ Sound(p) /\ Callers(p)
      /\ inodes[p][x] # "none" /\ call[p].op \in {"rmdir", "stat", "open"}
  BY <1>0, <1>1, UnderWay DEF Ats, Met, Callers, Sound, LookedUp
<1>3. Asks(p, x)
  BY <1>1, <1>2, KnowIsDirAsks
<1>4. /\ call' \in [Proc -> Calls] /\ call'[p].op = call[p].op /\ call'[p].path = x
      /\ \A q \in Proc \ {p} : call'[q] = call[q]
      /\ \/ call'[p].at \in {"return", "trunc", "size"}
         \/ call'[p].at = "entries" /\ call[p].op = "rmdir"
  <2>1. \/ Answer(p, "ErrIsDirectory") \/ Answer(p, "ok") \/ Goto(p, "trunc")
        \/ Goto(p, "entries") /\ call[p].op = "rmdir"
        \/ Answer(p, "ErrNotDirectory") \/ Answer(p, "dir") \/ Goto(p, "size")
    BY <1>2 DEF CheckDir
  <2>2. /\ {"trunc", "entries", "size"} \subseteq Ats
        /\ {"ErrIsDirectory", "ErrNotDirectory", "ok", "dir"} \subseteq Results
    BY DEF Ats, Results
  <2> QED
    BY <2>1, <2>2, <1>0, <1>1, GotoSets, AnswerSets
<1>5. LookedUp(p)'
  BY <1>2, <1>3, <1>4 DEF LookedUp, Asks
<1>6. Callers(p)'
  BY <1>0, <1>2, <1>4 DEF Callers
<1> QED
  BY <1>1, <1>2, <1>3, <1>4, <1>5, <1>6, AsksKeep

\* Steps on the store, which no other part of the namespace depends on.
LEMMA StoreKeeps ==
  ASSUME Inv, NEW p \in Proc, Truncate(p) \/ Size(p)
  PROVE  Inv'
<1>1. PICK at \in {"trunc", "size"}, res \in Results :
        At(p, at) /\ Answer(p, res) /\ UNCHANGED <<modes, children, inodes>>
  <2>1. CASE Truncate(p)
    BY <2>1 DEF Truncate, Results
  <2>2. CASE Size(p)
    <3>1. PICK res \in Results : res = (IF call[p].path \in data THEN "full" ELSE "empty")
      BY DEF Results
    <3> QED
      BY <2>2, <3>1 DEF Size, redis
  <2> QED
    BY <2>1, <2>2
<1>2. at \in Ats \ {"idle"} /\ at # "link" /\ at # "remove"
  BY <1>1 DEF Ats
<1>3. p \in up /\ up' = up /\ Sound(p) /\ Callers(p) /\ call[p].at = at /\ Types
  BY <1>1, <1>2, UnderWay DEF Inv
<1>4. /\ call' \in [Proc -> Calls] /\ call'[p].op = call[p].op /\ call'[p].path = call[p].path
      /\ \A q \in Proc \ {p} : call'[q] = call[q]
      /\ call'[p].at = "return"
  BY <1>1, <1>3, AnswerSets
<1>5. Local(p)' /\ Types'
  BY <1>1, <1>2, <1>3, <1>4 DEF Local, Callers, Sound, Mounted, Memo, LookedUp, Types
<1> QED
  BY <1>1, <1>2, <1>3, <1>4, <1>5, QuietKeeps

\* Below an empty directory of its own, no path is one that a process has met.
LEMMA EmptyIsUnmet ==
  ASSUME Inv, NEW p \in Proc, p \in up, call[p].at = "entries", NEW x \in Own[p],
         children[x] \subseteq {Dot}
  PROVE  Unmet(p, x)
<1> DEFINE N == {y \in Below : y \notin modes /\ (y \in Users => y \in Own[p])}
<1>1. ASSUME NEW z \in Below, Parent[z] \in N \/ Parent[z] = x PROVE z \in N
  <2>1. Parent[z] \in Users => Parent[z] \in Own[p]
    BY <1>1 DEF Users
  <2>2. z \in Users => z \in Own[p]
    <3> SUFFICES ASSUME z \in Users PROVE z \in Own[p]
      OBVIOUS
    <3>1. Parent[z] # Root
      BY <1>1, OwnFacts DEF Below
    <3>2. PICK q \in Proc : z \in Own[q]
      BY <3>1, OwnFacts DEF Users
    <3>3. Parent[z] \in Own[q]
      BY <3>1, <3>2, OwnFacts
    <3>4. Parent[z] \in Own[p]
      BY <2>1, <3>3 DEF Users
    <3> QED
      BY <3>4, OwnFacts
  <2>3. z \notin modes
    <3> SUFFICES ASSUME z \in modes PROVE FALSE
      OBVIOUS
    <3>1. z \in Own[p] /\ z \in modes \ {Root} /\ z # Dot /\ Parent[z] \in Path
      BY <2>2, NamespaceAssumption DEF Inv, Sets, Below
    <3>2. z \notin children[Parent[z]]
      BY <1>1, <3>1 DEF Inv, Sets
    <3>3. PICK q \in Proc : call[q].path = z /\ call[q].at \in {"link", "remove"}
      BY <3>1, <3>2 DEF Inv, UnlistedIsUnfinished
    <3>4. q = p
      BY <3>1, <3>3, OwnFacts DEF Inv, Local, Callers
    <3> QED
      BY <3>3, <3>4
  <2> QED
    BY <2>2, <2>3
<1>2. Under(x) \subseteq N
  <2> HIDE DEF N
  <2>1. N \in SUBSET Path /\ x \in Path
    BY OwnFacts DEF N, Below
  <2>2. \A z \in Below : Parent[z] \in N \cup {x} => z \in N
    BY <1>1
  <2> QED
    BY <2>1, <2>2, UnderIsLeast
<1>3. ASSUME NEW y \in N PROVE inodes[p][y] = "none"
  <2>1. Memo(p)
    BY DEF Inv, Local, Sound
  <2> QED
    BY <2>1 DEF Memo, Below, Users
<1> QED
  BY <1>2, <1>3 DEF Unmet

LEMMA ReadDirKeeps == ASSUME Inv, NEW p \in Proc, ReadDir(p) PROVE Inv'
<1>0. PICK x : x = call[p].path
  OBVIOUS
<1>1. At(p, "entries") /\ UNCHANGED <<modes, children, data, inodes>> /\ Types
  BY DEF ReadDir, redis, Inv
<1>2. /\ "entries" \in Ats \ {"idle", "link", "remove"} /\ call[p].at = "entries" /\ p \in up
      /\ up' = up /\ x \in Own[p] /\ Sound(p) /\ Callers(p) /\ inodes[p][x] # "none"
      /\ call[p].op \in {"rmdir", "unlink"}
  BY <1>0, <1>1, UnderWay DEF Ats, Callers, Sound, LookedUp
<1>3. /\ call' \in [Proc -> Calls] /\ call'[p].op = call[p].op /\ call'[p].path = x
      /\ \A q \in Proc \ {p} : call'[q] = call[q]
      /\ \/ call'[p].at = "return"
         \/ call'[p].at = "unlink" /\ Unmet(p, x)
  <2>1. CASE children[x] \subseteq {Dot}
    <3>1. Goto(p, "unlink") /\ "unlink" \in Ats
      BY <2>1, <1>0 DEF ReadDir, Ats
    <3>2. Unmet(p, x)
      BY <2>1, <1>2, EmptyIsUnmet
    <3> QED
      BY <3>1, <3>2, <1>0, <1>1, GotoSets
  <2>2. CASE ~(children[x] \subseteq {Dot})
    <3>1. Answer(p, "ErrDirNotEmpty") /\ "ErrDirNotEmpty" \in Results
      BY <2>2, <1>0 DEF ReadDir, Results
    <3> QED
      BY <3>1, <1>0, <1>1, AnswerSets
  <2> QED
    BY <2>1, <2>2
<1>4. Local(p)' /\ Types'
  BY <1>0, <1>1, <1>2, <1>3 DEF Local, Callers, Sound, Mounted, Memo, LookedUp, Unmet, Types
<1> QED
  BY <1>1, <1>2, <1>3, <1>4, QuietKeeps

-----------------------------------------------------------------------------
(* Steps of a removal that only look at Redis *)

LEMMA TailFacts ==
  ASSUME NEW S, NEW s \in Seq(S), Len(s) > 0
  PROVE  /\ Tail(s) \in Seq(S) /\ Len(Tail(s)) = Len(s) - 1
         /\ \A k \in 1..Len(s) - 1 : Tail(s)[k] = s[k + 1]
         /\ Tail(s) = <<>> <=> Len(s) = 1
<1>1. Tail(s) \in Seq(S) /\ Len(Tail(s)) = Len(s) - 1 /\ Len(s) \in Nat
  OBVIOUS
<1>2. \A k \in 1..Len(s) - 1 : Tail(s)[k] = s[k + 1]
  OBVIOUS
<1>3. Tail(s) = <<>> <=> Len(Tail(s)) = 0
  BY <1>1, EmptySeq
<1> QED
  BY <1>1, <1>2, <1>3

\* The top of the stack of a removal is the path of the call, or is below it.
LEMMA TopFacts ==
  ASSUME Inv, NEW p \in Proc, NEW at \in {"isdir", "data", "list", "kids"}, Removing(p, at)
  PROVE  /\ p \in up /\ up' = up /\ call[p].at = "remove" /\ Sound(p) /\ Callers(p) /\ Stack(p)
         /\ call[p].todo \in Seq(Frames) /\ Len(call[p].todo) \in Nat /\ Len(call[p].todo) > 0
         /\ Top(p) = call[p].todo[1] /\ Top(p) \in Frames /\ Top(p).at = at
         /\ call[p].path \in Own[p] /\ call[p].path \in Below
         /\ Top(p).path \in Own[p] /\ Top(p).path \in Below
         /\ \/ Len(call[p].todo) = 1 /\ Top(p).path = call[p].path
            \/ Len(call[p].todo) > 1 /\ Top(p).path \in Under(call[p].path)
                                     /\ Top(p).path # call[p].path
<1>1. /\ At(p, "remove") /\ Top(p).at = at /\ "remove" \in Ats \ {"idle"}
  BY DEF Removing, Ats
<1>2. /\ p \in up /\ up' = up /\ call[p].at = "remove" /\ Sound(p) /\ Callers(p)
      /\ call[p] \in Calls /\ call[p].path \in Below
  BY <1>1, UnderWay
<1>3. Stack(p) /\ call[p].path \in Own[p]
  BY <1>2, OwnFacts DEF Sound, Callers
<1>4. call[p].todo \in Seq(Frames)
  BY <1>2 DEF Calls
<1>5. Len(call[p].todo) \in Nat /\ Len(call[p].todo) > 0
  BY <1>3, <1>4 DEF Stack
<1>6. Top(p) = call[p].todo[1] /\ Top(p) \in Frames
  BY <1>4, <1>5 DEF Top
<1>7. Top(p).path \in Own[p] /\ Top(p).path \in Below
  BY <1>3, <1>5, <1>6, OwnFacts DEF Stack
<1>8. CASE Len(call[p].todo) = 1
  BY <1>1, <1>2, <1>3, <1>4, <1>5, <1>6, <1>7, <1>8 DEF Stack
<1>9. CASE Len(call[p].todo) > 1
  <2>1. 1 \in 1..Len(call[p].todo) - 1
    BY <1>5, <1>9
  <2>2. Top(p).path \in Under(call[p].path)
    BY <2>1, <1>3, <1>6 DEF Stack
  <2> QED
    BY <1>1, <1>2, <1>3, <1>4, <1>5, <1>6, <1>7, <1>9, <2>2, NotUnder
<1>10. \A n \in Nat : n > 0 => n = 1 \/ n > 1
  OBVIOUS
<1> QED
  BY <1>5, <1>8, <1>9, <1>10

LEMMA BecomesSets ==
  ASSUME Types, NEW p \in Proc, NEW f \in Frames, Len(call[p].todo) > 0, Becomes(p, f)
  PROVE  /\ call' \in [Proc -> Calls] /\ \A q \in Proc \ {p} : call'[q] = call[q]
         /\ call'[p].op = call[p].op /\ call'[p].path = call[p].path /\ call'[p].at = call[p].at
         /\ Len(call'[p].todo) = Len(call[p].todo) /\ call'[p].todo[1] = f
         /\ \A k \in 2..Len(call[p].todo) : call'[p].todo[k] = call[p].todo[k]
<1>1. call \in [Proc -> Calls] /\ call[p] \in Calls /\ call[p].todo \in Seq(Frames)
  BY DEF Types, Calls
<1>2. PICK s : s = <<f>> \o Tail(call[p].todo)
  OBVIOUS
<1>3. /\ s \in Seq(Frames) /\ Len(s) = Len(call[p].todo) /\ s[1] = f
      /\ \A k \in 2..Len(call[p].todo) : s[k] = call[p].todo[k]
  BY <1>1, <1>2
<1>4. call' = [call EXCEPT ![p].todo = s]
  BY <1>2 DEF Becomes
<1>5. [call[p] EXCEPT !.todo = s] \in Calls
  BY <1>1, <1>3 DEF Calls
<1> QED
  BY <1>1, <1>3, <1>4, <1>5 DEF Calls

\* The top of the stack goes on, the others wait.
LEMMA TopGoesOn ==
  ASSUME Inv, NEW p \in Proc, NEW at \in {"isdir", "data", "list", "kids"}, Removing(p, at),
         UNCHANGED <<modes, children>>,
         inodes' = inodes \/ (Top(p).path = call[p].path /\ Asks(p, call[p].path)),
         NEW f \in Frames, f.path = Top(p).path, Becomes(p, f),
         f.at = "data" => children[f.path] = {},
         f.at = "kids" => /\ \A y \in f.kids : y \in Own[p] /\ Parent[y] = f.path
                          /\ (children[f.path] \ {Dot}) \cap modes \subseteq f.kids
  PROVE  Inv'
<1>1. /\ p \in up /\ up' = up /\ call[p].at = "remove" /\ Sound(p) /\ Callers(p) /\ Stack(p)
      /\ Len(call[p].todo) \in Nat /\ Len(call[p].todo) > 0 /\ Top(p) = call[p].todo[1]
      /\ call[p].path \in Own[p] /\ call[p].path \in Below
  BY TopFacts
<1>2. PICK n \in Nat : n = Len(call[p].todo)
  BY <1>1
<1>3. /\ call' \in [Proc -> Calls] /\ \A q \in Proc \ {p} : call'[q] = call[q]
      /\ call'[p].op = call[p].op /\ call'[p].path = call[p].path /\ call'[p].at = "remove"
      /\ Len(call'[p].todo) = n /\ call'[p].todo[1] = f
      /\ \A k \in 2..n : call'[p].todo[k] = call[p].todo[k]
  BY <1>1, <1>2, BecomesSets DEF Inv
<1>4. \A k \in 1..n : call'[p].todo[k].path = call[p].todo[k].path
  BY <1>1, <1>3
<1>5. Types' /\ \A q \in Proc \ {p} : inodes'[q] = inodes[q]
  BY <1>1, <1>3 DEF Inv, Types, Asks
<1>6. Mounted(p)' /\ Memo(p)'
  <2>1. CASE inodes' = inodes
    BY <2>1, <1>1 DEF Sound, Mounted, Memo
  <2>2. CASE Asks(p, call[p].path)
    <3>1. call[p].path # Root /\ call[p].path \notin Shared /\ Own[p] \subseteq Path
          /\ Root \in Path
      BY <1>1, OwnFacts, NamespaceAssumption DEF Below
    <3> QED
      BY <2>2, <3>1, <1>1 DEF Sound, Mounted, Memo, Asks
  <2> QED
    BY <2>1, <2>2
<1>7. LookedUp(p)'
  <2>1. inodes[p][call[p].path] # "none" /\ Unmet(p, call[p].path)
    BY <1>1 DEF Sound, LookedUp
  <2>2. inodes'[p][call[p].path] # "none"
    BY <2>1 DEF Asks
  <2>3. \A z \in Under(call[p].path) : inodes'[p][z] = "none"
    <3>1. CASE inodes' = inodes
      BY <2>1, <3>1 DEF Unmet
    <3>2. CASE Asks(p, call[p].path)
      BY <2>1, <3>2, <1>1, <1>3, UnmetStays
    <3> QED
      BY <3>1, <3>2
  <2> QED
    BY <2>2, <2>3, <1>3 DEF LookedUp, Unmet
<1>8. Stack(p)'
  <2>1. \A k \in 1..n - 1 : /\ call'[p].todo[k].path \in Under(call'[p].path)
                            /\ Parent[call'[p].todo[k].path] = call'[p].todo[k + 1].path
                            /\ call'[p].todo[k + 1].at = "kids"
    <3> SUFFICES ASSUME NEW k \in 1..n - 1
                 PROVE  /\ call'[p].todo[k].path \in Under(call'[p].path)
                        /\ Parent[call'[p].todo[k].path] = call'[p].todo[k + 1].path
                        /\ call'[p].todo[k + 1].at = "kids"
      OBVIOUS
    <3>1. k \in 1..n /\ k + 1 \in 2..n /\ k + 1 \in 1..n
      BY <1>2
    <3>2. /\ call[p].todo[k].path \in Under(call[p].path)
          /\ Parent[call[p].todo[k].path] = call[p].todo[k + 1].path
          /\ call[p].todo[k + 1].at = "kids"
      BY <1>1, <1>2 DEF Stack
    <3>3. /\ call'[p].todo[k].path = call[p].todo[k].path
          /\ call'[p].todo[k + 1].path = call[p].todo[k + 1].path
          /\ call'[p].todo[k + 1] = call[p].todo[k + 1] /\ call'[p].path = call[p].path
      BY <3>1, <1>3, <1>4
    <3> QED
      BY <3>2, <3>3
  <2>2. call'[p].todo[n].path = call'[p].path /\ n > 0
    <3>1. call[p].todo[n].path = call[p].path
      BY <1>1, <1>2 DEF Stack
    <3>2. n > 0
      BY <1>1, <1>2
    <3>3. n \in 1..n
      BY <1>2, <3>2
    <3> QED
      BY <3>1, <3>2, <3>3, <1>3, <1>4
  <2>3. \A k \in 1..n : call'[p].todo[k].path \in Own[p]
    BY <1>1, <1>2, <1>4 DEF Stack
  <2>4. ASSUME NEW k \in 1..n, call'[p].todo[k].at = "kids"
        PROVE  /\ \A y \in call'[p].todo[k].kids : y \in Own[p] /\ Parent[y] = call'[p].todo[k].path
               /\ \A y \in (children[call'[p].todo[k].path] \ {Dot}) \cap modes :
                    y \in call'[p].todo[k].kids \/ (k > 1 /\ y = call'[p].todo[k - 1].path)
    <3>1. CASE k = 1
      BY <3>1, <2>4, <1>3
    <3>2. CASE k \in 2..n
      <4>1. call'[p].todo[k] = call[p].todo[k] /\ call'[p].todo[k - 1].path = call[p].todo[k - 1].path
        BY <3>2, <1>3, <1>4
      <4>2. k \in 1..n /\ k > 1 /\ call[p].todo[k].at = "kids" /\ UNCHANGED <<modes, children>>
        BY <4>1, <3>2, <2>4, <1>1, <1>2
      <4>3. /\ \A y \in call[p].todo[k].kids : y \in Own[p] /\ Parent[y] = call[p].todo[k].path
            /\ \A y \in (children[call[p].todo[k].path] \ {Dot}) \cap modes :
                 y \in call[p].todo[k].kids \/ (k > 1 /\ y = call[p].todo[k - 1].path)
        BY <4>2, <1>1, <1>2 DEF Stack
      <4> QED
        BY <4>1, <4>2, <4>3
    <3> QED
      BY <3>1, <3>2
  <2>5. call'[p].path \notin children[Parent[call'[p].path]]
    BY <1>1, <1>3 DEF Stack
  <2> QED
    BY <2>1, <2>2, <2>3, <2>4, <2>5, <1>3 DEF Stack
<1>9. Local(p)'
  BY <1>1, <1>3, <1>6, <1>7, <1>8 DEF Local, Callers, Sound
<1> QED
  BY <1>1, <1>2, <1>3, <1>4, <1>5, <1>9, QuietKeeps

LEMMA RemoveIsDirKeeps == ASSUME Inv, NEW p \in Proc, RemoveIsDir(p) PROVE Inv'
<1>0. PICK x : x = Top(p).path
  OBVIOUS
<1>1. Removing(p, "isdir") /\ UNCHANGED <<modes, children>> /\ Types
  BY DEF RemoveIsDir, redis, Inv
<1>2. /\ Sound(p) /\ x \in Own[p] /\ x \in Path /\ x \notin Shared
      /\ call[p].at = "remove" /\ call[p].path \in Own[p]
  BY <1>0, <1>1, TopFacts, OwnFacts DEF Below
<1>3. /\ inodes' = inodes \/ (x = call[p].path /\ Asks(p, x))
      /\ \E at \in {"list", "data"} : /\ Becomes(p, Frame(x, at, {}))
                                      /\ at = "data" => children[x] = {}
  <2>1. CASE x = call[p].path
    <3>1. KnowIsDir(p, x) /\ Becomes(p, Frame(x, IF IsDir(p, x) THEN "list" ELSE "data", {}))
      BY <2>1, <1>0 DEF RemoveIsDir
    <3>2. inodes[p][x] # "none" /\ x \in Met(p)
      BY <2>1, <1>2 DEF Sound, LookedUp, Met
    <3>3. Asks(p, x) /\ (IsDir(p, x) <=> children[x] # {})
      BY <3>1, <3>2, <1>1, <1>2, KnowIsDirAsks
    <3> QED
      BY <3>1, <3>3, <2>1
  <2>2. CASE x # call[p].path
    BY <2>2, <1>0 DEF RemoveIsDir
  <2> QED
    BY <2>1, <2>2
<1>4. PICK at \in {"list", "data"} : /\ Becomes(p, Frame(x, at, {}))
                                     /\ at = "data" => children[x] = {}
  BY <1>3
<1>5. PICK f : f = Frame(x, at, {})
  OBVIOUS
<1>6. f \in Frames /\ f.path = x /\ f.at = at
  BY <1>2, <1>5 DEF Frame, Frames
<1> QED
  BY <1>0, <1>1, <1>3, <1>4, <1>5, <1>6, TopGoesOn

LEMMA RemoveDataKeeps == ASSUME Inv, NEW p \in Proc, RemoveData(p) PROVE Inv'
<1>0. PICK x, f : x = Top(p).path /\ f = Frame(x, "kids", {})
  OBVIOUS
<1>1. Removing(p, "data") /\ UNCHANGED <<modes, children, inodes>> /\ Becomes(p, f)
  BY <1>0 DEF RemoveData
<1>2. x \in Path /\ Stack(p) /\ call[p].todo[1].path = x /\ call[p].todo[1].at = "data"
  BY <1>0, <1>1, TopFacts DEF Below
<1>3. children[x] = {}
  BY <1>2 DEF Stack
<1>4. f \in Frames /\ f.path = x /\ f.at = "kids" /\ f.kids = {}
  BY <1>0, <1>2 DEF Frame, Frames
<1> QED
  BY <1>0, <1>1, <1>3, <1>4, TopGoesOn

\* The entries that it lists are the process's own, as the directory is.
LEMMA ListChildrenKeeps == ASSUME Inv, NEW p \in Proc, ListChildren(p) PROVE Inv'
<1>0. PICK x, f : x = Top(p).path /\ f = Frame(x, "kids", children[x] \ {Dot})
  OBVIOUS
<1>1. Removing(p, "list") /\ UNCHANGED <<modes, children, inodes>> /\ Becomes(p, f)
  BY <1>0 DEF ListChildren, redis
<1>2. x \in Own[p] /\ x \in Path
  BY <1>0, <1>1, TopFacts DEF Below
<1>3. \A y \in children[x] \ {Dot} : y \in Own[p] /\ Parent[y] = x
  BY <1>2, OwnFacts DEF Inv, Sets
<1>4. children[x] \ {Dot} \subseteq Path
  BY <1>2 DEF Inv, Types
<1>5. f \in Frames /\ f.path = x /\ f.at = "kids" /\ f.kids = children[x] \ {Dot}
  BY <1>0, <1>2, <1>4 DEF Frame, Frames
<1> QED
  BY <1>0, <1>1, <1>3, <1>5, TopGoesOn

\* An entry is removed before the directory goes on.
LEMMA RemoveKidKeeps == ASSUME Inv, NEW p \in Proc, RemoveKid(p) PROVE Inv'
<1>0. PICK x, n : x = Top(p).path /\ n = Len(call[p].todo)
  OBVIOUS
<1>1. Removing(p, "kids") /\ UNCHANGED <<modes, children, inodes>> /\ Types
  BY DEF RemoveKid, redis, Inv
<1>2. /\ p \in up /\ up' = up /\ call[p].at = "remove" /\ Sound(p) /\ Callers(p) /\ Stack(p)
      /\ call[p].todo \in Seq(Frames) /\ n \in Nat /\ n > 0 /\ Top(p) = call[p].todo[1]
      /\ Top(p) \in Frames /\ Top(p).at = "kids" /\ x \in Path
      /\ x = call[p].path \/ x \in Under(call[p].path)
      /\ call[p].path \in Path
  BY <1>0, <1>1, TopFacts DEF Below
<1>3a. PICK y \in Top(p).kids : call' = [call EXCEPT ![p].todo =
         <<Frame(y, "isdir", {}), Frame(x, "kids", Top(p).kids \ {y})>> \o Tail(@)]
  BY <1>0 DEF RemoveKid
<1>3. PICK s : /\ call' = [call EXCEPT ![p].todo = s]
               /\ s = <<Frame(y, "isdir", {}), Frame(x, "kids", Top(p).kids \ {y})>> \o Tail(call[p].todo)
  BY <1>3a
<1>4. y \in Own[p] /\ Parent[y] = x /\ y \in Below
  <2>1. 1 \in 1..Len(call[p].todo)
    BY <1>0, <1>2
  <2> QED
    <3>1. y \in Own[p] /\ Parent[y] = call[p].todo[1].path
      BY <2>1, <1>2, StackKids
    <3> QED
      BY <3>1, <1>0, <1>2, OwnFacts
<1>5. y \in Under(call[p].path)
  BY <1>2, <1>4, UnderCloses
<1>6a. PICK a, b : a = Frame(y, "isdir", {}) /\ b = Frame(x, "kids", Top(p).kids \ {y})
  OBVIOUS
<1>6. /\ a \in Frames /\ a.path = y /\ a.at = "isdir"
      /\ b \in Frames /\ b.path = x /\ b.at = "kids" /\ b.kids = Top(p).kids \ {y}
  <2>1. y \in Path /\ Top(p).kids \ {y} \subseteq Path
    BY <1>2, <1>4 DEF Frames, Below
  <2> QED
    BY <2>1, <1>2, <1>6a DEF Frame, Frames
<1>7. /\ s \in Seq(Frames) /\ Len(s) = n + 1 /\ s[1] = a /\ s[2] = b
      /\ \A k \in 3..n + 1 : s[k] = call[p].todo[k - 1]
  <2>1. PICK r : r = Tail(call[p].todo)
    OBVIOUS
  <2>2. r \in Seq(Frames) /\ Len(r) = n - 1 /\ \A k \in 1..n - 1 : r[k] = call[p].todo[k + 1]
    BY <1>0, <1>2, <2>1
  <2>3. s = <<a, b>> \o r /\ <<a, b>> \in Seq(Frames)
    BY <1>3, <1>6a, <1>6, <2>1
  <2>4. s \in Seq(Frames) /\ Len(s) = n + 1 /\ s[1] = a /\ s[2] = b
    BY <1>2, <2>2, <2>3
  <2>5. \A k \in 3..n + 1 : s[k] = r[k - 2]
    BY <1>2, <2>2, <2>3
  <2>6. \A k \in 3..n + 1 : k - 2 \in 1..n - 1 /\ (k - 2) + 1 = k - 1
    BY <1>2
  <2> QED
    BY <2>2, <2>4, <2>5, <2>6
<1>8. /\ call' \in [Proc -> Calls] /\ \A q \in Proc \ {p} : call'[q] = call[q]
      /\ call'[p].op = call[p].op /\ call'[p].path = call[p].path /\ call'[p].at = "remove"
      /\ call'[p].todo = s
  <2>1. call \in [Proc -> Calls] /\ call[p] \in Calls
    BY <1>1 DEF Types
  <2>2. [call[p] EXCEPT !.todo = s] \in Calls
    BY <2>1, <1>7 DEF Calls
  <2> QED
    BY <2>1, <2>2, <1>2, <1>3 DEF Calls
<1>9. \A k \in 2..n + 1 : s[k].path = call[p].todo[k - 1].path /\ (k > 2 => s[k] = call[p].todo[k - 1])
  <2> SUFFICES ASSUME NEW k \in 2..n + 1
               PROVE  s[k].path = call[p].todo[k - 1].path /\ (k > 2 => s[k] = call[p].todo[k - 1])
    OBVIOUS
  <2>1. CASE k = 2
    BY <2>1, <1>0, <1>2, <1>6, <1>7
  <2>2. CASE k \in 3..n + 1
    BY <2>2, <1>7
  <2> QED
    BY <2>1, <2>2, <1>2
<1>10. Stack(p)'
  <2>1. Len(s) > 0 /\ s[Len(s)].path = call'[p].path
    <3>1. n + 1 \in 2..n + 1 /\ (n + 1) - 1 = n /\ n + 1 > 0
      BY <1>2
    <3>2. call[p].todo[n].path = call[p].path
      BY <1>0, <1>2, StackEnds
    <3>3. s[n + 1].path = call[p].todo[n].path
      BY <3>1, <1>9
    <3> QED
      BY <3>1, <3>2, <3>3, <1>7, <1>8
  <2>2. call'[p].path \notin children'[Parent[call'[p].path]]
    BY <1>1, <1>2, <1>8 DEF Stack
  <2>3. ASSUME NEW k \in 1..n + 1 PROVE s[k].path \in Own[p]
    <3>1. CASE k = 1
      BY <3>1, <1>4, <1>6, <1>7
    <3>2. CASE k \in 2..n + 1
      <4>1. k - 1 \in 1..n
        BY <3>2, <1>2
      <4> QED
        BY <3>2, <4>1, <1>0, <1>2, <1>9, StackEnds
    <3> QED
      BY <3>1, <3>2, <1>2
  <2>4. ASSUME NEW k \in 1..n
        PROVE  s[k].path \in Under(call[p].path) /\ Parent[s[k].path] = s[k + 1].path /\ s[k + 1].at = "kids"
    <3>1. CASE k = 1
      BY <3>1, <1>4, <1>5, <1>6, <1>7
    <3>2. CASE k \in 2..n
      <4>1. k - 1 \in 1..n - 1 /\ (k - 1) + 1 = k /\ k + 1 \in 3..n + 1 /\ (k + 1) - 1 = k
        BY <3>2, <1>2
      <4>2. /\ s[k].path = call[p].todo[k - 1].path /\ s[k + 1] = call[p].todo[k]
        BY <3>2, <4>1, <1>9, <1>7
      <4>3. /\ call[p].todo[k - 1].path \in Under(call[p].path)
            /\ Parent[call[p].todo[k - 1].path] = call[p].todo[k].path
            /\ call[p].todo[k].at = "kids"
        <5>1. k - 1 \in 1..Len(call[p].todo) - 1
          BY <4>1, <1>0
        <5>2. \A j \in 1..Len(call[p].todo) - 1 :
                /\ call[p].todo[j].path \in Under(call[p].path)
                /\ Parent[call[p].todo[j].path] = call[p].todo[j + 1].path
                /\ call[p].todo[j + 1].at = "kids"
          BY <1>2, StackChain
        <5> QED
          BY <5>1, <5>2, <4>1
      <4> QED
        BY <4>2, <4>3
    <3> QED
      BY <3>1, <3>2, <1>2
  <2>5. ASSUME NEW k \in 1..n + 1, s[k].at = "kids"
        PROVE  /\ \A z \in s[k].kids : z \in Own[p] /\ Parent[z] = s[k].path
               /\ \A z \in (children[s[k].path] \ {Dot}) \cap modes :
                    z \in s[k].kids \/ (k > 1 /\ z = s[k - 1].path)
    <3>1. CASE k = 1
      BY <3>1, <2>5, <1>6, <1>7
    <3>2. CASE k = 2
      <4>1. 1 \in 1..Len(call[p].todo)
        BY <1>0, <1>2
      <4> QED
        <5>1. /\ \A z \in Top(p).kids : z \in Own[p] /\ Parent[z] = x
              /\ \A z \in (children[x] \ {Dot}) \cap modes : z \in Top(p).kids
          BY <4>1, <1>0, <1>2, StackKids
        <5> QED
          BY <5>1, <3>2, <1>6, <1>7
    <3>3. CASE k \in 3..n + 1
      <4>1. k - 1 \in 1..Len(call[p].todo) /\ k - 1 > 1 /\ k - 1 \in 2..n + 1
        BY <3>3, <1>0, <1>2
      <4>2. s[k] = call[p].todo[k - 1] /\ s[k - 1].path = call[p].todo[(k - 1) - 1].path
        BY <3>3, <4>1, <1>7, <1>9
      <4> QED
        BY <4>1, <4>2, <2>5, <1>2, StackKids
    <3> QED
      BY <3>1, <3>2, <3>3, <1>2
  <2> QED
    <3>1. Len(s) = n + 1 /\ (n + 1) - 1 = n /\ s[1].at = "isdir"
      BY <1>2, <1>6, <1>7
    <3> QED
      BY <2>1, <2>2, <2>3, <2>4, <2>5, <3>1, <1>1, <1>8 DEF Stack
<1>11. Local(p)' /\ Types'
  BY <1>1, <1>2, <1>8, <1>10 DEF Local, Callers, Sound, Mounted, Memo, LookedUp, Unmet, Types
<1>12. ASSUME NEW k \in 1..Len(call[p].todo)
       PROVE  \E j \in 1..Len(call'[p].todo) : call'[p].todo[j].path = call[p].todo[k].path
  <2>1. k + 1 \in 1..n + 1 /\ k + 1 \in 2..n + 1 /\ (k + 1) - 1 = k
    BY <1>0, <1>2, <1>12
  <2>2. s[k + 1].path = call[p].todo[k].path
    BY <2>1, <1>9
  <2>3. call'[p].todo = s /\ k + 1 \in 1..Len(s)
    BY <2>1, <1>7, <1>8
  <2> QED
    BY <2>2, <2>3
<1> QED
  BY <1>1, <1>2, <1>8, <1>11, <1>12, QuietKeeps

-----------------------------------------------------------------------------
(* Steps between the calls of a process *)

LEMMA ReturnKeeps == ASSUME Inv, NEW p \in Proc, Return(p) PROVE Inv'
<1>1. /\ p \in up /\ call[p].at = "return" /\ call' = [call EXCEPT ![p] = Idle]
      /\ UNCHANGED <<modes, children, up, inodes>>
  BY DEF Return, redis
<1>2. Idle \in Calls /\ Idle.at = "idle"
  BY NamespaceAssumption DEF Idle, Calls, Ats, Results
<1>3. /\ Types' /\ \A q \in Proc \ {p} : call'[q] = call[q]
      /\ call'[p] = Idle
  BY <1>1, <1>2 DEF Inv, Types
<1>4. Local(p)'
  BY <1>1, <1>2, <1>3 DEF Inv, Local, Callers, Sound, Mounted, Memo, LookedUp, Idle
<1> QED
  BY <1>1, <1>3, <1>4, QuietKeeps

\* What a process did not finish stays as it is.
LEMMA GoneKeeps == ASSUME Inv, NEW p \in Proc, Exit(p) \/ Crash(p) PROVE Inv'
<1>1. /\ up' = up \ {p} /\ inodes' = [inodes EXCEPT ![p] = NoInode]
      /\ UNCHANGED <<modes, children, call>>
  BY DEF Exit, Crash, redis
<1>2. NoInode \in [Path -> {"none", "new", "dir", "file"}]
  BY DEF NoInode
<1>3. /\ Types' /\ \A q \in Proc \ {p} : inodes'[q] = inodes[q]
      /\ \A q \in Proc : q \in up' => q \in up
  BY <1>1, <1>2 DEF Inv, Types
<1>4. Local(p)'
  BY <1>1 DEF Inv, Local, Callers
<1> QED
  BY <1>1, <1>3, <1>4, QuietKeeps

LEMMA FilesKeep ==
  ASSUME Inv, NEW p \in Proc, UNCHANGED <<modes, children, up, inodes, call>>
  PROVE  Inv'
<1>1. Types'
  BY DEF Inv, Types
<1>2. Local(p)'
  <2>1. Callers(p) => Callers(p)'
    BY DEF Callers
  <2>2. Mounted(p) /\ Memo(p) => Mounted(p)' /\ Memo(p)'
    BY DEF Mounted, Memo
  <2>3. LookedUp(p) => LookedUp(p)'
    BY DEF LookedUp, Unmet
  <2>4. Stack(p) => Stack(p)'
    BY DEF Stack
  <2> QED
    BY <2>1, <2>2, <2>3, <2>4 DEF Inv, Local, Sound
<1> QED
  BY <1>1, <1>2, QuietKeeps

\* The first process makes the mount point.
LEMMA StartKeeps == ASSUME Inv, NEW p \in Proc, Start(p) PROVE Inv'
<1>1. /\ p \notin up /\ call[p] = Idle /\ up' = up \cup {p} /\ modes' = modes \cup {Root}
      /\ children' = [children EXCEPT ![Root] = @ \cup {Dot}]
      /\ inodes' = [inodes EXCEPT ![p] = [NoInode EXCEPT ![Root] = "new"]]
      /\ UNCHANGED call
  BY DEF Start
<1>2. /\ Root \in Path /\ Dot \notin Path /\ Own[p] \subseteq Below
      /\ Users \subseteq Path
  BY NamespaceAssumption, OwnFacts DEF Below
<1>3. /\ children'[Root] = children[Root] \cup {Dot}
      /\ \A x \in Path \ {Root} : children'[x] = children[x]
      /\ inodes'[p] = [NoInode EXCEPT ![Root] = "new"]
      /\ \A q \in Proc \ {p} : inodes'[q] = inodes[q]
  BY <1>1, <1>2 DEF Inv, Types
<1>4. Types'
  <2>1. [NoInode EXCEPT ![Root] = "new"] \in [Path -> {"none", "new", "dir", "file"}]
    BY <1>2 DEF NoInode
  <2> QED
    BY <2>1, <1>1, <1>2 DEF Inv, Types
<1>5. Local(p)'
  <2>1. call'[p].at = "idle"
    BY <1>1 DEF Idle
  <2>2. inodes'[p][Root] = "new" /\ \A x \in Path \ {Root} : inodes'[p][x] = "none"
    BY <1>2, <1>3 DEF NoInode
  <2> QED
    BY <2>1, <2>2, <1>1, <1>2, <1>3
    DEF Local, Callers, Sound, Mounted, Memo, LookedUp, Below, Idle
<1>6. ASSUME NEW q \in Proc PROVE Local(q)'
  <2>1. CASE q # p
    <3>1. \A x \in Own[q] : x # Root /\ x # Dot
      BY <1>2, OwnFacts DEF Below
    <3> QED
      BY <2>1, <3>1, <1>1, <1>2, <1>3, OthersKeep DEF Below
  <2> QED
    BY <2>1, <1>5
<1>7. Sets'
  BY <1>1, <1>2, <1>3 DEF Inv, Sets
<1>8. ListedExists'
  BY <1>1, <1>3 DEF Inv, ListedExists
<1>9. UnlistedIsUnfinished'
  <2> SUFFICES ASSUME NEW x \in modes' \ {Root}, x \notin children'[Parent[x]]
               PROVE  \E q \in Proc : call[q].path = x /\ call[q].at \in {"link", "remove"}
    BY <1>1 DEF UnlistedIsUnfinished
  <2>1. x \in modes \ {Root} /\ Parent[x] \in Path
    BY <1>1, NamespaceAssumption DEF Inv, Types
  <2>2. x \notin children[Parent[x]]
    BY <2>1, <1>3
  <2> QED
    BY <2>1, <2>2 DEF Inv, UnlistedIsUnfinished
<1> QED
  BY <1>4, <1>6, <1>7, <1>8, <1>9 DEF Inv

-----------------------------------------------------------------------------
(* Steps that change Redis *)

\* The inode first, which nothing lists yet ...
LEMMA CreateMetaKeeps == ASSUME Inv, NEW p \in Proc, CreateMeta(p) PROVE Inv'
<1>0. PICK x : x = call[p].path
  OBVIOUS
<1>1. /\ At(p, "create") /\ Goto(p, "link") /\ modes' = modes \cup {x}
      /\ children' = IF call[p].op = "mkdir" THEN [children EXCEPT ![x] = @ \cup {Dot}] ELSE children
      /\ UNCHANGED inodes /\ Types /\ "create" \in Ats \ {"idle"} /\ "link" \in Ats
  BY <1>0 DEF CreateMeta, Inv, Ats
<1>2. /\ p \in up /\ up' = up /\ call[p].at = "create" /\ Sound(p) /\ Callers(p)
      /\ x \in Below /\ x \in Path /\ x # Root /\ x \in Own[p] \cup Shared
      /\ x \in Shared => call[p].op = "open"
      /\ call[p].op \in {"mkdir", "open"} /\ inodes[p][x] = "none"
      /\ Parent[x] \in Path /\ inodes[p][Parent[x]] = "dir"
  BY <1>0, <1>1, UnderWay DEF Callers, Sound, LookedUp, Below
<1>3. /\ call' \in [Proc -> Calls] /\ \A q \in Proc \ {p} : call'[q] = call[q]
      /\ call'[p].op = call[p].op /\ call'[p].path = x /\ call'[p].at = "link"
  BY <1>0, <1>1, GotoSets
<1>4. /\ children' \in [Path -> SUBSET (Path \cup {Dot})]
      /\ \A y \in Path \ {x} : children'[y] = children[y]
      /\ children'[x] = children[x] \/ (x \in Own[p] /\ children'[x] = children[x] \cup {Dot})
  BY <1>1, <1>2 DEF Types
<1>5. Types'
  BY <1>1, <1>2, <1>3, <1>4 DEF Types
<1>6. Local(p)'
  <2>1. Mounted(p)'
    BY <1>1, <1>2, <1>4, NamespaceAssumption DEF Sound, Mounted
  <2>2. Memo(p)'
    BY <1>1, <1>2, <1>4, OwnFacts DEF Sound, Memo, Below
  <2>3. LookedUp(p)'
    BY <1>1, <1>2, <1>3 DEF LookedUp
  <2> QED
    BY <2>1, <2>2, <2>3, <1>0, <1>2, <1>3 DEF Local, Sound, Callers
<1>7. ASSUME NEW q \in Proc PROVE Local(q)'
  <2>1. CASE q # p
    <3>1. \A y \in Own[q] : y # x
      BY <2>1, <1>2, OwnFacts
    <3>2. \A y \in Below \ Own[p] : children'[y] = children[y]
      BY <1>2, <1>4 DEF Below
    <3>3. children'[Root] = children[Root]
      BY <1>2, <1>4, NamespaceAssumption
    <3> QED
      BY <2>1, <3>1, <3>2, <3>3, <1>1, <1>2, <1>3, OthersKeep
  <2> QED
    BY <2>1, <1>6
<1>8. Sets'
  BY <1>1, <1>2, <1>4 DEF Inv, Sets, Users
<1>9. ListedExists'
  <2> SUFFICES ASSUME NEW d \in Path, NEW y \in children'[d] \ {Dot}, y \notin modes'
               PROVE  \E q \in Proc : call'[q].at = "remove"
                                      /\ \E k \in 1..Len(call'[q].todo) : call'[q].todo[k].path = d
    BY DEF ListedExists
  <2>1. y \in children[d] \ {Dot} /\ y \notin modes
    BY <1>1, <1>4
  <2>2. PICK q \in Proc : call[q].at = "remove" /\ \E k \in 1..Len(call[q].todo) : call[q].todo[k].path = d
    BY <2>1 DEF Inv, ListedExists
  <2>3. q # p
    BY <2>2, <1>2
  <2> QED
    BY <2>2, <2>3, <1>3
<1>10. UnlistedIsUnfinished'
  <2> SUFFICES ASSUME NEW y \in modes' \ {Root}, y \notin children'[Parent[y]]
               PROVE  \E q \in Proc : call'[q].path = y /\ call'[q].at \in {"link", "remove"}
    BY DEF UnlistedIsUnfinished
  <2>1. CASE y = x
    BY <2>1, <1>3
  <2>2. CASE y # x
    <3>1. y \in modes \ {Root} /\ Parent[y] \in Path
      BY <2>2, <1>1, NamespaceAssumption DEF Types
    <3>2. y \notin children[Parent[y]]
      BY <3>1, <1>4
    <3>3. PICK q \in Proc : call[q].path = y /\ call[q].at \in {"link", "remove"}
      BY <3>1, <3>2 DEF Inv, UnlistedIsUnfinished
    <3>4. q # p
      BY <3>3, <1>2
    <3> QED
      BY <3>3, <3>4, <1>3
  <2> QED
    BY <2>1, <2>2
<1> QED
  BY <1>5, <1>7, <1>8, <1>9, <1>10 DEF Inv

\* ... then its entry; and it is one of its own path's directory, which exists.
LEMMA SetChildKeeps == ASSUME Inv, NEW p \in Proc, SetChild(p) PROVE Inv'
<1>0. PICK x, d : x = call[p].path /\ d = Parent[x]
  OBVIOUS
<1>1. /\ At(p, "link") /\ children' = [children EXCEPT ![d] = @ \cup {x}]
      /\ Keep(p, x, "new") /\ UNCHANGED modes /\ Types /\ "link" \in Ats \ {"idle"}
  BY <1>0 DEF SetChild, Inv, Ats
<1>2. /\ p \in up /\ up' = up /\ call[p].at = "link" /\ Sound(p) /\ Callers(p)
      /\ x \in Below /\ x \in Path /\ x # Root /\ x \in Own[p] \cup Shared /\ x \in Users /\ x # Dot
      /\ call[p].op \in {"mkdir", "open"} /\ x \in modes
      /\ d \in Path /\ d \in Own[p] \cup {Root} /\ d # x /\ inodes[p][d] = "dir"
  <2>1. /\ p \in up /\ up' = up /\ call[p].at = "link" /\ Sound(p) /\ Callers(p)
        /\ x \in Below /\ d \in Path /\ d \in Own[p] \cup {Root}
    BY <1>0, <1>1, UnderWay
  <2>2. x \in Own[p] \cup Shared /\ call[p].op \in {"mkdir", "open"}
    BY <2>1, <1>0 DEF Callers
  <2>3. x \in modes /\ inodes[p][d] = "dir"
    BY <2>1, <1>0 DEF Sound, LookedUp
  <2>4. x \in Path /\ x # Root /\ x # Dot /\ d # x
    BY <2>1, <1>0, NotUnder, NamespaceAssumption DEF Below
  <2>5. x \in Users
    BY <2>2 DEF Users
  <2> QED
    BY <2>1, <2>2, <2>3, <2>4, <2>5
<1>3. /\ call' \in [Proc -> Calls] /\ \A q \in Proc \ {p} : call'[q] = call[q]
      /\ call'[p].op = call[p].op /\ call'[p].path = x /\ call'[p].at \in {"return", "isdir"}
      /\ call'[p].at = "isdir" => call[p].op = "open"
  <2>1. Answer(p, "ok") \/ (Goto(p, "isdir") /\ call[p].op = "open")
    BY <1>2 DEF SetChild
  <2>2. "ok" \in Results /\ "isdir" \in Ats
    BY DEF Results, Ats
  <2> QED
    BY <2>1, <2>2, <1>0, <1>1, AnswerSets, GotoSets
<1>4. /\ children' \in [Path -> SUBSET (Path \cup {Dot})]
      /\ \A y \in Path \ {d} : children'[y] = children[y]
      /\ children'[d] = children[d] \cup {x}
  BY <1>1, <1>2 DEF Types
<1>5. /\ inodes' \in [Proc -> [Path -> {"none", "new", "dir", "file"}]]
      /\ \A q \in Proc \ {p} : inodes'[q] = inodes[q]
      /\ \A y \in Path \ {x} : inodes'[p][y] = inodes[p][y]
      /\ inodes'[p][x] = "new"
  BY <1>1, <1>2, KeepSets
<1>6. Types'
  BY <1>1, <1>2, <1>3, <1>4, <1>5 DEF Types
<1>7. d \in modes /\ Dot \in children[d]
  <2>1. children[d] # {}
    BY <1>2 DEF Sound, Mounted, Memo
  <2> QED
    BY <2>1, <1>2 DEF Inv, Sets
<1>8. Local(p)'
  <2>1. Mounted(p)'
    BY <1>1, <1>2, <1>4, <1>5, NamespaceAssumption DEF Sound, Mounted
  <2>2. Memo(p)'
    BY <1>1, <1>2, <1>4, <1>5, OwnFacts DEF Sound, Memo, Below
  <2>3. LookedUp(p)'
    BY <1>3, <1>5 DEF LookedUp
  <2> QED
    BY <2>1, <2>2, <2>3, <1>0, <1>2, <1>3 DEF Local, Sound, Callers
<1>9. ASSUME NEW q \in Proc PROVE Local(q)'
  <2>1. CASE q # p
    <3>1. \A y \in Own[q] : y # x
      BY <2>1, <1>2, OwnFacts
    <3>2. \A y \in Below \ Own[p] : children'[y] = children[y]
      BY <1>2, <1>4 DEF Below
    <3>3. children'[Root] = children[Root] \/ children'[Root] = children[Root] \cup {x}
      BY <1>2, <1>4, NamespaceAssumption
    <3> QED
      BY <2>1, <3>1, <3>2, <3>3, <1>1, <1>2, <1>3, <1>5, OthersKeep
  <2> QED
    BY <2>1, <1>8
<1>10. Sets'
  <2>1. modes' \subseteq Users \cup {Root}
    BY <1>1 DEF Inv, Sets
  <2>2. ASSUME NEW e \in Path, NEW y \in children'[e] \ {Dot} PROVE y \in Users /\ Parent[y] = e
    <3>1. y \in children[e] \/ (e = d /\ y = x)
      BY <1>2, <1>4
    <3> QED
      BY <3>1, <1>0, <1>2, <2>2 DEF Inv, Sets
  <2>3. ASSUME NEW e \in Path, children'[e] # {} PROVE Dot \in children'[e] /\ e \in modes'
    <3>1. CASE e = d
      BY <3>1, <1>1, <1>2, <1>4, <1>7
    <3>2. CASE e # d
      BY <3>2, <2>3, <1>1, <1>4 DEF Inv, Sets
    <3> QED
      BY <3>1, <3>2
  <2> QED
    BY <2>1, <2>2, <2>3 DEF Sets
<1>11. ListedExists'
  <2> SUFFICES ASSUME NEW e \in Path, NEW y \in children'[e] \ {Dot}, y \notin modes
               PROVE  \E q \in Proc : call'[q].at = "remove"
                                      /\ \E k \in 1..Len(call'[q].todo) : call'[q].todo[k].path = e
    BY <1>1 DEF ListedExists
  <2>1. y \in children[e] \ {Dot}
    BY <1>2, <1>4
  <2>2. PICK q \in Proc : call[q].at = "remove" /\ \E k \in 1..Len(call[q].todo) : call[q].todo[k].path = e
    BY <2>1 DEF Inv, ListedExists
  <2>3. q # p
    BY <2>2, <1>2
  <2> QED
    BY <2>2, <2>3, <1>3
<1>12. UnlistedIsUnfinished'
  <2> SUFFICES ASSUME NEW y \in modes \ {Root}, y \notin children'[Parent[y]]
               PROVE  \E q \in Proc : call'[q].path = y /\ call'[q].at \in {"link", "remove"}
    BY <1>1 DEF UnlistedIsUnfinished
  <2>1. y \notin children[Parent[y]] /\ y # x
    BY <1>0, <1>1, <1>2, <1>4, NamespaceAssumption DEF Types
  <2>2. PICK q \in Proc : call[q].path = y /\ call[q].at \in {"link", "remove"}
    BY <2>1 DEF Inv, UnlistedIsUnfinished
  <2>3. q # p
    BY <2>1, <2>2, <1>0
  <2> QED
    BY <2>2, <2>3, <1>3
<1> QED
  BY <1>6, <1>9, <1>10, <1>11, <1>12 DEF Inv

\* A removal takes the entry away first ...
LEMMA RemoveChildKeeps == ASSUME Inv, NEW p \in Proc, RemoveChild(p) PROVE Inv'
<1>0. PICK x, d, s : x = call[p].path /\ d = Parent[x] /\ s = <<Frame(x, "isdir", {})>>
  OBVIOUS
<1>1. /\ At(p, "unlink") /\ children' = [children EXCEPT ![d] = @ \ {x}]
      /\ call' = [call EXCEPT ![p].at = "remove", ![p].todo = s]
      /\ UNCHANGED <<modes, inodes>> /\ Types /\ "unlink" \in Ats \ {"idle"} /\ "remove" \in Ats
  BY <1>0 DEF RemoveChild, Inv, Ats
<1>2. /\ p \in up /\ up' = up /\ call[p].at = "unlink" /\ Sound(p) /\ Callers(p)
      /\ x \in Below /\ x \in Path /\ x # Root /\ x \in Own[p] /\ x \notin Shared /\ x # Dot
      /\ call[p].op \in {"rmdir", "unlink"} /\ inodes[p][x] # "none" /\ Unmet(p, x)
      /\ d \in Path /\ d \in Own[p] \cup {Root} /\ d # x
  <2>1. /\ p \in up /\ up' = up /\ call[p].at = "unlink" /\ Sound(p) /\ Callers(p)
        /\ x \in Below /\ d \in Path /\ d \in Own[p] \cup {Root}
    BY <1>0, <1>1, UnderWay
  <2>2. /\ call[p].op \in {"rmdir", "unlink"} /\ x \in Own[p] \cup Shared
        /\ x \in Shared => call[p].op = "open"
    BY <2>1, <1>0 DEF Callers
  <2>3. x \in Own[p] /\ x \notin Shared
    BY <2>2
  <2>4. inodes[p][x] # "none" /\ Unmet(p, x)
    BY <2>1, <1>0 DEF Sound, LookedUp
  <2>5. x \in Path /\ x # Root /\ x # Dot /\ d # x
    BY <2>1, <1>0, NotUnder, NamespaceAssumption DEF Below
  <2> QED
    BY <2>1, <2>2, <2>3, <2>4, <2>5
<1>3. s \in Seq(Frames) /\ Len(s) = 1 /\ s[1].path = x /\ s[1].at = "isdir"
  <2>1. PICK f : f = Frame(x, "isdir", {})
    OBVIOUS
  <2>2. f \in Frames /\ f.path = x /\ f.at = "isdir"
    BY <2>1, <1>2 DEF Frame, Frames
  <2> QED
    BY <2>1, <2>2, <1>0
<1>4. /\ call' \in [Proc -> Calls] /\ \A q \in Proc \ {p} : call'[q] = call[q]
      /\ call'[p].op = call[p].op /\ call'[p].path = x /\ call'[p].at = "remove"
      /\ call'[p].todo = s
  <2>1. call \in [Proc -> Calls] /\ call[p] \in Calls
    BY <1>1 DEF Types
  <2>2. [call[p] EXCEPT !.at = "remove", !.todo = s] \in Calls
    BY <2>1, <1>1, <1>3 DEF Calls
  <2> QED
    BY <2>1, <2>2, <1>0, <1>1 DEF Calls
<1>5. /\ children' \in [Path -> SUBSET (Path \cup {Dot})]
      /\ \A y \in Path \ {d} : children'[y] = children[y]
      /\ children'[d] = children[d] \ {x}
  BY <1>1, <1>2 DEF Types
<1>6. Types'
  BY <1>1, <1>2, <1>4, <1>5 DEF Types
<1>7. \A y \in Path : children[y] # {} => children'[y] # {} /\ Dot \in children'[y]
  BY <1>2, <1>5 DEF Inv, Sets
<1>8. Local(p)'
  <2>1. Mounted(p)'
    BY <1>1, <1>2, <1>7, NamespaceAssumption DEF Sound, Mounted
  <2>2. Memo(p)'
    <3>1. \A y \in Path : children[y] = {} => children'[y] = {}
      BY <1>2, <1>5
    <3>2. Own[p] \subseteq Path
      BY OwnFacts DEF Below
    <3> QED
      BY <1>1, <1>2, <1>7, <3>1, <3>2 DEF Sound, Memo
  <2>3. LookedUp(p)'
    BY <1>1, <1>2, <1>4 DEF LookedUp, Unmet
  <2>4. Stack(p)'
    <3>1. x \notin children'[Parent[x]]
      BY <1>0, <1>5
    <3>2. Len(s) > 0 /\ 1..Len(s) = {1} /\ 1..Len(s) - 1 = {}
      BY <1>3
    <3> QED
      <4>1. call'[p].todo = s /\ call'[p].path = x /\ s[Len(s)].path = x
        BY <1>3, <1>4
      <4>2. \A k \in 1..Len(s) : s[k].path \in Own[p] /\ s[k].at = "isdir"
        BY <3>2, <1>2, <1>3
      <4> QED
        BY <3>1, <3>2, <4>1, <4>2 DEF Stack
  <2> QED
    BY <2>1, <2>2, <2>3, <2>4, <1>0, <1>2, <1>4 DEF Local, Sound, Callers
<1>9. ASSUME NEW q \in Proc PROVE Local(q)'
  <2>1. CASE q # p
    <3>1. \A y \in Below \ Own[p] : children'[y] = children[y]
      BY <1>2, <1>5 DEF Below
    <3>2. Dot \in children[Root] => Dot \in children'[Root]
      BY <1>7, NamespaceAssumption
    <3>3. children'[Root] \subseteq children[Root]
      BY <1>2, <1>5, NamespaceAssumption
    <3> QED
      BY <2>1, <3>1, <3>2, <3>3, <1>1, <1>2, <1>4, OthersKeep
  <2> QED
    BY <2>1, <1>8
<1>10. Sets'
  BY <1>1, <1>2, <1>5 DEF Inv, Sets
<1>11. ListedExists'
  <2> SUFFICES ASSUME NEW e \in Path, NEW y \in children'[e] \ {Dot}, y \notin modes
               PROVE  \E q \in Proc : call'[q].at = "remove"
                                      /\ \E k \in 1..Len(call'[q].todo) : call'[q].todo[k].path = e
    BY <1>1 DEF ListedExists
  <2>1. y \in children[e] \ {Dot}
    BY <1>5
  <2>2. PICK q \in Proc : call[q].at = "remove" /\ \E k \in 1..Len(call[q].todo) : call[q].todo[k].path = e
    BY <2>1 DEF Inv, ListedExists
  <2>3. q # p
    BY <2>2, <1>2
  <2> QED
    BY <2>2, <2>3, <1>4
<1>12. UnlistedIsUnfinished'
  <2> SUFFICES ASSUME NEW y \in modes \ {Root}, y \notin children'[Parent[y]]
               PROVE  \E q \in Proc : call'[q].path = y /\ call'[q].at \in {"link", "remove"}
    BY <1>1 DEF UnlistedIsUnfinished
  <2>1. CASE y = x
    BY <2>1, <1>4
  <2>2. CASE y # x
    <3>1. y \notin children[Parent[y]]
      <4>1. Parent[y] \in Path
        BY NamespaceAssumption, <1>1 DEF Types
      <4> QED
        BY <2>2, <4>1, <1>5
    <3>2. PICK q \in Proc : call[q].path = y /\ call[q].at \in {"link", "remove"}
      BY <3>1 DEF Inv, UnlistedIsUnfinished
    <3>3. q # p
      BY <3>2, <1>2
    <3> QED
      BY <3>2, <3>3, <1>4
  <2> QED
    BY <2>1, <2>2
<1> QED
  BY <1>6, <1>9, <1>10, <1>11, <1>12 DEF Inv

\* ... and the inode last: when it does, no entry of its own is left, for what it
\* still finds in its set has no inode.
LEMMA DelMetaKeeps == ASSUME Inv, NEW p \in Proc, DelMeta(p) PROVE Inv'
<1>0. PICK x, r, n : x = Top(p).path /\ r = call[p].path /\ n = Len(call[p].todo)
  OBVIOUS
<1>1. /\ Removing(p, "kids") /\ Top(p).kids = {} /\ modes' = modes \ {x}
      /\ children' = [children EXCEPT ![x] = {}] /\ Types
  BY <1>0 DEF DelMeta, Inv
<1>2. /\ p \in up /\ up' = up /\ call[p].at = "remove" /\ Sound(p) /\ Callers(p) /\ Stack(p)
      /\ call[p].todo \in Seq(Frames) /\ n \in Nat /\ n > 0
      /\ call[p].todo[1].path = x /\ call[p].todo[1].kids = {} /\ call[p].todo[1].at = "kids"
      /\ r \in Own[p] /\ r \in Below /\ x \in Own[p] /\ x \in Below
      /\ (n = 1 /\ x = r) \/ (n > 1 /\ x \in Under(r) /\ x # r)
  BY <1>0, <1>1, TopFacts
<1>3. /\ x \in Path /\ x # Root /\ r \in Path /\ r # Root /\ x \notin Shared /\ Root \in Path
      /\ inodes[p][r] # "none" /\ Unmet(p, r) /\ r \notin Under(r)
      /\ Parent[r] # r /\ Parent[r] \notin Under(r) /\ Parent[r] \in Path
  BY <1>0, <1>2, OwnFacts, NotUnder, NamespaceAssumption DEF Below, Sound, LookedUp
<1>4. /\ children' \in [Path -> SUBSET (Path \cup {Dot})] /\ children'[x] = {}
      /\ \A y \in Path \ {x} : children'[y] = children[y]
  BY <1>1, <1>3 DEF Types
<1>5. /\ call' \in [Proc -> Calls] /\ \A q \in Proc \ {p} : call'[q] = call[q]
      /\ call'[p].op = call[p].op /\ call'[p].path = r
      /\ n = 1 => call'[p].at = "return"
      /\ n > 1 => /\ call'[p].at = "remove" /\ Len(call'[p].todo) = n - 1
                  /\ \A k \in 1..n - 1 : call'[p].todo[k] = call[p].todo[k + 1]
  <2>1. CASE n = 1
    <3>1. Tail(call[p].todo) = <<>>
      BY <2>1, <1>0, <1>2, TailFacts
    <3>2. Answer(p, "ok") /\ "ok" \in Results
      BY <3>1 DEF DelMeta, Results
    <3> QED
      BY <2>1, <3>2, <1>0, <1>1, AnswerSets
  <2>2. CASE n > 1
    <3>1. PICK s : s = Tail(call[p].todo)
      OBVIOUS
    <3>2. s \in Seq(Frames) /\ Len(s) = n - 1 /\ \A k \in 1..n - 1 : s[k] = call[p].todo[k + 1]
      BY <2>2, <3>1, <1>0, <1>2, TailFacts
    <3>3. s # <<>>
      BY <2>2, <3>2, <1>2
    <3>4. call' = [call EXCEPT ![p].todo = s]
      BY <3>1, <3>3 DEF DelMeta
    <3>5. call \in [Proc -> Calls] /\ call[p] \in Calls
      BY <1>1 DEF Types
    <3>6. [call[p] EXCEPT !.todo = s] \in Calls
      BY <3>2, <3>5 DEF Calls
    <3> QED
      <4>1. call'[p] = [call[p] EXCEPT !.todo = s] /\ \A q \in Proc \ {p} : call'[q] = call[q]
        BY <3>4, <3>5
      <4>2. call'[p].todo = s /\ call'[p].at = "remove" /\ call'[p].op = call[p].op /\ call'[p].path = r
        BY <4>1, <3>5, <1>0, <1>2 DEF Calls
      <4>3. call' \in [Proc -> Calls]
        BY <3>4, <3>5, <3>6
      <4> QED
        BY <2>2, <3>2, <4>1, <4>2, <4>3
  <2> QED
    BY <2>1, <2>2, <1>2
<1>6. /\ inodes' \in [Proc -> [Path -> {"none", "new", "dir", "file"}]]
      /\ \A q \in Proc \ {p} : inodes'[q] = inodes[q]
      /\ \A y \in Path \ {r} : inodes'[p][y] = inodes[p][y]
      /\ n = 1 => inodes'[p][r] = "none"
      /\ n > 1 => inodes'[p][r] = inodes[p][r]
  <2>1. CASE n = 1
    <3>1. Tail(call[p].todo) = <<>>
      BY <2>1, <1>0, <1>2, TailFacts
    <3>2. Keep(p, r, "none")
      BY <2>1, <3>1, <1>0, <1>2 DEF DelMeta
    <3> QED
      BY <2>1, <3>2, <1>1, <1>3, KeepSets
  <2>2. CASE n > 1
    <3>0. n # 1
      BY <2>2, <1>2
    <3>1. Tail(call[p].todo) # <<>>
      BY <3>0, <1>0, <1>2, TailFacts
    <3> QED
      BY <2>2, <3>1, <1>1 DEF DelMeta, Types
  <2> QED
    BY <2>1, <2>2, <1>2
<1>7. Types'
  BY <1>1, <1>2, <1>4, <1>5, <1>6 DEF Types
<1>8. Stack(p)' \/ n = 1
  <2> SUFFICES ASSUME n > 1 PROVE Stack(p)'
    BY <1>2
  <2>1. \A k \in 1..n - 1 : k + 1 \in 1..n /\ k + 1 > 1 /\ (k + 1) - 1 = k
    BY <1>2
  <2>0. \A k \in 1..n - 1 : k # 1 => k - 1 \in 1..n - 1 /\ k > 1 /\ (k - 1) + 1 = k
    BY <1>2
  <2>2. call'[p].todo[n - 1] = call[p].todo[n] /\ n - 1 > 0
    <3>1. n - 1 \in 1..n - 1 /\ (n - 1) + 1 = n
      BY <1>2
    <3> QED
      BY <3>1, <1>5
  <2>3. call'[p].todo[n - 1].path = r
    BY <2>2, <1>0, <1>2, StackEnds
  <2>4. r \notin children'[Parent[r]]
    BY <1>0, <1>2, <1>3, <1>4, StackEnds
  <2>5. \A k \in 1..n - 1 : call'[p].todo[k].path \in Own[p]
    <3> SUFFICES ASSUME NEW k \in 1..n - 1 PROVE call'[p].todo[k].path \in Own[p]
      OBVIOUS
    <3>1. k + 1 \in 1..Len(call[p].todo) /\ call'[p].todo[k] = call[p].todo[k + 1]
      BY <2>1, <1>0, <1>5
    <3> QED
      BY <3>1, <1>2, StackEnds
  <2>6. ASSUME NEW k \in 1..(n - 1) - 1
        PROVE  /\ call'[p].todo[k].path \in Under(r)
               /\ Parent[call'[p].todo[k].path] = call'[p].todo[k + 1].path
               /\ call'[p].todo[k + 1].at = "kids"
    <3>1. k \in 1..n - 1 /\ k + 1 \in 1..n - 1 /\ n > 1
      BY <1>2
    <3>2. /\ call[p].todo[k + 1].path \in Under(r)
          /\ Parent[call[p].todo[k + 1].path] = call[p].todo[(k + 1) + 1].path
          /\ call[p].todo[(k + 1) + 1].at = "kids"
      BY <3>1, <1>0, <1>2, StackChain
    <3> QED
      BY <3>1, <3>2, <1>5
  <2>7. call'[p].todo[1].at = "kids"
    <3>1. 1 \in 1..n - 1 /\ call'[p].todo[1] = call[p].todo[2]
      <4>1. 1 \in 1..n - 1 /\ 1 + 1 = 2
        BY <1>2
      <4>2. \A k \in 1..n - 1 : call'[p].todo[k] = call[p].todo[k + 1]
        BY <1>5
      <4>3. call'[p].todo[1] = call[p].todo[1 + 1]
        BY <4>1, <4>2
      <4> QED
        BY <4>1, <4>3
    <3> QED
      BY <3>1, <1>0, <1>2, StackChain
  <2>8. ASSUME NEW k \in 1..n - 1, call'[p].todo[k].at = "kids"
        PROVE  /\ \A y \in call'[p].todo[k].kids : y \in Own[p] /\ Parent[y] = call'[p].todo[k].path
               /\ \A y \in (children'[call'[p].todo[k].path] \ {Dot}) \cap modes' :
                    y \in call'[p].todo[k].kids \/ (k > 1 /\ y = call'[p].todo[k - 1].path)
    <3>1. k + 1 \in 1..Len(call[p].todo) /\ (k + 1) - 1 = k /\ k + 1 > 1 /\ call'[p].todo[k] = call[p].todo[k + 1]
      BY <2>1, <1>0, <1>5
    <3>4. call[p].todo[k + 1].at = "kids"
      BY <3>1, <2>8
    <3>2. /\ \A y \in call[p].todo[k + 1].kids : y \in Own[p] /\ Parent[y] = call[p].todo[k + 1].path
          /\ \A y \in (children[call[p].todo[k + 1].path] \ {Dot}) \cap modes :
               y \in call[p].todo[k + 1].kids \/ y = call[p].todo[k].path
          /\ call[p].todo[k + 1].path \in Own[p]
      <4>1. /\ \A y \in call[p].todo[k + 1].kids : y \in Own[p] /\ Parent[y] = call[p].todo[k + 1].path
            /\ \A y \in (children[call[p].todo[k + 1].path] \ {Dot}) \cap modes :
                 y \in call[p].todo[k + 1].kids \/ y = call[p].todo[(k + 1) - 1].path
        BY <3>1, <3>4, <1>2, StackKids
      <4>2. call[p].todo[k + 1].path \in Own[p]
        BY <3>1, <1>2, StackEnds
      <4> QED
        BY <3>1, <4>1, <4>2
    <3>3. ASSUME NEW y \in (children'[call'[p].todo[k].path] \ {Dot}) \cap modes',
                 y \notin call'[p].todo[k].kids
          PROVE  k > 1 /\ y = call'[p].todo[k - 1].path
      <4>1. y \in (children[call[p].todo[k + 1].path] \ {Dot}) \cap modes /\ y # x
        BY <3>1, <3>2, <3>3, <1>1, <1>4, OwnFacts DEF Below
      <4>2. y = call[p].todo[k].path /\ k # 1
        BY <4>1, <3>1, <3>2, <3>3, <1>2
      <4>3. k - 1 \in 1..n - 1 /\ k > 1 /\ (k - 1) + 1 = k
        BY <4>2, <2>0
      <4> QED
        BY <4>2, <4>3, <1>5
    <3> QED
      BY <3>1, <3>2, <3>3
  <2>9. n > 1 /\ (n - 1 \in Nat)
    BY <1>2
  <2>10. call'[p].todo[1].at # "data"
    BY <2>7
  <2> QED
    BY <2>2, <2>3, <2>4, <2>5, <2>6, <2>8, <2>9, <2>10, <1>5 DEF Stack
<1>9. Local(p)'
  <2>1. Mounted(p)'
    BY <1>1, <1>2, <1>3, <1>4, <1>6 DEF Sound, Mounted
  <2>2. Memo(p)'
    <3>1. inodes[p][x] = "none" \/ x = r
      BY <1>2, <1>3 DEF Unmet
    <3>2. Own[p] \subseteq Path
      BY OwnFacts DEF Below
    <3> QED
      BY <3>1, <3>2, <1>1, <1>2, <1>3, <1>4, <1>6 DEF Sound, Memo
  <2>3. LookedUp(p)'
    <3>1. \A z \in Under(r) : inodes'[p][z] = "none"
      BY <1>3, <1>6 DEF Unmet, Under
    <3> QED
      BY <3>1, <1>2, <1>3, <1>5, <1>6 DEF LookedUp, Unmet
  <2> QED
    BY <2>1, <2>2, <2>3, <1>0, <1>2, <1>5, <1>8 DEF Local, Sound, Callers
<1>10. ASSUME NEW q \in Proc PROVE Local(q)'
  <2>1. CASE q # p
    <3>1. \A y \in Below \ Own[p] : children'[y] = children[y]
      BY <1>2, <1>4 DEF Below
    <3>2. children'[Root] = children[Root]
      BY <1>3, <1>4
    <3> QED
      BY <2>1, <3>1, <3>2, <1>1, <1>2, <1>5, <1>6, OthersKeep
  <2> QED
    BY <2>1, <1>9
<1>11. Sets'
  BY <1>1, <1>3, <1>4 DEF Inv, Sets
<1>12. ListedExists'
  <2> SUFFICES ASSUME NEW d \in Path, NEW y \in children'[d] \ {Dot}, y \notin modes'
               PROVE  \E q \in Proc : call'[q].at = "remove"
                                      /\ \E k \in 1..Len(call'[q].todo) : call'[q].todo[k].path = d
    BY DEF ListedExists
  <2>1. d # x /\ y \in children[d] \ {Dot} /\ Parent[y] = d
    BY <1>1, <1>4 DEF Inv, Sets
  <2>2. CASE y \in modes
    <3>1. y = x /\ d = Parent[x]
      BY <2>1, <2>2, <1>1
    <3>2. n > 1
      <4>1. ASSUME n = 1 PROVE x = r /\ x \notin children[Parent[x]]
        BY <4>1, <1>0, <1>2, StackEnds
      <4> QED
        BY <2>1, <3>1, <4>1, <1>2
    <3>3. 1 \in 1..n - 1 /\ call'[p].todo[1] = call[p].todo[2] /\ Parent[x] = call[p].todo[2].path
      <4>1. 1 \in 1..n - 1 /\ 1 + 1 = 2
        BY <3>2, <1>2
      <4>2. Parent[call[p].todo[1].path] = call[p].todo[1 + 1].path
        BY <4>1, <1>0, <1>2, StackChain
      <4> QED
        BY <4>1, <4>2, <1>0, <1>2, <1>5
    <3> QED
      BY <3>1, <3>2, <3>3, <1>5
  <2>3. CASE y \notin modes
    <3>0. PICK q \in Proc : /\ call[q].at = "remove"
                            /\ \E k \in 1..Len(call[q].todo) : call[q].todo[k].path = d
      BY <2>1, <2>3 DEF Inv, ListedExists
    <3>1. PICK k \in 1..Len(call[q].todo) : call[q].at = "remove" /\ call[q].todo[k].path = d
      BY <3>0
    <3>2. CASE q # p
      BY <3>0, <3>2, <1>5
    <3>3. CASE q = p
      <4>1. k # 1 /\ k \in 1..n
        BY <3>1, <3>3, <2>1, <1>0, <1>2
      <4>2. n > 1 /\ k - 1 \in 1..n - 1 /\ (k - 1) + 1 = k
        BY <4>1, <1>2
      <4>3. call'[p].todo[k - 1].path = d
        BY <4>2, <3>1, <3>3, <1>5
      <4> QED
        BY <4>2, <4>3, <1>5
    <3> QED
      BY <3>2, <3>3
  <2> QED
    BY <2>2, <2>3
<1>13. UnlistedIsUnfinished'
  <2> SUFFICES ASSUME NEW y \in modes' \ {Root}, y \notin children'[Parent[y]]
               PROVE  \E q \in Proc : call'[q].path = y /\ call'[q].at \in {"link", "remove"}
    BY DEF UnlistedIsUnfinished
  <2>1. y \in modes \ {Root} /\ y # x /\ y \in Path /\ Parent[y] \in Path /\ y # Dot
    BY <1>1, NamespaceAssumption DEF Types
  <2>2. y \notin children[Parent[y]]
    <3>1. CASE Parent[y] = x
      <4>1. 1 \in 1..Len(call[p].todo)
        BY <1>0, <1>2
      <4>2. ~(1 > 1)
        OBVIOUS
      <4> QED
        BY <4>1, <4>2, <3>1, <2>1, <1>2 DEF Stack
    <3>2. CASE Parent[y] # x
      BY <3>2, <2>1, <1>4
    <3> QED
      BY <3>1, <3>2
  <2>3. PICK q \in Proc : call[q].path = y /\ call[q].at \in {"link", "remove"}
    BY <2>1, <2>2 DEF Inv, UnlistedIsUnfinished
  <2>4. CASE q # p
    BY <2>3, <2>4, <1>5
  <2>5. CASE q = p
    BY <2>1, <2>3, <2>5, <1>0, <1>2, <1>5
  <2> QED
    BY <2>4, <2>5
<1> QED
  BY <1>7, <1>10, <1>11, <1>12, <1>13 DEF Inv

-----------------------------------------------------------------------------
(* The theorems *)

LEMMA InvInit == Init => Inv
<1> SUFFICES ASSUME Init PROVE Inv
  OBVIOUS
<1>1. Types
  <2>1. Idle \in Calls
    BY NamespaceAssumption DEF Idle, Calls, Ats, Results
  <2>2. NoInode \in [Path -> {"none", "new", "dir", "file"}]
    BY DEF NoInode
  <2> QED
    BY <2>1, <2>2 DEF Init, Types
<1>2. Sets /\ ListedExists /\ UnlistedIsUnfinished
  BY DEF Init, Sets, ListedExists, UnlistedIsUnfinished
<1>3. \A p \in Proc : Local(p)
  BY DEF Init, Local, Callers, Idle
<1> QED
  BY <1>1, <1>2, <1>3 DEF Inv

LEMMA InvNext == Inv /\ [Next]_vars => Inv'
<1> SUFFICES ASSUME Inv, [Next]_vars PROVE Inv'
  OBVIOUS
<1>1. CASE UNCHANGED vars
  <2>1. UNCHANGED <<modes, children, up, inodes, call>>
    BY <1>1 DEF vars
  <2>2. CASE Proc = {}
    BY <2>1, <2>2 DEF Inv, Types, Sets, ListedExists, UnlistedIsUnfinished
  <2>3. CASE Proc # {}
    <3>1. PICK p \in Proc : TRUE
      BY <2>3
    <3> QED
      BY <2>1, <3>1, FilesKeep
  <2> QED
    BY <2>2, <2>3
<1>2. ASSUME NEW p \in Proc, Start(p) \/ Exit(p) \/ Crash(p) PROVE Inv'
  BY <1>2, StartKeeps, GoneKeeps
<1>3. ASSUME NEW p \in Proc, Call(p) PROVE Inv'
  <2>1. PICK x \in Path :
          \/ CallMkdir(p, x) \/ CallRmdir(p, x) \/ CallUnlink(p, x) \/ CallStat(p, x)
          \/ \E flags \in Flags : CallOpen(p, x, flags)
          \/ Write(p, x) \/ Close(p, x)
    BY <1>3 DEF Call
  <2>2. Own[p] \cap Shared = {}
    BY OwnAssumption
  <2>3. CASE CallMkdir(p, x)
    BY <2>2, <2>3, BeginKeeps DEF CallMkdir
  <2>4. CASE CallRmdir(p, x)
    BY <2>2, <2>4, BeginKeeps DEF CallRmdir
  <2>5. CASE CallUnlink(p, x)
    BY <2>2, <2>5, BeginKeeps DEF CallUnlink
  <2>6. CASE CallStat(p, x)
    BY <2>2, <2>6, BeginKeeps DEF CallStat
  <2>7. ASSUME NEW flags \in Flags, CallOpen(p, x, flags) PROVE Inv'
    <3>1. flags \in SUBSET {"CREATE", "EXCL", "TRUNC"}
      BY DEF Flags
    <3> QED
      BY <2>7, <3>1, BeginKeeps DEF CallOpen
  <2>8. CASE Write(p, x) \/ Close(p, x)
    BY <2>8, FilesKeep DEF Write, Close, redis
  <2> QED
    BY <2>1, <2>3, <2>4, <2>5, <2>6, <2>7, <2>8
<1>4. ASSUME NEW p \in Proc, Step(p) PROVE Inv'
  BY <1>4, FindParentKeeps, CheckParentKeeps, FindNodeKeeps, CreateMetaKeeps, SetChildKeeps,
     CheckDirKeeps, StoreKeeps, ReadDirKeeps, RemoveChildKeeps, RemoveIsDirKeeps,
     RemoveDataKeeps, ListChildrenKeeps, RemoveKidKeeps, DelMetaKeeps, ReturnKeeps
  DEF Step
<1> QED
  BY <1>1, <1>2, <1>3, <1>4 DEF Next

LEMMA Invariance == Spec => []Inv
BY InvInit, InvNext, PTL DEF Spec

\* An entry that a directory lists exists, whoever lists it and whenever, but while
\* a removal is under way that has the directory on its stack (RedisFS.Remove).
THEOREM ListedExistsAlways == Spec => []ListedExists
<1>1. Inv => ListedExists
  BY DEF Inv
<1> QED
  BY <1>1, Invariance, PTL

\* A path that exists is an entry of its directory, but while a call makes it or
\* removes it, or since a process was gone in the middle of one (createInode, Remove).
THEOREM UnlistedIsUnfinishedAlways == Spec => []UnlistedIsUnfinished
<1>1. Inv => UnlistedIsUnfinished
  BY DEF Inv
<1> QED
  BY <1>1, Invariance, PTL

\* What a process remembers of its own paths is what Redis holds (fs.inodes).
THEOREM RemembersOwnAlways == Spec => []RemembersOwn
<1>1. Inv => RemembersOwn
  BY DEF Inv, Local, Sound, Memo, RemembersOwn, Types
<1> QED
  BY <1>1, Invariance, PTL

\* What keeps a removal from going astray: it takes only paths of the process's
\* own, each below the path of the call or the path itself, whatever the entries
\* that others make and remove meanwhile (Inode.remove).
RemovesOwn == \A p \in up : call[p].at = "remove" =>
  \A k \in 1..Len(call[p].todo) :
    /\ call[p].todo[k].path \in Own[p]
    /\ call[p].todo[k].path \in Under(call[p].path) \cup {call[p].path}
THEOREM RemovesOwnAlways == Spec => []RemovesOwn
<1>1. ASSUME Inv PROVE RemovesOwn
  <2> SUFFICES ASSUME NEW p \in up, call[p].at = "remove", NEW k \in 1..Len(call[p].todo)
               PROVE  /\ call[p].todo[k].path \in Own[p]
                      /\ call[p].todo[k].path \in Under(call[p].path) \cup {call[p].path}
    BY DEF RemovesOwn
  <2>1. Stack(p) /\ p \in Proc
    BY <1>1 DEF Inv, Local, Sound, Types
  <2>2. call[p].todo \in Seq(Frames)
    BY <1>1, <2>1 DEF Inv, Types, Calls
  <2>3. k = Len(call[p].todo) \/ k \in 1..Len(call[p].todo) - 1
    BY <2>2
  <2> QED
    BY <2>1, <2>3 DEF Stack
<1> QED
  BY <1>1, Invariance, PTL
=============================================================================
