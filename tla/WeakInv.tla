-------------------------------- MODULE WeakInv --------------------------------
(***************************************************************************)
(* The inductive invariant of Weak: what a frame relies on about its       *)
(* variables, its object and its locks while the other threads run.        *)
(***************************************************************************)
EXTENDS Weak

Copies == {"copyWeak", "moveWeak"}
Inits  == {"initWeak", "initWeakOrNil"}
OpType == Stores \cup Copies \cup {"loadWeakRetained", "initialize", "dealloc"}

PcType ==
  {"read", "store", "class_initialize", "load", "body", "done", "rootDealloc", "clear", "free",
   "init", "release", "destroy", "nil"}

\* Where a function may be.
PcsOf(op) ==
  IF op \in Stores THEN {"read", "store", "class_initialize"}
  ELSE IF op = "loadWeakRetained" THEN {"read", "load", "class_initialize"}
  ELSE IF op = "initialize" THEN {"body", "done"}
  ELSE IF op = "dealloc" THEN {"body", "rootDealloc", "clear", "free"}
  ELSE IF op = "copyWeak" THEN {"init", "release"} ELSE {"init", "release", "destroy", "nil"}

FrameType ==
  [op : OpType, pc : PcType, v : Variable \cup {nil}, src : Variable \cup {nil},
   new : Object \cup {nil}, old : Object \cup {nil}, want : Seq(Table), held : SUBSET Table,
   prev : BOOLEAN]

TypeInv ==
  /\ location \in [Variable -> Object \cup {nil}]
  /\ weakVars \in SUBSET Variable
  /\ referrers \in [Object -> SUBSET Variable]
  /\ lock \in [Table -> Thread \cup {nil}]
  /\ object \in [Object -> {"live", "deallocating", "freed"}]
  /\ strong \in [Thread -> [Object -> Nat]]
  /\ weakly_referenced \in SUBSET Object
  /\ class \in [Object -> Thread \cup {"uninitialized", "initialized"}]
  /\ stack \in [Thread -> Seq(FrameType)]
  /\ errors = 0 /\ calls \in Nat

--------------------------------------------------------------------------------
(* One frame *)

\* Its variables are storage, and its pc a place in its function.
FormOK(f) ==
  /\ f.pc \in PcsOf(f.op)
  /\ f.op \in {"initialize", "dealloc"} => f.v = nil
  /\ f.op \notin {"initialize", "dealloc"} => f.v \in Variable
  /\ f.op \notin Copies => f.src = nil
  /\ f.op \in Copies => f.src \in Variable /\ f.src # f.v
  /\ f.pc \in {"load", "class_initialize"} => f.old # nil
  /\ f.want # <<>> => f.pc \in {"store", "load", "clear"}
  /\ f.op \in {"initialize", "dealloc"} => f.new # nil

\* Its variable is, or is not yet, a weak variable; a copy at its init has not
\* initialized the destination, and a move has the source until it destroys it.
VarOK(f) ==
  /\ f.op \in {"storeWeak", "storeWeakOrNil", "destroyWeak", "loadWeakRetained"} => f.v \in weakVars
  /\ f.op \in Inits => f.v \notin weakVars
  /\ f.pc = "init" => f.v \notin weakVars
  /\ f.op = "copyWeak" \/ f.pc \in {"init", "release", "destroy"} => f.src \in weakVars

\* A deallocation has its object to itself, and frees it when no entry is left.
ObjectOK(f) ==
  f.op = "dealloc" => /\ object[f.new] = "deallocating"
                      /\ f.pc = "free" => referrers[f.new] = {}

\* A copy or move owns what it has loaded.
CopyOK(t, f) == f.pc \in {"init", "release"} /\ f.new # nil => strong[t][f.new] > 0

GoodFrame(t, f) == FormOK(f) /\ VarOK(f) /\ ObjectOK(f) /\ CopyOK(t, f)

--------------------------------------------------------------------------------
(* The frames of a thread *)

\* Only a copy or move is the first of two calls of the program, and where it is
\* tells what is above it.
KinOK(s) ==
  /\ \A i \in DOMAIN s : /\ s[i].op \in Copies => i = 1
                         /\ s[i].op = "loadWeakRetained" /\ i > 1 =>
                              i = 2 /\ s[1].op \in Copies /\ s[1].pc = "init"
  /\ Len(s) > 1 /\ s[1].op \in Copies =>
       \/ s[1].pc = "init"    /\ s[2].op = "loadWeakRetained" /\ s[2].v = s[1].src
       \/ s[1].pc = "release" /\ s[2].op = "initWeak"         /\ s[2].v = s[1].v
       \/ s[1].pc = "destroy" /\ s[2].op = "dealloc"
       \/ s[1].pc = "nil"     /\ s[2].op = "destroyWeak"      /\ s[2].v = s[1].src

\* A move that has destroyed its source is about to make it nil.
NilOK(s) == Len(s) = 1 /\ s[1].pc = "nil" => s[1].src \notin weakVars

FramesInv ==
  \A t \in Thread :
    /\ KinOK(stack[t]) /\ NilOK(stack[t])
    /\ \A i \in DOMAIN stack[t] : GoodFrame(t, stack[t][i])

--------------------------------------------------------------------------------
(* The frames of all threads *)

UsesOf(f) == {f.v, f.src} \ {nil}
OwnsOf(f) ==
  IF f.op = "moveWeak" THEN {f.v, f.src}
  ELSE IF f.op \in Inits \cup {"destroyWeak", "copyWeak"} THEN {f.v} ELSE {}

\* Frames i and j of stack s: a copy or move, and the call it is in.
Kin(s, i, j) == s[1].op \in Copies /\ i \in 1..2 /\ j \in 1..2

\* No call but a copy's own is at work on what a call owns.
ExclusiveInv ==
  \A t, u \in Thread : \A i \in DOMAIN stack[t], j \in DOMAIN stack[u] :
    OwnsOf(stack[t][i]) \cap UsesOf(stack[u][j]) # {} =>
      t = u /\ (i = j \/ Kin(stack[t], i, j))

OneDeallocInv ==
  \A t, u \in Thread : \A i \in DOMAIN stack[t], j \in DOMAIN stack[u] :
    /\ stack[t][i].op = "dealloc" /\ stack[u][j].op = "dealloc"
    /\ stack[t][i].new = stack[u][j].new
    => t = u /\ i = j

--------------------------------------------------------------------------------
(* Objects and their entries *)

\* An object lives as long as somebody owns a reference to it.
OwnedInv == \A o \in Object : object[o] = "live" <=> \E t \in Thread : strong[t][o] > 0

EntryInv ==
  \A o \in Object :
    /\ referrers[o] = {v \in weakVars : location[v] = o}
    /\ referrers[o] # {} => o \in weakly_referenced /\ object[o] # "freed"

IInv ==
  /\ TypeInv /\ FramesInv /\ ExclusiveInv /\ OneDeallocInv /\ OwnedInv /\ EntryInv

================================================================================
