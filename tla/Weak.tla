---------------------------------- MODULE Weak ----------------------------------
(***************************************************************************)
(* NSObject.mm and objc-weak.mm: __weak variables, the side tables that    *)
(* know them, and the deallocation that clears them, while other threads   *)
(* store, load, copy, move and destroy them.                               *)
(*                                                                         *)
(* A call is a frame of its thread: copyWeak and moveWeak put the calls    *)
(* they make on top of their own, and so do +initialize and -dealloc,      *)
(* which call back into the runtime.  An object is an address, and each    *)
(* object is an instance of a class of its own.                            *)
(***************************************************************************)
EXTENDS Integers, Sequences, FiniteSets, SequencesExt

CONSTANTS Thread, Object, Variable,
          nil,       \* no object, no thread
          Table,     \* the side tables: integers, the order of their addresses
          TableOf,   \* SideTables()[obj]: nil has a table too
          MaxCalls   \* bound: the calls the program makes

ASSUME NilAssumption   == nil \notin Thread \cup Object \cup Variable
ASSUME TableAssumption == Table \subseteq Int /\ TableOf \in [Object \cup {nil} -> Table]
ASSUME CallsAssumption == MaxCalls \in Nat
ASSUME RawAssumption   == "raw" \notin Object   \* what ZeroingWeak has in no weak variable

VARIABLES
  location,   \* per variable: what the storage holds
  weakVars,   \* the storage that is a __weak variable now
  referrers,  \* per object: the variables of its weak_entry_t ({}: no entry)
  lock,       \* per table: the thread that holds it, or nil
  object,     \* per object: "live", "deallocating" or "freed"
  strong,     \* per thread and object: the references the thread owns
  weakly_referenced, \* the objects with that bit in their isa
  class,      \* per object, of its class: "uninitialized", "initialized", or the
              \* thread that runs its +initialize
  stack,      \* per thread: its frames, the innermost last
  errors,     \* the calls of objc_weak_error
  calls       \* the calls made by the program (for the bound)

vars == <<location, weakVars, referrers, lock, object, strong, weakly_referenced,
          class, stack, errors, calls>>
heap == <<object, strong, weakly_referenced>>

--------------------------------------------------------------------------------
(* Frames *)

\* op: the function; pc: where it is; v: its variable; src: the source of a copy
\* or a move; new: its object; old: what it read in *location; want and held: the
\* tables it has yet to lock, and has locked; prev: previouslyInitializedClass is
\* set.
Frame(op, pc, v, src, new) ==
  [op |-> op, pc |-> pc, v |-> v, src |-> src, new |-> new, old |-> nil,
   want |-> <<>>, held |-> {}, prev |-> FALSE]

Stores == {"storeWeak", "storeWeakOrNil", "initWeak", "initWeakOrNil", "destroyWeak"}
haveOld(op) == op \in {"storeWeak", "storeWeakOrNil", "destroyWeak"}
haveNew(op) == op \in Stores \ {"destroyWeak"}

top(t)   == Last(stack[t])
At(t, l) == stack[t] # <<>> /\ top(t).pc = l

Set(t, f)      == stack' = [stack EXCEPT ![t] = Append(Front(@), f)]
Goto(t, l)     == Set(t, [top(t) EXCEPT !.pc = l])
Return(t)      == stack' = [stack EXCEPT ![t] = Front(@)]
Enter(t, l, f) == stack' = [stack EXCEPT ![t] =
                     Front(@) \o <<[Last(@) EXCEPT !.pc = l], f>>]

\* Storage some call is at work on; that of a move is under the exclusive use of
\* the move, and so is the destination of a copy, or what is initialized or destroyed.
Uses(t, v) == \E i \in DOMAIN stack[t] : v \in {stack[t][i].v, stack[t][i].src}
Owns(t, v) == \E i \in DOMAIN stack[t] :
  LET f == stack[t][i] IN
  \/ f.v = v /\ f.op \in {"initWeak", "initWeakOrNil", "destroyWeak", "copyWeak", "moveWeak"}
  \/ f.src = v /\ f.op = "moveWeak"
Idle(v)   == \A t \in Thread : ~Uses(t, v)
Shared(v) == \A t \in Thread : ~Owns(t, v)

--------------------------------------------------------------------------------
(* Side tables *)

\* Mutant: the old value's table is locked first, whatever the addresses.
lockTwoAsGiven(a, b) == IF a = b THEN <<a>> ELSE <<a, b>>

lockTwo(a, b) == IF a = b THEN <<a>> ELSE IF a < b THEN <<a, b>> ELSE <<b, a>>

\* The locks of f, which has just read old.
Tables(f, old) ==
  IF haveOld(f.op) /\ haveNew(f.op) THEN lockTwo(TableOf[old], TableOf[f.new])
  ELSE IF haveNew(f.op) THEN <<TableOf[f.new]>> ELSE <<TableOf[old]>>

\* table->lock(), one at a time.
Lock(t) ==
  /\ stack[t] # <<>> /\ top(t).want # <<>>
  /\ LET f == top(t)
         n == Head(f.want) IN
     /\ lock[n] = nil
     /\ lock' = [lock EXCEPT ![n] = t]
     /\ Set(t, [f EXCEPT !.want = Tail(f.want), !.held = @ \cup {n}])
  /\ UNCHANGED <<location, weakVars, referrers, heap, class, errors, calls>>

Locked(t, l) == At(t, l) /\ top(t).want = <<>>
unlock(t)    == lock' = [n \in Table |-> IF n \in top(t).held THEN nil ELSE lock[n]]

--------------------------------------------------------------------------------
(* storeWeak, in its five forms *)

\* objc_initWeak of nil is a plain store; the others read *location with no lock.
Read(t) ==
  /\ At(t, "read") /\ top(t).op \in Stores
  /\ LET f == top(t) IN
     IF ~haveOld(f.op) /\ f.new = nil
     THEN /\ location' = [location EXCEPT ![f.v] = nil]
          /\ weakVars' = weakVars \cup {f.v}
          /\ Return(t)
     ELSE /\ Set(t, [f EXCEPT !.old = location[f.v], !.pc = "store",
                              !.want = Tables(f, location[f.v])])
          /\ UNCHANGED <<location, weakVars>>
  /\ UNCHANGED <<referrers, lock, heap, class, errors, calls>>

\* Mutant: the locks are those of the value first read, right or wrong.
ChangedNever(f) == FALSE

\* The old value has changed underneath us.
Changed(f) == haveOld(f.op) /\ location[f.v] # f.old

\* The new value's class has not been initialized, as far as is known.
IsUninitialized(t, f) == f.new # nil /\ ~f.prev /\ class[f.new] # "initialized"

StoreRetry(t) ==
  /\ Locked(t, "store") /\ Changed(top(t))
  /\ unlock(t)
  /\ Set(t, [top(t) EXCEPT !.held = {}, !.pc = "read"])
  /\ UNCHANGED <<location, weakVars, referrers, heap, class, errors, calls>>

StoreInitializes(t) ==
  /\ Locked(t, "store") /\ ~Changed(top(t)) /\ IsUninitialized(t, top(t))
  /\ unlock(t)
  /\ Set(t, [top(t) EXCEPT !.held = {}, !.pc = "class_initialize", !.old = top(t).new])
  /\ UNCHANGED <<location, weakVars, referrers, heap, class, errors, calls>>

\* weak_unregister_no_lock: an entry that does not know the variable complains;
\* no entry at all does not.
Unregister(v, old) == IF old = nil THEN referrers ELSE [referrers EXCEPT ![old] = @ \ {v}]
Complains(v, old)  == old # nil /\ referrers[old] # {} /\ v \notin referrers[old]

\* weak_register_no_lock: no new reference to what is deallocating (storeWeak and
\* initWeak are fatal then, which is the caller's fault).
Registered(f) == IF f.new # nil /\ object[f.new] # "live" THEN nil ELSE f.new

\* The value stored; destroyWeak leaves the storage as it is.
Store(t) ==
  /\ Locked(t, "store") /\ ~Changed(top(t))
  /\ haveNew(top(t).op) => ~IsUninitialized(t, top(t))
  /\ LET f   == top(t)
         new == Registered(f)
         r   == IF haveOld(f.op) THEN Unregister(f.v, f.old) ELSE referrers IN
     /\ errors' = IF haveOld(f.op) /\ Complains(f.v, f.old) THEN errors + 1 ELSE errors
     /\ IF haveNew(f.op)
        THEN /\ referrers' = IF new = nil THEN r ELSE [r EXCEPT ![new] = @ \cup {f.v}]
             /\ weakly_referenced' = weakly_referenced \cup ({new} \ {nil})
             /\ location' = [location EXCEPT ![f.v] = new]
             /\ weakVars' = weakVars \cup {f.v}
        ELSE /\ referrers' = r
             /\ weakVars' = weakVars \ {f.v}
             /\ UNCHANGED <<weakly_referenced, location>>
  /\ unlock(t)
  /\ Return(t)
  /\ UNCHANGED <<object, strong, class, calls>>

--------------------------------------------------------------------------------
(* class_initialize, called with no table locked *)

\* The class of f.old: run its +initialize, wait for the thread that does, or go on
\* if that is this thread.
ClassInitialize(t) ==
  /\ At(t, "class_initialize")
  /\ LET f == top(t) IN
     \/ /\ class[f.old] = "uninitialized"
        /\ class' = [class EXCEPT ![f.old] = t]
        /\ Enter(t, "class_initialize", Frame("initialize", "body", nil, nil, f.old))
     \/ /\ class[f.old] \in {"initialized", t}
        /\ Set(t, [f EXCEPT !.pc = "read", !.prev = TRUE])
        /\ UNCHANGED class
  /\ UNCHANGED <<location, weakVars, referrers, lock, heap, errors, calls>>

\* The method may store a weak reference to an instance of its own class.
InitializeBody(t) ==
  /\ At(t, "body") /\ top(t).op = "initialize"
  /\ \/ /\ Goto(t, "done")
     \/ \E v \in weakVars :
          /\ Shared(v)
          /\ Enter(t, "done", Frame("storeWeak", "read", v, nil, top(t).new))
  /\ UNCHANGED <<location, weakVars, referrers, lock, heap, class, errors, calls>>

InitializeDone(t) ==
  /\ At(t, "done")
  /\ class' = [class EXCEPT ![top(t).new] = "initialized"]
  /\ Return(t)
  /\ UNCHANGED <<location, weakVars, referrers, lock, heap, errors, calls>>

--------------------------------------------------------------------------------
(* objc_loadWeakRetained *)

\* To the copy or move that called it, if one did.
LoadReturns(t, o) == stack' = [stack EXCEPT ![t] =
  LET rest == Front(@) IN
  IF rest = <<>> THEN rest ELSE Append(Front(rest), [Last(rest) EXCEPT !.new = o])]

LoadRead(t) ==
  /\ At(t, "read") /\ top(t).op = "loadWeakRetained"
  /\ LET f == top(t)
         o == location[f.v] IN
     IF o = nil THEN LoadReturns(t, nil)
     ELSE Set(t, [f EXCEPT !.old = o, !.pc = "load", !.want = <<TableOf[o]>>])
  /\ UNCHANGED <<location, weakVars, referrers, lock, heap, class, errors, calls>>

tryRetain(o) == object[o] = "live"

\* A class that is not initialized has no default retain and release yet: it is
\* initialized first, with the table unlocked.
Load(t) ==
  /\ Locked(t, "load")
  /\ LET f == top(t)
         o == f.old IN
     IF location[f.v] # o
     THEN Set(t, [f EXCEPT !.held = {}, !.pc = "read"]) /\ UNCHANGED strong
     ELSE IF class[o] \notin {"initialized", t}
     THEN Set(t, [f EXCEPT !.held = {}, !.pc = "class_initialize"]) /\ UNCHANGED strong
     ELSE /\ LoadReturns(t, IF tryRetain(o) THEN o ELSE nil)
          /\ strong' = IF tryRetain(o) THEN [strong EXCEPT ![t][o] = @ + 1] ELSE strong
  /\ unlock(t)
  /\ UNCHANGED <<location, weakVars, referrers, object, weakly_referenced, class, errors,
                 calls>>

--------------------------------------------------------------------------------
(* objc_release, and the deallocation that ends in clearDeallocating *)

Unowned(s, o) == \A t \in Thread : s[t][o] = 0

\* One reference of t to o goes; the last one deallocates it, on top of the frames fs.
Released(t, o, fs) ==
  /\ strong' = [strong EXCEPT ![t][o] = @ - 1]
  /\ LET last == Unowned(strong', o) IN
     /\ object' = IF last THEN [object EXCEPT ![o] = "deallocating"] ELSE object
     /\ stack' = [stack EXCEPT ![t] =
          IF last THEN Append(fs, Frame("dealloc", "body", nil, nil, o)) ELSE fs]

\* -dealloc may try to store a weak reference to self.
DeallocBody(t) ==
  /\ At(t, "body") /\ top(t).op = "dealloc"
  /\ \/ Goto(t, "rootDealloc")
     \/ \E v \in weakVars :
          /\ Shared(v)
          /\ Enter(t, "rootDealloc", Frame("storeWeakOrNil", "read", v, nil, top(t).new))
  /\ UNCHANGED <<location, weakVars, referrers, lock, heap, class, errors, calls>>

\* An object that was never weakly referenced is freed at once.
rootDealloc(t) ==
  /\ At(t, "rootDealloc")
  /\ LET f == top(t) IN
     IF f.new \in weakly_referenced
     THEN Set(t, [f EXCEPT !.pc = "clear", !.want = <<TableOf[f.new]>>])
     ELSE Goto(t, "free")
  /\ UNCHANGED <<location, weakVars, referrers, lock, heap, class, errors, calls>>

\* Mutant: the entry goes, and the variables stay as they are.
clearDeallocatingKeeps(t) ==
  /\ Locked(t, "clear")
  /\ referrers' = [referrers EXCEPT ![top(t).new] = {}]
  /\ unlock(t)
  /\ Set(t, [top(t) EXCEPT !.held = {}, !.pc = "free"])
  /\ UNCHANGED <<location, errors, weakVars, heap, class, calls>>

\* weak_clear_no_lock, and the entry goes.
clearDeallocating(t) ==
  /\ Locked(t, "clear")
  /\ LET o     == top(t).new
         wrong == {v \in referrers[o] : location[v] \notin {o, nil}} IN
     /\ location' = [v \in Variable |-> IF v \in referrers[o] \ wrong THEN nil ELSE location[v]]
     /\ errors' = errors + Cardinality(wrong)
     /\ referrers' = [referrers EXCEPT ![o] = {}]
  /\ unlock(t)
  /\ Set(t, [top(t) EXCEPT !.held = {}, !.pc = "free"])
  /\ UNCHANGED <<weakVars, heap, class, calls>>

Free(t) ==
  /\ At(t, "free")
  /\ object' = [object EXCEPT ![top(t).new] = "freed"]
  /\ Return(t)
  /\ UNCHANGED <<location, weakVars, referrers, lock, strong, weakly_referenced, class,
                 errors, calls>>

--------------------------------------------------------------------------------
(* objc_copyWeak, objc_moveWeak *)

CopyInit(t) ==
  /\ At(t, "init")
  /\ Enter(t, "release", Frame("initWeak", "read", top(t).v, nil, top(t).new))
  /\ UNCHANGED <<location, weakVars, referrers, lock, heap, class, errors, calls>>

\* A move goes on to destroy the source.
CopyRelease(t) ==
  /\ At(t, "release")
  /\ LET f    == top(t)
         rest == IF f.op = "copyWeak" THEN Front(stack[t])
                 ELSE Append(Front(stack[t]), [f EXCEPT !.pc = "destroy"]) IN
     IF f.new = nil THEN stack' = [stack EXCEPT ![t] = rest] /\ UNCHANGED <<object, strong>>
     ELSE Released(t, f.new, rest)
  /\ UNCHANGED <<location, weakVars, referrers, lock, weakly_referenced, class, errors,
                 calls>>

MoveDestroy(t) ==
  /\ At(t, "destroy")
  /\ Enter(t, "nil", Frame("destroyWeak", "read", top(t).src, nil, nil))
  /\ UNCHANGED <<location, weakVars, referrers, lock, heap, class, errors, calls>>

MoveNil(t) ==
  /\ At(t, "nil")
  /\ location' = [location EXCEPT ![top(t).src] = nil]
  /\ weakVars' = weakVars \cup {top(t).src}
  /\ Return(t)
  /\ UNCHANGED <<referrers, lock, heap, class, errors, calls>>

--------------------------------------------------------------------------------
(* The program *)

\* Whoever stores an object owns a reference to it, and initializing, destroying,
\* copying to and moving are not thread-safe (NSObject.mm:398-399 and the like).
Call(t) ==
  /\ stack[t] = <<>> /\ calls < MaxCalls
  /\ calls' = calls + 1
  /\ \E v \in Variable, o \in Object \cup {nil}, op \in Stores \cup {"loadWeakRetained"} :
       /\ o # nil => haveNew(op) /\ strong[t][o] > 0
       /\ v \in weakVars <=> op \notin {"initWeak", "initWeakOrNil"}
       /\ IF op \in {"storeWeak", "storeWeakOrNil", "loadWeakRetained"} THEN Shared(v) ELSE Idle(v)
       /\ stack' = [stack EXCEPT ![t] = <<Frame(op, "read", v, nil, o)>>]
  /\ UNCHANGED <<location, weakVars, referrers, lock, heap, class, errors>>

CallCopy(t) ==
  /\ stack[t] = <<>> /\ calls < MaxCalls
  /\ calls' = calls + 1
  /\ \E dst \in Variable \ weakVars, src \in weakVars, op \in {"copyWeak", "moveWeak"} :
       /\ Idle(dst) /\ IF op = "moveWeak" THEN Idle(src) ELSE Shared(src)
       /\ stack' = [stack EXCEPT ![t] =
            <<Frame(op, "init", dst, src, nil), Frame("loadWeakRetained", "read", src, nil, nil)>>]
  /\ UNCHANGED <<location, weakVars, referrers, lock, heap, class, errors>>

Release(t, o) ==
  /\ stack[t] = <<>> /\ strong[t][o] > 0 /\ calls < MaxCalls
  /\ calls' = calls + 1
  /\ Released(t, o, <<>>)
  /\ UNCHANGED <<location, weakVars, referrers, lock, weakly_referenced, class, errors>>

\* The memory of an object that was freed is the next one's.
Alloc(t, o) ==
  /\ stack[t] = <<>> /\ object[o] = "freed" /\ calls < MaxCalls
  /\ calls' = calls + 1
  /\ object' = [object EXCEPT ![o] = "live"]
  /\ strong' = [strong EXCEPT ![t][o] = 1]
  /\ weakly_referenced' = weakly_referenced \ {o}
  /\ UNCHANGED <<location, weakVars, referrers, lock, class, stack, errors>>

--------------------------------------------------------------------------------

\* Somebody owns each object, and what is weakly referenced has its class initialized.
Init ==
  /\ weakVars \in SUBSET Variable
  /\ location \in [Variable -> Object \cup {nil}]
  /\ \A v \in Variable \ weakVars : location[v] = nil
  /\ referrers = [o \in Object |-> {v \in Variable : location[v] = o}]
  /\ lock = [n \in Table |-> nil]
  /\ object = [o \in Object |-> "live"]
  /\ strong \in [Thread -> [Object -> 0..1]]
  /\ \A o \in Object : ~Unowned(strong, o)
  /\ weakly_referenced = {o \in Object : referrers[o] # {}}
  /\ class \in [Object -> {"uninitialized", "initialized"}]
  /\ \A o \in weakly_referenced : class[o] = "initialized"
  /\ stack = [t \in Thread |-> <<>>]
  /\ errors = 0 /\ calls = 0

Step(t) ==
  \/ Lock(t) \/ Read(t) \/ StoreRetry(t) \/ StoreInitializes(t) \/ Store(t)
  \/ ClassInitialize(t) \/ InitializeBody(t) \/ InitializeDone(t)
  \/ LoadRead(t) \/ Load(t)
  \/ DeallocBody(t) \/ rootDealloc(t) \/ clearDeallocating(t) \/ Free(t)
  \/ CopyInit(t) \/ CopyRelease(t) \/ MoveDestroy(t) \/ MoveNil(t)

Next == \E t \in Thread :
  Step(t) \/ Call(t) \/ CallCopy(t) \/ \E o \in Object : Release(t, o) \/ Alloc(t, o)

\* Every thread that is inside the runtime runs; whether the program calls is its choice.
Spec == Init /\ [][Next]_vars /\ \A t \in Thread : WF_vars(Step(t))

--------------------------------------------------------------------------------
(* Properties *)

\* The table and the variables agree: outside of the lock of an object's table, the
\* entry of the object is the set of the variables that hold it, and objc_weak_error
\* is never called (objc-weak.mm, "Attempted to unregister unknown __weak variable").
EntriesExact ==
  /\ errors = 0
  /\ \A o \in Object : lock[TableOf[o]] = nil =>
       referrers[o] = {v \in weakVars : location[v] = o}

\* Every call returns: the locks are taken in an order that has no cycle, the retry
\* loops end, and +initialize is neither waited for with a table locked nor run
\* again and again (NSObject.mm:305-306).
EveryCallReturns == \A t \in Thread : (stack[t] # <<>>) ~> (stack[t] = <<>>)

\* A weak variable, seen by the program: one that still holds an object that is
\* deallocating counts as nil.
Value == [v \in Variable |->
  IF v \notin weakVars THEN "raw"
  ELSE IF location[v] # nil /\ object[location[v]] # "live" THEN nil
  ELSE location[v]]

\* Weak variables are those of ZeroingWeak.
Z == INSTANCE ZeroingWeak WITH
  raw <- "raw", value <- Value, freed <- {o \in Object : object[o] = "freed"}

Implements == Z!Spec
================================================================================
