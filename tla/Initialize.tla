-------------------------------- MODULE Initialize --------------------------------
(***************************************************************************)
(* objc-initialize.mm: +initialize of each class, once, before the class   *)
(* is used, superclasses first, while several threads message the classes, *)
(* +initialize methods message further classes, and one thread may fork.   *)
(*                                                                         *)
(* A call of initializeNonMetaClass is a frame of its thread; a +initialize *)
(* method that messages another class puts a frame on top of its own.      *)
(***************************************************************************)
EXTENDS Integers, Sequences, SequencesExt

CONSTANTS Thread,      \* the threads of the process
          Class,       \* the classes
          nil,         \* no class, no thread
          Superclass,  \* Superclass[c], nil for a root class
          Sends,       \* Sends[c]: the classes that +[c initialize] messages
          Trivial,     \* the classes with no +initialize but that of the root
          Forks        \* whether the process may fork

ASSUME NilAssumption == nil \notin Thread \cup Class
ASSUME SuperclassAssumption == Superclass \in [Class -> Class \cup {nil}]
ASSUME SendsAssumption ==
  /\ Sends \in [Class -> SUBSET Class] /\ Trivial \subseteq Class /\ Forks \in BOOLEAN
  /\ \A c \in Trivial : Sends[c] = {}

\* classHasTrivialInitialize: "Any root class +initialize implemetation is assumed to
\* be trivial."
ASSUME RootAssumption ==
  Forks => \A c \in Class : Superclass[c] = nil => Sends[c] = {}

VARIABLES
  state,          \* "uninitialized", "initializing" or "initialized": the two bits
  pending,        \* pendingInitializeMap: the subclasses that wait in it
  classInitLock,  \* the thread that holds the monitor, or nil
  finishing,      \* the classes that the holder has yet to mark in _finishInitializing
  classes,        \* per thread: _objc_initializing_classes
  stack,          \* per thread: its frames, the innermost last; each has the class
                  \* it is to initialize, cls, and the place it is at, pc
  alive,          \* the threads that exist: one after fork, in the child
  halted          \* "no", or why the process died: "refused" (the restriction on
                  \* +initialize after fork) or "fatal" (the runtime's own checks)

vars == <<state, pending, classInitLock, finishing, classes, stack, alive, halted>>

top(t) == Last(stack[t])

At(t, l) ==
  /\ halted = "no" /\ t \in alive
  /\ stack[t] # <<>> /\ top(t).pc = l

GotoIn(s, t, l) == [s EXCEPT ![t] = Append(Front(@), [Last(@) EXCEPT !.pc = l])]
Goto(t, l)      == stack' = GotoIn(stack, t, l)
Return(t)       == stack' = [stack EXCEPT ![t] = Front(@)]

MultithreadedForkChild == alive # Thread

\* Mutant: a thread that initializes any class may message all of them.
thisThreadIsInitializingAny(t, c) == classes[t] # {}

thisThreadIsInitializingClass(t, c) == c \in classes[t]

--------------------------------------------------------------------------------
(* The program: a message to a class that is not initialized *)

\* A message to an initialized class, or to one the thread is initializing, is sent.
Send(t, d) ==
  /\ halted = "no" /\ t \in alive
  /\ stack[t] # <<>> => top(t).pc = "body" /\ d \in Sends[top(t).cls]
  /\ state[d] # "initialized" /\ d \notin classes[t]
  /\ stack' = [stack EXCEPT ![t] = Append(@, [cls |-> d, pc |-> "super"])]
  /\ UNCHANGED <<state, pending, classInitLock, finishing, classes, alive, halted>>

\* The +initialize method returns or throws.
EndBody(t) ==
  /\ At(t, "body")
  /\ Goto(t, "finish")
  /\ UNCHANGED <<state, pending, classInitLock, finishing, classes, alive, halted>>

\* fork() of a process with several threads: the one that calls it is alone in the
\* child, MultithreadedForkChild, with what the others have left.
Fork(t) ==
  /\ Forks /\ ~MultithreadedForkChild
  /\ halted = "no" /\ classInitLock = nil
  /\ stack[t] # <<>> => top(t).pc = "body"
  /\ alive' = {t}
  /\ stack' = [u \in Thread |-> IF u = t THEN stack[t] ELSE <<>>]
  /\ classes' = [u \in Thread |-> IF u = t THEN classes[t] ELSE {}]
  /\ UNCHANGED <<state, pending, classInitLock, finishing, halted>>

--------------------------------------------------------------------------------
(* initializeNonMetaClass *)

\* "Make sure super is done initializing BEFORE beginning to initialize cls."
SuperFirst(t) ==
  /\ At(t, "super")
  /\ LET super == Superclass[top(t).cls] IN
     stack' = IF super # nil /\ state[super] # "initialized"
              THEN [GotoIn(stack, t, "mark") EXCEPT
                      ![t] = Append(@, [cls |-> super, pc |-> "super"])]
              ELSE GotoIn(stack, t, "mark")
  /\ UNCHANGED <<state, pending, classInitLock, finishing, classes, alive, halted>>

Mine(t, c) == classes' = [classes EXCEPT ![t] = @ \cup {c}]

\* Mutant: a class that another thread has begun is taken over.
MarkAgain(t) ==
  /\ At(t, "mark") /\ classInitLock = nil
  /\ IF state[top(t).cls] # "initialized" /\ ~thisThreadIsInitializingClass(t, top(t).cls) THEN
       /\ state' = [state EXCEPT ![top(t).cls] = "initializing"]
       /\ Mine(t, top(t).cls)
       /\ Goto(t, IF MultithreadedForkChild THEN "fork" ELSE "body")
     ELSE
       /\ Goto(t, "check_initializing")
       /\ UNCHANGED <<state, classes>>
  /\ UNCHANGED <<pending, classInitLock, finishing, alive, halted>>

\* Test and set of CLS_INITIALIZING under the lock; the list is the thread's own.
Mark(t) ==
  /\ At(t, "mark") /\ classInitLock = nil
  /\ IF state[top(t).cls] = "uninitialized" THEN
       /\ state' = [state EXCEPT ![top(t).cls] = "initializing"]
       /\ Mine(t, top(t).cls)
       /\ Goto(t, IF MultithreadedForkChild THEN "fork" ELSE "body")
     ELSE
       /\ Goto(t, "check_initializing")
       /\ UNCHANGED <<state, classes>>
  /\ UNCHANGED <<pending, classInitLock, finishing, alive, halted>>

\* The lock is free now: the class may be initialized between the two reads.
CheckInitializing(t) ==
  /\ At(t, "check_initializing")
  /\ LET c == top(t).cls IN
     IF state[c] # "initializing" THEN
       Goto(t, "check_initialized") /\ UNCHANGED classes
     ELSE IF thisThreadIsInitializingClass(t, c) THEN
       Return(t) /\ UNCHANGED classes
     ELSE IF ~MultithreadedForkChild THEN
       Goto(t, "wait") /\ UNCHANGED classes
     ELSE
       Goto(t, "fork") /\ Mine(t, c)
  /\ UNCHANGED <<state, pending, classInitLock, finishing, alive, halted>>

\* "thread-safe class init in objc runtime is buggy!"
CheckInitialized(t) ==
  /\ At(t, "check_initialized")
  /\ IF state[top(t).cls] = "initialized"
     THEN Return(t) /\ UNCHANGED halted
     ELSE halted' = "fatal" /\ UNCHANGED stack
  /\ UNCHANGED <<state, pending, classInitLock, finishing, classes, alive>>

\* waitForInitializeToComplete: a turn of its loop; wait() gives up the lock and
\* sleeps in one step.
Wait(t) ==
  /\ At(t, "wait") /\ classInitLock = nil
  /\ IF state[top(t).cls] = "initialized" THEN Return(t) ELSE Goto(t, "asleep")
  /\ UNCHANGED <<state, pending, classInitLock, finishing, classes, alive, halted>>

\* performForkChildInitialize; "Any root class +initialize implementation is assumed
\* to be trivial."
ForkChildInitialize(t) ==
  /\ At(t, "fork")
  /\ LET c == top(t).cls IN
     IF Superclass[c] = nil \/ c \in Trivial
     THEN Goto(t, "finish") /\ UNCHANGED halted
     ELSE halted' = "refused" /\ UNCHANGED stack
  /\ UNCHANGED <<state, pending, classInitLock, finishing, classes, alive>>

--------------------------------------------------------------------------------
(* lockAndFinishInitializing *)

superInitialized(c) == Superclass[c] # nil => state[Superclass[c]] = "initialized"

\* Mutant: the class is done although its superclass is not.
FinishAtOnce(t) ==
  /\ At(t, "finish") /\ classInitLock = nil
  /\ classInitLock' = t
  /\ finishing' = {top(t).cls}
  /\ Goto(t, "finishing")
  /\ UNCHANGED <<state, pending, classes, alive, halted>>

\* A class whose superclass is not done yet waits for it: _finishInitializingAfter.
Finish(t) ==
  /\ At(t, "finish") /\ classInitLock = nil
  /\ IF superInitialized(top(t).cls) THEN
       /\ classInitLock' = t
       /\ finishing' = {top(t).cls}
       /\ Goto(t, "finishing")
       /\ UNCHANGED pending
     ELSE
       /\ pending' = pending \cup {top(t).cls}
       /\ Return(t)
       /\ UNCHANGED <<classInitLock, finishing>>
  /\ UNCHANGED <<state, classes, alive, halted>>

\* notifyAll: the threads asleep look at their class again.
Woken ==
  [t \in Thread |->
     IF stack[t] # <<>> /\ top(t).pc = "asleep"
     THEN Append(Front(stack[t]), [top(t) EXCEPT !.pc = "wait"]) ELSE stack[t]]

\* Mutant: the class is marked, and nobody is told.
SetInitializedQuietly(t, c) ==
  /\ At(t, "finishing") /\ c \in finishing
  /\ state' = [state EXCEPT ![c] = "initialized"]
  /\ UNCHANGED stack
  /\ classes' = [classes EXCEPT ![t] = @ \ {c}]
  /\ halted' = IF thisThreadIsInitializingClass(t, c) THEN "no" ELSE "fatal"
  /\ finishing' = (finishing \ {c}) \cup {d \in pending : Superclass[d] = c}
  /\ pending' = {d \in pending : Superclass[d] # c}
  /\ UNCHANGED <<classInitLock, alive>>

\* _finishInitializing of one class, and then of those that waited for it;
\* "thread is not initializing this class!"
SetInitialized(t, c) ==
  /\ At(t, "finishing") /\ c \in finishing
  /\ state' = [state EXCEPT ![c] = "initialized"]
  /\ stack' = Woken
  /\ classes' = [classes EXCEPT ![t] = @ \ {c}]
  /\ halted' = IF thisThreadIsInitializingClass(t, c) THEN "no" ELSE "fatal"
  /\ finishing' = (finishing \ {c}) \cup {d \in pending : Superclass[d] = c}
  /\ pending' = {d \in pending : Superclass[d] # c}
  /\ UNCHANGED <<classInitLock, alive>>

Finished(t) ==
  /\ At(t, "finishing") /\ finishing = {}
  /\ classInitLock' = nil
  /\ Return(t)
  /\ UNCHANGED <<state, pending, finishing, classes, alive, halted>>

--------------------------------------------------------------------------------
Init ==
  /\ state = [c \in Class |-> "uninitialized"]
  /\ pending = {} /\ classInitLock = nil /\ finishing = {}
  /\ classes = [t \in Thread |-> {}]
  /\ stack = [t \in Thread |-> <<>>]
  /\ alive = Thread /\ halted = "no"

Run(t) ==
  \/ SuperFirst(t) \/ Mark(t) \/ CheckInitializing(t) \/ CheckInitialized(t) \/ Wait(t)
  \/ ForkChildInitialize(t)
  \/ EndBody(t) \/ Finish(t) \/ (\E c \in Class : SetInitialized(t, c)) \/ Finished(t)

Next ==
  \E t \in Thread :
    \/ \E d \in Class : Send(t, d)
    \/ Run(t)
    \/ Fork(t)

Spec == Init /\ [][Next]_vars

\* A thread inside the runtime, or in a +initialize method, goes on.
LiveSpec == Spec /\ \A t \in Thread : WF_vars(Run(t))

--------------------------------------------------------------------------------
(* Properties *)

\* "Only one thread is allowed to actually initialize a class and send
\* +initialize": it alone has the class in its list, the class is not done before the
\* method is, and none of the runtime's own checks of that fails.
OneInitializer ==
  /\ halted # "fatal"
  /\ \A t \in Thread :
       /\ \A u \in Thread \ {t} : classes[t] \cap classes[u] = {}
       /\ \A f \in Range(stack[t]) :
            f.pc = "body" => f.cls \in classes[t] /\ state[f.cls] = "initializing"

\* "the initializing+initialized part of the class hierarchy will be a contiguous
\* subtree starting at the root, so other threads can't jump into the middle": a
\* class is begun after its superclass, by the same thread while that is not done,
\* and done after it.
Contiguous ==
  \A c \in Class : Superclass[c] # nil =>
    /\ state[c] # "uninitialized" => state[Superclass[c]] # "uninitialized"
    /\ state[c] = "initialized" => state[Superclass[c]] = "initialized"
    /\ \A t \in alive :
         c \in classes[t] /\ state[Superclass[c]] = "initializing" => Superclass[c] \in classes[t]

\* When a message to a class gets through, the class is initialized, or it is this
\* thread that initializes it.
UsableOnReturn ==
  [][\A t \in alive' : Len(stack'[t]) < Len(stack[t]) =>
       LET c == top(t).cls IN state'[c] = "initialized" \/ c \in classes'[t]]_vars

\* Every message gets through in the end, when the messages that +initialize methods
\* send to other hierarchies make no cycle: no thread waits for a class that
\* waits for it, and none sleeps past the notification.
EveryMessageReturns ==
  \A t \in Thread : stack[t] # <<>> ~> stack[t] = <<>> \/ halted # "no"
================================================================================
