------------------------------ MODULE InitializeInv ------------------------------
(***************************************************************************)
(* The inductive invariant of Initialize: who owns a class that is being   *)
(* initialized, where each thread is with it, and why nothing that another *)
(* thread left behind at a fork is ever finished.                          *)
(***************************************************************************)
EXTENDS Initialize

Place == {"super", "mark", "check_initializing", "check_initialized", "wait", "asleep",
          "fork", "body", "finish", "finishing"}

\* Every variable has its type.
TypeOK ==
  /\ state \in [Class -> {"uninitialized", "initializing", "initialized"}]
  /\ pending \subseteq Class /\ finishing \subseteq Class
  /\ classInitLock \in Thread \cup {nil}
  /\ classes \in [Thread -> SUBSET Class]
  /\ stack \in [Thread -> Seq([cls : Class, pc : Place])]
  /\ alive \subseteq Thread
  /\ halted \in {"no", "refused", "fatal"}

\* The frame of a class that its thread initializes, until it is marked or pending.
Owner(f) == f.pc \in {"fork", "body", "finish"}

\* t has a frame in which it initializes c.
Initializes(t, c) == \E i \in DOMAIN stack[t] : Owner(stack[t][i]) /\ stack[t][i].cls = c

\* A message of t to c gets through.
Usable(t, c) == state[c] = "initialized" \/ c \in classes[t]

SuperUsable(t, c) == Superclass[c] # nil => Usable(t, Superclass[c])

\* After a fork one thread is left, and the others have left nothing of their own.
AliveInv ==
  /\ alive = Thread \/ \E t \in Thread : alive = {t}
  /\ \A t \in Thread \ alive : stack[t] = <<>> /\ classes[t] = {}

\* A class in the list of a thread is begun, not done, and in no other list; it is
\* pending, about to be marked, or the thread has a frame for it.
ClassesInv ==
  \A t \in Thread :
    /\ \A u \in Thread \ {t} : classes[t] \cap classes[u] = {}
    /\ \A c \in classes[t] :
         /\ state[c] = "initializing"
         /\ c \in pending \cup finishing \/ Initializes(t, c)

\* A frame that is not the innermost waits for the superclass, or has sent a message.
NestOK(t, i) ==
  i < Len(stack[t]) =>
    \/ stack[t][i].pc = "mark" /\ stack[t][i + 1].cls = Superclass[stack[t][i].cls]
    \/ stack[t][i].pc = "body" /\ Sends[stack[t][i].cls] # {}

NestInv == \A t \in Thread : \A i \in DOMAIN stack[t] : NestOK(t, i)

\* Once the call for the superclass has returned, the superclass is usable.
FrameOK(t, i) ==
  LET f == stack[t][i] IN
  /\ f.pc # "super" /\ (f.pc = "mark" => i = Len(stack[t])) => SuperUsable(t, f.cls)
  /\ f.pc = "fork" => MultithreadedForkChild
  /\ f.pc = "check_initializing" => state[f.cls] # "uninitialized"
  /\ f.pc = "check_initialized" => state[f.cls] = "initialized"
  /\ f.pc = "finishing" =>
       classInitLock = t /\ (f.cls \in finishing \/ state[f.cls] = "initialized")

FrameInv == \A t \in Thread : \A i \in DOMAIN stack[t] : FrameOK(t, i)

\* A thread initializes a class in one frame only, and has it in its list.
OwnerInv ==
  \A t \in Thread : \A i \in DOMAIN stack[t] :
    Owner(stack[t][i]) =>
      /\ stack[t][i].cls \in classes[t]
      /\ \A j \in DOMAIN stack[t] :
           Owner(stack[t][j]) /\ stack[t][j].cls = stack[t][i].cls => i = j

\* What is about to be marked is the lock holder's, and its superclass is done.
FinishingInv ==
  /\ classInitLock = nil => finishing = {}
  /\ classInitLock # nil =>
       /\ classInitLock \in alive /\ stack[classInitLock] # <<>>
       /\ top(classInitLock).pc = "finishing"
  /\ \A c \in finishing :
       c \in classes[classInitLock] /\ superInitialized(c) /\ ~Initializes(classInitLock, c)

\* A thread begins a class while it initializes its superclass only if the superclass
\* messages it, or is pending itself.
SendsInv ==
  \A t \in Thread : \A c \in classes[t] :
    Superclass[c] \in classes[t] =>
      Superclass[c] \in pending \cup finishing \/ Sends[Superclass[c]] # {}

\* The classes D were left behind at a fork, and will not be done in the child.
Doomed(D) ==
  /\ ~MultithreadedForkChild => D = {}
  /\ \A s \in D :
       /\ state[s] = "initializing" /\ s \notin finishing /\ Superclass[s] # nil
       /\ \/ Superclass[s] \in D
          \/ /\ s \notin Trivial \cup pending
             /\ \A t \in alive : \A i \in DOMAIN stack[t] :
                  stack[t][i].cls = s => stack[t][i].pc \notin {"body", "finish"}

\* A pending class waits for a superclass that is not done: it is in the list of the
\* thread that will finish it, or it waits for ever.
PendingInv ==
  \E D \in SUBSET Class :
    /\ Doomed(D)
    /\ \A c \in pending :
         /\ Superclass[c] # nil /\ state[Superclass[c]] # "initialized"
         /\ state[c] = "initializing"
         /\ Superclass[c] \in D \/ \E t \in alive : c \in classes[t] /\ ~Initializes(t, c)

IInv ==
  /\ TypeOK /\ AliveInv /\ ClassesInv /\ NestInv /\ FrameInv /\ OwnerInv
  /\ FinishingInv /\ SendsInv /\ Contiguous /\ PendingInv /\ halted # "fatal"
================================================================================
