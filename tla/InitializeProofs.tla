----------------------------- MODULE InitializeProofs -----------------------------
(***************************************************************************)
(* Initialize, proved for any threads, classes, messages and fork.         *)
(***************************************************************************)
EXTENDS InitializeInv, SequenceTheorems, TLAPS

FrameSet == [cls : Class, pc : Place]

\* The stacks of the other threads stay.
OthersStay(t) ==
  stack' \in [Thread -> Seq(FrameSet)] /\ \A u \in Thread \ {t} : stack'[u] = stack[u]

\* The innermost frame of t becomes f.
Replaces(t, f) ==
  /\ OthersStay(t) /\ Len(stack'[t]) = Len(stack[t])
  /\ \A i \in 1 .. Len(stack[t]) - 1 : stack'[t][i] = stack[t][i]
  /\ stack'[t][Len(stack[t])] = f

Pops(t) ==
  /\ OthersStay(t) /\ Len(stack'[t]) = Len(stack[t]) - 1
  /\ \A i \in 1 .. Len(stack[t]) - 1 : stack'[t][i] = stack[t][i]

Pushes(t, f) ==
  /\ OthersStay(t) /\ Len(stack'[t]) = Len(stack[t]) + 1
  /\ \A i \in 1 .. Len(stack[t]) : stack'[t][i] = stack[t][i]
  /\ stack'[t][Len(stack[t]) + 1] = f

\* The innermost frame of a thread.
LEMMA TopFrame ==
  ASSUME TypeOK, NEW t \in Thread, stack[t] # <<>>
  PROVE  /\ stack[t] \in Seq(FrameSet) /\ Len(stack[t]) \in Nat \ {0}
         /\ DOMAIN stack[t] = 1 .. Len(stack[t])
         /\ top(t) = stack[t][Len(stack[t])] /\ top(t) \in FrameSet
         /\ top(t).cls \in Class /\ top(t).pc \in Place
<1>1. stack[t] \in Seq(FrameSet)
  BY DEF TypeOK, FrameSet
<1>2. Len(stack[t]) \in Nat \ {0} /\ DOMAIN stack[t] = 1 .. Len(stack[t])
  BY <1>1
<1>3. top(t) = stack[t][Len(stack[t])]
  BY DEF top, Last
<1>4. stack[t][Len(stack[t])] \in FrameSet
  BY <1>1, <1>2
<1> QED BY <1>1, <1>2, <1>3, <1>4 DEF FrameSet

\* A sequence without its last element, and with another one in its place.
LEMMA FrontEffect ==
  ASSUME NEW S, NEW s \in Seq(S), s # <<>>
  PROVE  /\ Front(s) \in Seq(S) /\ Len(Front(s)) = Len(s) - 1
         /\ \A i \in 1 .. Len(s) - 1 : Front(s)[i] = s[i]
<1> DEFINE n == Len(s) - 1
<1>1. n \in Nat /\ 1 \in Int /\ n \in Int /\ \A i \in 1 .. n : s[i] \in S
  OBVIOUS
<1>2. n = Len(s) - 1 /\ Front(s) = SubSeq(s, 1, n)
  BY DEF Front
<1> HIDE DEF n
<1>3. /\ SubSeq(s, 1, n) \in Seq(S)
      /\ Len(SubSeq(s, 1, n)) = IF 1 <= n THEN n - 1 + 1 ELSE 0
      /\ \A i \in 1 .. n - 1 + 1 : SubSeq(s, 1, n)[i] = s[1 + i - 1]
  BY <1>1, SubSeqProperties
<1>4. n - 1 + 1 = n /\ \A i \in 1 .. n : 1 + i - 1 = i
  BY <1>1
<1> QED BY <1>1, <1>2, <1>3, <1>4

\* GotoIn changes the place of the innermost frame.
LEMMA GotoSeq ==
  ASSUME TypeOK, NEW t \in Thread, stack[t] # <<>>, NEW l \in Place
  PROVE  LET g == GotoIn(stack, t, l)
             n == Len(stack[t]) IN
         /\ g \in [Thread -> Seq(FrameSet)] /\ \A u \in Thread \ {t} : g[u] = stack[u]
         /\ Len(g[t]) = n /\ \A i \in 1 .. n - 1 : g[t][i] = stack[t][i]
         /\ g[t][n] = [cls |-> top(t).cls, pc |-> l]
<1> DEFINE f == [cls |-> top(t).cls, pc |-> l]
           s == Front(stack[t])
<1>1. f \in FrameSet /\ [top(t) EXCEPT !.pc = l] = f
  BY TopFrame DEF FrameSet
<1>2. s \in Seq(FrameSet) /\ Len(s) = Len(stack[t]) - 1
      /\ \A i \in 1 .. Len(stack[t]) - 1 : s[i] = stack[t][i]
  BY TopFrame, FrontEffect
<1>3. stack \in [Thread -> Seq(FrameSet)]
  BY DEF TypeOK, FrameSet
<1>4. GotoIn(stack, t, l) = [stack EXCEPT ![t] = Append(s, f)]
  BY <1>1 DEF GotoIn, top
<1>5. Len(stack[t]) \in Nat \ {0}
  BY TopFrame
<1> HIDE DEF f, s
<1>6. /\ Append(s, f) \in Seq(FrameSet) /\ Len(Append(s, f)) = Len(stack[t])
      /\ \A i \in 1 .. Len(stack[t]) - 1 : Append(s, f)[i] = stack[t][i]
      /\ Append(s, f)[Len(stack[t])] = f
  BY <1>1, <1>2, <1>5
<1> QED BY <1>3, <1>4, <1>6 DEF f

\* Goto, as an action.
LEMMA GotoEffect ==
  ASSUME TypeOK, NEW t \in Thread, stack[t] # <<>>, NEW l \in Place,
         stack' = GotoIn(stack, t, l)
  PROVE  Replaces(t, [cls |-> top(t).cls, pc |-> l])
BY GotoSeq DEF Replaces, OthersStay

\* Return ends the innermost frame.
LEMMA ReturnEffect ==
  ASSUME TypeOK, NEW t \in Thread, stack[t] # <<>>, Return(t) PROVE Pops(t)
<1>1. /\ Front(stack[t]) \in Seq(FrameSet) /\ Len(Front(stack[t])) = Len(stack[t]) - 1
      /\ \A i \in 1 .. Len(stack[t]) - 1 : Front(stack[t])[i] = stack[t][i]
  BY TopFrame, FrontEffect
<1>2. stack \in [Thread -> Seq(FrameSet)]
  BY DEF TypeOK, FrameSet
<1> QED BY <1>1, <1>2 DEF Return, Pops, OthersStay

\* A message puts a frame on top.
LEMMA PushEffect ==
  ASSUME TypeOK, NEW t \in Thread, NEW f \in FrameSet,
         stack' = [stack EXCEPT ![t] = Append(@, f)]
  PROVE  Pushes(t, f)
<1>1. stack \in [Thread -> Seq(FrameSet)]
  BY DEF TypeOK, FrameSet
<1>2. stack[t] \in Seq(FrameSet)
  BY <1>1
<1>3. /\ Append(stack[t], f) \in Seq(FrameSet) /\ Len(Append(stack[t], f)) = Len(stack[t]) + 1
      /\ \A i \in 1 .. Len(stack[t]) : Append(stack[t], f)[i] = stack[t][i]
      /\ Append(stack[t], f)[Len(stack[t]) + 1] = f
  BY <1>2
<1> QED BY <1>1, <1>3 DEF Pushes, OthersStay

\* What SuperFirst does: the innermost frame waits for the superclass, on top of it.
LEMMA SuperFirstEffect ==
  ASSUME TypeOK, NEW t \in Thread, SuperFirst(t)
  PROVE  LET c == top(t).cls
             s == Superclass[top(t).cls]
             n == Len(stack[t]) IN
         /\ OthersStay(t)
         /\ \A i \in 1 .. n - 1 : stack'[t][i] = stack[t][i]
         /\ stack'[t][n] = [cls |-> c, pc |-> "mark"]
         /\ \/ (s # nil => state[s] = "initialized") /\ Len(stack'[t]) = n
            \/ /\ s # nil /\ Len(stack'[t]) = n + 1
               /\ stack'[t][n + 1] = [cls |-> s, pc |-> "super"]
<1> DEFINE s == Superclass[top(t).cls]
           n == Len(stack[t])
           g == GotoIn(stack, t, "mark")
           f == [cls |-> s, pc |-> "super"]
<1>0. stack[t] # <<>> /\ "mark" \in Place
  BY DEF SuperFirst, At, Place
<1>1. n \in Nat \ {0} /\ top(t).cls \in Class
  BY <1>0, TopFrame
<1>2. CASE stack' = g /\ (s # nil => state[s] = "initialized")
  <2>1. Replaces(t, [cls |-> top(t).cls, pc |-> "mark"])
    BY <1>0, <1>2, GotoEffect
  <2> QED BY <1>2, <2>1 DEF Replaces
<1>3. CASE s # nil /\ stack' = [g EXCEPT ![t] = Append(@, f)]
  <2>1. f \in FrameSet
    BY <1>1, <1>3, SuperclassAssumption DEF FrameSet, Place
  <2>2. /\ g \in [Thread -> Seq(FrameSet)] /\ \A u \in Thread \ {t} : g[u] = stack[u]
        /\ Len(g[t]) = n /\ \A i \in 1 .. n - 1 : g[t][i] = stack[t][i]
        /\ g[t][n] = [cls |-> top(t).cls, pc |-> "mark"]
    BY <1>0, GotoSeq
  <2> HIDE DEF g, f, n
  <2>3. /\ Append(g[t], f) \in Seq(FrameSet) /\ Len(Append(g[t], f)) = n + 1
        /\ \A i \in 1 .. n : Append(g[t], f)[i] = g[t][i]
        /\ Append(g[t], f)[n + 1] = f
    BY <2>1, <2>2
  <2>4. /\ stack' \in [Thread -> Seq(FrameSet)] /\ \A u \in Thread \ {t} : stack'[u] = stack[u]
        /\ stack'[t] = Append(g[t], f)
    BY <1>3, <2>2, <2>3
  <2>5. /\ Len(stack'[t]) = n + 1 /\ stack'[t][n + 1] = f
        /\ stack'[t][n] = [cls |-> top(t).cls, pc |-> "mark"]
        /\ \A i \in 1 .. n - 1 : stack'[t][i] = stack[t][i]
    BY <1>1, <2>2, <2>3, <2>4
  <2> QED BY <1>3, <2>4, <2>5 DEF OthersStay, n, f
<1> QED BY <1>2, <1>3 DEF SuperFirst

\* notifyAll: each thread that is asleep goes on to look at its class.
LEMMA WokenEffect ==
  ASSUME TypeOK, NEW t \in Thread
  PROVE  /\ Woken \in [Thread -> Seq(FrameSet)] /\ Len(Woken[t]) = Len(stack[t])
         /\ \A i \in 1 .. Len(stack[t]) :
              /\ Woken[t][i].cls = stack[t][i].cls
              /\ \/ Woken[t][i].pc = stack[t][i].pc
                 \/ /\ i = Len(stack[t])
                    /\ stack[t][i].pc = "asleep" /\ Woken[t][i].pc = "wait"
<1> DEFINE W(u) == Append(Front(stack[u]), [top(u) EXCEPT !.pc = "wait"])
<1>1. ASSUME NEW u \in Thread, stack[u] # <<>>, top(u).pc = "asleep"
      PROVE  /\ W(u) \in Seq(FrameSet) /\ Len(W(u)) = Len(stack[u])
             /\ \A i \in 1 .. Len(stack[u]) - 1 : W(u)[i] = stack[u][i]
             /\ W(u)[Len(stack[u])] = [cls |-> top(u).cls, pc |-> "wait"]
  <2> DEFINE f == [cls |-> top(u).cls, pc |-> "wait"]
             s == Front(stack[u])
  <2>1. f \in FrameSet /\ [top(u) EXCEPT !.pc = "wait"] = f
    BY <1>1, TopFrame DEF FrameSet, Place
  <2>2. /\ s \in Seq(FrameSet) /\ Len(s) = Len(stack[u]) - 1
        /\ \A i \in 1 .. Len(stack[u]) - 1 : s[i] = stack[u][i]
    BY <1>1, TopFrame, FrontEffect
  <2>3. W(u) = Append(s, f) /\ Len(stack[u]) \in Nat \ {0}
    BY <1>1, <2>1, TopFrame
  <2> HIDE DEF f, s, W
  <2>4. /\ Append(s, f) \in Seq(FrameSet) /\ Len(Append(s, f)) = Len(stack[u])
        /\ \A i \in 1 .. Len(stack[u]) - 1 : Append(s, f)[i] = stack[u][i]
        /\ Append(s, f)[Len(stack[u])] = f
    BY <2>1, <2>2, <2>3
  <2> QED BY <2>3, <2>4 DEF f
<1> HIDE DEF W
<1>2. Woken = [u \in Thread |-> IF stack[u] # <<>> /\ top(u).pc = "asleep" THEN W(u) ELSE stack[u]]
  BY DEF Woken, W
<1>3. \A u \in Thread : stack[u] \in Seq(FrameSet)
  BY DEF TypeOK, FrameSet
<1>4. Woken \in [Thread -> Seq(FrameSet)]
  BY <1>1, <1>2, <1>3
<1>5. CASE stack[t] # <<>> /\ top(t).pc = "asleep"
  <2>1. Woken[t] = W(t)
    BY <1>2, <1>5
  <2>2. /\ Len(stack[t]) \in Nat \ {0} /\ top(t) = stack[t][Len(stack[t])]
    BY <1>5, TopFrame
  <2>3. /\ Len(W(t)) = Len(stack[t])
        /\ \A i \in 1 .. Len(stack[t]) - 1 : W(t)[i] = stack[t][i]
        /\ W(t)[Len(stack[t])] = [cls |-> top(t).cls, pc |-> "wait"]
    BY <1>1, <1>5
  <2>4. W(t)[Len(stack[t])].cls = stack[t][Len(stack[t])].cls /\ W(t)[Len(stack[t])].pc = "wait"
        /\ stack[t][Len(stack[t])].pc = "asleep"
    BY <1>5, <2>2, <2>3
  <2>5. ASSUME NEW i \in 1 .. Len(stack[t])
        PROVE  /\ W(t)[i].cls = stack[t][i].cls
               /\ \/ W(t)[i].pc = stack[t][i].pc
                  \/ i = Len(stack[t]) /\ stack[t][i].pc = "asleep" /\ W(t)[i].pc = "wait"
    <3>1. i = Len(stack[t]) \/ i \in 1 .. Len(stack[t]) - 1
      BY <2>2
    <3> QED BY <2>3, <2>4, <3>1
  <2> QED BY <1>4, <2>1, <2>3, <2>5
<1>6. CASE ~(stack[t] # <<>> /\ top(t).pc = "asleep")
  BY <1>2, <1>4, <1>6
<1> QED BY <1>5, <1>6

--------------------------------------------------------------------------------
(* The steps, by what they do to the frames *)

Moves(t, from, to) ==
  stack[t] # <<>> /\ top(t).pc = from /\ Replaces(t, [cls |-> top(t).cls, pc |-> to])

Leaves(t, from) == stack[t] # <<>> /\ top(t).pc = from /\ Pops(t)

Kept == UNCHANGED <<state, pending, classInitLock, finishing, classes, alive, halted>>

\* A step that changes nothing but the stack of t, which keeps its length.
Advances(t) ==
  LET c == top(t).cls IN
  /\ Kept
  /\ \/ Moves(t, "body", "finish")
     \/ Moves(t, "mark", "check_initializing") /\ state[c] # "uninitialized"
     \/ Moves(t, "check_initializing", "check_initialized") /\ state[c] = "initialized"
     \/ Moves(t, "check_initializing", "wait")
     \/ Moves(t, "wait", "asleep")
     \/ Moves(t, "fork", "finish") /\ (Superclass[c] = nil \/ c \in Trivial)

Sent(t) ==
  /\ Kept
  /\ \E d \in Class : Pushes(t, [cls |-> d, pc |-> "super"])
  /\ stack[t] # <<>> => top(t).pc = "body" /\ Sends[top(t).cls] # {}

\* A thread begins a class, or takes it over in the child of a fork.
Begins(t) ==
  LET c == top(t).cls IN
  /\ UNCHANGED <<pending, classInitLock, finishing, alive, halted>>
  /\ classes' = [classes EXCEPT ![t] = @ \cup {c}]
  /\ \/ /\ state[c] = "uninitialized" /\ state' = [state EXCEPT ![c] = "initializing"]
        /\ \/ Moves(t, "mark", "body")
           \/ Moves(t, "mark", "fork") /\ MultithreadedForkChild
     \/ /\ state[c] = "initializing" /\ c \notin classes[t] /\ MultithreadedForkChild
        /\ state' = state /\ Moves(t, "check_initializing", "fork")

\* A message gets through.
Answered(t) ==
  /\ Kept
  /\ \/ Leaves(t, "check_initializing") /\ top(t).cls \in classes[t]
     \/ Leaves(t, "check_initialized") /\ state[top(t).cls] = "initialized"
     \/ Leaves(t, "wait") /\ state[top(t).cls] = "initialized"

Refused ==
  /\ UNCHANGED <<state, pending, classInitLock, finishing, classes, stack, alive>>
  /\ halted' = "refused"

FinishLocks(t) ==
  /\ classInitLock = nil /\ superInitialized(top(t).cls)
  /\ classInitLock' = t /\ finishing' = {top(t).cls}
  /\ Moves(t, "finish", "finishing")
  /\ UNCHANGED <<state, pending, classes, alive, halted>>

FinishWaits(t) ==
  /\ classInitLock = nil /\ ~superInitialized(top(t).cls)
  /\ pending' = pending \cup {top(t).cls}
  /\ Leaves(t, "finish")
  /\ UNCHANGED <<state, classInitLock, finishing, classes, alive, halted>>

FinishDone(t) ==
  /\ finishing = {} /\ classInitLock' = nil
  /\ Leaves(t, "finishing")
  /\ UNCHANGED <<state, pending, finishing, classes, alive, halted>>

StepOf(t) ==
  \/ t \in alive /\ (\/ Sent(t) \/ SuperFirst(t) \/ Advances(t) \/ Begins(t) \/ Answered(t)
                     \/ FinishLocks(t) \/ FinishWaits(t) \/ FinishDone(t))
  \/ Refused
  \/ \E c \in Class : SetInitialized(t, c)
  \/ Fork(t)

\* Every step of Next is one of these.
LEMMA StepEffects ==
  ASSUME IInv, Next PROVE \E t \in Thread : StepOf(t)
<1>0. TypeOK /\ "finish" \in Place /\ "check_initializing" \in Place /\ "check_initialized" \in Place
      /\ "wait" \in Place /\ "asleep" \in Place /\ "body" \in Place /\ "fork" \in Place
      /\ "finishing" \in Place
  BY DEF IInv, Place
<1>1. PICK t \in Thread : (\E d \in Class : Send(t, d)) \/ Run(t) \/ Fork(t)
  BY DEF Next
<1>2. ASSUME NEW d \in Class, Send(t, d) PROVE StepOf(t)
  <2>1. [cls |-> d, pc |-> "super"] \in FrameSet
    BY DEF FrameSet, Place
  <2>2. Pushes(t, [cls |-> d, pc |-> "super"])
    BY <1>0, <1>2, <2>1, PushEffect DEF Send
  <2> QED BY <1>2, <2>2 DEF Send, StepOf, Sent, Kept
<1>3. CASE EndBody(t)
  <2>1. Moves(t, "body", "finish")
    BY <1>0, <1>3, GotoEffect DEF EndBody, At, Goto, Moves
  <2> QED BY <1>3, <2>1 DEF EndBody, At, StepOf, Advances, Kept
<1>4. CASE SuperFirst(t)
  BY <1>4 DEF StepOf, SuperFirst, At
<1>5. CASE Mark(t)
  <2>1. CASE state[top(t).cls] = "uninitialized"
    <3>1. \/ Moves(t, "mark", "body")
          \/ Moves(t, "mark", "fork") /\ MultithreadedForkChild
      BY <1>0, <1>5, <2>1, GotoEffect DEF Mark, At, Goto, Moves
    <3> QED BY <1>5, <2>1, <3>1 DEF Mark, Mine, At, StepOf, Begins
  <2>2. CASE state[top(t).cls] # "uninitialized"
    <3>1. Moves(t, "mark", "check_initializing")
      BY <1>0, <1>5, <2>2, GotoEffect DEF Mark, At, Goto, Moves
    <3> QED BY <1>5, <2>2, <3>1 DEF Mark, At, StepOf, Advances, Kept
  <2> QED BY <2>1, <2>2
<1>6. CASE CheckInitializing(t)
  <2> DEFINE c == top(t).cls
  <2>0. stack[t] # <<>> /\ top(t).pc = "check_initializing" /\ t \in alive
        /\ UNCHANGED <<state, pending, classInitLock, finishing, alive, halted>>
    BY <1>6 DEF CheckInitializing, At
  <2>1. CASE state[c] # "initializing"
    <3>1. state[c] = "initialized"
      <4>1. Len(stack[t]) \in DOMAIN stack[t] /\ top(t) = stack[t][Len(stack[t])] /\ c \in Class
        BY <1>0, <2>0, TopFrame
      <4> QED BY <2>0, <2>1, <4>1 DEF IInv, FrameInv, FrameOK, TypeOK
    <3>2. Moves(t, "check_initializing", "check_initialized") /\ UNCHANGED classes
      BY <1>0, <1>6, <2>0, <2>1, GotoEffect DEF CheckInitializing, Goto, Moves
    <3> QED BY <2>0, <3>1, <3>2 DEF StepOf, Advances, Kept
  <2>2. CASE state[c] = "initializing" /\ c \in classes[t]
    <3>1. Leaves(t, "check_initializing") /\ UNCHANGED classes
      BY <1>0, <1>6, <2>0, <2>2, ReturnEffect
         DEF CheckInitializing, thisThreadIsInitializingClass, Leaves
    <3> QED BY <2>0, <2>2, <3>1 DEF StepOf, Answered, Kept
  <2>3. CASE state[c] = "initializing" /\ c \notin classes[t] /\ ~MultithreadedForkChild
    <3>1. Moves(t, "check_initializing", "wait") /\ UNCHANGED classes
      BY <1>0, <1>6, <2>0, <2>3, GotoEffect
         DEF CheckInitializing, thisThreadIsInitializingClass, Goto, Moves
    <3> QED BY <2>0, <3>1 DEF StepOf, Advances, Kept
  <2>4. CASE state[c] = "initializing" /\ c \notin classes[t] /\ MultithreadedForkChild
    <3>1. Moves(t, "check_initializing", "fork") /\ Mine(t, c)
      BY <1>0, <1>6, <2>0, <2>4, GotoEffect
         DEF CheckInitializing, thisThreadIsInitializingClass, Goto, Moves
    <3> QED BY <2>0, <2>4, <3>1 DEF StepOf, Begins, Mine
  <2> QED BY <2>1, <2>2, <2>3, <2>4
<1>7. CASE CheckInitialized(t)
  <2>0. stack[t] # <<>> /\ top(t).pc = "check_initialized" /\ t \in alive
    BY <1>7 DEF CheckInitialized, At
  <2>1. state[top(t).cls] = "initialized"
    <3>1. Len(stack[t]) \in DOMAIN stack[t] /\ top(t) = stack[t][Len(stack[t])]
      BY <1>0, <2>0, TopFrame
    <3> QED BY <2>0, <3>1 DEF IInv, FrameInv, FrameOK
  <2>2. Leaves(t, "check_initialized")
    BY <1>0, <1>7, <2>0, <2>1, ReturnEffect DEF CheckInitialized, Leaves
  <2> QED BY <1>7, <2>0, <2>1, <2>2 DEF CheckInitialized, StepOf, Answered, Kept
<1>8. CASE Wait(t)
  <2>0. stack[t] # <<>> /\ top(t).pc = "wait" /\ t \in alive
    BY <1>8 DEF Wait, At
  <2>1. CASE state[top(t).cls] = "initialized"
    <3>1. Leaves(t, "wait")
      BY <1>0, <1>8, <2>0, <2>1, ReturnEffect DEF Wait, Leaves
    <3> QED BY <1>8, <2>0, <2>1, <3>1 DEF Wait, StepOf, Answered, Kept
  <2>2. CASE state[top(t).cls] # "initialized"
    <3>1. Moves(t, "wait", "asleep")
      BY <1>0, <1>8, <2>0, <2>2, GotoEffect DEF Wait, Goto, Moves
    <3> QED BY <1>8, <2>0, <3>1 DEF Wait, StepOf, Advances, Kept
  <2> QED BY <2>1, <2>2
<1>9. CASE ForkChildInitialize(t)
  <2>0. stack[t] # <<>> /\ top(t).pc = "fork" /\ t \in alive
    BY <1>9 DEF ForkChildInitialize, At
  <2>1. CASE Superclass[top(t).cls] = nil \/ top(t).cls \in Trivial
    <3>1. Moves(t, "fork", "finish")
      BY <1>0, <1>9, <2>0, <2>1, GotoEffect DEF ForkChildInitialize, Goto, Moves
    <3> QED BY <1>9, <2>0, <2>1, <3>1 DEF ForkChildInitialize, StepOf, Advances, Kept
  <2>2. CASE ~(Superclass[top(t).cls] = nil \/ top(t).cls \in Trivial)
    BY <1>9, <2>2 DEF ForkChildInitialize, StepOf, Refused
  <2> QED BY <2>1, <2>2
<1>10. CASE Finish(t)
  <2>0. stack[t] # <<>> /\ top(t).pc = "finish" /\ t \in alive
    BY <1>10 DEF Finish, At
  <2>1. CASE superInitialized(top(t).cls)
    <3>1. Moves(t, "finish", "finishing")
      BY <1>0, <1>10, <2>0, <2>1, GotoEffect DEF Finish, Goto, Moves
    <3> QED BY <1>10, <2>0, <2>1, <3>1 DEF Finish, StepOf, FinishLocks
  <2>2. CASE ~superInitialized(top(t).cls)
    <3>1. Leaves(t, "finish")
      BY <1>0, <1>10, <2>0, <2>2, ReturnEffect DEF Finish, Leaves
    <3> QED BY <1>10, <2>0, <2>2, <3>1 DEF Finish, StepOf, FinishWaits
  <2> QED BY <2>1, <2>2
<1>11. CASE Finished(t)
  <2>1. Leaves(t, "finishing")
    BY <1>0, <1>11, ReturnEffect DEF Finished, At, Leaves
  <2> QED BY <1>11, <2>1 DEF Finished, At, StepOf, FinishDone
<1> QED BY <1>1, <1>2, <1>3, <1>4, <1>5, <1>6, <1>7, <1>8, <1>9, <1>10, <1>11 DEF Run, StepOf


--------------------------------------------------------------------------------
(* What the steps have in common *)

\* t initializes the same classes, in the same frames, and begins no method but
\* one that is trivial.
OwnersStay(t) ==
  /\ \A i \in DOMAIN stack[t] : Owner(stack[t][i]) =>
       i \in DOMAIN stack'[t] /\ Owner(stack'[t][i]) /\ stack'[t][i].cls = stack[t][i].cls
  /\ \A i \in DOMAIN stack'[t] : Owner(stack'[t][i]) =>
       /\ i \in DOMAIN stack[t] /\ Owner(stack[t][i]) /\ stack'[t][i].cls = stack[t][i].cls
       /\ \/ stack'[t][i].pc = "fork" \/ stack[t][i].pc \in {"body", "finish"}
          \/ Superclass[stack[t][i].cls] = nil \/ stack[t][i].cls \in Trivial

\* The frames of a thread.
LEMMA Frames ==
  ASSUME TypeOK, NEW u \in Thread
  PROVE  /\ Len(stack[u]) \in Nat /\ DOMAIN stack[u] = 1 .. Len(stack[u])
         /\ \A i \in 1 .. Len(stack[u]) : stack[u][i].cls \in Class /\ stack[u][i].pc \in Place
         /\ stack[u] = <<>> <=> Len(stack[u]) = 0
<1>1. stack[u] \in Seq(FrameSet)
  BY DEF TypeOK, FrameSet
<1>2. \A i \in 1 .. Len(stack[u]) : stack[u][i] \in FrameSet
  BY <1>1
<1> QED BY <1>1, <1>2 DEF FrameSet

\* ... and after a step that keeps the types.
LEMMA FramesNext ==
  ASSUME NEW t \in Thread, OthersStay(t), NEW u \in Thread
  PROVE  /\ Len(stack'[u]) \in Nat /\ DOMAIN stack'[u] = 1 .. Len(stack'[u])
         /\ \A i \in 1 .. Len(stack'[u]) : stack'[u][i].cls \in Class /\ stack'[u][i].pc \in Place
         /\ stack'[u] = <<>> <=> Len(stack'[u]) = 0
<1>1. stack'[u] \in Seq(FrameSet)
  BY DEF OthersStay
<1>2. \A i \in 1 .. Len(stack'[u]) : stack'[u][i] \in FrameSet
  BY <1>1
<1> QED BY <1>1, <1>2 DEF FrameSet

\* A step of an existing thread leaves those that do not exist alone.
LEMMA AliveStays ==
  ASSUME IInv, NEW t \in Thread, t \in alive, OthersStay(t), alive' = alive,
         \A u \in Thread \ {t} : classes'[u] = classes[u]
  PROVE  AliveInv'
BY DEF IInv, AliveInv, OthersStay

\* The classes that threads initialize stay the same.
LEMMA InitializesStays ==
  ASSUME NEW t \in Thread, OthersStay(t), OwnersStay(t), NEW u \in Thread, NEW c
  PROVE  Initializes(u, c)' <=> Initializes(u, c)
<1>1. CASE u # t
  BY <1>1 DEF OthersStay, Initializes
<1>2. CASE u = t
  BY <1>2 DEF OwnersStay, Initializes
<1> QED BY <1>1, <1>2

\* A step that changes nothing but the stack of t, and there no owner.
LEMMA OwnersKept ==
  ASSUME IInv, NEW t \in Thread, OthersStay(t), OwnersStay(t),
         UNCHANGED <<state, pending, finishing, classes, alive>>
  PROVE  ClassesInv' /\ OwnerInv' /\ SendsInv' /\ Contiguous' /\ PendingInv'
<1>1. \A u \in Thread, c \in Class : Initializes(u, c)' <=> Initializes(u, c)
  BY InitializesStays
<1>2. classes \in [Thread -> SUBSET Class] /\ alive \subseteq Thread /\ pending \subseteq Class
  BY DEF IInv, TypeOK
<1>3. ClassesInv'
  BY <1>1, <1>2 DEF IInv, ClassesInv
<1>4. OwnerInv'
  <2>1. ASSUME NEW u \in Thread, NEW i \in DOMAIN stack'[u], Owner(stack'[u][i])
        PROVE  /\ i \in DOMAIN stack[u] /\ Owner(stack[u][i]) /\ stack'[u][i].cls = stack[u][i].cls
    <3>1. CASE u # t
      BY <2>1, <3>1 DEF OthersStay
    <3>2. CASE u = t
      BY <2>1, <3>2 DEF OwnersStay
    <3> QED BY <3>1, <3>2
  <2>2. ASSUME NEW u \in Thread, NEW i \in DOMAIN stack'[u], Owner(stack'[u][i])
        PROVE  /\ stack'[u][i].cls \in classes'[u]
               /\ \A j \in DOMAIN stack'[u] :
                    Owner(stack'[u][j]) /\ stack'[u][j].cls = stack'[u][i].cls => i = j
    BY <2>1, <2>2 DEF IInv, OwnerInv
  <2> QED BY <2>2 DEF OwnerInv, Owner
<1>5. SendsInv' /\ Contiguous'
  BY DEF IInv, SendsInv, Contiguous
<1>6. PendingInv'
  <2>1. PICK D \in SUBSET Class :
          /\ Doomed(D)
          /\ \A c \in pending :
               /\ Superclass[c] # nil /\ state[Superclass[c]] # "initialized"
               /\ state[c] = "initializing"
               /\ Superclass[c] \in D \/ \E u \in alive : c \in classes[u] /\ ~Initializes(u, c)
    BY DEF IInv, PendingInv
  <2>2. ASSUME NEW s \in D, Superclass[s] \notin D,
               NEW u \in alive, NEW i \in DOMAIN stack'[u], stack'[u][i].cls = s
        PROVE  stack'[u][i].pc \notin {"body", "finish"}
    <3>1. /\ Superclass[s] # nil /\ s \notin Trivial
          /\ \A j \in DOMAIN stack[u] : stack[u][j].cls = s => stack[u][j].pc \notin {"body", "finish"}
      BY <2>1, <2>2 DEF Doomed
    <3>2. CASE u # t
      BY <1>2, <2>2, <3>1, <3>2 DEF OthersStay
    <3>3. CASE u = t
      BY <2>2, <3>1, <3>3 DEF OwnersStay, Owner
    <3> QED BY <3>2, <3>3
  <2>3. Doomed(D)'
    BY <2>1, <2>2 DEF Doomed, MultithreadedForkChild
  <2>4. \A c \in pending : (\E u \in alive : c \in classes[u] /\ ~Initializes(u, c))
                             => \E u \in alive : c \in classes[u] /\ ~Initializes(u, c)'
    BY <1>1, <1>2
  <2> QED BY <2>1, <2>3, <2>4 DEF PendingInv
<1> QED BY <1>3, <1>4, <1>5, <1>6


\* The frames of other threads, and those
\* below the innermost of t, stay as they should be in a step that initializes nothing.
LEMMA FramesKept ==
  ASSUME IInv, NEW t \in Thread, OthersStay(t), alive' = alive,
         \A d \in Class : \/ state'[d] = state[d]
                          \/ state[d] = "uninitialized" /\ state'[d] = "initializing",
         \A u \in Thread : classes[u] \subseteq classes'[u],
         UNCHANGED <<classInitLock, finishing>> \/ \A u \in Thread \ {t} : classInitLock # u,
         \A i \in 1 .. Len(stack[t]) - 1 : i \in DOMAIN stack'[t] /\ stack'[t][i] = stack[t][i]
  PROVE  /\ \A u \in Thread \ {t} : \A i \in DOMAIN stack'[u] : FrameOK(u, i)'
         /\ \A i \in 1 .. Len(stack[t]) - 1 :
              (i = Len(stack'[t]) /\ stack[t][i].pc = "mark" => SuperUsable(t, stack[t][i].cls)')
                 => FrameOK(t, i)'
<1>1. \A u \in Thread, d \in Class : SuperUsable(u, d) => SuperUsable(u, d)'
  BY SuperclassAssumption DEF SuperUsable, Usable
<1>2. TypeOK /\ Len(stack[t]) \in Nat /\ DOMAIN stack[t] = 1 .. Len(stack[t])
  BY Frames DEF IInv
<1>3. ASSUME NEW u \in Thread \ {t}, NEW i \in DOMAIN stack'[u] PROVE FrameOK(u, i)'
  <2>1. /\ stack'[u] = stack[u] /\ i \in DOMAIN stack[u] /\ FrameOK(u, i)
        /\ stack[u][i].cls \in Class
    BY <1>2, <1>3, Frames DEF OthersStay, IInv, FrameInv
  <2> QED BY <1>1, <2>1 DEF FrameOK, MultithreadedForkChild
<1>4. ASSUME NEW i \in 1 .. Len(stack[t]) - 1,
             i = Len(stack'[t]) /\ stack[t][i].pc = "mark" => SuperUsable(t, stack[t][i].cls)'
      PROVE  FrameOK(t, i)'
  <2>1. i \in DOMAIN stack[t] /\ i # Len(stack[t]) /\ i < Len(stack[t])
    BY <1>2, <1>4
  <2>2. FrameOK(t, i) /\ stack[t][i].pc \in {"mark", "body"} /\ stack[t][i].cls \in Class
    BY <1>2, <2>1, Frames DEF IInv, FrameInv, NestInv, NestOK
  <2>3. stack'[t][i] = stack[t][i]
    BY <1>4
  <2> QED BY <1>1, <1>4, <2>1, <2>2, <2>3 DEF FrameOK
<1> QED BY <1>3, <1>4

\* The frames below the innermost stay nested.
LEMMA NestKept ==
  ASSUME IInv, NEW t \in Thread, OthersStay(t),
         \A i \in 1 .. Len(stack[t]) - 1 : i \in DOMAIN stack'[t] /\ stack'[t][i] = stack[t][i],
         stack[t] # <<>> /\ Len(stack[t]) <= Len(stack'[t]) =>
           stack'[t][Len(stack[t])].cls = stack[t][Len(stack[t])].cls
  PROVE  /\ \A u \in Thread \ {t} : \A i \in DOMAIN stack'[u] : NestOK(u, i)'
         /\ \A i \in 1 .. Len(stack[t]) - 1 : NestOK(t, i)'
<1>1. ASSUME NEW u \in Thread \ {t}, NEW i \in DOMAIN stack'[u] PROVE NestOK(u, i)'
  <2>1. stack'[u] = stack[u] /\ NestOK(u, i)
    BY <1>1 DEF IInv, NestInv, OthersStay
  <2> QED BY <2>1 DEF NestOK
<1>2. TypeOK /\ Len(stack[t]) \in Nat /\ DOMAIN stack[t] = 1 .. Len(stack[t])
      /\ (stack[t] = <<>> <=> Len(stack[t]) = 0)
      /\ Len(stack'[t]) \in Nat /\ DOMAIN stack'[t] = 1 .. Len(stack'[t])
  BY Frames, FramesNext DEF IInv
<1>3. ASSUME NEW i \in 1 .. Len(stack[t]) - 1 PROVE NestOK(t, i)'
  <2>1. i \in DOMAIN stack[t] /\ i < Len(stack[t]) /\ stack'[t][i] = stack[t][i]
    BY <1>2, <1>3
  <2>2. \/ stack[t][i].pc = "mark" /\ stack[t][i + 1].cls = Superclass[stack[t][i].cls]
        \/ stack[t][i].pc = "body" /\ Sends[stack[t][i].cls] # {}
    BY <2>1 DEF IInv, NestInv, NestOK
  <2>3. i < Len(stack'[t]) => stack'[t][i + 1].cls = stack[t][i + 1].cls
    <3>1. CASE i + 1 \in 1 .. Len(stack[t]) - 1
      BY <3>1
    <3>2. CASE i + 1 = Len(stack[t])
      BY <1>2, <3>2
    <3> QED BY <1>2, <3>1, <3>2
  <2> QED BY <2>1, <2>2, <2>3 DEF NestOK
<1> QED BY <1>1, <1>3

--------------------------------------------------------------------------------
(* Each step preserves the invariant *)

\* A thread that holds the lock is marking classes; the others are not.
LEMMA HolderFinishing ==
  ASSUME IInv, NEW t \in Thread, stack[t] # <<>>
  PROVE  top(t).pc = "finishing" <=> classInitLock = t
<1>1. TypeOK /\ FinishingInv /\ t # nil
  BY NilAssumption DEF IInv
<1>2. Len(stack[t]) \in DOMAIN stack[t] /\ top(t) = stack[t][Len(stack[t])]
  BY <1>1, TopFrame
<1>3. top(t).pc = "finishing" => classInitLock = t
  BY <1>2 DEF IInv, FrameInv, FrameOK
<1> QED BY <1>1, <1>3 DEF FinishingInv


\* What the steps below have to show of the stack of t itself.
LEMMA FromFrames ==
  ASSUME IInv, NEW t \in Thread, OthersStay(t), alive' = alive, t \in alive,
         \A d \in Class : \/ state'[d] = state[d]
                          \/ state[d] = "uninitialized" /\ state'[d] = "initializing",
         \A u \in Thread : classes[u] \subseteq classes'[u],
         \A u \in Thread \ {t} : classes'[u] = classes[u],
         UNCHANGED <<classInitLock, finishing>> \/ \A u \in Thread \ {t} : classInitLock # u,
         NEW n \in Nat, n = Len(stack[t]),
         \A i \in 1 .. n - 1 : i \in DOMAIN stack'[t] /\ stack'[t][i] = stack[t][i],
         \A i \in 1 .. n - 1 :
           i = Len(stack'[t]) /\ stack[t][i].pc = "mark" => SuperUsable(t, stack[t][i].cls)',
         n # 0 /\ n <= Len(stack'[t]) => stack'[t][n].cls = stack[t][n].cls,
         \A i \in DOMAIN stack'[t] : i >= n => NestOK(t, i)' /\ FrameOK(t, i)'
  PROVE  NestInv' /\ FrameInv' /\ AliveInv'
<1>1. TypeOK /\ Len(stack[t]) \in Nat /\ DOMAIN stack[t] = 1 .. Len(stack[t])
      /\ (stack[t] = <<>> <=> Len(stack[t]) = 0)
      /\ Len(stack'[t]) \in Nat /\ DOMAIN stack'[t] = 1 .. Len(stack'[t])
  BY Frames, FramesNext DEF IInv
<1>2. AliveInv'
  BY AliveStays
<1>3. /\ \A u \in Thread \ {t} : \A i \in DOMAIN stack'[u] : FrameOK(u, i)'
      /\ \A i \in 1 .. n - 1 : FrameOK(t, i)'
  BY FramesKept
<1>4. /\ \A u \in Thread \ {t} : \A i \in DOMAIN stack'[u] : NestOK(u, i)'
      /\ \A i \in 1 .. n - 1 : NestOK(t, i)'
  BY <1>1, NestKept
<1>5. \A i \in DOMAIN stack'[t] : i \in 1 .. n - 1 \/ i >= n
  BY <1>1
<1> QED BY <1>1, <1>2, <1>3, <1>4, <1>5, ZenonT(30) DEF NestInv, FrameInv

\* A place moved on: the method is done, or the class was begun already, ...
LEMMA AdvancesInv ==
  ASSUME IInv, NEW t \in Thread, t \in alive, Advances(t) PROVE IInv'
<1>0. stack[t] # <<>> /\ TypeOK
  BY DEF Advances, Moves, IInv
<1>1. PICK c \in Class, n \in Nat \ {0} :
        c = top(t).cls /\ n = Len(stack[t]) /\ DOMAIN stack[t] = 1 .. n
        /\ top(t) = stack[t][n] /\ FrameOK(t, n)
  BY <1>0, TopFrame DEF IInv, FrameInv
<1>2. PICK l \in Place : Replaces(t, [cls |-> c, pc |-> l]) /\ Kept
        /\ \/ top(t).pc = "body" /\ l = "finish"
           \/ top(t).pc = "mark" /\ l = "check_initializing" /\ state[c] # "uninitialized"
           \/ top(t).pc = "check_initializing" /\ l = "check_initialized" /\ state[c] = "initialized"
           \/ top(t).pc = "check_initializing" /\ l = "wait"
           \/ top(t).pc = "wait" /\ l = "asleep"
           \/ top(t).pc = "fork" /\ l = "finish" /\ (Superclass[c] = nil \/ c \in Trivial)
  BY <1>1 DEF Advances, Moves, Place
<1>3. /\ OthersStay(t) /\ DOMAIN stack'[t] = 1 .. n /\ Len(stack'[t]) = n
      /\ \A i \in 1 .. n - 1 : stack'[t][i] = stack[t][i]
      /\ stack'[t][n].cls = c /\ stack'[t][n].pc = l
  BY <1>1, <1>2, FramesNext DEF Replaces
<1>4. OwnersStay(t)
  BY <1>1, <1>2, <1>3 DEF OwnersStay, Owner
<1>5. ClassesInv' /\ OwnerInv' /\ SendsInv' /\ Contiguous' /\ PendingInv'
  BY <1>2, <1>3, <1>4, OwnersKept DEF Kept
<1>6. TypeOK' /\ halted' # "fatal"
  BY <1>0, <1>2, <1>3 DEF IInv, TypeOK, Kept, OthersStay, FrameSet
<1>7. NestInv' /\ FrameInv' /\ AliveInv'
  <2>1. FrameOK(t, n)'
    BY <1>1, <1>2, <1>3 DEF FrameOK, SuperUsable, Usable, Kept
  <2>2. NestOK(t, n)'
    BY <1>3 DEF NestOK
  <2> QED BY <1>1, <1>2, <1>3, <2>1, <2>2, FromFrames DEF Kept
<1>8. FinishingInv'
  <2>1. classInitLock # t
    BY <1>0, <1>2, HolderFinishing
  <2>2. \A u \in Thread, d \in Class : Initializes(u, d)' <=> Initializes(u, d)
    BY <1>3, <1>4, InitializesStays
  <2> QED BY <1>0, <1>2, <1>3, <2>1, <2>2
          DEF IInv, FinishingInv, Kept, TypeOK, OthersStay, top, superInitialized
<1> QED BY <1>5, <1>6, <1>7, <1>8 DEF IInv


\* The facts about the innermost frame that the steps begin with.
LEMMA Innermost ==
  ASSUME IInv, NEW t \in Thread, stack[t] # <<>>
  PROVE  \E c \in Class, n \in Nat \ {0} :
           /\ c = top(t).cls /\ n = Len(stack[t]) /\ DOMAIN stack[t] = 1 .. n
           /\ top(t) = stack[t][n] /\ FrameOK(t, n)
           /\ \A i \in 1 .. n - 1 : stack[t][i].pc \in {"mark", "body"} /\ stack[t][i].cls \in Class
<1>1. TypeOK
  BY DEF IInv
<1>2. /\ top(t).cls \in Class /\ Len(stack[t]) \in Nat \ {0}
      /\ DOMAIN stack[t] = 1 .. Len(stack[t]) /\ top(t) = stack[t][Len(stack[t])]
  BY <1>1, TopFrame
<1>3. FrameOK(t, Len(stack[t]))
  BY <1>2 DEF IInv, FrameInv
<1>4. \A i \in 1 .. Len(stack[t]) - 1 : stack[t][i].pc \in {"mark", "body"} /\ stack[t][i].cls \in Class
  <2>1. ASSUME NEW i \in 1 .. Len(stack[t]) - 1
        PROVE  stack[t][i].pc \in {"mark", "body"} /\ stack[t][i].cls \in Class
    <3>1. i \in DOMAIN stack[t] /\ i < Len(stack[t])
      BY <1>2
    <3> QED BY <1>1, <3>1, Frames DEF IInv, NestInv, NestOK
  <2> QED BY <2>1
<1> QED BY <1>2, <1>3, <1>4

\* A frame that waits for its superclass goes on when the call for it returns.
LEMMA PopsFrames ==
  ASSUME IInv, NEW t \in Thread, t \in alive, stack[t] # <<>>, Pops(t),
         UNCHANGED <<state, classes, alive>>, Usable(t, top(t).cls),
         UNCHANGED <<classInitLock, finishing>> \/ \A u \in Thread \ {t} : classInitLock # u
  PROVE  NestInv' /\ FrameInv' /\ AliveInv'
<1>1. PICK c \in Class, n \in Nat \ {0} :
        /\ c = top(t).cls /\ n = Len(stack[t]) /\ DOMAIN stack[t] = 1 .. n
        /\ top(t) = stack[t][n]
        /\ \A i \in 1 .. n - 1 : stack[t][i].pc \in {"mark", "body"} /\ stack[t][i].cls \in Class
  BY Innermost
<1>2. /\ OthersStay(t) /\ DOMAIN stack'[t] = 1 .. n - 1 /\ Len(stack'[t]) = n - 1
      /\ \A i \in 1 .. n - 1 : stack'[t][i] = stack[t][i]
  BY <1>1, FramesNext DEF Pops
<1>3. ASSUME NEW i \in 1 .. n - 1, i = Len(stack'[t]), stack[t][i].pc = "mark"
      PROVE  SuperUsable(t, stack[t][i].cls)'
  <2>1. i \in DOMAIN stack[t] /\ i < Len(stack[t]) /\ i + 1 = n
    BY <1>1, <1>2, <1>3
  <2>2. Superclass[stack[t][i].cls] = c
    BY <1>1, <1>3, <2>1 DEF IInv, NestInv, NestOK
  <2> QED BY <1>1, <1>2, <2>2 DEF SuperUsable, Usable
<1>4. \A i \in DOMAIN stack'[t] : ~(i >= n)
  BY <1>1, <1>2
<1> QED BY <1>1, <1>2, <1>3, <1>4, FromFrames

\* A message gets through.
LEMMA AnsweredInv ==
  ASSUME IInv, NEW t \in Thread, t \in alive, Answered(t) PROVE IInv'
<1>0. /\ stack[t] # <<>> /\ TypeOK /\ Kept /\ Pops(t)
      /\ top(t).pc \in {"check_initializing", "check_initialized", "wait"}
      /\ Usable(t, top(t).cls)
  BY DEF Answered, Leaves, IInv, Usable
<1>1. PICK c \in Class, n \in Nat \ {0} :
        /\ c = top(t).cls /\ n = Len(stack[t]) /\ DOMAIN stack[t] = 1 .. n
        /\ top(t) = stack[t][n]
  BY <1>0, Innermost
<1>2. /\ OthersStay(t) /\ DOMAIN stack'[t] = 1 .. n - 1
      /\ \A i \in 1 .. n - 1 : stack'[t][i] = stack[t][i]
  BY <1>0, <1>1, FramesNext DEF Pops
<1>3. OwnersStay(t)
  BY <1>0, <1>1, <1>2 DEF OwnersStay, Owner
<1>4. ClassesInv' /\ OwnerInv' /\ SendsInv' /\ Contiguous' /\ PendingInv'
  BY <1>0, <1>2, <1>3, OwnersKept DEF Kept
<1>5. TypeOK' /\ halted' # "fatal"
  BY <1>0, <1>2 DEF IInv, TypeOK, Kept, OthersStay, FrameSet
<1>6. NestInv' /\ FrameInv' /\ AliveInv'
  BY <1>0, PopsFrames DEF Kept
<1>7. FinishingInv'
  <2>1. classInitLock # t
    BY <1>0, HolderFinishing
  <2>2. \A u \in Thread, d \in Class : Initializes(u, d)' <=> Initializes(u, d)
    BY <1>2, <1>3, InitializesStays
  <2> QED BY <1>0, <1>2, <2>1, <2>2
          DEF IInv, FinishingInv, Kept, TypeOK, OthersStay, top, superInitialized
<1> QED BY <1>4, <1>5, <1>6, <1>7 DEF IInv

\* The lock is let go, with nothing left to mark.
LEMMA FinishDoneInv ==
  ASSUME IInv, NEW t \in Thread, t \in alive, FinishDone(t) PROVE IInv'
<1>0. /\ stack[t] # <<>> /\ TypeOK /\ Pops(t) /\ top(t).pc = "finishing"
      /\ UNCHANGED <<state, pending, finishing, classes, alive, halted>>
      /\ finishing = {} /\ classInitLock' = nil
  BY DEF FinishDone, Leaves, IInv
<1>1. PICK c \in Class, n \in Nat \ {0} :
        /\ c = top(t).cls /\ n = Len(stack[t]) /\ DOMAIN stack[t] = 1 .. n
        /\ top(t) = stack[t][n] /\ FrameOK(t, n)
  BY <1>0, Innermost
<1>2. /\ OthersStay(t) /\ DOMAIN stack'[t] = 1 .. n - 1
      /\ \A i \in 1 .. n - 1 : stack'[t][i] = stack[t][i]
  BY <1>0, <1>1, FramesNext DEF Pops
<1>3. OwnersStay(t)
  BY <1>0, <1>1, <1>2 DEF OwnersStay, Owner
<1>4. ClassesInv' /\ OwnerInv' /\ SendsInv' /\ Contiguous' /\ PendingInv'
  BY <1>0, <1>2, <1>3, OwnersKept
<1>5. TypeOK' /\ halted' # "fatal"
  BY <1>0, <1>2 DEF IInv, TypeOK, OthersStay, FrameSet
<1>6. NestInv' /\ FrameInv' /\ AliveInv'
  <2>1. classInitLock = t /\ Usable(t, top(t).cls)
    BY <1>0, <1>1 DEF FrameOK, Usable
  <2> QED BY <1>0, <2>1, PopsFrames
<1>7. FinishingInv'
  BY <1>0 DEF FinishingInv
<1> QED BY <1>4, <1>5, <1>6, <1>7 DEF IInv


\* A message, from outside or from a +initialize method.
LEMMA SentInv ==
  ASSUME IInv, NEW t \in Thread, t \in alive, Sent(t) PROVE IInv'
<1>0. TypeOK /\ Kept /\ (stack[t] # <<>> => top(t).pc = "body" /\ Sends[top(t).cls] # {})
  BY DEF Sent, IInv
<1>1. PICK d \in Class : Pushes(t, [cls |-> d, pc |-> "super"])
  BY DEF Sent
<1>2. PICK n \in Nat : n = Len(stack[t]) /\ DOMAIN stack[t] = 1 .. n /\ (stack[t] = <<>> <=> n = 0)
  BY <1>0, Frames
<1>3. /\ OthersStay(t) /\ DOMAIN stack'[t] = 1 .. n + 1 /\ Len(stack'[t]) = n + 1
      /\ \A i \in 1 .. n : stack'[t][i] = stack[t][i]
      /\ stack'[t][n + 1].cls = d /\ stack'[t][n + 1].pc = "super"
  BY <1>1, <1>2, FramesNext DEF Pushes
<1>4. OwnersStay(t)
  BY <1>0, <1>2, <1>3 DEF OwnersStay, Owner
<1>5. ClassesInv' /\ OwnerInv' /\ SendsInv' /\ Contiguous' /\ PendingInv'
  BY <1>0, <1>3, <1>4, OwnersKept DEF Kept
<1>6. TypeOK' /\ halted' # "fatal"
  BY <1>0, <1>3 DEF IInv, TypeOK, Kept, OthersStay, FrameSet
<1>7. NestInv' /\ FrameInv' /\ AliveInv'
  <2>1. NestOK(t, n + 1)' /\ FrameOK(t, n + 1)'
    BY <1>3 DEF NestOK, FrameOK
  <2>2. ASSUME n # 0 PROVE NestOK(t, n)' /\ FrameOK(t, n)'
    <3>1. stack[t] # <<>> /\ top(t) = stack[t][n] /\ FrameOK(t, n) /\ stack'[t][n] = stack[t][n]
      BY <1>2, <1>3, <2>2, Innermost
    <3>2. stack[t][n].pc = "body" /\ Sends[stack[t][n].cls] # {}
      BY <1>0, <3>1
    <3> QED BY <1>0, <3>1, <3>2 DEF NestOK, FrameOK, SuperUsable, Usable, Kept
  <2>3. \A i \in DOMAIN stack'[t] : i >= n => i = n + 1 \/ (i = n /\ n # 0)
    BY <1>3
  <2>4. \A i \in 1 .. n - 1 : i \in DOMAIN stack'[t] /\ stack'[t][i] = stack[t][i] /\ i # Len(stack'[t])
    BY <1>3
  <2>5. n # 0 => stack'[t][n].cls = stack[t][n].cls
    BY <1>3
  <2>6. \A i \in DOMAIN stack'[t] : i >= n => NestOK(t, i)' /\ FrameOK(t, i)'
    BY <2>1, <2>2, <2>3
  <2> QED BY <1>0, <1>2, <1>3, <2>4, <2>5, <2>6, FromFrames DEF Kept
<1>8. FinishingInv'
  <2>1. classInitLock # t
    BY <1>0, NilAssumption, HolderFinishing DEF IInv, FinishingInv
  <2>2. \A u \in Thread, e \in Class : Initializes(u, e)' <=> Initializes(u, e)
    BY <1>3, <1>4, InitializesStays
  <2> QED BY <1>0, <1>3, <2>1, <2>2
          DEF IInv, FinishingInv, Kept, TypeOK, OthersStay, top, superInitialized
<1> QED BY <1>5, <1>6, <1>7, <1>8 DEF IInv

\* The superclass first.
LEMMA SuperFirstInv ==
  ASSUME IInv, NEW t \in Thread, t \in alive, SuperFirst(t) PROVE IInv'
<1>0. TypeOK /\ Kept /\ stack[t] # <<>> /\ top(t).pc = "super"
  BY DEF SuperFirst, Kept, At, IInv
<1>1. PICK c \in Class, n \in Nat \ {0} :
        /\ c = top(t).cls /\ n = Len(stack[t]) /\ DOMAIN stack[t] = 1 .. n
        /\ top(t) = stack[t][n]
  BY <1>0, Innermost
<1>2. /\ OthersStay(t) /\ \A i \in 1 .. n - 1 : stack'[t][i] = stack[t][i]
      /\ stack'[t][n].cls = c /\ stack'[t][n].pc = "mark"
      /\ \/ (Superclass[c] # nil => state[Superclass[c]] = "initialized") /\ Len(stack'[t]) = n
         \/ /\ Superclass[c] # nil /\ Len(stack'[t]) = n + 1
            /\ stack'[t][n + 1].cls = Superclass[c] /\ stack'[t][n + 1].pc = "super"
  <2>1. /\ OthersStay(t) /\ \A i \in 1 .. n - 1 : stack'[t][i] = stack[t][i]
        /\ stack'[t][n] = [cls |-> c, pc |-> "mark"]
        /\ \/ (Superclass[c] # nil => state[Superclass[c]] = "initialized") /\ Len(stack'[t]) = n
           \/ /\ Superclass[c] # nil /\ Len(stack'[t]) = n + 1
              /\ stack'[t][n + 1] = [cls |-> Superclass[c], pc |-> "super"]
    BY <1>0, <1>1, SuperFirstEffect, Zenon
  <2> QED BY <2>1
<1>3. /\ DOMAIN stack'[t] = 1 .. Len(stack'[t]) /\ Len(stack'[t]) \in {n, n + 1}
  BY <1>1, <1>2, FramesNext
<1>4. OwnersStay(t)
  <2>1. ~Owner(stack[t][n]) /\ ~Owner(stack'[t][n])
    BY <1>0, <1>1, <1>2 DEF Owner
  <2>2. n + 1 \in DOMAIN stack'[t] => ~Owner(stack'[t][n + 1])
    BY <1>2, <1>3 DEF Owner
  <2>3. \A i \in DOMAIN stack'[t] : i \in 1 .. n - 1 \/ i = n \/ i = n + 1
    BY <1>3
  <2>4. \A i \in 1 .. n - 1 : i \in DOMAIN stack[t] /\ i \in DOMAIN stack'[t] /\ stack'[t][i] = stack[t][i]
    BY <1>1, <1>2, <1>3
  <2>5. \A i \in DOMAIN stack[t] : i \in 1 .. n - 1 \/ i = n
    BY <1>1
  <2> QED BY <2>1, <2>2, <2>3, <2>4, <2>5 DEF OwnersStay, Owner
<1>5. ClassesInv' /\ OwnerInv' /\ SendsInv' /\ Contiguous' /\ PendingInv'
  BY <1>0, <1>2, <1>4, OwnersKept DEF Kept
<1>6. TypeOK' /\ halted' # "fatal"
  BY <1>0, <1>2 DEF IInv, TypeOK, Kept, OthersStay, FrameSet
<1>7. NestInv' /\ FrameInv' /\ AliveInv'
  <2>1. NestOK(t, n)' /\ FrameOK(t, n)'
    BY <1>0, <1>2 DEF NestOK, FrameOK, SuperUsable, Usable, Kept
  <2>2. n + 1 \in DOMAIN stack'[t] => NestOK(t, n + 1)' /\ FrameOK(t, n + 1)'
    BY <1>2, <1>3 DEF NestOK, FrameOK
  <2>3. \A i \in DOMAIN stack'[t] : i >= n => i = n + 1 \/ i = n
    BY <1>3
  <2>4. \A i \in 1 .. n - 1 : i \in DOMAIN stack'[t] /\ stack'[t][i] = stack[t][i] /\ i # Len(stack'[t])
    BY <1>2, <1>3
  <2>5. stack'[t][n].cls = stack[t][n].cls
    BY <1>1, <1>2
  <2>6. \A i \in DOMAIN stack'[t] : i >= n => NestOK(t, i)' /\ FrameOK(t, i)'
    BY <2>1, <2>2, <2>3
  <2> QED BY <1>0, <1>1, <1>2, <2>4, <2>5, <2>6, FromFrames DEF Kept
<1>8. FinishingInv'
  <2>1. classInitLock # t
    BY <1>0, HolderFinishing
  <2>2. \A u \in Thread, e \in Class : Initializes(u, e)' <=> Initializes(u, e)
    BY <1>2, <1>4, InitializesStays
  <2> QED BY <1>0, <1>2, <2>1, <2>2
          DEF IInv, FinishingInv, Kept, TypeOK, OthersStay, top, superInitialized
<1> QED BY <1>5, <1>6, <1>7, <1>8 DEF IInv


\* A class is begun: the thread is the only one to initialize it, and has begun its
\* superclass, if that is not done, in a frame further out.
LEMMA BeginsInv ==
  ASSUME IInv, NEW t \in Thread, t \in alive, Begins(t) PROVE IInv'
<1>0. /\ TypeOK /\ stack[t] # <<>>
      /\ UNCHANGED <<pending, classInitLock, finishing, alive, halted>>
      /\ top(t).pc \in {"mark", "check_initializing"}
  BY DEF Begins, Moves, IInv
<1>1. PICK c \in Class, n \in Nat \ {0} :
        /\ c = top(t).cls /\ n = Len(stack[t]) /\ DOMAIN stack[t] = 1 .. n
        /\ top(t) = stack[t][n] /\ FrameOK(t, n)
        /\ \A i \in 1 .. n - 1 : stack[t][i].pc \in {"mark", "body"} /\ stack[t][i].cls \in Class
  BY <1>0, Innermost
<1>2. PICK l \in {"body", "fork"} :
        /\ Replaces(t, [cls |-> c, pc |-> l])
        /\ \/ state[c] = "uninitialized" /\ state' = [state EXCEPT ![c] = "initializing"]
           \/ /\ state[c] = "initializing" /\ c \notin classes[t] /\ MultithreadedForkChild
              /\ state' = state /\ l = "fork"
        /\ l = "fork" => MultithreadedForkChild
  BY <1>1 DEF Begins, Moves
<1>3. /\ OthersStay(t) /\ DOMAIN stack'[t] = 1 .. n /\ Len(stack'[t]) = n
      /\ \A i \in 1 .. n - 1 : stack'[t][i] = stack[t][i]
      /\ stack'[t][n].cls = c /\ stack'[t][n].pc = l
  BY <1>1, <1>2, FramesNext DEF Replaces
<1>4. /\ classes'[t] = classes[t] \cup {c} /\ \A u \in Thread \ {t} : classes'[u] = classes[u]
      /\ classes' \in [Thread -> SUBSET Class]
  BY <1>0, <1>1 DEF Begins, TypeOK
<1>5. /\ state' \in [Class -> {"uninitialized", "initializing", "initialized"}]
      /\ state'[c] = "initializing" /\ state[c] # "initialized"
      /\ \A d \in Class \ {c} : state'[d] = state[d]
  BY <1>0, <1>1, <1>2, ZenonT(30) DEF TypeOK
<1>6. \A u \in Thread : c \notin classes[u]
  <2>1. CASE state[c] = "uninitialized"
    BY <2>1 DEF IInv, ClassesInv
  <2>2. CASE c \notin classes[t] /\ MultithreadedForkChild
    BY <2>2 DEF IInv, AliveInv, MultithreadedForkChild
  <2> QED BY <1>2, <2>1, <2>2
<1>7. SuperUsable(t, c) /\ Superclass[c] # c
  <2>1. SuperUsable(t, c)
    BY <1>0, <1>1 DEF FrameOK
  <2> QED BY <1>1, <1>5, <1>6, <2>1, NilAssumption DEF SuperUsable, Usable
<1>8. \A u \in Thread, d \in Class : Initializes(u, d)' <=> Initializes(u, d) \/ (u = t /\ d = c)
  <2>1. ASSUME NEW u \in Thread, NEW d \in Class, u # t
        PROVE  Initializes(u, d)' <=> Initializes(u, d)
    BY <1>3, <2>1 DEF Initializes, OthersStay
  <2>2. ~Owner(stack[t][n]) /\ Owner(stack'[t][n])
    BY <1>0, <1>1, <1>3, <1>2 DEF Owner
  <2>3. \A i \in 1 .. n : i \in 1 .. n - 1 \/ i = n
    OBVIOUS
  <2>4. ASSUME NEW d \in Class PROVE Initializes(t, d)' <=> Initializes(t, d) \/ d = c
    BY <1>1, <1>3, <2>2, <2>3 DEF Initializes, Owner
  <2> QED BY <2>1, <2>4
<1>9. TypeOK' /\ halted' # "fatal"
  BY <1>0, <1>3, <1>4, <1>5 DEF IInv, TypeOK, OthersStay, FrameSet
<1>10. ClassesInv'
  <2>1. \A u \in Thread : \A v \in Thread \ {u} : classes'[u] \cap classes'[v] = {}
    BY <1>4, <1>6 DEF IInv, ClassesInv
  <2>2. ASSUME NEW u \in Thread, NEW d \in classes'[u]
        PROVE  /\ state'[d] = "initializing"
               /\ d \in pending' \cup finishing' \/ Initializes(u, d)'
    <3>1. CASE u = t /\ d = c
      BY <1>5, <1>8, <3>1
    <3>2. CASE d \in classes[u] /\ d # c /\ d \in Class
      BY <1>0, <1>5, <1>8, <3>2 DEF IInv, ClassesInv
    <3> QED BY <1>4, <1>6, <3>1, <3>2
  <2> QED BY <2>1, <2>2 DEF ClassesInv
<1>11. OwnerInv'
  <2>1. ASSUME NEW u \in Thread, NEW i \in DOMAIN stack'[u], Owner(stack'[u][i])
        PROVE  \/ u = t /\ i = n
               \/ /\ u # t \/ i \in 1 .. n - 1
                  /\ i \in DOMAIN stack[u] /\ Owner(stack[u][i]) /\ stack'[u][i] = stack[u][i]
    <3>1. CASE u # t
      BY <1>3, <2>1, <3>1 DEF OthersStay
    <3>2. CASE u = t
      BY <1>1, <1>3, <2>1, <3>2
    <3> QED BY <3>1, <3>2
  <2>2. ASSUME NEW u \in Thread, NEW i \in DOMAIN stack'[u], Owner(stack'[u][i])
        PROVE  /\ stack'[u][i].cls \in classes'[u]
               /\ \A j \in DOMAIN stack'[u] :
                    Owner(stack'[u][j]) /\ stack'[u][j].cls = stack'[u][i].cls => i = j
    <3>1. CASE u = t /\ i = n
      BY <1>3, <1>4, <1>6, <2>1, <3>1 DEF IInv, OwnerInv
    <3>2. CASE i \in DOMAIN stack[u] /\ Owner(stack[u][i]) /\ stack'[u][i] = stack[u][i]
      <4>1. stack[u][i].cls \in classes[u] /\ stack[u][i].cls # c
        BY <1>6, <3>2 DEF IInv, OwnerInv
      <4>2. ASSUME NEW j \in DOMAIN stack'[u], Owner(stack'[u][j]), stack'[u][j].cls = stack'[u][i].cls
            PROVE  i = j
        <5>1. j \in DOMAIN stack[u] /\ Owner(stack[u][j]) /\ stack'[u][j] = stack[u][j]
          BY <1>3, <2>1, <3>2, <4>1, <4>2
        <5> QED BY <3>2, <4>2, <5>1 DEF IInv, OwnerInv
      <4> QED BY <1>4, <3>2, <4>1, <4>2
    <3> QED BY <2>1, <2>2, <3>1, <3>2
  <2> QED BY <2>2 DEF OwnerInv, Owner
<1>12. SendsInv'
  <2>1. ASSUME NEW u \in Thread, NEW d \in classes'[u], Superclass[d] \in classes'[u]
        PROVE  Superclass[d] \in pending' \cup finishing' \/ Sends[Superclass[d]] # {}
    <3>1. CASE u = t /\ d = c
      <4>1. Superclass[c] \in classes[t]
        BY <1>4, <1>7, <2>1, <3>1
      <4>2. CASE Initializes(t, Superclass[c])
        <5>1. PICK i \in 1 .. n : Owner(stack[t][i]) /\ stack[t][i].cls = Superclass[c]
          BY <1>1, <4>2 DEF Initializes
        <5>2. i \in DOMAIN stack[t] /\ i < Len(stack[t]) /\ stack[t][i].pc # "mark"
          BY <1>0, <1>1, <5>1 DEF Owner
        <5>3. Sends[stack[t][i].cls] # {}
          BY <5>2 DEF IInv, NestInv, NestOK
        <5> QED BY <3>1, <5>1, <5>3
      <4> QED BY <1>0, <3>1, <4>1, <4>2 DEF IInv, ClassesInv
    <3>2. CASE d \in classes[u] /\ d \in Class
      <4>1. state[d] = "initializing"
        BY <3>2 DEF IInv, ClassesInv
      <4>2. Superclass[d] # c
        <5>1. SUFFICES ASSUME Superclass[d] = c PROVE FALSE
          OBVIOUS
        <5>2. state[c] # "uninitialized"
          BY <3>2, <4>1, <5>1, <1>1, NilAssumption DEF IInv, Contiguous
        <5>3. MultithreadedForkChild /\ u \in alive
          BY <1>2, <3>2, <5>2 DEF IInv, AliveInv
        <5> QED BY <1>1, <1>2, <1>6, <3>2, <5>1, <5>2, <5>3, NilAssumption DEF IInv, Contiguous
      <4> QED BY <1>0, <1>4, <2>1, <3>2, <4>2 DEF IInv, SendsInv
    <3> QED BY <1>4, <3>1, <3>2
  <2> QED BY <2>1 DEF SendsInv
<1>13. Contiguous'
  <2>1. ASSUME NEW d \in Class, Superclass[d] # nil
        PROVE  /\ state'[d] # "uninitialized" => state'[Superclass[d]] # "uninitialized"
               /\ state'[d] = "initialized" => state'[Superclass[d]] = "initialized"
    <3>1. Superclass[d] \in Class
      BY <2>1, SuperclassAssumption
    <3>2. CASE d = c
      BY <1>5, <1>7, <2>1, <3>1, <3>2 DEF SuperUsable, Usable, IInv, ClassesInv
    <3>3. CASE d # c
      BY <1>5, <2>1, <3>1, <3>3 DEF IInv, Contiguous
    <3> QED BY <3>2, <3>3
  <2>2. ASSUME NEW d \in Class, Superclass[d] # nil, NEW u \in alive', d \in classes'[u],
               state'[Superclass[d]] = "initializing"
        PROVE  Superclass[d] \in classes'[u]
    <3>1. Superclass[d] \in Class /\ u \in Thread /\ u \in alive
      BY <1>0, <2>2, SuperclassAssumption DEF TypeOK
    <3>2. CASE u = t /\ d = c
      BY <1>4, <1>5, <1>7, <2>2, <3>1, <3>2 DEF SuperUsable, Usable
    <3>3. CASE d \in classes[u]
      <4>1. state[d] = "initializing"
        BY <3>1, <3>3 DEF IInv, ClassesInv
      <4>2. state[Superclass[d]] # "uninitialized"
        BY <2>2, <4>1 DEF IInv, Contiguous
      <4>3. state[Superclass[d]] = "initializing"
        BY <1>2, <1>5, <2>2, <3>1, <4>2
      <4> QED BY <1>4, <2>2, <3>1, <3>3, <4>3 DEF IInv, Contiguous
    <3> QED BY <1>4, <2>2, <3>1, <3>2, <3>3
  <2> QED BY <2>1, <2>2 DEF Contiguous
<1>14. NestInv' /\ FrameInv' /\ AliveInv'
  <2>1. FrameOK(t, n)'
    <3>1. SuperUsable(t, c)'
      BY <1>4, <1>5, <1>7, SuperclassAssumption DEF SuperUsable, Usable
    <3> QED BY <1>0, <1>2, <1>3, <3>1 DEF FrameOK, MultithreadedForkChild
  <2>2. NestOK(t, n)'
    BY <1>3 DEF NestOK
  <2>3. \A i \in DOMAIN stack'[t] : i >= n => NestOK(t, i)' /\ FrameOK(t, i)'
    BY <1>3, <2>1, <2>2
  <2>4. \A d \in Class : state'[d] = state[d] \/ (state[d] = "uninitialized" /\ state'[d] = "initializing")
    BY <1>2, <1>5
  <2>5. \A i \in 1 .. n - 1 : i \in DOMAIN stack'[t] /\ stack'[t][i] = stack[t][i] /\ i # Len(stack'[t])
    BY <1>3
  <2>6. \A u \in Thread : classes[u] \subseteq classes'[u]
    BY <1>4
  <2> QED BY <1>0, <1>1, <1>3, <1>4, <2>3, <2>4, <2>5, <2>6, FromFrames
<1>15. FinishingInv'
  <2>1. classInitLock # t /\ (classInitLock # nil => classInitLock \in Thread \ {t})
    BY <1>0, HolderFinishing DEF TypeOK
  <2>2. classInitLock # nil => stack'[classInitLock] = stack[classInitLock]
    BY <1>3, <2>1 DEF OthersStay
  <2>3. \A d \in finishing : superInitialized(d)'
    BY <1>0, <1>5, SuperclassAssumption DEF IInv, FinishingInv, superInitialized, TypeOK
  <2>4. finishing # {} => classInitLock \in Thread \ {t}
    BY <2>1 DEF IInv, FinishingInv
  <2>5. ASSUME NEW d \in finishing
        PROVE d \in classes'[classInitLock] /\ ~Initializes(classInitLock, d)'
    <3>1. d \in Class /\ classInitLock \in Thread \ {t} /\ ~Initializes(classInitLock, d)
          /\ d \in classes[classInitLock]
      BY <1>0, <2>4 DEF IInv, FinishingInv, TypeOK
    <3> QED BY <1>0, <1>4, <1>8, <3>1
  <2> QED BY <1>0, <2>1, <2>2, <2>3, <2>5 DEF IInv, FinishingInv, top
<1>16. PendingInv'
  <2>1. PICK D \in SUBSET Class :
          /\ Doomed(D)
          /\ \A d \in pending :
               /\ Superclass[d] # nil /\ state[Superclass[d]] # "initialized"
               /\ state[d] = "initializing"
               /\ Superclass[d] \in D \/ \E u \in alive : d \in classes[u] /\ ~Initializes(u, d)
    BY DEF IInv, PendingInv
  <2>2. ASSUME NEW s \in D, Superclass[s] \notin D,
               NEW u \in alive, NEW i \in DOMAIN stack'[u], stack'[u][i].cls = s
        PROVE  stack'[u][i].pc \notin {"body", "finish"}
    <3>1. /\ state[s] = "initializing"
          /\ \A j \in DOMAIN stack[u] : stack[u][j].cls = s => stack[u][j].pc \notin {"body", "finish"}
      BY <2>1, <2>2 DEF Doomed
    <3>2. CASE u # t
      BY <1>0, <1>3, <2>2, <3>1, <3>2 DEF OthersStay, TypeOK
    <3>3. CASE u = t /\ i = n
      BY <1>2, <1>3, <2>2, <3>1, <3>3
    <3>4. CASE u = t /\ i \in 1 .. n - 1
      BY <1>1, <1>3, <2>2, <3>1, <3>4
    <3> QED BY <1>3, <3>2, <3>3, <3>4
  <2>3. \A s \in D : state'[s] = "initializing"
    BY <1>5, <2>1 DEF Doomed
  <2>4. Doomed(D)'
    BY <1>0, <2>1, <2>2, <2>3 DEF Doomed, MultithreadedForkChild
  <2>5. ASSUME NEW d \in pending'
        PROVE  /\ Superclass[d] # nil /\ state'[Superclass[d]] # "initialized"
               /\ state'[d] = "initializing"
               /\ Superclass[d] \in D \/ \E u \in alive' : d \in classes'[u] /\ ~Initializes(u, d)'
    <3>1. d \in pending /\ d \in Class /\ Superclass[d] \in Class
      BY <1>0, <2>1, SuperclassAssumption DEF TypeOK
    <3>2. ASSUME NEW u \in alive, d \in classes[u], ~Initializes(u, d)
          PROVE  d \in classes'[u] /\ ~Initializes(u, d)'
      BY <1>0, <1>4, <1>6, <1>8, <3>1, <3>2 DEF TypeOK
    <3> QED BY <1>0, <1>5, <2>1, <3>1, <3>2
  <2> QED BY <2>4, <2>5 DEF PendingInv
<1> QED BY <1>9, <1>10, <1>11, <1>12, <1>13, <1>14, <1>15, <1>16 DEF IInv


\* The method of c is done, and its frame with it.
LEMMA OwnerGone ==
  ASSUME IInv, NEW t \in Thread, OthersStay(t), NEW c \in Class, NEW n \in Nat \ {0},
         DOMAIN stack[t] = 1 .. n, stack[t][n].cls = c, stack[t][n].pc = "finish",
         DOMAIN stack'[t] \subseteq 1 .. n,
         \A i \in 1 .. n - 1 : i \in DOMAIN stack'[t] /\ stack'[t][i] = stack[t][i],
         n \in DOMAIN stack'[t] => stack'[t][n].pc = "finishing",
         UNCHANGED <<state, classes, alive>>, c \in pending' \cup finishing',
         pending \subseteq pending', finishing \subseteq finishing'
  PROVE  /\ \A u \in Thread, d \in Class :
              Initializes(u, d)' <=> Initializes(u, d) /\ ~(u = t /\ d = c)
         /\ ClassesInv' /\ OwnerInv' /\ SendsInv' /\ Contiguous'
         /\ \A u \in Thread : \A i \in DOMAIN stack'[u] :
              stack'[u][i].pc \in {"body", "finish"} =>
                i \in DOMAIN stack[u] /\ stack'[u][i] = stack[u][i]
<1>1. c \in classes[t] /\ \A j \in 1 .. n : Owner(stack[t][j]) /\ stack[t][j].cls = c => j = n
  BY DEF IInv, OwnerInv, Owner
<1>2. ASSUME NEW u \in Thread, NEW i \in DOMAIN stack'[u],
             Owner(stack'[u][i]) \/ stack'[u][i].pc \in {"body", "finish"}
      PROVE  /\ i \in DOMAIN stack[u] /\ stack'[u][i] = stack[u][i]
             /\ Owner(stack[u][i]) /\ Owner(stack'[u][i]) /\ (u = t => i \in 1 .. n - 1)
  <2>1. CASE u # t
    BY <1>2, <2>1 DEF OthersStay, Owner
  <2>2. CASE u = t
    <3>1. i \in 1 .. n - 1
      BY <1>2, <2>2 DEF Owner
    <3> QED BY <1>2, <2>2, <3>1 DEF Owner
  <2> QED BY <2>1, <2>2
<1>3. ASSUME NEW u \in Thread, NEW d \in Class
      PROVE  Initializes(u, d)' <=> Initializes(u, d) /\ ~(u = t /\ d = c)
  <2>1. Initializes(u, d)' => Initializes(u, d)
    BY <1>2 DEF Initializes, Owner
  <2>2. ~Initializes(t, c)'
    <3>1. ASSUME NEW i \in DOMAIN stack'[t], Owner(stack'[t][i]) PROVE stack'[t][i].cls # c
      BY <1>1, <1>2, <3>1
    <3> QED BY <3>1 DEF Initializes, Owner
  <2>3. ASSUME Initializes(u, d), ~(u = t /\ d = c) PROVE Initializes(u, d)'
    <3>1. PICK i \in DOMAIN stack[u] : Owner(stack[u][i]) /\ stack[u][i].cls = d
      BY <2>3 DEF Initializes
    <3>2. i \in DOMAIN stack'[u] /\ stack'[u][i] = stack[u][i]
      <4>1. CASE u # t
        BY <4>1 DEF OthersStay
      <4>2. CASE u = t
        <5>1. i # n
          BY <2>3, <3>1, <4>2
        <5> QED BY <4>2, <5>1
      <4> QED BY <4>1, <4>2
    <3> QED BY <3>1, <3>2 DEF Initializes, Owner
  <2> QED BY <2>1, <2>2, <2>3
<1>4. classes \in [Thread -> SUBSET Class]
  BY DEF IInv, TypeOK
<1>5. ClassesInv'
  <2>1. ASSUME NEW u \in Thread, NEW d \in classes[u]
        PROVE  state[d] = "initializing" /\ (d \in pending' \cup finishing' \/ Initializes(u, d)')
    BY <1>3, <1>4 DEF IInv, ClassesInv
  <2> QED BY <2>1 DEF IInv, ClassesInv
<1>6. OwnerInv'
  <2>1. ASSUME NEW u \in Thread, NEW i \in DOMAIN stack'[u], Owner(stack'[u][i])
        PROVE  /\ stack'[u][i].cls \in classes'[u]
               /\ \A j \in DOMAIN stack'[u] :
                    Owner(stack'[u][j]) /\ stack'[u][j].cls = stack'[u][i].cls => i = j
    BY <1>2, <2>1 DEF IInv, OwnerInv
  <2> QED BY <2>1 DEF OwnerInv, Owner
<1>7. SendsInv' /\ Contiguous'
  BY DEF IInv, SendsInv, Contiguous
<1> QED BY <1>2, <1>3, <1>5, <1>6, <1>7

\* The method is done and the superclass too: the class is to be marked.
LEMMA FinishLocksInv ==
  ASSUME IInv, NEW t \in Thread, t \in alive, FinishLocks(t) PROVE IInv'
<1>0. /\ TypeOK /\ stack[t] # <<>> /\ top(t).pc = "finish" /\ classInitLock = nil
      /\ classInitLock' = t /\ UNCHANGED <<state, pending, classes, alive, halted>>
      /\ finishing = {}
  BY DEF FinishLocks, Moves, IInv, FinishingInv
<1>1. PICK c \in Class, n \in Nat \ {0} :
        /\ c = top(t).cls /\ n = Len(stack[t]) /\ DOMAIN stack[t] = 1 .. n
        /\ top(t) = stack[t][n] /\ FrameOK(t, n)
  BY <1>0, Innermost
<1>2. /\ Replaces(t, [cls |-> c, pc |-> "finishing"]) /\ superInitialized(c) /\ finishing' = {c}
  BY <1>1 DEF FinishLocks, Moves
<1>3. /\ OthersStay(t) /\ DOMAIN stack'[t] = 1 .. n /\ Len(stack'[t]) = n
      /\ \A i \in 1 .. n - 1 : stack'[t][i] = stack[t][i]
      /\ stack'[t][n].cls = c /\ stack'[t][n].pc = "finishing"
  BY <1>1, <1>2, FramesNext DEF Replaces
<1>4. /\ \A u \in Thread, d \in Class :
           Initializes(u, d)' <=> Initializes(u, d) /\ ~(u = t /\ d = c)
      /\ ClassesInv' /\ OwnerInv' /\ SendsInv' /\ Contiguous'
      /\ \A u \in Thread : \A i \in DOMAIN stack'[u] :
           stack'[u][i].pc \in {"body", "finish"} =>
             i \in DOMAIN stack[u] /\ stack'[u][i] = stack[u][i]
  <2>1. /\ stack[t][n].cls = c /\ stack[t][n].pc = "finish" /\ DOMAIN stack'[t] \subseteq 1 .. n
        /\ \A i \in 1 .. n - 1 : i \in DOMAIN stack'[t] /\ stack'[t][i] = stack[t][i]
        /\ c \in pending' \cup finishing' /\ pending \subseteq pending' /\ finishing \subseteq finishing'
    BY <1>0, <1>1, <1>2, <1>3
  <2> QED BY <1>0, <1>1, <1>3, <2>1, OwnerGone
<1>5. TypeOK' /\ halted' # "fatal"
  BY <1>0, <1>2, <1>3 DEF IInv, TypeOK, OthersStay, FrameSet
<1>6. c \in classes[t] /\ Len(stack[t]) \in DOMAIN stack[t]
  BY <1>0, <1>1 DEF IInv, OwnerInv, Owner
<1>7. NestInv' /\ FrameInv' /\ AliveInv'
  <2>1. FrameOK(t, n)'
    BY <1>0, <1>1, <1>2, <1>3 DEF FrameOK, SuperUsable, Usable
  <2>2. NestOK(t, n)'
    BY <1>3 DEF NestOK
  <2>3. \A i \in DOMAIN stack'[t] : i >= n => NestOK(t, i)' /\ FrameOK(t, i)'
    BY <1>3, <2>1, <2>2
  <2>4. \A i \in 1 .. n - 1 : i \in DOMAIN stack'[t] /\ stack'[t][i] = stack[t][i] /\ i # Len(stack'[t])
    BY <1>3
  <2>5. \A u \in Thread : classInitLock # u
    BY <1>0, NilAssumption
  <2> QED BY <1>0, <1>1, <1>3, <2>3, <2>4, <2>5, FromFrames
<1>8. FinishingInv'
  <2>1. t # nil /\ stack'[t] # <<>> /\ top(t)'.pc = "finishing"
    BY <1>3, NilAssumption DEF top, Last
  <2>2. superInitialized(c)'
    BY <1>0, <1>2 DEF superInitialized
  <2> QED BY <1>0, <1>2, <1>4, <1>6, <2>1, <2>2 DEF FinishingInv
<1>9. PendingInv'
  <2>1. PICK D \in SUBSET Class :
          /\ Doomed(D)
          /\ \A d \in pending :
               /\ Superclass[d] # nil /\ state[Superclass[d]] # "initialized"
               /\ state[d] = "initializing"
               /\ Superclass[d] \in D \/ \E u \in alive : d \in classes[u] /\ ~Initializes(u, d)
    BY DEF IInv, PendingInv
  <2>2. c \notin D
    <3>1. SUFFICES ASSUME c \in D PROVE FALSE
      OBVIOUS
    <3>2. Superclass[c] \in D
      BY <1>0, <1>1, <1>6, <2>1, <3>1 DEF Doomed
    <3> QED BY <1>2, <2>1, <3>1, <3>2 DEF Doomed, superInitialized
  <2>3. Doomed(D)'
    BY <1>0, <1>2, <1>4, <2>1, <2>2 DEF Doomed, MultithreadedForkChild, TypeOK
  <2>4. \A d \in pending : (\E u \in alive : d \in classes[u] /\ ~Initializes(u, d))
                             => \E u \in alive : d \in classes[u] /\ ~Initializes(u, d)'
    BY <1>0, <1>4 DEF TypeOK
  <2> QED BY <1>0, <2>1, <2>3, <2>4 DEF PendingInv
<1> QED BY <1>4, <1>5, <1>7, <1>8, <1>9 DEF IInv

\* The method is done before the superclass: the class is pending.
LEMMA FinishWaitsInv ==
  ASSUME IInv, NEW t \in Thread, t \in alive, FinishWaits(t) PROVE IInv'
<1>0. /\ TypeOK /\ stack[t] # <<>> /\ top(t).pc = "finish" /\ classInitLock = nil /\ Pops(t)
      /\ UNCHANGED <<state, classInitLock, finishing, classes, alive, halted>>
      /\ finishing = {}
  BY DEF FinishWaits, Leaves, IInv, FinishingInv
<1>1. PICK c \in Class, n \in Nat \ {0} :
        /\ c = top(t).cls /\ n = Len(stack[t]) /\ DOMAIN stack[t] = 1 .. n
        /\ top(t) = stack[t][n]
  BY <1>0, Innermost
<1>2. ~superInitialized(c) /\ pending' = pending \cup {c}
  BY <1>1 DEF FinishWaits
<1>3. /\ OthersStay(t) /\ DOMAIN stack'[t] = 1 .. n - 1 /\ Len(stack'[t]) = n - 1
      /\ \A i \in 1 .. n - 1 : stack'[t][i] = stack[t][i]
  BY <1>0, <1>1, FramesNext DEF Pops
<1>4. /\ \A u \in Thread, d \in Class :
           Initializes(u, d)' <=> Initializes(u, d) /\ ~(u = t /\ d = c)
      /\ ClassesInv' /\ OwnerInv' /\ SendsInv' /\ Contiguous'
      /\ \A u \in Thread : \A i \in DOMAIN stack'[u] :
           stack'[u][i].pc \in {"body", "finish"} =>
             i \in DOMAIN stack[u] /\ stack'[u][i] = stack[u][i]
  <2>1. /\ stack[t][n].cls = c /\ stack[t][n].pc = "finish" /\ DOMAIN stack'[t] \subseteq 1 .. n
        /\ \A i \in 1 .. n - 1 : i \in DOMAIN stack'[t] /\ stack'[t][i] = stack[t][i]
        /\ n \notin DOMAIN stack'[t]
        /\ c \in pending' \cup finishing' /\ pending \subseteq pending' /\ finishing \subseteq finishing'
    BY <1>0, <1>1, <1>2, <1>3
  <2> QED BY <1>0, <1>1, <1>3, <2>1, OwnerGone
<1>5. TypeOK' /\ halted' # "fatal"
  BY <1>0, <1>2, <1>3 DEF IInv, TypeOK, OthersStay, FrameSet
<1>6. c \in classes[t] /\ Len(stack[t]) \in DOMAIN stack[t] /\ state[c] = "initializing"
  BY <1>0, <1>1 DEF IInv, OwnerInv, Owner, ClassesInv
<1>7. NestInv' /\ FrameInv' /\ AliveInv'
  BY <1>0, <1>1, <1>6, PopsFrames DEF Usable
<1>8. FinishingInv'
  BY <1>0 DEF FinishingInv
<1>9. PendingInv'
  <2>1. PICK D \in SUBSET Class :
          /\ Doomed(D)
          /\ \A d \in pending :
               /\ Superclass[d] # nil /\ state[Superclass[d]] # "initialized"
               /\ state[d] = "initializing"
               /\ Superclass[d] \in D \/ \E u \in alive : d \in classes[u] /\ ~Initializes(u, d)
    BY DEF IInv, PendingInv
  <2>2. c \in D => Superclass[c] \in D
    BY <1>0, <1>1, <1>6, <2>1 DEF Doomed
  <2>3. Doomed(D)'
    BY <1>0, <1>2, <1>4, <2>1, <2>2 DEF Doomed, MultithreadedForkChild, TypeOK
  <2>4. \A d \in pending : (\E u \in alive : d \in classes[u] /\ ~Initializes(u, d))
                             => \E u \in alive : d \in classes[u] /\ ~Initializes(u, d)'
    BY <1>0, <1>4 DEF TypeOK
  <2>5. c \in classes[t] /\ ~Initializes(t, c)' /\ Superclass[c] # nil
        /\ state[Superclass[c]] # "initialized"
    BY <1>2, <1>4, <1>6 DEF superInitialized
  <2> QED BY <1>0, <1>2, <1>6, <2>1, <2>3, <2>4, <2>5 DEF PendingInv
<1> QED BY <1>4, <1>5, <1>7, <1>8, <1>9 DEF IInv


\* A class is marked: the classes that waited for it are the lock holder's to mark too.
LEMMA SetInitializedInv ==
  ASSUME IInv, NEW t \in Thread, NEW c \in Class, SetInitialized(t, c) PROVE IInv'
<1>0. /\ TypeOK /\ t \in alive /\ stack[t] # <<>> /\ top(t).pc = "finishing" /\ c \in finishing
      /\ stack' = Woken /\ UNCHANGED <<classInitLock, alive>>
      /\ finishing' = (finishing \ {c}) \cup {d \in pending : Superclass[d] = c}
      /\ pending' = {d \in pending : Superclass[d] # c}
  BY DEF SetInitialized, At, IInv
<1>1. /\ state' \in [Class -> {"uninitialized", "initializing", "initialized"}]
      /\ state'[c] = "initialized" /\ \A d \in Class \ {c} : state'[d] = state[d]
      /\ classes' \in [Thread -> SUBSET Class] /\ classes'[t] = classes[t] \ {c}
      /\ \A u \in Thread \ {t} : classes'[u] = classes[u]
  BY <1>0 DEF SetInitialized, TypeOK
<1>2. classInitLock = t /\ t # nil
  BY <1>0, HolderFinishing, NilAssumption
<1>3. /\ c \in classes[t] /\ superInitialized(c) /\ ~Initializes(t, c)
      /\ state[c] = "initializing" /\ \A u \in Thread \ {t} : c \notin classes[u]
  BY <1>0, <1>2 DEF IInv, FinishingInv, ClassesInv
<1>4. halted' = "no"
  BY <1>3 DEF SetInitialized, thisThreadIsInitializingClass
<1>5. ASSUME NEW u \in Thread
      PROVE  /\ stack' \in [Thread -> Seq(FrameSet)]
             /\ Len(stack'[u]) = Len(stack[u]) /\ Len(stack[u]) \in Nat
             /\ DOMAIN stack[u] = 1 .. Len(stack[u]) /\ DOMAIN stack'[u] = 1 .. Len(stack[u])
             /\ stack'[u] = <<>> <=> stack[u] = <<>>
             /\ \A i \in 1 .. Len(stack[u]) :
                  /\ stack'[u][i].cls = stack[u][i].cls /\ stack[u][i].cls \in Class
                  /\ \/ stack'[u][i].pc = stack[u][i].pc
                     \/ /\ i = Len(stack[u])
                        /\ stack[u][i].pc = "asleep" /\ stack'[u][i].pc = "wait"
  <2>1. /\ stack' \in [Thread -> Seq(FrameSet)] /\ Len(stack'[u]) = Len(stack[u])
        /\ \A i \in 1 .. Len(stack[u]) :
             /\ stack'[u][i].cls = stack[u][i].cls
             /\ \/ stack'[u][i].pc = stack[u][i].pc
                \/ /\ i = Len(stack[u])
                   /\ stack[u][i].pc = "asleep" /\ stack'[u][i].pc = "wait"
    BY <1>0, WokenEffect
  <2>2. stack'[u] \in Seq(FrameSet)
    BY <2>1
  <2>3. DOMAIN stack'[u] = 1 .. Len(stack'[u]) /\ (stack'[u] = <<>> <=> Len(stack'[u]) = 0)
    BY <2>2
  <2> QED BY <1>0, <2>1, <2>3, Frames
<1>6. \A u \in Thread : \A i \in DOMAIN stack[u] : Owner(stack'[u][i]) <=> Owner(stack[u][i])
  BY <1>5 DEF Owner
<1>7. \A u \in Thread, d \in Class : Initializes(u, d)' <=> Initializes(u, d)
  <2>1. ASSUME NEW u \in Thread, NEW d \in Class PROVE Initializes(u, d)' <=> Initializes(u, d)
    <3>1. DOMAIN stack'[u] = DOMAIN stack[u]
          /\ \A i \in DOMAIN stack[u] : stack'[u][i].cls = stack[u][i].cls
      BY <1>5
    <3> QED BY <1>6, <3>1 DEF Initializes, Owner
  <2> QED BY <2>1
<1>8. TypeOK'
  <2>1. stack' \in [Thread -> Seq(FrameSet)]
    BY <1>5
  <2> QED BY <1>0, <1>1, <1>4, <2>1 DEF TypeOK, FrameSet
<1>9. AliveInv'
  BY <1>0, <1>1, <1>5 DEF IInv, AliveInv
<1>10. ClassesInv'
  <2>1. ASSUME NEW u \in Thread, NEW d \in classes'[u]
        PROVE  /\ d \in Class /\ d # c /\ d \in classes[u]
    BY <1>1, <1>3
  <2>2. \A u \in Thread : \A v \in Thread \ {u} : classes'[u] \cap classes'[v] = {}
    BY <2>1 DEF IInv, ClassesInv
  <2>3. ASSUME NEW u \in Thread, NEW d \in classes'[u]
        PROVE  state'[d] = "initializing" /\ (d \in pending' \cup finishing' \/ Initializes(u, d)')
    BY <1>0, <1>1, <1>7, <2>1 DEF IInv, ClassesInv
  <2> QED BY <2>2, <2>3 DEF ClassesInv
<1>11. NestInv'
  <2>1. ASSUME NEW u \in Thread, NEW i \in DOMAIN stack'[u] PROVE NestOK(u, i)'
    <3>1. i \in DOMAIN stack[u] /\ i \in 1 .. Len(stack[u]) /\ NestOK(u, i)
      BY <1>5 DEF IInv, NestInv
    <3>2. i < Len(stack[u]) => /\ stack'[u][i].pc = stack[u][i].pc
                               /\ i + 1 \in 1 .. Len(stack[u])
      BY <1>5, <3>1
    <3>3. i < Len(stack[u]) => stack'[u][i + 1].cls = stack[u][i + 1].cls
      BY <1>5, <3>2
    <3>4. stack'[u][i].cls = stack[u][i].cls /\ Len(stack'[u]) = Len(stack[u])
      BY <1>5, <3>1
    <3> QED BY <3>1, <3>2, <3>3, <3>4 DEF NestOK
  <2> QED BY <2>1 DEF NestInv
<1>12. FrameInv'
  <2>1. \A u \in Thread, d \in Class : SuperUsable(u, d) => SuperUsable(u, d)'
    BY <1>1, <1>3, SuperclassAssumption DEF SuperUsable, Usable
  <2>2. ASSUME NEW u \in Thread, NEW i \in DOMAIN stack'[u] PROVE FrameOK(u, i)'
    <3>1. /\ i \in DOMAIN stack[u] /\ i \in 1 .. Len(stack[u]) /\ FrameOK(u, i)
          /\ stack'[u][i].cls = stack[u][i].cls /\ stack[u][i].cls \in Class
          /\ Len(stack'[u]) = Len(stack[u])
          /\ \/ stack'[u][i].pc = stack[u][i].pc
             \/ stack[u][i].pc = "asleep" /\ stack'[u][i].pc = "wait"
      BY <1>5 DEF IInv, FrameInv
    <3>2. PICK d \in Class, l \in Place, k \in Place :
            d = stack[u][i].cls /\ l = stack[u][i].pc /\ k = stack'[u][i].pc
      <4>1. stack[u][i].pc \in Place
        BY <1>0, <3>1, Frames
      <4> QED BY <3>1, <4>1 DEF Place
    <3>3. l # "super" /\ (l = "mark" => i = Len(stack[u])) => SuperUsable(u, d)
      BY <3>1, <3>2 DEF FrameOK
    <3>4. k # "super" /\ (k = "mark" => i = Len(stack'[u])) => SuperUsable(u, d)'
      BY <2>1, <3>1, <3>2, <3>3
    <3>5. /\ k = "fork" => MultithreadedForkChild'
          /\ k = "check_initializing" => state'[d] # "uninitialized"
          /\ k = "check_initialized" => state'[d] = "initialized"
          /\ k = "finishing" => classInitLock' = u /\ (d \in finishing' \/ state'[d] = "initialized")
      BY <1>0, <1>1, <3>1, <3>2 DEF FrameOK, MultithreadedForkChild
    <3> QED BY <3>1, <3>2, <3>4, <3>5 DEF FrameOK
  <2> QED BY <2>2 DEF FrameInv
<1>13. OwnerInv'
  <2>1. ASSUME NEW u \in Thread, NEW i \in DOMAIN stack'[u], Owner(stack'[u][i])
        PROVE  /\ stack'[u][i].cls \in classes'[u]
               /\ \A j \in DOMAIN stack'[u] :
                    Owner(stack'[u][j]) /\ stack'[u][j].cls = stack'[u][i].cls => i = j
    <3>1. DOMAIN stack'[u] = DOMAIN stack[u]
          /\ \A j \in DOMAIN stack[u] : stack'[u][j].cls = stack[u][j].cls
      BY <1>5
    <3>2. i \in DOMAIN stack[u] /\ Owner(stack[u][i])
      BY <1>6, <2>1, <3>1
    <3>3. stack[u][i].cls \in classes[u] /\ (u = t => stack[u][i].cls # c)
      BY <1>3, <3>2 DEF IInv, OwnerInv, Initializes
    <3> QED BY <1>1, <1>6, <2>1, <3>1, <3>2, <3>3 DEF IInv, OwnerInv
  <2> QED BY <2>1 DEF OwnerInv, Owner
<1>14. SendsInv'
  <2>1. \A d \in pending \cup finishing : d # c => d \in pending' \cup finishing'
    BY <1>0
  <2>2. \A u \in Thread : \A d \in classes'[u] : d \in classes[u] /\ d # c
    BY <1>1, <1>3
  <2> QED BY <2>1, <2>2 DEF IInv, SendsInv
<1>15. Contiguous'
  <2>1. ASSUME NEW d \in Class, Superclass[d] # nil
        PROVE  /\ state'[d] # "uninitialized" => state'[Superclass[d]] # "uninitialized"
               /\ state'[d] = "initialized" => state'[Superclass[d]] = "initialized"
    <3>1. Superclass[d] \in Class
      BY <2>1, SuperclassAssumption
    <3> QED BY <1>1, <1>3, <2>1, <3>1 DEF IInv, Contiguous, superInitialized
  <2>2. ASSUME NEW d \in Class, Superclass[d] # nil, NEW u \in alive', d \in classes'[u],
               state'[Superclass[d]] = "initializing"
        PROVE  Superclass[d] \in classes'[u]
    <3>1. Superclass[d] \in Class /\ u \in Thread /\ u \in alive /\ d \in classes[u]
      BY <1>0, <1>1, <2>2, SuperclassAssumption DEF TypeOK
    <3>2. Superclass[d] # c /\ state[Superclass[d]] = "initializing"
      BY <1>1, <2>2, <3>1
    <3>3. Superclass[d] \in classes[u]
      BY <2>2, <3>1, <3>2 DEF IInv, Contiguous
    <3> QED BY <1>1, <3>1, <3>2, <3>3
  <2> QED BY <2>1, <2>2 DEF Contiguous
<1>16. PICK D \in SUBSET Class :
         /\ Doomed(D)
         /\ \A d \in pending :
              /\ Superclass[d] # nil /\ state[Superclass[d]] # "initialized"
              /\ state[d] = "initializing"
              /\ Superclass[d] \in D \/ \E u \in alive : d \in classes[u] /\ ~Initializes(u, d)
  BY DEF IInv, PendingInv
<1>17. c \notin D /\ c \notin pending
  BY <1>0, <1>3, <1>16 DEF Doomed, superInitialized
<1>18. FinishingInv'
  <2>1. ASSUME NEW d \in pending, Superclass[d] = c
        PROVE  d \in classes[t] /\ d # c /\ superInitialized(d)' /\ ~Initializes(t, d)'
    <3>1. PICK u \in alive : d \in classes[u] /\ ~Initializes(u, d)
      BY <1>16, <1>17, <2>1
    <3>2. d \in Class /\ u \in Thread /\ Superclass[d] # nil
      BY <1>0, <1>16 DEF TypeOK
    <3>3. c \in classes[u]
      BY <1>3, <2>1, <3>1, <3>2 DEF IInv, Contiguous
    <3>4. u = t
      BY <1>3, <3>2, <3>3
    <3> QED BY <1>1, <1>7, <1>17, <2>1, <3>1, <3>2, <3>4 DEF superInitialized
  <2>2. ASSUME NEW d \in finishing, d # c
        PROVE  d \in classes[t] /\ superInitialized(d)' /\ ~Initializes(t, d)'
    <3>1. d \in Class /\ d \in classes[t] /\ superInitialized(d) /\ ~Initializes(t, d)
      BY <1>0, <1>2 DEF IInv, FinishingInv, TypeOK
    <3> QED BY <1>1, <1>7, <3>1, SuperclassAssumption DEF superInitialized
  <2>3. \A d \in finishing' :
          d \in classes'[classInitLock] /\ superInitialized(d)' /\ ~Initializes(classInitLock, d)'
    BY <1>0, <1>1, <1>2, <2>1, <2>2
  <2>4. stack'[t] # <<>> /\ top(t)'.pc = "finishing"
    <3>1. Len(stack[t]) \in 1 .. Len(stack[t]) /\ stack[t][Len(stack[t])].pc = "finishing"
      BY <1>0, <1>5, TopFrame
    <3> QED BY <1>0, <1>5, <3>1 DEF top, Last
  <2> QED BY <1>0, <1>2, <2>3, <2>4 DEF FinishingInv
<1>19. PendingInv'
  <2>1. \A s \in D : state'[s] = "initializing" /\ s \notin finishing'
    BY <1>0, <1>1, <1>16, <1>17 DEF Doomed
  <2>2. ASSUME NEW s \in D, Superclass[s] \notin D,
               NEW u \in alive, NEW i \in DOMAIN stack'[u], stack'[u][i].cls = s
        PROVE  stack'[u][i].pc \notin {"body", "finish"}
    <3>1. u \in Thread /\ i \in 1 .. Len(stack[u]) /\ i \in DOMAIN stack[u]
      BY <1>0, <1>5, <2>2 DEF TypeOK
    <3>2. stack[u][i].pc \notin {"body", "finish"}
      BY <1>5, <1>16, <2>2, <3>1 DEF Doomed
    <3> QED BY <1>5, <3>1, <3>2
  <2>3. Doomed(D)'
    BY <1>0, <1>16, <2>1, <2>2 DEF Doomed, MultithreadedForkChild
  <2>4. ASSUME NEW d \in pending'
        PROVE  /\ Superclass[d] # nil /\ state'[Superclass[d]] # "initialized"
               /\ state'[d] = "initializing"
               /\ Superclass[d] \in D \/ \E u \in alive' : d \in classes'[u] /\ ~Initializes(u, d)'
    <3>1. d \in pending /\ d \in Class /\ d # c /\ Superclass[d] \in Class /\ Superclass[d] # c
      BY <1>0, <1>16, <1>17, SuperclassAssumption DEF TypeOK
    <3>2. ASSUME NEW u \in alive, d \in classes[u], ~Initializes(u, d)
          PROVE  d \in classes'[u] /\ ~Initializes(u, d)'
      BY <1>0, <1>1, <1>7, <3>1, <3>2 DEF TypeOK
    <3> QED BY <1>0, <1>1, <1>16, <3>1, <3>2
  <2> QED BY <2>3, <2>4 DEF PendingInv
<1> QED BY <1>4, <1>8, <1>9, <1>10, <1>11, <1>12, <1>13, <1>14, <1>15, <1>18, <1>19 DEF IInv


\* At a fork, what the other threads had begun and not done is left behind. A class of
\* theirs that is pending waits for one whose method was running: not a root, so the
\* child refuses it, or one that is pending too.
LEMMA ForkInv ==
  ASSUME IInv, NEW t \in Thread, Fork(t) PROVE IInv'
<1>0. /\ TypeOK /\ Forks /\ alive = Thread /\ alive' = {t} /\ classInitLock = nil
      /\ UNCHANGED <<state, pending, classInitLock, finishing, halted>>
      /\ finishing = {}
  BY DEF Fork, MultithreadedForkChild, IInv, FinishingInv
<1>1. /\ stack'[t] = stack[t] /\ classes'[t] = classes[t]
      /\ \A u \in Thread \ {t} : stack'[u] = <<>> /\ classes'[u] = {} /\ DOMAIN stack'[u] = {}
  BY DEF Fork
<1>2. TypeOK'
  <2>1. stack' \in [Thread -> Seq(FrameSet)]
    <3>1. stack[t] \in Seq(FrameSet)
      BY <1>0 DEF TypeOK, FrameSet
    <3>2. <<>> \in Seq(FrameSet)
      OBVIOUS
    <3> QED BY <3>1, <3>2 DEF Fork
  <2>2. classes' \in [Thread -> SUBSET Class]
    BY <1>0 DEF Fork, TypeOK
  <2> QED BY <1>0, <2>1, <2>2 DEF TypeOK, FrameSet
<1>3. AliveInv' /\ FinishingInv' /\ halted' # "fatal"
  BY <1>0, <1>1 DEF AliveInv, FinishingInv, IInv
<1>4. \A c \in Class : Initializes(t, c)' <=> Initializes(t, c)
  BY <1>1 DEF Initializes
<1>5. ClassesInv'
  BY <1>0, <1>1, <1>4 DEF IInv, ClassesInv, TypeOK
<1>6. NestInv'
  BY <1>1 DEF IInv, NestInv, NestOK
<1>7. FrameInv'
  <2>1. ASSUME NEW i \in DOMAIN stack'[t] PROVE FrameOK(t, i)'
    <3>1. FrameOK(t, i)
      BY <1>1, <2>1 DEF IInv, FrameInv
    <3> QED BY <1>0, <1>1, <3>1 DEF FrameOK, SuperUsable, Usable, MultithreadedForkChild
  <2> QED BY <1>1, <2>1 DEF FrameInv
<1>8. OwnerInv'
  BY <1>1 DEF IInv, OwnerInv
<1>9. SendsInv' /\ Contiguous'
  BY <1>0, <1>1 DEF IInv, SendsInv, Contiguous
<1>10. PendingInv'
  <2>0. PICK D \in SUBSET Class :
          D = {c \in Class : /\ \E u \in Thread \ {t} : c \in classes[u]
                             /\ Superclass[c] # nil
                             /\ c \in pending \/ Sends[c] # {}}
    OBVIOUS
  <2>1. \A c \in pending : /\ c \in Class /\ Superclass[c] # nil /\ state[c] = "initializing"
                           /\ state[Superclass[c]] # "initialized"
                           /\ \E u \in Thread : c \in classes[u] /\ ~Initializes(u, c)
    BY <1>0 DEF IInv, PendingInv, Doomed, MultithreadedForkChild, TypeOK
  <2>2. ASSUME NEW c \in pending, NEW u \in Thread \ {t}, c \in classes[u]
        PROVE  Superclass[c] \in D
    <3>1. Superclass[c] \in Class
      BY <2>1, SuperclassAssumption
    <3>2. state[Superclass[c]] = "initializing"
      BY <1>0, <2>1, <3>1 DEF IInv, Contiguous, TypeOK
    <3>3. Superclass[c] \in classes[u]
      BY <1>0, <2>1, <2>2, <3>2 DEF IInv, Contiguous
    <3>4. Superclass[c] \in pending \/ Sends[Superclass[c]] # {}
      BY <1>0, <2>2, <3>3 DEF IInv, SendsInv
    <3>5. Superclass[Superclass[c]] # nil
      BY <1>0, <2>1, <3>1, <3>4, RootAssumption
    <3> QED BY <2>0, <3>1, <3>3, <3>4, <3>5
  <2>3. Doomed(D)'
    <3>1. ~MultithreadedForkChild' => D = {}
      BY <1>0, <2>0 DEF MultithreadedForkChild
    <3>2. ASSUME NEW s \in D
          PROVE  /\ state[s] = "initializing" /\ s \notin finishing /\ Superclass[s] # nil
                 /\ \/ Superclass[s] \in D
                    \/ /\ s \notin Trivial \cup pending
                       /\ \A i \in DOMAIN stack[t] :
                            stack[t][i].cls = s => stack[t][i].pc \notin {"body", "finish"}
      <4>1. PICK u \in Thread \ {t} : s \in classes[u] /\ Superclass[s] # nil
        BY <2>0
      <4>2. state[s] = "initializing" /\ s \notin classes[t]
        BY <4>1 DEF IInv, ClassesInv
      <4>3. \A i \in DOMAIN stack[t] :
              stack[t][i].cls = s => stack[t][i].pc \notin {"body", "finish"}
        BY <4>2 DEF IInv, OwnerInv, Owner
      <4>4. s \notin pending => s \notin Trivial
        BY <2>0, SendsAssumption
      <4> QED BY <1>0, <2>2, <4>1, <4>2, <4>3, <4>4
    <3> QED BY <1>0, <1>1, <3>1, <3>2 DEF Doomed, MultithreadedForkChild
  <2>4. ASSUME NEW c \in pending
        PROVE  Superclass[c] \in D \/ \E u \in {t} : c \in classes'[u] /\ ~Initializes(u, c)'
    <3>1. PICK u \in Thread : c \in classes[u] /\ ~Initializes(u, c)
      BY <2>1
    <3>2. CASE u = t
      BY <1>1, <1>4, <2>1, <3>1, <3>2
    <3>3. CASE u # t
      BY <2>2, <3>1, <3>3
    <3> QED BY <3>2, <3>3
  <2>5. ASSUME NEW c \in pending'
        PROVE  /\ Superclass[c] # nil /\ state'[Superclass[c]] # "initialized"
               /\ state'[c] = "initializing"
               /\ Superclass[c] \in D \/ \E u \in alive' : c \in classes'[u] /\ ~Initializes(u, c)'
    BY <1>0, <2>1, <2>4
  <2> QED BY <2>3, <2>5 DEF PendingInv
<1> QED BY <1>2, <1>3, <1>5, <1>6, <1>7, <1>8, <1>9, <1>10 DEF IInv

\* The child refuses to go on: the process dies, and nothing else changes.
LEMMA RefusedInv ==
  ASSUME IInv, Refused PROVE IInv'
<1>1. TypeOK' /\ AliveInv' /\ halted' # "fatal"
  BY DEF Refused, IInv, TypeOK, AliveInv
<1>2. ClassesInv' /\ OwnerInv' /\ SendsInv' /\ Contiguous'
  BY DEF Refused, IInv, ClassesInv, OwnerInv, SendsInv, Contiguous, Initializes
<1>3. NestInv' /\ FrameInv'
  BY DEF Refused, IInv, NestInv, NestOK, FrameInv, FrameOK, SuperUsable, Usable,
         MultithreadedForkChild
<1>4. FinishingInv'
  BY DEF Refused, IInv, FinishingInv, top, superInitialized, Initializes
<1>5. PendingInv'
  BY DEF Refused, IInv, PendingInv, Doomed, Initializes, MultithreadedForkChild
<1> QED BY <1>1, <1>2, <1>3, <1>4, <1>5 DEF IInv

LEMMA InitIInv == ASSUME Init PROVE IInv
<1>1. \A t \in Thread : DOMAIN stack[t] = {} /\ classes[t] = {}
  BY DEF Init
<1>2. TypeOK /\ AliveInv /\ halted # "fatal"
  BY DEF Init, TypeOK, AliveInv
<1>3. ClassesInv /\ NestInv /\ FrameInv /\ OwnerInv /\ SendsInv
  BY <1>1 DEF ClassesInv, NestInv, FrameInv, OwnerInv, SendsInv
<1>4. FinishingInv
  BY DEF Init, FinishingInv
<1>5. Contiguous
  BY <1>1, SuperclassAssumption DEF Init, Contiguous
<1>6. PendingInv
  <2>1. Doomed({})
    BY DEF Doomed
  <2> QED BY <2>1 DEF Init, PendingInv
<1> QED BY <1>2, <1>3, <1>4, <1>5, <1>6 DEF IInv

LEMMA StepIInv == ASSUME IInv, Next PROVE IInv'
<1>1. PICK t \in Thread : StepOf(t)
  BY StepEffects
<1> QED BY <1>1, SentInv, SuperFirstInv, AdvancesInv, BeginsInv, AnsweredInv, FinishLocksInv,
           FinishWaitsInv, FinishDoneInv, RefusedInv, SetInitializedInv, ForkInv DEF StepOf

LEMMA StutterIInv == ASSUME IInv, UNCHANGED vars PROVE IInv'
<1>1. UNCHANGED <<state, pending, classInitLock, finishing, classes, stack, alive, halted>>
  BY DEF vars
<1>2. TypeOK' /\ AliveInv' /\ halted' # "fatal"
  BY <1>1 DEF IInv, TypeOK, AliveInv
<1>3. ClassesInv' /\ OwnerInv' /\ SendsInv' /\ Contiguous'
  BY <1>1 DEF IInv, ClassesInv, OwnerInv, SendsInv, Contiguous, Initializes
<1>4. NestInv' /\ FrameInv'
  BY <1>1 DEF IInv, NestInv, NestOK, FrameInv, FrameOK, SuperUsable, Usable, MultithreadedForkChild
<1>5. FinishingInv'
  BY <1>1 DEF IInv, FinishingInv, top, superInitialized, Initializes
<1>6. PendingInv'
  <2>1. \A D \in SUBSET Class : Doomed(D)' <=> Doomed(D)
    BY <1>1 DEF Doomed, MultithreadedForkChild
  <2>2. \A u, c : Initializes(u, c)' <=> Initializes(u, c)
    BY <1>1 DEF Initializes
  <2> QED BY <1>1, <2>1, <2>2 DEF IInv, PendingInv
<1> QED BY <1>2, <1>3, <1>4, <1>5, <1>6 DEF IInv

--------------------------------------------------------------------------------
(* Theorems *)

\* The inductive invariant of initializeNonMetaClass and lockAndFinishInitializing.
THEOREM InvariantHolds == Spec => []IInv
<1>1. Init => IInv
  BY InitIInv
<1>2. IInv /\ [Next]_vars => IInv'
  BY StepIInv, StutterIInv
<1> QED BY <1>1, <1>2, PTL DEF Spec

\* One thread only initializes a class and sends it +initialize, whatever threads message
\* whatever classes, and the runtime's own checks of that never fail.
THEOREM OneInitializerHolds == Spec => []OneInitializer
<1>1. ASSUME IInv PROVE OneInitializer
  <2>1. ASSUME NEW t \in Thread, NEW f \in Range(stack[t]), f.pc = "body"
        PROVE  f.cls \in classes[t] /\ state[f.cls] = "initializing"
    <3>1. PICK i \in DOMAIN stack[t] : f = stack[t][i]
      BY <2>1 DEF Range
    <3>2. f.cls \in classes[t]
      BY <1>1, <2>1, <3>1 DEF IInv, OwnerInv, Owner
    <3> QED BY <1>1, <3>2 DEF IInv, ClassesInv
  <2> QED BY <1>1, <2>1 DEF IInv, ClassesInv, OneInitializer
<1> QED BY <1>1, InvariantHolds, PTL

\* The classes begun and done are subtrees of the hierarchy that contain the root: no
\* class is begun or done before its superclass.
THEOREM ContiguousHolds == Spec => []Contiguous
<1>1. IInv => Contiguous
  BY DEF IInv
<1> QED BY <1>1, InvariantHolds, PTL

\* A message to a class gets through only once the class is initialized, or to the
\* thread that initializes it.
THEOREM UsableOnReturnHolds == Spec => UsableOnReturn
<1> DEFINE Answers == \A t \in alive' : Len(stack'[t]) < Len(stack[t]) =>
                        LET c == top(t).cls IN state'[c] = "initialized" \/ c \in classes'[t]
<1>1. ASSUME IInv, Next PROVE Answers
  <2>1. PICK t \in Thread : StepOf(t)
    BY <1>1, StepEffects
  <2>2. TypeOK /\ \A u \in Thread : Len(stack[u]) \in Nat
    BY <1>1, Frames DEF IInv
  <2>3. ASSUME OthersStay(t), alive' = alive,
               Len(stack'[t]) < Len(stack[t]) =>
                 state'[top(t).cls] = "initialized" \/ top(t).cls \in classes'[t]
        PROVE  Answers
    <3>1. \A u \in Thread \ {t} : Len(stack'[u]) = Len(stack[u])
      BY <2>3 DEF OthersStay
    <3> QED BY <2>2, <2>3, <3>1 DEF TypeOK
  <2>4. CASE t \in alive /\ (Sent(t) \/ SuperFirst(t) \/ Advances(t) \/ Begins(t) \/ FinishLocks(t))
    <3>1. OthersStay(t) /\ alive' = alive /\ Len(stack'[t]) >= Len(stack[t])
      <4>1. CASE SuperFirst(t)
        <5>1. OthersStay(t) /\ Len(stack'[t]) \in {Len(stack[t]), Len(stack[t]) + 1}
          BY <2>2, <4>1, SuperFirstEffect
        <5> QED BY <2>2, <4>1, <5>1 DEF SuperFirst
      <4>2. CASE Sent(t) \/ Advances(t) \/ Begins(t) \/ FinishLocks(t)
        <5>1. \/ \E f : Pushes(t, f)
              \/ \E f : Replaces(t, f)
          BY <4>2 DEF Sent, Advances, Begins, FinishLocks, Moves
        <5>2. alive' = alive
          BY <4>2 DEF Sent, Advances, Begins, FinishLocks, Kept
        <5> QED BY <2>2, <5>1, <5>2 DEF Replaces, Pushes
      <4> QED BY <2>4, <4>1, <4>2
    <3>2. Len(stack'[t]) \in Nat
      BY <3>1, FramesNext
    <3> QED BY <2>2, <2>3, <3>1, <3>2
  <2>5. CASE t \in alive /\ Answered(t)
    BY <2>3, <2>5 DEF Answered, Leaves, Pops, Kept
  <2>6. CASE t \in alive /\ FinishWaits(t)
    <3>1. stack[t] # <<>> /\ top(t).pc = "finish" /\ Pops(t) /\ UNCHANGED <<classes, alive>>
      BY <2>6 DEF FinishWaits, Leaves
    <3>2. Len(stack[t]) \in DOMAIN stack[t] /\ top(t) = stack[t][Len(stack[t])]
      BY <2>2, <3>1, TopFrame
    <3>3. top(t).cls \in classes[t]
      BY <1>1, <3>1, <3>2 DEF IInv, OwnerInv, Owner
    <3> QED BY <2>3, <3>1, <3>3 DEF Pops
  <2>7. CASE t \in alive /\ FinishDone(t)
    <3>1. /\ stack[t] # <<>> /\ top(t).pc = "finishing" /\ Pops(t) /\ finishing = {}
          /\ UNCHANGED <<state, alive>>
      BY <2>7 DEF FinishDone, Leaves
    <3>2. Len(stack[t]) \in DOMAIN stack[t] /\ top(t) = stack[t][Len(stack[t])]
      BY <2>2, <3>1, TopFrame
    <3>3. state[top(t).cls] = "initialized"
      BY <1>1, <3>1, <3>2 DEF IInv, FrameInv, FrameOK
    <3> QED BY <2>3, <3>1, <3>3 DEF Pops
  <2>8. CASE Refused
    BY <2>2, <2>8 DEF Refused, TypeOK
  <2>9. CASE \E c \in Class : SetInitialized(t, c)
    <3>1. \A u \in Thread : Len(stack'[u]) = Len(stack[u])
      BY <2>2, <2>9, WokenEffect DEF SetInitialized
    <3>2. alive' \subseteq Thread
      BY <2>2, <2>9 DEF SetInitialized, TypeOK
    <3> QED BY <2>2, <3>1, <3>2
  <2>10. CASE Fork(t)
    BY <2>2, <2>10 DEF Fork
  <2> QED BY <2>1, <2>4, <2>5, <2>6, <2>7, <2>8, <2>9, <2>10 DEF StepOf
<1>2. IInv /\ [Next]_vars => [Answers]_vars
  BY <1>1
<1> QED BY <1>2, InvariantHolds, PTL DEF Spec, UsableOnReturn
================================================================================
