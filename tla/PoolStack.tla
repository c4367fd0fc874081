-------------------------------- MODULE PoolStack --------------------------------
(***************************************************************************)
(* What the comment above AutoreleasePoolPage (NSObject.mm:582-593)        *)
(* promises: the autorelease pool of a thread is one stack of objects and  *)
(* boundaries, a token is the place of a boundary, and popping it releases *)
(* everything hotter, what is autoreleased by the releases included.       *)
(***************************************************************************)
EXTENDS Naturals, Sequences

CONSTANTS Boundary, Object, None

VARIABLES
  stack,   \* the pool of the thread, the hottest entry last
  frames   \* the calls under way, the innermost last: each -dealloc that a
           \* pop runs is a frame with tokens of its own

vars == <<stack, frames>>

\* tokens: the pools pushed and not yet popped; until: where the pop under way
\* ends, or None.
Frame(tokens, until) == [tokens |-> tokens, until |-> until]

top     == frames[Len(frames)]
rest    == SubSeq(frames, 1, Len(frames) - 1)
Running == top.until = None

Hotter(n) == SubSeq(stack, n + 1, Len(stack))

Init == stack = <<>> /\ frames = <<Frame(<<>>, None)>>

Push ==
  /\ Running
  /\ stack' = Append(stack, Boundary)
  /\ frames' = Append(rest, Frame(Append(top.tokens, Len(stack)), None))

Autorelease ==
  /\ Running
  /\ stack' = Append(stack, Object)
  /\ UNCHANGED frames

\* The pools pushed after the one popped go with it.  A pool that has nothing
\* in it may go at once.
Pop(i) ==
  /\ Running /\ i \in DOMAIN top.tokens
  /\ LET tokens == SubSeq(top.tokens, 1, i - 1)
         n      == top.tokens[i] IN
     \/ /\ frames' = Append(rest, Frame(tokens, n))
        /\ UNCHANGED stack
     \/ /\ Hotter(n) = <<Boundary>>
        /\ frames' = Append(rest, Frame(tokens, None))
        /\ stack' = SubSeq(stack, 1, n)

\* The end of the thread pops everything.
Exit ==
  /\ Running /\ Len(frames) = 1
  /\ frames' = <<Frame(<<>>, 0)>>
  /\ UNCHANGED stack

\* The hottest entry goes, and the release of an object may run a -dealloc.
Release ==
  /\ ~Running /\ Len(stack) > top.until
  /\ stack' = SubSeq(stack, 1, Len(stack) - 1)
  /\ \/ UNCHANGED frames
     \/ /\ stack[Len(stack)] = Object
        /\ frames' = Append(frames, Frame(<<>>, None))

PopDone ==
  /\ ~Running /\ Len(stack) = top.until
  /\ frames' = Append(rest, Frame(top.tokens, None))
  /\ UNCHANGED stack

\* A -dealloc may return without popping what it pushed.
Return ==
  /\ Running /\ Len(frames) > 1
  /\ frames' = rest
  /\ UNCHANGED stack

Next == Push \/ Autorelease \/ (\E i \in DOMAIN top.tokens : Pop(i)) \/ Exit
          \/ Release \/ PopDone \/ Return

Spec == Init /\ [][Next]_vars
================================================================================
