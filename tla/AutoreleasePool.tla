----------------------------- MODULE AutoreleasePool -----------------------------
(***************************************************************************)
(* The autorelease pool of one thread: AutoreleasePoolPage of NSObject.mm. *)
(*                                                                         *)
(* The pages are local to the thread, so nothing interleaves with it but   *)
(* itself: a pop releases objects whose -dealloc pushes, pops and          *)
(* autoreleases on the pages the pop is at work on.  Each release is       *)
(* therefore a step, and each -dealloc a frame on top of the pop.          *)
(***************************************************************************)
EXTENDS Integers, Sequences, SequencesExt

CONSTANTS Boundary,    \* POOL_BOUNDARY
          Object,      \* an object to release
          None,        \* no pop under way
          Options,     \* the sets of debug options to run with
          PageSize,    \* the entries of a page: 505 in the code
          MaxEntries,  \* bound on the entries of all pages
          MaxDepth     \* bound on the -dealloc methods one inside the other

ASSUME PageSizeAssumption == PageSize \in Nat \ {0, 1}
ASSUME OptionsAssumption ==
  Options \subseteq SUBSET {"DebugPoolAllocation", "DebugMissingPools"}
ASSUME BoundAssumption == MaxEntries \in Nat /\ MaxDepth \in Nat \ {0}
\* POOL_BOUNDARY is nil, and no object is; None is not the place of an entry.
ASSUME EntryAssumption ==
  Boundary # Object /\ None \notin [page : Nat, slot : Nat] /\ None \notin Nat

VARIABLES
  pages,        \* from the cold page to its last child: begin() .. next of each
  hot,          \* the hot page, 0 when TLS is nil or the placeholder
  placeholder,  \* whether TLS is EMPTY_POOL_PLACEHOLDER
  debug,        \* the debug options in the environment
  frames,       \* the program and the -dealloc methods under way, the
                \* innermost last: their tokens, and the pop each is in
  exiting       \* the thread is in tls_dealloc

vars == <<pages, hot, placeholder, debug, frames, exiting>>

DebugPoolAllocation == "DebugPoolAllocation" \in debug
DebugMissingPools   == "DebugMissingPools" \in debug

EMPTY_POOL_PLACEHOLDER == [page |-> 0, slot |-> 0]

Frame(tokens, until) == [tokens |-> tokens, until |-> until]

top     == Last(frames)
\* No pop is under way in the innermost frame, and it is not one that has ended.
Running == top.until = None /\ (exiting => Len(frames) > 1)

full(i)             == Len(pages[i]) = PageSize
empty(i)            == Len(pages[i]) = 0
lessThanHalfFull(i) == Len(pages[i]) < PageSize \div 2

\* The pages that are left when page i, if there is one, and its children are deleted.
kill(i) == [j \in DOMAIN pages \cap 1 .. i - 1 |-> pages[j]]

--------------------------------------------------------------------------------
(* Pushing an entry *)

add(e, i) ==
  /\ pages' = IF i > Len(pages) THEN Append(pages, <<e>>)
              ELSE [pages EXCEPT ![i] = Append(@, e)]
  /\ hot' = i
  /\ UNCHANGED placeholder

\* The next page that is not full, or a new one.
autoreleaseFullPage(e) ==
  add(e, Min({j \in hot + 1 .. Len(pages) + 1 : j > Len(pages) \/ ~full(j)}))

\* Mutant: no boundary for the pool that the placeholder stood for.
autoreleaseNoPageBare(e) ==
  IF ~placeholder /\ e = Object /\ DebugMissingPools THEN
    UNCHANGED <<pages, hot, placeholder>>
  ELSE IF ~placeholder /\ e = Boundary /\ ~DebugPoolAllocation THEN
    placeholder' = TRUE /\ UNCHANGED <<pages, hot>>
  ELSE
    pages' = <<<<e>>>> /\ hot' = 1 /\ placeholder' = FALSE

autoreleaseNoPage(e) ==
  IF ~placeholder /\ e = Object /\ DebugMissingPools THEN
    UNCHANGED <<pages, hot, placeholder>>
  ELSE IF ~placeholder /\ e = Boundary /\ ~DebugPoolAllocation THEN
    placeholder' = TRUE /\ UNCHANGED <<pages, hot>>
  ELSE
    /\ pages' = <<IF placeholder THEN <<Boundary, e>> ELSE <<e>>>>
    /\ hot' = 1 /\ placeholder' = FALSE

\* Mutant: every pool starts on a new page.
autoreleaseFastApart(e) ==
  IF hot = 0 THEN autoreleaseNoPage(e)
  ELSE IF full(hot) \/ e = Boundary THEN autoreleaseFullPage(e)
  ELSE add(e, hot)

\* autoreleaseFast, and autoreleaseNewPage for a pool under DebugPoolAllocation.
autoreleaseFast(e) ==
  IF hot = 0 THEN autoreleaseNoPage(e)
  ELSE IF full(hot) \/ (e = Boundary /\ DebugPoolAllocation) THEN autoreleaseFullPage(e)
  ELSE add(e, hot)

Room == Len(FlattenSeq(pages)) + 1 < MaxEntries

autorelease ==
  /\ Running /\ Room
  /\ autoreleaseFast(Object)
  /\ UNCHANGED <<debug, frames, exiting>>

push ==
  /\ Running /\ Room
  /\ autoreleaseFast(Boundary)
  /\ LET token == IF placeholder' THEN EMPTY_POOL_PLACEHOLDER
                  ELSE [page |-> hot', slot |-> Len(pages'[hot']) - 1] IN
     frames' = Append(Front(frames), Frame(Append(top.tokens, token), None))
  /\ UNCHANGED <<debug, exiting>>

--------------------------------------------------------------------------------
(* Popping a pool *)

\* The place of the boundary: begin() of the cold page for the placeholder.
Stop(token) == IF token = EMPTY_POOL_PLACEHOLDER THEN [page |-> 1, slot |-> 0] ELSE token

\* The tokens the program kept for the pools inside the one popped are gone.
pop(i) ==
  /\ Running
  /\ LET tokens == SubSeq(top.tokens, 1, i - 1)
         token  == top.tokens[i] IN
     IF token = EMPTY_POOL_PLACEHOLDER /\ hot = 0 THEN
       /\ placeholder' = FALSE
       /\ frames' = Append(Front(frames), Frame(tokens, None))
     ELSE
       /\ frames' = Append(Front(frames), Frame(tokens, Stop(token)))
       /\ UNCHANGED placeholder
  /\ UNCHANGED <<pages, hot, debug, exiting>>

\* releaseUntil starts from the hot page each time; a page that is empty is left
\* for its parent.
NonEmptyPage == Max({i \in 1 .. hot : ~empty(i)})

\* Mutant: the page of the token is emptied, wherever the hot page is.
releaseUntilHere ==
  /\ top.until # None /\ Len(pages[top.until.page]) # top.until.slot
  /\ LET i == top.until.page IN
     /\ pages' = [pages EXCEPT ![i] = Front(@)]
     /\ UNCHANGED hot
     /\ \/ UNCHANGED frames
        \/ /\ Last(pages[i]) = Object /\ Len(frames) <= MaxDepth
           /\ frames' = Append(frames, Frame(<<>>, None))
  /\ UNCHANGED <<placeholder, debug, exiting>>

\* One turn of releaseUntil's loop.  objc_release may run a -dealloc.
releaseUntil ==
  /\ top.until # None /\ Len(pages[top.until.page]) # top.until.slot
  /\ hot' = NonEmptyPage
  /\ pages' = [pages EXCEPT ![hot'] = Front(@)]
  /\ \/ UNCHANGED frames
     \/ /\ Last(pages[hot']) = Object /\ Len(frames) <= MaxDepth
        /\ frames' = Append(frames, Frame(<<>>, None))
  /\ UNCHANGED <<placeholder, debug, exiting>>

\* One empty child is kept if the page is at least half full.
hysteresis(i) ==
  pages' = IF lessThanHalfFull(i) THEN kill(i + 1) ELSE kill(i + 2)

\* What popPage does after releaseUntil.
popPage(i) ==
  IF empty(i) /\ (DebugPoolAllocation \/ (DebugMissingPools /\ i = 1)) THEN
    pages' = kill(i) /\ hot' = i - 1
  ELSE
    hysteresis(i) /\ hot' = i

finishPop ==
  /\ top.until # None
  /\ Len(pages[top.until.page]) = top.until.slot
  /\ popPage(top.until.page)
  /\ frames' = Append(Front(frames), Frame(top.tokens, None))
  /\ UNCHANGED <<placeholder, debug, exiting>>

--------------------------------------------------------------------------------
(* The end of a -dealloc, and of the thread *)

\* A -dealloc may leave pools pushed: test/rr-autorelease2.m does.
return ==
  /\ Running /\ Len(frames) > 1
  /\ frames' = Front(frames)
  /\ UNCHANGED <<pages, hot, placeholder, debug, exiting>>

\* tls_dealloc: the cold page is popped if it has entries, ...
tls_deallocPop ==
  /\ Running /\ Len(frames) = 1 /\ hot # 0 /\ ~empty(1)
  /\ frames' = <<Frame(<<>>, [page |-> 1, slot |-> 0])>>
  /\ exiting' = TRUE
  /\ UNCHANGED <<pages, hot, placeholder, debug>>

\* Mutant: the pop is trusted to have killed the pages in every mode.
tls_deallocKeeps ==
  /\ Len(frames) = 1 /\ top.until = None
  /\ hot # 0 /\ ~exiting => empty(1)
  /\ hot' = 0 /\ placeholder' = FALSE /\ exiting' = FALSE
  /\ frames' = <<Frame(<<>>, None)>>
  /\ UNCHANGED <<pages, debug>>

\* ... and killed, unless a debug option had popPage do so; TLS is nil for the
\* thread that comes after.
tls_dealloc ==
  /\ Len(frames) = 1 /\ top.until = None
  /\ hot # 0 /\ ~exiting => empty(1)
  /\ pages' = IF hot # 0 /\ debug = {} THEN kill(1) ELSE pages
  /\ hot' = 0 /\ placeholder' = FALSE /\ exiting' = FALSE
  /\ frames' = <<Frame(<<>>, None)>>
  /\ UNCHANGED debug

--------------------------------------------------------------------------------
Init ==
  /\ pages = <<>> /\ hot = 0 /\ placeholder = FALSE
  /\ debug \in Options
  /\ frames = <<Frame(<<>>, None)>> /\ exiting = FALSE

Next ==
  \/ push \/ autorelease
  \/ \E i \in DOMAIN top.tokens : pop(i)
  \/ releaseUntil \/ finishPop \/ return
  \/ tls_deallocPop \/ tls_dealloc

Spec == Init /\ [][Next]_vars

--------------------------------------------------------------------------------
(* Properties *)

At(token) == pages[token.page][token.slot + 1]

\* pop: "Invalid or prematurely-freed autorelease pool" is for tokens that are
\* not.  The token of every pool that is pushed, and of every pop under way, is
\* on a page that has not been killed, and no entry below it has been released.
TokensValid ==
  \A f \in Range(frames) :
    /\ \A token \in Range(f.tokens) :
         \/ token = EMPTY_POOL_PLACEHOLDER /\ placeholder
         \/ /\ Stop(token).page \in DOMAIN pages
            /\ Stop(token).slot < Len(pages[Stop(token).page])
            /\ At(Stop(token)) = Boundary
    /\ f.until # None =>
         /\ f.until.page \in DOMAIN pages
         /\ f.until.slot <= Len(pages[f.until.page])

\* Pages come and go with the pool: the hot page is one of them, its children
\* are empty (the ASSERTs of releaseUntil and of the destructor), between
\* calls at most one of them is kept, and TLS is nil only when none is left.
PagesKept ==
  /\ hot \in 0 .. Len(pages)
  /\ hot = 0 => pages = <<>>
  /\ \A i \in hot + 1 .. Len(pages) : empty(i)
  /\ (\A f \in Range(frames) : f.until = None) => Len(pages) <= hot + 1

\* releaseUntil's ASSERT: when the loop has reached its token, "we expect any
\* children to be completely empty".  It fails under DebugPoolAllocation at the
\* end of a thread that autoreleased with no pool: the first entry of the cold
\* page is then an object, and what its -dealloc leaves on the next page is lost.
ChildrenEmpty ==
  top.until # None /\ Len(pages[top.until.page]) = top.until.slot
  => \A i \in top.until.page + 1 .. Len(pages) : empty(i)

\* releaseUntil: "I think this `while` can be `if`, but I can't prove it".  It
\* can, unless DebugPoolAllocation lets a page start before its parent is full.
WhileCanBeIf ==
  /\ top.until # None /\ Len(pages[top.until.page]) # top.until.slot
  /\ empty(hot) /\ ~DebugPoolAllocation
  => ~empty(hot - 1)

\* A token is the offset of its boundary in the pages laid end to end.
Offset(ps, token) == Len(FlattenSeq(SubSeq(ps, 1, token.page - 1))) + token.slot

Call(ps, f) ==
  [tokens |-> [j \in DOMAIN f.tokens |-> Offset(ps, Stop(f.tokens[j]))],
   until  |-> IF f.until = None THEN None ELSE Offset(ps, f.until)]

\* "A thread's autorelease pool is a stack of pointers": the pages and the
\* placeholder are one stack, and what a pop releases is what is hotter than its
\* token.
Stack ==
  INSTANCE PoolStack WITH
    stack  <- IF placeholder THEN <<Boundary>> ELSE FlattenSeq(pages),
    frames <- [i \in DOMAIN frames |-> Call(pages, frames[i])]

Implements == Stack!Spec
================================================================================
