---------------------------- MODULE AutoreleasePoolInv ----------------------------
(***************************************************************************)
(* The inductive invariant of AutoreleasePool: the tokens and the ends of  *)
(* the pops under way, frame after frame, are places of the pool in the    *)
(* order in which it was filled, and each is the place of a boundary.      *)
(***************************************************************************)
EXTENDS AutoreleasePool

Position == [page : Nat, slot : Nat]
FrameType == [tokens : Seq(Position), until : Position \cup {None}]

Before(p, q) == p.page < q.page \/ (p.page = q.page /\ p.slot < q.slot)

\* There is a boundary at p.
Here(p) == p.page \in DOMAIN pages /\ p.slot < Len(pages[p.page]) /\ At(p) = Boundary

Bottom == [page |-> 1, slot |-> 0]

\* The pop at the end of the thread starts from the first entry, which is an
\* object when the thread had no pool; with DebugMissingPools it is not added.
Loose(j) == j = 1 /\ exiting /\ ~DebugMissingPools

\* The pop of frame j has released all it had to.
Reached(j) ==
  LET until == frames[j].until IN
  j = Len(frames) /\ until # None /\ Len(pages[until.page]) = until.slot

TypeInv ==
  /\ pages \in Seq(Seq({Boundary, Object})) /\ hot \in 0 .. Len(pages)
  /\ placeholder \in BOOLEAN /\ exiting \in BOOLEAN /\ debug \in Options
  /\ frames \in Seq(FrameType) /\ frames # <<>>

PagesInv ==
  /\ hot = 0 => pages = <<>>
  /\ placeholder => hot = 0
  /\ \A i \in DOMAIN pages : Len(pages[i]) <= PageSize
  /\ \A i \in hot + 1 .. Len(pages) : empty(i)
  /\ ~DebugPoolAllocation => \A i \in 1 .. hot - 1 : full(i)

\* Between pops at most one empty page is kept.
KeptInv ==
  top.until = None /\ Len(frames) = 1 => Len(pages) <= hot + 1

TokensInv ==
  \A j \in DOMAIN frames : LET tokens == frames[j].tokens IN
    /\ \A a \in DOMAIN tokens :
         (tokens[a] = EMPTY_POOL_PLACEHOLDER /\ placeholder) \/ Here(Stop(tokens[a]))
    /\ \A a, b \in DOMAIN tokens : a < b => Before(Stop(tokens[a]), Stop(tokens[b]))
    /\ frames[j].until # None =>
         \A a \in DOMAIN tokens : Before(Stop(tokens[a]), frames[j].until)

UntilInv ==
  \A j \in DOMAIN frames : LET until == frames[j].until IN
    /\ j < Len(frames) => until # None
    /\ until # None =>
         /\ until.page \in 1 .. hot /\ until.slot <= Len(pages[until.page])
         /\ Loose(j) \/ Here(until) \/ Reached(j)
         /\ Reached(j) => hot = until.page \/ (Loose(j) /\ DebugPoolAllocation)

\* What an inner frame keeps is hotter than where an outer pop ends.
NestingInv ==
  \A j, k \in DOMAIN frames : j < k /\ ~Loose(j) =>
    /\ \A a \in DOMAIN frames[k].tokens : Before(frames[j].until, Stop(frames[k].tokens[a]))
    /\ frames[k].until # None => Before(frames[j].until, frames[k].until)

ExitInv ==
  /\ exiting =>
       /\ frames[1].tokens = <<>> /\ frames[1].until \in {None, Bottom}
       /\ frames[1].until = None => Len(frames) = 1 /\ (debug # {} => hot = 0)
       /\ DebugPoolAllocation =>
            \A k \in DOMAIN frames : k # 1 =>
              /\ \A a \in DOMAIN frames[k].tokens : Stop(frames[k].tokens[a]).page > 1
              /\ frames[k].until # None => frames[k].until.page > 1

\* With a debug option the cold page is empty only while a pop is about to kill it.
ColdInv ==
  hot # 0 =>
    /\ DebugMissingPools => IF empty(1) THEN top.until = Bottom ELSE pages[1][1] = Boundary
    /\ debug # {} /\ empty(1) => top.until = Bottom \/ (exiting /\ frames[1].until = Bottom)

IInv ==
  TypeInv /\ PagesInv /\ KeptInv /\ TokensInv /\ UntilInv /\ NestingInv /\ ExitInv /\ ColdInv

\* What the refinement of PoolStack needs besides: the placeholder stands for a
\* pool the program has pushed, and the pop at the end of the thread leaves nothing.
StackInv ==
  /\ placeholder => frames[1].tokens # <<>>
  /\ exiting /\ frames[1].until = None /\ hot # 0 => empty(1)
================================================================================
