--------------------------- MODULE AutoreleasePoolProofs ---------------------------
(***************************************************************************)
(* AutoreleasePool, proved for pages of any size, any debug options, and   *)
(* -dealloc methods inside each other to any depth.                        *)
(*                                                                         *)
(* IInv of AutoreleasePoolInv is inductive.  The lemmas on Added, Removed  *)
(* and Cut say what an action does to the pages; after them no proof looks *)
(* into the functions of AutoreleasePoolPage.                              *)
(***************************************************************************)
EXTENDS AutoreleasePoolInv, FiniteSetTheorems, TLAPS

Entry == {Boundary, Object}

LEMMA PageSizeProperties ==
  PageSize \in Nat /\ PageSize > 1
BY PageSizeAssumption

\* The pages and the frames are sequences of sequences.
LEMMA PagesShape ==
  ASSUME TypeInv
  PROVE  /\ pages \in Seq(Seq(Entry)) /\ Len(pages) \in Nat /\ DOMAIN pages = 1 .. Len(pages)
         /\ hot \in Nat /\ hot <= Len(pages)
         /\ \A i \in 1 .. Len(pages) :
              /\ pages[i] \in Seq(Entry) /\ Len(pages[i]) \in Nat
              /\ DOMAIN pages[i] = 1 .. Len(pages[i])
              /\ \A s \in 1 .. Len(pages[i]) : pages[i][s] \in Entry
BY DEF TypeInv, Entry

LEMMA FramesShape ==
  ASSUME TypeInv
  PROVE  /\ frames \in Seq(FrameType) /\ Len(frames) \in Nat /\ Len(frames) # 0
         /\ DOMAIN frames = 1 .. Len(frames) /\ top = frames[Len(frames)] /\ top \in FrameType
         /\ \A j \in 1 .. Len(frames) :
              /\ frames[j] \in FrameType
              /\ frames[j].tokens \in Seq(Position) /\ Len(frames[j].tokens) \in Nat
              /\ DOMAIN frames[j].tokens = 1 .. Len(frames[j].tokens)
              /\ \A a \in 1 .. Len(frames[j].tokens) :
                   frames[j].tokens[a] \in Position /\ Stop(frames[j].tokens[a]) \in Position
              /\ frames[j].until # None => frames[j].until \in Position
<1>1. frames \in Seq(FrameType) /\ Len(frames) \in Nat /\ Len(frames) # 0 /\ DOMAIN frames = 1 .. Len(frames)
  BY DEF TypeInv
<1>2. top = frames[Len(frames)] /\ Len(frames) \in 1 .. Len(frames)
  BY <1>1 DEF top, Last
<1>3. ASSUME NEW j \in 1 .. Len(frames)
      PROVE  /\ frames[j] \in FrameType
             /\ frames[j].tokens \in Seq(Position) /\ frames[j].until \in Position \cup {None}
  <2>1. frames[j] \in FrameType
    BY <1>1
  <2> QED BY <2>1 DEF FrameType
<1>4. ASSUME NEW p \in Position PROVE Stop(p) \in Position
  BY DEF Stop, Position
<1>5. ASSUME NEW j \in 1 .. Len(frames)
      PROVE  /\ Len(frames[j].tokens) \in Nat /\ DOMAIN frames[j].tokens = 1 .. Len(frames[j].tokens)
             /\ \A a \in 1 .. Len(frames[j].tokens) : frames[j].tokens[a] \in Position
  BY <1>3
<1> QED BY <1>1, <1>2, <1>3, <1>4, <1>5

LEMMA TopFrame ==
  ASSUME TypeInv
  PROVE  \E n \in Nat : /\ n = Len(frames) /\ n # 0 /\ DOMAIN frames = 1 .. n /\ frames \in Seq(FrameType)
                        /\ top = frames[n] /\ n \in 1 .. n
<1>1. /\ Len(frames) \in Nat /\ Len(frames) # 0 /\ DOMAIN frames = 1 .. Len(frames)
      /\ frames \in Seq(FrameType) /\ top = frames[Len(frames)]
  BY FramesShape
<1>2. Len(frames) \in 1 .. Len(frames)
  BY <1>1
<1> QED BY <1>1, <1>2

--------------------------------------------------------------------------------
(* Numbers *)

\* A set of naturals has a least element: induction, without an operator for the property.
LEMMA Least ==
  ASSUME NEW T \in SUBSET Nat, T # {}
  PROVE  \E x \in T : \A y \in T : x <= y
<1> DEFINE TT == {1 .. n : n \in T}
<1>1. \A n \in T : 1 .. n \in FiniteSubsetsOf(Nat)
  <2>1. \A n \in T : IsFiniteSet(1 .. n)
    BY FS_Interval
  <2> QED BY <2>1 DEF FiniteSubsetsOf
<1>2. TT \subseteq FiniteSubsetsOf(Nat) /\ TT # {}
  BY <1>1
<1>3. PICK X \in TT : \A Y \in TT : <<Y, X>> \notin StrictSubsetOrdering(Nat)
  <2> HIDE DEF TT
  <2>1. IsWellFoundedOn(StrictSubsetOrdering(Nat), FiniteSubsetsOf(Nat))
    BY FS_StrictSubsetOrderingWellFounded
  <2> QED BY <1>2, <2>1, WFMin
<1>4. PICK x \in T : X = 1 .. x
  OBVIOUS
<1>5. ASSUME NEW y \in T, ~(x <= y) PROVE FALSE
  <2>1. 1 .. y \in TT /\ 1 .. y \in FiniteSubsetsOf(Nat) /\ 1 .. x \in FiniteSubsetsOf(Nat)
    BY <1>1
  <2>2. 1 .. y \subseteq 1 .. x /\ x \in 1 .. x /\ x \notin 1 .. y
    BY <1>5
  <2>3. <<1 .. y, 1 .. x>> \in StrictSubsetOrdering(Nat)
    BY <2>1, <2>2 DEF StrictSubsetOrdering
  <2> QED BY <1>3, <1>4, <2>1, <2>3
<1> QED BY <1>5

LEMMA MinOf ==
  ASSUME NEW T \in SUBSET Nat, NEW m \in T, \A x \in T : m <= x
  PROVE  Min(T) = m
<1>1. Min(T) \in T /\ \A y \in T : Min(T) <= y
  BY DEF Min
<1>2. Min(T) <= m /\ m <= Min(T) /\ m \in Nat /\ Min(T) \in Nat
  BY <1>1
<1> QED BY <1>2

LEMMA MaxOf ==
  ASSUME NEW T \in SUBSET Nat, NEW n \in Nat, \A x \in T : x <= n, T # {}
  PROVE  Max(T) \in T /\ \A x \in T : x <= Max(T)
<1> DEFINE D == {n - x : x \in T}
<1>1. D \in SUBSET Nat /\ D # {}
  <2>1. ASSUME NEW x \in T PROVE n - x \in Nat
    OBVIOUS
  <2> QED BY <2>1
<1>2. PICK d \in D : \A y \in D : d <= y
  <2> HIDE DEF D
  <2> QED BY <1>1, Least
<1>3. PICK m \in T : d = n - m
  OBVIOUS
<1>4. ASSUME NEW x \in T PROVE m >= x
  <2>1. n - x \in D /\ d <= n - x
    BY <1>2
  <2> QED BY <1>3, <2>1
<1>5. \E x \in T : \A y \in T : x >= y
  BY <1>4
<1>6. Max(T) \in T /\ \A y \in T : Max(T) >= y
  BY <1>5 DEF Max
<1> QED BY <1>6


--------------------------------------------------------------------------------
(* What the actions do to the pages *)

\* e was added, hotter than every other entry.
Added(e) ==
  /\ pages' \in Seq(Seq(Entry)) /\ hot' \in 1 .. Len(pages') /\ placeholder' = FALSE /\ hot <= hot'
  /\ Len(pages'[hot']) \in Nat \ {0} /\ pages'[hot'][Len(pages'[hot'])] = e
  /\ \A i \in 1 .. Len(pages) :
       /\ i <= Len(pages') /\ Len(pages[i]) <= Len(pages'[i])
       /\ \A s \in 1 .. Len(pages[i]) : pages'[i][s] = pages[i][s]
       /\ Len(pages[i]) # 0 => i < hot' \/ (i = hot' /\ Len(pages[i]) < Len(pages'[i]))
  /\ PagesInv'
  /\ Len(pages) <= hot + 1 => Len(pages') <= hot' + 1
  /\ hot = 0 => pages' = <<IF placeholder THEN <<Boundary, e>> ELSE <<e>>>>
  /\ hot = 0 /\ e = Object /\ ~placeholder => ~DebugMissingPools
  /\ hot # 0 /\ e = Boundary /\ DebugPoolAllocation => hot' > 1
  /\ hot # 0 =>
       /\ \A i \in 1 .. hot' - 1 : i \in 1 .. Len(pages) /\ pages'[i] = pages[i]
       /\ pages'[hot'] = IF hot' > Len(pages) THEN <<e>> ELSE Append(pages[hot'], e)

LEMMA AddEffect ==
  ASSUME TypeInv, PagesInv, NEW e \in Entry, NEW i \in Nat, hot # 0,
         (i = hot /\ ~full(hot)) \/ (i = hot + 1 /\ (full(hot) \/ DebugPoolAllocation)),
         e = Boundary /\ DebugPoolAllocation => i = hot + 1,
         add(e, i), UNCHANGED debug
  PROVE  Added(e)
<1>1. /\ pages \in Seq(Seq(Entry)) /\ Len(pages) \in Nat /\ DOMAIN pages = 1 .. Len(pages)
      /\ hot \in Nat /\ hot <= Len(pages)
      /\ \A j \in 1 .. Len(pages) :
           pages[j] \in Seq(Entry) /\ Len(pages[j]) \in Nat /\ DOMAIN pages[j] = 1 .. Len(pages[j])
  BY PagesShape
<1>2. PICK l \in Nat : l = Len(pages)
  BY <1>1
<1>3. hot' = i /\ placeholder' = placeholder /\ i # 0 /\ i <= l + 1 /\ hot <= i
  BY <1>1, <1>2 DEF add
<1>4. placeholder = FALSE
  BY DEF PagesInv, TypeInv
<1>5. /\ \A j \in 1 .. l : Len(pages[j]) <= PageSize
      /\ \A j \in hot + 1 .. l : Len(pages[j]) = 0
      /\ ~DebugPoolAllocation => \A j \in 1 .. hot - 1 : Len(pages[j]) = PageSize
  BY <1>1, <1>2 DEF PagesInv, empty, full
<1>6. i <= l => Len(pages[i]) < PageSize
  <2>1. CASE i = hot
    BY <1>1, <1>2, <1>5, <2>1, PageSizeProperties DEF full
  <2>2. CASE i = hot + 1
    BY <1>1, <1>2, <1>5, <2>2, PageSizeProperties
  <2> QED BY <2>1, <2>2
<1>7. PICK q \in Seq(Entry) : q = IF i > l THEN <<e>> ELSE Append(pages[i], e)
  <2>1. e \in Entry /\ (~(i > l) => pages[i] \in Seq(Entry))
    BY <1>1, <1>2, <1>3
  <2>2. <<e>> \in Seq(Entry) /\ (~(i > l) => Append(pages[i], e) \in Seq(Entry))
    BY <2>1
  <2> QED BY <2>2
<1>8. Len(q) = (IF i > l THEN 1 ELSE Len(pages[i]) + 1) /\ q[Len(q)] = e
  BY <1>1, <1>2, <1>3, <1>7
<1>9. i <= l => \A s \in 1 .. Len(pages[i]) : q[s] = pages[i][s]
  BY <1>1, <1>2, <1>3, <1>7
<1>10. Len(q) \in Nat /\ Len(q) # 0 /\ Len(q) <= PageSize
  BY <1>1, <1>2, <1>3, <1>6, <1>8, PageSizeProperties
<1>11. PICK m \in Nat : m = IF i > l THEN l + 1 ELSE l
  BY <1>2
<1>12. /\ pages' \in Seq(Seq(Entry)) /\ Len(pages') = m /\ pages'[i] = q
       /\ \A j \in 1 .. l : j # i => pages'[j] = pages[j]
  <2>1. CASE i > l
    <3>1. pages' = Append(pages, q) /\ i = l + 1
      BY <1>2, <1>3, <1>7, <2>1 DEF add
    <3> QED BY <1>1, <1>2, <1>7, <1>11, <2>1, <3>1
  <2>2. CASE ~(i > l)
    <3>1. pages' = [pages EXCEPT ![i] = q] /\ i \in 1 .. l
      BY <1>2, <1>3, <1>7, <2>2 DEF add
    <3> QED BY <1>1, <1>2, <1>7, <1>11, <2>2, <3>1
  <2> QED BY <2>1, <2>2
<1>13. \A j \in 1 .. m : j = i \/ (j \in 1 .. l /\ pages'[j] = pages[j])
  BY <1>2, <1>3, <1>11, <1>12
<1>14. DOMAIN pages' = 1 .. m
  BY <1>12
<1>15. PagesInv'
  <2>1. \A j \in DOMAIN pages' : Len(pages'[j]) <= PageSize
    BY <1>5, <1>10, <1>12, <1>13, <1>14
  <2>2. \A j \in i + 1 .. m : Len(pages'[j]) = 0
    <3>1. ASSUME NEW j \in i + 1 .. m PROVE Len(pages'[j]) = 0
      <4>1. j \in Nat /\ j > i /\ j <= m
        OBVIOUS
      <4>2. m = l
        BY <1>3, <1>11, <4>1
      <4>3. j \in 1 .. m /\ j # i /\ j \in hot + 1 .. l
        BY <1>1, <1>2, <1>3, <4>1, <4>2
      <4> QED BY <1>5, <1>13, <4>3
    <3> QED BY <3>1
  <2>3. ~DebugPoolAllocation => \A j \in 1 .. i - 1 : Len(pages'[j]) = PageSize
    <3>1. ASSUME ~DebugPoolAllocation, NEW j \in 1 .. i - 1 PROVE Len(pages'[j]) = PageSize
      <4>1. j \in 1 .. l /\ j # i /\ pages'[j] = pages[j]
        BY <1>1, <1>2, <1>3, <1>12
      <4>2. CASE j = hot
        BY <3>1, <4>1, <4>2 DEF full
      <4>3. CASE j # hot
        <5>1. j \in 1 .. hot - 1
          BY <1>1, <1>3, <4>3
        <5> QED BY <1>5, <3>1, <4>1, <5>1
      <4> QED BY <4>2, <4>3
    <3> QED BY <3>1
  <2> QED BY <1>3, <1>4, <1>12, <2>1, <2>2, <2>3 DEF PagesInv, empty, full, DebugPoolAllocation
<1>16. ASSUME NEW j \in 1 .. l
       PROVE  /\ j <= m /\ Len(pages[j]) <= Len(pages'[j])
              /\ \A s \in 1 .. Len(pages[j]) : pages'[j][s] = pages[j][s]
              /\ Len(pages[j]) # 0 => j < i \/ (j = i /\ Len(pages[j]) < Len(pages'[j]))
  <2>1. j <= m
    BY <1>2, <1>11
  <2>2. CASE j = i
    BY <1>1, <1>2, <1>8, <1>9, <1>12, <2>1, <2>2
  <2>3. CASE j # i
    <3>1. Len(pages[j]) # 0 => j <= hot
      BY <1>1, <1>2, <1>5
    <3>2. pages'[j] = pages[j] /\ Len(pages[j]) \in Nat
      BY <1>1, <1>2, <1>12, <2>3
    <3>3. Len(pages[j]) # 0 => j < i
      BY <1>1, <1>3, <2>3, <3>1
    <3> QED BY <2>1, <3>2, <3>3
  <2> QED BY <2>2, <2>3
<1>17. l <= hot + 1 => m <= i + 1
  <2>1. hot \in Nat /\ i \in Nat /\ hot <= i
    BY <1>1, <1>3
  <2> QED BY <2>1, <1>11
<1>18. e = Boundary /\ DebugPoolAllocation => i > 1
  BY <1>1
<1>19. i \in 1 .. m
  BY <1>2, <1>3, <1>11
<1>20. \A j \in 1 .. i - 1 : j \in 1 .. l /\ pages'[j] = pages[j]
  <2>1. \A j \in 1 .. i - 1 : j \in 1 .. l /\ j # i
    BY <1>2, <1>3
  <2> QED BY <1>12, <2>1
<1>21. pages'[i] = IF i > l THEN <<e>> ELSE Append(pages[i], e)
  BY <1>7, <1>12
<1> QED BY <1>2, <1>3, <1>4, <1>8, <1>10, <1>12, <1>15, <1>16, <1>17, <1>18, <1>19, <1>20, <1>21 DEF Added


\* No page: the object is leaked, or the pool is the placeholder.
Untouched(e) ==
  /\ UNCHANGED <<pages, hot>> /\ hot = 0 /\ ~placeholder
  /\ IF e = Boundary THEN placeholder' = TRUE ELSE UNCHANGED placeholder

LEMMA NoPageEffect ==
  ASSUME TypeInv, PagesInv, NEW e \in Entry, hot = 0, autoreleaseNoPage(e), UNCHANGED debug
  PROVE  Untouched(e) \/ Added(e)
<1>1. e = Boundary \/ e = Object
  BY DEF Entry
<1>2. pages = <<>> /\ Len(pages) = 0
  BY DEF PagesInv
<1>3. CASE ~placeholder /\ e = Object /\ DebugMissingPools
  BY <1>3, EntryAssumption DEF autoreleaseNoPage, Untouched
<1>4. CASE ~(e = Object /\ DebugMissingPools) /\ ~placeholder /\ e = Boundary /\ ~DebugPoolAllocation
  BY <1>4 DEF autoreleaseNoPage, Untouched
<1>5. CASE /\ ~(~placeholder /\ e = Object /\ DebugMissingPools)
           /\ ~(~placeholder /\ e = Boundary /\ ~DebugPoolAllocation)
  <2>1. PICK q : q = IF placeholder THEN <<Boundary, e>> ELSE <<e>>
    OBVIOUS
  <2>2. pages' = <<q>> /\ hot' = 1 /\ ~placeholder'
    BY <1>5, <2>1 DEF autoreleaseNoPage
  <2>3. /\ q \in Seq(Entry) /\ Len(q) \in {1, 2} /\ Len(q) # 0 /\ Len(q) \in Nat /\ q[Len(q)] = e
    <3>1. CASE placeholder
      BY <2>1, <3>1 DEF Entry
    <3>2. CASE ~placeholder
      BY <2>1, <3>2
    <3> QED BY <3>1, <3>2
  <2>4. /\ pages' \in Seq(Seq(Entry)) /\ Len(pages') = 1 /\ pages'[1] = q /\ DOMAIN pages' = {1}
    BY <2>2, <2>3
  <2>5. PagesInv'
    <3>1. Len(q) <= PageSize
      BY <2>3, PageSizeProperties
    <3> QED BY <2>2, <2>4, <3>1 DEF PagesInv, empty, full
  <2>6. Added(e)
    BY <1>2, <1>5, <2>1, <2>2, <2>3, <2>4, <2>5 DEF Added
  <2> QED BY <2>6
<1> QED BY <1>1, <1>3, <1>4, <1>5, EntryAssumption

LEMMA FastEffect ==
  ASSUME TypeInv, PagesInv, NEW e \in Entry, autoreleaseFast(e), UNCHANGED debug
  PROVE  Untouched(e) \/ Added(e)
<1>1. CASE hot = 0
  BY <1>1, NoPageEffect DEF autoreleaseFast
<1>2. CASE hot # 0 /\ (full(hot) \/ (e = Boundary /\ DebugPoolAllocation))
  <2>1. hot \in Nat /\ Len(pages) \in Nat /\ hot <= Len(pages) /\ DOMAIN pages = 1 .. Len(pages)
    BY PagesShape
  <2>2. PICK T : T = {j \in hot + 1 .. Len(pages) + 1 : j > Len(pages) \/ ~full(j)}
    OBVIOUS
  <2>3. T \in SUBSET Nat
    BY <2>1, <2>2
  <2>4. hot + 1 \in T
    <3>1. hot + 1 \in hot + 1 .. Len(pages) + 1
      BY <2>1
    <3>2. ~(hot + 1 > Len(pages)) => ~full(hot + 1)
      <4>1. ~(hot + 1 > Len(pages)) => hot + 1 \in hot + 1 .. Len(pages)
        BY <2>1
      <4> QED BY <4>1, PageSizeProperties DEF PagesInv, empty, full
    <3> QED BY <2>2, <3>1, <3>2
  <2>5. \A j \in T : hot + 1 <= j
    BY <2>1, <2>2
  <2>6. Min(T) = hot + 1
    BY <2>3, <2>4, <2>5, MinOf
  <2>7. add(e, hot + 1) /\ hot + 1 \in Nat
    BY <1>2, <2>1, <2>2, <2>6 DEF autoreleaseFast, autoreleaseFullPage
  <2> QED BY <1>2, <2>7, AddEffect
<1>3. CASE hot # 0 /\ ~(full(hot) \/ (e = Boundary /\ DebugPoolAllocation))
  <2>1. add(e, hot) /\ hot \in Nat
    BY <1>3, PagesShape DEF autoreleaseFast
  <2> QED BY <1>3, <2>1, AddEffect
<1> QED BY <1>1, <1>2, <1>3


\* The hottest entry was removed, and it was not below the end of the pop.
Removed ==
  LET until == top.until IN
  /\ pages' \in Seq(Seq(Entry)) /\ Len(pages') = Len(pages) /\ hot' \in 1 .. hot
  /\ Len(pages[hot']) # 0 /\ Len(pages'[hot']) = Len(pages[hot']) - 1
  /\ \A s \in 1 .. Len(pages[hot']) - 1 : pages'[hot'][s] = pages[hot'][s]
  /\ \A i \in 1 .. Len(pages) : i # hot' => pages'[i] = pages[i]
  /\ PagesInv'
  /\ until.page <= hot' /\ until.slot <= Len(pages'[until.page])

LEMMA FrontOf ==
  ASSUME NEW S, NEW s \in Seq(S), Len(s) # 0
  PROVE  /\ Front(s) \in Seq(S) /\ Len(Front(s)) = Len(s) - 1
         /\ \A k \in 1 .. Len(s) - 1 : Front(s)[k] = s[k]
<1>1. PICK n \in Nat : n = Len(s) - 1
  OBVIOUS
<1>2. Front(s) = [k \in 1 .. n |-> s[k]]
  BY <1>1 DEF Front
<1>3. \A k \in 1 .. n : s[k] \in S
  BY <1>1
<1> QED BY <1>1, <1>2, <1>3

LEMMA ReleaseEffect ==
  ASSUME TypeInv, PagesInv, UntilInv, releaseUntil
  PROVE  Removed
<1>1. /\ pages \in Seq(Seq(Entry)) /\ Len(pages) \in Nat /\ DOMAIN pages = 1 .. Len(pages)
      /\ hot \in Nat /\ hot <= Len(pages)
      /\ \A i \in 1 .. Len(pages) :
           pages[i] \in Seq(Entry) /\ Len(pages[i]) \in Nat /\ DOMAIN pages[i] = 1 .. Len(pages[i])
  BY PagesShape
<1>2. PICK u : u = top.until
  OBVIOUS
<1>3. u # None /\ Len(pages[u.page]) # u.slot /\ UNCHANGED <<placeholder, debug>>
  BY <1>2 DEF releaseUntil
<1>4. u \in Position /\ u.page \in 1 .. hot /\ u.slot <= Len(pages[u.page])
  <2>1. top = frames[Len(frames)] /\ Len(frames) \in DOMAIN frames /\ (top.until # None => top.until \in Position)
    BY FramesShape
  <2> QED BY <1>2, <1>3, <2>1 DEF UntilInv
<1>5. u.page \in Nat /\ u.slot \in Nat /\ u.page \in 1 .. Len(pages)
  BY <1>1, <1>4 DEF Position
<1>6. PICK T : T = {i \in 1 .. hot : ~empty(i)}
  OBVIOUS
<1>7. PICK p : p = Max(T)
  OBVIOUS
<1>8. hot' = p /\ pages' = [pages EXCEPT ![p] = Front(@)]
  BY <1>6, <1>7 DEF releaseUntil, NonEmptyPage
<1>9. T \in SUBSET Nat /\ u.page \in T /\ \A i \in T : i <= hot
  BY <1>1, <1>3, <1>4, <1>5, <1>6 DEF empty
<1>10. p \in T /\ \A i \in T : i <= p
  BY <1>1, <1>7, <1>9, MaxOf
<1>11. p \in 1 .. hot /\ p \in 1 .. Len(pages) /\ p \in Nat /\ Len(pages[p]) # 0 /\ u.page <= p
  BY <1>1, <1>6, <1>9, <1>10 DEF empty
<1>12. PICK q : q = Front(pages[p])
  OBVIOUS
<1>13. /\ q \in Seq(Entry) /\ Len(q) = Len(pages[p]) - 1
       /\ \A s \in 1 .. Len(pages[p]) - 1 : q[s] = pages[p][s]
  BY <1>1, <1>11, <1>12, FrontOf
<1>14. /\ pages' \in Seq(Seq(Entry)) /\ Len(pages') = Len(pages) /\ pages'[p] = q
       /\ DOMAIN pages' = 1 .. Len(pages)
       /\ \A i \in 1 .. Len(pages) : i # p => pages'[i] = pages[i]
  BY <1>1, <1>8, <1>11, <1>12, <1>13
<1>15. PagesInv'
  <2>1. ~placeholder /\ hot # 0
    BY <1>1, <1>11 DEF PagesInv
  <2>2. \A i \in 1 .. Len(pages) : Len(pages'[i]) <= PageSize
    <3>1. \A i \in 1 .. Len(pages) : Len(pages[i]) <= PageSize
      BY <1>1 DEF PagesInv
    <3>2. Len(pages'[p]) <= PageSize
      BY <1>1, <1>11, <1>13, <1>14, <3>1, PageSizeProperties
    <3> QED BY <1>14, <3>1, <3>2
  <2>3. ASSUME NEW i \in p + 1 .. Len(pages) PROVE Len(pages'[i]) = 0
    <3>1. i \in 1 .. Len(pages) /\ i # p /\ pages'[i] = pages[i]
      BY <1>1, <1>11, <1>14
    <3>2. CASE i <= hot
      <4>1. i \in 1 .. hot /\ ~(i <= p)
        BY <1>1, <1>11, <3>2
      <4> QED BY <1>6, <1>10, <3>1, <4>1 DEF empty
    <3>3. CASE i > hot
      <4>1. i \in hot + 1 .. Len(pages)
        BY <1>1, <3>3
      <4> QED BY <3>1, <4>1 DEF PagesInv, empty
    <3> QED BY <1>1, <3>2, <3>3
  <2>4. ~DebugPoolAllocation => \A i \in 1 .. p - 1 : Len(pages'[i]) = PageSize
    <3>1. \A i \in 1 .. p - 1 : i \in 1 .. hot - 1 /\ i \in 1 .. Len(pages) /\ i # p
      BY <1>1, <1>11
    <3> QED BY <1>14, <3>1 DEF PagesInv, full
  <2> QED BY <1>3, <1>8, <1>11, <1>14, <2>1, <2>2, <2>3, <2>4
          DEF PagesInv, empty, full, DebugPoolAllocation
<1>16. u.slot <= Len(pages'[u.page])
  <2>1. u.slot < Len(pages[u.page])
    BY <1>1, <1>3, <1>4, <1>5
  <2>2. CASE u.page = p
    BY <1>1, <1>5, <1>11, <1>13, <1>14, <2>1, <2>2
  <2>3. CASE u.page # p
    BY <1>4, <1>5, <1>14, <2>3
  <2> QED BY <2>2, <2>3
<1> QED BY <1>2, <1>8, <1>11, <1>13, <1>14, <1>15, <1>16 DEF Removed

LEMMA KillEffect ==
  ASSUME TypeInv, NEW i \in Nat, i # 0
  PROVE  /\ kill(i) \in Seq(Seq(Entry))
         /\ Len(kill(i)) = (IF i - 1 <= Len(pages) THEN i - 1 ELSE Len(pages))
         /\ \A j \in 1 .. Len(kill(i)) : kill(i)[j] = pages[j]
         /\ i = 1 => kill(i) = <<>>
<1>1. pages \in Seq(Seq(Entry)) /\ Len(pages) \in Nat /\ DOMAIN pages = 1 .. Len(pages)
  BY PagesShape
<1>2. PICK l \in Nat, k \in Nat : l = Len(pages) /\ k = i - 1
  <2>1. Len(pages) \in Nat /\ i - 1 \in Nat
    BY <1>1
  <2> QED BY <2>1
<1>3. PICK m \in Nat : m = IF k <= l THEN k ELSE l
  OBVIOUS
<1>4. kill(i) = [j \in 1 .. m |-> pages[j]]
  <2>1. 1 .. l \cap 1 .. k = 1 .. m
    BY <1>3
  <2>2. DOMAIN pages \cap 1 .. i - 1 = 1 .. m
    BY <1>1, <1>2, <2>1
  <2> QED BY <2>2 DEF kill
<1>5. \A j \in 1 .. m : pages[j] \in Seq(Entry)
  <2>1. \A j \in 1 .. m : j \in 1 .. l
    BY <1>3
  <2> QED BY <1>1, <1>2, <2>1
<1>6. kill(i) \in Seq(Seq(Entry)) /\ Len(kill(i)) = m
  BY <1>4, <1>5
<1>7. \A j \in 1 .. m : kill(i)[j] = pages[j]
  BY <1>4
<1>8. i = 1 => kill(i) = <<>>
  BY <1>2, <1>3, <1>6
<1> QED BY <1>2, <1>3, <1>6, <1>7, <1>8


\* The page of the token is the hot one, with its children gone but for an empty one; or
\* it was empty, and is gone too.
Finished ==
  LET i == top.until.page IN
  /\ pages' \in Seq(Seq(Entry)) /\ hot' \in 0 .. Len(pages') /\ PagesInv'
  /\ Len(pages') <= hot' + 1
  /\ \A j \in 1 .. Len(pages') : j <= Len(pages) /\ pages'[j] = pages[j]
  /\ \/ hot' = i /\ (empty(i) => ~DebugPoolAllocation /\ ~(DebugMissingPools /\ i = 1))
     \/ hot' = i - 1 /\ Len(pages[i]) = 0 /\ (DebugPoolAllocation \/ (DebugMissingPools /\ i = 1))

LEMMA FinishEffect ==
  ASSUME TypeInv, PagesInv, UntilInv, ExitInv, finishPop
  PROVE  Finished
<1>1. /\ pages \in Seq(Seq(Entry)) /\ Len(pages) \in Nat /\ DOMAIN pages = 1 .. Len(pages)
      /\ hot \in Nat /\ hot <= Len(pages)
  BY PagesShape
<1>2. PICK i, u : u = top.until /\ i = u.page
  OBVIOUS
<1>3. u # None /\ Len(pages[i]) = u.slot /\ popPage(i) /\ UNCHANGED <<placeholder, debug>>
  BY <1>2 DEF finishPop
<1>4. top = frames[Len(frames)] /\ Len(frames) \in DOMAIN frames /\ (u # None => u \in Position)
  BY <1>2, FramesShape
<1>5. Reached(Len(frames))
  BY <1>2, <1>3, <1>4 DEF Reached
<1>6. i \in 1 .. hot /\ (hot = i \/ (Loose(Len(frames)) /\ DebugPoolAllocation))
  BY <1>2, <1>3, <1>4, <1>5 DEF UntilInv
<1>7. i \in Nat /\ i # 0 /\ i <= Len(pages) /\ i + 1 \in Nat /\ i + 2 \in Nat /\ i + 1 # 0 /\ i + 2 # 0
  BY <1>1, <1>6
<1>8. ~placeholder /\ hot # 0
  BY <1>1, <1>6 DEF PagesInv
<1>9. PICK m \in Nat : /\ pages' = kill(m) /\ m # 0 /\ hot' \in {m - 1, i}
                       /\ \/ hot' = i /\ m \in {i + 1, i + 2}
                          \/ hot' = i - 1 /\ m = i
                       /\ \/ hot' = i /\ (empty(i) => ~DebugPoolAllocation /\ ~(DebugMissingPools /\ i = 1))
                          \/ hot' = i - 1 /\ Len(pages[i]) = 0 /\ (DebugPoolAllocation \/ (DebugMissingPools /\ i = 1))
  <2>1. CASE empty(i) /\ (DebugPoolAllocation \/ (DebugMissingPools /\ i = 1))
    <3>1. pages' = kill(i) /\ hot' = i - 1
      BY <1>3, <2>1 DEF popPage
    <3> QED BY <1>7, <2>1, <3>1 DEF empty
  <2>2. CASE ~(empty(i) /\ (DebugPoolAllocation \/ (DebugMissingPools /\ i = 1)))
    <3>1. hot' = i /\ (pages' = kill(i + 1) \/ pages' = kill(i + 2))
      BY <1>3, <2>2 DEF popPage, hysteresis
    <3>2. empty(i) => ~DebugPoolAllocation /\ ~(DebugMissingPools /\ i = 1)
      BY <2>2
    <3>3. CASE pages' = kill(i + 1)
      BY <1>7, <3>1, <3>2, <3>3
    <3>4. CASE pages' = kill(i + 2)
      BY <1>7, <3>1, <3>2, <3>4
    <3> QED BY <3>1, <3>3, <3>4
  <2> QED BY <2>1, <2>2
<1>10. /\ pages' \in Seq(Seq(Entry))
       /\ Len(pages') = (IF m - 1 <= Len(pages) THEN m - 1 ELSE Len(pages))
       /\ \A j \in 1 .. Len(pages') : pages'[j] = pages[j]
       /\ m = 1 => pages' = <<>>
  BY <1>9, KillEffect
<1>11. PICK n \in Nat : n = Len(pages')
  BY <1>10
<1>12. PICK l \in Nat, h \in Nat, g \in Nat : l = Len(pages) /\ h = hot /\ g = hot'
  <2>1. hot' \in Nat
    BY <1>7, <1>9
  <2> QED BY <1>1, <2>1
<1>13. DOMAIN pages' = 1 .. n /\ n <= l /\ (n = m - 1 \/ (n = l /\ n < m - 1))
  <2>1. DOMAIN pages' = 1 .. n
    BY <1>10, <1>11
  <2>2. m - 1 \in Nat
    BY <1>9
  <2>3. n = IF m - 1 <= l THEN m - 1 ELSE l
    BY <1>12, <1>10, <1>11
  <2> QED BY <2>1, <2>2, <2>3
<1>14. hot' \in 0 .. n /\ n <= hot' + 1
  <2>1. (g = i /\ (m = i + 1 \/ m = i + 2)) \/ (g = i - 1 /\ m = i)
    BY <1>12, <1>9
  <2>2. i \in Nat /\ i # 0 /\ i <= l
    BY <1>7, <1>12
  <2>3. g \in 0 .. n /\ n <= g + 1
    <3>1. CASE g = i /\ (m = i + 1 \/ m = i + 2)
      BY <1>13, <2>2, <3>1
    <3>2. CASE g = i - 1 /\ m = i
      BY <1>13, <2>2, <3>2
    <3> QED BY <2>1, <3>1, <3>2
  <2> QED BY <1>12, <2>3
<1>15. \A j \in 1 .. n : j \in 1 .. Len(pages) /\ j <= Len(pages) /\ pages'[j] = pages[j]
  <2>1. \A j \in 1 .. n : j \in 1 .. l /\ j <= l
    BY <1>12, <1>13
  <2> QED BY <1>10, <1>11, <1>12, <2>1
<1>16. hot' = i \/ n = hot'
  BY <1>12, <1>7, <1>9, <1>13
<1>17. hot' = i => hot = i
  <2>1. ASSUME hot' = i, Loose(Len(frames)), DebugPoolAllocation PROVE FALSE
    <3>1. u \in {None, Bottom}
      BY <1>2, <1>4, <2>1 DEF Loose, ExitInv
    <3>2. i = 1 /\ empty(i)
      BY <1>2, <1>3, <3>1 DEF Bottom, empty
    <3> QED BY <1>7, <1>9, <2>1, <3>2
  <2> QED BY <1>6, <2>1
<1>18. PagesInv'
  <2>1. hot' = 0 => pages' = <<>>
    BY <1>7, <1>9, <1>10
  <2>2. \A j \in 1 .. n : Len(pages'[j]) <= PageSize
    BY <1>1, <1>15 DEF PagesInv
  <2>3. ASSUME NEW j \in hot' + 1 .. n PROVE Len(pages'[j]) = 0
    <3>1. hot' = i /\ hot = i
      <4>1. g # n
        <5>1. j \in g + 1 .. n
          BY <1>12
        <5> QED BY <5>1
      <4> QED BY <1>16, <1>17, <4>1
    <3>2. j \in hot + 1 .. Len(pages) /\ j \in 1 .. n
      <4>1. j \in h + 1 .. l /\ j \in 1 .. n
        BY <1>12, <1>13, <3>1
      <4> QED BY <1>12, <4>1
    <3> QED BY <1>15, <3>2 DEF PagesInv, empty
  <2>4. ASSUME ~DebugPoolAllocation, NEW j \in 1 .. hot' - 1 PROVE Len(pages'[j]) = PageSize
    <3>1. j \in 1 .. hot - 1 /\ j \in 1 .. n
      <4>1. j \in 1 .. g - 1 /\ g \in 0 .. n
        BY <1>12, <1>14
      <4>2. g <= i
        BY <1>7, <1>9, <1>12
      <4>3. i \in Nat /\ i <= h
        <5>1. i \in 1 .. h
          BY <1>6, <1>12
        <5> QED BY <5>1
      <4>4. j \in 1 .. h - 1 /\ j \in 1 .. n
        BY <4>1, <4>2, <4>3
      <4> QED BY <1>12, <4>4
    <3> QED BY <1>15, <2>4, <3>1 DEF PagesInv, full
  <2> QED BY <1>3, <1>8, <1>11, <1>13, <2>1, <2>2, <2>3, <2>4 DEF PagesInv, empty, full, DebugPoolAllocation
<1> QED BY <1>2, <1>9, <1>10, <1>11, <1>14, <1>15, <1>18 DEF Finished


--------------------------------------------------------------------------------
(* Places of the pool *)

Hottest == [page |-> hot', slot |-> Len(pages'[hot']) - 1]

LEMMA PositionProperties ==
  /\ Bottom \in Position /\ None \notin Position /\ Bottom # None
  /\ EMPTY_POOL_PLACEHOLDER \in Position /\ EMPTY_POOL_PLACEHOLDER.page = 0
  /\ Stop(EMPTY_POOL_PLACEHOLDER) = Bottom
  /\ \A p \in Position : p.page \in Nat /\ p.slot \in Nat /\ Stop(p) \in Position
  /\ \A p \in Position : p # EMPTY_POOL_PLACEHOLDER => Stop(p) = p
BY EntryAssumption DEF Bottom, Position, EMPTY_POOL_PLACEHOLDER, Stop

LEMMA BeforeProperties ==
  /\ \A p \in Position : ~Before(p, p)
  /\ \A p, q, r \in Position : Before(p, q) /\ Before(q, r) => Before(p, r)
BY PositionProperties DEF Before

\* A boundary is on the hot page or on a parent of it.
LEMMA HereProperties ==
  ASSUME TypeInv, PagesInv, NEW p \in Position, Here(p)
  PROVE  p.page \in 1 .. hot /\ p.page \in 1 .. Len(pages) /\ p.slot < Len(pages[p.page]) /\ hot # 0
<1>1. /\ Len(pages) \in Nat /\ DOMAIN pages = 1 .. Len(pages) /\ hot \in Nat
      /\ \A i \in 1 .. Len(pages) : Len(pages[i]) \in Nat
  BY PagesShape
<1>2. p.page \in 1 .. Len(pages) /\ p.slot < Len(pages[p.page]) /\ p.page \in Nat /\ p.slot \in Nat
  BY <1>1, PositionProperties DEF Here
<1>3. ~(p.page > hot)
  <2>1. p.page > hot => p.page \in hot + 1 .. Len(pages)
    BY <1>1, <1>2
  <2>2. \A i \in hot + 1 .. Len(pages) : Len(pages[i]) = 0
    BY DEF PagesInv, empty
  <2> QED BY <1>2, <2>1, <2>2
<1> QED BY <1>1, <1>2, <1>3

\* There is a boundary at p after the step.
HereAfter(p) ==
  p.page \in DOMAIN pages' /\ p.slot < Len(pages'[p.page]) /\ pages'[p.page][p.slot + 1] = Boundary

LEMMA AddedHere ==
  ASSUME TypeInv, NEW e \in Entry, Added(e), NEW p \in Position, Here(p)
  PROVE  HereAfter(p) /\ Before(p, Hottest)
<1>1. /\ Len(pages) \in Nat /\ DOMAIN pages = 1 .. Len(pages)
      /\ \A i \in 1 .. Len(pages) : Len(pages[i]) \in Nat
  BY PagesShape
<1>2. p.page \in 1 .. Len(pages) /\ p.slot < Len(pages[p.page]) /\ p.slot \in Nat /\ p.page \in Nat
  BY <1>1, PositionProperties DEF Here
<1>3. /\ p.page <= Len(pages') /\ Len(pages[p.page]) <= Len(pages'[p.page])
      /\ pages'[p.page][p.slot + 1] = pages[p.page][p.slot + 1]
      /\ p.page < hot' \/ (p.page = hot' /\ Len(pages[p.page]) < Len(pages'[p.page]))
  <2>1. p.slot + 1 \in 1 .. Len(pages[p.page]) /\ Len(pages[p.page]) # 0
    BY <1>1, <1>2
  <2> QED BY <1>2, <2>1 DEF Added
<1>4. pages' \in Seq(Seq(Entry)) /\ Len(pages') \in Nat /\ DOMAIN pages' = 1 .. Len(pages')
  BY DEF Added
<1>5. p.page \in DOMAIN pages' /\ Len(pages'[p.page]) \in Nat
  BY <1>2, <1>3, <1>4
<1>6. HereAfter(p)
  BY <1>1, <1>2, <1>3, <1>5 DEF Here, HereAfter, At
<1>7. Hottest.page = hot' /\ Hottest.slot = Len(pages'[hot']) - 1
  BY DEF Hottest
<1>8. Before(p, Hottest)
  BY <1>1, <1>2, <1>3, <1>5, <1>7 DEF Before
<1> QED BY <1>6, <1>8

LEMMA RemovedHere ==
  ASSUME TypeInv, top.until \in Position, Removed, NEW p \in Position, Here(p),
         Before(p, top.until)
  PROVE  HereAfter(p) /\ p.page <= hot'
<1>1. /\ Len(pages) \in Nat /\ DOMAIN pages = 1 .. Len(pages) /\ hot \in Nat /\ hot <= Len(pages)
      /\ \A i \in 1 .. Len(pages) : Len(pages[i]) \in Nat
  BY PagesShape
<1>2. p.page \in 1 .. Len(pages) /\ p.slot < Len(pages[p.page]) /\ p.slot \in Nat /\ p.page \in Nat
      /\ At(p) = Boundary
  BY <1>1, PositionProperties DEF Here
<1>3. PICK u \in Position : u = top.until
  OBVIOUS
<1>4. u.page \in Nat /\ u.slot \in Nat /\ (p.page < u.page \/ (p.page = u.page /\ p.slot < u.slot))
  BY <1>3, PositionProperties DEF Before
<1>5. /\ Len(pages') = Len(pages) /\ hot' \in 1 .. hot /\ DOMAIN pages' = 1 .. Len(pages)
      /\ Len(pages'[hot']) = Len(pages[hot']) - 1
      /\ \A s \in 1 .. Len(pages[hot']) - 1 : pages'[hot'][s] = pages[hot'][s]
      /\ \A i \in 1 .. Len(pages) : i # hot' => pages'[i] = pages[i]
      /\ u.page <= hot' /\ u.slot <= Len(pages'[u.page])
  <2>1. pages' \in Seq(Seq(Entry)) /\ Len(pages') = Len(pages) /\ hot' \in 1 .. hot
    BY DEF Removed
  <2>2. DOMAIN pages' = 1 .. Len(pages)
    BY <2>1
  <2>3. /\ Len(pages'[hot']) = Len(pages[hot']) - 1
        /\ \A s \in 1 .. Len(pages[hot']) - 1 : pages'[hot'][s] = pages[hot'][s]
        /\ \A i \in 1 .. Len(pages) : i # hot' => pages'[i] = pages[i]
    BY DEF Removed
  <2>4. u.page <= hot' /\ u.slot <= Len(pages'[u.page])
    BY <1>3 DEF Removed
  <2> QED BY <2>1, <2>2, <2>3, <2>4
<1>6. p.page <= hot'
  BY <1>1, <1>2, <1>4, <1>5
<1>7. CASE p.page = hot'
  <2>1. p.page = u.page /\ p.slot < Len(pages'[p.page])
    BY <1>1, <1>2, <1>4, <1>5, <1>7
  <2>2. p.slot + 1 \in 1 .. Len(pages[p.page]) - 1
    BY <1>1, <1>2, <1>5, <1>7, <2>1
  <2>3. pages'[p.page][p.slot + 1] = pages[p.page][p.slot + 1]
    BY <1>5, <1>7, <2>2
  <2> QED BY <1>2, <1>5, <1>6, <2>1, <2>3 DEF Here, HereAfter, At
<1>8. CASE p.page # hot'
  <2>1. pages'[p.page] = pages[p.page]
    BY <1>2, <1>5, <1>8
  <2> QED BY <1>2, <1>5, <1>6, <2>1 DEF Here, HereAfter, At
<1> QED BY <1>7, <1>8

LEMMA FinishedHere ==
  ASSUME TypeInv, top.until \in Position, Finished, Len(pages[top.until.page]) = top.until.slot,
         NEW p \in Position, Here(p), Before(p, top.until)
  PROVE  HereAfter(p) /\ p.page <= hot'
<1>1. /\ Len(pages) \in Nat /\ DOMAIN pages = 1 .. Len(pages)
  BY PagesShape
<1>2. p.page \in 1 .. Len(pages) /\ p.slot < Len(pages[p.page]) /\ p.slot \in Nat /\ p.page \in Nat
      /\ At(p) = Boundary
  BY <1>1, PositionProperties DEF Here
<1>3. PICK u \in Position : u = top.until
  OBVIOUS
<1>4. u.page \in Nat /\ u.slot \in Nat /\ (p.page < u.page \/ (p.page = u.page /\ p.slot < u.slot))
  BY <1>3, PositionProperties DEF Before
<1>5. /\ hot' \in 0 .. Len(pages') /\ pages' \in Seq(Seq(Entry)) /\ DOMAIN pages' = 1 .. Len(pages')
      /\ Len(pages') \in Nat
      /\ \A j \in 1 .. Len(pages') : pages'[j] = pages[j]
      /\ hot' = u.page \/ (hot' = u.page - 1 /\ Len(pages[u.page]) = 0)
  BY <1>3 DEF Finished
<1>6. p.page <= hot'
  <2>1. CASE hot' = u.page
    BY <1>2, <1>4, <2>1
  <2>2. CASE hot' = u.page - 1 /\ Len(pages[u.page]) = 0
    <3>1. u.slot = 0
      BY <1>3, <2>2
    <3>2. p.page < u.page
      BY <1>2, <1>4, <3>1
    <3> QED BY <1>2, <1>4, <2>2, <3>2
  <2> QED BY <1>5, <2>1, <2>2
<1>7. p.page \in 1 .. Len(pages')
  BY <1>2, <1>5, <1>6
<1> QED BY <1>2, <1>5, <1>6, <1>7 DEF Here, HereAfter, At


--------------------------------------------------------------------------------
(* What the actions do to the frames *)

LEMMA TopReplaced ==
  ASSUME TypeInv, NEW f \in FrameType, frames' = Append(Front(frames), f)
  PROVE  /\ frames' \in Seq(FrameType) /\ Len(frames') = Len(frames) /\ frames' # <<>>
         /\ DOMAIN frames' = 1 .. Len(frames) /\ frames'[Len(frames)] = f /\ top' = f
         /\ \A j \in 1 .. Len(frames) : j # Len(frames) => frames'[j] = frames[j]
<1>1. frames \in Seq(FrameType) /\ Len(frames) \in Nat /\ Len(frames) # 0
  BY FramesShape
<1>2. PICK q : q = Front(frames)
  OBVIOUS
<1>3. /\ q \in Seq(FrameType) /\ Len(q) = Len(frames) - 1
      /\ \A k \in 1 .. Len(frames) - 1 : q[k] = frames[k]
  BY <1>1, <1>2, FrontOf
<1>4. PICK n \in Nat : n = Len(frames)
  BY <1>1
<1>5. /\ frames' \in Seq(FrameType) /\ Len(frames') = n /\ frames'[n] = f
      /\ \A j \in 1 .. n : j # n => frames'[j] = frames[j]
  <2>1. frames' = Append(q, f)
    BY <1>2
  <2>2. \A j \in 1 .. n : j # n => j \in 1 .. n - 1
    BY <1>4
  <2>3. Len(q) = n - 1 /\ n # 0 /\ \A k \in 1 .. n - 1 : q[k] = frames[k]
    BY <1>1, <1>3, <1>4
  <2> QED BY <1>3, <2>1, <2>2, <2>3
<1>6. top' = f
  BY <1>5 DEF top, Last
<1> QED BY <1>1, <1>4, <1>5, <1>6

LEMMA FramePushed ==
  ASSUME TypeInv, NEW f \in FrameType, frames' = Append(frames, f)
  PROVE  /\ frames' \in Seq(FrameType) /\ Len(frames') = Len(frames) + 1 /\ frames' # <<>>
         /\ DOMAIN frames' = 1 .. Len(frames) + 1 /\ frames'[Len(frames) + 1] = f /\ top' = f
         /\ \A j \in 1 .. Len(frames) : frames'[j] = frames[j]
<1>1. PICK n \in Nat : n = Len(frames) /\ frames \in Seq(FrameType)
  BY FramesShape
<1>2. /\ frames' \in Seq(FrameType) /\ Len(frames') = n + 1 /\ frames'[n + 1] = f
      /\ \A j \in 1 .. n : frames'[j] = frames[j]
  BY <1>1
<1>3. top' = f
  BY <1>1, <1>2 DEF top, Last
<1> QED BY <1>1, <1>2, <1>3

LEMMA TopPopped ==
  ASSUME TypeInv, Len(frames) > 1, frames' = Front(frames)
  PROVE  /\ frames' \in Seq(FrameType) /\ Len(frames') = Len(frames) - 1 /\ frames' # <<>>
         /\ DOMAIN frames' = 1 .. Len(frames) - 1 /\ top' = frames[Len(frames) - 1]
         /\ \A j \in 1 .. Len(frames) - 1 : frames'[j] = frames[j]
<1>1. PICK n \in Nat : n = Len(frames) /\ frames \in Seq(FrameType) /\ n > 1
  BY FramesShape
<1>2. /\ frames' \in Seq(FrameType) /\ Len(frames') = n - 1
      /\ \A j \in 1 .. n - 1 : frames'[j] = frames[j]
  BY <1>1, FrontOf
<1>3. n - 1 \in 1 .. n - 1
  BY <1>1
<1>4. top' = frames[n - 1]
  BY <1>1, <1>2, <1>3 DEF top, Last
<1> QED BY <1>1, <1>2, <1>3, <1>4

LEMMA FrameProperties ==
  ASSUME NEW tokens \in Seq(Position), NEW until \in Position \cup {None}
  PROVE  /\ Frame(tokens, until) \in FrameType
         /\ Frame(tokens, until).tokens = tokens /\ Frame(tokens, until).until = until
BY DEF Frame, FrameType

--------------------------------------------------------------------------------
(* What the invariant says of all tokens and pops under way *)

\* Outside a pop, the pops of the outer frames end at boundaries.
LEMMA OuterHere ==
  ASSUME IInv, NEW j \in 1 .. Len(frames), j # Len(frames)
  PROVE  /\ frames[j].until \in Position /\ frames[j].until.page \in 1 .. hot
         /\ frames[j].until.slot <= Len(pages[frames[j].until.page])
         /\ Loose(j) \/ Here(frames[j].until)
<1>1. /\ Len(frames) \in Nat /\ DOMAIN frames = 1 .. Len(frames)
      /\ frames[j].until # None => frames[j].until \in Position
  BY FramesShape DEF IInv
<1>2. j < Len(frames) /\ j \in DOMAIN frames
  <2>1. PICK n \in Nat : n = Len(frames)
    BY <1>1
  <2>2. j \in 1 .. n /\ j # n
    BY <2>1
  <2>3. j < n
    BY <2>2
  <2> QED BY <1>1, <2>1, <2>3
<1>3. ~Reached(j)
  BY <1>1 DEF Reached
<1> QED BY <1>1, <1>2, <1>3 DEF IInv, UntilInv

\* The pop at the end of the thread has no tokens.
LEMMA LooseProperties ==
  ASSUME IInv, NEW j \in 1 .. Len(frames), Loose(j), frames[j].until # None
  PROVE  j = 1 /\ exiting /\ frames[j].tokens = <<>> /\ frames[j].until = Bottom
BY DEF Loose, IInv, ExitInv

\* Where the innermost pop ends is hotter than every token, and than where the others end.
LEMMA AllBelow ==
  ASSUME IInv, top.until # None
  PROVE  /\ \A j \in 1 .. Len(frames) : \A a \in DOMAIN frames[j].tokens :
              Before(Stop(frames[j].tokens[a]), top.until) /\ Here(Stop(frames[j].tokens[a]))
         /\ \A j \in 1 .. Len(frames) :
              j # Len(frames) /\ ~Loose(j) => Before(frames[j].until, top.until)
         /\ top.until \in Position /\ top.until.page \in 1 .. hot /\ ~placeholder /\ hot # 0
<1>1. /\ Len(frames) \in Nat /\ Len(frames) # 0 /\ DOMAIN frames = 1 .. Len(frames) /\ top = frames[Len(frames)]
      /\ \A j \in 1 .. Len(frames) :
           /\ DOMAIN frames[j].tokens = 1 .. Len(frames[j].tokens)
           /\ \A a \in 1 .. Len(frames[j].tokens) :
                frames[j].tokens[a] \in Position /\ Stop(frames[j].tokens[a]) \in Position
           /\ frames[j].until # None => frames[j].until \in Position
  BY FramesShape DEF IInv
<1>2. PICK n \in Nat : n = Len(frames) /\ n \in 1 .. Len(frames) /\ n \in DOMAIN frames
  BY <1>1
<1>3. hot \in Nat
  BY PagesShape DEF IInv
<1>4. top.until \in Position /\ top.until.page \in 1 .. hot
  BY <1>1, <1>2 DEF IInv, UntilInv
<1>5. hot # 0 /\ ~placeholder
  BY <1>3, <1>4 DEF IInv, PagesInv
<1>6. ASSUME NEW j \in 1 .. Len(frames), j # n, ~Loose(j)
      PROVE  Before(frames[j].until, top.until)
  <2>1. j < n /\ j \in DOMAIN frames
    <3>1. j \in 1 .. n /\ j # n
      BY <1>2, <1>6
    <3>2. j < n
      BY <3>1
    <3> QED BY <1>1, <3>2
  <2> QED BY <1>1, <1>2, <1>6, <2>1 DEF IInv, NestingInv
<1>7. ASSUME NEW j \in 1 .. Len(frames), NEW a \in DOMAIN frames[j].tokens
      PROVE  Before(Stop(frames[j].tokens[a]), top.until) /\ Here(Stop(frames[j].tokens[a]))
  <2>1. j \in DOMAIN frames
    BY <1>1
  <2>2. Here(Stop(frames[j].tokens[a]))
    BY <1>5, <2>1 DEF IInv, TokensInv
  <2>3. frames[j].until # None => Before(Stop(frames[j].tokens[a]), frames[j].until)
    BY <2>1 DEF IInv, TokensInv
  <2>4. CASE j = n
    BY <1>1, <1>2, <2>2, <2>3, <2>4
  <2>5. CASE j # n
    <3>1. frames[j].until \in Position /\ frames[j].until # None
      BY <1>2, <2>5, OuterHere, PositionProperties
    <3>2. ~Loose(j)
      <4>1. Loose(j) => frames[j].tokens = <<>>
        BY <3>1, LooseProperties
      <4> QED BY <4>1
    <3>3. Before(frames[j].until, top.until)
      BY <1>6, <2>5, <3>2
    <3>4. Stop(frames[j].tokens[a]) \in Position
      BY <1>1
    <3> QED BY <1>4, <2>2, <2>3, <3>1, <3>3, <3>4, BeforeProperties
  <2> QED BY <2>4, <2>5
<1> QED BY <1>2, <1>4, <1>5, <1>6, <1>7


--------------------------------------------------------------------------------
(* Pushing an entry *)

\* An entry on a page, and the token of the pool if it is a boundary.
LEMMA AddedStep ==
  ASSUME IInv, NEW e \in Entry, Added(e), Running, UNCHANGED <<debug, exiting>>,
         \/ UNCHANGED frames
         \/ /\ e = Boundary
            /\ frames' = Append(Front(frames), Frame(Append(top.tokens, Hottest), None))
  PROVE  IInv'
<1>1. /\ TypeInv /\ PagesInv /\ KeptInv /\ TokensInv /\ UntilInv /\ NestingInv /\ ExitInv /\ ColdInv
  BY DEF IInv
<1>2. PICK n \in Nat : n = Len(frames) /\ n # 0 /\ DOMAIN frames = 1 .. n /\ frames \in Seq(FrameType)
                       /\ top = frames[n] /\ n \in 1 .. n
  BY <1>1, FramesShape
<1>3. \A j \in 1 .. n :
        /\ frames[j].tokens \in Seq(Position) /\ Len(frames[j].tokens) \in Nat
        /\ DOMAIN frames[j].tokens = 1 .. Len(frames[j].tokens)
        /\ \A a \in 1 .. Len(frames[j].tokens) :
             frames[j].tokens[a] \in Position /\ Stop(frames[j].tokens[a]) \in Position
        /\ frames[j].until # None => frames[j].until \in Position
  BY <1>1, <1>2, FramesShape
<1>4. top.until = None /\ (exiting => n > 1)
  BY <1>2 DEF Running
<1>5. PICK new : new = Hottest
  OBVIOUS
<1>6. /\ pages' \in Seq(Seq(Entry)) /\ Len(pages') \in Nat /\ DOMAIN pages' = 1 .. Len(pages')
      /\ hot' \in 1 .. Len(pages') /\ hot' \in Nat /\ hot' # 0 /\ hot <= hot' /\ PagesInv'
      /\ placeholder' = FALSE
      /\ Len(pages'[hot']) \in Nat /\ Len(pages'[hot']) # 0 /\ pages'[hot'][Len(pages'[hot'])] = e
      /\ hot \in Nat /\ debug' = debug /\ exiting' = exiting
  BY <1>1, PagesShape DEF Added
<1>7. /\ new \in Position /\ new.page = hot' /\ Stop(new) = new
      /\ (e = Boundary => HereAfter(new))
  <2>1. new.page = hot' /\ new.slot = Len(pages'[hot']) - 1 /\ new \in Position
    BY <1>5, <1>6 DEF Hottest, Position
  <2>2. new # EMPTY_POOL_PLACEHOLDER
    BY <1>6, <2>1, PositionProperties
  <2>3. new.slot < Len(pages'[hot']) /\ new.slot + 1 = Len(pages'[hot'])
    BY <1>6, <2>1
  <2> QED BY <1>6, <2>1, <2>2, <2>3, PositionProperties DEF HereAfter
<1>8. ASSUME NEW p \in Position, Here(p) PROVE HereAfter(p) /\ Before(p, new)
  BY <1>1, <1>5, <1>8, AddedHere
<1>9. ASSUME NEW j \in 1 .. n, NEW a \in DOMAIN frames[j].tokens
      PROVE  LET p == Stop(frames[j].tokens[a]) IN HereAfter(p) /\ Before(p, new)
  <2>1. frames[j].tokens[a] \in Position /\ Stop(frames[j].tokens[a]) \in Position
    BY <1>3
  <2>2. CASE Here(Stop(frames[j].tokens[a]))
    BY <1>8, <2>1, <2>2
  <2>3. CASE frames[j].tokens[a] = EMPTY_POOL_PLACEHOLDER /\ placeholder
    <3>1. Stop(frames[j].tokens[a]) = Bottom
      BY <2>3, PositionProperties
    <3>2. hot = 0
      BY <1>1, <2>3 DEF PagesInv
    <3>3. pages' = <<<<Boundary, e>>>>
      BY <2>3, <3>2 DEF Added
    <3>4. hot' = 1 /\ pages'[1] = <<Boundary, e>> /\ Len(pages'[1]) = 2 /\ pages'[1][1] = Boundary
          /\ DOMAIN pages' = {1}
      BY <1>6, <3>3
    <3>5. HereAfter(Bottom)
      BY <3>4 DEF HereAfter, Bottom
    <3>6. Before(Bottom, new)
      <4>1. new.page = 1 /\ new.slot = 1
        BY <1>5, <3>4 DEF Hottest
      <4> QED BY <4>1 DEF Before, Bottom
    <3> QED BY <3>1, <3>5, <3>6
  <2>4. j \in DOMAIN frames
    BY <1>2
  <2> QED BY <1>1, <2>2, <2>3, <2>4 DEF TokensInv
<1>10. PICK tokens \in Seq(Position) :
         /\ tokens = frames'[n].tokens
         /\ frames' \in Seq(FrameType) /\ Len(frames') = n /\ frames' # <<>> /\ DOMAIN frames' = 1 .. n
         /\ top' = frames'[n] /\ frames'[n].until = None
         /\ \A j \in 1 .. n : j # n => frames'[j] = frames[j]
         /\ \/ tokens = top.tokens
            \/ tokens = Append(top.tokens, new) /\ e = Boundary
  <2>1. CASE UNCHANGED frames
    <3>1. top' = frames'[n]
      BY <1>2, <2>1 DEF top, Last
    <3>2. top.tokens \in Seq(Position) /\ frames # <<>>
      BY <1>1, <1>2, <1>3 DEF TypeInv
    <3> QED BY <1>2, <1>4, <2>1, <3>1, <3>2
  <2>2. CASE e = Boundary /\ frames' = Append(Front(frames), Frame(Append(top.tokens, Hottest), None))
    <3>1. Append(top.tokens, new) \in Seq(Position)
      BY <1>2, <1>3, <1>7
    <3>2. PICK f : f = Frame(Append(top.tokens, new), None)
      OBVIOUS
    <3>3. f \in FrameType /\ f.tokens = Append(top.tokens, new) /\ f.until = None
      BY <3>1, <3>2, FrameProperties
    <3>4. frames' = Append(Front(frames), f)
      BY <1>5, <2>2, <3>2
    <3>5. /\ frames' \in Seq(FrameType) /\ Len(frames') = Len(frames) /\ frames' # <<>>
          /\ DOMAIN frames' = 1 .. Len(frames) /\ frames'[Len(frames)] = f /\ top' = f
          /\ \A j \in 1 .. Len(frames) : j # Len(frames) => frames'[j] = frames[j]
      BY <1>1, <3>3, <3>4, TopReplaced
    <3> QED BY <1>2, <2>2, <3>1, <3>3, <3>5
  <2> QED BY <2>1, <2>2
<1>11. PICK l \in Nat : l = Len(top.tokens) /\ DOMAIN top.tokens = 1 .. l
  BY <1>2, <1>3
<1>12. /\ \A a \in DOMAIN tokens : \/ a \in 1 .. l /\ tokens[a] = top.tokens[a]
                                   \/ a = l + 1 /\ tokens[a] = new /\ e = Boundary
       /\ DOMAIN tokens \subseteq Nat
  <2>1. CASE tokens = top.tokens
    BY <1>11, <2>1
  <2>2. CASE tokens = Append(top.tokens, new) /\ e = Boundary
    <3>1. top.tokens \in Seq(Position)
      BY <1>2, <1>3
    <3> QED BY <1>7, <1>11, <2>2, <3>1
  <2> QED BY <1>10, <2>1, <2>2
<1>13. ASSUME NEW a \in DOMAIN tokens PROVE HereAfter(Stop(tokens[a]))
  BY <1>2, <1>7, <1>9, <1>11, <1>12
<1>14. ASSUME NEW a \in DOMAIN tokens, NEW b \in DOMAIN tokens, a < b
       PROVE  Before(Stop(tokens[a]), Stop(tokens[b]))
  <2>1. a \in 1 .. l /\ tokens[a] = top.tokens[a]
    BY <1>11, <1>12, <1>14
  <2>2. CASE b \in 1 .. l /\ tokens[b] = top.tokens[b]
    BY <1>1, <1>2, <1>11, <1>14, <2>1, <2>2 DEF TokensInv
  <2>3. CASE b = l + 1 /\ tokens[b] = new
    BY <1>2, <1>7, <1>9, <1>11, <2>1, <2>3
  <2> QED BY <1>12, <2>2, <2>3
<1>15. ASSUME NEW j \in 1 .. n, j # n
       PROVE  /\ frames[j].until \in Position /\ frames[j].until # None
              /\ frames[j].until.page \in 1 .. hot'
              /\ frames[j].until.slot <= Len(pages'[frames[j].until.page])
              /\ Loose(j)' <=> Loose(j)
              /\ ~Loose(j) => HereAfter(frames[j].until) /\ Before(frames[j].until, new)
  <2>1. /\ frames[j].until \in Position /\ frames[j].until.page \in 1 .. hot
        /\ frames[j].until.slot <= Len(pages[frames[j].until.page])
        /\ Loose(j) \/ Here(frames[j].until)
    BY <1>2, <1>15, OuterHere
  <2>2. frames[j].until.page \in 1 .. hot'
    BY <1>6, <2>1
  <2>3. frames[j].until.slot <= Len(pages'[frames[j].until.page])
    <3>1. PICK i : i = frames[j].until.page /\ i \in 1 .. Len(pages) /\ Len(pages[i]) \in Nat
      BY <1>1, <2>1, PagesShape
    <3>2. Len(pages[i]) <= Len(pages'[i]) /\ i <= Len(pages')
      BY <3>1 DEF Added
    <3>3. i \in 1 .. Len(pages')
      <4>1. i \in Nat /\ i # 0
        BY <1>1, <3>1, PagesShape
      <4> QED BY <1>6, <3>2, <4>1
    <3>4. Len(pages'[i]) \in Nat
      BY <1>6, <3>3
    <3>5. frames[j].until.slot \in Nat /\ frames[j].until.slot <= Len(pages[i])
      BY <2>1, <3>1, PositionProperties
    <3>6. frames[j].until.slot <= Len(pages'[i])
      <4>1. PICK x, y, z : x = frames[j].until.slot /\ y = Len(pages[i]) /\ z = Len(pages'[i])
        OBVIOUS
      <4>2. x \in Nat /\ y \in Nat /\ z \in Nat /\ x <= y /\ y <= z
        BY <3>1, <3>2, <3>4, <3>5, <4>1
      <4> QED BY <4>1, <4>2
    <3> QED BY <3>1, <3>6
  <2>4. Loose(j)' <=> Loose(j)
    BY <1>6 DEF Loose, DebugMissingPools
  <2> QED BY <1>8, <2>1, <2>2, <2>3, <2>4, PositionProperties
<1>16. TypeInv'
  <2>1. hot' \in 0 .. Len(pages')
    BY <1>6
  <2> QED BY <1>1, <1>6, <1>10, <2>1 DEF TypeInv, Entry
<1>17. KeptInv'
  <2>1. Len(frames) = 1 => Len(pages) <= hot + 1
    BY <1>1, <1>4 DEF KeptInv
  <2> QED BY <1>2, <1>10, <2>1 DEF KeptInv, Added
<1>18. TokensInv'
  <2>1. ASSUME NEW j \in 1 .. n
        PROVE  LET t == frames'[j].tokens IN
               /\ \A a \in DOMAIN t : HereAfter(Stop(t[a]))
               /\ \A a, b \in DOMAIN t : a < b => Before(Stop(t[a]), Stop(t[b]))
               /\ frames'[j].until # None =>
                    \A a \in DOMAIN t : Before(Stop(t[a]), frames'[j].until)
    <3>1. CASE j = n
      BY <1>10, <1>13, <1>14, <3>1
    <3>2. CASE j # n
      BY <1>1, <1>2, <1>9, <1>10, <3>2 DEF TokensInv
    <3> QED BY <3>1, <3>2
  <2> QED BY <1>10, <2>1 DEF TokensInv, Here, HereAfter, At, Stop
<1>19. UntilInv'
  <2>1. \A j \in 1 .. n : j # n => j < n
    BY <1>2
  <2>2. \A j \in 1 .. n : ~Reached(j)'
    BY <1>10 DEF Reached
  <2>3. ~(n < n)
    BY <1>2
  <2> QED BY <1>10, <1>15, <2>1, <2>2, <2>3 DEF UntilInv, Here, HereAfter, At
<1>20. NestingInv'
  <2>1. ASSUME NEW j \in 1 .. n, NEW k \in 1 .. n, j < k, ~Loose(j)'
        PROVE  /\ \A a \in DOMAIN frames'[k].tokens :
                    Before(frames'[j].until, Stop(frames'[k].tokens[a]))
               /\ frames'[k].until # None => Before(frames'[j].until, frames'[k].until)
    <3>1. j # n
      BY <1>2, <2>1
    <3>2. /\ ~Loose(j) /\ frames'[j] = frames[j] /\ Before(frames[j].until, new)
      BY <1>10, <1>15, <2>1, <3>1
    <3>3. /\ \A a \in DOMAIN frames[k].tokens : Before(frames[j].until, Stop(frames[k].tokens[a]))
          /\ frames[k].until # None => Before(frames[j].until, frames[k].until)
      BY <1>1, <1>2, <2>1, <3>2 DEF NestingInv
    <3>4. CASE k = n
      BY <1>2, <1>7, <1>10, <1>11, <1>12, <3>2, <3>3, <3>4
    <3>5. CASE k # n
      BY <1>10, <3>2, <3>3, <3>5
    <3> QED BY <3>4, <3>5
  <2> QED BY <1>10, <2>1 DEF NestingInv
<1>21. exiting => /\ 1 \in 1 .. n /\ 1 # n /\ frames'[1] = frames[1] /\ frames[1].until # None
                  /\ hot # 0
  <2>1. exiting => 1 \in 1 .. n /\ 1 # n
    BY <1>2, <1>4
  <2>2. exiting => frames[1].until \in Position /\ frames[1].until.page \in 1 .. hot
    BY <1>2, <2>1, OuterHere
  <2>3. exiting => frames[1].until # None /\ hot # 0
    BY <1>6, <2>2, PositionProperties
  <2>4. exiting => frames'[1] = frames[1]
    BY <1>10, <2>1
  <2> QED BY <2>1, <2>3, <2>4
<1>22. ExitInv'
  <2>1. ASSUME exiting
        PROVE  frames[1].tokens = <<>> /\ frames[1].until \in {None, Bottom}
    BY <1>1, <2>1 DEF ExitInv
  <2>2. ASSUME exiting, DebugPoolAllocation, NEW k \in 1 .. n, k # 1
        PROVE  /\ \A a \in DOMAIN frames'[k].tokens : Stop(frames'[k].tokens[a]).page > 1
               /\ frames'[k].until # None => frames'[k].until.page > 1
    <3>1. /\ \A a \in DOMAIN frames[k].tokens : Stop(frames[k].tokens[a]).page > 1
          /\ frames[k].until # None => frames[k].until.page > 1
      BY <1>1, <1>2, <2>2 DEF ExitInv
    <3>2. CASE k = n
      <4>1. e = Boundary => new.page > 1
        BY <1>7, <1>21, <2>2 DEF Added
      <4> QED BY <1>2, <1>7, <1>10, <1>11, <1>12, <3>1, <3>2, <4>1
    <3>3. CASE k # n
      BY <1>10, <3>1, <3>3
    <3> QED BY <3>2, <3>3
  <2> QED BY <1>6, <1>10, <1>21, <2>1, <2>2 DEF ExitInv, DebugPoolAllocation
<1>23. ColdInv'
  <2>1. CASE hot = 0
    <3>1. pages' = <<IF placeholder THEN <<Boundary, e>> ELSE <<e>>>>
      BY <2>1 DEF Added
    <3>2. Len(pages'[1]) # 0
      BY <3>1
    <3>3. DebugMissingPools => placeholder \/ e = Boundary
      BY <2>1 DEF Added, Entry
    <3>4. DebugMissingPools => pages'[1][1] = Boundary
      BY <3>1, <3>3
    <3> QED BY <1>6, <3>2, <3>4 DEF ColdInv, empty, DebugMissingPools
  <2>2. CASE hot # 0
    <3>1. 1 \in 1 .. Len(pages) /\ Len(pages[1]) \in Nat /\ Len(pages'[1]) \in Nat
      BY <1>1, <1>6, <2>2, PagesShape
    <3>2. Len(pages[1]) <= Len(pages'[1]) /\ \A s \in 1 .. Len(pages[1]) : pages'[1][s] = pages[1][s]
      BY <3>1 DEF Added
    <3>3. top.until # Bottom
      BY <1>4, PositionProperties
    <3>4. DebugMissingPools => Len(pages[1]) # 0 /\ pages[1][1] = Boundary
      BY <1>1, <2>2, <3>3 DEF ColdInv, empty
    <3>5. DebugMissingPools => Len(pages'[1]) # 0 /\ pages'[1][1] = Boundary
      BY <3>1, <3>2, <3>4
    <3>6. debug # {} /\ Len(pages'[1]) = 0 => exiting /\ frames[1].until = Bottom
      <4>1. Len(pages'[1]) = 0 => Len(pages[1]) = 0
        BY <3>1, <3>2
      <4> QED BY <1>1, <2>2, <3>3, <4>1 DEF ColdInv, empty
    <3> QED BY <1>6, <1>21, <3>5, <3>6 DEF ColdInv, empty, DebugMissingPools
  <2> QED BY <2>1, <2>2
<1> QED BY <1>6, <1>16, <1>17, <1>18, <1>19, <1>20, <1>22, <1>23 DEF IInv


\* Without a page no pop is under way, and there is no token but the placeholder.
LEMMA NoPage ==
  ASSUME IInv, hot = 0
  PROVE  /\ Len(frames) = 1 /\ top = frames[1] /\ top.until = None /\ pages = <<>>
         /\ \A a \in DOMAIN top.tokens : top.tokens[a] = EMPTY_POOL_PLACEHOLDER /\ placeholder
         /\ \A a \in DOMAIN top.tokens : a = 1
<1>1. PICK n \in Nat : n = Len(frames) /\ n # 0 /\ DOMAIN frames = 1 .. n
                       /\ top = frames[n] /\ n \in 1 .. n
  <2>1. Len(frames) \in Nat /\ Len(frames) # 0 /\ DOMAIN frames = 1 .. Len(frames)
        /\ top = frames[Len(frames)]
    BY FramesShape DEF IInv
  <2>2. Len(frames) \in 1 .. Len(frames)
    BY <2>1
  <2> QED BY <2>1, <2>2
<1>2. n = 1
  <2>1. ASSUME n # 1 PROVE FALSE
    <3>1. 1 \in 1 .. Len(frames) /\ 1 # Len(frames)
      BY <1>1, <2>1
    <3>2. frames[1].until.page \in 1 .. hot
      BY <3>1, OuterHere
    <3> QED BY <3>2
  <2> QED BY <2>1
<1>3. top.until = None
  <2>1. top.until # None => top.until.page \in 1 .. hot
    BY <1>1 DEF IInv, UntilInv
  <2> QED BY <2>1
<1>4. DOMAIN top.tokens = 1 .. Len(top.tokens) /\ Len(top.tokens) \in Nat
      /\ \A a \in 1 .. Len(top.tokens) : Stop(top.tokens[a]) \in Position
  BY <1>1, FramesShape DEF IInv
<1>5. ASSUME NEW a \in DOMAIN top.tokens
      PROVE  top.tokens[a] = EMPTY_POOL_PLACEHOLDER /\ placeholder
  <2>1. Here(Stop(top.tokens[a])) => hot # 0
    BY <1>4, HereProperties DEF IInv
  <2> QED BY <1>1, <2>1 DEF IInv, TokensInv
<1>6. ASSUME NEW a \in DOMAIN top.tokens PROVE a = 1
  <2>1. ASSUME a # 1 PROVE FALSE
    <3>1. 1 \in DOMAIN top.tokens /\ 1 < a
      BY <1>4, <2>1
    <3>2. Before(Stop(top.tokens[1]), Stop(top.tokens[a]))
      BY <1>1, <3>1 DEF IInv, TokensInv
    <3>3. Before(Bottom, Bottom)
      BY <1>5, <3>1, <3>2, PositionProperties
    <3> QED BY <3>3, PositionProperties, BeforeProperties
  <2> QED BY <2>1
<1>7. pages = <<>>
  BY DEF IInv, PagesInv
<1> QED BY <1>1, <1>2, <1>3, <1>5, <1>6, <1>7

LEMMA StutterStep ==
  ASSUME IInv, UNCHANGED vars PROVE IInv'
BY DEF vars, IInv, TypeInv, PagesInv, KeptInv, TokensInv, UntilInv, NestingInv, ExitInv, ColdInv,
       Here, At, Loose, Reached, top, empty, full, DebugPoolAllocation, DebugMissingPools, Stop

\* A frame of its own, and no page: the program outside every pop.
LEMMA BareStep ==
  ASSUME IInv, pages' = <<>>, hot' = 0, placeholder' \in BOOLEAN, debug' = debug, exiting' = FALSE,
         NEW tokens \in Seq(Position), frames' = <<Frame(tokens, None)>>,
         Len(tokens) <= 1,
         \A a \in DOMAIN tokens : tokens[a] = EMPTY_POOL_PLACEHOLDER /\ placeholder'
  PROVE  IInv'
<1>1. PICK f : f = Frame(tokens, None)
  OBVIOUS
<1>2. f \in FrameType /\ f.tokens = tokens /\ f.until = None
  BY <1>1, FrameProperties
<1>3. /\ frames' = <<f>> /\ frames' \in Seq(FrameType) /\ Len(frames') = 1 /\ DOMAIN frames' = {1}
      /\ frames'[1] = f /\ top' = f /\ frames' # <<>>
  BY <1>1, <1>2 DEF top, Last
<1>4. Len(pages') = 0 /\ DOMAIN pages' = {} /\ pages' \in Seq(Seq({Boundary, Object}))
  OBVIOUS
<1>5. TypeInv'
  <2>1. debug' \in Options
    BY DEF IInv, TypeInv
  <2>2. hot' \in 0 .. Len(pages')
    BY <1>4
  <2>3. exiting' \in BOOLEAN
    OBVIOUS
  <2> QED BY <1>3, <1>4, <2>1, <2>2, <2>3 DEF TypeInv
<1>6. PagesInv' /\ KeptInv'
  BY <1>4 DEF PagesInv, KeptInv
<1>7. TokensInv'
  <2>1. \A a, b \in DOMAIN tokens : ~(a < b)
    <3>1. DOMAIN tokens = 1 .. Len(tokens) /\ Len(tokens) \in Nat
      OBVIOUS
    <3> QED BY <3>1
  <2> QED BY <1>2, <1>3, <2>1 DEF TokensInv
<1>8. UntilInv'
  BY <1>2, <1>3 DEF UntilInv
<1>9. NestingInv'
  BY <1>3 DEF NestingInv
<1>10. ExitInv' /\ ColdInv'
  BY DEF ExitInv, ColdInv
<1> QED BY <1>5, <1>6, <1>7, <1>8, <1>9, <1>10 DEF IInv

LEMMA AutoreleaseStep ==
  ASSUME IInv, autorelease PROVE IInv'
<1>1. /\ Running /\ autoreleaseFast(Object) /\ UNCHANGED <<debug, frames, exiting>>
      /\ Object \in Entry
  BY DEF autorelease, Entry
<1>2. Untouched(Object) \/ Added(Object)
  BY <1>1, FastEffect DEF IInv
<1>3. CASE Untouched(Object)
  <2>1. UNCHANGED vars
    BY <1>1, <1>3, EntryAssumption DEF Untouched, vars
  <2> QED BY <2>1, StutterStep
<1>4. CASE Added(Object)
  BY <1>1, <1>4, AddedStep
<1> QED BY <1>2, <1>3, <1>4

LEMMA PushStep ==
  ASSUME IInv, push PROVE IInv'
<1>1. /\ Running /\ autoreleaseFast(Boundary) /\ UNCHANGED <<debug, exiting>>
      /\ Boundary \in Entry
  BY DEF push, Entry
<1>2. Untouched(Boundary) \/ Added(Boundary)
  BY <1>1, FastEffect DEF IInv
<1>3. PICK token : token = IF placeholder' THEN EMPTY_POOL_PLACEHOLDER ELSE Hottest
  OBVIOUS
<1>4. frames' = Append(Front(frames), Frame(Append(top.tokens, token), None))
  BY <1>3 DEF push, Hottest
<1>5. CASE Untouched(Boundary)
  <2>1. hot = 0 /\ pages' = pages /\ hot' = 0 /\ ~placeholder /\ placeholder' = TRUE
    BY <1>5 DEF Untouched
  <2>2. /\ Len(frames) = 1 /\ top = frames[1] /\ pages = <<>>
        /\ \A a \in DOMAIN top.tokens : FALSE
    BY <2>1, NoPage
  <2>3. top.tokens \in Seq(Position) /\ frames \in Seq(FrameType)
    BY <2>2, FramesShape DEF IInv
  <2>4. top.tokens = <<>>
    BY <2>2, <2>3
  <2>5. PICK tokens : tokens = <<EMPTY_POOL_PLACEHOLDER>>
    OBVIOUS
  <2>6. Append(top.tokens, token) = tokens
    BY <1>3, <2>1, <2>4, <2>5
  <2>7. Front(frames) = <<>>
    BY <2>2, <2>3 DEF Front
  <2>8. frames' = <<Frame(tokens, None)>>
    BY <1>4, <2>6, <2>7
  <2>9. tokens \in Seq(Position) /\ Len(tokens) = 1
        /\ \A a \in DOMAIN tokens : tokens[a] = EMPTY_POOL_PLACEHOLDER
    BY <2>5, PositionProperties
  <2>10. exiting' = FALSE
    <3>1. exiting => Len(frames) > 1
      BY <1>1 DEF Running
    <3> QED BY <1>1, <2>2, <3>1 DEF IInv, TypeInv
  <2>11. /\ pages' = <<>> /\ hot' = 0 /\ placeholder' \in BOOLEAN /\ debug' = debug
         /\ Len(tokens) <= 1
         /\ \A a \in DOMAIN tokens : tokens[a] = EMPTY_POOL_PLACEHOLDER /\ placeholder'
    BY <1>1, <2>1, <2>2, <2>9
  <2> QED BY <2>8, <2>9, <2>10, <2>11, BareStep
<1>6. CASE Added(Boundary)
  <2>1. token = Hottest
    BY <1>3, <1>6 DEF Added
  <2> QED BY <1>1, <1>4, <1>6, <2>1, AddedStep
<1> QED BY <1>2, <1>5, <1>6

--------------------------------------------------------------------------------
(* The end of the thread *)

LEMMA ExitStep ==
  ASSUME IInv, tls_dealloc PROVE IInv'
<1>1. /\ Len(frames) = 1 /\ top.until = None /\ (hot # 0 /\ ~exiting => empty(1))
      /\ pages' = (IF hot # 0 /\ debug = {} THEN kill(1) ELSE pages)
      /\ hot' = 0 /\ placeholder' = FALSE /\ exiting' = FALSE /\ debug' = debug
      /\ frames' = <<Frame(<<>>, None)>>
  BY DEF tls_dealloc
<1>2. pages' = <<>>
  <2>1. CASE hot = 0
    BY <1>1, <2>1 DEF IInv, PagesInv
  <2>2. CASE hot # 0 /\ debug = {}
    BY <1>1, <2>2, KillEffect DEF IInv
  <2>3. CASE hot # 0 /\ debug # {}
    <3>1. top = frames[1]
      BY <1>1, FramesShape DEF IInv
    <3>2. ~exiting
      BY <1>1, <2>3, <3>1 DEF IInv, ExitInv
    <3>3. top.until = Bottom
      BY <1>1, <2>3, <3>2 DEF IInv, ColdInv
    <3> QED BY <1>1, <3>3, PositionProperties
  <2> QED BY <2>1, <2>2, <2>3
<1>3. <<>> \in Seq(Position) /\ Len(<<>>) = 0 /\ DOMAIN <<>> = {}
  OBVIOUS
<1>4. PICK tokens : tokens = <<>>
  OBVIOUS
<1>5. tokens \in Seq(Position) /\ Len(tokens) <= 1 /\ frames' = <<Frame(tokens, None)>>
  BY <1>1, <1>4
<1>6. placeholder' \in BOOLEAN
  BY <1>1
<1>7. \A a \in DOMAIN tokens : tokens[a] = EMPTY_POOL_PLACEHOLDER /\ placeholder'
  BY <1>4
<1> QED BY <1>1, <1>2, <1>5, <1>6, <1>7, BareStep


--------------------------------------------------------------------------------
(* Popping, and the end of a frame *)

\* The outer frames stay as they are, and f is the innermost one after the step.
LEMMA FramesStep ==
  ASSUME IInv, NEW m \in Nat \ {0}, Len(frames') = m, DOMAIN frames' = 1 .. m,
         NEW f, frames'[m] = f,
         \A j \in 1 .. m : j # m =>
           /\ j \in 1 .. Len(frames) /\ frames'[j] = frames[j] /\ (Loose(j)' <=> Loose(j))
           /\ frames[j].until # None /\ frames[j].until.page \in 1 .. hot'
           /\ frames[j].until.slot <= Len(pages'[frames[j].until.page])
           /\ \A a \in DOMAIN frames[j].tokens : HereAfter(Stop(frames[j].tokens[a]))
           /\ ~Loose(j) =>
                /\ HereAfter(frames[j].until)
                /\ \A a \in DOMAIN f.tokens : Before(frames[j].until, Stop(f.tokens[a]))
                /\ f.until # None => Before(frames[j].until, f.until),
         \A a \in DOMAIN f.tokens : HereAfter(Stop(f.tokens[a])),
         \A a, b \in DOMAIN f.tokens : a < b => Before(Stop(f.tokens[a]), Stop(f.tokens[b])),
         f.until # None =>
           /\ \A a \in DOMAIN f.tokens : Before(Stop(f.tokens[a]), f.until)
           /\ f.until.page \in 1 .. hot' /\ f.until.slot <= Len(pages'[f.until.page])
           /\ Loose(m)' \/ HereAfter(f.until) \/ Reached(m)'
           /\ Reached(m)' => hot' = f.until.page \/ (Loose(m) /\ DebugPoolAllocation)'
  PROVE  TokensInv' /\ UntilInv' /\ NestingInv'
<1>1. TokensInv /\ NestingInv /\ DOMAIN frames = 1 .. Len(frames)
  BY FramesShape DEF IInv
<1>2. TokensInv'
  <2>1. ASSUME NEW j \in 1 .. m
        PROVE  LET t == frames'[j].tokens IN
               /\ \A a \in DOMAIN t : HereAfter(Stop(t[a]))
               /\ \A a, b \in DOMAIN t : a < b => Before(Stop(t[a]), Stop(t[b]))
               /\ frames'[j].until # None =>
                    \A a \in DOMAIN t : Before(Stop(t[a]), frames'[j].until)
    <3>1. CASE j = m
      BY <3>1
    <3>2. CASE j # m
      BY <1>1, <3>2 DEF TokensInv
    <3> QED BY <3>1, <3>2
  <2> QED BY <2>1 DEF TokensInv, Here, HereAfter, At, Stop
<1>3. UntilInv'
  <2>1. \A j \in 1 .. m : j # m => ~Reached(j)'
    BY DEF Reached
  <2>2. \A j \in 1 .. m : j # m => ~(m < j)
    OBVIOUS
  <2>3. \A j \in 1 .. m : j < m => j # m
    OBVIOUS
  <2> QED BY <2>1, <2>2, <2>3 DEF UntilInv, Here, HereAfter, At
<1>4. NestingInv'
  <2>1. ASSUME NEW j \in 1 .. m, NEW k \in 1 .. m, j < k, ~Loose(j)'
        PROVE  /\ \A a \in DOMAIN frames'[k].tokens :
                    Before(frames'[j].until, Stop(frames'[k].tokens[a]))
               /\ frames'[k].until # None => Before(frames'[j].until, frames'[k].until)
    <3>1. j # m
      BY <2>1
    <3>2. ~Loose(j) /\ frames'[j] = frames[j] /\ j \in DOMAIN frames
      BY <1>1, <2>1, <3>1
    <3>3. CASE k = m
      BY <3>1, <3>2, <3>3
    <3>4. CASE k # m
      <4>1. frames'[k] = frames[k] /\ k \in DOMAIN frames
        BY <1>1, <3>4
      <4> QED BY <1>1, <2>1, <3>2, <4>1 DEF NestingInv
    <3> QED BY <3>3, <3>4
  <2> QED BY <2>1 DEF NestingInv
<1> QED BY <1>2, <1>3, <1>4


\* A turn of releaseUntil's loop keeps what is below the end of the pop, and that end itself
\* unless it was the last to go.
LEMMA RemovedUntil ==
  ASSUME TypeInv, top.until \in Position, Removed, Len(pages[top.until.page]) # top.until.slot
  PROVE  /\ Here(top.until) => HereAfter(top.until) \/ Len(pages'[top.until.page]) = top.until.slot
         /\ Here(top.until) /\ Last(pages[hot']) = Object => HereAfter(top.until)
         /\ top.until.page \in Nat /\ top.until.page <= hot'
         /\ top.until.slot \in Nat /\ top.until.slot <= Len(pages'[top.until.page])
         /\ top.until.page \in 1 .. Len(pages) /\ Len(pages'[top.until.page]) = top.until.slot
              => hot' = top.until.page
<1>1. /\ Len(pages) \in Nat /\ DOMAIN pages = 1 .. Len(pages) /\ hot \in Nat /\ hot <= Len(pages)
      /\ \A i \in 1 .. Len(pages) : Len(pages[i]) \in Nat
  BY PagesShape
<1>2. PICK u \in Position : u = top.until
  OBVIOUS
<1>3. u.page \in Nat /\ u.slot \in Nat
  BY PositionProperties
<1>4. /\ DOMAIN pages' = 1 .. Len(pages) /\ hot' \in 1 .. Len(pages)
      /\ Len(pages'[hot']) = Len(pages[hot']) - 1 /\ Len(pages[hot']) # 0 /\ Len(pages[hot']) \in Nat
      /\ \A s \in 1 .. Len(pages[hot']) - 1 : pages'[hot'][s] = pages[hot'][s]
      /\ \A i \in 1 .. Len(pages) : i # hot' => pages'[i] = pages[i]
      /\ u.page <= hot' /\ u.slot <= Len(pages'[u.page]) /\ Len(pages[u.page]) # u.slot
  <2>1. hot' \in 1 .. Len(pages)
    BY <1>1 DEF Removed
  <2> QED BY <1>1, <1>2, <2>1 DEF Removed
<1>5. u.page \in 1 .. Len(pages) /\ Len(pages'[u.page]) = u.slot => hot' = u.page
  BY <1>4
<1>6. ASSUME Here(u) PROVE HereAfter(u) \/ Len(pages'[u.page]) = u.slot
  <2>1. u.page \in 1 .. Len(pages) /\ u.slot < Len(pages[u.page]) /\ pages[u.page][u.slot + 1] = Boundary
    BY <1>1, <1>6 DEF Here, At
  <2>2. CASE u.page # hot'
    <3>1. pages'[u.page] = pages[u.page]
      BY <1>4, <2>1, <2>2
    <3> QED BY <1>4, <2>1, <3>1 DEF HereAfter
  <2>3. CASE u.page = hot' /\ Len(pages'[u.page]) # u.slot
    <3>1. u.slot < Len(pages'[u.page]) /\ u.slot + 1 \in 1 .. Len(pages[hot']) - 1
      BY <1>3, <1>4, <2>3
    <3>2. pages'[u.page][u.slot + 1] = Boundary
      BY <1>4, <2>1, <2>3, <3>1
    <3> QED BY <1>4, <2>1, <3>1, <3>2 DEF HereAfter
  <2> QED BY <2>2, <2>3
<1>7. ASSUME Here(u), Last(pages[hot']) = Object PROVE Len(pages'[u.page]) # u.slot
  <2>1. u.page \in 1 .. Len(pages) /\ pages[u.page][u.slot + 1] = Boundary
    BY <1>1, <1>7 DEF Here, At
  <2>2. ASSUME Len(pages'[u.page]) = u.slot PROVE FALSE
    <3>1. hot' = u.page /\ u.slot + 1 = Len(pages[hot'])
      BY <1>3, <1>4, <1>5, <2>1, <2>2
    <3>2. pages[hot'][Len(pages[hot'])] = Object
      BY <1>7 DEF Last
    <3> QED BY <2>1, <3>1, <3>2, EntryAssumption
  <2> QED BY <2>2
<1> QED BY <1>2, <1>3, <1>4, <1>5, <1>6, <1>7

LEMMA ReleaseStep ==
  ASSUME IInv, releaseUntil PROVE IInv'
<1>1. TypeInv /\ PagesInv /\ TokensInv /\ UntilInv /\ NestingInv /\ ExitInv /\ ColdInv
  BY DEF IInv
<1>2. PICK u : u = top.until
  OBVIOUS
<1>3. /\ u # None /\ Len(pages[u.page]) # u.slot /\ UNCHANGED <<placeholder, debug, exiting>>
      /\ \/ UNCHANGED frames
         \/ Last(pages[hot']) = Object /\ frames' = Append(frames, Frame(<<>>, None))
  BY <1>2 DEF releaseUntil
<1>4. Removed
  BY <1>1, ReleaseEffect
<1>5. /\ \A j \in 1 .. Len(frames) : \A a \in DOMAIN frames[j].tokens :
           Before(Stop(frames[j].tokens[a]), u) /\ Here(Stop(frames[j].tokens[a]))
      /\ \A j \in 1 .. Len(frames) :
           j # Len(frames) /\ ~Loose(j) => Before(frames[j].until, u)
      /\ u \in Position /\ u.page \in 1 .. hot /\ hot # 0 /\ ~placeholder
  BY <1>2, <1>3, AllBelow
<1>6. PICK n \in Nat : n = Len(frames) /\ n # 0 /\ DOMAIN frames = 1 .. n /\ frames \in Seq(FrameType)
                       /\ top = frames[n] /\ n \in 1 .. n
  BY <1>1, TopFrame
<1>7. \A j \in 1 .. n :
        /\ DOMAIN frames[j].tokens = 1 .. Len(frames[j].tokens)
        /\ \A a \in 1 .. Len(frames[j].tokens) : Stop(frames[j].tokens[a]) \in Position
  BY <1>1, <1>6, FramesShape
<1>8. \A j \in 1 .. n : \A a \in DOMAIN frames[j].tokens : HereAfter(Stop(frames[j].tokens[a]))
  BY <1>1, <1>2, <1>4, <1>5, <1>6, <1>7, RemovedHere
<1>9. /\ Here(u) => HereAfter(u) \/ Len(pages'[u.page]) = u.slot
      /\ Here(u) /\ Last(pages[hot']) = Object => HereAfter(u)
      /\ u.page \in Nat /\ u.page <= hot' /\ u.slot \in Nat /\ u.slot <= Len(pages'[u.page])
      /\ u.page \in 1 .. Len(pages) /\ Len(pages'[u.page]) = u.slot => hot' = u.page
  BY <1>1, <1>2, <1>3, <1>4, <1>5, RemovedUntil
<1>10. /\ Len(pages) \in Nat /\ DOMAIN pages = 1 .. Len(pages) /\ hot \in Nat /\ hot <= Len(pages)
       /\ \A i \in 1 .. Len(pages) : Len(pages[i]) \in Nat
  BY <1>1, PagesShape
<1>11. /\ hot' \in 1 .. hot /\ hot' \in Nat /\ hot' # 0 /\ u.page \in 1 .. hot' /\ u.page \in 1 .. Len(pages)
  BY <1>4, <1>5, <1>9, <1>10 DEF Removed
<1>12. ~Loose(n) => Here(u)
  BY <1>1, <1>2, <1>3, <1>6 DEF UntilInv, Reached
<1>13. \A j : Loose(j)' <=> Loose(j)
  BY <1>3 DEF Loose, DebugMissingPools
<1>14. ASSUME NEW j \in 1 .. n, j # n
       PROVE  /\ frames[j].until # None /\ frames[j].until.page \in 1 .. hot'
              /\ frames[j].until.slot <= Len(pages'[frames[j].until.page])
              /\ ~Loose(j) => HereAfter(frames[j].until) /\ Before(frames[j].until, u)
  <2>1. frames[j].until \in Position /\ frames[j].until # None /\ (Loose(j) \/ Here(frames[j].until))
    BY <1>6, <1>14, OuterHere, PositionProperties
  <2>2. CASE Loose(j)
    <3>1. frames[j].until.page = 1 /\ frames[j].until.slot = 0
      BY <1>6, <2>1, <2>2, LooseProperties DEF Bottom
    <3>2. 1 \in 1 .. Len(pages') /\ pages' \in Seq(Seq(Entry))
      BY <1>4, <1>10, <1>11 DEF Removed
    <3>3. Len(pages'[1]) \in Nat
      BY <3>2
    <3> QED BY <1>11, <2>1, <2>2, <3>1, <3>3
  <2>3. CASE ~Loose(j)
    <3>1. Before(frames[j].until, u) /\ Here(frames[j].until)
      BY <1>5, <1>6, <1>14, <2>1, <2>3
    <3>2. HereAfter(frames[j].until) /\ frames[j].until.page <= hot'
      BY <1>1, <1>2, <1>4, <1>5, <2>1, <3>1, RemovedHere
    <3>3. frames[j].until.page \in 1 .. hot /\ frames[j].until.slot \in Nat
      BY <1>6, <1>14, <2>1, OuterHere, PositionProperties
    <3>4. frames[j].until.page \in 1 .. hot'
      BY <1>10, <1>11, <3>2, <3>3
    <3>5. Len(pages'[frames[j].until.page]) \in Nat
      <4>1. pages' \in Seq(Seq(Entry)) /\ Len(pages') = Len(pages)
        BY <1>4 DEF Removed
      <4>2. frames[j].until.page \in 1 .. Len(pages)
        BY <1>10, <3>3
      <4> QED BY <4>1, <4>2
    <3>6. frames[j].until.slot <= Len(pages'[frames[j].until.page])
      BY <3>2, <3>3, <3>5 DEF HereAfter
    <3> QED BY <2>1, <3>1, <3>2, <3>4, <3>6
  <2> QED BY <2>2, <2>3
<1>15. PICK m \in Nat \ {0} : \E f \in FrameType :
         /\ frames' \in Seq(FrameType) /\ Len(frames') = m /\ DOMAIN frames' = 1 .. m /\ frames' # <<>>
         /\ frames'[m] = f /\ top' = f
         /\ \A j \in 1 .. m : j # m => j \in 1 .. n /\ frames'[j] = frames[j]
         /\ \/ m = n /\ f = top
            \/ m = n + 1 /\ f.tokens = <<>> /\ f.until = None /\ Last(pages[hot']) = Object
  <2>1. CASE UNCHANGED frames
    <3>1. top' = top /\ top \in FrameType
      BY <1>1, <2>1, FramesShape DEF top
    <3> QED BY <1>6, <2>1, <3>1
  <2>2. CASE Last(pages[hot']) = Object /\ frames' = Append(frames, Frame(<<>>, None))
    <3>1. <<>> \in Seq(Position)
      OBVIOUS
    <3>2. PICK f : f = Frame(<<>>, None)
      OBVIOUS
    <3>3. f \in FrameType /\ f.tokens = <<>> /\ f.until = None
      BY <3>1, <3>2, FrameProperties
    <3>4. /\ frames' \in Seq(FrameType) /\ Len(frames') = n + 1 /\ frames' # <<>>
          /\ DOMAIN frames' = 1 .. n + 1 /\ frames'[n + 1] = f /\ top' = f
          /\ \A j \in 1 .. n : frames'[j] = frames[j]
      BY <1>1, <1>6, <2>2, <3>2, <3>3, FramePushed
    <3>5. \A j \in 1 .. n + 1 : j # n + 1 => j \in 1 .. n
      BY <1>6
    <3> QED BY <1>6, <2>2, <3>3, <3>4, <3>5
  <2> QED BY <1>3, <2>1, <2>2
<1>16. PICK f \in FrameType :
         /\ frames' \in Seq(FrameType) /\ Len(frames') = m /\ DOMAIN frames' = 1 .. m /\ frames' # <<>>
         /\ frames'[m] = f /\ top' = f
         /\ \A j \in 1 .. m : j # m => j \in 1 .. n /\ frames'[j] = frames[j]
         /\ \/ m = n /\ f = top
            \/ m = n + 1 /\ f.tokens = <<>> /\ f.until = None /\ Last(pages[hot']) = Object
  BY <1>15
<1>17. TypeInv' /\ PagesInv'
  <2>1. hot' \in 0 .. Len(pages') /\ pages' \in Seq(Seq(Entry)) /\ PagesInv'
    BY <1>4, <1>10, <1>11 DEF Removed
  <2> QED BY <1>1, <1>3, <1>16, <2>1 DEF TypeInv, Entry
<1>18. KeptInv'
  <2>1. m = n => top'.until # None
    BY <1>2, <1>3, <1>6, <1>16
  <2>2. m = 1 => m = n
    BY <1>6, <1>16
  <2> QED BY <1>16, <2>1, <2>2 DEF KeptInv
<1>19. TokensInv' /\ UntilInv' /\ NestingInv'
  <2>1. CASE m = n /\ f = top
    <3>1. Loose(m)' \/ HereAfter(u) \/ Reached(m)'
      BY <1>2, <1>3, <1>9, <1>12, <1>13, <1>16, <2>1 DEF Reached
    <3>2. Reached(m)' => hot' = u.page
      BY <1>2, <1>9, <1>11, <1>16, <2>1 DEF Reached
    <3>3. \A a, b \in DOMAIN f.tokens : a < b => Before(Stop(f.tokens[a]), Stop(f.tokens[b]))
      BY <1>1, <1>6, <2>1 DEF TokensInv
    <3>4. \A a \in DOMAIN f.tokens : HereAfter(Stop(f.tokens[a])) /\ Before(Stop(f.tokens[a]), u)
      BY <1>5, <1>6, <1>8, <2>1
    <3>5. f.until = u /\ u.page \in 1 .. hot' /\ u.slot <= Len(pages'[u.page])
      BY <1>2, <1>9, <1>11, <2>1
    <3>6. ASSUME NEW j \in 1 .. m, j # m
          PROVE  /\ j \in 1 .. Len(frames) /\ frames'[j] = frames[j] /\ (Loose(j)' <=> Loose(j))
                 /\ frames[j].until # None /\ frames[j].until.page \in 1 .. hot'
                 /\ frames[j].until.slot <= Len(pages'[frames[j].until.page])
                 /\ \A a \in DOMAIN frames[j].tokens : HereAfter(Stop(frames[j].tokens[a]))
                 /\ ~Loose(j) =>
                      /\ HereAfter(frames[j].until)
                      /\ \A a \in DOMAIN f.tokens : Before(frames[j].until, Stop(f.tokens[a]))
                      /\ f.until # None => Before(frames[j].until, f.until)
      <4>1. j < n /\ j \in DOMAIN frames /\ n \in DOMAIN frames
        BY <1>6, <2>1, <3>6
      <4>2. ~Loose(j) => \A a \in DOMAIN f.tokens : Before(frames[j].until, Stop(f.tokens[a]))
        BY <1>1, <1>6, <2>1, <4>1 DEF NestingInv
      <4> QED BY <1>6, <1>8, <1>13, <1>14, <1>16, <2>1, <3>5, <3>6, <4>2
    <3> QED BY <1>16, <3>1, <3>2, <3>3, <3>4, <3>5, <3>6, FramesStep
  <2>2. CASE m = n + 1 /\ f.tokens = <<>> /\ f.until = None /\ Last(pages[hot']) = Object
    <3>1. ~Loose(n) => HereAfter(u)
      BY <1>9, <1>12, <2>2
    <3>2. ASSUME NEW j \in 1 .. m, j # m
          PROVE  /\ j \in 1 .. Len(frames) /\ frames'[j] = frames[j] /\ (Loose(j)' <=> Loose(j))
                 /\ frames[j].until # None /\ frames[j].until.page \in 1 .. hot'
                 /\ frames[j].until.slot <= Len(pages'[frames[j].until.page])
                 /\ \A a \in DOMAIN frames[j].tokens : HereAfter(Stop(frames[j].tokens[a]))
                 /\ ~Loose(j) => HereAfter(frames[j].until)
      <4>1. CASE j = n
        BY <1>2, <1>3, <1>6, <1>8, <1>9, <1>11, <1>13, <1>16, <3>1, <3>2, <4>1
      <4>2. CASE j # n
        BY <1>6, <1>8, <1>13, <1>14, <1>16, <3>2, <4>2
      <4> QED BY <4>1, <4>2
    <3>3. DOMAIN f.tokens = {}
      BY <2>2
    <3> QED BY <1>16, <2>2, <3>2, <3>3, FramesStep
  <2> QED BY <1>16, <2>1, <2>2

<1>20. 1 \in 1 .. n /\ frames'[1] = frames[1]
  <2>1. 1 \in 1 .. n /\ 1 \in 1 .. m
    BY <1>6
  <2>2. CASE m = n /\ f = top
    BY <1>6, <1>16, <2>1, <2>2
  <2>3. CASE m = n + 1
    BY <1>6, <1>16, <2>1, <2>3
  <2> QED BY <1>16, <2>1, <2>2, <2>3
<1>21. ExitInv'
  <2>1. ASSUME exiting
        PROVE  frames[1].tokens = <<>> /\ frames[1].until = Bottom
    <3>1. frames[1].tokens = <<>> /\ frames[1].until \in {None, Bottom}
          /\ (frames[1].until = None => n = 1)
      BY <1>1, <1>6, <2>1 DEF ExitInv
    <3>2. n = 1 => frames[1].until # None
      BY <1>2, <1>3, <1>6
    <3> QED BY <3>1, <3>2
  <2>2. ASSUME exiting, DebugPoolAllocation, NEW k \in 1 .. m, k # 1
        PROVE  /\ \A a \in DOMAIN frames'[k].tokens : Stop(frames'[k].tokens[a]).page > 1
               /\ frames'[k].until # None => frames'[k].until.page > 1
    <3>1. k \in 1 .. n => /\ \A a \in DOMAIN frames[k].tokens : Stop(frames[k].tokens[a]).page > 1
                          /\ frames[k].until # None => frames[k].until.page > 1
      BY <1>1, <1>6, <2>2 DEF ExitInv
    <3>2. CASE k = m /\ m = n + 1
      <4>1. DOMAIN <<>> = {}
        OBVIOUS
      <4> QED BY <1>6, <1>16, <3>2, <4>1
    <3>3. CASE k = m /\ m = n /\ f = top
      BY <1>6, <1>16, <3>1, <3>3
    <3>4. CASE k # m
      BY <1>16, <3>1, <3>4
    <3> QED BY <1>16, <3>2, <3>3, <3>4
  <2> QED BY <1>3, <1>16, <1>20, <2>1, <2>2, PositionProperties DEF ExitInv, DebugPoolAllocation
<1>22. ColdInv'
  <2>1. 1 \in 1 .. Len(pages) /\ Len(pages[1]) \in Nat /\ DOMAIN pages' = 1 .. Len(pages)
    <3>1. 1 \in 1 .. Len(pages)
      BY <1>10, <1>11
    <3> QED BY <1>4, <1>10, <3>1 DEF Removed
  <2>2. Len(pages[1]) = 0 => u # Bottom
    BY <1>3 DEF Bottom
  <2>3. CASE Len(pages[1]) = 0
    <3>1. ~DebugMissingPools /\ (debug # {} => exiting /\ frames[1].until = Bottom)
      BY <1>1, <1>2, <1>5, <2>2, <2>3 DEF ColdInv, empty
    <3> QED BY <1>3, <1>20, <3>1 DEF ColdInv, DebugMissingPools
  <2>4. CASE Len(pages[1]) # 0 /\ Len(pages'[1]) # 0
    <3>1. DebugMissingPools => pages[1][1] = Boundary
      BY <1>1, <1>5, <2>4 DEF ColdInv, empty
    <3>2. pages'[1][1] = pages[1][1]
      <4>1. CASE hot' = 1
        <5>1. Len(pages'[1]) = Len(pages[1]) - 1 /\ \A s \in 1 .. Len(pages[1]) - 1 : pages'[1][s] = pages[1][s]
          BY <1>4, <4>1 DEF Removed
        <5>2. 1 \in 1 .. Len(pages[1]) - 1
          <6>1. PICK l \in Nat : l = Len(pages[1])
            BY <2>1
          <6>2. l # 0 /\ l - 1 # 0
            BY <2>4, <4>1, <5>1, <6>1
          <6>3. 1 \in 1 .. l - 1
            BY <6>2
          <6> QED BY <6>1, <6>3
        <5> QED BY <5>1, <5>2
      <4>2. CASE hot' # 1
        BY <1>4, <2>1, <4>2 DEF Removed
      <4> QED BY <4>1, <4>2
    <3> QED BY <1>3, <2>4, <3>1, <3>2 DEF ColdInv, empty, DebugMissingPools
  <2>5. CASE Len(pages[1]) # 0 /\ Len(pages'[1]) = 0
    <3>1. hot' = 1 /\ Len(pages[1]) = 1
      <4>1. hot' # 1 => pages'[1] = pages[1]
        BY <1>4, <2>1 DEF Removed
      <4>2. hot' = 1 => Len(pages'[1]) = Len(pages[1]) - 1
        BY <1>4 DEF Removed
      <4> QED BY <2>1, <2>5, <4>1, <4>2
    <3>2. u = Bottom
      <4>1. u.page = 1 /\ u.slot = 0
        BY <1>9, <1>11, <2>5, <3>1
      <4> QED BY <1>5, <4>1 DEF Position, Bottom
    <3>3. Last(pages[hot']) = pages[1][1]
      BY <3>1 DEF Last
    <3>4. CASE m = n /\ f = top
      BY <1>2, <1>16, <3>2, <3>4, <2>5 DEF ColdInv, empty
    <3>5. CASE m = n + 1 /\ Last(pages[hot']) = Object
      <4>1. pages[1][1] # Boundary
        BY <3>3, <3>5, EntryAssumption
      <4>2. ~DebugMissingPools
        BY <1>1, <1>5, <2>5, <4>1 DEF ColdInv, empty
      <4>3. ~Here(u)
        BY <3>2, <4>1 DEF Here, At, Bottom
      <4>4. exiting /\ frames[1].until = Bottom
        BY <1>2, <1>6, <1>12, <3>2, <4>3 DEF Loose
      <4> QED BY <1>3, <1>20, <4>2, <4>4 DEF ColdInv, DebugMissingPools
    <3> QED BY <1>16, <3>4, <3>5
  <2> QED BY <2>3, <2>4, <2>5
<1> QED BY <1>17, <1>18, <1>19, <1>21, <1>22 DEF IInv


LEMMA DebugCases ==
  ASSUME TypeInv, debug # {} PROVE DebugPoolAllocation \/ DebugMissingPools
BY OptionsAssumption DEF TypeInv, DebugPoolAllocation, DebugMissingPools

LEMMA FinishStep ==
  ASSUME IInv, finishPop PROVE IInv'
<1>1. TypeInv /\ PagesInv /\ TokensInv /\ UntilInv /\ NestingInv /\ ExitInv /\ ColdInv
  BY DEF IInv
<1>2. PICK u : u = top.until
  OBVIOUS
<1>3. /\ u # None /\ Len(pages[u.page]) = u.slot /\ UNCHANGED <<placeholder, debug, exiting>>
      /\ frames' = Append(Front(frames), Frame(top.tokens, None))
  BY <1>2 DEF finishPop
<1>4. /\ pages' \in Seq(Seq(Entry)) /\ hot' \in 0 .. Len(pages') /\ PagesInv'
      /\ Len(pages') <= hot' + 1
      /\ \A j \in 1 .. Len(pages') : j <= Len(pages) /\ pages'[j] = pages[j]
      /\ \/ hot' = u.page /\ (empty(u.page) => ~DebugPoolAllocation /\ ~(DebugMissingPools /\ u.page = 1))
         \/ hot' = u.page - 1 /\ Len(pages[u.page]) = 0
            /\ (DebugPoolAllocation \/ (DebugMissingPools /\ u.page = 1))
      /\ Finished
  BY <1>1, <1>2, FinishEffect DEF Finished
<1>5. /\ \A j \in 1 .. Len(frames) : \A a \in DOMAIN frames[j].tokens :
           Before(Stop(frames[j].tokens[a]), u) /\ Here(Stop(frames[j].tokens[a]))
      /\ \A j \in 1 .. Len(frames) :
           j # Len(frames) /\ ~Loose(j) => Before(frames[j].until, u)
      /\ u \in Position /\ u.page \in 1 .. hot /\ hot # 0 /\ ~placeholder
  BY <1>2, <1>3, AllBelow
<1>6. PICK n \in Nat : n = Len(frames) /\ n # 0 /\ DOMAIN frames = 1 .. n /\ frames \in Seq(FrameType)
                       /\ top = frames[n] /\ n \in 1 .. n
  BY <1>1, TopFrame
<1>7. \A j \in 1 .. n :
        /\ frames[j].tokens \in Seq(Position) /\ DOMAIN frames[j].tokens = 1 .. Len(frames[j].tokens)
        /\ \A a \in 1 .. Len(frames[j].tokens) : Stop(frames[j].tokens[a]) \in Position
  BY <1>1, <1>6, FramesShape
<1>8. \A j \in 1 .. n : \A a \in DOMAIN frames[j].tokens : HereAfter(Stop(frames[j].tokens[a]))
  BY <1>1, <1>2, <1>3, <1>4, <1>5, <1>6, <1>7, FinishedHere
<1>9. /\ hot \in Nat /\ u.page \in Nat /\ u.page # 0 /\ hot' \in Nat /\ hot' <= Len(pages') /\ Len(pages') \in Nat
      /\ \A i \in 1 .. Len(pages') : Len(pages'[i]) \in Nat
  <2>1. hot \in Nat
    BY <1>1, PagesShape
  <2>2. Len(pages') \in Nat /\ \A i \in 1 .. Len(pages') : Len(pages'[i]) \in Nat
    BY <1>4
  <2> QED BY <1>4, <1>5, <2>1, <2>2
<1>10. \A j : Loose(j)' <=> Loose(j)
  BY <1>3 DEF Loose, DebugMissingPools
<1>11. ASSUME NEW j \in 1 .. n, j # n
       PROVE  /\ frames[j].until # None /\ frames[j].until.page \in 1 .. hot'
              /\ frames[j].until.slot <= Len(pages'[frames[j].until.page])
              /\ ~Loose(j) => HereAfter(frames[j].until)
  <2>1. frames[j].until \in Position /\ frames[j].until # None /\ (Loose(j) \/ Here(frames[j].until))
    BY <1>6, <1>11, OuterHere, PositionProperties
  <2>2. CASE Loose(j)
    <3>1. j = 1 /\ exiting /\ ~DebugMissingPools /\ frames[j].until.page = 1 /\ frames[j].until.slot = 0
      BY <1>6, <2>1, <2>2, LooseProperties DEF Bottom, Loose
    <3>2. DebugPoolAllocation => u.page > 1
      BY <1>1, <1>2, <1>3, <1>6, <1>11, <3>1 DEF ExitInv
    <3>3. hot' # 0
      BY <1>4, <1>9, <3>1, <3>2
    <3>4. 1 \in 1 .. hot' /\ 1 \in 1 .. Len(pages')
      BY <1>9, <3>3
    <3> QED BY <1>9, <2>1, <2>2, <3>1, <3>4
  <2>3. CASE ~Loose(j)
    <3>1. Before(frames[j].until, u) /\ Here(frames[j].until)
      BY <1>5, <1>6, <1>11, <2>1, <2>3
    <3>2. HereAfter(frames[j].until) /\ frames[j].until.page <= hot'
      BY <1>1, <1>2, <1>3, <1>4, <1>5, <2>1, <3>1, FinishedHere
    <3>3. frames[j].until.page \in 1 .. hot /\ frames[j].until.slot \in Nat
      BY <1>6, <1>11, <2>1, OuterHere, PositionProperties
    <3>4. frames[j].until.page \in 1 .. hot' /\ frames[j].until.page \in 1 .. Len(pages')
      BY <1>9, <3>2, <3>3
    <3>5. Len(pages'[frames[j].until.page]) \in Nat
      BY <1>9, <3>4
    <3>6. frames[j].until.slot <= Len(pages'[frames[j].until.page])
      BY <3>2, <3>3, <3>5 DEF HereAfter
    <3> QED BY <2>1, <3>2, <3>4, <3>6
  <2> QED BY <2>2, <2>3
<1>12. PICK f : f = Frame(top.tokens, None)
  OBVIOUS
<1>13. f \in FrameType /\ f.tokens = top.tokens /\ f.until = None
  BY <1>6, <1>7, <1>12, FrameProperties
<1>14. /\ frames' \in Seq(FrameType) /\ Len(frames') = n /\ frames' # <<>> /\ DOMAIN frames' = 1 .. n
       /\ frames'[n] = f /\ top' = f
       /\ \A j \in 1 .. n : j # n => frames'[j] = frames[j]
  BY <1>1, <1>3, <1>6, <1>12, <1>13, TopReplaced
<1>15. TypeInv' /\ KeptInv'
  BY <1>1, <1>3, <1>4, <1>14 DEF TypeInv, Entry, KeptInv
<1>16. TokensInv' /\ UntilInv' /\ NestingInv'
  <2>1. \A a, b \in DOMAIN f.tokens : a < b => Before(Stop(f.tokens[a]), Stop(f.tokens[b]))
    BY <1>1, <1>6, <1>13 DEF TokensInv
  <2>2. \A a \in DOMAIN f.tokens : HereAfter(Stop(f.tokens[a]))
    BY <1>6, <1>8, <1>13
  <2>3. ASSUME NEW j \in 1 .. n, j # n
        PROVE  /\ j \in 1 .. Len(frames) /\ frames'[j] = frames[j] /\ (Loose(j)' <=> Loose(j))
               /\ frames[j].until # None /\ frames[j].until.page \in 1 .. hot'
               /\ frames[j].until.slot <= Len(pages'[frames[j].until.page])
               /\ \A a \in DOMAIN frames[j].tokens : HereAfter(Stop(frames[j].tokens[a]))
               /\ ~Loose(j) =>
                    /\ HereAfter(frames[j].until)
                    /\ \A a \in DOMAIN f.tokens : Before(frames[j].until, Stop(f.tokens[a]))
    <3>1. j < n /\ j \in DOMAIN frames /\ n \in DOMAIN frames
      BY <1>6, <2>3
    <3>2. ~Loose(j) => \A a \in DOMAIN f.tokens : Before(frames[j].until, Stop(f.tokens[a]))
      BY <1>1, <1>6, <1>13, <3>1 DEF NestingInv
    <3> QED BY <1>6, <1>8, <1>10, <1>11, <1>14, <2>3, <3>2
  <2>4. n \in Nat \ {0}
    BY <1>6
  <2> QED BY <1>13, <1>14, <2>1, <2>2, <2>3, <2>4, FramesStep
<1>17. debug # {} /\ u = Bottom => hot' = 0
  <2>1. debug # {} => DebugPoolAllocation \/ DebugMissingPools
    BY <1>1, DebugCases
  <2>2. u = Bottom => u.page = 1 /\ u.slot = 0 /\ empty(1)
    BY <1>3 DEF Bottom, empty
  <2> QED BY <1>4, <2>1, <2>2
<1>18. 1 \in 1 .. n
  BY <1>6
<1>19. ExitInv'
  <2>1. ASSUME exiting, n = 1
        PROVE  frames'[1].tokens = <<>> /\ frames'[1].until = None /\ (debug # {} => hot' = 0)
    <3>1. top.tokens = <<>> /\ u = Bottom
      BY <1>1, <1>2, <1>3, <1>6, <2>1 DEF ExitInv
    <3> QED BY <1>13, <1>14, <1>17, <2>1, <3>1
  <2>2. ASSUME exiting, n # 1
        PROVE  frames'[1].tokens = <<>> /\ frames'[1].until = Bottom
    BY <1>1, <1>11, <1>14, <1>18, <2>2 DEF ExitInv
  <2>3. ASSUME exiting, DebugPoolAllocation, NEW k \in 1 .. n, k # 1
        PROVE  /\ \A a \in DOMAIN frames'[k].tokens : Stop(frames'[k].tokens[a]).page > 1
               /\ frames'[k].until # None => frames'[k].until.page > 1
    <3>1. /\ \A a \in DOMAIN frames[k].tokens : Stop(frames[k].tokens[a]).page > 1
          /\ frames[k].until # None => frames[k].until.page > 1
      BY <1>1, <1>6, <2>3 DEF ExitInv
    <3> QED BY <1>6, <1>13, <1>14, <3>1
  <2> QED BY <1>3, <1>14, <2>1, <2>2, <2>3, PositionProperties DEF ExitInv, DebugPoolAllocation
<1>20. ColdInv'
  <2>1. ASSUME hot' # 0
        PROVE  /\ DebugMissingPools => Len(pages'[1]) # 0 /\ pages'[1][1] = Boundary
               /\ debug # {} /\ Len(pages'[1]) = 0 => exiting /\ frames'[1].until = Bottom
    <3>1. 1 \in 1 .. Len(pages')
      BY <1>9, <2>1
    <3>2. pages'[1] = pages[1]
      BY <1>4, <3>1
    <3>3. DebugMissingPools => debug # {}
      BY DEF DebugMissingPools
    <3>4. debug # {} => u # Bottom
      BY <1>17, <2>1
    <3>5. DebugMissingPools => Len(pages[1]) # 0 /\ pages[1][1] = Boundary
      BY <1>1, <1>2, <1>5, <3>3, <3>4 DEF ColdInv, empty
    <3>6. debug # {} /\ Len(pages[1]) = 0 => exiting /\ frames[1].until = Bottom
      BY <1>1, <1>2, <1>5, <3>4 DEF ColdInv, empty
    <3>7. debug # {} /\ Len(pages[1]) = 0 => 1 # n
      BY <1>2, <1>6, <3>4, <3>6
    <3> QED BY <1>14, <1>18, <3>2, <3>5, <3>6, <3>7
  <2> QED BY <1>3, <2>1 DEF ColdInv, empty, DebugMissingPools
<1> QED BY <1>4, <1>15, <1>16, <1>19, <1>20 DEF IInv


\* The entries stay where they are.
LEMMA SamePages ==
  ASSUME IInv, UNCHANGED <<pages, hot, placeholder, debug>>
  PROVE  /\ PagesInv' /\ pages' \in Seq(Seq({Boundary, Object})) /\ hot' \in 0 .. Len(pages')
         /\ placeholder' \in BOOLEAN /\ debug' \in Options
         /\ \A p : Here(p) <=> HereAfter(p)
BY DEF IInv, TypeInv, PagesInv, Here, HereAfter, At, empty, full, DebugPoolAllocation

LEMMA PrefixOf ==
  ASSUME NEW S, NEW s \in Seq(S), NEW i \in 1 .. Len(s)
  PROVE  /\ SubSeq(s, 1, i - 1) \in Seq(S) /\ DOMAIN SubSeq(s, 1, i - 1) = 1 .. i - 1
         /\ \A a \in 1 .. i - 1 : SubSeq(s, 1, i - 1)[a] = s[a]
         /\ i = 1 => SubSeq(s, 1, i - 1) = <<>>
<1>1. PICK l \in Nat : l = Len(s)
  OBVIOUS
<1>2. i \in Nat /\ i <= l /\ 1 <= i
  BY <1>1
<1>3. PICK k \in Nat : k = i - 1
  BY <1>2
<1>4. SubSeq(s, 1, k) = [a \in 1 .. k |-> s[a]]
  <2>1. \A a \in 1 .. k : s[1 + a - 1] = s[a]
    OBVIOUS
  <2> QED BY <1>1, <1>2, <1>3, <2>1
<1>5. \A a \in 1 .. k : s[a] \in S
  BY <1>1, <1>2, <1>3
<1>6. i = 1 => 1 .. k = {}
  BY <1>2, <1>3
<1> QED BY <1>3, <1>4, <1>5, <1>6

LEMMA PopStep ==
  ASSUME IInv, NEW i \in DOMAIN top.tokens, pop(i) PROVE IInv'
<1>1. TypeInv /\ PagesInv /\ TokensInv /\ UntilInv /\ NestingInv /\ ExitInv /\ ColdInv
  BY DEF IInv
<1>2. PICK n \in Nat : n = Len(frames) /\ n # 0 /\ DOMAIN frames = 1 .. n /\ frames \in Seq(FrameType)
                       /\ top = frames[n] /\ n \in 1 .. n
  BY <1>1, TopFrame
<1>3. /\ top.tokens \in Seq(Position) /\ DOMAIN top.tokens = 1 .. Len(top.tokens)
      /\ Len(top.tokens) \in Nat
      /\ \A a \in 1 .. Len(top.tokens) : top.tokens[a] \in Position /\ Stop(top.tokens[a]) \in Position
  BY <1>1, <1>2, FramesShape
<1>4. PICK tokens, token : tokens = SubSeq(top.tokens, 1, i - 1) /\ token = top.tokens[i]
  OBVIOUS
<1>5. /\ tokens \in Seq(Position) /\ DOMAIN tokens = 1 .. i - 1
      /\ \A a \in 1 .. i - 1 : tokens[a] = top.tokens[a]
      /\ i = 1 => tokens = <<>>
  BY <1>3, <1>4, PrefixOf
<1>6. /\ Running /\ top.until = None /\ (exiting => n > 1) /\ UNCHANGED <<pages, hot, debug, exiting>>
      /\ IF token = EMPTY_POOL_PLACEHOLDER /\ hot = 0 THEN
           placeholder' = FALSE /\ frames' = Append(Front(frames), Frame(tokens, None))
         ELSE
           frames' = Append(Front(frames), Frame(tokens, Stop(token))) /\ UNCHANGED placeholder
  BY <1>2, <1>4 DEF pop, Running
<1>7. CASE hot = 0
  <2>1. /\ Len(frames) = 1 /\ top = frames[1] /\ pages = <<>>
        /\ token = EMPTY_POOL_PLACEHOLDER /\ i = 1
    BY <1>4, <1>7, NoPage
  <2>2. tokens = <<>> /\ Len(tokens) <= 1 /\ DOMAIN tokens = {}
    BY <1>5, <2>1
  <2>3. Front(frames) = <<>>
    BY <1>2, <2>1 DEF Front
  <2>4. frames' = <<Frame(tokens, None)>> /\ placeholder' = FALSE /\ hot' = 0 /\ pages' = <<>>
        /\ debug' = debug
    BY <1>6, <1>7, <2>1, <2>3
  <2>5. placeholder' \in BOOLEAN
    BY <2>4
  <2>6. exiting' = FALSE
    <3>1. exiting \in BOOLEAN /\ ~exiting
      BY <1>1, <1>2, <1>6, <2>1 DEF TypeInv
    <3> QED BY <1>6, <3>1
  <2>7. \A a \in DOMAIN tokens : tokens[a] = EMPTY_POOL_PLACEHOLDER /\ placeholder'
    BY <2>2
  <2> QED BY <1>5, <2>2, <2>4, <2>5, <2>6, <2>7, BareStep
<1>8. CASE hot # 0
  <2>1. ~placeholder /\ UNCHANGED placeholder /\ frames' = Append(Front(frames), Frame(tokens, Stop(token)))
    BY <1>6, <1>8 DEF IInv, PagesInv
  <2>2. PICK u : u = Stop(token)
    OBVIOUS
  <2>3. \A a \in DOMAIN top.tokens : Here(Stop(top.tokens[a]))
    BY <1>1, <1>2, <2>1 DEF TokensInv
  <2>4. u \in Position /\ Here(u) /\ u # None
    BY <1>3, <1>4, <2>2, <2>3, PositionProperties
  <2>5. u.page \in 1 .. hot /\ u.page \in 1 .. Len(pages) /\ u.slot < Len(pages[u.page])
        /\ u.slot \in Nat /\ Len(pages[u.page]) \in Nat
    BY <1>1, <2>4, HereProperties, PagesShape, PositionProperties
  <2>6. PICK f : f = Frame(tokens, u)
    OBVIOUS
  <2>7. f \in FrameType /\ f.tokens = tokens /\ f.until = u
    BY <1>5, <2>4, <2>6, FrameProperties
  <2>8. /\ frames' \in Seq(FrameType) /\ Len(frames') = n /\ frames' # <<>> /\ DOMAIN frames' = 1 .. n
        /\ frames'[n] = f /\ top' = f
        /\ \A j \in 1 .. n : j # n => frames'[j] = frames[j]
    BY <1>1, <1>2, <2>1, <2>2, <2>6, <2>7, TopReplaced
  <2>9. /\ PagesInv' /\ pages' \in Seq(Seq({Boundary, Object})) /\ hot' \in 0 .. Len(pages')
        /\ placeholder' \in BOOLEAN /\ debug' \in Options
        /\ \A p : Here(p) <=> HereAfter(p)
    BY <1>6, <2>1, SamePages
  <2>10. \A j : Loose(j)' <=> Loose(j)
    BY <1>6 DEF Loose, DebugMissingPools
  <2>11. TypeInv' /\ KeptInv'
    BY <1>1, <1>6, <2>4, <2>7, <2>8, <2>9 DEF TypeInv, KeptInv
  <2>12. \A a \in DOMAIN f.tokens : a \in DOMAIN top.tokens /\ f.tokens[a] = top.tokens[a] /\ a < i
    <3>1. PICK l \in Nat : l = Len(top.tokens)
      BY <1>3
    <3>2. i \in 1 .. l
      BY <1>3, <3>1
    <3>3. \A a \in 1 .. i - 1 : a \in 1 .. l /\ a < i
      BY <3>2
    <3> QED BY <1>3, <1>5, <2>7, <3>1, <3>3
  <2>13. TokensInv' /\ UntilInv' /\ NestingInv'
    <3>1. /\ \A a, b \in DOMAIN f.tokens : a < b => Before(Stop(f.tokens[a]), Stop(f.tokens[b]))
          /\ \A a \in DOMAIN f.tokens : Before(Stop(f.tokens[a]), u)
      BY <1>1, <1>2, <1>4, <2>2, <2>12 DEF TokensInv
    <3>2. \A a \in DOMAIN f.tokens : HereAfter(Stop(f.tokens[a]))
      BY <2>3, <2>9, <2>12
    <3>3. HereAfter(u) /\ ~Reached(n)' /\ u.page \in 1 .. hot' /\ u.slot <= Len(pages'[u.page])
      BY <1>6, <2>4, <2>5, <2>7, <2>8, <2>9 DEF Reached
    <3>4. ASSUME NEW j \in 1 .. n, j # n
          PROVE  /\ j \in 1 .. Len(frames) /\ frames'[j] = frames[j] /\ (Loose(j)' <=> Loose(j))
                 /\ frames[j].until # None /\ frames[j].until.page \in 1 .. hot'
                 /\ frames[j].until.slot <= Len(pages'[frames[j].until.page])
                 /\ \A a \in DOMAIN frames[j].tokens : HereAfter(Stop(frames[j].tokens[a]))
                 /\ ~Loose(j) =>
                      /\ HereAfter(frames[j].until)
                      /\ \A a \in DOMAIN f.tokens : Before(frames[j].until, Stop(f.tokens[a]))
                      /\ Before(frames[j].until, f.until)
      <4>1. j < n /\ j \in DOMAIN frames /\ n \in DOMAIN frames
        BY <1>2, <3>4
      <4>2. ~Loose(j) => \A a \in DOMAIN top.tokens : Before(frames[j].until, Stop(top.tokens[a]))
        BY <1>1, <1>2, <4>1 DEF NestingInv
      <4>3. ~Loose(j) => /\ \A a \in DOMAIN f.tokens : Before(frames[j].until, Stop(f.tokens[a]))
                         /\ Before(frames[j].until, f.until)
        BY <1>4, <2>2, <2>7, <2>12, <4>2
      <4>4. /\ frames[j].until # None /\ frames[j].until.page \in 1 .. hot'
            /\ frames[j].until.slot <= Len(pages'[frames[j].until.page])
            /\ ~Loose(j) => HereAfter(frames[j].until)
        BY <1>2, <1>6, <2>9, <3>4, OuterHere, PositionProperties
      <4>5. \A a \in DOMAIN frames[j].tokens : HereAfter(Stop(frames[j].tokens[a]))
        BY <1>1, <2>1, <2>9, <4>1 DEF TokensInv
      <4> QED BY <1>2, <2>8, <2>10, <3>4, <4>3, <4>4, <4>5
    <3>5. n \in Nat \ {0}
      BY <1>2
    <3> QED BY <2>7, <2>8, <3>1, <3>2, <3>3, <3>4, <3>5, FramesStep
  <2>14. exiting => 1 \in 1 .. n /\ 1 # n /\ frames'[1] = frames[1] /\ frames[1].until # None
    <3>1. exiting => 1 \in 1 .. n /\ 1 # n
      BY <1>2, <1>6
    <3> QED BY <1>2, <2>8, <3>1, OuterHere, PositionProperties
  <2>15. ExitInv'
    <3>1. ASSUME exiting
          PROVE  frames'[1].tokens = <<>> /\ frames'[1].until = Bottom
      BY <1>1, <2>14, <3>1 DEF ExitInv
    <3>2. ASSUME exiting, DebugPoolAllocation, NEW k \in 1 .. n, k # 1
          PROVE  /\ \A a \in DOMAIN frames'[k].tokens : Stop(frames'[k].tokens[a]).page > 1
                 /\ frames'[k].until # None => frames'[k].until.page > 1
      <4>1. /\ \A a \in DOMAIN frames[k].tokens : Stop(frames[k].tokens[a]).page > 1
            /\ frames[k].until # None => frames[k].until.page > 1
        BY <1>1, <1>2, <3>2 DEF ExitInv
      <4>2. CASE k = n
        BY <1>2, <1>4, <2>2, <2>7, <2>8, <2>12, <4>1, <4>2
      <4>3. CASE k # n
        BY <2>8, <4>1, <4>3
      <4> QED BY <4>2, <4>3
    <3> QED BY <1>6, <2>8, <3>1, <3>2, PositionProperties DEF ExitInv, DebugPoolAllocation
  <2>16. ColdInv'
    <3>1. top.until # Bottom
      BY <1>6, PositionProperties
    <3>2. /\ DebugMissingPools => ~empty(1) /\ pages[1][1] = Boundary
          /\ debug # {} /\ empty(1) => exiting /\ frames[1].until = Bottom
      BY <1>1, <1>8, <3>1 DEF ColdInv
    <3> QED BY <1>6, <2>14, <3>2 DEF ColdInv, empty, DebugMissingPools
  <2> QED BY <2>9, <2>11, <2>13, <2>15, <2>16 DEF IInv
<1> QED BY <1>7, <1>8


LEMMA ReturnStep ==
  ASSUME IInv, return PROVE IInv'
<1>1. TypeInv /\ PagesInv /\ TokensInv /\ UntilInv /\ NestingInv /\ ExitInv /\ ColdInv
  BY DEF IInv
<1>2. PICK n \in Nat : n = Len(frames) /\ n # 0 /\ DOMAIN frames = 1 .. n /\ frames \in Seq(FrameType)
                       /\ top = frames[n] /\ n \in 1 .. n
  BY <1>1, TopFrame
<1>3. /\ top.until = None /\ n > 1 /\ frames' = Front(frames)
      /\ UNCHANGED <<pages, hot, placeholder, debug, exiting>>
  BY <1>2 DEF return, Running
<1>4. PICK m \in Nat \ {0} : m = n - 1
  BY <1>2, <1>3
<1>5. /\ frames' \in Seq(FrameType) /\ Len(frames') = m /\ frames' # <<>> /\ DOMAIN frames' = 1 .. m
      /\ top' = frames[m] /\ \A j \in 1 .. m : frames'[j] = frames[j]
  BY <1>1, <1>2, <1>3, <1>4, TopPopped
<1>6. \A j \in 1 .. m : j \in 1 .. n /\ j # n
  BY <1>4
<1>7. /\ PagesInv' /\ pages' \in Seq(Seq({Boundary, Object})) /\ hot' \in 0 .. Len(pages')
      /\ placeholder' \in BOOLEAN /\ debug' \in Options
      /\ \A p : Here(p) <=> HereAfter(p)
  BY <1>3, SamePages
<1>8. \A j : Loose(j)' <=> Loose(j)
  BY <1>3 DEF Loose, DebugMissingPools
<1>9. ASSUME NEW j \in 1 .. m
      PROVE  /\ frames[j].until \in Position /\ frames[j].until # None
             /\ frames[j].until.page \in 1 .. hot' /\ frames[j].until.page \in 1 .. hot
             /\ frames[j].until.slot <= Len(pages'[frames[j].until.page])
             /\ Loose(j) \/ HereAfter(frames[j].until)
  BY <1>2, <1>3, <1>6, <1>7, <1>9, OuterHere, PositionProperties
<1>10. ~placeholder /\ hot # 0 /\ hot \in Nat
  <2>1. 1 \in 1 .. m /\ hot \in Nat
    BY <1>1, PagesShape
  <2>2. hot # 0
    BY <1>9, <2>1
  <2> QED BY <1>1, <2>1, <2>2 DEF PagesInv
<1>11. m \in 1 .. m
  OBVIOUS
<1>12. TypeInv' /\ KeptInv'
  BY <1>1, <1>3, <1>5, <1>7, <1>9, <1>11 DEF TypeInv, KeptInv
<1>13. PICK f : f = frames[m]
  OBVIOUS
<1>14. f.until # None /\ f.until.page \in 1 .. hot' /\ f.until.slot <= Len(pages'[f.until.page])
       /\ (Loose(m)' \/ HereAfter(f.until)) /\ frames'[m] = f
  BY <1>5, <1>8, <1>9, <1>11, <1>13
<1>15. Reached(m)' => hot' = f.until.page \/ (Loose(m) /\ DebugPoolAllocation)'
  <2>1. ASSUME Reached(m)', ~DebugPoolAllocation' PROVE hot' = f.until.page
    <3>1. Len(pages'[f.until.page]) = f.until.slot
      BY <1>14, <2>1 DEF Reached
    <3>2. ~HereAfter(f.until)
      <4>1. f.until \in Position /\ f.until.slot \in Nat
        BY <1>9, <1>11, <1>13, PositionProperties
      <4> QED BY <3>1, <4>1 DEF HereAfter
    <3>3. f.until = Bottom
      BY <1>6, <1>2, <1>8, <1>11, <1>13, <1>14, <3>2, LooseProperties
    <3>4. Len(pages[1]) = 0
      BY <1>3, <3>1, <3>3 DEF Bottom
    <3>5. 1 \notin 1 .. hot - 1
      <4>1. 1 \in 1 .. hot - 1 => Len(pages[1]) = PageSize
        BY <1>1, <1>3, <2>1 DEF PagesInv, full, DebugPoolAllocation
      <4> QED BY <3>4, <4>1, PageSizeProperties
    <3>6. hot = 1
      BY <1>10, <3>5
    <3> QED BY <1>3, <3>3, <3>6 DEF Bottom
  <2> QED BY <1>8, <1>14, <2>1 DEF Loose, Reached, HereAfter
<1>16. TokensInv' /\ UntilInv' /\ NestingInv'
  <2>1. \A j \in 1 .. m : \A a \in DOMAIN frames[j].tokens : HereAfter(Stop(frames[j].tokens[a]))
    BY <1>1, <1>2, <1>6, <1>7, <1>10 DEF TokensInv
  <2>2. m \in DOMAIN frames
    BY <1>2, <1>6, <1>11
  <2>3. /\ \A a, b \in DOMAIN f.tokens : a < b => Before(Stop(f.tokens[a]), Stop(f.tokens[b]))
        /\ \A a \in DOMAIN f.tokens : Before(Stop(f.tokens[a]), f.until)
    BY <1>1, <1>13, <1>14, <2>2 DEF TokensInv
  <2>4. \A a \in DOMAIN f.tokens : HereAfter(Stop(f.tokens[a]))
    BY <1>11, <1>13, <2>1
  <2>5. ASSUME NEW j \in 1 .. m, j # m
        PROVE  /\ j \in 1 .. Len(frames) /\ frames'[j] = frames[j] /\ (Loose(j)' <=> Loose(j))
               /\ frames[j].until # None /\ frames[j].until.page \in 1 .. hot'
               /\ frames[j].until.slot <= Len(pages'[frames[j].until.page])
               /\ \A a \in DOMAIN frames[j].tokens : HereAfter(Stop(frames[j].tokens[a]))
               /\ ~Loose(j) =>
                    /\ HereAfter(frames[j].until)
                    /\ \A a \in DOMAIN f.tokens : Before(frames[j].until, Stop(f.tokens[a]))
                    /\ f.until # None => Before(frames[j].until, f.until)
    <3>1. j < m /\ j \in DOMAIN frames
      BY <1>2, <1>6, <2>5
    <3>2. ~Loose(j) => /\ \A a \in DOMAIN f.tokens : Before(frames[j].until, Stop(f.tokens[a]))
                       /\ f.until # None => Before(frames[j].until, f.until)
      BY <1>1, <1>13, <2>2, <3>1 DEF NestingInv
    <3> QED BY <1>2, <1>5, <1>6, <1>8, <1>9, <2>1, <2>5, <3>2
  <2> QED BY <1>5, <1>14, <1>15, <2>3, <2>4, <2>5, FramesStep
<1>17. 1 \in 1 .. m
  BY <1>11
<1>18. ExitInv'
  <2>1. ASSUME exiting
        PROVE  frames'[1].tokens = <<>> /\ frames'[1].until = Bottom
    BY <1>1, <1>5, <1>9, <1>17, <2>1 DEF ExitInv
  <2>2. ASSUME exiting, DebugPoolAllocation, NEW k \in 1 .. m, k # 1
        PROVE  /\ \A a \in DOMAIN frames'[k].tokens : Stop(frames'[k].tokens[a]).page > 1
               /\ frames'[k].until # None => frames'[k].until.page > 1
    BY <1>1, <1>2, <1>5, <1>6, <2>2 DEF ExitInv
  <2> QED BY <1>3, <1>5, <2>1, <2>2, PositionProperties DEF ExitInv, DebugPoolAllocation
<1>19. ColdInv'
  <2>1. top.until # Bottom
    BY <1>3, PositionProperties
  <2>2. /\ DebugMissingPools => ~empty(1) /\ pages[1][1] = Boundary
        /\ debug # {} /\ empty(1) => exiting /\ frames[1].until = Bottom
    BY <1>1, <1>10, <2>1 DEF ColdInv
  <2> QED BY <1>3, <1>5, <1>17, <2>2 DEF ColdInv, empty, DebugMissingPools
<1> QED BY <1>7, <1>12, <1>16, <1>18, <1>19 DEF IInv

LEMMA ExitPopStep ==
  ASSUME IInv, tls_deallocPop PROVE IInv'
<1>1. TypeInv /\ PagesInv /\ ColdInv
  BY DEF IInv
<1>2. /\ Len(frames) = 1 /\ top.until = None /\ hot # 0 /\ Len(pages[1]) # 0
      /\ frames' = <<Frame(<<>>, Bottom)>> /\ exiting' = TRUE
      /\ UNCHANGED <<pages, hot, placeholder, debug>>
  BY DEF tls_deallocPop, Running, Bottom, empty
<1>3. PICK f : f = Frame(<<>>, Bottom)
  OBVIOUS
<1>4. f \in FrameType /\ f.tokens = <<>> /\ f.until = Bottom /\ Bottom # None
  <2>1. <<>> \in Seq(Position) /\ Bottom \in Position \cup {None}
    BY PositionProperties
  <2> QED BY <1>3, <2>1, FrameProperties, PositionProperties
<1>5. /\ frames' = <<f>> /\ frames' \in Seq(FrameType) /\ Len(frames') = 1 /\ DOMAIN frames' = 1 .. 1
      /\ frames'[1] = f /\ top' = f /\ frames' # <<>>
  BY <1>2, <1>3, <1>4 DEF top, Last
<1>6. /\ PagesInv' /\ pages' \in Seq(Seq({Boundary, Object})) /\ hot' \in 0 .. Len(pages')
      /\ placeholder' \in BOOLEAN /\ debug' \in Options
      /\ \A p : Here(p) <=> HereAfter(p)
  BY <1>2, SamePages
<1>7. TypeInv' /\ KeptInv'
  BY <1>2, <1>4, <1>5, <1>6 DEF TypeInv, KeptInv
<1>8. 1 \in 1 .. hot' /\ 1 \in DOMAIN pages /\ Len(pages'[1]) \in Nat /\ Len(pages'[1]) # 0
  <2>1. hot \in Nat /\ Len(pages) \in Nat /\ hot <= Len(pages) /\ DOMAIN pages = 1 .. Len(pages)
    BY <1>1, PagesShape
  <2>2. 1 \in 1 .. Len(pages) /\ 1 \in 1 .. hot
    BY <1>2, <2>1
  <2>3. Len(pages[1]) \in Nat
    BY <1>1, <2>2, PagesShape
  <2> QED BY <1>2, <2>1, <2>2, <2>3
<1>9. DebugMissingPools => pages[1][1] = Boundary
  <2>1. top.until # Bottom
    BY <1>2, <1>4
  <2> QED BY <1>1, <1>2, <2>1 DEF ColdInv
<1>10. Loose(1)' \/ HereAfter(Bottom)
  BY <1>2, <1>8, <1>9 DEF Loose, HereAfter, Bottom, DebugMissingPools
<1>11. TokensInv' /\ UntilInv' /\ NestingInv'
  <2>1. DOMAIN f.tokens = {}
    BY <1>4
  <2>2. Bottom.page \in 1 .. hot' /\ Bottom.slot <= Len(pages'[Bottom.page])
    BY <1>8 DEF Bottom
  <2>3. ~Reached(1)'
    BY <1>4, <1>5, <1>8 DEF Reached, Bottom
  <2>4. \A j \in 1 .. 1 : j = 1
    OBVIOUS
  <2> QED BY <1>4, <1>5, <1>10, <2>1, <2>2, <2>3, <2>4, FramesStep
<1>12. ExitInv'
  <2>1. \A k \in 1 .. 1 : k = 1
    OBVIOUS
  <2> QED BY <1>4, <1>5, <2>1 DEF ExitInv
<1>13. ColdInv'
  BY <1>2, <1>4, <1>5, <1>8, <1>9 DEF ColdInv, empty, DebugMissingPools
<1> QED BY <1>6, <1>7, <1>11, <1>12, <1>13 DEF IInv


--------------------------------------------------------------------------------
(* The invariant *)

LEMMA InitInv ==
  ASSUME Init PROVE IInv
<1>1. /\ pages = <<>> /\ hot = 0 /\ placeholder = FALSE /\ debug \in Options
      /\ frames = <<Frame(<<>>, None)>> /\ exiting = FALSE
  BY DEF Init
<1>2. PICK f : f = Frame(<<>>, None)
  OBVIOUS
<1>3. f \in FrameType /\ f.tokens = <<>> /\ f.until = None
  <2>1. <<>> \in Seq(Position)
    OBVIOUS
  <2> QED BY <1>2, <2>1, FrameProperties
<1>4. /\ frames = <<f>> /\ frames \in Seq(FrameType) /\ Len(frames) = 1 /\ DOMAIN frames = {1}
      /\ frames[1] = f /\ top = f /\ frames # <<>>
  BY <1>1, <1>2, <1>3 DEF top, Last
<1>5. Len(pages) = 0 /\ DOMAIN pages = {} /\ pages \in Seq(Seq({Boundary, Object})) /\ DOMAIN f.tokens = {}
  BY <1>1, <1>3
<1>6. TypeInv
  <2>1. hot \in 0 .. Len(pages)
    BY <1>1, <1>5
  <2>2. placeholder \in BOOLEAN /\ exiting \in BOOLEAN
    BY <1>1
  <2> QED BY <1>1, <1>4, <1>5, <2>1, <2>2 DEF TypeInv
<1>7. PagesInv /\ KeptInv
  BY <1>1, <1>5 DEF PagesInv, KeptInv
<1>8. TokensInv /\ UntilInv /\ NestingInv
  <2>1. TokensInv
    BY <1>3, <1>4, <1>5 DEF TokensInv
  <2>2. UntilInv
    BY <1>3, <1>4 DEF UntilInv
  <2>3. NestingInv
    BY <1>4 DEF NestingInv
  <2> QED BY <2>1, <2>2, <2>3
<1>9. ExitInv /\ ColdInv
  BY <1>1 DEF ExitInv, ColdInv
<1> QED BY <1>6, <1>7, <1>8, <1>9 DEF IInv

\* Every call of the pool's functions, every turn of releaseUntil's loop and the
\* end of the thread keep the invariant.
THEOREM InvariantHolds == Spec => []IInv
<1>1. IInv /\ [Next]_vars => IInv'
  <2> SUFFICES ASSUME IInv, [Next]_vars PROVE IInv'
    OBVIOUS
  <2>1. CASE push
    BY <2>1, PushStep
  <2>2. CASE autorelease
    BY <2>2, AutoreleaseStep
  <2>3. CASE \E i \in DOMAIN top.tokens : pop(i)
    <3>1. PICK i \in DOMAIN top.tokens : pop(i)
      BY <2>3
    <3> QED BY <3>1, PopStep
  <2>4. CASE releaseUntil
    BY <2>4, ReleaseStep
  <2>5. CASE finishPop
    BY <2>5, FinishStep
  <2>6. CASE return
    BY <2>6, ReturnStep
  <2>7. CASE tls_deallocPop
    BY <2>7, ExitPopStep
  <2>8. CASE tls_dealloc
    BY <2>8, ExitStep
  <2>9. CASE UNCHANGED vars
    BY <2>9, StutterStep
  <2> QED BY <2>1, <2>2, <2>3, <2>4, <2>5, <2>6, <2>7, <2>8, <2>9 DEF Next
<1> QED BY InitInv, <1>1, PTL DEF Spec

--------------------------------------------------------------------------------
(* The properties *)

\* pop never meets a token of the program that is not the place of a boundary:
\* whatever the -dealloc methods of the objects released push, pop and autorelease,
\* "Invalid or prematurely-freed autorelease pool" is not for them.
THEOREM TokensValidHolds == Spec => []TokensValid
<1>1. ASSUME IInv PROVE TokensValid
  <2>1. TypeInv /\ TokensInv /\ UntilInv
    BY <1>1 DEF IInv
  <2>2. DOMAIN pages = 1 .. Len(pages) /\ Len(pages) \in Nat /\ hot \in Nat /\ hot <= Len(pages)
    BY <2>1, PagesShape
  <2>3. ASSUME NEW f \in Range(frames), NEW token \in Range(f.tokens)
        PROVE  \/ token = EMPTY_POOL_PLACEHOLDER /\ placeholder
               \/ /\ Stop(token).page \in DOMAIN pages
                  /\ Stop(token).slot < Len(pages[Stop(token).page])
                  /\ At(Stop(token)) = Boundary
    BY <2>1, <2>3 DEF Range, TokensInv, Here
  <2>4. ASSUME NEW f \in Range(frames), f.until # None
        PROVE  f.until.page \in DOMAIN pages /\ f.until.slot <= Len(pages[f.until.page])
    <3>1. f.until.page \in 1 .. hot /\ f.until.slot <= Len(pages[f.until.page])
      BY <2>1, <2>4 DEF Range, UntilInv
    <3> QED BY <2>2, <3>1
  <2> QED BY <2>3, <2>4 DEF TokensValid
<1> QED BY <1>1, InvariantHolds, PTL

\* hotPage, kill and the hysteresis of popPage together: the hot page is one of the
\* pages, its children are empty, and one of them at most outlives the pops.
THEOREM PagesKeptHolds == Spec => []PagesKept
<1>1. ASSUME IInv PROVE PagesKept
  <2>1. TypeInv /\ PagesInv /\ KeptInv
    BY <1>1 DEF IInv
  <2>2. hot \in 0 .. Len(pages)
    BY <2>1 DEF TypeInv
  <2>3. ASSUME \A f \in Range(frames) : f.until = None PROVE Len(pages) <= hot + 1
    <3>1. PICK n \in Nat : n = Len(frames) /\ n # 0 /\ DOMAIN frames = 1 .. n /\ frames \in Seq(FrameType)
                           /\ top = frames[n] /\ n \in 1 .. n
      BY <2>1, TopFrame
    <3>2. \A j \in 1 .. n : frames[j].until = None
      BY <2>3, <3>1 DEF Range
    <3>3. n = 1
      <4>1. 1 \in 1 .. n
        BY <3>1
      <4>2. n # 1 => frames[1].until \in Position
        BY <1>1, <3>1, <4>1, OuterHere
      <4> QED BY <3>2, <4>1, <4>2, PositionProperties
    <3> QED BY <2>1, <3>1, <3>2, <3>3 DEF KeptInv
  <2> QED BY <2>1, <2>2, <2>3 DEF PagesKept, PagesInv
<1> QED BY <1>1, InvariantHolds, PTL

\* The question of releaseUntil's comment on its loop over empty pages, answered:
\* without DebugPoolAllocation two of them in a row cannot be.
THEOREM WhileCanBeIfHolds == Spec => []WhileCanBeIf
<1>1. ASSUME IInv PROVE WhileCanBeIf
  <2>1. TypeInv /\ PagesInv /\ UntilInv
    BY <1>1 DEF IInv
  <2>2. SUFFICES ASSUME top.until # None, Len(pages[top.until.page]) # top.until.slot,
                        Len(pages[hot]) = 0, ~DebugPoolAllocation
                 PROVE  Len(pages[hot - 1]) # 0
    BY DEF WhileCanBeIf, empty
  <2>3. /\ top.until \in Position /\ top.until.page \in 1 .. hot
        /\ top.until.slot <= Len(pages[top.until.page])
    <3>1. PICK n \in Nat : n = Len(frames) /\ n # 0 /\ DOMAIN frames = 1 .. n /\ frames \in Seq(FrameType)
                           /\ top = frames[n] /\ n \in 1 .. n
      BY <2>1, TopFrame
    <3> QED BY <1>1, <2>1, <2>2, <3>1, AllBelow DEF UntilInv
  <2>4. hot \in Nat /\ top.until.page \in Nat /\ top.until.slot \in Nat
    BY <2>1, <2>3, PagesShape, PositionProperties
  <2>5. top.until.page # hot
    BY <2>2, <2>3, <2>4
  <2>6. hot - 1 \in 1 .. hot - 1
    BY <2>3, <2>4, <2>5
  <2> QED BY <2>1, <2>2, <2>6, PageSizeProperties DEF PagesInv, full
<1> QED BY <1>1, InvariantHolds, PTL

LEMMA PoppedHot ==
  ASSUME IInv, top.until # None, Len(pages[top.until.page]) = top.until.slot,
         \A options \in Options :
           "DebugPoolAllocation" \in options => "DebugMissingPools" \in options
  PROVE  hot = top.until.page
<1>1. TypeInv /\ UntilInv
  BY DEF IInv
<1>2. PICK n \in Nat : n = Len(frames) /\ n # 0 /\ DOMAIN frames = 1 .. n /\ frames \in Seq(FrameType)
                       /\ top = frames[n] /\ n \in 1 .. n
  BY <1>1, TopFrame
<1>3. Reached(n)
  BY <1>2 DEF Reached
<1>4. hot = top.until.page \/ (Loose(n) /\ DebugPoolAllocation)
  BY <1>1, <1>2, <1>3 DEF UntilInv
<1>5. DebugPoolAllocation => DebugMissingPools
  BY <1>1 DEF TypeInv, DebugPoolAllocation, DebugMissingPools
<1> QED BY <1>4, <1>5 DEF Loose

\* "we expect any children to be completely empty", the ASSERT after releaseUntil's
\* loop, is sound unless a thread may run with DebugPoolAllocation and without
\* DebugMissingPools: the counterexample to it needs exactly these options.
THEOREM ChildrenEmptyHolds ==
  ASSUME \A options \in Options :
           "DebugPoolAllocation" \in options => "DebugMissingPools" \in options
  PROVE  Spec => []ChildrenEmpty
<1>1. ASSUME IInv PROVE ChildrenEmpty
  <2>1. TypeInv /\ PagesInv
    BY <1>1 DEF IInv
  <2>2. SUFFICES ASSUME top.until # None, Len(pages[top.until.page]) = top.until.slot
                 PROVE  \A i \in top.until.page + 1 .. Len(pages) : empty(i)
    BY DEF ChildrenEmpty
  <2>3. hot = top.until.page
    BY <1>1, <2>2, PoppedHot
  <2> QED BY <2>1, <2>3 DEF PagesInv
<1> QED BY <1>1, InvariantHolds, PTL

--------------------------------------------------------------------------------
(* The pages laid end to end *)

\* Induction, again without an operator for the property.
LEMMA Induction ==
  ASSUME NEW T \in SUBSET Nat, 0 \in T, \A n \in T : n + 1 \in T
  PROVE  T = Nat
<1> DEFINE R == Nat \ T
<1>1. ASSUME R # {} PROVE FALSE
  <2>1. PICK m \in R : \A k \in R : m <= k
    BY <1>1, Least
  <2>2. m \in Nat /\ m \notin T /\ m # 0
    BY <2>1
  <2>3. m - 1 \in Nat /\ m - 1 \notin R
    BY <2>1, <2>2
  <2>4. m - 1 \in T
    BY <2>3
  <2> QED BY <2>2, <2>4
<1> QED BY <1>1

\* The recursion of FlattenSeq.
IsFlatten(f, ps, n) == f = [i \in 1 .. n |-> IF i = 1 THEN ps[i] ELSE f[i - 1] \o ps[i]]

Flatten(ps) == CHOOSE f : IsFlatten(f, ps, Len(ps))

LEMMA FlattenDefined ==
  ASSUME NEW S, NEW ps \in Seq(Seq(S))
  PROVE  \A n \in Nat : n <= Len(ps) => \E f \in [1 .. n -> Seq(S)] : IsFlatten(f, ps, n)
<1> DEFINE Defined(n) == n <= Len(ps) => \E f \in [1 .. n -> Seq(S)] : IsFlatten(f, ps, n)
           T          == {n \in Nat : Defined(n)}
<1>1. 0 \in T
  <2>1. PICK f : f = [i \in 1 .. 0 |-> ps[i]]
    OBVIOUS
  <2>2. f \in [1 .. 0 -> Seq(S)]
    BY <2>1
  <2>3. IsFlatten(f, ps, 0)
    <3>1. 1 .. 0 = {}
      OBVIOUS
    <3> QED BY <2>1, <3>1 DEF IsFlatten
  <2> QED BY <2>2, <2>3
<1>2. ASSUME NEW n \in T PROVE n + 1 \in T
  <2>1. SUFFICES ASSUME n + 1 <= Len(ps)
                 PROVE  \E f \in [1 .. n + 1 -> Seq(S)] : IsFlatten(f, ps, n + 1)
    OBVIOUS
  <2>2. n \in Nat /\ n <= Len(ps)
    BY <2>1
  <2>3. PICK f \in [1 .. n -> Seq(S)] : IsFlatten(f, ps, n)
    BY <2>2
  <2>4. \A i \in 1 .. n : f[i] = IF i = 1 THEN ps[i] ELSE f[i - 1] \o ps[i]
    BY <2>3 DEF IsFlatten
  <2>5. PICK last : last = IF n = 0 THEN ps[n + 1] ELSE f[n] \o ps[n + 1]
    OBVIOUS
  <2>6. last \in Seq(S)
    <3>1. ps[n + 1] \in Seq(S)
      BY <2>1, <2>2
    <3>2. n # 0 => f[n] \in Seq(S)
      BY <2>2
    <3>3. \A s, t \in Seq(S) : s \o t \in Seq(S)
      OBVIOUS
    <3> QED BY <2>5, <3>1, <3>2, <3>3
  <2>7. PICK g : g = [i \in 1 .. n + 1 |-> IF i = n + 1 THEN last ELSE f[i]]
    OBVIOUS
  <2>8. g \in [1 .. n + 1 -> Seq(S)]
    BY <2>2, <2>6, <2>7
  <2>9. \A i \in 1 .. n + 1 : g[i] = IF i = 1 THEN ps[i] ELSE g[i - 1] \o ps[i]
    <3>1. ASSUME NEW i \in 1 .. n + 1
          PROVE  g[i] = IF i = 1 THEN ps[i] ELSE g[i - 1] \o ps[i]
      <4>1. CASE i = n + 1
        <5>1. g[i] = last /\ (n # 0 => g[i - 1] = f[n])
          BY <2>2, <2>7, <4>1
        <5> QED BY <2>2, <2>5, <4>1, <5>1
      <4>2. CASE i # n + 1
        <5>1. i \in 1 .. n /\ g[i] = f[i] /\ (i # 1 => g[i - 1] = f[i - 1])
          BY <2>2, <2>7, <4>2
        <5> QED BY <2>4, <5>1
      <4> QED BY <4>1, <4>2
    <3> QED BY <3>1
  <2>10. g = [i \in 1 .. n + 1 |-> IF i = 1 THEN ps[i] ELSE g[i - 1] \o ps[i]]
    <3>1. g = [i \in 1 .. n + 1 |-> g[i]]
      BY <2>8
    <3> QED BY <2>9, <3>1
  <2> QED BY <2>8, <2>10 DEF IsFlatten
<1> HIDE DEF Defined
<1>3. T = Nat
  BY <1>1, <1>2, Induction
<1>4. \A n \in Nat : Defined(n)
  BY <1>3
<1> QED BY <1>4 DEF Defined

LEMMA FlattenUnique ==
  ASSUME NEW ps, NEW m \in Nat, NEW n \in Nat, n <= m, NEW f, NEW g,
         IsFlatten(f, ps, m), IsFlatten(g, ps, n), n # 0
  PROVE  f[n] = g[n]
<1> DEFINE T == {k \in Nat : k \in 1 .. n => f[k] = g[k]}
<1>1. /\ \A i \in 1 .. n : f[i] = IF i = 1 THEN ps[i] ELSE f[i - 1] \o ps[i]
      /\ \A i \in 1 .. n : g[i] = IF i = 1 THEN ps[i] ELSE g[i - 1] \o ps[i]
  <2>1. \A i \in 1 .. n : i \in 1 .. m
    OBVIOUS
  <2>2. \A i \in 1 .. m : f[i] = IF i = 1 THEN ps[i] ELSE f[i - 1] \o ps[i]
    BY DEF IsFlatten
  <2>3. \A i \in 1 .. n : g[i] = IF i = 1 THEN ps[i] ELSE g[i - 1] \o ps[i]
    BY DEF IsFlatten
  <2> QED BY <2>1, <2>2, <2>3
<1>2. 0 \in T
  OBVIOUS
<1>3. ASSUME NEW k \in T PROVE k + 1 \in T
  <2>1. k \in Nat /\ (k \in 1 .. n => f[k] = g[k])
    OBVIOUS
  <2>2. SUFFICES ASSUME k + 1 \in 1 .. n PROVE f[k + 1] = g[k + 1]
    BY <2>1
  <2>3. CASE k = 0
    BY <1>1, <2>2, <2>3
  <2>4. CASE k # 0
    <3>1. k \in 1 .. n /\ k + 1 # 1 /\ (k + 1) - 1 = k
      BY <2>1, <2>2, <2>4
    <3> QED BY <1>1, <2>1, <2>2, <3>1
  <2> QED BY <2>3, <2>4
<1>4. T = Nat
  <2>1. T \in SUBSET Nat
    OBVIOUS
  <2> HIDE DEF T
  <2> QED BY <1>2, <1>3, <2>1, Induction
<1>5. n \in T /\ n \in 1 .. n
  BY <1>4
<1> QED BY <1>5

LEMMA FlattenIs ==
  ASSUME NEW S, NEW ps \in Seq(Seq(S)), NEW f, IsFlatten(f, ps, Len(ps)), Len(ps) # 0
  PROVE  FlattenSeq(ps) = f[Len(ps)]
<1>1. PICK n \in Nat : n = Len(ps)
  OBVIOUS
<1>2. FlattenSeq(ps) = Flatten(ps)[n]
  BY <1>1, Zenon DEF FlattenSeq, Flatten, IsFlatten
<1>3. IsFlatten(Flatten(ps), ps, n)
  BY <1>1 DEF Flatten
<1>4. n \in Nat /\ n <= n /\ n # 0
  BY <1>1
<1>5. Flatten(ps)[n] = f[n]
  BY <1>1, <1>3, <1>4, FlattenUnique
<1> QED BY <1>1, <1>2, <1>5


\* The first n pages, laid end to end.
Laid(ps, n) == FlattenSeq(SubSeq(ps, 1, n))

LEMMA FirstOf ==
  ASSUME NEW S, NEW s \in Seq(S), NEW n \in Nat, n <= Len(s)
  PROVE  /\ SubSeq(s, 1, n) \in Seq(S) /\ Len(SubSeq(s, 1, n)) = n
         /\ \A i \in 1 .. n : SubSeq(s, 1, n)[i] = s[i]
OBVIOUS

LEMMA LaidIs ==
  ASSUME NEW S, NEW ps \in Seq(Seq(S))
  PROVE  \E f \in [1 .. Len(ps) -> Seq(S)] :
           /\ IsFlatten(f, ps, Len(ps))
           /\ \A n \in 1 .. Len(ps) : Laid(ps, n) = f[n]
<1>1. PICK l \in Nat : l = Len(ps)
  OBVIOUS
<1>2. PICK f \in [1 .. l -> Seq(S)] : IsFlatten(f, ps, l)
  BY <1>1, FlattenDefined
<1>3. \A i \in 1 .. l : f[i] = IF i = 1 THEN ps[i] ELSE f[i - 1] \o ps[i]
  BY <1>2 DEF IsFlatten
<1>4. ASSUME NEW n \in 1 .. l PROVE Laid(ps, n) = f[n]
  <2>1. PICK qs : qs = SubSeq(ps, 1, n)
    OBVIOUS
  <2>2. n \in Nat /\ n <= Len(ps) /\ n # 0
    BY <1>1
  <2>3. qs \in Seq(Seq(S)) /\ Len(qs) = n /\ \A i \in 1 .. n : qs[i] = ps[i]
    BY <2>1, <2>2, FirstOf
  <2>4. PICK g : g = [i \in 1 .. n |-> f[i]]
    OBVIOUS
  <2>5. \A i \in 1 .. n : g[i] = IF i = 1 THEN qs[i] ELSE g[i - 1] \o qs[i]
    <3>1. ASSUME NEW i \in 1 .. n PROVE g[i] = IF i = 1 THEN qs[i] ELSE g[i - 1] \o qs[i]
      <4>1. i \in 1 .. l /\ g[i] = f[i] /\ (i # 1 => g[i - 1] = f[i - 1])
        BY <1>1, <2>4
      <4> QED BY <1>3, <2>3, <4>1
    <3> QED BY <3>1
  <2>6. g = [i \in 1 .. n |-> IF i = 1 THEN qs[i] ELSE g[i - 1] \o qs[i]]
    <3>1. g = [i \in 1 .. n |-> g[i]]
      BY <2>4
    <3> QED BY <2>5, <3>1
  <2>7. IsFlatten(g, qs, n)
    BY <2>6 DEF IsFlatten
  <2>8. FlattenSeq(qs) = g[n]
    BY <2>2, <2>3, <2>7, FlattenIs
  <2>9. g[n] = f[n]
    BY <2>4
  <2> QED BY <2>1, <2>8, <2>9 DEF Laid
<1> QED BY <1>1, <1>2, <1>4

\* FlattenSeq puts a page after the pages before it.
LEMMA LaidProperties ==
  ASSUME NEW S, NEW ps \in Seq(Seq(S))
  PROVE  /\ Laid(ps, 0) = <<>>
         /\ \A n \in 0 .. Len(ps) : Laid(ps, n) \in Seq(S)
         /\ \A n \in 1 .. Len(ps) : Laid(ps, n) = Laid(ps, n - 1) \o ps[n]
         /\ FlattenSeq(ps) = Laid(ps, Len(ps))
<1>1. PICK l \in Nat : l = Len(ps)
  OBVIOUS
<1>2. PICK f \in [1 .. l -> Seq(S)] : IsFlatten(f, ps, l) /\ \A n \in 1 .. l : Laid(ps, n) = f[n]
  BY <1>1, LaidIs
<1>3. \A i \in 1 .. l : f[i] = IF i = 1 THEN ps[i] ELSE f[i - 1] \o ps[i]
  BY <1>2 DEF IsFlatten
<1>4. Laid(ps, 0) = <<>>
  <2>1. PICK qs : qs = SubSeq(ps, 1, 0)
    OBVIOUS
  <2>2. qs = <<>> /\ Len(qs) = 0
    BY <2>1
  <2> QED BY <2>1, <2>2 DEF Laid, FlattenSeq
<1>5. \A n \in 0 .. l : Laid(ps, n) \in Seq(S)
  <2>1. \A n \in 1 .. l : Laid(ps, n) \in Seq(S)
    BY <1>2
  <2>2. <<>> \in Seq(S)
    OBVIOUS
  <2>3. \A n \in 0 .. l : n = 0 \/ n \in 1 .. l
    OBVIOUS
  <2> QED BY <1>4, <2>1, <2>2, <2>3
<1>6. ASSUME NEW n \in 1 .. l PROVE Laid(ps, n) = Laid(ps, n - 1) \o ps[n]
  <2>1. Laid(ps, n) = f[n] /\ f[n] = IF n = 1 THEN ps[n] ELSE f[n - 1] \o ps[n]
    BY <1>2, <1>3
  <2>2. CASE n = 1
    <3>1. PICK p \in Seq(S) : p = ps[n]
      BY <1>1
    <3>2. <<>> \o p = p
      OBVIOUS
    <3>3. n - 1 = 0
      BY <2>2
    <3> QED BY <1>4, <2>1, <2>2, <3>1, <3>2, <3>3
  <2>3. CASE n # 1
    <3>1. n - 1 \in 1 .. l
      BY <2>3
    <3>2. Laid(ps, n - 1) = f[n - 1]
      BY <1>2, <3>1
    <3> QED BY <2>1, <2>3, <3>2
  <2> QED BY <2>2, <2>3
<1>7. FlattenSeq(ps) = Laid(ps, l)
  <2>1. ps = SubSeq(ps, 1, l)
    BY <1>1
  <2> QED BY <2>1 DEF Laid
<1> QED BY <1>1, <1>4, <1>5, <1>6, <1>7

LEMMA LaidSame ==
  ASSUME NEW S, NEW ps \in Seq(Seq(S)), NEW qs \in Seq(Seq(S)), NEW n \in Nat,
         n <= Len(ps), n <= Len(qs), \A i \in 1 .. n : ps[i] = qs[i]
  PROVE  Laid(ps, n) = Laid(qs, n)
<1>1. SubSeq(ps, 1, n) = SubSeq(qs, 1, n)
  OBVIOUS
<1> QED BY <1>1 DEF Laid

\* The pages after the first m add entries, and none if they are empty.
LEMMA LaidLonger ==
  ASSUME NEW S, NEW ps \in Seq(Seq(S)), NEW m \in Nat, NEW n \in Nat, m <= n, n <= Len(ps)
  PROVE  /\ Len(Laid(ps, m)) <= Len(Laid(ps, n))
         /\ (\A i \in m + 1 .. n : Len(ps[i]) = 0) => Laid(ps, n) = Laid(ps, m)
<1> DEFINE Kept(k) == /\ Len(Laid(ps, m)) <= Len(Laid(ps, k))
                      /\ (\A i \in m + 1 .. k : Len(ps[i]) = 0) => Laid(ps, k) = Laid(ps, m)
           T       == {k \in Nat : m <= k /\ k <= n => Kept(k)}
<1>1. /\ \A k \in 0 .. Len(ps) : Laid(ps, k) \in Seq(S)
      /\ \A k \in 1 .. Len(ps) : Laid(ps, k) = Laid(ps, k - 1) \o ps[k]
  BY LaidProperties
<1>2. Kept(m)
  <2>1. Len(Laid(ps, m)) \in Nat
    BY <1>1
  <2> QED BY <2>1
<1>3. 0 \in T
  <2>1. m <= 0 => m = 0
    OBVIOUS
  <2> HIDE DEF Kept
  <2> QED BY <1>2, <2>1
<1>4. ASSUME NEW k \in T PROVE k + 1 \in T
  <2>1. k \in Nat /\ (m <= k /\ k <= n => Kept(k))
    <3> HIDE DEF Kept
    <3> QED OBVIOUS
  <2>2. SUFFICES ASSUME m <= k + 1, k + 1 <= n PROVE Kept(k + 1)
    <3> HIDE DEF Kept
    <3> QED BY <2>1
  <2>3. CASE m = k + 1
    <3> HIDE DEF Kept
    <3> QED BY <1>2, <2>3
  <2>4. CASE m # k + 1
    <3>1. Kept(k) /\ k \in 0 .. Len(ps) /\ k + 1 \in 1 .. Len(ps) /\ k + 1 \in m + 1 .. k + 1
      <4> HIDE DEF Kept
      <4> QED BY <2>1, <2>2, <2>4
    <3>2. PICK s \in Seq(S), t \in Seq(S), p \in Seq(S) :
            s = Laid(ps, k) /\ t = Laid(ps, k + 1) /\ p = ps[k + 1]
      <4>1. k + 1 \in 0 .. Len(ps)
        BY <3>1
      <4> QED BY <1>1, <3>1, <4>1
    <3>3. t = s \o p
      <4>1. (k + 1) - 1 = k
        BY <2>1
      <4> QED BY <1>1, <3>1, <3>2, <4>1
    <3>4. Len(s) \in Nat /\ Len(p) \in Nat /\ Len(t) = Len(s) + Len(p)
      BY <3>3
    <3>5. Len(p) = 0 => t = s
      BY <3>3
    <3>6. Len(Laid(ps, m)) \in Nat
      BY <1>1
    <3>7. Len(Laid(ps, m)) <= Len(t)
      BY <3>1, <3>2, <3>4, <3>6
    <3>8. (\A i \in m + 1 .. k + 1 : Len(ps[i]) = 0) => Len(p) = 0 /\ \A i \in m + 1 .. k : Len(ps[i]) = 0
      <4>1. \A i \in m + 1 .. k : i \in m + 1 .. k + 1
        BY <2>1
      <4> QED BY <3>1, <3>2, <4>1
    <3> QED BY <3>1, <3>2, <3>5, <3>7, <3>8
  <2> QED BY <2>3, <2>4
<1>5. T = Nat
  <2>1. T \in SUBSET Nat
    OBVIOUS
  <2> HIDE DEF T
  <2> QED BY <1>3, <1>4, <2>1, Induction
<1>6. n \in T
  BY <1>5
<1> HIDE DEF Kept
<1>7. Kept(n)
  BY <1>6
<1> QED BY <1>7 DEF Kept


LEMMA FlattenUpTo ==
  ASSUME NEW S, NEW ps \in Seq(Seq(S)), NEW k \in 1 .. Len(ps), \A i \in k + 1 .. Len(ps) : Len(ps[i]) = 0
  PROVE  /\ FlattenSeq(ps) = Laid(ps, k - 1) \o ps[k]
         /\ Laid(ps, k - 1) \in Seq(S) /\ ps[k] \in Seq(S)
<1>1. k \in Nat /\ Len(ps) \in Nat /\ k <= Len(ps) /\ k - 1 \in 0 .. Len(ps)
  OBVIOUS
<1>2. FlattenSeq(ps) = Laid(ps, k)
  <2>1. FlattenSeq(ps) = Laid(ps, Len(ps))
    BY LaidProperties
  <2>2. Laid(ps, Len(ps)) = Laid(ps, k)
    <3>1. Len(ps) <= Len(ps)
      BY <1>1
    <3> QED BY <1>1, <3>1, LaidLonger
  <2> QED BY <2>1, <2>2
<1>3. Laid(ps, k) = Laid(ps, k - 1) \o ps[k] /\ Laid(ps, k - 1) \in Seq(S)
  BY <1>1, LaidProperties
<1>4. ps[k] \in Seq(S)
  OBVIOUS
<1> QED BY <1>2, <1>3, <1>4

--------------------------------------------------------------------------------
(* The calls under way, as PoolStack has them *)

Entries == IF placeholder THEN <<Boundary>> ELSE FlattenSeq(pages)

Calls(ps, fs) == [i \in DOMAIN fs |-> Call(ps, fs[i])]

\* tokens and until, as offsets in ps.
Tokens(ps, tokens) == [j \in DOMAIN tokens |-> Offset(ps, Stop(tokens[j]))]
Until(ps, until)   == IF until = None THEN None ELSE Offset(ps, until)

LEMMA CallIs ==
  ASSUME NEW ps, NEW tokens, NEW until
  PROVE  Call(ps, Frame(tokens, until)) = Frame(Tokens(ps, tokens), Until(ps, until))
BY DEF Call, Frame, Tokens, Until

LEMMA CallFields ==
  ASSUME NEW ps, NEW f
  PROVE  Call(ps, f).tokens = Tokens(ps, f.tokens) /\ Call(ps, f).until = Until(ps, f.until)
BY DEF Call, Tokens, Until

LEMMA AppendIs ==
  ASSUME NEW n \in Nat, NEW s, s = [j \in 1 .. n |-> s[j]], NEW x
  PROVE  Append(s, x) = [j \in 1 .. n + 1 |-> IF j = n + 1 THEN x ELSE s[j]]
<1>1. PICK S : S = {s[j] : j \in 1 .. n} \cup {x}
  OBVIOUS
<1>2. \A j \in 1 .. n : s[j] \in S
  BY <1>1
<1>3. s \in Seq(S) /\ Len(s) = n /\ x \in S
  <2>1. s \in [1 .. n -> S]
    BY <1>2
  <2> QED BY <1>1, <2>1
<1>4. PICK t : t = Append(s, x)
  OBVIOUS
<1>5. t \in Seq(S) /\ Len(t) = n + 1 /\ t[n + 1] = x /\ \A j \in 1 .. n : t[j] = s[j]
  BY <1>3, <1>4
<1>6. t = [j \in 1 .. n + 1 |-> t[j]]
  BY <1>5
<1>7. \A j \in 1 .. n + 1 : t[j] = IF j = n + 1 THEN x ELSE s[j]
  <2>1. \A j \in 1 .. n + 1 : j = n + 1 \/ j \in 1 .. n
    OBVIOUS
  <2> QED BY <1>5, <2>1
<1> QED BY <1>4, <1>6, <1>7

LEMMA TokensOf ==
  ASSUME NEW ps, NEW tokens \in Seq(Position), NEW p \in Position
  PROVE  /\ DOMAIN Tokens(ps, tokens) = DOMAIN tokens
         /\ \A j \in DOMAIN tokens : Tokens(ps, tokens)[j] = Offset(ps, Stop(tokens[j]))
         /\ Tokens(ps, Append(tokens, p)) = Append(Tokens(ps, tokens), Offset(ps, Stop(p)))
         /\ \A i \in 1 .. Len(tokens) :
              Tokens(ps, SubSeq(tokens, 1, i - 1)) = SubSeq(Tokens(ps, tokens), 1, i - 1)
         /\ Tokens(ps, <<>>) = <<>>
<1>1. PICK l \in Nat : l = Len(tokens) /\ DOMAIN tokens = 1 .. l
  OBVIOUS
<1>2. PICK t : t = Tokens(ps, tokens)
  OBVIOUS
<1>3. t = [j \in 1 .. l |-> Offset(ps, Stop(tokens[j]))]
  BY <1>1, <1>2 DEF Tokens
<1>4. DOMAIN t = 1 .. l /\ \A j \in 1 .. l : t[j] = Offset(ps, Stop(tokens[j]))
  BY <1>3
<1>5. Len(t) = l
  BY <1>3
<1>6. Tokens(ps, Append(tokens, p)) = Append(t, Offset(ps, Stop(p)))
  <2>1. PICK long : long = Append(tokens, p)
    OBVIOUS
  <2>2. /\ DOMAIN long = 1 .. l + 1 /\ long[l + 1] = p /\ \A j \in 1 .. l : long[j] = tokens[j]
    BY <1>1, <2>1
  <2>3. PICK t2 : t2 = Tokens(ps, long)
    OBVIOUS
  <2>4. t2 = [j \in 1 .. l + 1 |-> Offset(ps, Stop(long[j]))]
    BY <2>2, <2>3 DEF Tokens
  <2>5. \A j \in 1 .. l + 1 : j \in 1 .. l \/ j = l + 1
    BY <1>1
  <2>6. Append(t, Offset(ps, Stop(p))) = [j \in 1 .. l + 1 |-> IF j = l + 1 THEN Offset(ps, Stop(p)) ELSE t[j]]
    <3>1. t = [j \in 1 .. l |-> t[j]]
      BY <1>3
    <3> QED BY <3>1, AppendIs
  <2>7. \A j \in 1 .. l + 1 : Offset(ps, Stop(long[j])) = IF j = l + 1 THEN Offset(ps, Stop(p)) ELSE t[j]
    BY <1>4, <2>2, <2>5
  <2> QED BY <2>1, <2>3, <2>4, <2>6, <2>7
<1>7. ASSUME NEW i \in 1 .. l
      PROVE  Tokens(ps, SubSeq(tokens, 1, i - 1)) = SubSeq(t, 1, i - 1)
  <2>1. PICK short : short = SubSeq(tokens, 1, i - 1)
    OBVIOUS
  <2>2. DOMAIN short = 1 .. i - 1 /\ \A j \in 1 .. i - 1 : short[j] = tokens[j]
    BY <1>1, <2>1, PrefixOf
  <2>3. Tokens(ps, short) = [j \in 1 .. i - 1 |-> Offset(ps, Stop(short[j]))]
    BY <2>2 DEF Tokens
  <2>4. SubSeq(t, 1, i - 1) = [j \in 1 .. i - 1 |-> t[j]]
    BY <1>4, <1>5
  <2>5. \A j \in 1 .. i - 1 : j \in 1 .. l
    BY <1>1
  <2>6. \A j \in 1 .. i - 1 : Offset(ps, Stop(short[j])) = t[j]
    BY <1>4, <2>2, <2>5
  <2> QED BY <2>1, <2>3, <2>4, <2>6
<1>8. Tokens(ps, <<>>) = <<>>
  BY DEF Tokens
<1> QED BY <1>1, <1>2, <1>4, <1>6, <1>7, <1>8

LEMMA CallsOf ==
  ASSUME NEW ps, NEW fs \in Seq(FrameType)
  PROVE  /\ DOMAIN Calls(ps, fs) = 1 .. Len(fs) /\ Len(Calls(ps, fs)) = Len(fs)
         /\ Calls(ps, fs) \in [1 .. Len(fs) -> {Call(ps, fs[i]) : i \in 1 .. Len(fs)}]
         /\ \A i \in 1 .. Len(fs) : Calls(ps, fs)[i] = Call(ps, fs[i])
         /\ Len(fs) # 0 => Calls(ps, fs)[Len(Calls(ps, fs))] = Call(ps, fs[Len(fs)])
<1>1. PICK n \in Nat : n = Len(fs) /\ DOMAIN fs = 1 .. n
  OBVIOUS
<1>2. PICK cs : cs = Calls(ps, fs)
  OBVIOUS
<1>3. cs = [i \in 1 .. n |-> Call(ps, fs[i])]
  BY <1>1, <1>2 DEF Calls
<1>4. DOMAIN cs = 1 .. n /\ Len(cs) = n /\ \A i \in 1 .. n : cs[i] = Call(ps, fs[i])
  BY <1>3
<1>5. n # 0 => n \in 1 .. n
  OBVIOUS
<1> QED BY <1>1, <1>2, <1>3, <1>4, <1>5

\* The calls when the innermost frame is another, and the outer ones say the same.
LEMMA CallsTop ==
  ASSUME NEW ps, NEW qs, NEW fs \in Seq(FrameType), Len(fs) # 0, NEW g \in FrameType,
         \A j \in 1 .. Len(fs) : j # Len(fs) => Call(qs, fs[j]) = Call(ps, fs[j])
  PROVE  Calls(qs, Append(Front(fs), g))
           = Append(SubSeq(Calls(ps, fs), 1, Len(Calls(ps, fs)) - 1), Call(qs, g))
<1>1. PICK n \in Nat : n = Len(fs) /\ n # 0
  OBVIOUS
<1>2. PICK cs : cs = Calls(ps, fs)
  OBVIOUS
<1>3. cs = [i \in 1 .. n |-> Call(ps, fs[i])] /\ Len(cs) = n
  <2>1. cs = [i \in 1 .. n |-> Call(ps, fs[i])]
    BY <1>1, <1>2 DEF Calls
  <2> QED BY <2>1
<1>4. PICK gs : gs = Append(Front(fs), g)
  OBVIOUS
<1>5. DOMAIN gs = 1 .. n /\ gs[n] = g /\ \A j \in 1 .. n : j # n => gs[j] = fs[j]
  <2>1. Front(fs) = [j \in 1 .. n - 1 |-> fs[j]] /\ Len(Front(fs)) = n - 1
    <3>1. Front(fs) = [j \in 1 .. n - 1 |-> fs[j]]
      BY <1>1 DEF Front
    <3> QED BY <1>1, <3>1
  <2>2. gs = [j \in 1 .. n |-> IF j = n THEN g ELSE Front(fs)[j]]
    <3>1. n - 1 \in Nat /\ (n - 1) + 1 = n
      BY <1>1
    <3>2. Front(fs) = [j \in 1 .. n - 1 |-> Front(fs)[j]]
      BY <2>1
    <3> QED BY <1>4, <3>1, <3>2, AppendIs
  <2>3. \A j \in 1 .. n : j # n => j \in 1 .. n - 1
    BY <1>1
  <2>4. n \in 1 .. n
    BY <1>1
  <2> QED BY <2>1, <2>2, <2>3, <2>4
<1>6. Calls(qs, gs) = [i \in 1 .. n |-> IF i = n THEN Call(qs, g) ELSE cs[i]]
  <2>1. \A i \in 1 .. n : Call(qs, gs[i]) = IF i = n THEN Call(qs, g) ELSE cs[i]
    BY <1>1, <1>3, <1>5
  <2>2. Calls(qs, gs) = [i \in 1 .. n |-> Call(qs, gs[i])]
    BY <1>5 DEF Calls
  <2> QED BY <2>1, <2>2
<1>7. PICK rs : rs = SubSeq(cs, 1, n - 1)
  OBVIOUS
<1>8. rs = [i \in 1 .. n - 1 |-> cs[i]] /\ Len(rs) = n - 1
  <2>1. rs = [i \in 1 .. n - 1 |-> cs[i]]
    BY <1>1, <1>3, <1>7
  <2> QED BY <1>1, <2>1
<1>9. Append(rs, Call(qs, g)) = [i \in 1 .. n |-> IF i = n THEN Call(qs, g) ELSE rs[i]]
  <2>1. n - 1 \in Nat /\ (n - 1) + 1 = n
    BY <1>1
  <2>2. rs = [i \in 1 .. n - 1 |-> rs[i]]
    BY <1>8
  <2> QED BY <2>1, <2>2, AppendIs
<1>10. \A i \in 1 .. n : i # n => rs[i] = cs[i]
  <2>1. \A i \in 1 .. n : i # n => i \in 1 .. n - 1
    BY <1>1
  <2> QED BY <1>8, <2>1
<1>11. Calls(qs, gs) = Append(rs, Call(qs, g))
  BY <1>6, <1>9, <1>10
<1> QED BY <1>2, <1>3, <1>4, <1>7, <1>11

LEMMA CallsPushed ==
  ASSUME NEW ps, NEW qs, NEW fs \in Seq(FrameType), NEW g \in FrameType,
         \A j \in 1 .. Len(fs) : Call(qs, fs[j]) = Call(ps, fs[j])
  PROVE  Calls(qs, Append(fs, g)) = Append(Calls(ps, fs), Call(qs, g))
<1>1. PICK n \in Nat : n = Len(fs)
  OBVIOUS
<1>2. PICK cs : cs = Calls(ps, fs)
  OBVIOUS
<1>3. cs = [i \in 1 .. n |-> Call(ps, fs[i])] /\ Len(cs) = n
  <2>1. cs = [i \in 1 .. n |-> Call(ps, fs[i])]
    BY <1>1, <1>2 DEF Calls
  <2> QED BY <2>1
<1>4. PICK gs : gs = Append(fs, g)
  OBVIOUS
<1>5. DOMAIN gs = 1 .. n + 1 /\ gs[n + 1] = g /\ \A j \in 1 .. n : gs[j] = fs[j]
  BY <1>1, <1>4
<1>6. \A i \in 1 .. n + 1 : i # n + 1 => i \in 1 .. n
  OBVIOUS
<1>7. \A i \in 1 .. n + 1 : Call(qs, gs[i]) = IF i = n + 1 THEN Call(qs, g) ELSE cs[i]
  BY <1>1, <1>3, <1>5, <1>6
<1>8. Calls(qs, gs) = [i \in 1 .. n + 1 |-> Call(qs, gs[i])]
  BY <1>5 DEF Calls
<1>9. Append(cs, Call(qs, g)) = [i \in 1 .. n + 1 |-> IF i = n + 1 THEN Call(qs, g) ELSE cs[i]]
  <2>1. cs = [i \in 1 .. n |-> cs[i]]
    BY <1>3
  <2> QED BY <2>1, AppendIs
<1> QED BY <1>2, <1>4, <1>7, <1>8, <1>9

LEMMA CallsPopped ==
  ASSUME NEW ps, NEW fs \in Seq(FrameType), Len(fs) # 0
  PROVE  Calls(ps, Front(fs)) = SubSeq(Calls(ps, fs), 1, Len(Calls(ps, fs)) - 1)
<1>1. PICK n \in Nat : n = Len(fs) /\ n # 0
  OBVIOUS
<1>2. PICK cs : cs = Calls(ps, fs)
  OBVIOUS
<1>3. cs = [i \in 1 .. n |-> Call(ps, fs[i])] /\ Len(cs) = n
  <2>1. cs = [i \in 1 .. n |-> Call(ps, fs[i])]
    BY <1>1, <1>2 DEF Calls
  <2> QED BY <2>1
<1>4. Front(fs) = [j \in 1 .. n - 1 |-> fs[j]]
  BY <1>1 DEF Front
<1>5. Calls(ps, Front(fs)) = [i \in 1 .. n - 1 |-> Call(ps, fs[i])]
  BY <1>4 DEF Calls
<1>6. SubSeq(cs, 1, n - 1) = [i \in 1 .. n - 1 |-> cs[i]]
  BY <1>1, <1>3
<1>7. \A i \in 1 .. n - 1 : i \in 1 .. n
  BY <1>1
<1> QED BY <1>2, <1>3, <1>5, <1>6, <1>7

LEMMA CallsSame ==
  ASSUME NEW ps, NEW qs, NEW fs \in Seq(FrameType),
         \A j \in 1 .. Len(fs) : Call(qs, fs[j]) = Call(ps, fs[j])
  PROVE  Calls(qs, fs) = Calls(ps, fs)
BY DEF Calls

\* The offsets of the positions on the first k pages, where two pools agree below page k.
LEMMA CallSame ==
  ASSUME NEW ps \in Seq(Seq(Entry)), NEW qs \in Seq(Seq(Entry)), NEW k \in Nat,
         \A i \in 1 .. k - 1 : i \in 1 .. Len(ps) /\ i \in 1 .. Len(qs) /\ ps[i] = qs[i],
         NEW f \in FrameType,
         \A a \in DOMAIN f.tokens : Stop(f.tokens[a]).page \in 1 .. k,
         f.until # None => f.until.page \in 1 .. k
  PROVE  Call(qs, f) = Call(ps, f)
<1>1. ASSUME NEW p, p.page \in 1 .. k PROVE Offset(qs, p) = Offset(ps, p)
  <2>1. PICK n \in Nat : n = p.page - 1
    BY <1>1
  <2>2. \A i \in 1 .. n : i \in 1 .. k - 1
    BY <1>1, <2>1
  <2>3. n <= Len(ps) /\ n <= Len(qs)
    <3>1. n = 0 => n <= Len(ps) /\ n <= Len(qs)
      OBVIOUS
    <3>2. n # 0 => n \in 1 .. n
      OBVIOUS
    <3>3. n # 0 => n \in 1 .. Len(ps) /\ n \in 1 .. Len(qs)
      BY <2>2, <3>2
    <3> QED BY <3>1, <3>3
  <2>4. Laid(ps, n) = Laid(qs, n)
    BY <2>2, <2>3, LaidSame
  <2> QED BY <2>1, <2>4 DEF Offset, Laid
<1>2. Tokens(qs, f.tokens) = Tokens(ps, f.tokens)
  BY <1>1 DEF Tokens
<1>3. Until(qs, f.until) = Until(ps, f.until)
  BY <1>1 DEF Until
<1> QED BY <1>2, <1>3 DEF Call, Tokens, Until


LEMMA PlacesAre ==
  ASSUME IInv, NEW j \in 1 .. Len(frames)
  PROVE  /\ frames[j] \in FrameType
         /\ \A a \in DOMAIN frames[j].tokens :
              Stop(frames[j].tokens[a]) = Bottom \/ Stop(frames[j].tokens[a]).page \in 1 .. hot
         /\ frames[j].until # None => frames[j].until \in Position /\ frames[j].until.page \in 1 .. hot
<1>1. TypeInv /\ PagesInv /\ TokensInv /\ UntilInv
  BY DEF IInv
<1>2. /\ frames[j] \in FrameType /\ j \in DOMAIN frames
      /\ DOMAIN frames[j].tokens = 1 .. Len(frames[j].tokens)
      /\ frames[j].until # None => frames[j].until \in Position
      /\ \A a \in 1 .. Len(frames[j].tokens) : Stop(frames[j].tokens[a]) \in Position
  BY <1>1, FramesShape
<1>3. ASSUME NEW a \in DOMAIN frames[j].tokens
      PROVE  Stop(frames[j].tokens[a]) = Bottom \/ Stop(frames[j].tokens[a]).page \in 1 .. hot
  <2>1. CASE frames[j].tokens[a] = EMPTY_POOL_PLACEHOLDER
    BY <2>1, PositionProperties
  <2>2. CASE frames[j].tokens[a] # EMPTY_POOL_PLACEHOLDER
    <3>1. Here(Stop(frames[j].tokens[a])) /\ Stop(frames[j].tokens[a]) \in Position
      BY <1>1, <1>2, <1>3, <2>2 DEF TokensInv
    <3> QED BY <1>1, <3>1, HereProperties
  <2> QED BY <2>1, <2>2
<1>4. frames[j].until # None => frames[j].until.page \in 1 .. hot
  BY <1>1, <1>2 DEF UntilInv
<1> QED BY <1>2, <1>3, <1>4

LEMMA AddedCalls ==
  ASSUME IInv, NEW e \in Entry, Added(e)
  PROVE  /\ \A j \in 1 .. Len(frames) : Call(pages', frames[j]) = Call(pages, frames[j])
         /\ \A i \in 1 .. hot' - 1 : i \in 1 .. Len(pages) /\ i \in 1 .. Len(pages') /\ pages[i] = pages'[i]
<1>1. TypeInv /\ PagesInv
  BY DEF IInv
<1>2. pages \in Seq(Seq(Entry)) /\ Len(pages) \in Nat /\ hot \in Nat
  BY <1>1, PagesShape
<1>3. PICK k \in Nat : k = hot'
  BY DEF Added
<1>4. pages' \in Seq(Seq(Entry)) /\ k \in 1 .. Len(pages') /\ hot <= k
  BY <1>3 DEF Added
<1>5. ASSUME NEW i \in 1 .. k - 1
      PROVE  i \in 1 .. Len(pages) /\ i \in 1 .. Len(pages') /\ pages[i] = pages'[i]
  <2>1. CASE hot = 0
    <3>1. Len(pages') = 1
      BY <2>1 DEF Added
    <3> QED BY <1>3, <1>4, <3>1
  <2>2. CASE hot # 0
    <3>1. i \in 1 .. Len(pages) /\ pages'[i] = pages[i]
      BY <1>3, <2>2 DEF Added
    <3>2. i \in 1 .. Len(pages')
      <4>1. Len(pages') \in Nat /\ k <= Len(pages')
        BY <1>4
      <4> QED BY <4>1
    <3> QED BY <3>1, <3>2
  <2> QED BY <2>1, <2>2
<1>6. ASSUME NEW j \in 1 .. Len(frames) PROVE Call(pages', frames[j]) = Call(pages, frames[j])
  <2>1. PICK f : f = frames[j]
    OBVIOUS
  <2>2. /\ f \in FrameType
        /\ \A a \in DOMAIN f.tokens : Stop(f.tokens[a]) = Bottom \/ Stop(f.tokens[a]).page \in 1 .. hot
        /\ f.until # None => f.until.page \in 1 .. hot
    BY <2>1, PlacesAre
  <2>3. \A a \in DOMAIN f.tokens : Stop(f.tokens[a]).page \in 1 .. k
    BY <1>2, <1>4, <2>2 DEF Bottom
  <2>4. f.until # None => f.until.page \in 1 .. k
    BY <1>2, <1>4, <2>2
  <2>5. Call(pages', f) = Call(pages, f)
    BY <1>2, <1>4, <1>5, <2>2, <2>3, <2>4, CallSame
  <2> QED BY <2>1, <2>5
<1> QED BY <1>3, <1>5, <1>6

LEMMA NoEntries ==
  FlattenSeq(<<>>) = <<>>
BY DEF FlattenSeq

\* What is added is the hottest entry.
LEMMA AddedEntries ==
  ASSUME IInv, NEW e \in Entry, Added(e)
  PROVE  /\ Entries' = Append(Entries, e)
         /\ Hottest \in Position /\ Stop(Hottest) = Hottest
         /\ Offset(pages', Hottest) = Len(Entries)
<1>1. TypeInv /\ PagesInv
  BY DEF IInv
<1>2. pages \in Seq(Seq(Entry)) /\ Len(pages) \in Nat /\ hot \in Nat /\ hot <= Len(pages)
      /\ DOMAIN pages = 1 .. Len(pages)
  BY <1>1, PagesShape
<1>3. PICK k \in Nat : k = hot'
  BY DEF Added
<1>4. PICK qs \in Seq(Seq(Entry)) : qs = pages'
  BY DEF Added
<1>5. /\ k \in 1 .. Len(qs) /\ hot <= k /\ ~placeholder' /\ Len(qs) \in Nat
      /\ \A i \in k + 1 .. Len(qs) : Len(qs[i]) = 0
  <2>1. hot' \in 1 .. Len(pages') /\ hot <= hot' /\ placeholder' = FALSE /\ PagesInv'
    BY DEF Added
  <2>2. \A i \in hot' + 1 .. Len(pages') : Len(pages'[i]) = 0
    BY <2>1 DEF PagesInv, empty
  <2>3. Len(qs) \in Nat
    OBVIOUS
  <2>4. \A i \in k + 1 .. Len(qs) : Len(qs[i]) = 0
    BY <1>3, <1>4, <2>2
  <2> QED BY <1>3, <1>4, <2>1, <2>3, <2>4
<1>6. /\ FlattenSeq(qs) = Laid(qs, k - 1) \o qs[k]
      /\ Laid(qs, k - 1) \in Seq(Entry) /\ qs[k] \in Seq(Entry)
  BY <1>5, FlattenUpTo
<1>7. Entries' = Laid(qs, k - 1) \o qs[k]
  BY <1>4, <1>5, <1>6 DEF Entries
<1>8. Laid(qs, k - 1) = Laid(pages, k - 1) /\ k - 1 \in Nat
  <2>1. \A i \in 1 .. k - 1 : i \in 1 .. Len(pages) /\ i \in 1 .. Len(qs) /\ pages[i] = qs[i]
    BY <1>3, <1>4, AddedCalls
  <2>2. PICK n \in Nat : n = k - 1
    BY <1>5
  <2>3. n <= Len(pages) /\ n <= Len(qs)
    <3>1. n = 0 => n <= Len(pages) /\ n <= Len(qs)
      BY <1>2, <1>5
    <3>2. n # 0 => n \in 1 .. n
      OBVIOUS
    <3> QED BY <2>1, <2>2, <3>1, <3>2
  <2>4. Laid(pages, n) = Laid(qs, n)
    BY <1>2, <2>1, <2>2, <2>3, LaidSame
  <2> QED BY <2>2, <2>4
<1>9. PICK s \in Seq(Entry), q \in Seq(Entry) : s = Laid(qs, k - 1) /\ q = qs[k]
  BY <1>6
<1>10. \E x \in Seq(Entry) : q = Append(x, e) /\ Entries = s \o x
  <2>1. CASE hot = 0
    <3>1. pages = <<>> /\ k = 1
      <4>1. Len(pages') = 1
        BY <2>1 DEF Added
      <4> QED BY <1>1, <1>4, <1>5, <2>1, <4>1 DEF PagesInv
    <3>2. s = <<>>
      <4>1. Laid(qs, 0) = <<>>
        BY LaidProperties
      <4>2. k - 1 = 0
        BY <3>1
      <4> QED BY <1>9, <4>1, <4>2
    <3>3. pages' = <<IF placeholder THEN <<Boundary, e>> ELSE <<e>>>>
      BY <2>1 DEF Added
    <3>4. CASE placeholder
      <4>1. q = <<Boundary, e>> /\ Entries = <<Boundary>>
        BY <1>4, <1>9, <3>1, <3>3, <3>4 DEF Entries
      <4>2. <<Boundary>> \in Seq(Entry) /\ Append(<<Boundary>>, e) = <<Boundary, e>>
        <5>1. Boundary \in Entry
          BY DEF Entry
        <5>2. <<Boundary>> \in Seq(Entry)
          BY <5>1
        <5>3. PICK x : x = <<Boundary>>
          OBVIOUS
        <5>4. x = [j \in 1 .. 1 |-> x[j]] /\ x[1] = Boundary
          BY <5>3
        <5>5. Append(x, e) = [j \in 1 .. 2 |-> IF j = 2 THEN e ELSE x[j]]
          BY <5>4, AppendIs
        <5>6. Append(x, e) = <<Boundary, e>>
          <6>1. PICK u : u = <<Boundary, e>>
            OBVIOUS
          <6>2. u = [j \in 1 .. 2 |-> u[j]] /\ u[1] = Boundary /\ u[2] = e
            BY <6>1
          <6>3. \A j \in 1 .. 2 : j = 1 \/ j = 2
            OBVIOUS
          <6>4. \A j \in 1 .. 2 : u[j] = IF j = 2 THEN e ELSE x[j]
            BY <5>4, <6>2, <6>3
          <6> QED BY <5>5, <6>1, <6>2, <6>4
        <5> QED BY <5>2, <5>3, <5>6
      <4>3. <<>> \o <<Boundary>> = <<Boundary>>
        BY <4>2
      <4> QED BY <3>2, <4>1, <4>2, <4>3, Zenon
    <3>5. CASE ~placeholder
      <4>1. q = <<e>> /\ Entries = <<>>
        BY <1>4, <1>9, <3>1, <3>3, <3>5, NoEntries DEF Entries
      <4>2. <<>> \in Seq(Entry) /\ Append(<<>>, e) = <<e>> /\ <<>> \o <<>> = <<>>
        OBVIOUS
      <4> QED BY <3>2, <4>1, <4>2, Zenon
    <3> QED BY <3>4, <3>5
  <2>2. CASE hot # 0
    <3>1. ~placeholder /\ Entries = FlattenSeq(pages)
      BY <1>1, <2>2 DEF PagesInv, Entries
    <3>2. q = IF k > Len(pages) THEN <<e>> ELSE Append(pages[k], e)
      BY <1>3, <1>4, <1>9, <2>2 DEF Added
    <3>3. CASE k > Len(pages)
      <4>1. k - 1 = Len(pages)
        <5>1. k - 1 # 0 => k - 1 \in 1 .. k - 1
          BY <1>8
        <5>2. k - 1 # 0 => k - 1 \in 1 .. Len(pages)
          BY <1>3, <5>1, AddedCalls
        <5> QED BY <1>2, <1>5, <3>3, <5>2
      <4>2. FlattenSeq(pages) = s
        BY <1>2, <1>8, <1>9, <4>1, LaidProperties
      <4>3. <<>> \in Seq(Entry) /\ Append(<<>>, e) = <<e>> /\ s \o <<>> = s
        OBVIOUS
      <4> QED BY <3>1, <3>2, <3>3, <4>2, <4>3, Zenon
    <3>4. CASE ~(k > Len(pages))
      <4>1. k \in 1 .. Len(pages)
        BY <1>2, <1>5, <3>4
      <4>2. \A i \in k + 1 .. Len(pages) : Len(pages[i]) = 0
        <5>1. \A i \in k + 1 .. Len(pages) : i \in hot + 1 .. Len(pages)
          BY <1>2, <1>5
        <5> QED BY <1>1, <5>1 DEF PagesInv, empty
      <4>3. FlattenSeq(pages) = Laid(pages, k - 1) \o pages[k] /\ pages[k] \in Seq(Entry)
        BY <1>2, <4>1, <4>2, FlattenUpTo
      <4>4. FlattenSeq(pages) = s \o pages[k]
        BY <1>8, <1>9, <4>3
      <4> QED BY <3>1, <3>2, <3>4, <4>3, <4>4
    <3> QED BY <3>3, <3>4
  <2> QED BY <2>1, <2>2
<1>11. PICK x \in Seq(Entry) : q = Append(x, e) /\ Entries = s \o x
  BY <1>10
<1>12. PICK t : t = Entries
  OBVIOUS
<1>13. s \o Append(x, e) = Append(s \o x, e)
  OBVIOUS
<1>14. Entries' = Append(t, e)
  BY <1>7, <1>9, <1>11, <1>12, <1>13
<1>15. Len(q) = Len(x) + 1 /\ Len(t) = Len(s) + Len(x) /\ Len(s) \in Nat /\ Len(x) \in Nat
  BY <1>11, <1>12
<1>16. Hottest = [page |-> k, slot |-> Len(x)]
  BY <1>3, <1>4, <1>9, <1>15 DEF Hottest
<1>17. Hottest \in Position /\ Hottest # EMPTY_POOL_PLACEHOLDER
  BY <1>5, <1>15, <1>16 DEF Position, EMPTY_POOL_PLACEHOLDER
<1>18. Offset(pages', Hottest) = Len(t)
  BY <1>4, <1>9, <1>15, <1>16 DEF Offset, Laid
<1> QED BY <1>12, <1>14, <1>17, <1>18, PositionProperties

--------------------------------------------------------------------------------
(* Every step of the pool is a step of the stack *)

\* The innermost call of PoolStack is the innermost frame, in offsets.
LEMMA StackTop ==
  ASSUME IInv
  PROVE  /\ Stack!top = Call(pages, top)
         /\ Stack!top.tokens = Tokens(pages, top.tokens) /\ Stack!top.until = Until(pages, top.until)
         /\ Stack!rest = SubSeq(Calls(pages, frames), 1, Len(Calls(pages, frames)) - 1)
         /\ Stack!Running <=> top.until = None
         /\ top.until # None => Stack!top.until = Offset(pages, top.until) /\ Offset(pages, top.until) \in Nat
<1>1. TypeInv
  BY DEF IInv
<1>2. PICK n \in Nat : n = Len(frames) /\ n # 0 /\ DOMAIN frames = 1 .. n /\ frames \in Seq(FrameType)
                       /\ top = frames[n] /\ n \in 1 .. n
  BY <1>1, TopFrame
<1>3. Calls(pages, frames)[Len(Calls(pages, frames))] = Call(pages, top)
  BY <1>2, CallsOf
<1>4. Stack!top = Call(pages, top)
  BY <1>3 DEF Stack!top, Calls
<1>5. Stack!rest = SubSeq(Calls(pages, frames), 1, Len(Calls(pages, frames)) - 1)
  BY DEF Stack!rest, Calls
<1>6. Stack!top.tokens = Tokens(pages, top.tokens) /\ Stack!top.until = Until(pages, top.until)
  BY <1>4, CallFields
<1>7. top.until # None => Offset(pages, top.until) \in Nat
  <2>1. SUFFICES ASSUME top.until # None PROVE Offset(pages, top.until) \in Nat
    OBVIOUS
  <2>2. top.until \in Position /\ top.until.page \in 1 .. hot
    BY <1>2, <2>1, PlacesAre
  <2>3. pages \in Seq(Seq(Entry)) /\ Len(pages) \in Nat /\ hot \in Nat /\ hot <= Len(pages)
    BY <1>1, PagesShape
  <2>4. top.until.page - 1 \in 0 .. Len(pages) /\ top.until.slot \in Nat
    BY <2>2, <2>3, PositionProperties
  <2>5. Laid(pages, top.until.page - 1) \in Seq(Entry)
    BY <2>3, <2>4, LaidProperties
  <2>6. Len(Laid(pages, top.until.page - 1)) \in Nat
    BY <2>5
  <2> QED BY <2>4, <2>6 DEF Offset, Laid
<1>8. None \notin Nat
  BY EntryAssumption
<1>9. Stack!Running <=> top.until = None
  BY <1>6, <1>7, <1>8 DEF Stack!Running, Until
<1> QED BY <1>4, <1>5, <1>6, <1>7, <1>9 DEF Until

LEMMA AutoreleaseImplements ==
  ASSUME IInv, autorelease PROVE Stack!Autorelease \/ UNCHANGED Stack!vars
<1>1. TypeInv /\ PagesInv
  BY DEF IInv
<1>2. Running /\ autoreleaseFast(Object) /\ UNCHANGED <<debug, frames, exiting>>
  BY DEF autorelease
<1>3. Object \in Entry
  BY DEF Entry
<1>4. CASE Untouched(Object)
  <2>1. UNCHANGED <<pages, placeholder, frames>>
    BY <1>2, <1>4, EntryAssumption DEF Untouched
  <2> QED BY <2>1 DEF Stack!vars
<1>5. CASE Added(Object)
  <2>1. Entries' = Append(Entries, Object)
    BY <1>3, <1>5, AddedEntries
  <2>2. Calls(pages', frames) = Calls(pages, frames)
    <3>1. frames \in Seq(FrameType)
      BY <1>1 DEF TypeInv
    <3>2. \A j \in 1 .. Len(frames) : Call(pages', frames[j]) = Call(pages, frames[j])
      BY <1>3, <1>5, AddedCalls
    <3> QED BY <3>1, <3>2, CallsSame
  <2>3. Stack!Running
    BY <1>2, StackTop DEF Running
  <2> QED BY <1>2, <2>1, <2>2, <2>3 DEF Stack!Autorelease, Entries, Calls
<1> QED BY <1>1, <1>2, <1>3, <1>4, <1>5, FastEffect

LEMMA PushImplements ==
  ASSUME IInv, push PROVE Stack!Push
<1>1. TypeInv /\ PagesInv
  BY DEF IInv
<1>2. Running /\ autoreleaseFast(Boundary) /\ UNCHANGED <<debug, exiting>>
  BY DEF push
<1>3. Boundary \in Entry
  BY DEF Entry
<1>4. PICK n \in Nat : n = Len(frames) /\ n # 0 /\ DOMAIN frames = 1 .. n /\ frames \in Seq(FrameType)
                       /\ top = frames[n] /\ n \in 1 .. n
  BY <1>1, TopFrame
<1>5. PICK tokens \in Seq(Position) : tokens = top.tokens
  BY <1>1, <1>4, FramesShape
<1>6. Stack!Running
  BY <1>2, StackTop DEF Running
<1>7. ASSUME NEW token \in Position, frames' = Append(Front(frames), Frame(Append(tokens, token), None)),
             \A j \in 1 .. n : Call(pages', frames[j]) = Call(pages, frames[j]),
             Offset(pages', Stop(token)) = Len(Entries), Entries' = Append(Entries, Boundary)
      PROVE  Stack!Push
  <2>1. PICK qs : qs = pages'
    OBVIOUS
  <2>2. PICK l : l = Len(Entries)
    OBVIOUS
  <2>3. PICK f : f = Frame(Append(tokens, token), None)
    OBVIOUS
  <2>4. Append(tokens, token) \in Seq(Position) /\ None \in Position \cup {None}
    BY <1>7
  <2>5. f \in FrameType
    BY <2>3, <2>4, FrameProperties
  <2>6. Call(qs, f) = Frame(Append(Tokens(qs, tokens), l), None)
    <3>1. Tokens(qs, Append(tokens, token)) = Append(Tokens(qs, tokens), Offset(qs, Stop(token)))
      BY <1>7, TokensOf
    <3>2. Offset(qs, Stop(token)) = l
      BY <1>7, <2>1, <2>2
    <3>3. Call(qs, f) = Frame(Tokens(qs, Append(tokens, token)), Until(qs, None)) /\ Until(qs, None) = None
      BY <2>3, CallIs DEF Until
    <3> QED BY <3>1, <3>2, <3>3
  <2>7. Tokens(qs, tokens) = Tokens(pages, tokens)
    BY <1>4, <1>5, <1>7, <2>1, CallFields
  <2>8. Calls(qs, frames') = Append(SubSeq(Calls(pages, frames), 1, Len(Calls(pages, frames)) - 1), Call(qs, f))
    BY <1>4, <1>7, <2>1, <2>3, <2>5, CallsTop
  <2>9. Calls(pages', frames') = Append(Stack!rest, Stack!Frame(Append(Stack!top.tokens, Len(Entries)), None))
    BY <1>5, <2>1, <2>2, <2>6, <2>7, <2>8, StackTop DEF Frame, Stack!Frame
  <2> QED BY <1>6, <1>7, <2>9 DEF Stack!Push, Entries, Calls
<1>8. CASE Untouched(Boundary)
  <2>1. placeholder' /\ ~placeholder /\ pages' = pages /\ hot = 0
    BY <1>8 DEF Untouched
  <2>2. frames' = Append(Front(frames), Frame(Append(tokens, EMPTY_POOL_PLACEHOLDER), None))
    BY <1>5, <2>1 DEF push
  <2>3. pages = <<>>
    BY <1>1, <2>1 DEF PagesInv
  <2>4. Entries = <<>> /\ Entries' = <<Boundary>>
    BY <2>1, <2>3, NoEntries DEF Entries
  <2>5. Offset(pages', Bottom) = 0
    <3>1. Laid(pages, 0) = <<>>
      BY <1>1, PagesShape, LaidProperties
    <3> QED BY <2>1, <3>1 DEF Offset, Bottom, Laid
  <2>6. Offset(pages', Stop(EMPTY_POOL_PLACEHOLDER)) = Len(Entries) /\ Entries' = Append(Entries, Boundary)
    BY <2>4, <2>5, PositionProperties
  <2>7. EMPTY_POOL_PLACEHOLDER \in Position
    BY PositionProperties
  <2> QED BY <1>7, <2>1, <2>2, <2>6, <2>7
<1>9. CASE Added(Boundary)
  <2>1. ~placeholder'
    BY <1>9 DEF Added
  <2>2. frames' = Append(Front(frames), Frame(Append(tokens, Hottest), None))
    BY <1>5, <2>1 DEF push, Hottest
  <2>3. PICK token \in Position : token = Hottest /\ Stop(token) = token /\ Offset(pages', token) = Len(Entries)
                                  /\ Entries' = Append(Entries, Boundary)
    BY <1>3, <1>9, AddedEntries
  <2>4. \A j \in 1 .. n : Call(pages', frames[j]) = Call(pages, frames[j])
    BY <1>3, <1>4, <1>9, AddedCalls
  <2> QED BY <1>7, <2>2, <2>3, <2>4
<1> QED BY <1>1, <1>2, <1>3, <1>8, <1>9, FastEffect

LEMMA BottomOffset ==
  ASSUME NEW S, NEW ps \in Seq(Seq(S)) PROVE Offset(ps, Bottom) = 0
<1>1. Laid(ps, 0) = <<>>
  BY LaidProperties
<1> QED BY <1>1 DEF Offset, Bottom, Laid

\* The innermost frame without the tokens from the i-th, and with another pop under way.
LEMMA ShortCalls ==
  ASSUME IInv, NEW i \in DOMAIN top.tokens, NEW until \in Position \cup {None}, pages' = pages,
         frames' = Append(Front(frames), Frame(SubSeq(top.tokens, 1, i - 1), until))
  PROVE  /\ i \in DOMAIN Stack!top.tokens /\ Stack!top.tokens[i] = Offset(pages, Stop(top.tokens[i]))
         /\ Calls(pages', frames')
              = Append(Stack!rest, Stack!Frame(SubSeq(Stack!top.tokens, 1, i - 1), Until(pages, until)))
<1>1. TypeInv
  BY DEF IInv
<1>2. PICK n \in Nat : n = Len(frames) /\ n # 0 /\ DOMAIN frames = 1 .. n /\ frames \in Seq(FrameType)
                       /\ top = frames[n] /\ n \in 1 .. n
  BY <1>1, TopFrame
<1>3. PICK tokens \in Seq(Position) : tokens = top.tokens
  BY <1>1, <1>2, FramesShape
<1>4. i \in 1 .. Len(tokens) /\ i \in DOMAIN tokens /\ tokens[i] \in Position
  BY <1>3
<1>5. PICK short \in Seq(Position) : short = SubSeq(tokens, 1, i - 1)
  BY <1>3, <1>4, PrefixOf
<1>6. PICK t : t = Tokens(pages, tokens)
  OBVIOUS
<1>7. Stack!top.tokens = t
  BY <1>3, <1>6, StackTop
<1>8. t[i] = Offset(pages, Stop(tokens[i])) /\ i \in DOMAIN t /\ Tokens(pages, short) = SubSeq(t, 1, i - 1)
  BY <1>3, <1>4, <1>5, <1>6, TokensOf
<1>9. PICK f \in FrameType : f = Frame(short, until)
  BY FrameProperties
<1>10. Call(pages, f) = Frame(SubSeq(t, 1, i - 1), Until(pages, until))
  BY <1>8, <1>9, CallIs
<1>11. Calls(pages, frames') = Append(SubSeq(Calls(pages, frames), 1, Len(Calls(pages, frames)) - 1), Call(pages, f))
  <2>1. frames' = Append(Front(frames), f)
    BY <1>3, <1>5, <1>9
  <2>2. Len(frames) # 0 /\ frames \in Seq(FrameType)
    BY <1>2
  <2> QED BY <1>9, <2>1, <2>2, CallsTop
<1>12. Calls(pages', frames') = Append(Stack!rest, Stack!Frame(SubSeq(t, 1, i - 1), Until(pages, until)))
  BY <1>10, <1>11, StackTop DEF Frame, Stack!Frame
<1> QED BY <1>3, <1>7, <1>8, <1>12

\* The pool that the placeholder stands for has nothing in it, and goes at once.
LEMMA PlaceholderPop ==
  ASSUME IInv, top.until = None, placeholder, NEW i \in DOMAIN top.tokens, pages' = pages, ~placeholder',
         frames' = Append(Front(frames), Frame(SubSeq(top.tokens, 1, i - 1), None))
  PROVE  Stack!Pop(i)
<1>1. TypeInv /\ PagesInv
  BY DEF IInv
<1>2. hot = 0 /\ pages = <<>>
  BY <1>1 DEF PagesInv
<1>3. top.tokens[i] = EMPTY_POOL_PLACEHOLDER
  BY <1>2, NoPage
<1>4. PICK m : m = Offset(pages, Stop(top.tokens[i]))
  OBVIOUS
<1>5. m = 0
  BY <1>1, <1>3, <1>4, PositionProperties, PagesShape, BottomOffset
<1>6. Entries = <<Boundary>> /\ Entries' = <<>>
  BY <1>2, NoEntries DEF Entries
<1>7. SubSeq(Entries, m + 1, Len(Entries)) = <<Boundary>> /\ Entries' = SubSeq(Entries, 1, m)
  <2>1. Len(<<Boundary>>) = 1 /\ SubSeq(<<Boundary>>, 1, 0) = <<>>
    OBVIOUS
  <2>2. SubSeq(<<Boundary>>, 1, 1) = <<Boundary>>
    <3>1. <<Boundary>> \in Seq({Boundary}) /\ Len(<<Boundary>>) = 1
      OBVIOUS
    <3>2. \A s \in Seq({Boundary}) : SubSeq(s, 1, Len(s)) = s
      OBVIOUS
    <3> QED BY <3>1, <3>2
  <2>3. 0 + 1 = 1
    OBVIOUS
  <2> QED BY <1>5, <1>6, <2>1, <2>2, <2>3, Zenon
<1>8. /\ i \in DOMAIN Stack!top.tokens /\ Stack!top.tokens[i] = m
      /\ Calls(pages', frames') = Append(Stack!rest, Stack!Frame(SubSeq(Stack!top.tokens, 1, i - 1), None))
  BY <1>4, ShortCalls DEF Until
<1>9. Stack!Running
  BY StackTop
<1> QED BY <1>7, <1>8, <1>9 DEF Stack!Pop, Stack!Hotter, Entries, Calls

LEMMA PopImplements ==
  ASSUME IInv, NEW i \in DOMAIN top.tokens, pop(i) PROVE Stack!Pop(i)
<1>1. TypeInv /\ PagesInv
  BY DEF IInv
<1>2. Stack!Running /\ top.until = None
  BY StackTop DEF pop, Running
<1>3. PICK token : token = top.tokens[i]
  OBVIOUS
<1>4. CASE token = EMPTY_POOL_PLACEHOLDER /\ hot = 0
  <2>1. pages' = pages /\ ~placeholder' /\ frames' = Append(Front(frames), Frame(SubSeq(top.tokens, 1, i - 1), None))
    BY <1>3, <1>4 DEF pop
  <2>2. placeholder
    BY <1>4, NoPage
  <2> QED BY <1>2, <2>1, <2>2, PlaceholderPop
<1>5. CASE ~(token = EMPTY_POOL_PLACEHOLDER /\ hot = 0)
  <2>1. /\ UNCHANGED <<pages, placeholder>>
        /\ frames' = Append(Front(frames), Frame(SubSeq(top.tokens, 1, i - 1), Stop(token)))
    BY <1>3, <1>5 DEF pop
  <2>2. token \in Position
    <3>1. PICK n \in Nat : n = Len(frames) /\ n # 0 /\ top = frames[n] /\ n \in 1 .. n
      BY <1>1, TopFrame
    <3> QED BY <1>1, <1>3, <3>1, FramesShape
  <2>3. Stop(token) \in Position /\ Stop(token) # None
    BY <2>2, PositionProperties
  <2>4. /\ i \in DOMAIN Stack!top.tokens /\ Stack!top.tokens[i] = Offset(pages, Stop(token))
        /\ Calls(pages', frames') = Append(Stack!rest, Stack!Frame(SubSeq(Stack!top.tokens, 1, i - 1),
                                                                   Offset(pages, Stop(token))))
    BY <1>3, <2>1, <2>3, ShortCalls DEF Until
  <2> QED BY <1>2, <2>1, <2>4 DEF Stack!Pop, Calls
<1> QED BY <1>4, <1>5

LEMMA ReturnImplements ==
  ASSUME IInv, return PROVE Stack!Return
<1>1. TypeInv
  BY DEF IInv
<1>2. Running /\ Len(frames) > 1 /\ frames' = Front(frames) /\ UNCHANGED <<pages, placeholder>>
  BY DEF return
<1>3. frames \in Seq(FrameType) /\ Len(frames) # 0
  BY <1>1, FramesShape
<1>4. Len(Calls(pages, frames)) > 1
  BY <1>2, <1>3, CallsOf
<1>5. Calls(pages', frames') = Stack!rest
  BY <1>2, <1>3, CallsPopped, StackTop
<1>6. Stack!Running
  BY <1>2, StackTop DEF Running
<1> QED BY <1>2, <1>4, <1>5, <1>6 DEF Stack!Return, Calls

LEMMA ExitImplements ==
  ASSUME IInv, tls_deallocPop PROVE Stack!Exit
<1>1. TypeInv
  BY DEF IInv
<1>2. /\ Running /\ Len(frames) = 1 /\ frames' = <<Frame(<<>>, Bottom)>> /\ UNCHANGED <<pages, placeholder>>
  BY DEF tls_deallocPop, Bottom
<1>3. frames \in Seq(FrameType) /\ pages \in Seq(Seq(Entry))
  BY <1>1, FramesShape, PagesShape
<1>4. Len(Calls(pages, frames)) = 1
  BY <1>2, <1>3, CallsOf
<1>5. PICK f : f = Frame(<<>>, Bottom)
  OBVIOUS
<1>6. Call(pages, f) = Stack!Frame(<<>>, 0)
  <2>1. Tokens(pages, <<>>) = <<>>
    BY DEF Tokens
  <2>2. Until(pages, Bottom) = 0
    BY <1>3, BottomOffset, PositionProperties DEF Until
  <2> QED BY <1>5, <2>1, <2>2, CallIs DEF Frame, Stack!Frame
<1>7. Calls(pages', frames') = <<Stack!Frame(<<>>, 0)>>
  BY <1>2, <1>5, <1>6 DEF Calls
<1>8. Stack!Running
  BY <1>2, StackTop DEF Running
<1> QED BY <1>2, <1>4, <1>7, <1>8 DEF Stack!Exit, Calls

LEMMA RemovedCalls ==
  ASSUME IInv, top.until # None, Removed
  PROVE  \A j \in 1 .. Len(frames) : Call(pages', frames[j]) = Call(pages, frames[j])
<1>1. TypeInv
  BY DEF IInv
<1>2. PICK n \in Nat : n = Len(frames) /\ n # 0 /\ DOMAIN frames = 1 .. n /\ frames \in Seq(FrameType)
                       /\ top = frames[n] /\ n \in 1 .. n
  BY <1>1, TopFrame
<1>3. pages \in Seq(Seq(Entry)) /\ Len(pages) \in Nat /\ hot \in Nat /\ hot <= Len(pages)
  BY <1>1, PagesShape
<1>4. PICK k \in Nat : k = hot'
  BY DEF Removed
<1>5. /\ pages' \in Seq(Seq(Entry)) /\ Len(pages') = Len(pages) /\ k \in 1 .. hot
      /\ \A i \in 1 .. Len(pages) : i # k => pages'[i] = pages[i]
      /\ top.until.page <= k
  BY <1>4 DEF Removed
<1>6. \A i \in 1 .. k - 1 : i \in 1 .. Len(pages) /\ i \in 1 .. Len(pages') /\ pages[i] = pages'[i]
  <2>1. \A i \in 1 .. k - 1 : i \in 1 .. Len(pages) /\ i # k
    BY <1>3, <1>5
  <2> QED BY <1>5, <2>1
<1>7. top.until \in Position /\ top.until.page \in Nat
  BY AllBelow, PositionProperties
<1>8. ASSUME NEW p \in Position, Before(p, top.until) PROVE p.page <= k
  BY <1>5, <1>7, <1>8, PositionProperties DEF Before
<1>9. ASSUME NEW j \in 1 .. n PROVE Call(pages', frames[j]) = Call(pages, frames[j])
  <2>1. PICK f : f = frames[j]
    OBVIOUS
  <2>2. /\ f \in FrameType
        /\ \A a \in DOMAIN f.tokens : Stop(f.tokens[a]) = Bottom \/ Stop(f.tokens[a]).page \in 1 .. hot
        /\ f.until # None => f.until \in Position /\ f.until.page \in 1 .. hot
    BY <1>2, <2>1, PlacesAre
  <2>3. ASSUME NEW a \in DOMAIN f.tokens PROVE Stop(f.tokens[a]).page \in 1 .. k
    <3>1. Stop(f.tokens[a]) \in Position /\ Before(Stop(f.tokens[a]), top.until)
      <4>1. Stop(f.tokens[a]) \in Position
        BY <1>1, <1>2, <2>1, FramesShape
      <4> QED BY <1>2, <2>1, <4>1, AllBelow
    <3>2. Stop(f.tokens[a]).page <= k
      BY <1>8, <3>1
    <3> QED BY <1>3, <1>5, <2>2, <3>2 DEF Bottom
  <2>4. ASSUME f.until # None PROVE f.until.page \in 1 .. k
    <3>1. CASE j = n
      BY <1>2, <1>3, <1>5, <2>1, <2>2, <2>4, <3>1
    <3>2. CASE j # n /\ Loose(j)
      <4>1. f.until = Bottom
        BY <1>2, <2>1, <2>4, <3>2, LooseProperties
      <4> QED BY <1>5, <4>1 DEF Bottom
    <3>3. CASE j # n /\ ~Loose(j)
      <4>1. Before(f.until, top.until)
        BY <1>2, <2>1, <3>3, AllBelow
      <4>2. f.until.page <= k
        BY <1>8, <2>2, <2>4, <4>1
      <4> QED BY <1>3, <1>5, <2>2, <2>4, <4>2
    <3> QED BY <3>1, <3>2, <3>3
  <2>5. Call(pages', f) = Call(pages, f)
    BY <1>3, <1>5, <1>6, <2>2, <2>3, <2>4, CallSame
  <2> QED BY <2>1, <2>5
<1> QED BY <1>2, <1>9

\* q is p without its last element, and so is what it ends.
FrontConcat(S, s, p, q) ==
  \E t, r \in Seq(S) :
    /\ t = s \o p /\ Len(t) = Len(s) + Len(p) /\ t[Len(t)] = p[Len(p)]
    /\ r = s \o q /\ r = SubSeq(t, 1, Len(t) - 1)

LEMMA ConcatFront ==
  ASSUME NEW S, NEW s \in Seq(S), NEW p \in Seq(S), NEW q \in Seq(S),
         Len(p) # 0, Len(q) = Len(p) - 1, \A a \in 1 .. Len(q) : q[a] = p[a]
  PROVE  FrontConcat(S, s, p, q)
<1>1. PICK m \in Nat, n \in Nat : m = Len(s) /\ n = Len(q)
  OBVIOUS
<1>2. Len(p) = n + 1
  BY <1>1
<1>3. PICK t : t = s \o p
  OBVIOUS
<1>4. t \in Seq(S) /\ Len(t) = m + n + 1
  BY <1>1, <1>2, <1>3
<1>5. t[m + n + 1] = p[n + 1]
  BY <1>1, <1>2, <1>3
<1>6. PICK r : r = s \o q
  OBVIOUS
<1>7. r \in Seq(S) /\ Len(r) = m + n
  <2>1. \A x, y \in Seq(S) : x \o y \in Seq(S) /\ Len(x \o y) = Len(x) + Len(y)
    OBVIOUS
  <2>2. r \in Seq(S) /\ Len(r) = Len(s) + Len(q)
    BY <1>6, <2>1, Zenon
  <2> QED BY <1>1, <2>2
<1>8. ASSUME NEW a \in 1 .. m + n PROVE r[a] = t[a]
  <2>1. CASE a <= m
    BY <1>1, <1>2, <1>3, <1>6, <2>1
  <2>2. CASE a > m
    <3>1. PICK b : b = a - m
      OBVIOUS
    <3>2. b \in 1 .. n
      BY <2>2, <3>1
    <3>3. r[a] = q[b]
      BY <1>1, <1>6, <2>2, <3>1
    <3>4. t[a] = p[b]
      BY <1>1, <1>2, <1>3, <2>2, <3>1
    <3> QED BY <1>1, <3>2, <3>3, <3>4
  <2> QED BY <2>1, <2>2
<1>9. PICK f : f = SubSeq(t, 1, m + n)
  OBVIOUS
<1>10. f \in Seq(S) /\ Len(f) = m + n /\ \A a \in 1 .. m + n : f[a] = t[a]
  <2>1. m + n \in Nat /\ m + n <= Len(t)
    BY <1>4
  <2> QED BY <1>4, <1>9, <2>1, FirstOf
<1>11. r = f
  <2>1. r = [a \in 1 .. m + n |-> r[a]] /\ f = [a \in 1 .. m + n |-> f[a]]
    BY <1>7, <1>10
  <2> QED BY <1>8, <1>10, <2>1
<1>12. (m + n + 1) - 1 = m + n
  OBVIOUS
<1>13. Len(t) = Len(s) + Len(p) /\ t[Len(t)] = p[Len(p)] /\ r = SubSeq(t, 1, Len(t) - 1)
  BY <1>1, <1>2, <1>4, <1>5, <1>9, <1>11, <1>12
<1> QED BY <1>3, <1>4, <1>6, <1>7, <1>13 DEF FrontConcat

LEMMA RemovedEntries ==
  ASSUME IInv, top.until # None, Removed, Len(pages[top.until.page]) # top.until.slot
  PROVE  /\ Entries \in Seq(Entry) /\ Offset(pages, top.until) < Len(Entries)
         /\ Entries' = SubSeq(Entries, 1, Len(Entries) - 1)
         /\ Entries[Len(Entries)] = pages[hot'][Len(pages[hot'])]
<1>1. TypeInv /\ PagesInv
  BY DEF IInv
<1>2. pages \in Seq(Seq(Entry)) /\ Len(pages) \in Nat /\ hot \in Nat /\ hot <= Len(pages)
  BY <1>1, PagesShape
<1>3. PICK k \in Nat : k = hot'
  BY DEF Removed
<1>4. PICK qs \in Seq(Seq(Entry)) : qs = pages'
  BY DEF Removed
<1>5. PICK u \in Position : u = top.until /\ u.page \in 1 .. hot /\ ~placeholder
  BY AllBelow
<1>6. u.page \in Nat /\ u.slot \in Nat
  BY PositionProperties
<1>7. /\ Len(qs) = Len(pages) /\ k \in 1 .. hot /\ k \in 1 .. Len(pages)
      /\ Len(pages[k]) # 0 /\ Len(qs[k]) = Len(pages[k]) - 1
      /\ \A s \in 1 .. Len(pages[k]) - 1 : qs[k][s] = pages[k][s]
      /\ \A i \in 1 .. Len(pages) : i # k => qs[i] = pages[i]
      /\ u.page <= k /\ u.slot <= Len(qs[u.page])
  <2>1. hot' \in 1 .. hot
    BY DEF Removed
  <2>2. k \in 1 .. Len(pages)
    BY <1>2, <1>3, <2>1
  <2> QED BY <1>3, <1>4, <1>5, <2>1, <2>2 DEF Removed
<1>8. \A i \in k + 1 .. Len(qs) : Len(qs[i]) = 0 /\ Len(pages[i]) = 0
  <2>1. PagesInv'
    BY DEF Removed
  <2>2. \A i \in hot' + 1 .. Len(pages') : Len(pages'[i]) = 0
    BY <2>1 DEF PagesInv, empty
  <2>3. \A i \in k + 1 .. Len(qs) : Len(qs[i]) = 0
    BY <1>3, <1>4, <2>2
  <2>4. \A i \in k + 1 .. Len(qs) : i \in 1 .. Len(pages) /\ i # k
    BY <1>7
  <2> QED BY <1>7, <2>3, <2>4
<1>9. /\ FlattenSeq(pages) = Laid(pages, k - 1) \o pages[k]
      /\ FlattenSeq(qs) = Laid(qs, k - 1) \o qs[k]
      /\ Laid(pages, k - 1) \in Seq(Entry) /\ pages[k] \in Seq(Entry) /\ qs[k] \in Seq(Entry)
  <2>1. k \in 1 .. Len(qs)
    BY <1>7
  <2>2. \A i \in k + 1 .. Len(pages) : Len(pages[i]) = 0
    BY <1>7, <1>8
  <2>3. FlattenSeq(pages) = Laid(pages, k - 1) \o pages[k] /\ Laid(pages, k - 1) \in Seq(Entry)
        /\ pages[k] \in Seq(Entry)
    BY <1>2, <1>7, <2>2, FlattenUpTo
  <2>4. FlattenSeq(qs) = Laid(qs, k - 1) \o qs[k] /\ qs[k] \in Seq(Entry)
    BY <1>8, <2>1, FlattenUpTo
  <2> QED BY <2>3, <2>4
<1>10. Laid(pages, k - 1) = Laid(qs, k - 1)
  <2>1. PICK n \in Nat : n = k - 1
    BY <1>7
  <2>2. n <= Len(pages) /\ n <= Len(qs) /\ \A i \in 1 .. n : i \in 1 .. Len(pages) /\ i # k
    BY <1>2, <1>7, <2>1
  <2>3. \A i \in 1 .. n : pages[i] = qs[i]
    BY <1>7, <2>2
  <2>4. Laid(pages, n) = Laid(qs, n)
    BY <1>2, <2>2, <2>3, LaidSame
  <2> QED BY <2>1, <2>4
<1>11. PICK s \in Seq(Entry), p \in Seq(Entry), q \in Seq(Entry) :
         s = Laid(pages, k - 1) /\ p = pages[k] /\ q = qs[k]
  BY <1>9
<1>12. ~placeholder'
  BY <1>1, <1>3, <1>7 DEF Removed, PagesInv
<1>13. Entries = s \o p /\ Entries' = s \o q
  BY <1>4, <1>5, <1>9, <1>10, <1>11, <1>12 DEF Entries
<1>14. Len(p) \in Nat /\ Len(p) # 0 /\ Len(q) = Len(p) - 1 /\ (\A a \in 1 .. Len(q) : q[a] = p[a]) /\ Len(s) \in Nat
  BY <1>7, <1>11
<1>15. PICK t \in Seq(Entry), r \in Seq(Entry) :
         /\ t = s \o p /\ Len(t) = Len(s) + Len(p) /\ t[Len(t)] = p[Len(p)]
         /\ r = s \o q /\ r = SubSeq(t, 1, Len(t) - 1)
  <2>1. Len(p) # 0 /\ Len(q) = Len(p) - 1 /\ \A a \in 1 .. Len(q) : q[a] = p[a]
    BY <1>14
  <2>2. FrontConcat(Entry, s, p, q)
    BY <2>1, ConcatFront
  <2> QED BY <2>2 DEF FrontConcat
<1>18. Offset(pages, u) < Len(t)
  <2>1. CASE u.page = k
    <3>1. Offset(pages, u) = Len(s) + u.slot
      BY <1>11, <2>1 DEF Offset, Laid
    <3>2. u.slot <= Len(q)
      BY <1>7, <1>11, <2>1
    <3> QED BY <1>6, <1>14, <1>15, <3>1, <3>2
  <2>2. CASE u.page # k
    <3>1. u.page \in 1 .. Len(pages) /\ u.page - 1 \in 0 .. Len(pages) /\ u.page <= k - 1 /\ k - 1 <= Len(pages)
      <4>1. PICK v \in Nat, h \in Nat, l \in Nat : v = u.page /\ h = hot /\ l = Len(pages)
        BY <1>2, <1>6
      <4>2. v \in 1 .. h /\ h <= l /\ v <= k /\ v # k /\ k \in 1 .. l
        BY <1>2, <1>5, <1>7, <2>2, <4>1
      <4>3. v \in 1 .. l /\ v - 1 \in 0 .. l /\ v <= k - 1 /\ k - 1 <= l
        BY <4>2
      <4> QED BY <4>1, <4>3
    <3>2. PICK a \in Seq(Entry), b \in Seq(Entry), c \in Seq(Entry) :
            a = Laid(pages, u.page - 1) /\ b = pages[u.page] /\ c = Laid(pages, u.page)
      <4>1. u.page \in 0 .. Len(pages)
        BY <3>1
      <4>2. Laid(pages, u.page - 1) \in Seq(Entry) /\ Laid(pages, u.page) \in Seq(Entry)
        BY <1>2, <3>1, <4>1, LaidProperties
      <4>3. pages[u.page] \in Seq(Entry)
        <5>1. \A i \in 1 .. Len(pages) : pages[i] \in Seq(Entry)
          BY <1>2
        <5> QED BY <3>1, <5>1, Zenon
      <4> QED BY <4>2, <4>3
    <3>3. c = a \o b
      BY <1>2, <3>1, <3>2, LaidProperties
    <3>4. Len(c) <= Len(s)
      <4>1. k - 1 \in Nat
        <5>1. k \in Nat /\ u.page \in Nat /\ u.page <= k - 1
          BY <1>6, <3>1
        <5>2. u.page <= k - 1 => k # 0
          BY <5>1
        <5> QED BY <5>1, <5>2
      <4> QED BY <1>2, <1>6, <1>11, <3>1, <3>2, <4>1, LaidLonger
    <3>5. u.slot <= Len(b)
      BY <1>7, <2>2, <3>1, <3>2
    <3>6. Offset(pages, u) = Len(a) + u.slot
      BY <3>2 DEF Offset, Laid
    <3>7. Len(a) \in Nat /\ Len(b) \in Nat /\ Len(c) = Len(a) + Len(b)
      BY <3>3
    <3> QED BY <1>6, <1>14, <1>15, <3>4, <3>5, <3>6, <3>7
  <2> QED BY <2>1, <2>2
<1>19. pages[hot'][Len(pages[hot'])] = p[Len(p)]
  BY <1>3, <1>11
<1> QED BY <1>5, <1>13, <1>15, <1>18, <1>19

LEMMA ReleaseImplements ==
  ASSUME IInv, releaseUntil PROVE Stack!Release
<1>1. TypeInv /\ PagesInv /\ UntilInv
  BY DEF IInv
<1>2. top.until # None /\ Len(pages[top.until.page]) # top.until.slot
      /\ \/ frames' = frames
         \/ Last(pages[hot']) = Object /\ frames' = Append(frames, Frame(<<>>, None))
  BY DEF releaseUntil
<1>3. Removed
  BY <1>1, ReleaseEffect
<1>4. frames \in Seq(FrameType) /\ \A j \in 1 .. Len(frames) : Call(pages', frames[j]) = Call(pages, frames[j])
  BY <1>1, <1>2, <1>3, RemovedCalls, FramesShape
<1>5. ~Stack!Running /\ Stack!top.until = Offset(pages, top.until)
  BY <1>2, StackTop
<1>6. PICK es \in Seq(Entry) : es = Entries
  BY <1>2, <1>3, RemovedEntries
<1>7. PICK m : m = Offset(pages, top.until)
  OBVIOUS
<1>8. /\ m < Len(es) /\ Entries' = SubSeq(es, 1, Len(es) - 1) /\ es[Len(es)] = pages[hot'][Len(pages[hot'])]
  BY <1>2, <1>3, <1>6, <1>7, RemovedEntries
<1>9. m \in Nat /\ Len(es) > m
  <2>1. m \in Nat
    BY <1>2, <1>6, <1>7, StackTop
  <2>2. Len(es) \in Nat
    OBVIOUS
  <2> QED BY <1>8, <2>1, <2>2
<1>10. CASE frames' = frames
  <2>1. Calls(pages', frames') = Calls(pages, frames)
    BY <1>4, <1>10, CallsSame
  <2> QED BY <1>5, <1>6, <1>7, <1>8, <1>9, <2>1 DEF Stack!Release, Entries, Calls
<1>11. CASE Last(pages[hot']) = Object /\ frames' = Append(frames, Frame(<<>>, None))
  <2>1. PICK f : f = Frame(<<>>, None)
    OBVIOUS
  <2>2. f \in FrameType
    <3>1. <<>> \in Seq(Position) /\ None \in Position \cup {None}
      OBVIOUS
    <3> QED BY <2>1, <3>1, FrameProperties
  <2>3. \A qs : Call(qs, f) = Stack!Frame(<<>>, None)
    <3>1. \A qs : Tokens(qs, <<>>) = <<>> /\ Until(qs, None) = None
      BY DEF Tokens, Until
    <3> QED BY <2>1, <3>1, CallIs DEF Frame, Stack!Frame
  <2>4. Calls(pages', frames') = Append(Calls(pages, frames), Stack!Frame(<<>>, None))
    <3>1. PICK qs : qs = pages'
      OBVIOUS
    <3>2. Calls(qs, Append(frames, f)) = Append(Calls(pages, frames), Call(qs, f))
      BY <1>4, <2>2, <3>1, CallsPushed
    <3> QED BY <1>11, <2>1, <2>3, <3>1, <3>2
  <2>5. es[Len(es)] = Object
    BY <1>8, <1>11 DEF Last
  <2> QED BY <1>5, <1>6, <1>7, <1>8, <1>9, <2>4, <2>5 DEF Stack!Release, Entries, Calls
<1> QED BY <1>2, <1>10, <1>11

LEMMA FinishedEntries ==
  ASSUME IInv, top.until # None, Finished, Len(pages[top.until.page]) = top.until.slot,
         hot = top.until.page, UNCHANGED placeholder
  PROVE  Entries' = Entries /\ Len(Entries) = Offset(pages, top.until)
<1>1. TypeInv /\ PagesInv
  BY DEF IInv
<1>2. pages \in Seq(Seq(Entry)) /\ Len(pages) \in Nat /\ hot \in Nat /\ hot <= Len(pages)
  BY <1>1, PagesShape
<1>3. PICK u \in Position : u = top.until /\ ~placeholder /\ u.page = hot /\ hot # 0
  BY AllBelow
<1>4. \A i \in hot + 1 .. Len(pages) : Len(pages[i]) = 0
  BY <1>1 DEF PagesInv, empty
<1>5. PICK k \in Nat, qs \in Seq(Seq(Entry)) : k = hot' /\ qs = pages'
  BY DEF Finished
<1>6. /\ k <= Len(qs) /\ Len(qs) \in Nat /\ \A j \in 1 .. Len(qs) : j <= Len(pages) /\ qs[j] = pages[j]
      /\ k = hot \/ (k = hot - 1 /\ Len(pages[hot]) = 0)
  BY <1>3, <1>5 DEF Finished
<1>7. k <= Len(pages)
  BY <1>2, <1>6
<1>8. \A i \in k + 1 .. Len(pages) : Len(pages[i]) = 0
  <2>1. \A i \in k + 1 .. Len(pages) : i \in hot + 1 .. Len(pages) \/ (i = hot /\ k = hot - 1)
    BY <1>2, <1>6
  <2> QED BY <1>3, <1>4, <1>6, <2>1
<1>9. \A i \in k + 1 .. Len(qs) : Len(qs[i]) = 0
  <2>1. PagesInv'
    BY DEF Finished
  <2>2. \A i \in hot' + 1 .. Len(pages') : Len(pages'[i]) = 0
    BY <2>1 DEF PagesInv, empty
  <2> QED BY <1>5, <2>2
<1>10. FlattenSeq(pages) = Laid(pages, k) /\ FlattenSeq(qs) = Laid(qs, k)
  <2>1. FlattenSeq(pages) = Laid(pages, Len(pages)) /\ FlattenSeq(qs) = Laid(qs, Len(qs))
    BY <1>2, LaidProperties
  <2>2. PICK l \in Nat : l = Len(pages) /\ k <= l /\ l <= l
    BY <1>2, <1>7
  <2>3. Laid(pages, l) = Laid(pages, k)
    BY <1>2, <1>8, <2>2, LaidLonger
  <2>4. PICK m \in Nat : m = Len(qs) /\ k <= m /\ m <= m
    BY <1>6
  <2>5. Laid(qs, m) = Laid(qs, k)
    BY <1>9, <2>4, LaidLonger
  <2> QED BY <2>1, <2>2, <2>3, <2>4, <2>5
<1>11. Laid(pages, k) = Laid(qs, k)
  <2>1. \A i \in 1 .. k : i \in 1 .. Len(qs)
    BY <1>6
  <2>2. \A i \in 1 .. k : pages[i] = qs[i]
    BY <1>6, <2>1
  <2> QED BY <1>2, <1>6, <1>7, <2>2, LaidSame
<1>12. Entries' = Entries /\ Entries = FlattenSeq(pages)
  BY <1>3, <1>5, <1>10, <1>11 DEF Entries
<1>13. PICK s \in Seq(Entry), p \in Seq(Entry) : s = Laid(pages, hot - 1) /\ p = pages[hot] /\ FlattenSeq(pages) = s \o p
  <2>1. hot \in 1 .. Len(pages)
    BY <1>2, <1>3
  <2> QED BY <1>2, <1>4, <2>1, FlattenUpTo
<1>14. Offset(pages, u) = Len(s) + Len(p)
  BY <1>3, <1>13 DEF Offset, Laid
<1>15. PICK es : es = s \o p /\ Len(es) = Len(s) + Len(p)
  <2>1. \A x, y \in Seq(Entry) : Len(x \o y) = Len(x) + Len(y)
    OBVIOUS
  <2> QED BY <2>1, Zenon
<1> QED BY <1>3, <1>12, <1>13, <1>14, <1>15

LEMMA FinishedCalls ==
  ASSUME IInv, top.until # None, Finished, NEW f \in FrameType,
         \/ f = Frame(top.tokens, None)
         \/ \E j \in 1 .. Len(frames) : j # Len(frames) /\ f = frames[j]
  PROVE  Call(pages', f) = Call(pages, f)
<1>1. TypeInv
  BY DEF IInv
<1>2. PICK n \in Nat : n = Len(frames) /\ n # 0 /\ DOMAIN frames = 1 .. n /\ frames \in Seq(FrameType)
                       /\ top = frames[n] /\ n \in 1 .. n
  BY <1>1, TopFrame
<1>3. pages \in Seq(Seq(Entry)) /\ Len(pages) \in Nat
  BY <1>1, PagesShape
<1>4. PICK u \in Position : u = top.until /\ u.page \in Nat
  BY AllBelow, PositionProperties
<1>5. PICK h \in Nat : h = hot'
  BY DEF Finished
<1>6. /\ pages' \in Seq(Seq(Entry)) /\ h <= Len(pages') /\ Len(pages') \in Nat /\ u.page <= h + 1
      /\ \A j \in 1 .. Len(pages') : j <= Len(pages) /\ pages'[j] = pages[j]
  BY <1>4, <1>5 DEF Finished
<1>7. PICK k \in Nat \ {0} : k = h + 1
  OBVIOUS
<1>8. \A i \in 1 .. k - 1 : i \in 1 .. Len(pages) /\ i \in 1 .. Len(pages') /\ pages[i] = pages'[i]
  <2>1. \A i \in 1 .. k - 1 : i \in 1 .. Len(pages')
    BY <1>6, <1>7
  <2>2. \A i \in 1 .. k - 1 : i <= Len(pages) /\ pages[i] = pages'[i]
    BY <1>6, <2>1
  <2> QED BY <1>3, <2>1, <2>2
<1>9. ASSUME NEW p \in Position, p = Bottom \/ p.page # 0, p = Bottom \/ Before(p, u) PROVE p.page \in 1 .. k
  <2>1. CASE p = Bottom
    BY <2>1 DEF Bottom
  <2>2. CASE p # Bottom
    BY <1>4, <1>6, <1>7, <1>9, <2>2, PositionProperties DEF Before
  <2> QED BY <2>1, <2>2
<1>10. ASSUME NEW j \in 1 .. n
       PROVE  /\ \A a \in DOMAIN frames[j].tokens : Stop(frames[j].tokens[a]).page \in 1 .. k
              /\ j # n /\ frames[j].until # None => frames[j].until.page \in 1 .. k
  <2>1. ASSUME NEW a \in DOMAIN frames[j].tokens PROVE Stop(frames[j].tokens[a]).page \in 1 .. k
    <3>1. Stop(frames[j].tokens[a]) \in Position
      BY <1>1, <1>2, FramesShape
    <3>2. Before(Stop(frames[j].tokens[a]), u) /\ Here(Stop(frames[j].tokens[a]))
      BY <1>2, <1>4, AllBelow
    <3>3. Stop(frames[j].tokens[a]).page # 0
      BY <1>1, <3>1, <3>2, HereProperties DEF IInv
    <3> QED BY <1>9, <3>1, <3>2, <3>3
  <2>2. ASSUME j # n, frames[j].until # None PROVE frames[j].until.page \in 1 .. k
    <3>1. frames[j].until \in Position /\ frames[j].until.page # 0
      BY <1>2, <2>2, PlacesAre
    <3>2. CASE Loose(j)
      <4>1. frames[j].until = Bottom
        BY <1>2, <2>2, <3>2, LooseProperties
      <4> QED BY <1>9, <3>1, <4>1
    <3>3. CASE ~Loose(j)
      <4>1. Before(frames[j].until, u)
        BY <1>2, <1>4, <2>2, <3>3, AllBelow
      <4> QED BY <1>9, <3>1, <4>1
    <3> QED BY <3>2, <3>3
  <2> QED BY <2>1, <2>2
<1>11. /\ \A a \in DOMAIN f.tokens : Stop(f.tokens[a]).page \in 1 .. k
       /\ f.until # None => f.until.page \in 1 .. k
  <2>1. CASE f = Frame(top.tokens, None)
    BY <1>2, <1>10, <2>1 DEF Frame
  <2>2. CASE \E j \in 1 .. Len(frames) : j # Len(frames) /\ f = frames[j]
    BY <1>2, <1>10, <2>2
  <2> QED BY <2>1, <2>2
<1> QED BY <1>3, <1>6, <1>8, <1>11, CallSame

LEMMA FinishImplements ==
  ASSUME IInv, finishPop, hot = top.until.page PROVE Stack!PopDone
<1>1. TypeInv /\ PagesInv /\ UntilInv /\ ExitInv
  BY DEF IInv
<1>2. PICK n \in Nat : n = Len(frames) /\ n # 0 /\ DOMAIN frames = 1 .. n /\ frames \in Seq(FrameType)
                       /\ top = frames[n] /\ n \in 1 .. n
  BY <1>1, TopFrame
<1>3. /\ top.until # None /\ Len(pages[top.until.page]) = top.until.slot
      /\ frames' = Append(Front(frames), Frame(top.tokens, None)) /\ UNCHANGED placeholder
  BY DEF finishPop
<1>4. Finished
  BY <1>1, FinishEffect
<1>5. Entries' = Entries /\ Len(Entries) = Offset(pages, top.until)
  BY <1>3, <1>4, FinishedEntries
<1>6. ~Stack!Running /\ Stack!top.until = Offset(pages, top.until)
  BY <1>3, StackTop
<1>7. PICK f \in FrameType : f = Frame(top.tokens, None)
  <2>1. top.tokens \in Seq(Position) /\ None \in Position \cup {None}
    BY <1>1, <1>2, FramesShape
  <2> QED BY <2>1, FrameProperties
<1>8. Call(pages', f) = Call(pages, f) /\ \A j \in 1 .. n : j # n => Call(pages', frames[j]) = Call(pages, frames[j])
  <2>1. Call(pages', f) = Call(pages, f)
    BY <1>3, <1>4, <1>7, FinishedCalls
  <2>2. ASSUME NEW j \in 1 .. n, j # n PROVE Call(pages', frames[j]) = Call(pages, frames[j])
    <3>1. PICK g \in FrameType : g = frames[j]
      BY <1>2
    <3>2. Call(pages', g) = Call(pages, g)
      BY <1>2, <1>3, <1>4, <2>2, <3>1, FinishedCalls
    <3> QED BY <3>1, <3>2
  <2> QED BY <2>1, <2>2
<1>9. Call(pages, f) = Stack!Frame(Stack!top.tokens, None)
  BY <1>7, CallIs, StackTop DEF Until, Frame, Stack!Frame
<1>10. Calls(pages', frames') = Append(Stack!rest, Stack!Frame(Stack!top.tokens, None))
  <2>1. PICK qs : qs = pages'
    OBVIOUS
  <2>2. Calls(qs, frames') = Append(SubSeq(Calls(pages, frames), 1, Len(Calls(pages, frames)) - 1), Call(qs, f))
    BY <1>2, <1>3, <1>7, <1>8, <2>1, CallsTop
  <2> QED BY <1>8, <1>9, <2>1, <2>2, StackTop
<1> QED BY <1>5, <1>6, <1>10 DEF Stack!PopDone, Entries, Calls

LEMMA EndImplements ==
  ASSUME IInv, StackInv, tls_dealloc PROVE [Stack!Next]_Stack!vars
<1>1. TypeInv /\ PagesInv /\ TokensInv /\ ExitInv /\ ColdInv
  BY DEF IInv
<1>2. /\ Len(frames) = 1 /\ top.until = None /\ (hot # 0 /\ ~exiting => Len(pages[1]) = 0)
      /\ pages' = (IF hot # 0 /\ debug = {} THEN kill(1) ELSE pages)
      /\ ~placeholder' /\ frames' = <<Frame(<<>>, None)>>
  BY DEF tls_dealloc, empty
<1>3. PICK n \in Nat : n = Len(frames) /\ n # 0 /\ DOMAIN frames = 1 .. n /\ frames \in Seq(FrameType)
                       /\ top = frames[n] /\ n \in 1 .. n
  BY <1>1, TopFrame
<1>4. n = 1 /\ top = frames[1] /\ top \in FrameType
  <2>1. n = 1
    BY <1>2, <1>3
  <2>2. frames[n] \in FrameType
    BY <1>3
  <2> QED BY <1>3, <2>1, <2>2
<1>5. PICK tokens \in Seq(Position) : tokens = top.tokens
  BY <1>1, <1>3, FramesShape
<1>6. top = Frame(tokens, None)
  BY <1>2, <1>4, <1>5 DEF Frame, FrameType
<1>7. frames = <<top>> /\ Front(frames) = <<>>
  BY <1>2, <1>3, <1>4 DEF Front
<1>8. CASE placeholder
  <2>1. hot = 0 /\ pages' = pages
    BY <1>1, <1>2, <1>8 DEF PagesInv
  <2>2. tokens # <<>> /\ \A a \in DOMAIN tokens : a = 1
    BY <1>4, <1>5, <1>8, <2>1, NoPage DEF StackInv
  <2>3. 1 \in DOMAIN tokens /\ SubSeq(tokens, 1, 0) = <<>>
    BY <2>2
  <2>4. 1 \in DOMAIN top.tokens
    BY <1>5, <2>3
  <2>5. frames' = Append(Front(frames), Frame(SubSeq(top.tokens, 1, 1 - 1), None))
    <3>1. PICK f : f = Frame(<<>>, None)
      OBVIOUS
    <3>2. Append(<<>>, f) = <<f>> /\ 1 - 1 = 0
      OBVIOUS
    <3> QED BY <1>2, <1>5, <1>7, <2>3, <3>1, <3>2
  <2>6. Stack!Pop(1)
    BY <1>2, <1>8, <2>1, <2>4, <2>5, PlaceholderPop
  <2>7. 1 \in DOMAIN Stack!top.tokens
    BY <2>6 DEF Stack!Pop
  <2> QED BY <2>6, <2>7 DEF Stack!Next
<1>9. CASE ~placeholder
  <2>1. ASSUME tokens = <<>>, FlattenSeq(pages) = <<>>, FlattenSeq(pages') = <<>>
        PROVE  UNCHANGED Stack!vars
    <3>1. frames' = frames
      BY <1>2, <1>6, <1>7, <2>1
    <3>2. \A ps : Call(ps, top) = Frame(<<>>, None)
      <4>1. \A ps : Tokens(ps, <<>>) = <<>> /\ Until(ps, None) = None
        BY DEF Tokens, Until
      <4> QED BY <1>6, <2>1, <4>1, CallIs
    <3>3. \A j \in 1 .. Len(frames) : Call(pages', frames[j]) = Call(pages, frames[j])
      BY <1>2, <1>4, <3>2
    <3>4. Calls(pages', frames') = Calls(pages, frames)
      BY <1>3, <3>1, <3>3, CallsSame
    <3>5. Entries' = Entries
      BY <1>2, <1>9, <2>1 DEF Entries
    <3> QED BY <3>4, <3>5 DEF Stack!vars, Entries, Calls
  <2>2. CASE hot = 0
    <3>1. pages = <<>> /\ pages' = pages
      BY <1>1, <1>2, <2>2 DEF PagesInv
    <3>2. DOMAIN tokens = {}
      BY <1>5, <1>9, <2>2, NoPage
    <3>3. tokens = <<>>
      BY <3>2
    <3> QED BY <2>1, <3>1, <3>3, NoEntries
  <2>3. CASE hot # 0
    <3>1. debug = {} /\ Len(pages[1]) = 0
      <4>1. CASE exiting
        BY <1>1, <1>2, <1>4, <2>3, <4>1 DEF ExitInv, StackInv, empty
      <4>2. CASE ~exiting
        <5>1. top.until # Bottom
          BY <1>2, PositionProperties
        <5> QED BY <1>1, <1>2, <2>3, <4>2, <5>1 DEF ColdInv, empty
      <4> QED BY <4>1, <4>2
    <3>2. pages \in Seq(Seq(Entry)) /\ Len(pages) \in Nat /\ hot \in Nat /\ hot <= Len(pages)
      BY <1>1, PagesShape
    <3>3. hot = 1
      <4>1. ~DebugPoolAllocation
        BY <3>1 DEF DebugPoolAllocation
      <4>2. 1 \in 1 .. hot - 1 => Len(pages[1]) = PageSize
        BY <1>1, <4>1 DEF PagesInv, full
      <4>3. 1 \notin 1 .. hot - 1
        BY <3>1, <4>2, PageSizeProperties
      <4> QED BY <2>3, <3>2, <4>3
    <3>4. \A i \in 1 .. Len(pages) : Len(pages[i]) = 0
      <4>1. \A i \in hot + 1 .. Len(pages) : Len(pages[i]) = 0
        BY <1>1 DEF PagesInv, empty
      <4>2. \A i \in 1 .. Len(pages) : i = 1 \/ i \in hot + 1 .. Len(pages)
        BY <3>3
      <4> QED BY <3>1, <4>1, <4>2
    <3>5. FlattenSeq(pages) = <<>>
      <4>1. Laid(pages, 0) = <<>> /\ FlattenSeq(pages) = Laid(pages, Len(pages))
        BY <3>2, LaidProperties
      <4>2. PICK l \in Nat : l = Len(pages) /\ 0 <= l /\ l <= l
        BY <3>2
      <4>3. \A i \in 0 + 1 .. l : Len(pages[i]) = 0
        BY <3>4, <4>2
      <4>4. Laid(pages, l) = Laid(pages, 0)
        BY <3>2, <4>2, <4>3, LaidLonger
      <4> QED BY <4>1, <4>2, <4>4
    <3>6. FlattenSeq(pages') = <<>>
      <4>1. kill(1) = <<>>
        BY <1>1, KillEffect
      <4> QED BY <1>2, <2>3, <3>1, <4>1, NoEntries
    <3>7. tokens = <<>>
      <4>1. ASSUME NEW a \in DOMAIN tokens PROVE FALSE
        <5>1. Here(Stop(tokens[a])) /\ Stop(tokens[a]) \in Position
          <6>1. 1 \in DOMAIN frames /\ tokens = frames[1].tokens
            BY <1>3, <1>4, <1>5
          <6>2. Here(Stop(tokens[a]))
            BY <1>1, <1>9, <4>1, <6>1 DEF TokensInv
          <6> QED BY <4>1, <6>2, PositionProperties
        <5>2. PICK p \in Position : p = Stop(tokens[a])
          BY <5>1
        <5>3. p.page \in 1 .. Len(pages) /\ p.slot < Len(pages[p.page]) /\ p.slot \in Nat
          BY <1>1, <5>1, <5>2, HereProperties, PositionProperties
        <5> QED BY <3>4, <5>3
      <4>2. DOMAIN tokens = {}
        BY <4>1
      <4> QED BY <4>2
    <3> QED BY <2>1, <3>5, <3>6, <3>7
  <2> QED BY <2>2, <2>3
<1> QED BY <1>8, <1>9

--------------------------------------------------------------------------------
(* The refinement *)

LEMMA StackInitInv ==
  ASSUME Init PROVE StackInv /\ Stack!Init
<1>1. pages = <<>> /\ ~placeholder /\ ~exiting /\ frames = <<Frame(<<>>, None)>>
  BY DEF Init
<1>2. Entries = <<>>
  BY <1>1, NoEntries DEF Entries
<1>3. Call(pages, Frame(<<>>, None)) = Stack!Frame(<<>>, None)
  <2>1. Tokens(pages, <<>>) = <<>> /\ Until(pages, None) = None
    BY DEF Tokens, Until
  <2> QED BY <2>1, CallIs DEF Frame, Stack!Frame
<1>4. Calls(pages, frames) = <<Stack!Frame(<<>>, None)>>
  <2>1. PICK f : f = Frame(<<>>, None)
    OBVIOUS
  <2> QED BY <1>1, <1>3, <2>1 DEF Calls
<1> QED BY <1>1, <1>2, <1>4 DEF StackInv, Stack!Init, Entries, Calls

\* The outer frames are the same, so the first one is, unless it is the top.
LEMMA StackInvStep ==
  ASSUME IInv, StackInv, [Next]_vars PROVE StackInv'
<1>1. TypeInv /\ PagesInv /\ UntilInv /\ ExitInv
  BY DEF IInv
<1>2. PICK n \in Nat : n = Len(frames) /\ n # 0 /\ DOMAIN frames = 1 .. n /\ frames \in Seq(FrameType)
                       /\ top = frames[n] /\ n \in 1 .. n /\ 1 \in 1 .. n
  <2>1. PICK n \in Nat : n = Len(frames) /\ n # 0 /\ DOMAIN frames = 1 .. n /\ frames \in Seq(FrameType)
                         /\ top = frames[n] /\ n \in 1 .. n
    BY <1>1, TopFrame
  <2>2. 1 \in 1 .. n
    BY <2>1
  <2> QED BY <2>1, <2>2
<1>3. n # 1 => frames[1].until # None
  <2>1. n # 1 => frames[1].until \in Position
    BY <1>2, OuterHere
  <2> QED BY <2>1, PositionProperties
<1>4. placeholder => hot = 0 /\ n = 1
  BY <1>1, <1>2, NoPage DEF PagesInv
<1>5. top.tokens \in Seq(Position)
  BY <1>1, <1>2, FramesShape
<1>6. ASSUME NEW f \in FrameType, frames' = Append(Front(frames), f)
      PROVE  (n # 1 => frames'[1] = frames[1]) /\ (n = 1 => frames'[1] = f)
  <2>1. frames'[n] = f /\ \A j \in 1 .. n : j # n => frames'[j] = frames[j]
    BY <1>1, <1>2, <1>6, TopReplaced
  <2> QED BY <1>2, <2>1
<1>7. CASE push
  <2>1. (exiting' => n > 1) /\ autoreleaseFast(Boundary) /\ UNCHANGED <<debug, exiting>>
    BY <1>2, <1>7 DEF push, Running
  <2>2. Untouched(Boundary) \/ Added(Boundary)
    BY <1>1, <2>1, FastEffect DEF Entry
  <2>3. PICK token \in Position : frames' = Append(Front(frames), Frame(Append(top.tokens, token), None))
    <3>1. CASE Untouched(Boundary)
      <4>1. frames' = Append(Front(frames), Frame(Append(top.tokens, EMPTY_POOL_PLACEHOLDER), None))
        BY <1>7, <3>1 DEF push, Untouched
      <4>2. EMPTY_POOL_PLACEHOLDER \in Position
        BY PositionProperties
      <4> QED BY <4>1, <4>2, Zenon
    <3>2. CASE Added(Boundary)
      <4>1. frames' = Append(Front(frames), Frame(Append(top.tokens, Hottest), None))
        BY <1>7, <3>2 DEF push, Hottest, Added
      <4>2. Hottest \in Position
        BY <3>2, AddedEntries DEF Entry
      <4> QED BY <4>1, <4>2, Zenon
    <3> QED BY <2>2, <3>1, <3>2
  <2>4. PICK tokens \in Seq(Position) : tokens = Append(top.tokens, token) /\ tokens # <<>>
    <3>1. PICK old \in Seq(Position) : old = top.tokens
      BY <1>5
    <3>2. PICK new : new = Append(old, token)
      OBVIOUS
    <3>3. new \in Seq(Position) /\ Len(new) = Len(old) + 1 /\ Len(old) \in Nat
      BY <3>2
    <3>4. new # <<>>
      BY <3>3
    <3> QED BY <3>1, <3>2, <3>3, <3>4
  <2>5. PICK f \in FrameType : f = Frame(tokens, None) /\ f.tokens = tokens
    <3>1. None \in Position \cup {None}
      OBVIOUS
    <3> QED BY <3>1, FrameProperties
  <2>6. (n # 1 => frames'[1] = frames[1]) /\ (n = 1 => frames'[1] = f)
    BY <1>6, <2>3, <2>4, <2>5
  <2>7. placeholder' => n = 1
    <3>1. CASE Untouched(Boundary)
      BY <1>2, <3>1, NoPage DEF Untouched
    <3>2. CASE Added(Boundary)
      BY <3>2 DEF Added
    <3> QED BY <2>2, <3>1, <3>2
  <2> QED BY <1>3, <2>1, <2>4, <2>5, <2>6, <2>7 DEF StackInv
<1>8. CASE autorelease
  <2>1. (exiting' => n > 1) /\ autoreleaseFast(Object) /\ UNCHANGED <<debug, frames, exiting>>
    BY <1>2, <1>8 DEF autorelease, Running
  <2>2. Untouched(Object) \/ Added(Object)
    BY <1>1, <2>1, FastEffect DEF Entry
  <2>3. placeholder' => placeholder
    BY <2>2, EntryAssumption DEF Untouched, Added
  <2> QED BY <1>3, <2>1, <2>3 DEF StackInv
<1>9. CASE \E i \in DOMAIN top.tokens : pop(i)
  <2>1. PICK i \in DOMAIN top.tokens : pop(i)
    BY <1>9
  <2>2. (exiting' => n > 1) /\ UNCHANGED <<hot, exiting>>
    BY <1>2, <2>1 DEF pop, Running
  <2>3. ~placeholder'
    <3>1. placeholder => top.tokens[i] = EMPTY_POOL_PLACEHOLDER
      BY <1>4, NoPage
    <3> QED BY <1>4, <2>1, <3>1 DEF pop
  <2>4. PICK until \in Position \cup {None} : frames' = Append(Front(frames), Frame(SubSeq(top.tokens, 1, i - 1), until))
    <3>1. top.tokens[i] \in Position
      BY <1>5
    <3>2. Stop(top.tokens[i]) \in Position
      BY <3>1, PositionProperties
    <3> QED BY <2>1, <3>2 DEF pop
  <2>5. Frame(SubSeq(top.tokens, 1, i - 1), until) \in FrameType
    <3>1. SubSeq(top.tokens, 1, i - 1) \in Seq(Position)
      BY <1>5, PrefixOf
    <3> QED BY <3>1, FrameProperties
  <2>6. n # 1 => frames'[1] = frames[1]
    BY <1>6, <2>4, <2>5
  <2> QED BY <1>3, <2>2, <2>3, <2>6 DEF StackInv
<1>10. CASE releaseUntil
  <2>1. top.until # None /\ UNCHANGED <<placeholder, exiting>>
        /\ (frames' = frames \/ frames' = Append(frames, Frame(<<>>, None)))
    BY <1>10 DEF releaseUntil
  <2>2. frames'[1] = frames[1]
    <3>1. <<>> \in Seq(Position) /\ None \in Position \cup {None}
      OBVIOUS
    <3>2. Frame(<<>>, None) \in FrameType
      BY <3>1, FrameProperties
    <3>3. frames' = Append(frames, Frame(<<>>, None)) => frames'[1] = frames[1]
      BY <1>1, <1>2, <3>2, FramePushed
    <3> QED BY <2>1, <3>3
  <2>3. frames[1].until # None
    BY <1>2, <1>3, <2>1
  <2>4. ~placeholder
    BY <2>1, AllBelow
  <2> QED BY <2>1, <2>2, <2>3, <2>4 DEF StackInv
<1>11. CASE finishPop
  <2>1. /\ top.until # None /\ Len(pages[top.until.page]) = top.until.slot
        /\ frames' = Append(Front(frames), Frame(top.tokens, None)) /\ UNCHANGED <<placeholder, exiting>>
    BY <1>11 DEF finishPop
  <2>2. ~placeholder
    BY <2>1, AllBelow
  <2>3. Frame(top.tokens, None) \in FrameType
    <3>1. None \in Position \cup {None}
      OBVIOUS
    <3> QED BY <1>5, <3>1, FrameProperties
  <2>4. n # 1 => frames'[1] = frames[1]
    BY <1>6, <2>1, <2>3
  <2>5. ASSUME n = 1, exiting, hot' # 0 PROVE Len(pages'[1]) = 0
    <3>1. top.until = Bottom
      BY <1>1, <1>2, <2>1, <2>5 DEF ExitInv
    <3>2. Len(pages[1]) = 0
      BY <2>1, <3>1 DEF Bottom
    <3>3. Finished
      BY <1>1, <1>11, FinishEffect
    <3>4. PICK qs \in Seq(Seq(Entry)), k \in Nat : qs = pages' /\ k = hot' /\ k <= Len(qs) /\ k # 0
      BY <2>5, <3>3 DEF Finished
    <3>5. 1 \in 1 .. Len(qs)
      BY <3>4
    <3>6. qs[1] = pages[1]
      BY <3>3, <3>4, <3>5 DEF Finished
    <3> QED BY <3>2, <3>4, <3>6
  <2> QED BY <1>3, <2>1, <2>2, <2>4, <2>5 DEF StackInv, empty
<1>12. CASE return
  <2>1. n > 1 /\ frames' = Front(frames) /\ UNCHANGED placeholder
    BY <1>2, <1>12 DEF return
  <2>2. frames'[1] = frames[1]
    <3>1. \A j \in 1 .. n - 1 : frames'[j] = frames[j]
      BY <1>1, <1>2, <2>1, TopPopped
    <3>2. 1 \in 1 .. n - 1
      BY <2>1
    <3> QED BY <3>1, <3>2
  <2> QED BY <1>3, <1>4, <2>1, <2>2 DEF StackInv
<1>13. CASE tls_deallocPop
  <2>1. hot # 0 /\ frames' = <<Frame(<<>>, Bottom)>> /\ UNCHANGED placeholder
    BY <1>13 DEF tls_deallocPop, Bottom
  <2>2. frames'[1].until # None
    <3>1. frames'[1] = Frame(<<>>, Bottom)
      BY <2>1
    <3> QED BY <3>1, PositionProperties DEF Frame
  <2> QED BY <1>4, <2>1, <2>2 DEF StackInv
<1>14. CASE tls_dealloc
  BY <1>14 DEF tls_dealloc, StackInv
<1>15. CASE UNCHANGED vars
  BY <1>15 DEF vars, StackInv, empty
<1> QED BY <1>7, <1>8, <1>9, <1>10, <1>11, <1>12, <1>13, <1>14, <1>15 DEF Next

\* "A thread's autorelease pool is a stack of pointers. [...] A pool token is a
\* pointer to the POOL_BOUNDARY for that pool. When the pool is popped, every object
\* hotter than the sentinel is released": the pages, the placeholder and the token
\* that stands for it are such a stack, whatever the -dealloc methods do, unless a
\* thread may run with DebugPoolAllocation and without DebugMissingPools.
THEOREM ImplementsHolds ==
  ASSUME \A options \in Options :
           "DebugPoolAllocation" \in options => "DebugMissingPools" \in options
  PROVE  Spec => Implements
<1>1. Init => StackInv /\ Stack!Init
  BY StackInitInv
<1>2. IInv /\ StackInv /\ [Next]_vars => StackInv'
  BY StackInvStep
<1>3. IInv /\ StackInv /\ [Next]_vars => [Stack!Next]_Stack!vars
  <2> SUFFICES ASSUME IInv, StackInv, [Next]_vars PROVE [Stack!Next]_Stack!vars
    OBVIOUS
  <2>1. CASE push
    BY <2>1, PushImplements DEF Stack!Next
  <2>2. CASE autorelease
    BY <2>2, AutoreleaseImplements DEF Stack!Next
  <2>3. CASE \E i \in DOMAIN top.tokens : pop(i)
    <3>1. PICK i \in DOMAIN top.tokens : pop(i)
      BY <2>3
    <3>2. Stack!Pop(i)
      BY <3>1, PopImplements
    <3>3. i \in DOMAIN Stack!top.tokens
      BY <3>2 DEF Stack!Pop
    <3> QED BY <3>2, <3>3 DEF Stack!Next
  <2>4. CASE releaseUntil
    BY <2>4, ReleaseImplements DEF Stack!Next
  <2>5. CASE finishPop
    <3>1. hot = top.until.page
      BY <2>5, PoppedHot DEF finishPop
    <3> QED BY <2>5, <3>1, FinishImplements DEF Stack!Next
  <2>6. CASE return
    BY <2>6, ReturnImplements DEF Stack!Next
  <2>7. CASE tls_deallocPop
    BY <2>7, ExitImplements DEF Stack!Next
  <2>8. CASE tls_dealloc
    BY <2>8, EndImplements
  <2>9. CASE UNCHANGED vars
    BY <2>9 DEF vars, Stack!vars
  <2> QED BY <2>1, <2>2, <2>3, <2>4, <2>5, <2>6, <2>7, <2>8, <2>9 DEF Next
<1> QED BY <1>1, <1>2, <1>3, InvariantHolds, PTL DEF Spec, Implements, Stack!Spec
===================================================================================
