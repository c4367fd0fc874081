----------------------------- MODULE LoadMethodsProofs -----------------------------
(***************************************************************************)
(* LoadMethods, proved for any images, classes and categories.             *)
(*                                                                         *)
(* IInv of LoadMethodsInv is inductive.  Good says the same of a state of  *)
(* the recursion that schedules a class after its superclasses.            *)
(***************************************************************************)
EXTENDS LoadMethodsInv, FiniteSetTheorems, WellFoundedInduction, TLAPS

--------------------------------------------------------------------------------
(* Classes and images *)

\* A line of superclasses, root first: it has no class twice.
Line(line, c) ==
  /\ line \in Seq(Class) /\ Len(line) \in Nat \ {0} /\ DOMAIN line = 1 .. Len(line)
  /\ line[Len(line)] = c
  /\ \A n \in 1 .. Len(line) :
       /\ line[n] \in Class
       /\ \A s : s \in Range(Superclasses[line[n]]) <=> \E k \in 1 .. n : s = line[k]
  /\ \A m, n \in 1 .. Len(line) : line[m] = line[n] => m = n

LEMMA LineProperties ==
  ASSUME NEW c \in Class
  PROVE  Line(Superclasses[c], c)
<1>1. PICK line : line = Superclasses[c]
  OBVIOUS
<1>2. /\ line \in Seq(Class) /\ line # <<>> /\ line[Len(line)] = c
      /\ \A n \in DOMAIN line : Superclasses[line[n]] = SubSeq(line, 1, n)
  BY <1>1, ClassAssumption
<1>3. PICK l \in Nat : l = Len(line) /\ DOMAIN line = 1 .. l /\ l # 0
  BY <1>2
<1>4. ASSUME NEW n \in 1 .. l
      PROVE  line[n] \in Class /\ \A s : s \in Range(Superclasses[line[n]]) <=> \E k \in 1 .. n : s = line[k]
  <2>1. SubSeq(line, 1, n) = [k \in 1 .. n |-> line[k]]
    <3>1. \A k \in 1 .. n : line[1 + k - 1] = line[k]
      OBVIOUS
    <3> QED BY <1>2, <1>3, <3>1
  <2>2. n \in DOMAIN line
    BY <1>3
  <2>3. Superclasses[line[n]] = SubSeq(line, 1, n)
    BY <1>2, <2>2, Zenon
  <2>4. PICK f : f = [k \in 1 .. n |-> line[k]]
    OBVIOUS
  <2>5. \A s : s \in Range(f) <=> \E k \in 1 .. n : s = line[k]
    BY <2>4 DEF Range
  <2>6. line[n] \in Class
    BY <1>2, <2>2
  <2> QED BY <2>1, <2>3, <2>4, <2>5, <2>6
<1>5. ASSUME NEW m \in 1 .. l, NEW n \in 1 .. l, line[m] = line[n], m < n PROVE FALSE
  <2>1. SubSeq(line, 1, m) = SubSeq(line, 1, n)
    BY <1>2, <1>3, <1>5
  <2>2. PICK f : f = SubSeq(line, 1, m)
    OBVIOUS
  <2>3. f = [k \in 1 .. m |-> line[1 + k - 1]] /\ f = [k \in 1 .. n |-> line[1 + k - 1]]
    BY <1>2, <1>3, <2>1, <2>2
  <2>4. 1 .. m = 1 .. n
    BY <2>3
  <2> QED BY <1>5, <2>4
<1>6. \A m, n \in 1 .. l : line[m] = line[n] => m = n
  BY <1>5
<1>7. Len(line) \in Nat \ {0} /\ DOMAIN line = 1 .. Len(line)
  BY <1>3
<1>8. /\ \A n \in 1 .. Len(line) :
           /\ line[n] \in Class
           /\ \A s : s \in Range(Superclasses[line[n]]) <=> \E k \in 1 .. n : s = line[k]
      /\ \A m, n \in 1 .. Len(line) : line[m] = line[n] => m = n
  BY <1>3, <1>4, <1>6
<1>9. Line(line, c)
  BY <1>2, <1>7, <1>8 DEF Line
<1> QED BY <1>1, <1>9

LEMMA ImageProperties ==
  /\ \A i \in Image : \A x \in Contents(i) : ImageOf(x) = i
  /\ Loadable \subseteq Class /\ nil \notin Class /\ nil \notin Category
  /\ \A x : ~(x \in Class /\ x \in Category)
  /\ \A i \in Image : \A c \in clslist[i] : c \in Class /\ ImageOf(c) = i
  /\ \A i \in Image : Range(nlclslist[i]) \subseteq clslist[i]
  /\ \A c \in Class : ImageOf(c) \in Image /\ c \in clslist[ImageOf(c)]
  /\ \A c \in Loadable : c \in Range(nlclslist[ImageOf(c)])
  /\ \A i \in Image : \A k \in Categories(i) : k \in Category /\ ImageOf(k) = i
  /\ \A i \in Image : \A x \in Contents(i) : x \in Class \cup Category
<1>1. ASSUME NEW i \in Image, NEW x \in Contents(i) PROVE ImageOf(x) = i
  <2>1. \A j \in Image \ {i} : x \notin Contents(j)
    BY <1>1, ImageAssumption
  <2> QED BY <1>1, <2>1 DEF ImageOf
<1>2. ASSUME NEW i \in Image PROVE Range(nlclslist[i]) \subseteq clslist[i] /\ Categories(i) \subseteq Category
  <2>1. nlclslist[i] \in Seq(clslist[i]) /\ nlcatlist[i] \in Seq(Category)
    BY ImageAssumption
  <2> QED BY <2>1 DEF Range, Categories
<1>3. \A i \in Image : \A c \in clslist[i] : c \in Class /\ ImageOf(c) = i
  BY <1>1, ClassAssumption DEF Contents
<1>4. \A c \in Class : ImageOf(c) \in Image /\ c \in clslist[ImageOf(c)]
  BY <1>3, ClassAssumption
<1>5. Loadable \subseteq Class /\ \A c \in Loadable : c \in Range(nlclslist[ImageOf(c)])
  BY <1>2, <1>3 DEF Loadable
<1>6. \A i \in Image : \A k \in Categories(i) : k \in Category /\ ImageOf(k) = i
  BY <1>1, <1>2 DEF Contents
<1>7. \A i \in Image : \A x \in Contents(i) : x \in Class \cup Category
  BY <1>3, <1>6 DEF Contents
<1>8. nil \notin Class /\ nil \notin Category /\ \A x : ~(x \in Class /\ x \in Category)
  BY ClassAssumption
<1> QED BY <1>1, <1>2, <1>3, <1>4, <1>5, <1>6, <1>7, <1>8

\* Where the images of the superclasses are.
LEMMA SuperclassImage ==
  ASSUME NEW c \in Class, NEW s \in Range(Superclasses[c])
  PROVE  s \in Class /\ ImageOf(s) \in Group[ImageOf(c)] /\ Range(Superclasses[s]) \subseteq Range(Superclasses[c])
<1>1. s \in Class /\ Range(Superclasses[s]) \subseteq Range(Superclasses[c])
  <2>1. PICK line : line = Superclasses[c]
    OBVIOUS
  <2>0. Line(line, c)
    BY <2>1, LineProperties
  <2>2. PICK l \in Nat : l = Len(line) /\ DOMAIN line = 1 .. l
    BY <2>0 DEF Line
  <2>3. \A n \in 1 .. l : line[n] \in Class /\ \A x : x \in Range(Superclasses[line[n]]) <=> \E k \in 1 .. n : x = line[k]
    BY <2>0, <2>2 DEF Line
  <2>4. PICK n \in 1 .. l : s = line[n]
    BY <2>1, <2>2 DEF Range
  <2>5. 1 .. n \subseteq 1 .. l
    BY <2>2
  <2>6. s \in Class /\ \A x : x \in Range(Superclasses[s]) <=> \E k \in 1 .. n : x = line[k]
    BY <2>3, <2>4
  <2> QED BY <2>1, <2>2, <2>5, <2>6 DEF Range
<1>2. ImageOf(s) \in Group[ImageOf(c)]
  BY ImageProperties, ImageAssumption
<1> QED BY <1>1, <1>2

--------------------------------------------------------------------------------
(* The two recursions *)

\* A set of numbers has a least one.
LEMMA Least ==
  ASSUME NEW T \in SUBSET Nat, T # {}
  PROVE  \E x \in T : \A y \in T : x <= y
<1> DEFINE TT == {1 .. n : n \in T}
<1>1. \A n \in T : 1 .. n \in FiniteSubsetsOf(Nat)
  <2>1. \A n \in T : IsFiniteSet(1 .. n)
    BY FS_Interval
  <2> QED BY <2>1 DEF FiniteSubsetsOf
<1>2. TT \subseteq FiniteSubsetsOf(Nat) /\ TT # {}
  BY <1>1
<1>3. PICK X \in TT : \A Y \in TT : <<Y, X>> \notin StrictSubsetOrdering(Nat)
  <2> HIDE DEF TT
  <2>1. IsWellFoundedOn(StrictSubsetOrdering(Nat), FiniteSubsetsOf(Nat))
    BY FS_StrictSubsetOrderingWellFounded
  <2> QED BY <1>2, <2>1, WFMin
<1>4. PICK x \in T : X = 1 .. x
  OBVIOUS
<1>5. ASSUME NEW y \in T, ~(x <= y) PROVE FALSE
  <2>1. 1 .. y \in TT /\ 1 .. y \in FiniteSubsetsOf(Nat) /\ 1 .. x \in FiniteSubsetsOf(Nat)
    BY <1>1
  <2>2. 1 .. y \subseteq 1 .. x /\ x \in 1 .. x /\ x \notin 1 .. y
    BY <1>5
  <2>3. <<1 .. y, 1 .. x>> \in StrictSubsetOrdering(Nat)
    BY <2>1, <2>2 DEF StrictSubsetOrdering
  <2> QED BY <1>3, <1>4, <2>1, <2>3
<1> QED BY <1>5


\* The recursion of schedule_class_load up a line of superclasses.
IsSchedule(f, state, line, l) ==
  f = [n \in 0 .. l |-> IF n = 0 \/ line[n] \in state.loaded THEN state
                        ELSE add_class_to_loadable_list(f[n - 1], line[n])]

Schedule(state, line) == CHOOSE f : IsSchedule(f, state, line, Len(line))

LEMMA ScheduleDefined ==
  ASSUME NEW state, NEW line, NEW l \in Nat
  PROVE  \E f : IsSchedule(f, state, line, l)
<1> DEFINE Step(f, n) == IF n = 0 \/ line[n] \in state.loaded THEN state
                         ELSE add_class_to_loadable_list(f[n - 1], line[n])
           Defined(m)  == \E f : f = [n \in 0 .. m |-> Step(f, n)]
           T           == {m \in Nat : ~Defined(m)}
<1>1. ASSUME T # {} PROVE FALSE
  <2>1. PICK m \in T : \A k \in T : m <= k
    BY <1>1, Least
  <2>2. m \in Nat /\ ~Defined(m)
    BY <2>1
  <2>3. CASE m = 0
    <3>1. PICK f : f = [n \in 0 .. m |-> state]
      OBVIOUS
    <3>2. f = [n \in 0 .. m |-> Step(f, n)]
      BY <2>3, <3>1
    <3> QED BY <2>2, <3>2
  <2>4. CASE m # 0
    <3>1. PICK k \in Nat : k = m - 1
      BY <2>2, <2>4
    <3>2. Defined(k)
      <4> HIDE DEF Defined
      <4> QED BY <2>1, <2>2, <3>1
    <3>3. PICK f : f = [n \in 0 .. k |-> Step(f, n)]
      BY <3>2
    <3>4. PICK g : g = [n \in 0 .. m |-> IF n = m THEN Step(f, m) ELSE f[n]]
      OBVIOUS
    <3>5. \A n \in 0 .. m : Step(g, n) = Step(f, n)
      <4>1. \A n \in 0 .. m : n # 0 => g[n - 1] = f[n - 1]
        BY <2>2, <3>1, <3>4
      <4> QED BY <4>1
    <3>6. \A n \in 0 .. k : f[n] = Step(f, n)
      BY <3>3
    <3>7. \A n \in 0 .. m : g[n] = Step(f, n)
      <4> HIDE DEF Step
      <4> QED BY <2>2, <3>1, <3>4, <3>6
    <3>8. g = [n \in 0 .. m |-> Step(g, n)]
      <4>1. \A n \in 0 .. m : g[n] = Step(g, n)
        BY <3>5, <3>7
      <4> HIDE DEF Step
      <4>2. g = [n \in 0 .. m |-> g[n]]
        BY <3>4
      <4> QED BY <4>1, <4>2
    <3> QED BY <2>2, <3>8
  <2> QED BY <2>3, <2>4
<1> HIDE DEF Defined
<1>2. Defined(l)
  BY <1>1
<1> QED BY <1>2 DEF Defined, IsSchedule

\* What a state of the recursion keeps: old are the classes that were RW_LOADED before it,
\* first those called or ahead in the detached list, there the images mapped.
Kept(state, old, there) ==
  /\ state.classes \in Seq(Loadable \cup {nil})
  /\ state.loaded \subseteq Class /\ old \subseteq state.loaded
  /\ \A c \in state.loaded : ImageOf(c) \in there /\ Range(Superclasses[c]) \subseteq state.loaded

Exact(state, first) ==
  /\ Range(state.classes) \cup (first \cap Class) \subseteq state.loaded \cup {nil}
  /\ Distinct(state.classes) /\ Range(state.classes) \cap first \subseteq {nil}
  /\ Ordered(state.classes, first)

Good(state, old, first, there) ==
  /\ Kept(state, old, there)
  /\ state.loaded \cap Loadable \subseteq first \cup Range(state.classes)
  /\ ~ClosesWaiting => Exact(state, first)

\* Appending to a list.
LEMMA Appended ==
  ASSUME NEW S, NEW list \in Seq(S), NEW c \in S
  PROVE  LET longer == Append(list, c) IN
         /\ longer \in Seq(S) /\ Len(list) \in Nat /\ DOMAIN list = 1 .. Len(list)
         /\ DOMAIN longer = 1 .. Len(list) + 1
         /\ longer[Len(list) + 1] = c /\ \A n \in 1 .. Len(list) : longer[n] = list[n]
         /\ Range(longer) = Range(list) \cup {c}
<1> DEFINE longer == Append(list, c)
<1>1. /\ longer \in Seq(S) /\ Len(list) \in Nat /\ DOMAIN list = 1 .. Len(list)
      /\ DOMAIN longer = 1 .. Len(list) + 1
      /\ longer[Len(list) + 1] = c /\ \A n \in 1 .. Len(list) : longer[n] = list[n]
  OBVIOUS
<1>2. PICK l \in Nat : l = Len(list)
  BY <1>1
<1>3. \A n \in 1 .. l + 1 : n = l + 1 \/ n \in 1 .. l
  OBVIOUS
<1>4. l + 1 \in 1 .. l + 1 /\ 1 .. l \subseteq 1 .. l + 1
  OBVIOUS
<1>5. Range(longer) = Range(list) \cup {c}
  BY <1>1, <1>2, <1>3, <1>4 DEF Range
<1> QED BY <1>1, <1>5

\* A class is added after its superclasses.
LEMMA AddKeeps ==
  ASSUME NEW state, NEW old, NEW first, NEW there, NEW c \in Class \ state.loaded,
         Good(state, old, first, there), ImageOf(c) \in there,
         Range(Superclasses[c]) \subseteq state.loaded \cup {c}
  PROVE  Good(add_class_to_loadable_list(state, c), old, first, there)
<1>1. PICK list, all, new, more :
        /\ list = state.classes /\ all = state.loaded
        /\ new = add_class_to_loadable_list(state, c) /\ more = new.classes
  OBVIOUS
<1>2. new.loaded = all \cup {c} /\ more = IF c \in Loadable THEN Append(list, c) ELSE list
  BY <1>1 DEF add_class_to_loadable_list
<1>3. /\ list \in Seq(Loadable \cup {nil}) /\ all \subseteq Class /\ old \subseteq all
      /\ \A s \in all : ImageOf(s) \in there /\ Range(Superclasses[s]) \subseteq all
      /\ all \cap Loadable \subseteq first \cup Range(list)
  BY <1>1 DEF Good, Kept
<1>4. c \in Class /\ c \notin all /\ nil \notin Class /\ c # nil
  BY <1>1, ImageProperties
<1>5. /\ more \in Seq(Loadable \cup {nil})
      /\ c \in Loadable => Range(more) = Range(list) \cup {c}
      /\ c \notin Loadable => more = list
  <2>1. CASE c \in Loadable
    <3>1. more = Append(list, c) /\ c \in Loadable \cup {nil}
      BY <1>2, <2>1
    <3>2. more \in Seq(Loadable \cup {nil}) /\ Range(more) = Range(list) \cup {c}
      BY <1>3, <3>1, Appended
    <3> QED BY <2>1, <3>2
  <2>2. CASE c \notin Loadable
    BY <1>2, <1>3, <2>2
  <2> QED BY <2>1, <2>2
<1>6. Kept(new, old, there)
  <2>1. \A s \in all \cup {c} : ImageOf(s) \in there /\ Range(Superclasses[s]) \subseteq all \cup {c}
    BY <1>1, <1>3
  <2> QED BY <1>1, <1>2, <1>3, <1>4, <1>5, <2>1 DEF Kept
<1>7. new.loaded \cap Loadable \subseteq first \cup Range(more)
  BY <1>2, <1>3, <1>5
<1>8. ASSUME ~ClosesWaiting, c \in Loadable PROVE Exact(new, first)
  <2>1. /\ Range(list) \cup (first \cap Class) \subseteq all \cup {nil} /\ Distinct(list)
        /\ Range(list) \cap first \subseteq {nil} /\ Ordered(list, first)
    BY <1>1, <1>8 DEF Good, Exact
  <2>2. PICK l \in Nat : l = Len(list)
    BY <1>3
  <2>3. /\ DOMAIN list = 1 .. l /\ DOMAIN more = 1 .. l + 1 /\ more[l + 1] = c
        /\ \A n \in 1 .. l : more[n] = list[n]
    BY <1>2, <1>3, <1>8, <2>2, Appended
  <2>4. \A n \in 1 .. l + 1 : n = l + 1 \/ n \in 1 .. l
    OBVIOUS
  <2>5. \A n \in 1 .. l : list[n] # c
    <3>1. \A n \in 1 .. l : list[n] \in Range(list)
      BY <2>3 DEF Range
    <3> QED BY <1>4, <2>1, <3>1
  <2>6. Distinct(more)
    <3>1. \A m, n \in 1 .. l : list[m] = list[n] /\ list[m] # nil => m = n
      BY <2>1, <2>3 DEF Distinct
    <3>2. \A m, n \in 1 .. l + 1 : more[m] = more[n] /\ more[m] # nil => m = n
      BY <2>3, <2>4, <2>5, <3>1
    <3> QED BY <2>3, <3>2 DEF Distinct
  <2>7. Ordered(more, first)
    <3>1. ASSUME NEW n \in 1 .. l, list[n] # nil
          PROVE  Above(more[n]) \subseteq first \cup {more[k] : k \in 1 .. n - 1}
      <4>1. Above(list[n]) \subseteq first \cup {list[k] : k \in 1 .. n - 1}
        BY <2>1, <2>3, <3>1 DEF Ordered
      <4>2. \A k \in 1 .. n - 1 : more[k] = list[k]
        BY <2>3
      <4>3. more[n] = list[n]
        BY <2>3
      <4> QED BY <4>1, <4>2, <4>3
    <3>2. Above(c) \subseteq first \cup {more[k] : k \in 1 .. l}
      <4>1. Above(c) \subseteq all \cap Loadable
        BY <1>1 DEF Above
      <4>2. \A s \in Range(list) : \E k \in 1 .. l : s = more[k]
        BY <2>3 DEF Range
      <4> QED BY <1>3, <4>1, <4>2
    <3>3. (l + 1) - 1 = l
      OBVIOUS
    <3>4. ASSUME NEW n \in 1 .. l + 1, more[n] # nil
          PROVE  Above(more[n]) \subseteq first \cup {more[k] : k \in 1 .. n - 1}
      <4>1. CASE n = l + 1
        BY <2>3, <3>2, <3>3, <4>1
      <4>2. CASE n \in 1 .. l
        BY <2>3, <3>1, <3>4, <4>2
      <4> QED BY <2>4, <4>1, <4>2
    <3> QED BY <2>3, <3>4 DEF Ordered
  <2>8. Range(more) \cup (first \cap Class) \subseteq new.loaded \cup {nil}
    BY <1>2, <1>5, <1>8, <2>1
  <2>9. Range(more) \cap first \subseteq {nil}
    BY <1>4, <1>5, <1>8, <2>1
  <2> QED BY <1>1, <2>6, <2>7, <2>8, <2>9 DEF Exact
<1>9. ASSUME ~ClosesWaiting, c \notin Loadable PROVE Exact(new, first)
  BY <1>1, <1>2, <1>5, <1>9 DEF Good, Exact
<1> QED BY <1>1, <1>6, <1>7, <1>8, <1>9 DEF Good

\* The superclasses are scheduled first, and nothing but them.
LEMMA ScheduleKeeps ==
  ASSUME NEW state, NEW old, NEW first, NEW there, NEW c \in Class,
         Good(state, old, first, there),
         \A s \in Range(Superclasses[c]) : ImageOf(s) \in there
  PROVE  /\ Good(schedule_class_load(state, c), old, first, there)
         /\ state.loaded \cup {c} \subseteq schedule_class_load(state, c).loaded
<1>1. PICK line : line = Superclasses[c]
  OBVIOUS
<1>2. Line(line, c)
  BY <1>1, LineProperties
<1>3. PICK l \in Nat \ {0} : l = Len(line)
  BY <1>2 DEF Line
<1>4. /\ DOMAIN line = 1 .. l /\ line[l] = c
      /\ \A n \in 1 .. l : /\ line[n] \in Class
                           /\ \A s : s \in Range(Superclasses[line[n]]) <=> \E k \in 1 .. n : s = line[k]
      /\ \A m, n \in 1 .. l : line[m] = line[n] => m = n
  BY <1>2, <1>3 DEF Line
<1>5. schedule_class_load(state, c) = Schedule(state, line)[l]
  BY <1>1, <1>3, Zenon DEF schedule_class_load, Schedule, IsSchedule
<1>6. PICK f : schedule_class_load(state, c) = f[l] /\ IsSchedule(f, state, line, l)
  <2>1. l \in Nat
    OBVIOUS
  <2>2. \E f : IsSchedule(f, state, line, l)
    BY <2>1, ScheduleDefined
  <2> QED BY <1>3, <1>5, <2>2 DEF Schedule
<1>7. /\ f[0] = state
      /\ \A n \in 1 .. l : f[n] = IF line[n] \in state.loaded THEN state
                                  ELSE add_class_to_loadable_list(f[n - 1], line[n])
  BY <1>6 DEF IsSchedule
<1>8. \A s \in state.loaded : Range(Superclasses[s]) \subseteq state.loaded
  BY DEF Good, Kept
<1>9. \A n \in 1 .. l : ImageOf(line[n]) \in there
  BY <1>1, <1>4 DEF Range
<1> DEFINE Fine(n) == /\ Good(f[n], old, first, there)
                      /\ state.loaded \subseteq f[n].loaded
                      /\ \A k \in 1 .. n : line[k] \in f[n].loaded
                      /\ \A s \in f[n].loaded : s \in state.loaded \/ \E k \in 1 .. n : s = line[k]
           Wrong   == {n \in 0 .. l : ~Fine(n)}
<1>10. ASSUME Wrong # {} PROVE FALSE
  <2>1. Wrong \subseteq Nat
    OBVIOUS
  <2>2. PICK n \in Wrong : \A k \in Wrong : n <= k
    <3> HIDE DEF Wrong
    <3> QED BY <1>10, <2>1, Least
  <2>3. n \in 0 .. l /\ ~Fine(n) /\ n \in Nat
    OBVIOUS
  <2>4. CASE n = 0
    BY <1>7, <2>3, <2>4
  <2>5. CASE n # 0 /\ line[n] \in state.loaded
    <3>1. n \in 1 .. l /\ f[n] = state
      BY <1>7, <2>3, <2>5
    <3>2. \A k \in 1 .. n : line[k] \in state.loaded
      BY <1>4, <1>8, <2>5, <3>1
    <3> QED BY <2>3, <3>1, <3>2
  <2>6. CASE n # 0 /\ line[n] \notin state.loaded
    <3>1. PICK m \in Nat : m = n - 1
      BY <2>3, <2>6
    <3>2. Fine(m)
      <4>1. m \in 0 .. l /\ ~(n <= m)
        BY <2>3, <3>1
      <4> HIDE DEF Fine
      <4> QED BY <2>2, <4>1
    <3>3. n \in 1 .. l /\ f[n] = add_class_to_loadable_list(f[m], line[n])
      BY <1>7, <2>3, <2>6, <3>1
    <3>4. f[n].loaded = f[m].loaded \cup {line[n]}
      BY <3>3 DEF add_class_to_loadable_list
    <3>5. \A k \in 1 .. n : k = n \/ k \in 1 .. m
      BY <2>3, <3>1
    <3>6. 1 .. m \subseteq 1 .. l /\ n \notin 1 .. m /\ 1 .. m \subseteq 1 .. n /\ n \in 1 .. n
      BY <2>3, <3>1, <3>3
    <3>7. line[n] \notin f[m].loaded
      <4>1. \A k \in 1 .. m : line[k] # line[n]
        BY <1>4, <3>3, <3>6
      <4> QED BY <2>6, <3>2, <4>1
    <3>8. Range(Superclasses[line[n]]) \subseteq f[m].loaded \cup {line[n]}
      <4>1. \A k \in 1 .. n : line[k] \in f[m].loaded \cup {line[n]}
        BY <3>2, <3>5
      <4>2. \A s \in Range(Superclasses[line[n]]) : \E k \in 1 .. n : s = line[k]
        BY <1>4, <3>3
      <4> HIDE DEF Fine
      <4> QED BY <4>1, <4>2
    <3>9. Good(f[n], old, first, there)
      BY <1>4, <1>9, <3>2, <3>3, <3>7, <3>8, AddKeeps
    <3> QED BY <2>3, <3>2, <3>4, <3>5, <3>6, <3>9
  <2> QED BY <2>4, <2>5, <2>6
<1>11. Fine(l)
  <2> HIDE DEF Fine
  <2> QED BY <1>10
<1>12. l \in 1 .. l
  OBVIOUS
<1> QED BY <1>4, <1>6, <1>11, <1>12

\* The loop of prepare_load_methods over a list of classes.
IsPrepare(f, start, list, l) ==
  f = [n \in 0 .. l |-> IF n = 0 THEN start ELSE schedule_class_load(f[n - 1], list[n])]

Prepare(start, list) == CHOOSE f : IsPrepare(f, start, list, Len(list))

LEMMA PrepareDefined ==
  ASSUME NEW start, NEW list, NEW l \in Nat
  PROVE  \E f : IsPrepare(f, start, list, l)
<1> DEFINE Step(f, n) == IF n = 0 THEN start ELSE schedule_class_load(f[n - 1], list[n])
           Defined(m)  == \E f : f = [n \in 0 .. m |-> Step(f, n)]
           T           == {m \in Nat : ~Defined(m)}
<1>1. ASSUME T # {} PROVE FALSE
  <2>1. PICK m \in T : \A k \in T : m <= k
    BY <1>1, Least
  <2>2. m \in Nat /\ ~Defined(m)
    BY <2>1
  <2>3. CASE m = 0
    <3>1. PICK f : f = [n \in 0 .. m |-> start]
      OBVIOUS
    <3>2. f = [n \in 0 .. m |-> Step(f, n)]
      BY <2>3, <3>1
    <3> QED BY <2>2, <3>2
  <2>4. CASE m # 0
    <3>1. PICK k \in Nat : k = m - 1
      BY <2>2, <2>4
    <3>2. Defined(k)
      <4> HIDE DEF Defined
      <4> QED BY <2>1, <2>2, <3>1
    <3>3. PICK f : f = [n \in 0 .. k |-> Step(f, n)]
      BY <3>2
    <3>4. PICK g : g = [n \in 0 .. m |-> IF n = m THEN Step(f, m) ELSE f[n]]
      OBVIOUS
    <3>5. \A n \in 0 .. m : Step(g, n) = Step(f, n)
      <4>1. \A n \in 0 .. m : n # 0 => g[n - 1] = f[n - 1]
        BY <2>2, <3>1, <3>4
      <4> QED BY <4>1
    <3>6. \A n \in 0 .. k : f[n] = Step(f, n)
      BY <3>3
    <3>7. \A n \in 0 .. m : g[n] = Step(f, n)
      <4> HIDE DEF Step
      <4> QED BY <2>2, <3>1, <3>4, <3>6
    <3>8. g = [n \in 0 .. m |-> Step(g, n)]
      <4>1. \A n \in 0 .. m : g[n] = Step(g, n)
        BY <3>5, <3>7
      <4> HIDE DEF Step
      <4>2. g = [n \in 0 .. m |-> g[n]]
        BY <3>4
      <4> QED BY <4>1, <4>2
    <3> QED BY <2>2, <3>8
  <2> QED BY <2>3, <2>4
<1> HIDE DEF Defined
<1>2. Defined(l)
  BY <1>1
<1> QED BY <1>2 DEF Defined, IsPrepare

\* Every class of the image with +load is scheduled, after its superclasses.
LEMMA PrepareKeeps ==
  ASSUME NEW i \in Image, NEW start, NEW old, NEW first, NEW there,
         start = [classes |-> loadable_classes, loaded |-> loaded],
         Good(start, old, first, there), Group[i] \subseteq there
  PROVE  /\ Good(prepare_load_methods(i), old, first, there)
         /\ Range(nlclslist[i]) \subseteq prepare_load_methods(i).loaded
         /\ nlclslist[i] = <<>> => prepare_load_methods(i) = start
<1>1. PICK list, all : list = nlclslist[i] /\ all = clslist[i]
  OBVIOUS
<1>2. list \in Seq(all) /\ \A c \in all : c \in Class /\ ImageOf(c) = i
  BY <1>1, ImageAssumption, ImageProperties
<1>3. PICK l \in Nat : l = Len(list) /\ DOMAIN list = 1 .. l /\ \A n \in 1 .. l : list[n] \in all
  BY <1>2
<1>4. prepare_load_methods(i) = Prepare(start, list)[l]
  BY <1>1, <1>3, Zenon DEF prepare_load_methods, Prepare, IsPrepare
<1>5. PICK f : prepare_load_methods(i) = f[l] /\ IsPrepare(f, start, list, l)
  <2>1. \E f : IsPrepare(f, start, list, l)
    BY PrepareDefined
  <2> QED BY <1>3, <1>4, <2>1 DEF Prepare
<1>6. f[0] = start /\ \A n \in 1 .. l : f[n] = schedule_class_load(f[n - 1], list[n])
  BY <1>5 DEF IsPrepare
<1>7. \A n \in 1 .. l : list[n] \in Class /\ \A s \in Range(Superclasses[list[n]]) : ImageOf(s) \in there
  BY <1>2, <1>3, SuperclassImage
<1> DEFINE Fine(n) == /\ Good(f[n], old, first, there)
                      /\ \A k \in 1 .. n : list[k] \in f[n].loaded
           Wrong   == {n \in 0 .. l : ~Fine(n)}
<1>8. ASSUME Wrong # {} PROVE FALSE
  <2>1. Wrong \subseteq Nat
    OBVIOUS
  <2>2. PICK n \in Wrong : \A k \in Wrong : n <= k
    <3> HIDE DEF Wrong
    <3> QED BY <1>8, <2>1, Least
  <2>3. n \in 0 .. l /\ ~Fine(n) /\ n \in Nat
    OBVIOUS
  <2>4. CASE n = 0
    BY <1>6, <2>3, <2>4
  <2>5. CASE n # 0
    <3>1. PICK m \in Nat : m = n - 1
      BY <2>3, <2>5
    <3>2. Fine(m)
      <4>1. m \in 0 .. l /\ ~(n <= m)
        BY <2>3, <3>1
      <4> HIDE DEF Fine
      <4> QED BY <2>2, <4>1
    <3>3. n \in 1 .. l /\ f[n] = schedule_class_load(f[m], list[n])
      BY <1>6, <2>3, <2>5, <3>1
    <3>4. \A k \in 1 .. n : k = n \/ k \in 1 .. m
      BY <2>3, <3>1
    <3>5. Good(f[n], old, first, there) /\ f[m].loaded \cup {list[n]} \subseteq f[n].loaded
      BY <1>7, <3>2, <3>3, ScheduleKeeps
    <3> QED BY <2>3, <3>2, <3>4, <3>5
  <2> QED BY <2>4, <2>5
<1>9. Fine(l)
  <2> HIDE DEF Fine
  <2> QED BY <1>8
<1>10. list = <<>> => l = 0
  BY <1>3
<1> QED BY <1>1, <1>3, <1>5, <1>6, <1>9, <1>10 DEF Range

--------------------------------------------------------------------------------
(* What dyld tells of *)

\* The lists as the recursion starts with them.
LEMMA GoodStart ==
  ASSUME IInv
  PROVE  Good([classes |-> loadable_classes, loaded |-> loaded], loaded, called \cup Ahead, mapped)
<1>1. PICK start, first : start = [classes |-> loadable_classes, loaded |-> loaded] /\ first = called \cup Ahead
  OBVIOUS
<1>2. start.classes = loadable_classes /\ start.loaded = loaded
  BY <1>1
<1>3. Kept(start, loaded, mapped)
  BY <1>2 DEF IInv, TypeInv, ImagesInv, Kept
<1>4. start.loaded \cap Loadable \subseteq first \cup Range(start.classes)
  BY <1>1, <1>2 DEF IInv, CoverInv
<1>5. ASSUME ~ClosesWaiting PROVE Exact(start, first)
  <2>1. ExactInv /\ OrderInv
    BY <1>5 DEF IInv
  <2>2. Range(loadable_classes) \cup (first \cap Class) \subseteq loaded \cup {nil}
    BY <1>1, <2>1 DEF ExactInv
  <2>3. Ahead \subseteq Range(detached)
    BY DEF Ahead
  <2>4. Range(loadable_classes) \cap first \subseteq {nil}
    BY <1>1, <2>1, <2>3 DEF ExactInv
  <2>5. Distinct(loadable_classes) /\ Ordered(loadable_classes, first)
    BY <1>1, <2>1 DEF ExactInv, OrderInv
  <2> QED BY <1>2, <2>2, <2>4, <2>5 DEF Exact
<1> QED BY <1>1, <1>3, <1>4, <1>5 DEF Good

\* Two lists in one.
LEMMA Joined ==
  ASSUME NEW S, NEW a \in Seq(S), NEW b \in Seq(S)
  PROVE  /\ a \o b \in Seq(S) /\ Range(a \o b) = Range(a) \cup Range(b)
         /\ (Distinct(a) /\ Distinct(b) /\ Range(a) \cap Range(b) \subseteq {nil}) => Distinct(a \o b)
         /\ a = <<>> /\ b = <<>> => a \o b = <<>>
<1>1. PICK l \in Nat, m \in Nat : l = Len(a) /\ m = Len(b)
  OBVIOUS
<1>2. DOMAIN a = 1 .. l /\ DOMAIN b = 1 .. m
  BY <1>1
<1>3. PICK c : c = a \o b
  OBVIOUS
<1>4. /\ c \in Seq(S) /\ DOMAIN c = 1 .. l + m
      /\ \A n \in 1 .. l + m : c[n] = IF n <= l THEN a[n] ELSE b[n - l]
  BY <1>1, <1>3
<1>5. \A n \in 1 .. l : n \in 1 .. l + m /\ c[n] = a[n]
  BY <1>4
<1>6. \A n \in 1 .. m : l + n \in 1 .. l + m /\ c[l + n] = b[n]
  BY <1>4
<1>7. \A n \in 1 .. l + m : (n \in 1 .. l /\ c[n] = a[n]) \/ (n - l \in 1 .. m /\ c[n] = b[n - l])
  BY <1>4
<1>8. Range(c) = Range(a) \cup Range(b)
  <2>1. \A x \in Range(c) : x \in Range(a) \/ x \in Range(b)
    BY <1>2, <1>4, <1>7 DEF Range
  <2>2. \A x \in Range(a) : x \in Range(c)
    BY <1>2, <1>4, <1>5 DEF Range
  <2>3. ASSUME NEW x \in Range(b) PROVE x \in Range(c)
    <3>1. PICK n \in 1 .. m : x = b[n]
      BY <1>2 DEF Range
    <3>2. l + n \in DOMAIN c /\ c[l + n] = x
      BY <1>4, <1>6, <3>1
    <3> QED BY <3>2 DEF Range
  <2> QED BY <2>1, <2>2, <2>3
<1>9. ASSUME Distinct(a), Distinct(b), Range(a) \cap Range(b) \subseteq {nil} PROVE Distinct(c)
  <2>1. /\ \A n \in 1 .. l : a[n] \in Range(a)
        /\ \A n \in 1 .. m : b[n] \in Range(b)
    BY <1>2 DEF Range
  <2>2. ASSUME NEW p \in 1 .. l + m, NEW n \in 1 .. l + m, c[p] = c[n], c[p] # nil PROVE p = n
    <3>1. CASE p \in 1 .. l /\ c[p] = a[p] /\ n \in 1 .. l /\ c[n] = a[n]
      BY <1>2, <1>9, <2>2, <3>1 DEF Distinct
    <3>2. CASE p - l \in 1 .. m /\ c[p] = b[p - l] /\ n - l \in 1 .. m /\ c[n] = b[n - l]
      <4>1. p - l = n - l
        BY <1>2, <1>9, <2>2, <3>2 DEF Distinct
      <4> QED BY <4>1
    <3>3. CASE p \in 1 .. l /\ c[p] = a[p] /\ n - l \in 1 .. m /\ c[n] = b[n - l]
      BY <1>9, <2>1, <2>2, <3>3
    <3>4. CASE p - l \in 1 .. m /\ c[p] = b[p - l] /\ n \in 1 .. l /\ c[n] = a[n]
      BY <1>9, <2>1, <2>2, <3>4
    <3> QED BY <1>7, <3>1, <3>2, <3>3, <3>4
  <2> QED BY <1>4, <2>2 DEF Distinct
<1>10. a = <<>> /\ b = <<>> => c = <<>>
  BY <1>3
<1> QED BY <1>3, <1>4, <1>8, <1>9, <1>10

LEMMA LoadImagesStep ==
  ASSUME IInv, NEW i \in Image, load_images(i) PROVE IInv'
<1>1. PICK p, first, start :
        /\ p = prepare_load_methods(i) /\ first = called \cup Ahead
        /\ start = [classes |-> loadable_classes, loaded |-> loaded]
  OBVIOUS
<1>2. /\ i \in mapped /\ i \notin notified /\ Before[i] \subseteq notified /\ notified' = notified \cup {i}
      /\ loadable_classes' = p.classes /\ loaded' = p.loaded
      /\ loadable_categories' = loadable_categories \o nlcatlist[i]
      /\ phase' = (IF phase = "idle" /\ hasLoadMethods(i) THEN "loop" ELSE phase)
      /\ mapped' = mapped /\ detached' = detached /\ running' = running /\ called' = called
  BY <1>1 DEF load_images
<1>3. /\ TypeInv /\ PhaseInv /\ ImagesInv /\ CoverInv
      /\ ~ClosesWaiting => ExactInv /\ OrderInv
  BY DEF IInv
<1>4. /\ Good(p, loaded, first, mapped) /\ Range(nlclslist[i]) \subseteq p.loaded
      /\ nlclslist[i] = <<>> => p = start
  <2>1. Group[i] \subseteq mapped
    BY <1>2, <1>3 DEF ImagesInv
  <2>2. Good(start, loaded, first, mapped)
    BY <1>1, GoodStart
  <2> QED BY <1>1, <2>1, <2>2, PrepareKeeps
<1>5. /\ p.classes \in Seq(Loadable \cup {nil}) /\ p.loaded \subseteq Class /\ loaded \subseteq p.loaded
      /\ \A c \in p.loaded : ImageOf(c) \in mapped /\ Range(Superclasses[c]) \subseteq p.loaded
      /\ p.loaded \cap Loadable \subseteq first \cup Range(p.classes)
      /\ ~ClosesWaiting => Exact(p, first)
  BY <1>4 DEF Good, Kept
<1>6. nlcatlist[i] \in Seq(Category) /\ Range(nlcatlist[i]) = Categories(i) /\ Distinct(nlcatlist[i])
  BY ImageAssumption DEF Categories, Distinct
<1>7. nlcatlist[i] \in Seq(Category \cup {nil}) /\ nil \notin Categories(i) /\ Categories(i) \subseteq Category
  BY <1>6, ImageProperties
<1>8. /\ loadable_categories' \in Seq(Category \cup {nil})
      /\ Range(loadable_categories') = Range(loadable_categories) \cup Categories(i)
      /\ (/\ Distinct(loadable_categories) /\ Range(loadable_categories) \cap Categories(i) \subseteq {nil})
           => Distinct(loadable_categories')
      /\ loadable_categories = <<>> /\ nlcatlist[i] = <<>> => loadable_categories' = <<>>
  BY <1>2, <1>3, <1>6, <1>7, Joined DEF TypeInv
<1>9. /\ phase = "classes" <=> phase' = "classes"
      /\ phase = "categories" <=> phase' = "categories"
  BY <1>2
<1>10. Ahead' = Ahead /\ AheadCategory' = AheadCategory
  BY <1>2, <1>9 DEF Ahead, AheadCategory
<1>11. TypeInv'
  BY <1>2, <1>3, <1>5, <1>8 DEF TypeInv
<1>12. PhaseInv'
  <2>1. ASSUME phase' = "idle" PROVE loadable_classes' = <<>> /\ loadable_categories' = <<>>
    <3>1. phase = "idle" /\ nlclslist[i] = <<>> /\ nlcatlist[i] = <<>>
      BY <1>2, <2>1 DEF hasLoadMethods
    <3>2. p.classes = loadable_classes
      BY <1>1, <1>4, <3>1
    <3> QED BY <1>2, <1>3, <1>8, <3>1, <3>2 DEF PhaseInv
  <2>2. phase' \in {"idle", "loop"} => phase \in {"idle", "loop"}
    BY <1>2
  <2> QED BY <1>2, <1>3, <2>1, <2>2 DEF PhaseInv
<1>13. ImagesInv'
  <2>1. \A j \in notified \cup {i} : Before[j] \subseteq notified \cup {i} /\ Range(nlclslist[j]) \subseteq p.loaded
    BY <1>2, <1>3, <1>4, <1>5 DEF ImagesInv
  <2> QED BY <1>2, <1>3, <1>5, <2>1 DEF ImagesInv
<1>14. CoverInv'
  <2>1. p.loaded \cap Loadable \subseteq called \cup Ahead \cup Range(p.classes)
    BY <1>1, <1>5
  <2> QED BY <1>2, <1>3, <1>8, <1>10, <2>1 DEF CoverInv
<1>15. ASSUME ~ClosesWaiting PROVE ExactInv' /\ OrderInv'
  <2>1. ExactInv /\ OrderInv /\ Exact(p, first)
    BY <1>3, <1>5, <1>15
  <2>2. Ahead \subseteq Loadable \cup {nil}
    BY <1>3 DEF TypeInv, Ahead
  <2>3. Ahead \cup Range(p.classes) \cup (called \cap Class) \subseteq p.loaded \cup {nil}
    BY <1>1, <1>5, <2>1 DEF ExactInv, Exact
  <2>4. \A k \in AheadCategory \cup Range(loadable_categories) \cup (called \cap Category) :
           k # nil => k \notin Categories(i)
    <3>1. \A j \in notified : \A k \in Categories(j) : k \notin Categories(i)
      BY <1>2, <1>3, ImageProperties DEF TypeInv
    <3> QED BY <2>1, <3>1 DEF ExactInv
  <2>5. \A k \in AheadCategory \cup Range(loadable_categories') \cup (called \cap Category) :
           k # nil => \E j \in notified \cup {i} : k \in Categories(j)
    BY <1>8, <2>1 DEF ExactInv
  <2>6. Distinct(p.classes) /\ Distinct(detached) /\ Distinct(loadable_categories')
    BY <1>8, <2>1, <2>4 DEF ExactInv, Exact
  <2>7. Range(detached) \cap Range(p.classes) \subseteq {nil}
    <3>1. Range(p.classes) \subseteq Loadable \cup {nil}
      BY <1>5 DEF Range
    <3>2. CASE phase = "classes"
      BY <1>1, <2>1, <3>2 DEF Exact, Ahead
    <3>3. CASE phase = "categories"
      BY <1>3, <3>1, <3>3, ImageProperties DEF TypeInv
    <3>4. CASE phase \in {"idle", "loop"}
      BY <1>3, <3>4 DEF PhaseInv, Range
    <3> QED BY <1>3, <3>2, <3>3, <3>4 DEF TypeInv
  <2>8. Range(detached) \cap Range(loadable_categories') \subseteq {nil}
    <3>1. Range(detached) \cap Range(loadable_categories) \subseteq {nil}
      BY <2>1 DEF ExactInv
    <3>2. CASE phase = "classes"
      BY <1>3, <1>7, <1>8, <3>1, <3>2, ImageProperties DEF TypeInv
    <3>3. CASE phase = "categories"
      BY <1>8, <2>4, <3>1, <3>3 DEF AheadCategory
    <3>4. CASE phase \in {"idle", "loop"}
      BY <1>3, <3>4 DEF PhaseInv, Range
    <3> QED BY <1>3, <3>2, <3>3, <3>4 DEF TypeInv
  <2>9. called \cap (Range(detached) \cup Range(p.classes) \cup Range(loadable_categories')) = {}
    <3>1. nil \notin called
      BY <1>3, ImageProperties DEF TypeInv
    <3>2. called \cap Range(p.classes) = {}
      BY <1>1, <2>1, <3>1 DEF Exact
    <3>3. called \cap Categories(i) = {}
      BY <1>7, <2>4
    <3> QED BY <1>8, <2>1, <3>2, <3>3 DEF ExactInv
  <2>10. ExactInv'
    BY <1>2, <1>10, <2>3, <2>5, <2>6, <2>7, <2>8, <2>9 DEF ExactInv
  <2>11. OrderInv'
    <3>1. Ordered(p.classes, called \cup Ahead)
      BY <1>1, <2>1 DEF Exact
    <3> QED BY <1>2, <1>9, <1>10, <2>1, <3>1 DEF OrderInv
  <2> QED BY <2>10, <2>11
<1> QED BY <1>11, <1>12, <1>13, <1>14, <1>15 DEF IInv

LEMMA DlopenStep ==
  ASSUME IInv, NEW i \in Image, dlopen(i) PROVE IInv'
<1>1. /\ mapped' = mapped \cup Group[i]
      /\ UNCHANGED <<notified, lists, loaded, phase, detached, running, called>>
  BY DEF dlopen
<1>2. Group[i] \subseteq Image /\ \A j \in Group[i] : Group[j] \subseteq Group[i]
  BY ImageAssumption
<1>3. TypeInv'
  BY <1>1, <1>2 DEF IInv, TypeInv, lists
<1>4. ImagesInv'
  BY <1>1, <1>2 DEF IInv, ImagesInv, lists
<1>5. PhaseInv' /\ CoverInv' /\ (~ClosesWaiting => ExactInv' /\ OrderInv')
  BY <1>1 DEF IInv, PhaseInv, CoverInv, ExactInv, OrderInv, lists, Ahead, AheadCategory
<1> QED BY <1>3, <1>4, <1>5 DEF IInv

\* A list after its image is unmapped: the others keep their places.
LEMMA Unscheduling ==
  ASSUME NEW S, nil \in S, NEW list \in Seq(S), NEW xs, NEW left, left = Unscheduled(list, xs)
  PROVE  /\ left \in Seq(S) /\ DOMAIN left = DOMAIN list
         /\ \A n \in DOMAIN list : left[n] = IF list[n] \in xs THEN nil ELSE list[n]
         /\ Range(left) \subseteq (Range(list) \ xs) \cup {nil} /\ Range(list) \ xs \subseteq Range(left)
         /\ Distinct(list) => Distinct(left)
         /\ list = <<>> => left = <<>>
<1>1. PICK l \in Nat : l = Len(list) /\ DOMAIN list = 1 .. l
  OBVIOUS
<1>2. left = [n \in 1 .. l |-> IF list[n] \in xs THEN nil ELSE list[n]]
  BY <1>1 DEF Unscheduled
<1>3. /\ DOMAIN left = 1 .. l
      /\ \A n \in 1 .. l : left[n] = IF list[n] \in xs THEN nil ELSE list[n]
  BY <1>2
<1>4. left \in Seq(S)
  <2>1. \A n \in 1 .. l : (IF list[n] \in xs THEN nil ELSE list[n]) \in S
    BY <1>1
  <2> QED BY <1>2, <2>1
<1>5. Range(left) \subseteq (Range(list) \ xs) \cup {nil} /\ Range(list) \ xs \subseteq Range(left)
  BY <1>1, <1>3 DEF Range
<1>6. Distinct(list) => Distinct(left)
  BY <1>1, <1>3 DEF Distinct
<1>7. list = <<>> => left = <<>>
  BY <1>1, <1>3, <1>4
<1> QED BY <1>1, <1>3, <1>4, <1>5, <1>6, <1>7

\* A class that is RW_LOADED in another image has no superclass in an image that may go.
LEMMA UnmapImageStep ==
  ASSUME IInv, NEW i \in Image, unmap_image(i) PROVE IInv'
<1>1. PICK gone : gone = Contents(i)
  OBVIOUS
<1>2. /\ i \in mapped /\ \A j \in mapped \ {i} : i \notin Group[j]
      /\ ClosesWaiting \/ gone \cap Range(detached) = {}
      /\ loadable_classes' = Unscheduled(loadable_classes, gone)
      /\ loadable_categories' = Unscheduled(loadable_categories, gone)
      /\ mapped' = mapped \ {i} /\ notified' = notified \ {i}
      /\ loaded' = loaded \ gone /\ called' = called \ gone
      /\ phase' = phase /\ detached' = detached /\ running' = running
  BY <1>1 DEF unmap_image
<1>3. /\ TypeInv /\ PhaseInv /\ ImagesInv /\ CoverInv
      /\ ~ClosesWaiting => ExactInv /\ OrderInv
  BY DEF IInv
<1>4. nil \notin gone /\ gone \subseteq Class \cup Category
  BY <1>1, ImageProperties
<1>5. /\ loadable_classes' \in Seq(Loadable \cup {nil}) /\ DOMAIN loadable_classes' = DOMAIN loadable_classes
      /\ \A n \in DOMAIN loadable_classes :
           loadable_classes'[n] = IF loadable_classes[n] \in gone THEN nil ELSE loadable_classes[n]
      /\ Range(loadable_classes') \subseteq (Range(loadable_classes) \ gone) \cup {nil}
      /\ Range(loadable_classes) \ gone \subseteq Range(loadable_classes')
      /\ Distinct(loadable_classes) => Distinct(loadable_classes')
      /\ loadable_classes = <<>> => loadable_classes' = <<>>
  <2>1. loadable_classes \in Seq(Loadable \cup {nil}) /\ nil \in Loadable \cup {nil}
    BY <1>3 DEF TypeInv
  <2> QED BY <1>2, <2>1, Unscheduling
<1>6. /\ loadable_categories' \in Seq(Category \cup {nil})
      /\ Range(loadable_categories') \subseteq (Range(loadable_categories) \ gone) \cup {nil}
      /\ Range(loadable_categories) \ gone \subseteq Range(loadable_categories')
      /\ Distinct(loadable_categories) => Distinct(loadable_categories')
      /\ loadable_categories = <<>> => loadable_categories' = <<>>
  <2>1. loadable_categories \in Seq(Category \cup {nil}) /\ nil \in Category \cup {nil}
    BY <1>3 DEF TypeInv
  <2> QED BY <1>2, <2>1, Unscheduling
<1>7. Ahead' = Ahead /\ AheadCategory' = AheadCategory
  BY <1>2 DEF Ahead, AheadCategory
<1>8. \A j \in Image \ {i} : clslist[j] \cap gone = {} /\ Range(nlclslist[j]) \cap gone = {} /\ Categories(j) \cap gone = {}
  <2>1. \A j \in Image \ {i} : Contents(i) \cap Contents(j) = {} /\ Range(nlclslist[j]) \subseteq clslist[j]
    BY ImageAssumption, ImageProperties
  <2> QED BY <1>1, <2>1 DEF Contents
<1>9. ASSUME NEW j \in mapped \ {i}
      PROVE  /\ \A b \in Before[j] \cup {j} : b # i /\ b \in Group[j]
             /\ \A b \in Group[j] : b # i
  <2>1. Before[j] \subseteq Group[j] /\ j \in Group[j]
    BY <1>3, ImageAssumption DEF TypeInv
  <2> QED BY <1>2, <2>1
<1>10. \A c \in Class : ImageOf(c) = i <=> c \in gone
  <2>1. \A c \in Class : ImageOf(c) = i => c \in gone
    BY <1>1, ImageProperties DEF Contents
  <2>2. \A c \in gone : ImageOf(c) = i
    BY <1>1, ImageProperties
  <2> QED BY <2>1, <2>2
<1>11. ASSUME NEW j \in mapped \ {i}, NEW c \in Class, ImageOf(c) \in Group[j]
       PROVE  \A s \in Range(Superclasses[c]) : s \notin gone
  <2>1. ASSUME NEW s \in Range(Superclasses[c]) PROVE s \notin gone
    <3>1. s \in Class /\ ImageOf(s) \in Group[ImageOf(c)]
      BY SuperclassImage
    <3>2. Group[ImageOf(c)] \subseteq Group[j]
      BY <1>3, <1>11, ImageAssumption DEF TypeInv
    <3>3. ImageOf(s) # i
      BY <1>9, <3>1, <3>2
    <3> QED BY <1>10, <3>1, <3>3
  <2> QED BY <2>1
<1>12. ASSUME NEW c \in loaded \ gone
       PROVE  ImageOf(c) \in mapped \ {i} /\ Range(Superclasses[c]) \subseteq loaded \ gone
  <2>1. c \in Class /\ ImageOf(c) \in mapped /\ Range(Superclasses[c]) \subseteq loaded
    BY <1>3 DEF TypeInv, ImagesInv
  <2>2. ImageOf(c) # i
    BY <1>10, <1>12, <2>1
  <2>3. ImageOf(c) \in Group[ImageOf(c)]
    BY <1>3, <2>1, ImageAssumption DEF TypeInv
  <2> QED BY <1>11, <2>1, <2>2, <2>3
<1>13. TypeInv'
  BY <1>2, <1>3, <1>5, <1>6 DEF TypeInv
<1>14. PhaseInv'
  BY <1>2, <1>3, <1>5, <1>6 DEF PhaseInv
<1>15. ImagesInv'
  <2>1. \A j \in mapped' : Group[j] \subseteq mapped'
    BY <1>2, <1>3, <1>9 DEF ImagesInv
  <2>2. ASSUME NEW j \in notified' PROVE Before[j] \subseteq notified' /\ Range(nlclslist[j]) \subseteq loaded'
    <3>1. j \in mapped \ {i} /\ j \in notified /\ j \in Image \ {i}
      BY <1>2, <1>3, <2>2 DEF TypeInv
    <3> QED BY <1>2, <1>3, <1>8, <1>9, <3>1 DEF ImagesInv
  <2> QED BY <1>2, <1>12, <2>1, <2>2 DEF ImagesInv
<1>16. CoverInv'
  <2>1. loaded' \cap Loadable \subseteq called' \cup Ahead \cup Range(loadable_classes')
    BY <1>2, <1>3, <1>5 DEF CoverInv
  <2>2. ASSUME NEW j \in notified', NEW k \in Categories(j)
        PROVE  k \in called' \cup AheadCategory \cup Range(loadable_categories')
    <3>1. k \notin gone /\ j \in notified
      BY <1>2, <1>3, <1>8, <2>2 DEF TypeInv
    <3> QED BY <1>2, <1>3, <1>6, <3>1 DEF CoverInv
  <2> QED BY <1>7, <2>1, <2>2 DEF CoverInv
<1>17. ASSUME ~ClosesWaiting PROVE ExactInv' /\ OrderInv'
  <2>1. ExactInv /\ OrderInv /\ gone \cap Range(detached) = {}
    BY <1>2, <1>3, <1>17
  <2>2. Ahead \subseteq Range(detached) /\ AheadCategory \subseteq Range(detached)
    BY DEF Ahead, AheadCategory
  <2>3. Ahead \cup Range(loadable_classes') \cup (called' \cap Class) \subseteq loaded' \cup {nil}
    BY <1>2, <1>5, <2>1, <2>2 DEF ExactInv
  <2>4. ASSUME NEW k \in AheadCategory \cup Range(loadable_categories') \cup (called' \cap Category), k # nil
        PROVE  \E j \in notified' : k \in Categories(j)
    <3>1. k \in AheadCategory \cup Range(loadable_categories) \cup (called \cap Category) /\ k \notin gone
      BY <1>2, <1>6, <2>1, <2>2, <2>4
    <3>2. PICK j \in notified : k \in Categories(j)
      BY <2>1, <2>4, <3>1 DEF ExactInv
    <3>3. j # i
      BY <1>1, <3>1, <3>2 DEF Contents
    <3> QED BY <1>2, <3>2, <3>3
  <2>5. ExactInv'
    <3>1. Distinct(detached') /\ Distinct(loadable_classes') /\ Distinct(loadable_categories')
      BY <1>2, <1>5, <1>6, <2>1 DEF ExactInv
    <3>2. Range(detached') \cap (Range(loadable_classes') \cup Range(loadable_categories')) \subseteq {nil}
      BY <1>2, <1>5, <1>6, <2>1 DEF ExactInv
    <3>3. called' \cap (Range(detached') \cup Range(loadable_classes') \cup Range(loadable_categories')) = {}
      <4>1. nil \notin called
        BY <1>3, ImageProperties DEF TypeInv
      <4> QED BY <1>2, <1>5, <1>6, <2>1, <4>1 DEF ExactInv
    <3> QED BY <1>7, <2>3, <2>4, <3>1, <3>2, <3>3 DEF ExactInv
  <2>6. ASSUME NEW c \in loaded \ gone PROVE Above(c) \cap gone = {}
    BY <1>12 DEF Above
  <2>7. Ordered(loadable_classes', called' \cup Ahead')
    <3>1. ASSUME NEW n \in DOMAIN loadable_classes, loadable_classes'[n] # nil
          PROVE  Above(loadable_classes'[n]) \subseteq
                   (called' \cup Ahead) \cup {loadable_classes'[k] : k \in 1 .. n - 1}
      <4>1. PICK c : c = loadable_classes[n]
        OBVIOUS
      <4>2. c \notin gone /\ c # nil /\ loadable_classes'[n] = c
        BY <1>5, <3>1, <4>1
      <4>3. c \in loaded
        BY <2>1, <4>1, <4>2 DEF ExactInv, Range
      <4>4. Above(c) \subseteq (called \cup Ahead) \cup {loadable_classes[k] : k \in 1 .. n - 1}
        BY <2>1, <4>1, <4>2 DEF OrderInv, Ordered
      <4>5. PICK l \in Nat : l = Len(loadable_classes) /\ DOMAIN loadable_classes = 1 .. l
        BY <1>3 DEF TypeInv
      <4>6. 1 .. n - 1 \subseteq 1 .. l
        BY <4>5
      <4>7. ASSUME NEW s \in Above(c)
            PROVE  s \in (called' \cup Ahead) \cup {loadable_classes'[k] : k \in 1 .. n - 1}
        <5>1. s \notin gone
          BY <2>6, <4>2, <4>3
        <5>2. CASE s \in called \cup Ahead
          BY <1>2, <5>1, <5>2
        <5>3. CASE s \in {loadable_classes[k] : k \in 1 .. n - 1}
          <6>1. PICK k \in 1 .. n - 1 : s = loadable_classes[k]
            BY <5>3
          <6>2. loadable_classes'[k] = s
            BY <1>5, <4>5, <4>6, <5>1, <6>1
          <6> QED BY <6>2
        <5> QED BY <4>4, <5>2, <5>3
      <4> QED BY <4>2, <4>7
    <3> QED BY <1>5, <1>7, <3>1 DEF Ordered
  <2>8. ASSUME phase' = "classes" PROVE Ordered(detached', called')
    <3>1. ASSUME NEW n \in DOMAIN detached, detached[n] # nil
          PROVE  Above(detached[n]) \subseteq called' \cup {detached[k] : k \in 1 .. n - 1}
      <4>1. Above(detached[n]) \subseteq called \cup {detached[k] : k \in 1 .. n - 1}
        BY <1>2, <2>1, <2>8, <3>1 DEF OrderInv, Ordered
      <4>2. detached[n] \in Range(detached) /\ detached[n] \in Ahead
        BY <1>2, <2>8 DEF Range, Ahead
      <4>3. detached[n] \in loaded \ gone
        BY <2>1, <3>1, <4>2 DEF ExactInv
      <4>4. Above(detached[n]) \cap gone = {}
        BY <2>6, <4>3
      <4> QED BY <1>2, <4>1, <4>4
    <3> QED BY <1>2, <3>1 DEF Ordered
  <2>9. ASSUME NEW k \in AheadCategory \ {nil}, ClassOf[k] \in Loadable
        PROVE  Range(Superclasses[ClassOf[k]]) \cap Loadable \subseteq called'
    <3>1. PICK j \in notified' : k \in Categories(j)
      BY <2>4, <2>9
    <3>2. j \in mapped \ {i} /\ j \in Image
      BY <1>2, <1>3, <3>1 DEF TypeInv
    <3>3. ImageOf(ClassOf[k]) \in Before[j] \cup {j} /\ ClassOf[k] \in Class
      BY <2>9, <3>1, <3>2, ImageAssumption, ImageProperties
    <3>4. ImageOf(ClassOf[k]) \in Group[j]
      BY <1>9, <3>2, <3>3
    <3>5. \A s \in Range(Superclasses[ClassOf[k]]) : s \notin gone
      BY <1>11, <3>2, <3>3, <3>4
    <3>6. Range(Superclasses[ClassOf[k]]) \cap Loadable \subseteq called
      BY <2>1, <2>9 DEF OrderInv
    <3> QED BY <1>2, <3>5, <3>6
  <2>10. OrderInv'
    BY <1>7, <2>7, <2>8, <2>9 DEF OrderInv
  <2> QED BY <2>5, <2>10
<1> QED BY <1>13, <1>14, <1>15, <1>16, <1>17 DEF IInv

--------------------------------------------------------------------------------
(* The outermost call_load_methods *)

LEMMA DetachClassesStep ==
  ASSUME IInv, detach_classes PROVE IInv'
<1>1. /\ phase = "loop" /\ phase' = "classes"
      /\ detached' = loadable_classes /\ loadable_classes' = <<>>
      /\ mapped' = mapped /\ notified' = notified /\ loadable_categories' = loadable_categories
      /\ loaded' = loaded /\ running' = running /\ called' = called
  BY DEF detach_classes
<1>2. /\ TypeInv /\ PhaseInv /\ ImagesInv /\ CoverInv
      /\ ~ClosesWaiting => ExactInv /\ OrderInv
  BY DEF IInv
<1>3. /\ Ahead = {} /\ Ahead' = Range(loadable_classes)
      /\ AheadCategory = {} /\ AheadCategory' = {} /\ Range(loadable_classes') = {}
  BY <1>1 DEF Ahead, AheadCategory, Range
<1>4. loadable_classes \in Seq(Loadable \cup Category \cup {nil}) /\ Range(loadable_classes) \subseteq Loadable \cup {nil}
  BY <1>2 DEF TypeInv, Range
<1>5. TypeInv'
  <2>1. loadable_classes' \in Seq(Loadable \cup {nil})
    BY <1>1
  <2> QED BY <1>1, <1>2, <1>4, <2>1 DEF TypeInv
<1>6. PhaseInv'
  BY <1>1 DEF PhaseInv
<1>7. ImagesInv'
  BY <1>1, <1>2 DEF ImagesInv
<1>8. CoverInv'
  BY <1>1, <1>2, <1>3 DEF CoverInv
<1>9. ASSUME ~ClosesWaiting PROVE ExactInv' /\ OrderInv'
  <2>1. ExactInv /\ OrderInv
    BY <1>2, <1>9
  <2>2. Range(loadable_classes) \cap Range(loadable_categories) \subseteq {nil}
    BY <1>2, <1>4, ImageProperties DEF TypeInv, Range
  <2>3. Distinct(loadable_classes')
    BY <1>1 DEF Distinct
  <2>4. ExactInv'
    BY <1>1, <1>3, <2>1, <2>2, <2>3 DEF ExactInv
  <2>5. Ordered(detached', called') /\ Ordered(loadable_classes', called' \cup Ahead')
    <3>1. Ordered(loadable_classes, called)
      BY <1>3, <2>1 DEF OrderInv
    <3>2. Ordered(<<>>, called' \cup Ahead')
      BY DEF Ordered
    <3> QED BY <1>1, <3>1, <3>2
  <2>6. OrderInv'
    BY <1>3, <2>5 DEF OrderInv
  <2> QED BY <2>4, <2>6
<1> QED BY <1>5, <1>6, <1>7, <1>8, <1>9 DEF IInv

LEMMA DetachCategoriesStep ==
  ASSUME IInv, detach_categories PROVE IInv'
<1>1. /\ phase = "loop" /\ phase' = "categories" /\ loadable_classes = <<>>
      /\ detached' = loadable_categories /\ loadable_categories' = <<>>
      /\ mapped' = mapped /\ notified' = notified /\ loadable_classes' = loadable_classes
      /\ loaded' = loaded /\ running' = running /\ called' = called
  BY DEF detach_categories
<1>2. /\ TypeInv /\ PhaseInv /\ ImagesInv /\ CoverInv
      /\ ~ClosesWaiting => ExactInv /\ OrderInv
  BY DEF IInv
<1>3. /\ Ahead = {} /\ Ahead' = {} /\ Range(loadable_classes) = {}
      /\ AheadCategory = {} /\ AheadCategory' = Range(loadable_categories) /\ Range(loadable_categories') = {}
  BY <1>1 DEF Ahead, AheadCategory, Range
<1>4. /\ loadable_categories \in Seq(Loadable \cup Category \cup {nil})
      /\ Range(loadable_categories) \subseteq Category \cup {nil}
  BY <1>2 DEF TypeInv, Range
<1>5. TypeInv'
  <2>1. loadable_categories' \in Seq(Category \cup {nil})
    BY <1>1
  <2> QED BY <1>1, <1>2, <1>4, <2>1 DEF TypeInv
<1>6. PhaseInv'
  BY <1>1 DEF PhaseInv
<1>7. ImagesInv'
  BY <1>1, <1>2 DEF ImagesInv
<1>8. CoverInv'
  BY <1>1, <1>2, <1>3 DEF CoverInv
<1>9. ASSUME ~ClosesWaiting PROVE ExactInv' /\ OrderInv'
  <2>1. ExactInv /\ OrderInv
    BY <1>2, <1>9
  <2>2. Distinct(loadable_categories')
    BY <1>1 DEF Distinct
  <2>3. ExactInv'
    BY <1>1, <1>3, <2>1, <2>2 DEF ExactInv
  <2>4. ASSUME NEW k \in Range(loadable_categories) \ {nil}, ClassOf[k] \in Loadable
        PROVE  Range(Superclasses[ClassOf[k]]) \cap Loadable \subseteq called
    <3>1. PICK j \in notified : k \in Categories(j)
      BY <2>1, <2>4 DEF ExactInv
    <3>2. j \in Image /\ Before[j] \subseteq notified
      BY <1>2, <3>1 DEF TypeInv, ImagesInv
    <3>3. ImageOf(ClassOf[k]) \in notified
      BY <3>1, <3>2, ImageAssumption
    <3>4. ClassOf[k] \in Range(nlclslist[ImageOf(ClassOf[k])])
      BY <2>4, ImageProperties
    <3>5. ClassOf[k] \in loaded
      BY <1>2, <3>3, <3>4 DEF ImagesInv
    <3>6. Range(Superclasses[ClassOf[k]]) \subseteq loaded
      BY <1>2, <3>5 DEF ImagesInv
    <3> QED BY <1>2, <1>3, <3>6 DEF CoverInv
  <2>5. Ordered(loadable_classes', called' \cup Ahead')
    BY <1>1 DEF Ordered
  <2>6. OrderInv'
    BY <1>1, <1>3, <2>4, <2>5 DEF OrderInv
  <2> QED BY <2>3, <2>6
<1> QED BY <1>5, <1>6, <1>7, <1>8, <1>9 DEF IInv

\* What a list of S, x at its head, and the rest of it have in common.
Headed(S, list, x, rest) ==
  /\ rest \in Seq(S) /\ Range(list) = Range(rest) \cup {x} /\ x \in S
  /\ Distinct(list) => Distinct(rest) /\ (x # nil => x \notin Range(rest))
  /\ \A first : Ordered(list, first) =>
       Ordered(rest, first \cup ({x} \ {nil})) /\ (x # nil => Above(x) \subseteq first)

LEMMA HeadOf ==
  ASSUME NEW S, NEW list \in Seq(S), list # <<>>
  PROVE  Headed(S, list, Head(list), Tail(list))
<1>0. PICK x, rest : x = Head(list) /\ rest = Tail(list)
  OBVIOUS
<1>1. PICK l \in Nat : Len(list) = l + 1
  <2>1. Len(list) \in Nat /\ Len(list) # 0
    OBVIOUS
  <2>2. Len(list) - 1 \in Nat /\ Len(list) = (Len(list) - 1) + 1
    BY <2>1
  <2> QED BY <2>2
<1>2. /\ rest \in Seq(S) /\ DOMAIN list = 1 .. l + 1 /\ DOMAIN rest = 1 .. l
      /\ \A n \in 1 .. l : rest[n] = list[n + 1]
      /\ x = list[1] /\ x \in S
  BY <1>0, <1>1
<1>3. \A n \in 1 .. l + 1 : n = 1 \/ (n - 1 \in 1 .. l /\ list[n] = rest[n - 1])
  BY <1>2
<1>4. 1 \in 1 .. l + 1 /\ \A n \in 1 .. l : n + 1 \in 1 .. l + 1 /\ n + 1 # 1
  OBVIOUS
<1>5. Range(list) = Range(rest) \cup {x}
  <2>1. ASSUME NEW y \in Range(list) PROVE y = x \/ y \in Range(rest)
    <3>1. PICK n \in 1 .. l + 1 : y = list[n]
      BY <1>2 DEF Range
    <3>2. n = 1 \/ (n - 1 \in DOMAIN rest /\ y = rest[n - 1])
      BY <1>2, <1>3, <3>1
    <3> QED BY <1>2, <3>1, <3>2 DEF Range
  <2>2. \A y \in Range(rest) : y \in Range(list)
    BY <1>2, <1>4 DEF Range
  <2>3. x \in Range(list)
    BY <1>2, <1>4 DEF Range
  <2> QED BY <2>1, <2>2, <2>3
<1>6. ASSUME Distinct(list) PROVE Distinct(rest) /\ (x # nil => x \notin Range(rest))
  <2>1. \A m, n \in 1 .. l + 1 : list[m] = list[n] /\ list[m] # nil => m = n
    BY <1>2, <1>6 DEF Distinct
  <2>2. \A m, n \in 1 .. l : rest[m] = rest[n] /\ rest[m] # nil => m + 1 = n + 1
    BY <1>2, <1>4, <2>1
  <2>3. \A m, n \in 1 .. l : m + 1 = n + 1 => m = n
    OBVIOUS
  <2>4. \A n \in 1 .. l : rest[n] = x => x = nil
    BY <1>2, <1>4, <2>1
  <2> QED BY <1>2, <2>2, <2>3, <2>4 DEF Distinct, Range
<1>7. ASSUME NEW first, Ordered(list, first)
      PROVE  Ordered(rest, first \cup ({x} \ {nil})) /\ (x # nil => Above(x) \subseteq first)
  <2>1. ASSUME NEW n \in 1 .. l, rest[n] # nil
        PROVE  Above(rest[n]) \subseteq (first \cup ({x} \ {nil})) \cup {rest[k] : k \in 1 .. n - 1}
    <3>1. n + 1 \in DOMAIN list /\ list[n + 1] = rest[n] /\ (n + 1) - 1 = n /\ n \in 1 .. l
      BY <1>2, <1>4
    <3>2. Above(rest[n]) \subseteq first \cup {list[k] : k \in 1 .. n}
      BY <1>7, <2>1, <3>1 DEF Ordered
    <3>3. \A k \in 1 .. n : list[k] = x \/ \E j \in 1 .. n - 1 : list[k] = rest[j]
      <4>1. ASSUME NEW k \in 1 .. n, k # 1 PROVE k - 1 \in 1 .. n - 1 /\ list[k] = rest[k - 1]
        <5>1. k \in 1 .. l + 1
          OBVIOUS
        <5>2. k - 1 \in 1 .. n - 1
          BY <4>1
        <5> QED BY <1>3, <4>1, <5>1, <5>2
      <4> QED BY <1>2, <4>1
    <3>4. ASSUME NEW s \in Above(rest[n])
          PROVE  s \in (first \cup ({x} \ {nil})) \cup {rest[k] : k \in 1 .. n - 1}
      <4>1. s # nil
        BY ImageProperties DEF Above
      <4>2. s \in first \/ \E k \in 1 .. n : s = list[k]
        BY <3>2
      <4>3. s \in first \/ s = x \/ \E j \in 1 .. n - 1 : s = rest[j]
        BY <3>3, <4>2
      <4> QED BY <4>1, <4>3
    <3> QED BY <3>4
  <2>2. x # nil => Above(x) \subseteq first
    <3>1. list[1] # nil => Above(list[1]) \subseteq first \cup {list[k] : k \in 1 .. 1 - 1}
      BY <1>2, <1>4, <1>7 DEF Ordered
    <3>2. 1 .. 1 - 1 = {}
      OBVIOUS
    <3> QED BY <1>2, <3>1, <3>2
  <2> QED BY <1>2, <2>1, <2>2 DEF Ordered
<1>8. Headed(S, list, x, rest)
  BY <1>2, <1>5, <1>6, <1>7 DEF Headed
<1> QED BY <1>0, <1>8

LEMMA CallLoadStep ==
  ASSUME IInv, call_load PROVE IInv'
<1>1. PICK x : x = Head(detached)
  OBVIOUS
<1>2. /\ phase \in {"classes", "categories"} /\ running = nil /\ detached # <<>>
      /\ detached' = Tail(detached) /\ called' = called \cup ({x} \ {nil})
      /\ mapped' = mapped /\ notified' = notified /\ loadable_classes' = loadable_classes
      /\ loadable_categories' = loadable_categories /\ loaded' = loaded /\ phase' = phase
  BY <1>1 DEF call_load, lists
<1>3. /\ TypeInv /\ PhaseInv /\ ImagesInv /\ CoverInv
      /\ ~ClosesWaiting => ExactInv /\ OrderInv
  BY DEF IInv
<1>4. PICK rest : rest = detached'
  OBVIOUS
<1>5. detached \in Seq(Loadable \cup Category \cup {nil})
  BY <1>3 DEF TypeInv
<1>6. /\ rest \in Seq(Loadable \cup Category \cup {nil}) /\ Range(detached) = Range(rest) \cup {x}
      /\ x \in Loadable \cup Category \cup {nil}
      /\ Distinct(detached) => Distinct(rest) /\ (x # nil => x \notin Range(rest))
      /\ \A first : Ordered(detached, first) => Ordered(rest, first \cup ({x} \ {nil}))
  <2>1. Headed(Loadable \cup Category \cup {nil}, detached, x, rest)
    BY <1>1, <1>2, <1>4, <1>5, HeadOf
  <2> QED BY <2>1 DEF Headed
<1>7. /\ Ahead' = IF phase = "classes" THEN Range(rest) ELSE {}
      /\ AheadCategory' = IF phase = "categories" THEN Range(rest) ELSE {}
  BY <1>2, <1>4 DEF Ahead, AheadCategory
<1>8. TypeInv'
  BY <1>2, <1>3, <1>4, <1>6, ImageProperties DEF TypeInv
<1>9. PhaseInv'
  BY <1>2 DEF PhaseInv
<1>10. ImagesInv'
  BY <1>2, <1>3 DEF ImagesInv
<1>11. Ahead \subseteq Ahead' \cup {x} /\ AheadCategory \subseteq AheadCategory' \cup {x}
       /\ Ahead' \subseteq Ahead /\ AheadCategory' \subseteq AheadCategory
  BY <1>6, <1>7 DEF Ahead, AheadCategory
<1>12. CoverInv'
  <2>1. nil \notin Loadable /\ \A j \in Image : nil \notin Categories(j)
    BY ImageProperties
  <2>2. loaded' \cap Loadable \subseteq called' \cup Ahead' \cup Range(loadable_classes')
    BY <1>2, <1>3, <1>11, <2>1 DEF CoverInv
  <2>3. \A j \in notified' : Categories(j) \subseteq called' \cup AheadCategory' \cup Range(loadable_categories')
    BY <1>2, <1>3, <1>11, <2>1 DEF CoverInv, TypeInv
  <2> QED BY <2>2, <2>3 DEF CoverInv
<1>13. ASSUME ~ClosesWaiting PROVE ExactInv' /\ OrderInv'
  <2>1. ExactInv /\ OrderInv
    BY <1>3, <1>13
  <2>2. Distinct(detached') /\ Distinct(loadable_classes') /\ Distinct(loadable_categories')
    BY <1>2, <1>4, <1>6, <2>1 DEF ExactInv
  <2>3. Range(detached') \cap (Range(loadable_classes') \cup Range(loadable_categories')) \subseteq {nil}
    BY <1>2, <1>4, <1>6, <2>1 DEF ExactInv
  <2>4. called' \cap (Range(detached') \cup Range(loadable_classes') \cup Range(loadable_categories')) = {}
    <3>1. x # nil => x \notin Range(loadable_classes) /\ x \notin Range(loadable_categories) /\ x \notin Range(rest)
      BY <1>6, <2>1 DEF ExactInv
    <3>2. called \cap (Range(rest) \cup Range(loadable_classes) \cup Range(loadable_categories)) = {}
      BY <1>6, <2>1 DEF ExactInv
    <3> QED BY <1>2, <1>4, <3>1, <3>2
  <2>5. phase = "classes" => x \in Ahead /\ (x = nil \/ x \in Class)
    BY <1>3, <1>6, ImageProperties DEF Ahead, TypeInv
  <2>6. phase = "categories" => x \in AheadCategory /\ (x = nil \/ x \in Category)
    BY <1>3, <1>6 DEF AheadCategory, TypeInv
  <2>7. Ahead' \cup Range(loadable_classes') \cup (called' \cap Class) \subseteq loaded' \cup {nil}
    <3>1. Ahead \cup Range(loadable_classes) \cup (called \cap Class) \subseteq loaded \cup {nil}
      BY <2>1 DEF ExactInv
    <3>2. x \in Class => x \in Ahead
      BY <1>2, <2>5, <2>6, ImageProperties
    <3> QED BY <1>2, <1>11, <3>1, <3>2
  <2>8. \A k \in AheadCategory' \cup Range(loadable_categories') \cup (called' \cap Category) :
           k # nil => \E j \in notified' : k \in Categories(j)
    <3>1. \A k \in AheadCategory \cup Range(loadable_categories) \cup (called \cap Category) :
             k # nil => \E j \in notified : k \in Categories(j)
      BY <2>1 DEF ExactInv
    <3>2. x \in Category => x \in AheadCategory
      BY <1>2, <2>5, <2>6, ImageProperties
    <3> QED BY <1>2, <1>11, <3>1, <3>2
  <2>9. ExactInv'
    BY <2>2, <2>3, <2>4, <2>7, <2>8 DEF ExactInv
  <2>10. Ordered(loadable_classes', called' \cup Ahead')
    <3>1. Ordered(loadable_classes, called \cup Ahead)
      BY <2>1 DEF OrderInv
    <3>2. ASSUME NEW n \in DOMAIN loadable_classes, loadable_classes[n] # nil
          PROVE  Above(loadable_classes[n]) \subseteq
                   (called' \cup Ahead') \cup {loadable_classes[k] : k \in 1 .. n - 1}
      <4>1. Above(loadable_classes[n]) \subseteq (called \cup Ahead) \cup {loadable_classes[k] : k \in 1 .. n - 1}
        BY <3>1, <3>2 DEF Ordered
      <4>2. nil \notin Above(loadable_classes[n])
        BY ImageProperties DEF Above
      <4> QED BY <1>2, <1>11, <4>1, <4>2
    <3> QED BY <1>2, <3>2 DEF Ordered
  <2>11. phase' = "classes" => Ordered(detached', called')
    BY <1>2, <1>4, <1>6, <2>1 DEF OrderInv
  <2>12. OrderInv'
    BY <1>2, <1>11, <2>1, <2>10, <2>11 DEF OrderInv
  <2> QED BY <2>9, <2>12
<1> QED BY <1>8, <1>9, <1>10, <1>12, <1>13 DEF IInv

LEMMA ReturnStep ==
  ASSUME IInv, return PROVE IInv'
<1>1. UNCHANGED <<mapped, notified, lists, loaded, phase, detached, called>> /\ running' = nil
  BY DEF return
<1>2. TypeInv' /\ PhaseInv'
  BY <1>1 DEF IInv, TypeInv, PhaseInv, lists
<1>3. ImagesInv' /\ CoverInv' /\ (~ClosesWaiting => ExactInv' /\ OrderInv')
  BY <1>1 DEF IInv, ImagesInv, CoverInv, ExactInv, OrderInv, lists, Ahead, AheadCategory
<1> QED BY <1>2, <1>3 DEF IInv

\* The detached list is empty when the loop goes on or ends.
LEMMA EndStep ==
  ASSUME IInv, end_class_loads \/ end_category_loads PROVE IInv'
<1>1. /\ phase \in {"classes", "categories"} /\ running = nil /\ detached = <<>>
      /\ phase' \in {"loop", "idle"}
      /\ phase' = "idle" => loadable_classes = <<>> /\ loadable_categories = <<>>
      /\ UNCHANGED <<mapped, notified, lists, loaded, detached, running, called>>
  BY DEF end_class_loads, end_category_loads
<1>2. Ahead = {} /\ Ahead' = {} /\ AheadCategory = {} /\ AheadCategory' = {}
  BY <1>1 DEF Ahead, AheadCategory, Range
<1>3. TypeInv' /\ PhaseInv'
  BY <1>1 DEF IInv, TypeInv, PhaseInv, lists
<1>4. ImagesInv' /\ CoverInv'
  BY <1>1, <1>2 DEF IInv, ImagesInv, CoverInv, lists
<1>5. ASSUME ~ClosesWaiting PROVE ExactInv' /\ OrderInv'
  BY <1>1, <1>2, <1>5 DEF IInv, ExactInv, OrderInv, lists
<1> QED BY <1>3, <1>4, <1>5 DEF IInv

--------------------------------------------------------------------------------
(* Theorems *)

LEMMA InitInv ==
  Init => IInv
<1> SUFFICES ASSUME Init PROVE IInv
  OBVIOUS
<1>1. Range(<<>>) = {} /\ Ahead = {} /\ AheadCategory = {}
  BY DEF Init, Ahead, AheadCategory, Range
<1>2. TypeInv /\ PhaseInv /\ ImagesInv
  BY DEF Init, TypeInv, PhaseInv, ImagesInv
<1>3. CoverInv
  BY DEF Init, CoverInv
<1>4. ExactInv
  BY <1>1 DEF Init, ExactInv, Distinct
<1>5. OrderInv
  BY <1>1 DEF Init, OrderInv, Ordered
<1> QED BY <1>2, <1>3, <1>4, <1>5 DEF IInv

LEMMA NextInv ==
  IInv /\ [Next]_vars => IInv'
<1> SUFFICES ASSUME IInv, [Next]_vars PROVE IInv'
  OBVIOUS
<1>1. CASE \E i \in Image : dlopen(i) \/ load_images(i) \/ unmap_image(i)
  BY <1>1, DlopenStep, LoadImagesStep, UnmapImageStep
<1>2. CASE detach_classes
  BY <1>2, DetachClassesStep
<1>3. CASE detach_categories
  BY <1>3, DetachCategoriesStep
<1>4. CASE call_load
  BY <1>4, CallLoadStep
<1>5. CASE return
  BY <1>5, ReturnStep
<1>6. CASE end_class_loads \/ end_category_loads
  BY <1>6, EndStep
<1>7. CASE UNCHANGED vars
  BY <1>7 DEF vars, lists, IInv, TypeInv, PhaseInv, ImagesInv, CoverInv, ExactInv, OrderInv, Ahead, AheadCategory
<1> QED BY <1>1, <1>2, <1>3, <1>4, <1>5, <1>6, <1>7 DEF Next

\* Every class that is RW_LOADED has been called or waits, after its superclasses: for
\* any images, while +load methods map and unmap them.
THEOREM InvariantHolds ==
  Spec => []IInv
BY InitInv, NextInv, PTL DEF Spec

\* "no +load method is forgotten because it was added during a +load call".
THEOREM NoneForgottenHolds ==
  Spec => []NoneForgotten
<1>1. IInv => NoneForgotten
  <2> SUFFICES ASSUME IInv, phase = "idle", NEW i \in notified
               PROVE  Range(nlclslist[i]) \cup Categories(i) \subseteq called
    BY DEF NoneForgotten
  <2>1. Ahead = {} /\ AheadCategory = {}
    BY DEF Ahead, AheadCategory
  <2>2. Range(loadable_classes) = {} /\ Range(loadable_categories) = {}
    BY DEF IInv, PhaseInv, Range
  <2>3. Categories(i) \subseteq called
    BY <2>1, <2>2 DEF IInv, CoverInv
  <2>4. i \in Image /\ Range(nlclslist[i]) \subseteq loaded
    BY DEF IInv, TypeInv, ImagesInv
  <2>5. Range(nlclslist[i]) \subseteq Loadable
    BY <2>4 DEF Loadable
  <2>6. loaded \cap Loadable \subseteq called
    BY <2>1, <2>2 DEF IInv, CoverInv
  <2> QED BY <2>3, <2>4, <2>5, <2>6
<1> QED BY <1>1, InvariantHolds, PTL

\* "Class +load methods are called superclass-first.  Category +load methods are not
\* called until after the parent class's +load", and none is called twice, unless a
\* +load method closes an image that waits in the detached list.
THEOREM LoadOrderHolds ==
  ASSUME ClosesWaiting = FALSE
  PROVE  Spec => LoadOrder
<1> DEFINE Called == running' \notin {nil, running} =>
                       /\ running' \notin called
                       /\ running' \in Class =>
                            (Range(Superclasses[running']) \cap Loadable) \ {running'} \subseteq called
                       /\ running' \in Category /\ ClassOf[running'] \in Loadable =>
                            Range(Superclasses[ClassOf[running']]) \cap Loadable \subseteq called
<1>1. ASSUME IInv, Next, running' \notin {nil, running} PROVE Called
  <2>1. call_load
    <3>1. ASSUME NEW i \in Image PROVE ~dlopen(i) /\ ~load_images(i) /\ ~unmap_image(i)
      BY <1>1 DEF dlopen, load_images, unmap_image
    <3>2. ~detach_classes /\ ~detach_categories /\ ~return /\ ~end_class_loads /\ ~end_category_loads
      BY <1>1 DEF detach_classes, detach_categories, return, end_class_loads, end_category_loads
    <3> QED BY <1>1, <3>1, <3>2 DEF Next
  <2>2. PICK x : x = Head(detached)
    OBVIOUS
  <2>3. /\ running' = x /\ x # nil /\ phase \in {"classes", "categories"} /\ detached # <<>>
    BY <1>1, <2>1, <2>2 DEF call_load
  <2>4. TypeInv /\ ExactInv /\ OrderInv
    BY <1>1 DEF IInv
  <2>5. PICK rest : rest = Tail(detached)
    OBVIOUS
  <2>6. Headed(Loadable \cup Category \cup {nil}, detached, x, rest)
    BY <2>2, <2>3, <2>4, <2>5, HeadOf DEF TypeInv
  <2>7. x \in Range(detached) /\ \A first : Ordered(detached, first) => Above(x) \subseteq first
    BY <2>3, <2>6 DEF Headed
  <2>8. x \notin called
    BY <2>4, <2>7 DEF ExactInv
  <2>9. x \in Class => Above(x) \subseteq called
    <3>1. x \in Class => phase = "classes"
      BY <2>3, <2>4, <2>7, ImageProperties DEF TypeInv
    <3> QED BY <2>4, <2>7, <3>1 DEF OrderInv
  <2>10. x \in Category /\ ClassOf[x] \in Loadable => Range(Superclasses[ClassOf[x]]) \cap Loadable \subseteq called
    <3>1. x \in Category => phase = "categories"
      BY <2>3, <2>4, <2>7, ImageProperties DEF TypeInv
    <3>2. x \in Category => x \in AheadCategory \ {nil}
      BY <2>3, <2>7, <3>1 DEF AheadCategory
    <3> QED BY <2>4, <3>2 DEF OrderInv
  <2> QED BY <2>3, <2>8, <2>9, <2>10 DEF Above
<1>2. IInv /\ [Next]_vars => [Called]_vars
  BY <1>1 DEF vars
<1> QED BY <1>2, InvariantHolds, PTL DEF Spec, LoadOrder
================================================================================
